------------------------- MODULE TxClassifierProofs -------------------------
(***************************************************************************)
(* Proofs about the transaction listeners: for any accounts, assets,       *)
(* transaction and number of notifications and faults, no deposit and no   *)
(* withdrawal is announced twice, and the stored ones are those of the     *)
(* coins of the transaction.                                               *)
(***************************************************************************)
EXTENDS TxClassifier, FiniteSetTheorems, TLAPS

\* Amounts of some assets, and a record of them.
Amounts == UNION {[S -> Int] : S \in SUBSET Assets}
Record == [account : Accounts, amounts : Amounts]

HandlerRecord ==
  [pc : {"wait", "deposit", "withdrawal"}, todo : SUBSET Record, list : SUBSET Record,
   second : SUBSET Record, count : Nat]

Types ==
  /\ tx \in Transactions
  /\ handler \in HandlerRecord
  /\ DOMAIN deposits = Accounts
  /\ pending \in [Kinds -> [Accounts -> Nat]]
  /\ published \in [Kinds -> [Accounts -> Nat]]

\* A list with one record of an account.
OneEach(list) == \A r, s \in list : r.account = s.account => r = s

\* An event of the kind is on its way or was published.
Announced(k) == \E a \in Accounts : published[k][a] + pending[k][a] > 0

\* The list of deposits in work covers every account that would be classified as a
\* depositor now, for accounts are only ever deleted.
ListOK ==
  /\ OneEach(handler.list) /\ OneEach(handler.second)
  /\ handler.todo \subseteq handler.list
  /\ handler.pc = "deposit" =>
       /\ \A a \in AccountNames : isDeposit(a) => \E r \in handler.list : r.account = a
       /\ \A r \in handler.list \ handler.todo : deposits[r.account] # NoRecord

\* Deposits are announced when all of them are stored: later lists hold none that
\* is not.
DepositsDone ==
  Announced("deposit") =>
    /\ \A a \in AccountNames : isDeposit(a) => deposits[a] # NoRecord
    /\ handler.pc = "deposit" =>
         /\ handler.count = 0
         /\ \A r \in handler.list : deposits[r.account] # NoRecord

\* A withdrawal is announced when it is stored, and only one ever is.
WithdrawalsDone ==
  /\ Announced("withdrawal") =>
       /\ withdrawals # NoRecord
       /\ handler.pc = "withdrawal" => handler.count = 0
  /\ handler.pc = "withdrawal" /\ handler.count > 0 => withdrawals # NoRecord

\* The inductive invariant: what was announced is stored, so that nothing is new.
IInv == Types /\ ListOK /\ DepositsDone /\ WithdrawalsDone /\ AnnouncedOnce

\* At most one event for an account.
LEMMA NumOfOneEach ==
  ASSUME NEW list, OneEach(list), NEW a
  PROVE  NumOf(list, a) \in 0..1
  <1>1. CASE \E r \in list : r.account = a
    <2>1. PICK r \in list : r.account = a
      BY Zenon, <1>1
    <2>2. {s \in list : s.account = a} = {r}
      BY Zenon, <2>1 DEF OneEach
    <2> QED BY <2>2, FS_Singleton DEF NumOf
  <1>2. CASE ~\E r \in list : r.account = a
    <2>1. {s \in list : s.account = a} = {}
      BY Zenon, <1>2
    <2> QED BY <2>1, FS_EmptySet DEF NumOf
  <1> QED BY Zenon, <1>1, <1>2

\* The amounts of the transaction are unsigned integers, and it is the same one in
\* every step.
LEMMA TxType ==
  ASSUME tx \in Transactions
  PROVE  /\ tx \in [in : [Owners -> [Assets -> Nat]], out : [Owners -> [Assets -> Nat]],
                    fee : Nat, known : BOOLEAN]
         /\ \A o \in Owners, asset \in Assets :
              /\ tx.in[o][asset] \in Nat /\ tx.out[o][asset] \in Nat
              /\ tx.in[o][asset] < Word
         /\ Accounts \subseteq Owners
         /\ Word \in Nat \ {0}
  <1>1. /\ tx \in [in : [Owners -> [Assets -> 0..(Word - 1)]],
                   out : [Owners -> [Assets -> 0..(Word - 1)]], fee : Nat, known : BOOLEAN]
        /\ Word \in Nat \ {0}
    BY Zenon, ClassifierAssumption
  <1>2. tx.in \in [Owners -> [Assets -> 0..(Word - 1)]]
        /\ tx.out \in [Owners -> [Assets -> 0..(Word - 1)]]
    BY Zenon, <1>1
  <1>3. \A o \in Owners, asset \in Assets :
          tx.in[o][asset] \in 0..(Word - 1) /\ tx.out[o][asset] \in 0..(Word - 1)
    BY Zenon, <1>2
  <1>4. 0..(Word - 1) \subseteq Nat
    OBVIOUS
  <1>5. tx.in \in [Owners -> [Assets -> Nat]] /\ tx.out \in [Owners -> [Assets -> Nat]]
    BY Zenon, <1>2, <1>4
  <1>6. tx \in [in : [Owners -> [Assets -> Nat]], out : [Owners -> [Assets -> Nat]],
                fee : Nat, known : BOOLEAN]
    BY Zenon, <1>1, <1>5
  <1>7. \A o \in Owners, asset \in Assets :
          /\ tx.in[o][asset] \in Nat /\ tx.out[o][asset] \in Nat
          /\ tx.in[o][asset] < Word
    BY <1>1, <1>3
  <1>8. Accounts \subseteq Owners
    BY Zenon DEF Owners
  <1> QED BY Zenon, <1>1, <1>6, <1>7, <1>8

\* What is classified are records (operator/service.go, classifyAndStoreTx).
LEMMA Classified ==
  ASSUME Types, NEW a \in Accounts
  PROVE  /\ [account |-> a, amounts |-> depositAmountPerAsset(a)] \in Record
         /\ [account |-> a, amounts |-> withdrawalAmountPerAsset(a)] \in Record
  <1>1. /\ tx \in [in : [Owners -> [Assets -> Nat]], out : [Owners -> [Assets -> Nat]],
                   fee : Nat, known : BOOLEAN]
        /\ a \in Owners /\ Word \in Nat \ {0}
    BY Zenon, TxType DEF Types
  <1>2. ownedOutputs(a) \in SUBSET Assets /\ ownedInputs(a) \in SUBSET Assets
    BY Zenon DEF ownedOutputs, ownedInputs, Gained, Spent
  <1>3. depositAmountPerAsset(a) \in [ownedOutputs(a) -> Int]
    BY <1>1, <1>2 DEF depositAmountPerAsset
  <1>4. withdrawalAmountPerAsset(a) \in [ownedInputs(a) -> Int]
    BY <1>1, <1>2 DEF withdrawalAmountPerAsset
  <1>5. \A S \in SUBSET Assets : [S -> Int] \subseteq Amounts
    BY Zenon DEF Amounts
  <1> QED BY Zenon, <1>2, <1>3, <1>4, <1>5 DEF Record

\* Nothing is stored or announced at first.
LEMMA InitIInv == Init => IInv
  <1> SUFFICES ASSUME Init PROVE IInv
    BY Zenon
  <1>1. /\ pending = NoEvents /\ published = NoEvents /\ handler = Waiting
        /\ tx \in Transactions /\ deposits = [a \in Accounts |-> NoRecord]
    BY Zenon DEF Init
  <1>2. Types /\ handler.pc = "wait" /\ handler.list = {} /\ handler.todo = {}
        /\ handler.second = {}
    BY Zenon, <1>1 DEF Types, HandlerRecord, Waiting, Handler, NoEvents, Kinds
  <1>3. \A k \in Kinds, a \in Accounts : published[k][a] = 0 /\ pending[k][a] = 0
    BY Zenon, <1>1 DEF NoEvents
  <1>4. \A k \in Kinds : ~Announced(k)
    BY <1>3 DEF Announced
  <1>5. ListOK
    BY Zenon, <1>2 DEF ListOK, OneEach
  <1>6. DepositsDone /\ WithdrawalsDone
    BY Zenon, <1>2, <1>4 DEF DepositsDone, WithdrawalsDone, Kinds
  <1>7. AnnouncedOnce
    BY <1>3 DEF AnnouncedOnce
  <1> QED BY Zenon, <1>2, <1>5, <1>6, <1>7 DEF IInv

\* The idle handler is one.
LEMMA WaitingFacts ==
  /\ Waiting \in HandlerRecord /\ Waiting.pc = "wait" /\ Waiting.list = {}
  /\ Waiting.todo = {} /\ Waiting.second = {}
  BY Zenon DEF Waiting, Handler, HandlerRecord

\* An idle handler breaks nothing, as long as the records and the events are left
\* alone and no account appears.
LEMMA IdleIInv ==
  ASSUME IInv, handler' = Waiting,
         UNCHANGED <<tx, deposits, withdrawals, addresses>>,
         pending' = pending \/ pending' = NoEvents, published' = published
  PROVE  IInv'
  <1>1. /\ handler' \in HandlerRecord /\ handler'.pc = "wait" /\ handler'.list = {}
        /\ handler'.todo = {} /\ handler'.second = {}
    BY Zenon, WaitingFacts
  <1>2. pending' \in [Kinds -> [Accounts -> Nat]]
        /\ \A k \in Kinds, a \in Accounts : pending'[k][a] = pending[k][a] \/ pending'[k][a] = 0
    BY DEF IInv, Types, NoEvents
  <1>3. /\ pending \in [Kinds -> [Accounts -> Nat]] /\ published \in [Kinds -> [Accounts -> Nat]]
    BY Zenon DEF IInv, Types
  <1>4. Types'
    BY Zenon, <1>1, <1>2 DEF IInv, Types
  <1>5. ListOK'
    BY Zenon, <1>1 DEF ListOK, OneEach
  <1>6. \A k \in Kinds : Announced(k)' => Announced(k)
    BY <1>2, <1>3 DEF Announced
  <1>7. AnnouncedOnce'
    BY <1>2, <1>3 DEF IInv, AnnouncedOnce
  <1>8. \A a \in AccountNames : a \in AccountNames' /\ (isDeposit(a)' => isDeposit(a))
    BY Zenon DEF AccountNames, isDeposit, ownedInputs, ownedOutputs, Owned, Spent, Gained
  <1>9. AccountNames' = AccountNames
    BY Zenon DEF AccountNames, Spent, Gained
  <1>10. DepositsDone' /\ WithdrawalsDone'
    BY Zenon, <1>1, <1>6, <1>8, <1>9 DEF IInv, DepositsDone, WithdrawalsDone, Kinds
  <1> QED BY Zenon, <1>4, <1>5, <1>7, <1>10 DEF IInv

\* A notification is classified with the accounts there are (operator/service.go,
\* classifyAndStoreTx).
LEMMA ReceiveIInv ==
  ASSUME IInv, Receive
  PROVE  IInv'
  <1> DEFINE new == {[account |-> a, amounts |-> depositAmountPerAsset(a)] :
                       a \in {b \in AccountNames : isDeposit(b)}}
             gone == {[account |-> a, amounts |-> withdrawalAmountPerAsset(a)] :
                       a \in {b \in AccountNames : isWithdrawal(b)}}
  <1>1. /\ handler' = handler \/ handler' = Handler("deposit", new, new, gone, 0)
        /\ UNCHANGED <<tx, deposits, withdrawals, addresses, pending, published>>
    BY Zenon DEF Receive
  <1>2. new \in SUBSET Record /\ gone \in SUBSET Record
    BY Zenon, Classified DEF IInv, AccountNames
  <1>3. OneEach(new) /\ OneEach(gone)
    BY DEF OneEach
  <1>4. \A a \in AccountNames : isDeposit(a) => \E r \in new : r.account = a
    <2> SUFFICES ASSUME NEW a \in AccountNames, isDeposit(a)
                 PROVE  \E r \in new : r.account = a
      BY Zenon
    <2>1. [account |-> a, amounts |-> depositAmountPerAsset(a)] \in new
      BY Zenon
    <2> QED BY Zenon, <2>1
  <1>5. \A r \in new : r.account \in AccountNames /\ isDeposit(r.account)
    OBVIOUS
  <1> HIDE DEF new, gone
  <1>6. /\ AccountNames' = AccountNames /\ \A a : isDeposit(a)' <=> isDeposit(a)
    BY Zenon, <1>1 DEF AccountNames, isDeposit, ownedInputs, ownedOutputs, Owned, Spent, Gained
  <1>7. \A k : Announced(k)' <=> Announced(k)
    BY Zenon, <1>1 DEF Announced
  <1>8. AnnouncedOnce'
    BY Zenon, <1>1 DEF IInv, AnnouncedOnce
  <1>9. CASE handler' = handler
    <2>1. Types' /\ ListOK'
      BY Zenon, <1>1, <1>6, <1>9 DEF IInv, Types, ListOK, OneEach
    <2>2. DepositsDone' /\ WithdrawalsDone'
      BY Zenon, <1>1, <1>6, <1>7, <1>9 DEF IInv, DepositsDone, WithdrawalsDone
    <2> QED BY Zenon, <1>8, <2>1, <2>2 DEF IInv
  <1>10. CASE handler' = Handler("deposit", new, new, gone, 0)
    <2>1. /\ handler' \in HandlerRecord
          /\ handler'.pc = "deposit" /\ handler'.todo = new /\ handler'.list = new
          /\ handler'.second = gone /\ handler'.count = 0
      BY Zenon, <1>2, <1>10 DEF Handler, HandlerRecord
    <2>2. Types'
      BY Zenon, <1>1, <2>1 DEF IInv, Types
    <2>3. ListOK'
      BY Zenon, <1>3, <1>4, <1>6, <2>1 DEF ListOK, OneEach
    <2>4. DepositsDone'
      BY Zenon, <1>1, <1>5, <1>6, <1>7, <2>1 DEF IInv, DepositsDone
    <2>5. WithdrawalsDone'
      BY Zenon, <1>1, <1>7, <2>1 DEF IInv, WithdrawalsDone
    <2> QED BY Zenon, <1>8, <2>2, <2>3, <2>4, <2>5 DEF IInv
  <1> QED BY Zenon, <1>1, <1>9, <1>10

\* A record is new only if none of its kind was announced (operator/service.go,
\* classifyAndStoreTx).
LEMMA InsertRecordIInv ==
  ASSUME IInv, InsertRecord
  PROVE  IInv'
  <1>1. PICK r \in handler.todo :
          /\ InsertDeposit(r) \/ InsertWithdrawal(r)
          /\ handler' = [handler EXCEPT
               !.todo = @ \ {r},
               !.count = IF <<deposits, withdrawals>>' = <<deposits, withdrawals>>
                         THEN @ ELSE @ + 1]
          /\ UNCHANGED <<tx, addresses, published, pending>>
    BY Zenon DEF InsertRecord, HandlerVars
  <1>2. handler \in HandlerRecord /\ r \in handler.list /\ r \in Record
        /\ r.account \in Accounts /\ r.amounts \in Amounts /\ DOMAIN deposits = Accounts
    BY Zenon DEF IInv, Types, ListOK, HandlerRecord, Record
  <1>3. r.amounts # NoRecord /\ r # NoRecord
    <2>1. PICK S \in SUBSET Assets : r.amounts \in [S -> Int]
      BY Zenon, <1>2 DEF Amounts
    <2>2. r \in [account : Accounts, amounts : [S -> Int]]
      BY Zenon, <1>2, <2>1 DEF Record
    <2> QED BY Zenon, <2>1, <2>2, ClassifierAssumption
  <1>4. /\ handler' \in HandlerRecord /\ handler'.pc = handler.pc
        /\ handler'.todo = handler.todo \ {r} /\ handler'.list = handler.list
        /\ handler'.second = handler.second
        /\ handler'.count = IF <<deposits, withdrawals>>' = <<deposits, withdrawals>>
                            THEN handler.count ELSE handler.count + 1
        /\ handler.count \in Nat
    <2> DEFINE t == handler.todo \ {r}
               n == IF <<deposits, withdrawals>>' = <<deposits, withdrawals>>
                    THEN handler.count ELSE handler.count + 1
    <2>1. handler' = [handler EXCEPT !.todo = t, !.count = n]
      BY Zenon, <1>1, <1>2 DEF HandlerRecord
    <2>2. t \in SUBSET Record /\ n \in Nat /\ handler.count \in Nat
      BY <1>2 DEF HandlerRecord
    <2> HIDE DEF t, n
    <2>3. /\ handler' \in HandlerRecord /\ handler'.pc = handler.pc
          /\ handler'.todo = t /\ handler'.list = handler.list
          /\ handler'.second = handler.second /\ handler'.count = n
      BY Zenon, <1>2, <2>1, <2>2 DEF HandlerRecord
    <2> QED BY Zenon, <2>2, <2>3 DEF t, n
  <1>5. /\ AccountNames' = AccountNames /\ \A a : isDeposit(a)' <=> isDeposit(a)
    BY Zenon, <1>1 DEF AccountNames, isDeposit, ownedInputs, ownedOutputs, Owned, Spent, Gained
  <1>6. \A k : Announced(k)' <=> Announced(k)
    BY Zenon, <1>1 DEF Announced
  <1>7. AnnouncedOnce'
    BY Zenon, <1>1 DEF IInv, AnnouncedOnce
  <1>8. CASE InsertDeposit(r)
    <2>1. /\ handler.pc = "deposit" /\ withdrawals' = withdrawals
          /\ deposits' = IF deposits[r.account] = NoRecord
                         THEN [deposits EXCEPT ![r.account] = r.amounts] ELSE deposits
      BY Zenon, <1>8 DEF InsertDeposit
    <2>2. /\ DOMAIN deposits' = Accounts /\ deposits'[r.account] # NoRecord
          /\ \A a \in Accounts : deposits[a] # NoRecord => deposits'[a] = deposits[a]
      BY Zenon, <1>2, <1>3, <2>1
    <2>3. Types'
      BY Zenon, <1>1, <1>4, <2>2 DEF IInv, Types
    <2>4. \A q \in handler.list : q.account \in Accounts
      BY Zenon, <1>2 DEF HandlerRecord, Record
    <2>5. ListOK'
      BY Zenon, <1>4, <1>5, <2>1, <2>2, <2>4 DEF IInv, ListOK, OneEach
    <2>6. ASSUME Announced("deposit") PROVE handler'.count = 0 /\ deposits' = deposits
      <3>1. handler.count = 0 /\ deposits[r.account] # NoRecord
        BY Zenon, <1>2, <2>1, <2>6 DEF IInv, DepositsDone
      <3>2. deposits' = deposits
        BY Zenon, <2>1, <3>1
      <3> QED BY Zenon, <1>4, <2>1, <3>1, <3>2
    <2>7. DepositsDone'
      BY Zenon, <1>4, <1>5, <1>6, <2>6 DEF IInv, DepositsDone
    <2>8. WithdrawalsDone'
      BY Zenon, <1>4, <1>6, <2>1 DEF IInv, WithdrawalsDone
    <2> QED BY Zenon, <1>7, <2>3, <2>5, <2>7, <2>8 DEF IInv
  <1>9. CASE InsertWithdrawal(r)
    <2>1. /\ handler.pc = "withdrawal" /\ deposits' = deposits
          /\ withdrawals' = IF withdrawals = NoRecord THEN r ELSE withdrawals
      BY Zenon, <1>9 DEF InsertWithdrawal
    <2>2. Types' /\ ListOK'
      BY Zenon, <1>1, <1>4, <2>1 DEF IInv, Types, ListOK, OneEach
    <2>3. DepositsDone'
      BY Zenon, <1>4, <1>5, <1>6, <2>1 DEF IInv, DepositsDone
    <2>4. withdrawals' # NoRecord
      BY Zenon, <1>3, <2>1
    <2>5. Announced("withdrawal") => handler'.count = 0
      <3> SUFFICES ASSUME Announced("withdrawal") PROVE handler'.count = 0
        BY Zenon
      <3>1. withdrawals' = withdrawals /\ handler.count = 0
        BY Zenon, <2>1 DEF IInv, WithdrawalsDone
      <3> QED BY Zenon, <1>4, <2>1, <3>1
    <2>6. WithdrawalsDone'
      BY Zenon, <1>6, <2>4, <2>5 DEF WithdrawalsDone
    <2> QED BY Zenon, <1>7, <2>2, <2>3, <2>6 DEF IInv
  <1> QED BY Zenon, <1>1, <1>8, <1>9

\* The handler goes on after its insertions, having announced or not: the events
\* of the new state must be of records that are stored.
LEMMA AfterInsertsIInv ==
  ASSUME IInv, AfterInserts, UNCHANGED <<tx, deposits, withdrawals, addresses, published>>,
         pending' \in [Kinds -> [Accounts -> Nat]],
         AnnouncedOnce',
         Announced("deposit")' => \A a \in AccountNames : isDeposit(a) => deposits[a] # NoRecord,
         Announced("withdrawal")' => withdrawals # NoRecord
  PROVE  IInv'
  <1>1. handler \in HandlerRecord
    BY Zenon DEF IInv, Types
  <1>2. /\ handler' \in HandlerRecord /\ handler'.pc \in {"withdrawal", "wait"}
        /\ handler'.list \in {handler.second, {}} /\ handler'.todo = handler'.list
        /\ handler'.second = {} /\ handler'.count = 0
    <2>1. CASE handler.pc = "deposit"
      <3>1. handler' = Handler("withdrawal", handler.second, handler.second, {}, 0)
        BY Zenon, <2>1 DEF AfterInserts
      <3> QED BY Zenon, <1>1, <3>1 DEF Handler, HandlerRecord
    <2>2. CASE handler.pc # "deposit"
      <3>1. handler' = Handler("wait", {}, {}, {}, 0)
        BY Zenon, <2>2 DEF AfterInserts, Waiting
      <3> QED BY Zenon, <3>1 DEF Handler, HandlerRecord
    <2> QED BY Zenon, <2>1, <2>2
  <1>3. Types'
    BY Zenon, <1>2 DEF IInv, Types
  <1>4. ListOK'
    BY Zenon, <1>2 DEF IInv, ListOK, OneEach
  <1>5. /\ AccountNames' = AccountNames /\ \A a : isDeposit(a)' <=> isDeposit(a)
    BY Zenon DEF AccountNames, isDeposit, ownedInputs, ownedOutputs, Owned, Spent, Gained
  <1>6. DepositsDone' /\ WithdrawalsDone'
    BY <1>2, <1>5 DEF DepositsDone, WithdrawalsDone
  <1> QED BY Zenon, <1>3, <1>4, <1>6 DEF IInv

\* An error announces nothing (operator/service.go, classifyAndStoreTx).
LEMMA InsertFailsIInv ==
  ASSUME IInv, InsertFails
  PROVE  IInv'
  <1>1. /\ AfterInserts
        /\ UNCHANGED <<tx, deposits, withdrawals, addresses, published, pending>>
    BY Zenon DEF InsertFails
  <1>2. AnnouncedOnce' /\ pending' \in [Kinds -> [Accounts -> Nat]]
        /\ \A k : Announced(k)' <=> Announced(k)
    BY Zenon, <1>1 DEF IInv, AnnouncedOnce, Types, Announced
  <1>3. /\ Announced("deposit")' => \A a \in AccountNames : isDeposit(a) => deposits[a] # NoRecord
        /\ Announced("withdrawal")' => withdrawals # NoRecord
    BY Zenon, <1>2 DEF IInv, DepositsDone, WithdrawalsDone
  <1> QED BY Zenon, <1>1, <1>2, <1>3, AfterInsertsIInv

\* The list is announced if a record was new, hence for the first time
\* (operator/service.go, classifyAndStoreTx).
LEMMA AnnounceIInv ==
  ASSUME IInv, Announce
  PROVE  IInv'
  <1> DEFINE k == handler.pc
  <1>1. /\ k # "wait" /\ handler.todo = {} /\ AfterInserts
        /\ pending' = IF handler.count = 0 THEN pending
                      ELSE [pending EXCEPT ![k] =
                              [a \in Accounts |-> @[a] + NumOf(handler.list, a)]]
        /\ UNCHANGED <<tx, deposits, withdrawals, addresses, published>>
    BY Zenon DEF Announce
  <1>2. /\ handler \in HandlerRecord /\ k \in Kinds /\ handler.count \in Nat
        /\ pending \in [Kinds -> [Accounts -> Nat]] /\ published \in [Kinds -> [Accounts -> Nat]]
    BY Zenon, <1>1 DEF IInv, Types, HandlerRecord, Kinds
  <1>3. \A a : NumOf(handler.list, a) \in 0..1
    BY Zenon, NumOfOneEach DEF IInv, ListOK
  <1>4. CASE handler.count = 0
    <2>1. AnnouncedOnce' /\ pending' \in [Kinds -> [Accounts -> Nat]]
          /\ \A j : Announced(j)' <=> Announced(j)
      BY Zenon, <1>1, <1>4 DEF IInv, AnnouncedOnce, Types, Announced
    <2>2. /\ Announced("deposit")' => \A a \in AccountNames : isDeposit(a) => deposits[a] # NoRecord
          /\ Announced("withdrawal")' => withdrawals # NoRecord
      BY Zenon, <2>1 DEF IInv, DepositsDone, WithdrawalsDone
    <2> QED BY Zenon, <1>1, <2>1, <2>2, AfterInsertsIInv
  <1>5. CASE handler.count > 0
    <2>1. ~Announced(k)
      BY <1>2, <1>5 DEF IInv, DepositsDone, WithdrawalsDone, Kinds
    <2>2. \A a \in Accounts : published[k][a] = 0 /\ pending[k][a] = 0
      <3> HIDE DEF k
      <3> SUFFICES ASSUME NEW a \in Accounts PROVE published[k][a] = 0 /\ pending[k][a] = 0
        BY Zenon
      <3>1. published[k][a] \in Nat /\ pending[k][a] \in Nat
        BY Zenon, <1>2
      <3>2. ~(published[k][a] + pending[k][a] > 0)
        BY Zenon, <2>1 DEF Announced
      <3> QED BY <3>1, <3>2
    <2> HIDE DEF k
    <2>3. pending' = [pending EXCEPT ![k] = [a \in Accounts |-> pending[k][a] + NumOf(handler.list, a)]]
      BY <1>1, <1>2, <1>5
    <2>4. [a \in Accounts |-> pending[k][a] + NumOf(handler.list, a)] \in [Accounts -> Nat]
      BY <1>2, <1>3
    <2>5. /\ pending' \in [Kinds -> [Accounts -> Nat]]
          /\ \A j \in Kinds : j # k => pending'[j] = pending[j]
          /\ \A a \in Accounts : pending'[k][a] = pending[k][a] + NumOf(handler.list, a)
      BY Zenon, <1>2, <2>3, <2>4
    <2>6. \A a \in Accounts : published'[k][a] + pending'[k][a] <= 1
      BY <1>1, <1>3, <2>2, <2>5
    <2>7. AnnouncedOnce'
      BY Zenon, <1>1, <2>5, <2>6 DEF IInv, AnnouncedOnce
    <2>8. \A j \in Kinds : Announced(j)' => Announced(j) \/ j = k
      BY Zenon, <1>1, <2>5 DEF Announced
    <2>9. k = "deposit" => \A a \in AccountNames : isDeposit(a) => deposits[a] # NoRecord
      BY Zenon, <1>1 DEF IInv, ListOK, k
    <2>10. k = "withdrawal" => withdrawals # NoRecord
      BY Zenon, <1>5 DEF IInv, WithdrawalsDone, k
    <2>11. /\ Announced("deposit")' => \A a \in AccountNames : isDeposit(a) => deposits[a] # NoRecord
           /\ Announced("withdrawal")' => withdrawals # NoRecord
      BY Zenon, <2>8, <2>9, <2>10 DEF IInv, DepositsDone, WithdrawalsDone, Kinds
    <2> QED BY Zenon, <1>1, <2>5, <2>7, <2>11, AfterInsertsIInv
  <1> QED BY <1>2, <1>4, <1>5

\* An event goes from the goroutine to the publisher (operator/service.go,
\* classifyAndStoreTx).
LEMMA PublishIInv ==
  ASSUME IInv, NEW k \in Kinds, Publish(k)
  PROVE  IInv'
  <1>1. PICK a \in Accounts :
          /\ pending[k][a] > 0
          /\ pending' = [pending EXCEPT ![k][a] = @ - 1]
          /\ published' = IF a \in Fragmenters THEN published
                          ELSE [published EXCEPT ![k][a] = @ + 1]
    BY Zenon DEF Publish
  <1>2. UNCHANGED <<tx, handler, deposits, withdrawals, addresses>>
    BY Zenon DEF Publish
  <1>3. /\ pending \in [Kinds -> [Accounts -> Nat]] /\ published \in [Kinds -> [Accounts -> Nat]]
    BY Zenon DEF IInv, Types
  <1>4. /\ pending' \in [Kinds -> [Accounts -> Nat]] /\ published' \in [Kinds -> [Accounts -> Nat]]
    <2>1. pending[k][a] - 1 \in Nat /\ published[k][a] + 1 \in Nat
      BY <1>1, <1>3
    <2> QED BY Zenon, <1>1, <1>3, <2>1
  <1>5. \A j \in Kinds, b \in Accounts :
          published'[j][b] + pending'[j][b] <= published[j][b] + pending[j][b]
    <2> SUFFICES ASSUME NEW j \in Kinds, NEW b \in Accounts
                 PROVE  published'[j][b] + pending'[j][b] <= published[j][b] + pending[j][b]
      BY Zenon
    <2>1. published[j][b] \in Nat /\ pending[j][b] \in Nat
      BY Zenon, <1>3
    <2>2. CASE j = k /\ b = a
      <3>1. /\ pending'[j][b] = pending[j][b] - 1
            /\ published'[j][b] \in {published[j][b], published[j][b] + 1}
        BY Zenon, <1>1, <1>3, <2>2
      <3> QED BY <2>1, <3>1
    <2>3. CASE ~(j = k /\ b = a)
      <3>1. pending'[j][b] = pending[j][b] /\ published'[j][b] = published[j][b]
        BY Zenon, <1>1, <1>3, <2>3
      <3> QED BY <2>1, <3>1
    <2> QED BY Zenon, <2>2, <2>3
  <1>6. \A j \in Kinds, b \in Accounts : /\ published'[j][b] + pending'[j][b] \in Nat
                                         /\ published[j][b] + pending[j][b] \in Nat
    BY <1>3, <1>4
  <1>7. AnnouncedOnce'
    BY <1>5, <1>6 DEF IInv, AnnouncedOnce
  <1>8. \A j \in Kinds : Announced(j)' => Announced(j)
    BY <1>5, <1>6 DEF Announced
  <1>9. /\ AccountNames' = AccountNames /\ \A b : isDeposit(b)' <=> isDeposit(b)
    BY Zenon, <1>2 DEF AccountNames, isDeposit, ownedInputs, ownedOutputs, Owned, Spent, Gained
  <1>10. Types' /\ ListOK'
    BY Zenon, <1>2, <1>4, <1>9 DEF IInv, Types, ListOK, OneEach
  <1>11. DepositsDone' /\ WithdrawalsDone'
    BY Zenon, <1>2, <1>8, <1>9 DEF IInv, DepositsDone, WithdrawalsDone, Kinds
  <1> QED BY Zenon, <1>7, <1>10, <1>11 DEF IInv

\* With fewer accounts, fewer are classified as depositors (operator/service.go,
\* DropMarket).
LEMMA FewerAccountsIInv ==
  ASSUME IInv, addresses' \subseteq addresses,
         UNCHANGED <<tx, handler, deposits, withdrawals, pending, published>>
  PROVE  IInv'
  <1>1. AccountNames' = AccountNames
    BY Zenon DEF AccountNames, Spent, Gained
  <1>2. \A a \in AccountNames : isDeposit(a)' => isDeposit(a)
    <2> SUFFICES ASSUME NEW a \in AccountNames, isDeposit(a)' PROVE isDeposit(a)
      BY Zenon
    <2>1. Spent(a)' = Spent(a) /\ Gained(a)' = Gained(a)
      BY Zenon DEF Spent, Gained
    <2>2. Owned(a)'
      BY Zenon DEF isDeposit, ownedOutputs
    <2>3. Owned(a)
      BY Zenon, <2>2 DEF Owned
    <2> QED BY Zenon, <2>1, <2>2, <2>3 DEF isDeposit, ownedInputs, ownedOutputs
  <1>3. \A k : Announced(k)' <=> Announced(k)
    BY Zenon DEF Announced
  <1>4. Types' /\ ListOK' /\ AnnouncedOnce'
    BY Zenon, <1>1, <1>2 DEF IInv, Types, ListOK, OneEach, AnnouncedOnce
  <1>5. DepositsDone' /\ WithdrawalsDone'
    BY Zenon, <1>1, <1>2, <1>3 DEF IInv, DepositsDone, WithdrawalsDone
  <1> QED BY Zenon, <1>4, <1>5 DEF IInv

\* Every step keeps the invariant.
LEMMA NextIInv == IInv /\ [Next]_vars => IInv'
  <1> SUFFICES ASSUME IInv, [Next]_vars PROVE IInv'
    BY Zenon
  <1>1. CASE Receive
    BY Zenon, <1>1, ReceiveIInv
  <1>2. CASE InsertRecord
    BY Zenon, <1>2, InsertRecordIInv
  <1>3. CASE Announce
    BY Zenon, <1>3, AnnounceIInv
  <1>4. CASE InsertFails
    BY Zenon, <1>4, InsertFailsIInv
  <1>5. ASSUME NEW k \in Kinds, Publisher(k) PROVE IInv'
    <2>1. CASE Publish(k)
      BY Zenon, <2>1, PublishIInv
    <2>2. CASE PublishPanics(k)
      BY Zenon, <2>2, IdleIInv DEF PublishPanics, Dies
    <2> QED BY Zenon, <1>5, <2>1, <2>2 DEF Publisher
  <1>6. CASE Crash
    BY Zenon, <1>6, IdleIInv DEF Crash, Dies
  <1>7. CASE DeleteAccount
    <2>1. addresses' \subseteq addresses
      BY Zenon, <1>7 DEF DeleteAccount
    <2> QED BY Zenon, <1>7, <2>1, FewerAccountsIInv DEF DeleteAccount
  <1>8. CASE DeleteMarket \/ Restart \/ UNCHANGED vars
    BY Zenon, <1>8, FewerAccountsIInv DEF DeleteMarket, Restart, vars
  <1> QED BY Zenon, <1>1, <1>2, <1>3, <1>4, <1>5, <1>6, <1>7, <1>8 DEF Next, HandlerStep

\* No deposit and no withdrawal is announced twice, for any accounts, assets,
\* transaction, notifications, failed writes and crashes (operator/service.go,
\* classifyAndStoreTx).
THEOREM EventsAnnouncedOnce == Spec => []AnnouncedOnce
  <1>1. IInv => AnnouncedOnce
    BY Zenon DEF IInv
  <1> QED BY <1>1, InitIInv, NextIInv, PTL DEF Spec

-----------------------------------------------------------------------------
(***************************************************************************)
(* The records and the coins.                                              *)
(***************************************************************************)
\* A record of a deposit, and of a withdrawal, that the coins bear out.
DepositIs(a, amounts) ==
  /\ Deposited(a)
  /\ \A asset \in DOMAIN amounts : amounts[asset] = Net(a, asset)
WithdrawalIs(a, amounts) ==
  /\ Withdrew(a)
  /\ a # FeeAccount => \A asset \in DOMAIN amounts : amounts[asset] = -Net(a, asset)

\* The withdrawals found by the notification in work.
Found == IF handler.pc = "deposit" THEN handler.second
         ELSE IF handler.pc = "withdrawal" THEN handler.list ELSE {}

\* The lists in work are right, and complete while no account was deleted.
ListsMatch ==
  /\ handler.pc = "wait" => handler.todo = {}
  /\ handler.pc = "deposit" => \A r \in handler.list : DepositIs(r.account, r.amounts)
  /\ addresses = Markets =>
       /\ \A r \in Found : WithdrawalIs(r.account, r.amounts)
       /\ handler.pc # "wait" =>
            \A a \in AccountNames : Withdrew(a) => \E r \in Found : r.account = a
  /\ handler.pc = "withdrawal" /\ handler.list # handler.todo => withdrawals # NoRecord

\* What is stored is right.
StoredMatch ==
  /\ \A a \in Accounts : deposits[a] # NoRecord => DepositIs(a, deposits[a])
  /\ withdrawals # NoRecord /\ addresses = Markets =>
       WithdrawalIs(withdrawals.account, withdrawals.amounts)

\* What was handled is stored, the deposits first.
StoredAll ==
  faults = 0 /\ addresses = Markets =>
    /\ handler.pc = "withdrawal" \/ handled =>
         \A a \in AccountNames : Deposited(a) => deposits[a] # NoRecord
    /\ handled => ((\E a \in AccountNames : Withdrew(a)) => withdrawals # NoRecord)

RecordsInv ==
  /\ Possible /\ addresses \subseteq Markets /\ faults \in Nat
  /\ ListsMatch /\ StoredMatch /\ StoredAll

\* What is classified as a deposit is one, with the right amounts (operator/types.go,
\* isDeposit, depositAmountPerAsset).
LEMMA DepositClassified ==
  ASSUME tx \in Transactions, NEW a \in Accounts, isDeposit(a)
  PROVE  DepositIs(a, depositAmountPerAsset(a))
  <1>1. Owned(a) /\ Spent(a) = {} /\ ownedOutputs(a) \subseteq Assets
    BY Zenon DEF isDeposit, ownedInputs, ownedOutputs, Gained
  <1>2. \A asset \in Assets : tx.in[a][asset] \in Nat /\ tx.out[a][asset] \in Nat
    BY Zenon, TxType
  <1>3. \A asset \in Assets : tx.in[a][asset] = 0
    <2> TAKE asset \in Assets
    <2>1. ~(tx.in[a][asset] > 0)
      BY Zenon, <1>1 DEF Spent
    <2> QED BY <1>2, <2>1
  <1>4. \A asset \in ownedOutputs(a) : depositAmountPerAsset(a)[asset] = Net(a, asset)
    BY <1>1, <1>2, <1>3 DEF depositAmountPerAsset, Net
  <1> QED BY Zenon, <1>3, <1>4 DEF DepositIs, Deposited, depositAmountPerAsset

\* While no account was deleted, every deposit is classified as one.
LEMMA DepositFound ==
  ASSUME tx \in Transactions, addresses = Markets, NEW a \in AccountNames, Deposited(a)
  PROVE  isDeposit(a)
  <1>1. Owned(a)
    BY Zenon DEF Owned
  <1>2. Spent(a) = {}
    <2>1. \A asset \in Assets : ~(tx.in[a][asset] > 0)
      BY DEF Deposited
    <2> QED BY Zenon, <2>1 DEF Spent
  <1> QED BY Zenon, <1>1, <1>2 DEF isDeposit, ownedInputs, ownedOutputs, AccountNames

\* The fee account is alone when nobody else is seen to pay: the inputs the wallet
\* does not know are never next to its own (operator/types.go, isWithdrawal).
LEMMA FeeAlone ==
  ASSUME Possible, Spent(FeeAccount) # {}, notOwnedInputs(FeeAccount) = {}
  PROVE  Spenders = {FeeAccount}
  <1>1. FeeAccount \in Spenders /\ FeeAccount \in Accounts
    BY Zenon DEF Spenders, Owners, Accounts
  <1>2. Spenders \subseteq {FeeAccount, Outside}
    BY Zenon DEF notOwnedInputs
  <1>3. Outside \notin Spenders
    <2>1. \/ Spenders = {Outside}
          \/ \E a \in Accounts : Spenders \subseteq {a, FeeAccount}
          \/ \E m \in Markets : m \in Spenders
      BY Zenon DEF Possible
    <2>2. Outside \notin Accounts /\ FeeAccount \notin Markets /\ Markets \subseteq Accounts
      BY Zenon, ClassifierAssumption DEF Accounts
    <2>3. CASE Spenders = {Outside}
      BY Zenon, <1>1, <2>2, <2>3
    <2>4. CASE \E a \in Accounts : Spenders \subseteq {a, FeeAccount}
      BY Zenon, <1>1, <2>2, <2>4
    <2>5. CASE \E m \in Markets : m \in Spenders
      BY Zenon, <1>2, <2>2, <2>5
    <2> QED BY Zenon, <2>1, <2>3, <2>4, <2>5
  <1> QED BY Zenon, <1>1, <1>2, <1>3

\* What is classified as a withdrawal is one, with the right amounts
\* (operator/types.go, isWithdrawal, withdrawalAmountPerAsset).
LEMMA WithdrawalClassified ==
  ASSUME tx \in Transactions, Possible, addresses = Markets, NEW a \in AccountNames,
         isWithdrawal(a)
  PROVE  WithdrawalIs(a, withdrawalAmountPerAsset(a))
  <1>1. Owned(a) /\ a \in Accounts /\ a \in Owners
    BY Zenon DEF Owned, AccountNames, Owners
  <1>2. ownedInputs(a) = Spent(a) /\ ownedOutputs(a) = Gained(a)
    BY Zenon, <1>1 DEF ownedInputs, ownedOutputs
  <1>3. Spent(a) # {}
    BY Zenon, <1>2 DEF isWithdrawal, AccountNames
  <1>4. \E asset \in Assets : tx.in[a][asset] > 0
    BY Zenon, <1>3 DEF Spent
  <1>5. CASE a = FeeAccount
    <2>1. Spenders = {a}
      BY Zenon, <1>2, <1>3, <1>5, FeeAlone DEF isWithdrawal
    <2>2. notOwnedOutputs(a) # {}
      BY Zenon, <1>5 DEF isWithdrawal
    <2>3. \E o \in Owners \ {a}, asset \in Assets : tx.out[o][asset] > 0
      BY Zenon, <2>2 DEF notOwnedOutputs, Gained
    <2> QED BY Zenon, <1>4, <1>5, <2>1, <2>3 DEF WithdrawalIs, Withdrew
  <1>6. CASE a # FeeAccount
    <2>1. Gained(a) \subseteq Spent(a)
      BY Zenon, <1>2, <1>6 DEF isWithdrawal
    <2>2. \A asset \in Assets : tx.out[a][asset] > 0 => tx.in[a][asset] > 0
      BY Zenon, <2>1 DEF Gained, Spent
    <2>3. ASSUME NEW asset \in Spent(a)
          PROVE  withdrawalAmountPerAsset(a)[asset] = -Net(a, asset)
      <3>1. asset \in Assets /\ tx.out[a][asset] <= tx.in[a][asset]
        BY Zenon, <1>1 DEF Possible, Spent
      <3>2. /\ tx.in[a][asset] \in Nat /\ tx.out[a][asset] \in Nat
            /\ tx.in[a][asset] < Word /\ Word \in Nat
        BY Zenon, <1>1, <3>1, TxType
      <3>3. withdrawalAmountPerAsset(a)[asset]
              = (tx.in[a][asset] - tx.out[a][asset] - 0) % Word
        BY Zenon, <1>2, <1>6, <2>3 DEF withdrawalAmountPerAsset
      <3>4. \A x, y, w \in Nat : y <= x /\ x < w => (x - y - 0) % w = x - y
        OBVIOUS
      <3>5. (tx.in[a][asset] - tx.out[a][asset] - 0) % Word = tx.in[a][asset] - tx.out[a][asset]
        BY Zenon, <3>1, <3>2, <3>4
      <3> QED BY <3>2, <3>3, <3>5 DEF Net
    <2>4. DOMAIN withdrawalAmountPerAsset(a) = Spent(a)
      BY Zenon, <1>2 DEF withdrawalAmountPerAsset
    <2> QED BY Zenon, <1>4, <1>6, <2>2, <2>3, <2>4 DEF WithdrawalIs, Withdrew
  <1> QED BY Zenon, <1>5, <1>6

\* While no account was deleted, every withdrawal is classified as one.
LEMMA WithdrawalFound ==
  ASSUME tx \in Transactions, addresses = Markets, NEW a \in AccountNames, Withdrew(a)
  PROVE  isWithdrawal(a)
  <1>1. Owned(a) /\ a \in Accounts
    BY Zenon DEF Owned, AccountNames
  <1>2. ownedInputs(a) = Spent(a) /\ ownedOutputs(a) = Gained(a)
    BY Zenon, <1>1 DEF ownedInputs, ownedOutputs
  <1>3. Spent(a) # {}
    BY Zenon DEF Withdrew, Spent
  <1>4. CASE a = FeeAccount
    <2>1. notOwnedInputs(a) = {}
      BY Zenon, <1>4 DEF Withdrew, notOwnedInputs
    <2>2. notOwnedOutputs(a) # {}
      <3>1. PICK o \in Owners \ {a}, asset \in Assets : tx.out[o][asset] > 0
        BY Zenon, <1>4 DEF Withdrew
      <3>2. o \in notOwnedOutputs(a)
        BY Zenon, <3>1 DEF notOwnedOutputs, Gained
      <3> QED BY Zenon, <3>2
    <2> QED BY Zenon, <1>2, <1>3, <1>4, <2>1, <2>2 DEF isWithdrawal
  <1>5. CASE a # FeeAccount
    BY Zenon, <1>2, <1>5 DEF isWithdrawal, Withdrew, Spent, Gained
  <1> QED BY Zenon, <1>4, <1>5

\* The facts about the transaction do not change with the state.
LEMMA CoinsStay ==
  ASSUME tx' = tx
  PROVE  /\ AccountNames' = AccountNames
         /\ \A a, amounts : DepositIs(a, amounts)' <=> DepositIs(a, amounts)
         /\ \A a, amounts : WithdrawalIs(a, amounts)' <=> WithdrawalIs(a, amounts)
         /\ \A a : Deposited(a)' <=> Deposited(a)
         /\ \A a : Withdrew(a)' <=> Withdrew(a)
         /\ Possible' <=> Possible
  <1>1. \A a : Spent(a)' = Spent(a) /\ Gained(a)' = Gained(a)
    BY Zenon DEF Spent, Gained
  <1>2. Spenders' = Spenders
    BY Zenon, <1>1 DEF Spenders
  <1>3. \A a : Withdrew(a)' <=> Withdrew(a)
    BY Zenon, <1>2 DEF Withdrew
  <1>4. \A a : Deposited(a)' <=> Deposited(a)
    BY Zenon DEF Deposited
  <1>5. \A a, amounts : DepositIs(a, amounts)' <=> DepositIs(a, amounts)
    BY Zenon, <1>4 DEF DepositIs, Net
  <1>6. \A a, amounts : WithdrawalIs(a, amounts)' <=> WithdrawalIs(a, amounts)
    BY Zenon, <1>3 DEF WithdrawalIs, Net
  <1>7. AccountNames' = AccountNames
    BY Zenon, <1>1 DEF AccountNames
  <1>8. Possible' <=> Possible
    BY Zenon, <1>1, <1>2 DEF Possible
  <1> QED BY Zenon, <1>3, <1>4, <1>5, <1>6, <1>7, <1>8

\* Nothing is in work and nothing stored at first.
LEMMA InitRecordsInv == Init => RecordsInv
  <1> SUFFICES ASSUME Init PROVE RecordsInv
    BY Zenon
  <1>1. /\ handler = Waiting /\ deposits = [a \in Accounts |-> NoRecord]
        /\ withdrawals = NoRecord /\ addresses = Markets /\ faults = 0 /\ handled = FALSE
        /\ Possible
    BY Zenon DEF Init
  <1>2. handler.pc = "wait" /\ handler.list = {} /\ handler.todo = {} /\ Found = {}
    BY Zenon, <1>1, WaitingFacts DEF Found
  <1>3. ListsMatch /\ StoredMatch /\ StoredAll
    BY Zenon, <1>1, <1>2 DEF ListsMatch, StoredMatch, StoredAll
  <1> QED BY Zenon, <1>1, <1>3 DEF RecordsInv

\* A step that leaves the records alone and goes on with the same lists or with
\* none, while accounts are only ever deleted.
LEMMA SameRecords ==
  ASSUME RecordsInv, UNCHANGED <<tx, deposits, withdrawals, handled>>,
         handler' = handler \/ handler' = Waiting,
         addresses' \subseteq addresses, faults' \in Nat, faults' = 0 => faults = 0
  PROVE  RecordsInv'
  <1>1. /\ AccountNames' = AccountNames
        /\ \A a, amounts : DepositIs(a, amounts)' <=> DepositIs(a, amounts)
        /\ \A a, amounts : WithdrawalIs(a, amounts)' <=> WithdrawalIs(a, amounts)
        /\ \A a : Deposited(a)' <=> Deposited(a)
        /\ \A a : Withdrew(a)' <=> Withdrew(a)
        /\ Possible' <=> Possible
    BY Zenon, CoinsStay
  <1>2. addresses' = Markets => addresses = Markets
    BY Zenon DEF RecordsInv
  <1>3. StoredMatch'
    BY Zenon, <1>1, <1>2 DEF RecordsInv, StoredMatch
  <1>4. handler'.pc # "wait" => handler' = handler
    BY Zenon, WaitingFacts
  <1>5. Found' = Found \/ Found' = {}
    BY Zenon, WaitingFacts DEF Found
  <1>6. handler'.pc # "wait" => Found' = Found
    BY Zenon, <1>4 DEF Found
  <1>7. ListsMatch'
    <2>1. handler'.pc = "deposit" => \A r \in handler'.list : DepositIs(r.account, r.amounts)'
      BY Zenon, <1>1, <1>4 DEF RecordsInv, ListsMatch
    <2>2. addresses' = Markets => \A r \in Found' : WithdrawalIs(r.account, r.amounts)'
      BY Zenon, <1>1, <1>2, <1>5 DEF RecordsInv, ListsMatch
    <2>3. addresses' = Markets /\ handler'.pc # "wait" =>
            \A a \in AccountNames' : Withdrew(a)' => \E r \in Found' : r.account = a
      BY Zenon, <1>1, <1>2, <1>4, <1>6 DEF RecordsInv, ListsMatch
    <2>4. handler'.pc = "withdrawal" /\ handler'.list # handler'.todo => withdrawals' # NoRecord
      BY Zenon, <1>4 DEF RecordsInv, ListsMatch
    <2>5. handler'.pc = "wait" => handler'.todo = {}
      BY Zenon, WaitingFacts DEF RecordsInv, ListsMatch
    <2> QED BY Zenon, <2>1, <2>2, <2>3, <2>4, <2>5 DEF ListsMatch
  <1>8. StoredAll'
    <2> SUFFICES ASSUME faults' = 0, addresses' = Markets
                 PROVE  /\ handler'.pc = "withdrawal" \/ handled' =>
                             \A a \in AccountNames' : Deposited(a)' => deposits'[a] # NoRecord
                        /\ handled' => ((\E a \in AccountNames' : Withdrew(a)')
                                          => withdrawals' # NoRecord)
      BY Zenon DEF StoredAll
    <2>1. /\ handler.pc = "withdrawal" \/ handled =>
               \A a \in AccountNames : Deposited(a) => deposits[a] # NoRecord
          /\ handled => ((\E a \in AccountNames : Withdrew(a)) => withdrawals # NoRecord)
      BY Zenon, <1>2 DEF RecordsInv, StoredAll
    <2>2. handler'.pc = "withdrawal" => handler.pc = "withdrawal"
      BY Zenon, <1>4
    <2> QED BY Zenon, <1>1, <2>1, <2>2
  <1>9. addresses' \subseteq Markets
    BY Zenon DEF RecordsInv
  <1> QED BY Zenon, <1>1, <1>3, <1>7, <1>8, <1>9 DEF RecordsInv

\* A notification is classified by the coins (operator/service.go,
\* classifyAndStoreTx).
LEMMA ReceiveRecords ==
  ASSUME IInv, RecordsInv, Receive
  PROVE  RecordsInv'
  <1> DEFINE new == {[account |-> a, amounts |-> depositAmountPerAsset(a)] :
                       a \in {b \in AccountNames : isDeposit(b)}}
             gone == {[account |-> a, amounts |-> withdrawalAmountPerAsset(a)] :
                       a \in {b \in AccountNames : isWithdrawal(b)}}
  <1>1. /\ handler' = handler \/ handler' = Handler("deposit", new, new, gone, 0)
        /\ UNCHANGED <<tx, deposits, withdrawals, addresses, faults, handled>>
    BY Zenon DEF Receive
  <1>2. CASE handler' = handler
    BY Zenon, <1>1, <1>2, SameRecords DEF RecordsInv
  <1>3. CASE handler' = Handler("deposit", new, new, gone, 0)
    <2>0. tx \in Transactions /\ Possible
      BY Zenon DEF IInv, Types, RecordsInv
    <2>1. \A r \in new : DepositIs(r.account, r.amounts)
      BY <2>0, DepositClassified DEF AccountNames
    <2>2. addresses = Markets => \A r \in gone : WithdrawalIs(r.account, r.amounts)
      BY <2>0, WithdrawalClassified
    <2>3. addresses = Markets =>
            \A a \in AccountNames : Withdrew(a) => \E r \in gone : r.account = a
      <3> SUFFICES ASSUME addresses = Markets, NEW a \in AccountNames, Withdrew(a)
                   PROVE  \E r \in gone : r.account = a
        BY Zenon
      <3>1. isWithdrawal(a)
        BY Zenon, <2>0, WithdrawalFound
      <3>2. [account |-> a, amounts |-> withdrawalAmountPerAsset(a)] \in gone
        BY Zenon, <3>1
      <3> QED BY Zenon, <3>2
    <2>4. PICK n, g : n = new /\ g = gone
      BY Zenon
    <2>5. /\ \A r \in n : DepositIs(r.account, r.amounts)
          /\ addresses = Markets => /\ \A r \in g : WithdrawalIs(r.account, r.amounts)
                                    /\ \A a \in AccountNames : Withdrew(a) => \E r \in g : r.account = a
          /\ handler' = Handler("deposit", n, n, g, 0)
      BY Zenon, <1>3, <2>1, <2>2, <2>3, <2>4
    <2> HIDE DEF new, gone
    <2>6. handler'.pc = "deposit" /\ handler'.list = n /\ handler'.second = g /\ Found' = g
      BY Zenon, <2>5 DEF Handler, Found
    <2>7. /\ AccountNames' = AccountNames
          /\ \A a, amounts : DepositIs(a, amounts)' <=> DepositIs(a, amounts)
          /\ \A a, amounts : WithdrawalIs(a, amounts)' <=> WithdrawalIs(a, amounts)
          /\ \A a : Deposited(a)' <=> Deposited(a)
          /\ \A a : Withdrew(a)' <=> Withdrew(a)
          /\ Possible' <=> Possible
      BY Zenon, <1>1, CoinsStay
    <2>8. ListsMatch'
      BY Zenon, <1>1, <2>5, <2>6, <2>7 DEF ListsMatch
    <2>9. StoredMatch'
      BY Zenon, <1>1, <2>7 DEF RecordsInv, StoredMatch
    <2>10. StoredAll'
      BY Zenon, <1>1, <2>6, <2>7 DEF RecordsInv, StoredAll
    <2> QED BY Zenon, <1>1, <2>7, <2>8, <2>9, <2>10 DEF RecordsInv
  <1> QED BY Zenon, <1>1, <1>2, <1>3

\* A record of the list is stored, if its key is free (operator/service.go,
\* classifyAndStoreTx).
LEMMA InsertRecords ==
  ASSUME IInv, RecordsInv, InsertRecord
  PROVE  RecordsInv'
  <1>1. PICK r \in handler.todo :
          /\ InsertDeposit(r) \/ InsertWithdrawal(r)
          /\ \E n : handler' = [handler EXCEPT !.todo = handler.todo \ {r}, !.count = n]
    <2>1. PICK r \in handler.todo :
            /\ InsertDeposit(r) \/ InsertWithdrawal(r)
            /\ handler' = [handler EXCEPT
                 !.todo = @ \ {r},
                 !.count = IF <<deposits, withdrawals>>' = <<deposits, withdrawals>>
                           THEN @ ELSE @ + 1]
      BY Zenon DEF InsertRecord
    <2>2. handler \in HandlerRecord
      BY Zenon DEF IInv, Types
    <2> QED BY Zenon, <2>1, <2>2 DEF HandlerRecord
  <1>2. UNCHANGED <<tx, addresses, handled, faults>>
    BY Zenon DEF InsertRecord, HandlerVars
  <1>3. /\ handler \in HandlerRecord /\ r \in handler.list /\ handler.todo \subseteq handler.list
        /\ r.account \in Accounts /\ r.amounts \in Amounts /\ r \in Record
        /\ DOMAIN deposits = Accounts
    BY Zenon DEF IInv, Types, ListOK, HandlerRecord, Record
  <1>4. r # NoRecord
    <2>1. PICK S \in SUBSET Assets : r.amounts \in [S -> Int]
      BY Zenon, <1>3 DEF Amounts
    <2>2. r \in [account : Accounts, amounts : [S -> Int]]
      BY Zenon, <1>3, <2>1 DEF Record
    <2> QED BY Zenon, <2>2, ClassifierAssumption
  <1>5. /\ handler'.pc = handler.pc /\ handler'.list = handler.list
        /\ handler'.second = handler.second
    BY Zenon, <1>1, <1>3 DEF HandlerRecord
  <1>6. Found' = Found
    BY Zenon, <1>5 DEF Found
  <1>7. /\ AccountNames' = AccountNames
        /\ \A a, amounts : DepositIs(a, amounts)' <=> DepositIs(a, amounts)
        /\ \A a, amounts : WithdrawalIs(a, amounts)' <=> WithdrawalIs(a, amounts)
        /\ \A a : Deposited(a)' <=> Deposited(a)
        /\ \A a : Withdrew(a)' <=> Withdrew(a)
        /\ Possible' <=> Possible
    BY Zenon, <1>2, CoinsStay
  <1>8. AccountNames \subseteq Accounts
    BY Zenon DEF AccountNames
  <1>9. CASE InsertDeposit(r)
    <2>1. /\ handler.pc = "deposit" /\ withdrawals' = withdrawals
          /\ deposits' = IF deposits[r.account] = NoRecord
                         THEN [deposits EXCEPT ![r.account] = r.amounts] ELSE deposits
      BY Zenon, <1>9 DEF InsertDeposit
    <2>2. DepositIs(r.account, r.amounts)
      BY Zenon, <1>3, <2>1 DEF RecordsInv, ListsMatch
    <2>3. \A a \in Accounts :
            \/ deposits'[a] = deposits[a]
            \/ a = r.account /\ deposits[a] = NoRecord /\ deposits'[a] = r.amounts
      BY Zenon, <1>3, <2>1
    <2>4. \A a \in Accounts : deposits[a] # NoRecord => deposits'[a] # NoRecord
      BY Zenon, <2>3
    <2>5. StoredMatch'
      BY Zenon, <1>2, <1>7, <2>1, <2>2, <2>3 DEF RecordsInv, StoredMatch
    <2>6. ListsMatch'
      BY Zenon, <1>2, <1>5, <1>6, <1>7, <2>1 DEF RecordsInv, ListsMatch
    <2>7. StoredAll'
      BY Zenon, <1>2, <1>5, <1>7, <1>8, <2>1, <2>4 DEF RecordsInv, StoredAll
    <2> QED BY Zenon, <1>2, <1>7, <2>5, <2>6, <2>7 DEF RecordsInv
  <1>10. CASE InsertWithdrawal(r)
    <2>1. /\ handler.pc = "withdrawal" /\ deposits' = deposits
          /\ withdrawals' = IF withdrawals = NoRecord THEN r ELSE withdrawals
      BY Zenon, <1>10 DEF InsertWithdrawal
    <2>2. withdrawals' # NoRecord
      BY Zenon, <1>4, <2>1
    <2>3. addresses = Markets => WithdrawalIs(r.account, r.amounts)
      BY Zenon, <1>3, <2>1 DEF RecordsInv, ListsMatch, Found
    <2>4. addresses = Markets => WithdrawalIs(withdrawals'.account, withdrawals'.amounts)
      BY Zenon, <2>1, <2>3 DEF RecordsInv, StoredMatch
    <2>5. StoredMatch'
      BY Zenon, <1>2, <1>7, <2>1, <2>4 DEF RecordsInv, StoredMatch
    <2>6. ListsMatch'
      BY Zenon, <1>2, <1>5, <1>6, <1>7, <2>1, <2>2 DEF RecordsInv, ListsMatch
    <2>7. StoredAll'
      BY Zenon, <1>2, <1>5, <1>7, <2>1, <2>2 DEF RecordsInv, StoredAll
    <2> QED BY Zenon, <1>2, <1>7, <2>5, <2>6, <2>7 DEF RecordsInv
  <1> QED BY Zenon, <1>1, <1>9, <1>10

\* The list of deposits is done, then that of withdrawals; a failure is counted
\* (operator/service.go, classifyAndStoreTx).
LEMMA AfterInsertsRecords ==
  ASSUME IInv, RecordsInv, AfterInserts, handler.pc # "wait",
         UNCHANGED <<tx, deposits, withdrawals, addresses>>,
         \/ faults' = faults /\ handler.todo = {}
         \/ faults' = faults + 1
  PROVE  RecordsInv'
  <1>1. /\ handler \in HandlerRecord /\ tx \in Transactions /\ faults \in Nat
        /\ handler.pc \in {"deposit", "withdrawal"}
    BY Zenon DEF IInv, Types, RecordsInv, HandlerRecord
  <1>2. /\ AccountNames' = AccountNames
        /\ \A a, amounts : DepositIs(a, amounts)' <=> DepositIs(a, amounts)
        /\ \A a, amounts : WithdrawalIs(a, amounts)' <=> WithdrawalIs(a, amounts)
        /\ \A a : Deposited(a)' <=> Deposited(a)
        /\ \A a : Withdrew(a)' <=> Withdrew(a)
        /\ Possible' <=> Possible
    BY Zenon, CoinsStay
  <1>3. StoredMatch'
    BY Zenon, <1>2 DEF RecordsInv, StoredMatch
  <1>4. faults' \in Nat /\ (faults' = 0 => faults = 0 /\ handler.todo = {})
    BY <1>1
  <1>5. CASE handler.pc = "deposit"
    <2>1. handler' = Handler("withdrawal", handler.second, handler.second, {}, 0)
          /\ handled' = handled
      BY Zenon, <1>5 DEF AfterInserts
    <2>2. /\ handler'.pc = "withdrawal" /\ handler'.list = handler.second
          /\ handler'.todo = handler.second /\ Found' = Found
      BY Zenon, <1>5, <2>1 DEF Handler, Found
    <2>3. ListsMatch'
      BY Zenon, <1>2, <1>5, <2>2 DEF RecordsInv, ListsMatch
    <2>4. ASSUME faults' = 0, addresses = Markets, NEW a \in AccountNames, Deposited(a)
          PROVE  deposits[a] # NoRecord
      <3>1. isDeposit(a)
        BY Zenon, <1>1, <2>4, DepositFound
      <3>2. PICK r \in handler.list : r.account = a
        BY Zenon, <1>5, <3>1 DEF IInv, ListOK
      <3> QED BY Zenon, <1>4, <1>5, <2>4, <3>2 DEF IInv, ListOK
    <2>5. StoredAll'
      BY Zenon, <1>2, <1>4, <2>1, <2>4 DEF RecordsInv, StoredAll
    <2> QED BY Zenon, <1>2, <1>3, <1>4, <2>3, <2>5 DEF RecordsInv
  <1>6. CASE handler.pc = "withdrawal"
    <2>1. handler' = Waiting /\ handled' = TRUE
      BY Zenon, <1>6 DEF AfterInserts
    <2>2. handler'.pc = "wait" /\ handler'.todo = {} /\ Found' = {}
      BY Zenon, <2>1, WaitingFacts DEF Found
    <2>3. ListsMatch'
      BY Zenon, <2>2 DEF ListsMatch
    <2>4. ASSUME faults' = 0, addresses = Markets, NEW a \in AccountNames, Withdrew(a)
          PROVE  withdrawals # NoRecord
      <3>1. PICK r \in handler.list : r.account = a
        BY Zenon, <1>6, <2>4 DEF RecordsInv, ListsMatch, Found
      <3> QED BY Zenon, <1>4, <1>6, <2>4, <3>1 DEF RecordsInv, ListsMatch
    <2>5. StoredAll'
      BY Zenon, <1>2, <1>4, <1>6, <2>4 DEF RecordsInv, StoredAll
    <2> QED BY Zenon, <1>2, <1>3, <1>4, <2>3, <2>5 DEF RecordsInv
  <1> QED BY Zenon, <1>1, <1>5, <1>6

\* Every step keeps the records in agreement with the coins.
LEMMA NextRecordsInv == IInv /\ RecordsInv /\ [Next]_vars => RecordsInv'
  <1> SUFFICES ASSUME IInv, RecordsInv, [Next]_vars PROVE RecordsInv'
    BY Zenon
  <1>0. faults \in Nat
    BY Zenon DEF RecordsInv
  <1>1. CASE Receive
    BY Zenon, <1>1, ReceiveRecords
  <1>2. CASE InsertRecord
    BY Zenon, <1>2, InsertRecords
  <1>3. CASE Announce
    BY Zenon, <1>3, AfterInsertsRecords DEF Announce
  <1>4. CASE InsertFails
    <2>1. handler.pc # "wait"
      BY Zenon, <1>4 DEF InsertFails, RecordsInv, ListsMatch
    <2> QED BY Zenon, <1>4, <2>1, AfterInsertsRecords DEF InsertFails
  <1>5. ASSUME NEW k \in Kinds, Publisher(k) PROVE RecordsInv'
    <2>1. /\ UNCHANGED <<tx, deposits, withdrawals, handled, addresses, faults>>
          /\ handler' = handler \/ handler' = Waiting
      BY Zenon, <1>5 DEF Publisher, Publish, PublishPanics, Dies
    <2> QED BY Zenon, <1>0, <2>1, SameRecords
  <1>6. CASE Crash
    <2>1. /\ UNCHANGED <<tx, deposits, withdrawals, handled, addresses>>
          /\ handler' = Waiting /\ faults' = faults + 1
      BY Zenon, <1>6 DEF Crash, Dies
    <2> QED BY <1>0, <2>1, SameRecords
  <1>7. CASE DeleteAccount
    <2>1. addresses' \subseteq addresses
      BY Zenon, <1>7 DEF DeleteAccount
    <2> QED BY Zenon, <1>0, <1>7, <2>1, SameRecords DEF DeleteAccount
  <1>8. CASE DeleteMarket \/ Restart \/ UNCHANGED vars
    BY Zenon, <1>0, <1>8, SameRecords DEF DeleteMarket, Restart, vars
  <1> QED BY Zenon, <1>1, <1>2, <1>3, <1>4, <1>5, <1>6, <1>7, <1>8 DEF Next, HandlerStep

\* The deposits and withdrawals that are stored are those of the coins, with the
\* amounts the coins add up to, and none is missing once a notification was handled
\* without a failure, whatever is notified again, fails, crashes or is dropped in
\* between (operator/service.go, classifyAndStoreTx; operator/types.go).  What the
\* fee account withdrew is a sum over all owners, and is left to the model checker.
THEOREM RecordsAgreeWithCoins == Spec => [](DepositsMatchChain /\ WithdrawalsMatchChain)
  <1>1. RecordsInv => DepositsMatchChain /\ WithdrawalsMatchChain
    BY Zenon DEF RecordsInv, StoredMatch, StoredAll, DepositsMatchChain, WithdrawalsMatchChain,
           DepositIs, WithdrawalIs, HandledWell
  <1> QED BY <1>1, InitIInv, NextIInv, InitRecordsInv, NextRecordsInv, PTL DEF Spec
=============================================================================

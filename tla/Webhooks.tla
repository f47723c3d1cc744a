------------------------------- MODULE Webhooks -------------------------------
(***************************************************************************)
(* The webhook subscriptions under the RPCs of the wallet service          *)
(* (internal/core/application/unlocker/service.go): each calls the wallet  *)
(* and then the secure store, whose errors it ignores.                     *)
(***************************************************************************)
EXTENDS PubSub

CONSTANT NoPassword

ASSUME WebhooksAssumption == NoPassword \notin Passwords

VARIABLES
  wallet,      \* the wallet: its password, and whether it is locked
  admin,       \* the RPCs of the wallet service in progress
  disturbed    \* RPCs overlapped, or one did not run to its end (history)

vars == <<storeVars, pubsubVars, wallet, admin, disturbed>>

NoAdmin == [pc |-> "idle", password |-> NoPassword, new |-> NoPassword]

Admin(pc, password, new) == [pc |-> pc, password |-> password, new |-> new]

Step(a, pc) == admin' = [admin EXCEPT ![a].pc = pc]
End(a) == admin' = [admin EXCEPT ![a] = NoAdmin]

Init ==
  /\ StoreInit
  /\ PubSubInit
  /\ wallet = [password |-> NoPassword, locked |-> TRUE]
  /\ admin = [a \in Admins |-> NoAdmin]
  /\ disturbed = FALSE

Idle(a) == admin[a] = NoAdmin /\ change[a] = NoChange

Busy == ActiveCalls # {} \/ \E a \in Admins : ~Idle(a)

-----------------------------------------------------------------------------
(***************************************************************************)
(* The calls to the wallet.  It refuses a wrong password.                  *)
(***************************************************************************)
\* InitWallet and RestoreWallet.
InitWallet(a) ==
  /\ Idle(a)
  /\ wallet.password = NoPassword
  /\ \E pw \in Passwords :
       /\ wallet' = [password |-> pw, locked |-> TRUE]
       /\ admin' = [admin EXCEPT ![a] = Admin("init", pw, NoPassword)]
  /\ UNCHANGED <<storeVars, pubsubVars>>

UnlockWallet(a) ==
  /\ Idle(a)
  /\ wallet.password # NoPassword
  /\ wallet' = [wallet EXCEPT !.locked = FALSE]
  /\ admin' = [admin EXCEPT ![a] = Admin("unlock", wallet.password, NoPassword)]
  /\ UNCHANGED <<storeVars, pubsubVars>>

LockWallet(a) ==
  /\ Idle(a)
  /\ wallet.password # NoPassword
  /\ wallet' = [wallet EXCEPT !.locked = TRUE]
  /\ admin' = [admin EXCEPT ![a] = Admin("lock", wallet.password, NoPassword)]
  /\ UNCHANGED <<storeVars, pubsubVars>>

\* The wallet changes its password only while it is locked.
ChangePassword(a) ==
  /\ Idle(a)
  /\ wallet.password # NoPassword
  /\ wallet.locked
  /\ keysMade < MaxKeys
  /\ \E pw \in Passwords :
       /\ wallet' = [wallet EXCEPT !.password = pw]
       /\ admin' = [admin EXCEPT ![a] = Admin("change", wallet.password, pw)]
  /\ UNCHANGED <<storeVars, pubsubVars>>

-----------------------------------------------------------------------------
(***************************************************************************)
(* The calls to the store (internal/infrastructure/pubsub/store.go).       *)
(***************************************************************************)
StoreUnlock(a) ==
  /\ admin[a].pc \in {"init", "unlock"}
  /\ \E ok \in BOOLEAN :
       /\ CreateUnlock(admin[a].password, ok)
       /\ IF ok THEN Step(a, IF admin[a].pc = "init" THEN "initBuckets" ELSE "buckets")
          ELSE End(a)
  /\ UNCHANGED <<buckets, data, change, faults, pubsubVars, wallet>>

\* The buckets that are missing are created, one at a time; Init then locks.
StoreBuckets(a) ==
  /\ admin[a].pc \in {"initBuckets", "buckets"}
  /\ IF Buckets \subseteq buckets \/ IsLocked
     THEN /\ IF admin[a].pc = "initBuckets" /\ ~IsLocked THEN Step(a, "lock") ELSE End(a)
          /\ UNCHANGED buckets
     ELSE /\ \E b \in Buckets \ buckets : CreateBucket(b, TRUE)
          /\ UNCHANGED admin
  /\ UNCHANGED <<encKey, key, data, keysMade, change, faults, pubsubVars, wallet>>

StoreLock(a) ==
  /\ \/ /\ admin[a].pc = "lock"
        /\ IF IsLocked THEN End(a) /\ UNCHANGED key
           ELSE Step(a, "clear") /\ LockZeroes
     \/ /\ admin[a].pc = "clear"
        /\ End(a)
        /\ LockClears
  /\ UNCHANGED <<diskVars, keysMade, change, faults, pubsubVars, wallet>>

\* The new password is handed over as the old one.
ChangeSwapped(a) ==
  /\ admin[a].pc = "change"
  /\ ChangePasswordBegins(a, admin[a].new, admin[a].password)
  /\ End(a)
  /\ UNCHANGED <<diskVars, key, faults, pubsubVars, wallet>>

StoreChangePassword(a) ==
  /\ admin[a].pc = "change"
  /\ ChangePasswordBegins(a, admin[a].password, admin[a].new)
  /\ End(a)
  /\ UNCHANGED <<diskVars, key, faults, pubsubVars, wallet>>

StoreChanges(a) ==
  /\ \/ ChangeReadsBucket(a) /\ UNCHANGED rekeyed
     \/ ChangeRewrites(a) /\ UNCHANGED rekeyed
     \/ /\ ChangeStoresKey(a)
        /\ rekeyed' = (rekeyed \/ \E i \in Items : data[i] # NoValue)
  /\ UNCHANGED <<calls, publish, issued, wallet, admin>>

\* The daemon ends and starts again; the wallet is another process.
Crash ==
  /\ faults < MaxFaults
  /\ faults' = faults + 1
  /\ StoreDies
  /\ calls' = [c \in Callers |-> NoCall]
  /\ publish' = NoPublish
  /\ admin' = [a \in Admins |-> NoAdmin]
  /\ UNCHANGED <<issued, rekeyed, wallet>>

-----------------------------------------------------------------------------
RPCBegins ==
  \/ \E c \in Callers : (Subscribe(c) \/ Unsubscribe(c)) /\ UNCHANGED <<wallet, admin>>
  \/ \E a \in Admins : InitWallet(a) \/ UnlockWallet(a) \/ LockWallet(a) \/ ChangePassword(a)

CallSteps(c) ==
  /\ \/ AddSubscription(c)
     \/ AddReadsList(c)
     \/ RemoveSubscription(c)
     \/ RemoveReadsList(c)
     \/ WriteList(c)
  /\ UNCHANGED <<wallet, admin>>

AdminSteps(a) ==
  \/ StoreUnlock(a)
  \/ StoreBuckets(a)
  \/ StoreLock(a)
  \/ StoreChangePassword(a)
  \/ StoreChanges(a)

PublishSteps ==
  /\ Publish \/ PublishRequests
  /\ UNCHANGED <<wallet, admin>>

Next ==
  \/ RPCBegins /\ disturbed' = (disturbed \/ Busy)
  \/ /\ \/ \E c \in Callers : CallSteps(c)
        \/ \E a \in Admins : AdminSteps(a)
        \/ PublishSteps
     /\ disturbed' = (disturbed \/ faults' # faults)
  \/ Crash /\ disturbed' = (disturbed \/ Busy)

Spec == Init /\ [][Next]_vars

-----------------------------------------------------------------------------
\* All values can be read with the key on disk, and the lists of the topics name
\* the subscriptions, each once.
Subscribed(t) == {i \in Ids : data[i] # NoValue /\ data[i].value = t}
Listed(t) == IF data[t] = NoValue THEN {}
             ELSE {data[t].value[n] : n \in 1..Len(data[t].value)}
StoreConsistent ==
  /\ \A i \in Items : data[i] # NoValue => data[i].key = encKey
  /\ \A t \in Topics : Listed(t) = Subscribed(t)

\* RPCs that do not overlap, with every order of them and crashes in between,
\* keep the two buckets in agreement and readable: every webhook is in the list
\* of its topic and no removed one is (pubsub/service.go).
ListsAgree ==
  ~disturbed /\ ~rekeyed /\ ~Busy => StoreConsistent

\* The store opens with the password of the wallet: the daemon hands the same
\* password to both, and ignores the error of the store (unlocker/service.go).
PasswordsAgree ==
  ~disturbed /\ ~Busy /\ wallet.password # NoPassword =>
    encKey # NoKey /\ encKey.password = wallet.password

\* A change of password keeps the webhooks: "ChangePassword decrypts the store
\* (included the root key) with the old password and then encrypts it again with
\* the new password." (pkg/securestore/bolt/store.go:135)
WebhooksSurvivePasswordChange ==
  ~disturbed /\ ~Busy => StoreConsistent
=============================================================================

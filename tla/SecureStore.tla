----------------------------- MODULE SecureStore -----------------------------
(***************************************************************************)
(* The encrypted key-value store (pkg/securestore/bolt/store.go).          *)
(*                                                                         *)
(* A value is kept with the key it was encrypted with, and is read only    *)
(* with that key.  One transaction of the database is one step.  The key   *)
(* in memory is not guarded by the transactions: Lock zeroes it and then   *)
(* forgets it, and ChangePassword runs for many transactions.  A           *)
(* transaction commits or fails before it has changed anything.            *)
(***************************************************************************)
EXTENDS Naturals, Functions

CONSTANTS
  Items,       \* the keys under which values are stored, of all buckets
  Buckets,     \* the nested buckets
  BucketOf,    \* the bucket of an item
  SplitKey,    \* the item written for an item when it is encrypted again
  Passwords,
  Admins,      \* the callers of ChangePassword
  NoKey, ZeroKey, NoValue,
  MaxKeys,     \* bound on the keys derived
  MaxFaults    \* bound on failed transactions and crashes

ASSUME StoreAssumption ==
  /\ BucketOf \in [Items -> Buckets]
  /\ SplitKey \in [Items -> Items]
  /\ NoKey # ZeroKey
  /\ \A p \in Passwords, n \in 1..MaxKeys :
       {NoKey, ZeroKey} \cap {[password |-> p, salt |-> n]} = {}
  /\ MaxKeys \in Nat /\ MaxFaults \in Nat

VARIABLES
  encKey,      \* the key on disk
  key,         \* the key in memory
  buckets,     \* the buckets on disk
  data,        \* the encrypted values on disk
  keysMade,    \* keys derived so far
  change,      \* the ChangePassword of each caller
  faults

diskVars == <<encKey, buckets, data>>
storeVars == <<encKey, key, buckets, data, keysMade, change, faults>>

SecretKey == [password : Passwords, salt : 1..MaxKeys]

NewSecretKey(pw) == [password |-> pw, salt |-> keysMade + 1]

Encrypted(k, v) == [key |-> k, value |-> v]

NoChange == [pc |-> "idle", newKey |-> NoKey, left |-> {}, plain |-> <<>>]

Change(pc, newKey, left, plain) ==
  [pc |-> pc, newKey |-> newKey, left |-> left, plain |-> plain]

StoreInit ==
  /\ encKey = NoKey
  /\ key = NoKey
  /\ buckets = {}
  /\ data = [i \in Items |-> NoValue]
  /\ keysMade = 0
  /\ change = [a \in Admins |-> NoChange]
  /\ faults = 0

-----------------------------------------------------------------------------
IsLocked == key = NoKey

Failed == [ok |-> FALSE, value |-> NoValue]
Returned(v) == [ok |-> TRUE, value |-> v]

GetFromBucket(i) ==
  IF IsLocked \/ BucketOf[i] \notin buckets THEN Failed
  ELSE IF data[i] = NoValue THEN Returned(NoValue)
  ELSE IF data[i].key = key THEN Returned(data[i].value)
  ELSE Failed

\* A transaction on the bucket of item i that leaves new under it.
Transaction(i, new, ok) ==
  \/ /\ ok = (~IsLocked /\ BucketOf[i] \in buckets)
     /\ data' = IF ok THEN [data EXCEPT ![i] = new] ELSE data
     /\ UNCHANGED faults
  \/ /\ faults < MaxFaults
     /\ faults' = faults + 1
     /\ ~ok
     /\ UNCHANGED data

AddToBucket(i, v, ok) == Transaction(i, Encrypted(key, v), ok)

RemoveFromBucket(i, ok) == Transaction(i, NoValue, ok)

\* CreateUnlock of a store that is unlocked does nothing, whatever the password.
CreateUnlock(pw, ok) ==
  \/ /\ ~IsLocked
     /\ ok
     /\ UNCHANGED <<encKey, key, keysMade>>
  \/ /\ IsLocked
     /\ encKey = NoKey
     /\ ok
     /\ keysMade < MaxKeys
     /\ keysMade' = keysMade + 1
     /\ encKey' = NewSecretKey(pw)
     /\ key' = encKey'
  \/ /\ IsLocked
     /\ encKey # NoKey
     /\ ok = (encKey.password = pw)
     /\ key' = IF ok THEN encKey ELSE key
     /\ UNCHANGED <<encKey, keysMade>>

CreateBucket(b, ok) ==
  /\ ok = ~IsLocked
  /\ buckets' = IF ok THEN buckets \cup {b} ELSE buckets

\* Lock: Zero, then the assignment of nil.
LockZeroes == key' = ZeroKey
LockClears == key' = NoKey

-----------------------------------------------------------------------------
(***************************************************************************)
(* ChangePassword.  updateEncryptedDb reads every bucket and then writes   *)
(* each value in a transaction of its own; an error of a read ends it with *)
(* the nil error of an earlier call, so that the new key is stored all the *)
(* same.  Bucket and item are joined with an underscore and split again,   *)
(* so an item with an underscore is written under its first part.          *)
(***************************************************************************)
ChangePasswordBegins(a, old, new) ==
  /\ keysMade < MaxKeys
  /\ keysMade' = keysMade + 1
  /\ change' =
       IF encKey = NoKey \/ encKey.password # old THEN change
       ELSE [change EXCEPT ![a] =
               Change(IF buckets = {} THEN "store" ELSE "read",
                      NewSecretKey(new), buckets, <<>>)]

\* The values of a bucket, if all of them can be read.
InBucket(b) == {i \in Items : BucketOf[i] = b /\ data[i] # NoValue}
BucketReadable(b) == ~IsLocked /\ \A i \in InBucket(b) : data[i].key = key

ChangeReadsBucket(a) ==
  /\ change[a].pc = "read"
  /\ \E b \in change[a].left :
       LET left  == change[a].left \ {b}
           found == DOMAIN change[a].plain \cup InBucket(b)
           plain == [i \in found |->
                       IF i \in DOMAIN change[a].plain THEN change[a].plain[i]
                       ELSE data[i].value]
           pc    == IF left # {} THEN "read"
                    ELSE IF found # {} THEN "rewrite" ELSE "store"
       IN  change' = [change EXCEPT ![a] =
                        IF BucketReadable(b)
                        THEN Change(pc, change[a].newKey, left, plain)
                        ELSE Change("store", change[a].newKey, {}, <<>>)]
  /\ UNCHANGED <<diskVars, key, keysMade, faults>>

\* A failed batch is passed over.
ChangeRewrites(a) ==
  /\ change[a].pc = "rewrite"
  /\ \E i \in DOMAIN change[a].plain :
       LET left == DOMAIN change[a].plain \ {i}
       IN  /\ change' = [change EXCEPT ![a] =
                Change(IF left = {} THEN "store" ELSE "rewrite",
                       change[a].newKey, {}, Restrict(change[a].plain, left))]
           /\ \/ /\ data' = [data EXCEPT ![SplitKey[i]] =
                       Encrypted(change[a].newKey, change[a].plain[i])]
                 /\ UNCHANGED faults
              \/ /\ faults < MaxFaults
                 /\ faults' = faults + 1
                 /\ UNCHANGED data
  /\ UNCHANGED <<encKey, buckets, key, keysMade>>

\* ChangePassword that takes the new key into memory and does not write it.
ChangeForgetsDisk(a) ==
  /\ change[a].pc = "store"
  /\ change' = [change EXCEPT ![a] = NoChange]
  /\ key' = change[a].newKey
  /\ UNCHANGED <<encKey, faults, buckets, data, keysMade>>

ChangeStoresKey(a) ==
  /\ change[a].pc = "store"
  /\ change' = [change EXCEPT ![a] = NoChange]
  /\ \/ /\ encKey' = change[a].newKey
        /\ key' = change[a].newKey
        /\ UNCHANGED faults
     \/ /\ faults < MaxFaults
        /\ faults' = faults + 1
        /\ UNCHANGED <<encKey, key>>
  /\ UNCHANGED <<buckets, data, keysMade>>

\* The process ends: what is on disk stays.
StoreDies ==
  /\ key' = NoKey
  /\ change' = [a \in Admins |-> NoChange]
  /\ UNCHANGED <<diskVars, keysMade>>

\* The key in memory is the one on disk, or the store is locked or about to be,
\* whichever of unlocking, locking and password changes overlap: outside of Lock
\* itself a value is never written with a key that the disk does not hold
\* (store.go, CreateUnlock, ChangePassword, Lock).
MemoryKeyIsStored == key \in {NoKey, ZeroKey, encKey}
=============================================================================

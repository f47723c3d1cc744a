--------------------------- MODULE WebhooksProofs ---------------------------
(***************************************************************************)
(* Proofs about the webhook subscriptions: for any sets of subscriptions,  *)
(* topics, callers and administrators, the key in memory is the one on     *)
(* disk, a topic's list names each of its subscriptions once, an event     *)
(* makes one request to an endpoint, and as long as no two calls overlap   *)
(* and none fails the lists of the topics name the stored subscriptions.   *)
(***************************************************************************)
EXTENDS Webhooks, TLAPS

\* The parts of a concatenation.
LEMMA ConcatFacts ==
  ASSUME NEW s \in Seq(Ids), NEW r \in Seq(Ids)
  PROVE  /\ s \o r \in Seq(Ids)
         /\ Len(s \o r) = Len(s) + Len(r)
         /\ \A k \in 1..Len(s) + Len(r) :
              (s \o r)[k] = IF k <= Len(s) THEN s[k] ELSE r[k - Len(s)]
  OBVIOUS

(***************************************************************************)
(* The key in memory.                                                      *)
(***************************************************************************)
\* A value is only ever written with the key the disk holds, or while Lock runs
\* (securestore/bolt/store.go, CreateUnlock, ChangePassword, Lock).
THEOREM KeyInMemory == Spec => []MemoryKeyIsStored
  <1>1. Init => MemoryKeyIsStored
    BY DEF Init, StoreInit, MemoryKeyIsStored
  <1>2. MemoryKeyIsStored /\ [Next]_vars => MemoryKeyIsStored'
    <2> SUFFICES ASSUME MemoryKeyIsStored, [Next]_vars PROVE MemoryKeyIsStored'
      OBVIOUS
    <2> USE DEF MemoryKeyIsStored
    <2>1. CASE RPCBegins
      <3>1. UNCHANGED <<key, encKey>>
        BY <2>1 DEF RPCBegins, Subscribe, Unsubscribe, InitWallet, UnlockWallet,
                    LockWallet, ChangePassword, storeVars
      <3> QED BY <3>1
    <2>2. ASSUME NEW c \in Callers, CallSteps(c) PROVE MemoryKeyIsStored'
      <3>1. UNCHANGED <<key, encKey>>
        BY <2>2 DEF CallSteps, AddSubscription, AddReadsList, RemoveSubscription,
                    RemoveReadsList, WriteList, storeVars
      <3> QED BY <3>1
    <2>3. ASSUME NEW a \in Admins, AdminSteps(a) PROVE MemoryKeyIsStored'
      <3>1. CASE StoreUnlock(a)
        BY <3>1 DEF StoreUnlock, CreateUnlock, IsLocked
      <3>2. CASE StoreBuckets(a)
        BY <3>2 DEF StoreBuckets
      <3>3. CASE StoreLock(a)
        BY <3>3 DEF StoreLock, LockZeroes, LockClears, diskVars
      <3>4. CASE StoreChangePassword(a)
        BY Zenon, <3>4 DEF StoreChangePassword, diskVars
      <3>5. CASE StoreChanges(a)
        BY <3>5 DEF StoreChanges, ChangeReadsBucket, ChangeRewrites, ChangeStoresKey,
                    diskVars
      <3> QED BY <2>3, <3>1, <3>2, <3>3, <3>4, <3>5 DEF AdminSteps
    <2>4. CASE PublishSteps
      <3>1. UNCHANGED <<key, encKey>>
        BY <2>4 DEF PublishSteps, Publish, PublishRequests, storeVars
      <3> QED BY <3>1
    <2>5. CASE Crash
      BY <2>5 DEF Crash, StoreDies
    <2>6. CASE UNCHANGED vars
      BY <2>6 DEF vars, storeVars
    <2> QED BY <2>1, <2>2, <2>3, <2>4, <2>5, <2>6 DEF Next
  <1> QED BY <1>1, <1>2, PTL DEF Spec

-----------------------------------------------------------------------------
(***************************************************************************)
(* The lists of the topics.                                                *)
(***************************************************************************)
\* The places a list of topic t is kept in: on disk, with an RPC about to write
\* it, with a change of password, with an event being published.
Kept(t, l) ==
  \/ data[t] # NoValue /\ l = data[t].value
  \/ \E c \in Callers : /\ calls[c].pc \in {"addWrite", "removeWrite"}
                        /\ calls[c].topic = t
                        /\ l = calls[c].list
  \/ \E a \in Admins : t \in DOMAIN change[a].plain /\ l = change[a].plain[t]
  \/ publish.pc = "readAny" /\ publish.topic = t /\ l = publish.targets

\* A list that names subscriptions of topic t, each once.
Good(t, l) ==
  /\ l \in Seq(Ids)
  /\ Distinct(l)
  /\ \A n \in 1..Len(l) : issued[l[n]] = t

Lacks(l, i) == \A n \in 1..Len(l) : l[n] # i

\* An RPC that will put its identifier in a list.
Adding(c) == calls[c].pc \in {"addSub", "addRead"}

Domains ==
  /\ DOMAIN data = Items /\ DOMAIN change = Admins /\ DOMAIN calls = Callers
  /\ issued \in [Ids -> Topics \cup {NoTopic}]
  /\ \A a \in Admins : DOMAIN change[a].plain \subseteq Items

CallsOK ==
  \A c \in Callers :
    /\ calls[c].pc # "idle" => calls[c].id \in Ids /\ calls[c].topic \in Topics
    /\ Adding(c) => issued[calls[c].id] = calls[c].topic

OneAdder ==
  \A c, d \in Callers : Adding(c) /\ Adding(d) /\ calls[c].id = calls[d].id => c = d

PublishOK == publish.pc = "readAny" => publish.topic \in Topics \ {AnyTopic}

\* What is stored for a subscription is its topic.
TopicsOK ==
  \A i \in Ids :
    /\ data[i] # NoValue => data[i].value \in Topics
    /\ \A a \in Admins : i \in DOMAIN change[a].plain => change[a].plain[i] \in Topics

\* Every list that is kept is good, and none names an identifier that is still to
\* be added.  An old list may be written back at any time: so the property of the
\* disk needs that of all places.
ListsOK ==
  \A t \in Topics : \A l : Kept(t, l) =>
    Good(t, l) /\ \A c \in Callers : Adding(c) => Lacks(l, calls[c].id)

ListInv == Domains /\ CallsOK /\ OneAdder /\ PublishOK /\ TopicsOK /\ ListsOK

listVars == <<data, change, calls, publish, issued>>

\* No list, no RPC, no identifier (pubsub/service.go).
LEMMA InitListInv == Init => ListInv
  <1> SUFFICES ASSUME Init PROVE ListInv
    OBVIOUS
  <1>1. /\ data = [i \in Items |-> NoValue] /\ change = [a \in Admins |-> NoChange]
        /\ calls = [c \in Callers |-> NoCall] /\ publish = NoPublish
        /\ issued = [i \in Ids |-> NoTopic]
    BY DEF Init, StoreInit, PubSubInit
  <1>2. /\ \A a \in Admins : DOMAIN change[a].plain = {}
        /\ \A c \in Callers : calls[c].pc = "idle"
        /\ publish.pc = "idle"
        /\ \A i \in Items : data[i] = NoValue
    BY <1>1 DEF NoChange, NoCall, NoPublish
  <1>3. \A i \in Ids \cup Topics : i \in Items
    BY PubSubAssumption
  <1>4. Domains
    BY <1>1, <1>2 DEF Domains
  <1>5. CallsOK /\ OneAdder /\ PublishOK
    BY <1>2 DEF CallsOK, OneAdder, PublishOK, Adding
  <1>6. TopicsOK /\ ListsOK
    BY <1>2, <1>3 DEF TopicsOK, ListsOK, Kept
  <1> QED BY <1>4, <1>5, <1>6 DEF ListInv

-----------------------------------------------------------------------------
(***************************************************************************)
(* The steps of the RPCs that add and remove webhooks.                     *)
(***************************************************************************)
\* An encrypted value is found again with the key (securestore/bolt/store.go).
LEMMA EncryptedValue == \A k, v : Encrypted(k, v).key = k /\ Encrypted(k, v).value = v
  BY DEF Encrypted

\* The facts about identifiers and topics that the steps use.
LEMMA Names ==
  /\ Ids \subseteq Items /\ Topics \subseteq Items /\ NoTopic \notin Topics
  /\ \A i \in Ids : i \notin Topics
  /\ \A i \in Items : SplitKey[i] \in Items
  /\ \A i \in Items : SplitKey[i] \in Topics => SplitKey[i] = i
  /\ \A i \in Items : SplitKey[i] \in Ids => SplitKey[i] = i
  BY PubSubAssumption, StoreAssumption

\* The list that is read for a topic is empty or the one on disk (pubsub/service.go,
\* getSerializedSubscriptions).
LEMMA ListRead ==
  ASSUME ListInv, NEW t \in Topics
  PROVE  \/ getSerializedSubscriptions(t) = <<>>
         \/ Kept(t, getSerializedSubscriptions(t))
  BY DEF getSerializedSubscriptions, GetFromBucket, Returned, Failed, Kept

\* It is good and names no identifier still to be added.
LEMMA ListReadGood ==
  ASSUME ListInv, NEW t \in Topics
  PROVE  /\ Good(t, getSerializedSubscriptions(t))
         /\ \A c \in Callers : Adding(c) => Lacks(getSerializedSubscriptions(t), calls[c].id)
  <1>1. CASE getSerializedSubscriptions(t) = <<>>
    BY <1>1 DEF Good, Distinct, Lacks
  <1>2. CASE Kept(t, getSerializedSubscriptions(t))
    BY <1>2 DEF ListInv, ListsOK
  <1> QED BY <1>1, <1>2, ListRead

\* The two parts of a list around one of its places (pubsub/service.go,
\* removeSubscriptionForTopic).
LEMMA CutList ==
  ASSUME NEW l \in Seq(Ids), NEW n \in 1..Len(l)
  PROVE  /\ SubSeq(l, 1, n - 1) \in Seq(Ids) /\ SubSeq(l, n + 1, Len(l)) \in Seq(Ids)
         /\ Len(SubSeq(l, 1, n - 1)) = n - 1
         /\ Len(SubSeq(l, n + 1, Len(l))) = Len(l) - n
         /\ \A k \in 1..(n - 1) : SubSeq(l, 1, n - 1)[k] = l[k]
         /\ \A k \in 1..(Len(l) - n) : SubSeq(l, n + 1, Len(l))[k] = l[k + n]
  <1>1. Len(l) \in Nat
    OBVIOUS
  <1> QED BY <1>1

\* What is left of a good list (pubsub/service.go, removeSubscriptionForTopic).
LEMMA WithoutGood ==
  ASSUME NEW t, NEW l, Good(t, l), NEW n \in 1..Len(l)
  PROVE  /\ Good(t, Without(l, n))
         /\ \A i : Lacks(l, i) => Lacks(Without(l, n), i)
  <1> DEFINE w == Without(l, n)
             at(k) == IF k < n THEN k ELSE k + 1
  <1>1. l \in Seq(Ids) /\ Len(l) \in Nat
    BY DEF Good
  <1> DEFINE before == SubSeq(l, 1, n - 1)
             after == SubSeq(l, n + 1, Len(l))
  <1>2. /\ before \in Seq(Ids) /\ after \in Seq(Ids)
        /\ Len(before) = n - 1 /\ Len(after) = Len(l) - n
        /\ \A k \in 1..(n - 1) : before[k] = l[k]
        /\ \A k \in 1..(Len(l) - n) : after[k] = l[k + n]
    BY <1>1, CutList
  <1>3. w = before \o after
    BY DEF Without
  <1> HIDE DEF before, after, w
  <1>4. /\ w \in Seq(Ids) /\ Len(w) = Len(l) - 1
        /\ \A k \in 1..(Len(l) - 1) :
             w[k] = IF k <= n - 1 THEN before[k] ELSE after[k - (n - 1)]
    <2>1. /\ before \o after \in Seq(Ids)
          /\ Len(before \o after) = Len(before) + Len(after)
          /\ \A k \in 1..Len(before) + Len(after) : (before \o after)[k] =
               IF k <= Len(before) THEN before[k] ELSE after[k - Len(before)]
      BY Zenon, <1>2, ConcatFacts
    <2>2. Len(before) + Len(after) = Len(l) - 1
      BY <1>1, <1>2
    <2> QED BY Zenon, <1>2, <1>3, <2>1, <2>2
  <1>5. ASSUME NEW k \in 1..Len(w) PROVE w[k] = l[at(k)] /\ at(k) \in 1..Len(l)
    <2>1. CASE k < n
      <3>1. k \in 1..(n - 1) /\ k \in 1..(Len(l) - 1) /\ k \in 1..Len(l)
        BY <1>1, <1>4, <2>1
      <3>2. w[k] = l[k]
        BY <1>2, <1>4, <3>1
      <3> QED BY <2>1, <3>1, <3>2
    <2>2. CASE ~(k < n)
      <3>1. k - (n - 1) \in 1..(Len(l) - n) /\ k \in 1..(Len(l) - 1) /\ ~(k <= n - 1)
        BY <1>1, <1>4, <2>2
      <3>2. w[k] = l[(k - (n - 1)) + n]
        BY <1>2, <1>4, <3>1
      <3>3. (k - (n - 1)) + n = k + 1 /\ k + 1 \in 1..Len(l)
        BY <1>1, <1>4
      <3> QED BY <2>2, <3>2, <3>3
    <2> QED BY <2>1, <2>2
  <1>6. \A j, k \in 1..Len(w) : at(j) = at(k) => j = k
    BY <1>1, <1>4
  <1> HIDE DEF at
  <1>7. Distinct(w)
    BY <1>5, <1>6 DEF Good, Distinct
  <1>8. Good(t, w)
    BY <1>4, <1>5, <1>7 DEF Good
  <1>9. \A i : Lacks(l, i) => Lacks(w, i)
    BY <1>5 DEF Lacks
  <1> QED BY <1>8, <1>9 DEF w

-----------------------------------------------------------------------------
(***************************************************************************)
(* The steps of the store, and a crash.                                    *)
(***************************************************************************)

-----------------------------------------------------------------------------
\* Every step keeps the invariant of the lists.
LEMMA NextListInv == ListInv /\ [Next]_vars => ListInv'
  \* A step that adds no list and starts no RPC keeps the lists good.
  <1>Shrinks.
    ASSUME ListInv, issued' = issued,
           \A c \in Callers : Adding(c)' => Adding(c) /\ calls'[c].id = calls[c].id,
           \A t \in Topics : \A l : Kept(t, l)' => Kept(t, l)
    PROVE  ListsOK'
    BY <1>Shrinks DEF ListInv, ListsOK, Good, Lacks
  \* A step that touches none of it.
  <1>SameLists.
    ASSUME ListInv, UNCHANGED listVars
    PROVE  ListInv'
    BY <1>SameLists DEF ListInv, listVars, Domains, CallsOK, OneAdder, PublishOK, TopicsOK, ListsOK,
           Kept, Good, Lacks, Adding
  \* A fresh identifier is in no list, for every name in a list has a topic
  \* (pubsub/service.go, Subscribe).
  <1>SubscribeLists.
    ASSUME ListInv, NEW c \in Callers, Subscribe(c)
    PROVE  ListInv'
    <2> USE <1>SubscribeLists
    <2>1. PICK i \in Ids, t \in Topics :
            /\ issued[i] = NoTopic
            /\ issued' = [issued EXCEPT ![i] = t]
            /\ calls' = [calls EXCEPT ![c] = Call("addSub", i, t, <<>>)]
      BY Zenon DEF Subscribe, Goto
    <2>2. data' = data /\ change' = change /\ publish' = publish
      BY DEF Subscribe, storeVars
    <2>3. DOMAIN calls = Callers /\ issued \in [Ids -> Topics \cup {NoTopic}]
      BY DEF ListInv, Domains
    <2>4. /\ calls'[c].pc = "addSub" /\ calls'[c].id = i /\ calls'[c].topic = t
          /\ \A d \in Callers : d # c => calls'[d] = calls[d]
      BY <2>1, <2>3 DEF Call
    <2>5. /\ issued' \in [Ids -> Topics \cup {NoTopic}] /\ issued'[i] = t
          /\ \A j \in Ids : j # i => issued'[j] = issued[j]
      BY <2>1, <2>3
    <2>6. Domains' /\ PublishOK' /\ TopicsOK'
      BY <2>1, <2>2, <2>3, <2>5 DEF ListInv, Domains, PublishOK, TopicsOK
    <2>7. \A d \in Callers : Adding(d) => calls[d].id # i
      BY <2>1, Names DEF ListInv, CallsOK, Adding
    <2>8. CallsOK'
      BY <2>4, <2>5, <2>7 DEF ListInv, CallsOK, Adding
    <2>9. OneAdder'
      BY <2>4, <2>7 DEF ListInv, OneAdder, Adding
    <2>10. ListsOK'
      <3> SUFFICES ASSUME NEW u \in Topics, NEW l, Kept(u, l)'
                   PROVE  Good(u, l)' /\ \A d \in Callers : Adding(d)' => Lacks(l, calls'[d].id)
        BY Zenon DEF ListsOK, Lacks
      <3>1. Kept(u, l)
        BY <2>2, <2>4 DEF Kept
      <3>2. Good(u, l) /\ \A d \in Callers : Adding(d) => Lacks(l, calls[d].id)
        BY Zenon, <3>1 DEF ListInv, ListsOK
      <3>3. Lacks(l, i)
        BY <2>1, <3>2, Names DEF Good, Lacks
      <3>4. Good(u, l)'
        BY <2>5, <3>2, <3>3 DEF Good, Lacks, Distinct
      <3> QED BY <2>4, <3>2, <3>3, <3>4 DEF Adding
    <2> QED BY <2>6, <2>8, <2>9, <2>10 DEF ListInv
  \* The subscription is stored under its identifier, or the RPC ends
  \* (pubsub/service.go, addSubscription).
  <1>AddSubscriptionLists.
    ASSUME ListInv, NEW c \in Callers, AddSubscription(c)
    PROVE  ListInv'
    <2> USE <1>AddSubscriptionLists
    <2> DEFINE i == calls[c].id
               t == calls[c].topic
    <2>1. i \in Ids /\ t \in Topics /\ calls[c].pc = "addSub" /\ issued[i] = t
      BY Zenon DEF AddSubscription, ListInv, CallsOK, Adding
    <2>2. /\ change' = change /\ publish' = publish /\ issued' = issued
          /\ \/ data' = [data EXCEPT ![i] = Encrypted(key, t)]
             \/ data' = data
          /\ \/ calls' = [calls EXCEPT ![c] = Call("addRead", i, t, <<>>)]
             \/ calls' = [calls EXCEPT ![c] = NoCall]
      BY DEF AddSubscription, AddToBucket, Transaction, Goto, Finish
    <2>3. DOMAIN calls = Callers /\ DOMAIN data = Items
      BY Zenon DEF ListInv, Domains
    <2> HIDE DEF i, t
    <2>4. /\ \/ calls'[c].pc = "addRead" /\ calls'[c].id = i /\ calls'[c].topic = t
             \/ calls'[c].pc = "idle"
          /\ \A d \in Callers : d # c => calls'[d] = calls[d]
          /\ DOMAIN calls' = Callers
      BY <2>2, <2>3 DEF Call, NoCall
    <2>5. /\ DOMAIN data' = Items
          /\ \A j \in Items : j # i => data'[j] = data[j]
          /\ data'[i] = data[i] \/ data'[i].value = t
      BY <2>1, <2>2, <2>3, Names DEF Encrypted
    <2>6. \A d \in Callers : Adding(d)' => Adding(d) /\ calls'[d].id = calls[d].id
      BY Zenon, <2>1, <2>4 DEF Adding, i
    <2>7. Domains' /\ PublishOK'
      BY Zenon, <2>2, <2>4, <2>5 DEF ListInv, Domains, PublishOK
    <2>8. TopicsOK'
      BY Zenon, <2>1, <2>2, <2>5, Names DEF ListInv, TopicsOK
    <2>9. CallsOK'
      BY <2>1, <2>2, <2>4 DEF ListInv, CallsOK, Adding
    <2>10. OneAdder'
      BY Zenon, <2>6 DEF ListInv, OneAdder
    <2>11. \A u \in Topics : \A l : Kept(u, l)' => Kept(u, l)
      BY <2>1, <2>2, <2>4, <2>5, Names DEF Kept
    <2>12. ListsOK'
      BY <2>2, <2>6, <2>11, <1>Shrinks
    <2> QED BY Zenon, <2>7, <2>8, <2>9, <2>10, <2>12 DEF ListInv
  \* The identifier is put at the end of the list that is there (pubsub/service.go,
  \* addSubscriptionForTopic).
  <1>AddReadsListLists.
    ASSUME ListInv, NEW c \in Callers, AddReadsList(c)
    PROVE  ListInv'
    <2> USE <1>AddReadsListLists
    <2> DEFINE i == calls[c].id
               t == calls[c].topic
               l0 == getSerializedSubscriptions(t)
               l1 == Append(l0, i)
    <2>1. i \in Ids /\ t \in Topics /\ calls[c].pc = "addRead" /\ Adding(c) /\ issued[i] = t
      BY DEF AddReadsList, ListInv, CallsOK, Adding
    <2>2. /\ UNCHANGED <<data, change, publish, issued>>
          /\ calls' = [calls EXCEPT ![c] = Call("addWrite", i, t, l1)]
      BY Zenon DEF AddReadsList, Goto, storeVars
    <2>3. Good(t, l0) /\ \A d \in Callers : Adding(d) => Lacks(l0, calls[d].id)
      BY <2>1, ListReadGood
    <2>4. \A d \in Callers : Adding(d) /\ d # c => calls[d].id # i
      BY <2>1 DEF ListInv, OneAdder
    <2> HIDE DEF i, t, l0
    <2>5. Good(t, l1)
      <3>1. /\ l1 \in Seq(Ids) /\ Len(l1) = Len(l0) + 1 /\ l1[Len(l0) + 1] = i
            /\ Len(l0) \in Nat
            /\ \A n \in 1..Len(l0) : l1[n] = l0[n]
        BY <2>1, <2>3 DEF Good
      <3>2. Lacks(l0, i)
        BY <2>1, <2>3 DEF i
      <3>3. Distinct(l1)
        BY <2>3, <3>1, <3>2 DEF Good, Distinct, Lacks
      <3>4. \A n \in 1..Len(l1) : issued[l1[n]] = t
        BY <2>1, <2>3, <3>1 DEF Good
      <3> QED BY <3>1, <3>3, <3>4 DEF Good
    <2>6. \A d \in Callers : Adding(d) /\ d # c => Lacks(l1, calls[d].id)
      <3>1. /\ Len(l1) = Len(l0) + 1 /\ l1[Len(l0) + 1] = i /\ Len(l0) \in Nat
            /\ \A n \in 1..Len(l0) : l1[n] = l0[n]
        BY <2>1, <2>3 DEF Good
      <3> QED BY <2>3, <2>4, <3>1 DEF Lacks
    <2> HIDE DEF l1
    <2>7. DOMAIN calls = Callers
      BY DEF ListInv, Domains
    <2>8. /\ calls'[c].pc = "addWrite" /\ calls'[c].id = i /\ calls'[c].topic = t
          /\ calls'[c].list = l1
          /\ \A d \in Callers : d # c => calls'[d] = calls[d]
          /\ DOMAIN calls' = Callers
      BY Zenon, <2>2, <2>7 DEF Call
    <2>9. Domains' /\ PublishOK' /\ TopicsOK'
      BY <2>2, <2>8 DEF ListInv, Domains, PublishOK, TopicsOK
    <2>10. \A d \in Callers : Adding(d)' => Adding(d) /\ d # c /\ calls'[d] = calls[d]
      BY Zenon, <2>8 DEF Adding
    <2>11. CallsOK' /\ OneAdder'
      BY <2>1, <2>2, <2>8, <2>10 DEF ListInv, CallsOK, OneAdder
    <2>12. ListsOK'
      <3> SUFFICES ASSUME NEW u \in Topics, NEW l, Kept(u, l)'
                   PROVE  Good(u, l)' /\ \A d \in Callers : Adding(d)' => Lacks(l, calls'[d].id)
        BY Zenon DEF ListsOK, Lacks
      <3>1. Kept(u, l) \/ (u = t /\ l = l1)
        BY <2>2, <2>8 DEF Kept
      <3>2. Good(u, l) /\ \A d \in Callers : Adding(d) /\ d # c => Lacks(l, calls[d].id)
        BY Zenon, <2>5, <2>6, <3>1 DEF ListInv, ListsOK
      <3>3. Good(u, l)'
        BY <2>2, <3>2 DEF Good
      <3> QED BY <2>10, <3>2, <3>3
    <2> QED BY Zenon, <2>9, <2>11, <2>12 DEF ListInv
  \* A stored subscription is read, with its topic (pubsub/service.go, Unsubscribe).
  <1>UnsubscribeLists.
    ASSUME ListInv, NEW c \in Callers, Unsubscribe(c)
    PROVE  ListInv'
    <2> USE <1>UnsubscribeLists
    <2>1. PICK i \in Ids :
            /\ GetFromBucket(i).value # NoValue
            /\ calls' = [calls EXCEPT ![c] = Call("removeSub", i, GetFromBucket(i).value, <<>>)]
      BY Zenon DEF Unsubscribe, Goto
    <2>2. UNCHANGED <<data, change, publish, issued>>
      BY Zenon DEF Unsubscribe, storeVars
    <2>3. GetFromBucket(i).value \in Topics
      BY <2>1 DEF GetFromBucket, Returned, Failed, ListInv, TopicsOK
    <2>4. DOMAIN calls = Callers
      BY DEF ListInv, Domains
    <2>5. /\ calls'[c].pc = "removeSub" /\ calls'[c].id \in Ids /\ calls'[c].topic \in Topics
          /\ \A d \in Callers : d # c => calls'[d] = calls[d]
          /\ DOMAIN calls' = Callers
      BY <2>1, <2>3, <2>4 DEF Call
    <2>6. \A d \in Callers : Adding(d)' => Adding(d) /\ calls'[d] = calls[d]
      BY Zenon, <2>5 DEF Adding
    <2>7. Domains' /\ PublishOK' /\ TopicsOK'
      BY Zenon, <2>2, <2>5 DEF ListInv, Domains, PublishOK, TopicsOK
    <2>8. CallsOK' /\ OneAdder'
      BY <2>2, <2>5, <2>6 DEF ListInv, CallsOK, OneAdder
    <2>9. \A t \in Topics : \A l : Kept(t, l)' => Kept(t, l)
      BY <2>2, <2>5 DEF Kept
    <2>10. ListsOK'
      BY Zenon, <2>2, <2>6, <2>9, <1>Shrinks
    <2> QED BY <2>7, <2>8, <2>10 DEF ListInv
  \* The subscription goes, or the RPC ends (pubsub/service.go, removeSubscription).
  <1>RemoveSubscriptionLists.
    ASSUME ListInv, NEW c \in Callers, RemoveSubscription(c)
    PROVE  ListInv'
    <2> USE <1>RemoveSubscriptionLists
    <2> DEFINE i == calls[c].id
               t == calls[c].topic
    <2>1. i \in Ids /\ t \in Topics
      BY Zenon DEF RemoveSubscription, ListInv, CallsOK
    <2>2. /\ change' = change /\ publish' = publish /\ issued' = issued
          /\ \/ data' = [data EXCEPT ![i] = NoValue]
             \/ data' = data
          /\ \/ calls' = [calls EXCEPT ![c] = Call("removeRead", i, t, <<>>)]
             \/ calls' = [calls EXCEPT ![c] = NoCall]
      BY Zenon DEF RemoveSubscription, RemoveFromBucket, Transaction, Goto, Finish
    <2>3. DOMAIN calls = Callers /\ DOMAIN data = Items
      BY DEF ListInv, Domains
    <2> HIDE DEF i, t
    <2>4. /\ \/ calls'[c].pc = "removeRead" /\ calls'[c].id = i /\ calls'[c].topic = t
             \/ calls'[c].pc = "idle"
          /\ \A d \in Callers : d # c => calls'[d] = calls[d]
          /\ DOMAIN calls' = Callers
      BY <2>2, <2>3 DEF Call, NoCall
    <2>5. /\ DOMAIN data' = Items
          /\ \A j \in Items : j # i => data'[j] = data[j]
          /\ data'[i] = data[i] \/ data'[i] = NoValue
      BY <2>1, <2>2, <2>3, Names
    <2>6. \A d \in Callers : Adding(d)' => Adding(d) /\ calls'[d] = calls[d]
      BY Zenon, <2>4 DEF Adding
    <2>7. Domains' /\ PublishOK' /\ TopicsOK'
      BY <2>2, <2>4, <2>5, Names DEF ListInv, Domains, PublishOK, TopicsOK
    <2>8. CallsOK' /\ OneAdder'
      <3>1. ASSUME NEW d \in Callers, calls'[d].pc # "idle"
            PROVE  calls'[d].id \in Ids /\ calls'[d].topic \in Topics
        BY Zenon, <2>1, <2>4, <3>1 DEF ListInv, CallsOK
      <3>2. ASSUME NEW d \in Callers, Adding(d)'
            PROVE  issued'[calls'[d].id] = calls'[d].topic
        BY Zenon, <2>2, <2>6, <3>2 DEF ListInv, CallsOK
      <3>3. CallsOK'
        BY <3>1, <3>2 DEF CallsOK
      <3>4. OneAdder'
        BY <2>6, Zenon DEF ListInv, OneAdder
      <3> QED BY Zenon, <3>3, <3>4
    <2>9. ASSUME NEW u \in Topics, NEW l, Kept(u, l)' PROVE Kept(u, l)
      <3>1. data'[u] = data[u]
        BY <2>1, <2>5, Names
      <3> QED BY <2>2, <2>4, <2>9, <3>1 DEF Kept
    <2>10. ListsOK'
      BY Zenon, <2>2, <2>6, <2>9, <1>Shrinks
    <2> QED BY <2>7, <2>8, <2>10 DEF ListInv
  \* An entry is taken out of the list that is there; an empty list ends the RPC
  \* (pubsub/service.go, removeSubscriptionForTopic).
  <1>RemoveReadsListLists.
    ASSUME ListInv, NEW c \in Callers, RemoveReadsList(c)
    PROVE  ListInv'
    <2> USE <1>RemoveReadsListLists
    <2> DEFINE i == calls[c].id
               t == calls[c].topic
               l0 == getSerializedSubscriptions(t)
               l1 == Without(l0, IndexOf(l0, i))
    <2>1. i \in Ids /\ t \in Topics
      BY Zenon DEF RemoveReadsList, ListInv, CallsOK
    <2>2. /\ UNCHANGED <<data, change, publish, issued>>
          /\ \/ calls' = [calls EXCEPT ![c] = NoCall]
             \/ l0 # <<>> /\ calls' = [calls EXCEPT ![c] = Call("removeWrite", i, t, l1)]
      BY DEF RemoveReadsList, Goto, Finish, storeVars
    <2>3. Good(t, l0) /\ \A d \in Callers : Adding(d) => Lacks(l0, calls[d].id)
      BY <2>1, ListReadGood
    <2> HIDE DEF i, t, l0
    <2>4. ASSUME l0 # <<>>
          PROVE  Good(t, l1) /\ \A d \in Callers : Adding(d) => Lacks(l1, calls[d].id)
      <3>1. l0 \in Seq(Ids) /\ 1 \in 1..Len(l0)
        BY <2>3, <2>4 DEF Good
      <3>2. IndexOf(l0, i) \in 1..Len(l0)
        <4>1. CASE \E n \in 1..Len(l0) : l0[n] = i
          BY <4>1 DEF IndexOf
        <4>2. CASE ~\E n \in 1..Len(l0) : l0[n] = i
          BY Zenon, <3>1, <4>2 DEF IndexOf
        <4> QED BY <4>1, <4>2
      <3> QED BY <2>3, <3>2, WithoutGood
    <2> HIDE DEF l1
    <2>5. DOMAIN calls = Callers
      BY DEF ListInv, Domains
    <2>6. /\ \/ calls'[c].pc = "idle"
             \/ /\ calls'[c].pc = "removeWrite" /\ calls'[c].id = i /\ calls'[c].topic = t
                /\ calls'[c].list = l1 /\ l0 # <<>>
          /\ \A d \in Callers : d # c => calls'[d] = calls[d]
          /\ DOMAIN calls' = Callers
      BY <2>2, <2>5 DEF Call, NoCall
    <2>7. Domains' /\ PublishOK' /\ TopicsOK'
      BY Zenon, <2>2, <2>6 DEF ListInv, Domains, PublishOK, TopicsOK
    <2>8. \A d \in Callers : Adding(d)' => Adding(d) /\ calls'[d] = calls[d]
      BY Zenon, <2>6 DEF Adding
    <2>9. CallsOK' /\ OneAdder'
      <3>1. ASSUME NEW d \in Callers, calls'[d].pc # "idle"
            PROVE  calls'[d].id \in Ids /\ calls'[d].topic \in Topics
        BY Zenon, <2>1, <2>6, <3>1 DEF ListInv, CallsOK
      <3>2. ASSUME NEW d \in Callers, Adding(d)'
            PROVE  issued'[calls'[d].id] = calls'[d].topic
        BY Zenon, <2>2, <2>8, <3>2 DEF ListInv, CallsOK
      <3>3. CallsOK'
        BY <3>1, <3>2 DEF CallsOK
      <3>4. OneAdder'
        BY <2>8, Zenon DEF ListInv, OneAdder
      <3> QED BY <3>3, <3>4
    <2>10. ListsOK'
      <3> SUFFICES ASSUME NEW u \in Topics, NEW l, Kept(u, l)'
                   PROVE  Good(u, l)' /\ \A d \in Callers : Adding(d)' => Lacks(l, calls'[d].id)
        BY DEF ListsOK, Lacks
      <3>1. Kept(u, l) \/ (u = t /\ l = l1 /\ l0 # <<>>)
        BY Zenon, <2>2, <2>6 DEF Kept
      <3>2. Good(u, l) /\ \A d \in Callers : Adding(d) => Lacks(l, calls[d].id)
        BY Zenon, <2>4, <3>1 DEF ListInv, ListsOK
      <3>3. Good(u, l)'
        BY Zenon, <2>2, <3>2 DEF Good
      <3> QED BY <2>8, <3>2, <3>3
    <2> QED BY <2>7, <2>9, <2>10 DEF ListInv
  \* A list that was read earlier is written back, whatever is on disk by then
  \* (pubsub/service.go, addSubscriptionForTopic and removeSubscriptionForTopic).
  <1>WriteListLists.
    ASSUME ListInv, NEW c \in Callers, WriteList(c)
    PROVE  ListInv'
    <2> USE <1>WriteListLists
    <2> DEFINE t == calls[c].topic
               l1 == calls[c].list
    <2>1. t \in Topics /\ calls[c].pc \in {"addWrite", "removeWrite"}
      BY Zenon DEF WriteList, ListInv, CallsOK
    <2>2. /\ change' = change /\ publish' = publish /\ issued' = issued
          /\ \/ data' = [data EXCEPT ![t] = NoValue]
             \/ data' = [data EXCEPT ![t] = Encrypted(key, l1)]
             \/ data' = data
          /\ calls' = [calls EXCEPT ![c] = NoCall]
      BY Zenon DEF WriteList, AddToBucket, RemoveFromBucket, Transaction, Finish
    <2>3. DOMAIN calls = Callers /\ DOMAIN data = Items
      BY DEF ListInv, Domains
    <2>4. Kept(t, l1)
      BY Zenon, <2>1 DEF Kept
    <2> HIDE DEF t, l1
    <2>5. /\ calls'[c].pc = "idle"
          /\ \A d \in Callers : d # c => calls'[d] = calls[d]
          /\ DOMAIN calls' = Callers
      BY Zenon, <2>2, <2>3 DEF NoCall
    <2>6. /\ DOMAIN data' = Items
          /\ \A j \in Items : j # t => data'[j] = data[j]
          /\ data'[t] = data[t] \/ data'[t] = NoValue \/ data'[t].value = l1
      BY <2>1, <2>2, <2>3, Names DEF Encrypted
    <2>7. \A d \in Callers : Adding(d)' => Adding(d) /\ calls'[d] = calls[d]
      BY Zenon, <2>5 DEF Adding
    <2>8. Domains' /\ PublishOK' /\ TopicsOK'
      BY <2>1, <2>2, <2>5, <2>6, Names DEF ListInv, Domains, PublishOK, TopicsOK
    <2>9. CallsOK' /\ OneAdder'
      <3>1. CallsOK'
        <4> SUFFICES ASSUME NEW d \in Callers
                     PROVE  /\ calls'[d].pc # "idle" => calls'[d].id \in Ids /\ calls'[d].topic \in Topics
                            /\ Adding(d)' => issued'[calls'[d].id] = calls'[d].topic
          BY Zenon DEF CallsOK
        <4>1. /\ calls[d].pc # "idle" => calls[d].id \in Ids /\ calls[d].topic \in Topics
              /\ Adding(d) => issued[calls[d].id] = calls[d].topic
          BY DEF ListInv, CallsOK
        <4>2. calls'[d].pc # "idle" => calls'[d] = calls[d]
          BY <2>5, Zenon
        <4> QED BY <2>2, <2>7, <4>1, <4>2, Zenon
      <3>2. OneAdder'
        BY <2>7, Zenon DEF ListInv, OneAdder
      <3> QED BY <3>1, <3>2
    <2>10. ASSUME NEW u \in Topics, NEW l, Kept(u, l)' PROVE Kept(u, l)
      <3>1. u \in Items
        BY Names
      <3>2. CASE data'[u] # NoValue /\ l = data'[u].value
        <4>1. CASE u # t \/ data'[t] = data[t]
          <5>1. data'[u] = data[u]
            BY Zenon, <2>6, <3>1, <4>1
          <5> QED BY <3>2, <5>1 DEF Kept
        <4>2. CASE u = t /\ data'[t] # data[t]
          BY Zenon, <2>4, <2>6, <3>2, <4>2
        <4> QED BY Zenon, <4>1, <4>2
      <3>3. CASE ~(data'[u] # NoValue /\ l = data'[u].value)
        BY <2>2, <2>5, <2>10, <3>3 DEF Kept
      <3> QED BY <3>2, <3>3
    <2>11. ListsOK'
      BY <2>2, <2>7, <2>10, <1>Shrinks
    <2> QED BY <2>8, <2>9, <2>11 DEF ListInv
  \* The list of a topic is read; all requests are made (pubsub/service.go,
  \* publishForTopic).
  <1>PublishLists.
    ASSUME ListInv, PublishSteps
    PROVE  ListInv'
    <2> USE <1>PublishLists
    <2>1. UNCHANGED <<data, change, calls, issued>>
      BY Zenon DEF PublishSteps, Publish, PublishRequests, storeVars
    <2>2. /\ Domains' /\ CallsOK' /\ OneAdder' /\ TopicsOK'
          /\ \A c \in Callers : Adding(c)' => Adding(c)
      BY <2>1 DEF ListInv, Domains, CallsOK, OneAdder, TopicsOK, Adding
    <2>3. CASE Publish
      <3>1. PICK t \in Topics \ {AnyTopic} :
              publish' = Publishing("readAny", t, getSerializedSubscriptions(t))
        BY <2>3 DEF Publish
      <3> DEFINE l1 == getSerializedSubscriptions(t)
      <3>2. Good(t, l1) /\ \A c \in Callers : Adding(c) => Lacks(l1, calls[c].id)
        BY ListReadGood
      <3>3. publish'.topic = t /\ publish'.targets = l1
        BY <3>1 DEF Publishing
      <3> HIDE DEF l1
      <3>4. PublishOK'
        BY <3>3 DEF PublishOK
      <3>5. ListsOK'
        <4> SUFFICES ASSUME NEW u \in Topics, NEW l, Kept(u, l)'
                     PROVE  Good(u, l)' /\ \A d \in Callers : Adding(d)' => Lacks(l, calls'[d].id)
          BY Zenon DEF ListsOK, Lacks
        <4>1. Kept(u, l) \/ (u = t /\ l = l1)
          BY <2>1, <3>3 DEF Kept
        <4>2. Good(u, l) /\ \A d \in Callers : Adding(d) => Lacks(l, calls[d].id)
          BY Zenon, <3>2, <4>1 DEF ListInv, ListsOK
        <4>3. Good(u, l)'
          BY <2>1, <4>2 DEF Good
        <4> QED BY Zenon, <2>1, <2>2, <4>2, <4>3
      <3> QED BY <2>2, <3>4, <3>5 DEF ListInv
    <2>4. CASE PublishRequests
      <3>1. publish'.pc = "idle"
        BY <2>4 DEF PublishRequests, NoPublish
      <3>2. PublishOK'
        BY Zenon, <3>1 DEF PublishOK
      <3>3. \A u \in Topics : \A l : Kept(u, l)' => Kept(u, l)
        BY <2>1, <3>1 DEF Kept
      <3>4. ListsOK'
        BY Zenon, <2>1, <2>2, <3>3, <1>Shrinks
      <3> QED BY <2>2, <3>2, <3>4 DEF ListInv
    <2> QED BY <2>3, <2>4 DEF PublishSteps
  \* A change of password that holds nothing new (securestore/bolt/store.go,
  \* ChangePassword).
  <1>ChangeShrinks.
    ASSUME ListInv, UNCHANGED <<data, calls, publish, issued>>,
           DOMAIN change' = Admins,
           \A a \in Admins : \A i \in DOMAIN change'[a].plain :
             /\ i \in Items
             /\ \/ i \in DOMAIN change[a].plain /\ change'[a].plain[i] = change[a].plain[i]
                \/ data[i] # NoValue /\ change'[a].plain[i] = data[i].value
    PROVE  ListInv'
    <2> USE <1>ChangeShrinks
    <2>1. Domains' /\ CallsOK' /\ OneAdder' /\ PublishOK'
      BY DEF ListInv, Domains, CallsOK, OneAdder, PublishOK, Adding
    <2>2. TopicsOK'
      BY Zenon DEF ListInv, TopicsOK
    <2>3. \A t \in Topics : \A l : Kept(t, l)' => Kept(t, l)
      BY DEF Kept
    <2>4. ListsOK'
      BY Zenon, <2>3, <1>Shrinks DEF Adding
    <2> QED BY Zenon, <2>1, <2>2, <2>4 DEF ListInv
  \* ChangePassword reads a bucket (securestore/bolt/store.go, updateEncryptedDb).
  <1>ChangeReadsBucketLists.
    ASSUME ListInv, NEW a \in Admins, ChangeReadsBucket(a), UNCHANGED <<calls, publish, issued>>
    PROVE  ListInv'
    <2> USE <1>ChangeReadsBucketLists
    <2> DEFINE found(b) == DOMAIN change[a].plain \cup InBucket(b)
               plain(b) == [i \in found(b) |->
                              IF i \in DOMAIN change[a].plain THEN change[a].plain[i]
                              ELSE data[i].value]
    <2>1. data' = data /\ DOMAIN change = Admins
          /\ \A d \in Admins : DOMAIN change[d].plain \subseteq Items
      BY DEF ChangeReadsBucket, diskVars, ListInv, Domains
    <2>2. PICK b \in change[a].left : \E pc, left :
            change' = [change EXCEPT ![a] =
                         IF BucketReadable(b)
                         THEN Change(pc, change[a].newKey, left, plain(b))
                         ELSE Change("store", change[a].newKey, {}, <<>>)]
      BY Zenon DEF ChangeReadsBucket
    <2> DEFINE r == change'[a]
    <2>3. /\ DOMAIN change' = Admins /\ \A d \in Admins : d # a => change'[d] = change[d]
          /\ r.plain = plain(b) \/ r.plain = <<>>
      BY <2>1, <2>2 DEF Change
    <2>4. \A i \in DOMAIN r.plain :
             /\ i \in Items
             /\ \/ i \in DOMAIN change[a].plain /\ r.plain[i] = change[a].plain[i]
                \/ data[i] # NoValue /\ r.plain[i] = data[i].value
      <3> HIDE DEF r
      <3>1. CASE r.plain = plain(b)
        BY Zenon, <2>1, <3>1 DEF InBucket
      <3>2. CASE r.plain = <<>>
        BY <3>2
      <3> QED BY Zenon, <2>3, <3>1, <3>2
    <2>5. \A d \in Admins : \A i \in DOMAIN change'[d].plain :
             /\ i \in Items
             /\ \/ i \in DOMAIN change[d].plain /\ change'[d].plain[i] = change[d].plain[i]
                \/ data[i] # NoValue /\ change'[d].plain[i] = data[i].value
      BY Zenon, <2>1, <2>3, <2>4
    <2> QED BY Zenon, <2>1, <2>3, <2>5, <1>ChangeShrinks
  \* It begins, or ends (securestore/bolt/store.go, ChangePassword).
  <1>ChangeEndsLists.
    ASSUME ListInv, NEW a \in Admins, UNCHANGED <<data, calls, publish, issued>>,
           NEW r, r.plain = <<>>,
           change' = change \/ change' = [change EXCEPT ![a] = r]
    PROVE  ListInv'
    <2> USE <1>ChangeEndsLists
    <2>1. DOMAIN change = Admins /\ \A d \in Admins : DOMAIN change[d].plain \subseteq Items
      BY Zenon DEF ListInv, Domains
    <2>2. DOMAIN change' = Admins
          /\ \A d \in Admins : change'[d] = change[d] \/ DOMAIN change'[d].plain = {}
      <3>1. DOMAIN r.plain = {}
        OBVIOUS
      <3>2. CASE change' = change
        BY <2>1, <3>2, Zenon
      <3>3. CASE change' = [change EXCEPT ![a] = r]
        <4>1. change'[a] = r /\ \A d \in Admins : d # a => change'[d] = change[d]
          BY <2>1, <3>3
        <4>2. DOMAIN change' = Admins
          BY Zenon, <2>1, <3>3
        <4> QED BY <3>1, <4>1, <4>2, Zenon
      <3> QED BY <3>2, <3>3
    <2>3. \A d \in Admins : \A i \in DOMAIN change'[d].plain :
            i \in Items /\ i \in DOMAIN change[d].plain /\ change'[d].plain[i] = change[d].plain[i]
      BY <2>1, <2>2
    <2> QED BY Zenon, <2>2, <2>3, <1>ChangeShrinks
  \* It writes a value that it read earlier, whatever is on disk by then
  \* (securestore/bolt/store.go, updateEncryptedDb).
  <1>ChangeRewritesLists.
    ASSUME ListInv, NEW a \in Admins, ChangeRewrites(a), UNCHANGED <<calls, publish, issued>>
    PROVE  ListInv'
    <2> USE <1>ChangeRewritesLists
    <2> DEFINE p == change[a].plain
    <2>1. PICK i \in DOMAIN p :
            /\ change' = [change EXCEPT ![a] =
                 Change(IF DOMAIN p \ {i} = {} THEN "store" ELSE "rewrite",
                        change[a].newKey, {}, Restrict(p, DOMAIN p \ {i}))]
            /\ \/ data' = [data EXCEPT ![SplitKey[i]] = Encrypted(change[a].newKey, p[i])]
               \/ data' = data
      BY Zenon DEF ChangeRewrites
    <2>2. DOMAIN change = Admins /\ DOMAIN data = Items
          /\ \A d \in Admins : DOMAIN change[d].plain \subseteq Items
      BY Zenon DEF ListInv, Domains
    <2>3. /\ DOMAIN change' = Admins
          /\ \A d \in Admins : \A j \in DOMAIN change'[d].plain :
               j \in DOMAIN change[d].plain /\ change'[d].plain[j] = change[d].plain[j]
      BY Zenon, <2>1, <2>2 DEF Restrict, Change
    <2>4. i \in Items /\ SplitKey[i] \in Items
      BY Zenon, <2>2, Names
    <2> DEFINE k == SplitKey[i]
    <2>5. /\ DOMAIN data' = Items
          /\ \A j \in Items : j # k => data'[j] = data[j]
          /\ data'[k] = data[k] \/ data'[k].value = p[i]
      <3> HIDE DEF p
      <3>1. CASE data' = data
        BY <2>2, <3>1, Zenon
      <3>2. CASE data' = [data EXCEPT ![k] = Encrypted(change[a].newKey, p[i])]
        <4>1. data'[k] = Encrypted(change[a].newKey, p[i])
          BY Zenon, <2>2, <2>4, <3>2
        <4>2. data'[k].value = p[i]
          <5>1. Encrypted(change[a].newKey, p[i]).value = p[i]
            BY Zenon, EncryptedValue
          <5> QED BY Zenon, <4>1, <5>1
        <4>3. DOMAIN data' = Items /\ \A j \in Items : j # k => data'[j] = data[j]
          BY Zenon, <2>2, <3>2
        <4> QED BY Zenon, <4>2, <4>3
      <3> QED BY Zenon, <2>1, <3>1, <3>2
    <2>6. (k \in Topics => k = i) /\ (k \in Ids => k = i)
      BY Zenon, <2>4, Names
    <2> HIDE DEF k
    <2>7. Domains' /\ CallsOK' /\ OneAdder' /\ PublishOK'
      BY Zenon, <2>2, <2>3, <2>5 DEF ListInv, Domains, CallsOK, OneAdder, PublishOK, Adding
    <2>8. TopicsOK'
      <3> SUFFICES ASSUME NEW x \in Ids
                   PROVE  /\ data'[x] # NoValue => data'[x].value \in Topics
                          /\ \A d \in Admins : x \in DOMAIN change'[d].plain =>
                               change'[d].plain[x] \in Topics
        BY Zenon DEF TopicsOK
      <3>1. /\ data[x] # NoValue => data[x].value \in Topics
            /\ \A d \in Admins : x \in DOMAIN change[d].plain => change[d].plain[x] \in Topics
        BY Zenon DEF ListInv, TopicsOK
      <3>2. data'[x] = data[x] \/ (x = i /\ data'[x].value = p[i])
        BY Zenon, <2>5, <2>6, Names
      <3> QED BY Zenon, <2>3, <3>1, <3>2
    <2>9. ASSUME NEW u \in Topics, NEW l, Kept(u, l)' PROVE Kept(u, l)
      <3>1. data'[u] = data[u] \/ (u = i /\ data'[u].value = p[i])
        BY Zenon, <2>5, <2>6, Names
      <3>2. CASE data'[u] # NoValue /\ l = data'[u].value
        BY Zenon, <3>1, <3>2 DEF Kept
      <3>3. CASE ~(data'[u] # NoValue /\ l = data'[u].value)
        BY Zenon, <2>3, <2>9, <3>3 DEF Kept
      <3> QED BY Zenon, <3>2, <3>3
    <2>10. ListsOK'
      BY Zenon, <2>9, <1>Shrinks DEF Adding
    <2> QED BY <2>7, <2>8, <2>10 DEF ListInv
  \* The steps an administrator's RPC makes in the store (unlocker/service.go).
  <1>AdminLists.
    ASSUME ListInv, NEW a \in Admins, AdminSteps(a)
    PROVE  ListInv'
    <2> USE <1>AdminLists
    <2>1. CASE StoreUnlock(a) \/ StoreBuckets(a) \/ StoreLock(a)
      BY Zenon, <2>1, <1>SameLists DEF StoreUnlock, StoreBuckets, StoreLock, listVars, pubsubVars, diskVars
    <2>2. CASE StoreChangePassword(a)
      <3>1. UNCHANGED <<data, calls, publish, issued>>
        BY Zenon, <2>2 DEF StoreChangePassword, pubsubVars, diskVars
      <3> DEFINE r == Change(IF buckets = {} THEN "store" ELSE "read",
                             NewSecretKey(admin[a].new), buckets, <<>>)
      <3>2. change' = change \/ change' = [change EXCEPT ![a] = r]
        BY Zenon, <2>2 DEF StoreChangePassword, ChangePasswordBegins
      <3>3. r.plain = <<>>
        BY DEF Change
      <3> QED BY Zenon, <3>1, <3>2, <3>3, <1>ChangeEndsLists
    <2>3. CASE StoreChanges(a)
      <3>1. UNCHANGED <<calls, publish, issued>>
        BY <2>3 DEF StoreChanges
      <3>2. CASE ChangeReadsBucket(a)
        BY <3>1, <3>2, <1>ChangeReadsBucketLists
      <3>3. CASE ChangeRewrites(a)
        BY <3>1, <3>3, <1>ChangeRewritesLists
      <3>4. CASE ChangeStoresKey(a)
        <4>1. data' = data /\ change' = [change EXCEPT ![a] = NoChange] /\ NoChange.plain = <<>>
          BY Zenon, <3>4 DEF ChangeStoresKey, NoChange
        <4> QED BY Zenon, <3>1, <4>1, <1>ChangeEndsLists
      <3> QED BY <2>3, <3>2, <3>3, <3>4 DEF StoreChanges
    <2> QED BY <2>1, <2>2, <2>3 DEF AdminSteps
  \* Only the disk survives a crash.
  <1>CrashLists.
    ASSUME ListInv, Crash
    PROVE  ListInv'
    <2> USE <1>CrashLists
    <2>1. /\ data' = data /\ issued' = issued
          /\ change' = [a \in Admins |-> NoChange] /\ calls' = [c \in Callers |-> NoCall]
          /\ publish' = NoPublish
      BY Zenon DEF Crash, StoreDies, diskVars
    <2>2. /\ \A a \in Admins : DOMAIN change'[a].plain = {}
          /\ \A c \in Callers : calls'[c].pc = "idle"
          /\ publish'.pc = "idle"
          /\ DOMAIN change' = Admins /\ DOMAIN calls' = Callers
      BY <2>1 DEF NoChange, NoCall, NoPublish
    <2>3. Domains' /\ CallsOK' /\ OneAdder' /\ PublishOK' /\ TopicsOK'
      BY Zenon, <2>1, <2>2 DEF ListInv, Domains, CallsOK, OneAdder, PublishOK, TopicsOK, Adding
    <2>4. \A t \in Topics : \A l : Kept(t, l)' => Kept(t, l)
      BY Zenon, <2>1, <2>2 DEF Kept
    <2>5. ListsOK'
      BY Zenon, <2>1, <2>2, <2>4, <1>Shrinks DEF Adding
    <2> QED BY <2>3, <2>5 DEF ListInv
  <1> SUFFICES ASSUME ListInv, [Next]_vars PROVE ListInv'
    OBVIOUS
  <1>1. CASE RPCBegins
    <2>1. CASE \E c \in Callers : Subscribe(c) \/ Unsubscribe(c)
      BY <2>1, <1>SubscribeLists, <1>UnsubscribeLists
    <2>2. CASE \E a \in Admins : InitWallet(a) \/ UnlockWallet(a) \/ LockWallet(a)
                                  \/ ChangePassword(a)
      <3>1. UNCHANGED listVars
        BY <2>2 DEF InitWallet, UnlockWallet, LockWallet, ChangePassword, listVars,
                    storeVars, pubsubVars
      <3> QED BY <3>1, <1>SameLists
    <2> QED BY <1>1, <2>1, <2>2 DEF RPCBegins
  <1>2. ASSUME NEW c \in Callers, CallSteps(c) PROVE ListInv'
    BY <1>2, <1>AddSubscriptionLists, <1>AddReadsListLists, <1>RemoveSubscriptionLists,
       <1>RemoveReadsListLists, <1>WriteListLists DEF CallSteps
  <1>3. ASSUME NEW a \in Admins, AdminSteps(a) PROVE ListInv'
    BY <1>3, <1>AdminLists
  <1>4. CASE PublishSteps
    BY <1>4, <1>PublishLists
  <1>5. CASE Crash
    BY <1>5, <1>CrashLists
  <1>6. CASE UNCHANGED vars
    BY <1>6, <1>SameLists DEF vars, storeVars, pubsubVars, listVars
  <1> QED BY <1>1, <1>2, <1>3, <1>4, <1>5, <1>6 DEF Next

\* A topic's list never names a subscription twice, nor one of another topic, for
\* any number of webhooks, topics and concurrent RPCs (pubsub/service.go,
\* addSubscriptionForTopic and removeSubscriptionForTopic).
THEOREM ListsNameOnce == Spec => []ListedOnceForItsTopic
  <1>1. ListInv => ListedOnceForItsTopic
    <2> SUFFICES ASSUME ListInv, NEW t \in Topics, data[t] # NoValue
                 PROVE  /\ Distinct(data[t].value)
                        /\ \A n \in 1..Len(data[t].value) : issued[data[t].value[n]] = t
      BY Zenon DEF ListedOnceForItsTopic
    <2>1. Kept(t, data[t].value)
      BY DEF Kept
    <2> QED BY Zenon, <2>1 DEF ListInv, ListsOK, Good
  <1> QED BY <1>1, InitListInv, NextListInv, PTL DEF Spec

\* One event makes one request to an endpoint, and only to those of its topic or
\* of all topics, for any number of webhooks and concurrent RPCs
\* (pubsub/service.go, publishForTopic).
THEOREM EventsNotifyOnce == Spec => []NotifiedOnce
  \* Two good lists of different topics name no subscription twice between them.
  <1>JoinedDistinct.
    ASSUME NEW t, NEW u, t # u, NEW l, NEW m, Good(t, l), Good(u, m)
    PROVE  /\ Distinct(l \o m)
           /\ \A n \in 1..Len(l \o m) : issued[(l \o m)[n]] \in {t, u}
    <2> USE <1>JoinedDistinct
    <2> DEFINE j == l \o m
    <2>1. l \in Seq(Ids) /\ m \in Seq(Ids) /\ Len(l) \in Nat /\ Len(m) \in Nat
      BY DEF Good
    <2>2. Len(j) = Len(l) + Len(m)
          /\ \A n \in 1..Len(l) + Len(m) : j[n] = IF n <= Len(l) THEN l[n] ELSE m[n - Len(l)]
      BY Zenon, <2>1, ConcatFacts
    <2> HIDE DEF j
    <2>3. ASSUME NEW n \in 1..Len(j)
          PROVE  \/ n <= Len(l) /\ n \in 1..Len(l) /\ j[n] = l[n] /\ issued[j[n]] = t
                 \/ /\ n > Len(l) /\ n - Len(l) \in 1..Len(m)
                    /\ j[n] = m[n - Len(l)] /\ issued[j[n]] = u
      <3>1. CASE n <= Len(l)
        <4>1. n \in 1..Len(l) /\ n \in 1..Len(l) + Len(m)
          BY <2>1, <2>2, <3>1
        <4>2. j[n] = l[n]
          BY Zenon, <2>2, <3>1, <4>1
        <4> QED BY Zenon, <3>1, <4>1, <4>2 DEF Good
      <3>2. CASE n > Len(l)
        <4>1. n - Len(l) \in 1..Len(m) /\ n \in 1..Len(l) + Len(m) /\ ~(n <= Len(l))
          BY <2>1, <2>2, <3>2
        <4>2. j[n] = m[n - Len(l)]
          BY <2>2, <4>1
        <4> QED BY <3>2, <4>1, <4>2 DEF Good
      <3> QED BY <2>1, <2>2, <3>1, <3>2
    <2>4. ASSUME NEW x \in 1..Len(j), NEW y \in 1..Len(j), j[x] = j[y]
          PROVE  x = y
      <3>1. CASE x <= Len(l) /\ y <= Len(l)
        <4>1. x \in 1..Len(l) /\ y \in 1..Len(l) /\ l[x] = l[y]
          BY <2>1, <2>3, <2>4, <3>1
        <4> QED BY Zenon, <4>1 DEF Good, Distinct
      <3>2. CASE x > Len(l) /\ y > Len(l)
        <4>1. /\ x - Len(l) \in 1..Len(m) /\ y - Len(l) \in 1..Len(m)
              /\ m[x - Len(l)] = m[y - Len(l)]
          BY <2>1, <2>3, <2>4, <3>2
        <4>2. x - Len(l) = y - Len(l)
          BY Zenon, <4>1 DEF Good, Distinct
        <4> QED BY <2>1, <2>2, <4>2
      <3>3. CASE (x <= Len(l)) # (y <= Len(l))
        BY <2>1, <2>3, <2>4, <3>3
      <3> QED BY <2>1, <2>2, <3>1, <3>2, <3>3
    <2>5. Distinct(j)
      BY <2>4 DEF Distinct
    <2> QED BY <2>3, <2>5 DEF j
  <1>1. ListInv => NotifiedOnce
    <2> SUFFICES ASSUME ListInv, publish.pc = "readAny"
                 PROVE  /\ Distinct(Targets)
                        /\ \A n \in 1..Len(Targets) :
                             issued[Targets[n]] \in {publish.topic, AnyTopic}
      BY DEF NotifiedOnce
    <2>1. publish.topic \in Topics \ {AnyTopic}
      BY Zenon DEF ListInv, PublishOK
    <2>2. Kept(publish.topic, publish.targets)
      BY DEF Kept
    <2>3. Good(publish.topic, publish.targets)
      BY Zenon, <2>1, <2>2 DEF ListInv, ListsOK
    <2>4. Good(AnyTopic, getSerializedSubscriptions(AnyTopic))
      BY Zenon, ListReadGood, PubSubAssumption
    <2> QED BY Zenon, <2>1, <2>3, <2>4, <1>JoinedDistinct DEF Targets
  <1> QED BY <1>1, InitListInv, NextListInv, PTL DEF Spec

-----------------------------------------------------------------------------
(***************************************************************************)
(* The password of the store.                                              *)
(***************************************************************************)
\* The store has the password of the wallet.
SamePassword == encKey # NoKey /\ encKey.password = wallet.password

\* An RPC at work: which password the store has by then.
Stage(a) ==
  /\ admin[a].pc = "init" =>
       /\ change[a] = NoChange
       /\ wallet.password = admin[a].password /\ encKey = NoKey /\ key = NoKey
  /\ admin[a].pc = "change" =>
       /\ change[a] = NoChange
       /\ encKey # NoKey /\ encKey.password = admin[a].password
       /\ wallet.password = admin[a].new
  /\ change[a] # NoChange =>
       /\ admin[a] = NoAdmin
       /\ change[a].newKey # NoKey /\ change[a].newKey.password = wallet.password
  /\ admin[a].pc \notin {"init", "change"} /\ change[a] = NoChange => SamePassword

AdminRecord ==
  [pc : {"idle", "init", "initBuckets", "unlock", "buckets", "lock", "clear", "change"},
   password : Passwords \cup {NoPassword}, new : Passwords \cup {NoPassword}]

\* While RPCs do not overlap and no write fails, the one at work is at a stage that
\* leads to the same password, and without one the passwords are the same.
PasswordInv ==
  /\ admin \in [Admins -> AdminRecord] /\ DOMAIN change = Admins
  /\ keysMade \in Nat
  /\ wallet \in [password : Passwords \cup {NoPassword}, locked : BOOLEAN]
  /\ ~disturbed =>
       /\ \A a, b \in Admins : ~Idle(a) /\ ~Idle(b) => a = b
       /\ \A a \in Admins : ~Idle(a) => wallet.password # NoPassword /\ Stage(a)
       /\ (\A a \in Admins : Idle(a)) =>
            IF wallet.password = NoPassword THEN encKey = NoKey /\ key = NoKey
            ELSE SamePassword

\* With the faults, which disturbed compares.
PasswordFaultInv == PasswordInv /\ faults \in Nat

passwordVars == <<encKey, key, keysMade, change, wallet, admin>>

\* No wallet, no key.
LEMMA InitPasswordInv == Init => PasswordInv
  BY DEF Init, StoreInit, PasswordInv, Idle, AdminRecord, NoAdmin

\* No RPC is at work at an idle record.
LEMMA IdleRecords ==
  /\ NoChange.pc = "idle" /\ NoAdmin.pc = "idle"
  /\ \A a \in Admins : Stage(a) /\ admin[a].pc # "idle" => change[a] = NoChange
  <1>1. NoChange.pc = "idle"
    BY DEF NoChange
  <1>2. NoAdmin.pc = "idle"
    BY DEF NoAdmin
  <1>3. \A a \in Admins : Stage(a) /\ change[a] # NoChange => admin[a] = NoAdmin
    BY Zenon DEF Stage
  <1> QED BY <1>1, <1>2, <1>3, Zenon

\* The number of a key just derived is within the bound.
LEMMA NextKey ==
  ASSUME keysMade \in Nat, keysMade < MaxKeys
  PROVE  keysMade + 1 \in 1..MaxKeys
  BY StoreAssumption

\* A key just derived is one (securestore/bolt/store.go, NewSecretKey).
LEMMA NewKeys ==
  ASSUME NEW pw \in Passwords, keysMade \in Nat, keysMade < MaxKeys
  PROVE  NewSecretKey(pw) # NoKey /\ NewSecretKey(pw).password = pw
  <1>1. keysMade + 1 \in 1..MaxKeys
    BY NextKey
  <1>2. [password |-> pw, salt |-> keysMade + 1] # NoKey
    BY Zenon, <1>1, StoreAssumption
  <1> QED BY <1>2 DEF NewSecretKey

\* The RPC at work is the only one (history variable disturbed).
LEMMA OthersIdle ==
  ASSUME PasswordInv, NEW a \in Admins, ~Idle(a), ~disturbed
  PROVE  /\ \A b \in Admins : b # a => Idle(b)
         /\ wallet.password \in Passwords /\ wallet.password # NoPassword
         /\ Stage(a)
  BY Zenon DEF PasswordInv

\* Every step keeps the invariant of the passwords.
LEMMA NextPasswordInv == PasswordFaultInv /\ [Next]_vars => PasswordFaultInv'
  \* A step that touches none of it and hides no failure.
  <1>SamePasswords.
    ASSUME PasswordInv, UNCHANGED passwordVars, disturbed => disturbed'
    PROVE  PasswordInv'
    BY Zenon, <1>SamePasswords DEF PasswordInv, passwordVars, Idle, Stage, SamePassword
  \* A step of one RPC, all others being idle, is judged by its own stage.
  <1>StageIsEnough.
    ASSUME PasswordInv, NEW a \in Admins,
           admin' \in [Admins -> AdminRecord], DOMAIN change' = Admins, keysMade' \in Nat,
           wallet' \in [password : Passwords \cup {NoPassword}, locked : BOOLEAN],
           \A b \in Admins : b # a => admin'[b] = admin[b] /\ change'[b] = change[b],
           ~disturbed' => /\ \A b \in Admins : b # a => Idle(b)
                          /\ wallet'.password # NoPassword /\ Stage(a)'
    PROVE  PasswordInv'
    <2> USE <1>StageIsEnough
    <2> SUFFICES ASSUME ~disturbed'
                 PROVE  /\ \A b, c \in Admins : ~Idle(b)' /\ ~Idle(c)' => b = c
                        /\ \A b \in Admins : ~Idle(b)' => wallet'.password # NoPassword /\ Stage(b)'
                        /\ (\A b \in Admins : Idle(b)') =>
                             IF wallet'.password = NoPassword THEN encKey' = NoKey /\ key' = NoKey
                             ELSE SamePassword'
      BY Zenon DEF PasswordInv
    <2>1. \A b \in Admins : b # a => Idle(b)'
      BY Zenon DEF Idle
    <2>2. Idle(a)' => SamePassword'
      <3>1. Idle(a)' => admin'[a].pc \notin {"init", "change"} /\ change'[a] = NoChange
        BY Zenon, IdleRecords DEF Idle
      <3> QED BY <3>1, Zenon DEF Stage
    <2> QED BY Zenon, <2>1, <2>2
  \* What an RPC asks of the wallet (unlocker/service.go).
  <1>WalletPasswords.
    ASSUME PasswordInv, NEW a \in Admins,
           InitWallet(a) \/ UnlockWallet(a) \/ LockWallet(a) \/ ChangePassword(a),
           disturbed' = (disturbed \/ Busy)
    PROVE  PasswordInv'
    <2> USE <1>WalletPasswords
    <2>1. /\ UNCHANGED <<encKey, key, keysMade, change>>
          /\ Idle(a) /\ admin \in [Admins -> AdminRecord] /\ DOMAIN change = Admins /\ keysMade \in Nat
          /\ change[a] = NoChange
      BY DEF InitWallet, UnlockWallet, LockWallet, ChangePassword, storeVars, Idle, PasswordInv
    <2>2. PICK pc, pw, new :
            /\ admin' = [admin EXCEPT ![a] = Admin(pc, pw, new)]
            /\ \/ pc = "init" /\ wallet.password = NoPassword /\ new = NoPassword
                  /\ wallet'.password = pw /\ pw \in Passwords
               \/ pc = "change" /\ wallet.password # NoPassword /\ pw = wallet.password
                  /\ wallet'.password = new /\ new \in Passwords
               \/ pc \in {"unlock", "lock"} /\ wallet.password # NoPassword
                  /\ pw = wallet.password /\ new = NoPassword
                  /\ wallet'.password = wallet.password
      <3>1. CASE InitWallet(a)
        <4>1. PICK pw \in Passwords :
                /\ wallet' = [password |-> pw, locked |-> TRUE]
                /\ admin' = [admin EXCEPT ![a] = Admin("init", pw, NoPassword)]
          BY Zenon, <3>1 DEF InitWallet
        <4>2. wallet'.password = pw /\ wallet.password = NoPassword
          BY <3>1, <4>1 DEF InitWallet
        <4> QED BY Zenon, <4>1, <4>2
      <3>2. CASE UnlockWallet(a)
        <4>1. wallet'.password = wallet.password
          BY <3>2 DEF UnlockWallet
        <4> QED BY Zenon, <3>2, <4>1 DEF UnlockWallet
      <3>3. CASE LockWallet(a)
        <4>1. wallet'.password = wallet.password
          BY <3>3 DEF LockWallet
        <4> QED BY Zenon, <3>3, <4>1 DEF LockWallet
      <3>4. CASE ChangePassword(a)
        <4>1. PICK pw \in Passwords :
                /\ wallet' = [wallet EXCEPT !.password = pw]
                /\ admin' = [admin EXCEPT ![a] = Admin("change", wallet.password, pw)]
          BY Zenon, <3>4 DEF ChangePassword
        <4>2. wallet'.password = pw /\ wallet.password # NoPassword
          BY <3>4, <4>1 DEF ChangePassword, PasswordInv
        <4> QED BY Zenon, <4>1, <4>2
      <3> QED BY Zenon, <3>1, <3>2, <3>3, <3>4
    <2>3. /\ admin' \in [Admins -> AdminRecord]
          /\ admin'[a].pc = pc /\ admin'[a].password = pw /\ admin'[a].new = new
          /\ \A b \in Admins : b # a => admin'[b] = admin[b]
      <3>1. wallet.password \in Passwords \cup {NoPassword}
        BY Zenon DEF PasswordInv
      <3>2. Admin(pc, pw, new) \in AdminRecord
        BY Zenon, <2>2, <3>1 DEF Admin, AdminRecord
      <3> QED BY Zenon, <2>1, <2>2, <3>2 DEF Admin
    <2>4. /\ wallet' \in [password : Passwords \cup {NoPassword}, locked : BOOLEAN]
          /\ wallet'.password # NoPassword
      <3> DEFINE W == [password : Passwords \cup {NoPassword}, locked : BOOLEAN]
      <3>0. wallet \in W
        BY Zenon DEF PasswordInv
      <3>1. wallet' \in W
        <4>1. ASSUME InitWallet(a) PROVE wallet' \in W
          BY <4>1 DEF InitWallet
        <4>2. ASSUME UnlockWallet(a) PROVE wallet' \in W
          BY Zenon, <3>0, <4>2 DEF UnlockWallet
        <4>3. ASSUME LockWallet(a) PROVE wallet' \in W
          BY Zenon, <3>0, <4>3 DEF LockWallet
        <4>4. ASSUME ChangePassword(a) PROVE wallet' \in W
          BY <3>0, <4>4 DEF ChangePassword
        <4> QED BY Zenon, <4>1, <4>2, <4>3, <4>4
      <3> QED BY Zenon, <2>2, <3>1, WebhooksAssumption
    <2>5. ASSUME ~disturbed'
          PROVE  (\A b \in Admins : b # a => Idle(b)) /\ Stage(a)'
      <3>1. ~disturbed /\ \A b \in Admins : Idle(b)
        BY Zenon, <2>5 DEF Busy
      <3>2. IF wallet.password = NoPassword THEN encKey = NoKey /\ key = NoKey
            ELSE SamePassword
        BY Zenon, <3>1 DEF PasswordInv
      <3>3. Stage(a)'
        <4>1. admin'[a].pc # "idle" /\ change'[a] = NoChange /\ encKey' = encKey /\ key' = key
          BY Zenon, <2>1, <2>2, <2>3
        <4>2. CASE pc = "init"
          BY Zenon, <2>2, <2>3, <3>2, <4>1, <4>2 DEF Stage, SamePassword
        <4>3. CASE pc = "change"
          BY Zenon, <2>2, <2>3, <3>2, <4>1, <4>3 DEF Stage, SamePassword
        <4>4. CASE pc \in {"unlock", "lock"}
          BY Zenon, <2>2, <2>3, <3>2, <4>1, <4>4 DEF Stage, SamePassword
        <4> QED BY Zenon, <2>2, <4>2, <4>3, <4>4
      <3> QED BY <3>1, <3>3
    <2> QED BY <2>1, <2>3, <2>4, <2>5, <1>StageIsEnough
  \* What an RPC does in the store (unlocker/service.go, pubsub/store.go).
  <1>StorePasswords.
    ASSUME PasswordInv, faults \in Nat, NEW a \in Admins, AdminSteps(a),
           disturbed' = (disturbed \/ faults' # faults)
    PROVE  PasswordInv'
    <2> USE <1>StorePasswords
    <2>1. admin \in [Admins -> AdminRecord] /\ DOMAIN change = Admins /\ keysMade \in Nat
      BY DEF PasswordInv
    <2>2. ~Idle(a)
      <3>1. admin[a].pc # "idle" \/ change[a].pc \in {"read", "rewrite", "store"}
        BY Zenon DEF AdminSteps, StoreUnlock, StoreBuckets, StoreLock, StoreChangePassword,
               StoreChanges, ChangeReadsBucket, ChangeRewrites, ChangeStoresKey
      <3>2. change[a].pc \in {"read", "rewrite", "store"} => change[a].pc # "idle"
        OBVIOUS
      <3> QED BY <3>1, <3>2, IdleRecords, Zenon DEF Idle
    <2>3. ~disturbed' => /\ ~disturbed /\ Stage(a) /\ wallet.password \in Passwords
                         /\ \A b \in Admins : b # a => Idle(b)
                         /\ wallet.password # NoPassword
      BY Zenon, <2>2, OthersIdle
    <2>4. wallet' = wallet
      BY Zenon DEF AdminSteps, StoreUnlock, StoreBuckets, StoreLock, StoreChangePassword, StoreChanges
    <2>5. SUFFICES /\ admin' \in [Admins -> AdminRecord] /\ DOMAIN change' = Admins /\ keysMade' \in Nat
                   /\ \A b \in Admins : b # a => admin'[b] = admin[b] /\ change'[b] = change[b]
                   /\ ~disturbed' => Stage(a)'
      <3>1. wallet' \in [password : Passwords \cup {NoPassword}, locked : BOOLEAN]
        BY Zenon, <2>4 DEF PasswordInv
      <3> QED BY Zenon, <2>3, <2>4, <3>1, <1>StageIsEnough
    <2>6. CASE StoreUnlock(a)
      <3>1. PICK ok \in BOOLEAN :
              /\ CreateUnlock(admin[a].password, ok)
              /\ \/ ok /\ \E pc \in {"initBuckets", "buckets"} :
                             admin' = [admin EXCEPT ![a].pc = pc]
                 \/ admin' = [admin EXCEPT ![a] = NoAdmin]
              /\ ok \/ admin' = [admin EXCEPT ![a] = NoAdmin]
        BY Zenon, <2>6 DEF StoreUnlock, Step, End
      <3>2. change' = change /\ admin[a].pc \in {"init", "unlock"} /\ wallet' = wallet
        BY Zenon, <2>6 DEF StoreUnlock
      <3>3. keysMade' \in Nat
        BY <2>1, <3>1 DEF CreateUnlock
      <3>4. /\ admin' \in [Admins -> AdminRecord]
            /\ \A b \in Admins : b # a => admin'[b] = admin[b]
            /\ admin'[a].pc \notin {"init", "change"}
        BY <2>1, <3>1 DEF AdminRecord, NoAdmin
      <3>6. ASSUME ~disturbed' PROVE Stage(a)'
        <4>1. Stage(a) /\ wallet.password \in Passwords
          BY <2>3, <3>6
        <4>2. change[a] = NoChange
          <5>1. admin[a].pc # "idle"
            BY Zenon, <3>2
          <5> QED BY <4>1, <5>1, IdleRecords, Zenon
        <4>3. SamePassword'
          <5>1. CASE admin[a].pc = "init"
            <6>1. /\ encKey' = NewSecretKey(admin[a].password)
                  /\ keysMade < MaxKeys /\ admin[a].password = wallet.password
              BY <3>1, <4>1, <5>1 DEF Stage, CreateUnlock, IsLocked
            <6> QED BY <2>1, <3>2, <4>1, <6>1, NewKeys DEF SamePassword
          <5>2. CASE admin[a].pc = "unlock"
            BY Zenon, <3>1, <3>2, <4>1, <4>2, <5>2 DEF Stage, CreateUnlock, SamePassword
          <5> QED BY Zenon, <3>2, <5>1, <5>2
        <4> QED BY Zenon, <3>2, <3>4, <4>2, <4>3 DEF Stage
      <3> QED BY <2>1, <3>2, <3>3, <3>4, <3>6
    <2>7. CASE StoreBuckets(a) \/ StoreLock(a)
      <3>1. /\ change' = change /\ keysMade' = keysMade /\ encKey' = encKey
            /\ admin[a].pc \in {"initBuckets", "buckets", "lock", "clear"}
        BY Zenon, <2>7 DEF StoreBuckets, StoreLock, diskVars
      <3>2. \/ \E pc \in {"lock", "clear"} : admin' = [admin EXCEPT ![a].pc = pc]
            \/ admin' = [admin EXCEPT ![a] = NoAdmin]
            \/ admin' = admin
        BY Zenon, <2>7 DEF StoreBuckets, StoreLock, Step, End
      <3>3. /\ admin' \in [Admins -> AdminRecord]
            /\ \A b \in Admins : b # a => admin'[b] = admin[b]
            /\ admin'[a].pc \notin {"init", "change"}
        BY <2>1, <3>1, <3>2 DEF AdminRecord, NoAdmin
      <3>5. ASSUME ~disturbed' PROVE Stage(a)'
        <4>1. change[a] = NoChange /\ SamePassword
          <5>1. admin[a].pc # "idle" /\ admin[a].pc \notin {"init", "change"}
            BY <3>1
          <5>2. Stage(a)
            BY <2>3, <3>5, Zenon
          <5>3. change[a] = NoChange
            BY <5>1, <5>2, IdleRecords, Zenon
          <5> QED BY <5>1, <5>2, <5>3, Zenon DEF Stage
        <4> QED BY <2>4, <3>1, <3>3, <4>1 DEF Stage, SamePassword
      <3> QED BY <2>1, <3>1, <3>3, <3>5
    <2>8. CASE StoreChangePassword(a)
      <3> DEFINE r == Change(IF buckets = {} THEN "store" ELSE "read",
                             NewSecretKey(admin[a].new), buckets, <<>>)
      <3>1. /\ admin[a].pc = "change" /\ admin' = [admin EXCEPT ![a] = NoAdmin]
            /\ encKey' = encKey /\ keysMade < MaxKeys /\ keysMade' = keysMade + 1
            /\ change' = IF encKey = NoKey \/ encKey.password # admin[a].password THEN change
                         ELSE [change EXCEPT ![a] = r]
        BY Zenon, <2>8 DEF StoreChangePassword, ChangePasswordBegins, End, diskVars
      <3>2. /\ admin' \in [Admins -> AdminRecord] /\ admin'[a] = NoAdmin
            /\ \A b \in Admins : b # a => admin'[b] = admin[b]
        BY Zenon, <2>1, <3>1 DEF AdminRecord, NoAdmin
      <3>3. r.newKey = NewSecretKey(admin[a].new) /\ r # NoChange
        <4>1. r.pc # NoChange.pc
          BY Zenon DEF Change, NoChange
        <4>2. r # NoChange
          BY Zenon, <4>1
        <4> QED BY Zenon, <4>2 DEF Change
      <3> HIDE DEF r
      <3>4. DOMAIN change' = Admins /\ \A b \in Admins : b # a => change'[b] = change[b]
        BY <2>1, <3>1
      <3>5. ASSUME ~disturbed' PROVE Stage(a)'
        <4>1. Stage(a) /\ wallet.password \in Passwords
          BY Zenon, <2>3, <3>5
        <4>2. encKey # NoKey /\ encKey.password = admin[a].password
              /\ wallet.password = admin[a].new
          BY Zenon, <3>1, <4>1 DEF Stage
        <4>3. change'[a] = r
          BY Zenon, <2>1, <3>1, <4>2
        <4>4. r.newKey # NoKey /\ r.newKey.password = wallet.password
          BY Zenon, <2>1, <3>1, <3>3, <4>1, <4>2, NewKeys
        <4>5. admin'[a].pc = "idle" /\ "idle" \notin {"init", "change"}
          BY <3>2, IdleRecords
        <4>6. /\ change'[a] # NoChange
              /\ change'[a].newKey # NoKey /\ change'[a].newKey.password = wallet'.password
          BY <2>4, <3>3, <4>3, <4>4, Zenon
        <4> QED BY Zenon, <3>2, <4>5, <4>6 DEF Stage
      <3>6. keysMade' \in Nat
        BY <2>1, <3>1
      <3> QED BY Zenon, <3>2, <3>4, <3>5, <3>6
    <2>9. CASE StoreChanges(a)
      <3>1. admin' = admin /\ change[a].pc \in {"read", "rewrite", "store"}
        BY Zenon, <2>9 DEF StoreChanges, ChangeReadsBucket, ChangeRewrites, ChangeStoresKey
      <3>2. change[a] # NoChange
        <4>1. change[a].pc # "idle"
          BY <3>1
        <4> QED BY <4>1, IdleRecords, Zenon
      <3>3. CASE ChangeReadsBucket(a) \/ ChangeRewrites(a)
        <4>1. PICK pc, left, plain :
                change' = [change EXCEPT ![a] = Change(pc, change[a].newKey, left, plain)]
                   /\ pc \in {"read", "rewrite", "store"}
          <5>1. CASE ChangeReadsBucket(a)
            BY Zenon, <5>1 DEF ChangeReadsBucket
          <5>2. CASE ChangeRewrites(a)
            BY Zenon, <5>2 DEF ChangeRewrites
          <5> QED BY <3>3, <5>1, <5>2
        <4>2. encKey' = encKey /\ keysMade' = keysMade
          BY Zenon, <3>3 DEF ChangeReadsBucket, ChangeRewrites, diskVars
        <4>3. /\ DOMAIN change' = Admins /\ \A b \in Admins : b # a => change'[b] = change[b]
              /\ change'[a].newKey = change[a].newKey /\ change'[a].pc # "idle"
          BY <2>1, <4>1 DEF Change
        <4>4. change'[a] # NoChange
          BY <4>3, IdleRecords, Zenon
        <4>5. ASSUME ~disturbed' PROVE Stage(a)'
          <5>1. /\ admin'[a] = NoAdmin
                /\ change[a].newKey # NoKey /\ change[a].newKey.password = wallet.password
            BY <2>3, <3>1, <3>2, <4>5, Zenon DEF Stage
          <5>2. admin'[a].pc = "idle" /\ "idle" \notin {"init", "change"}
            BY <5>1, IdleRecords
          <5>3. change'[a].newKey # NoKey /\ change'[a].newKey.password = wallet'.password
            BY <2>4, <4>3, <5>1, Zenon
          <5> QED BY Zenon, <4>4, <5>1, <5>2, <5>3 DEF Stage
        <4> QED BY Zenon, <2>1, <3>1, <4>2, <4>3, <4>5
      <3>4. CASE ChangeStoresKey(a)
        <4>1. /\ change' = [change EXCEPT ![a] = NoChange] /\ keysMade' = keysMade
              /\ encKey' = change[a].newKey \/ faults' = faults + 1
          BY Zenon, <3>4 DEF ChangeStoresKey
        <4>2. /\ DOMAIN change' = Admins /\ change'[a] = NoChange
              /\ \A b \in Admins : b # a => change'[b] = change[b]
          BY Zenon, <2>1, <4>1
        <4>3. ASSUME ~disturbed' PROVE Stage(a)'
          <5>1. Stage(a) /\ faults' = faults
            BY Zenon, <2>3, <4>3
          <5>2. encKey' = change[a].newKey
            BY <4>1, <5>1
          <5>3. admin[a] = NoAdmin /\ SamePassword'
            <6>1. /\ admin[a] = NoAdmin
                  /\ change[a].newKey # NoKey /\ change[a].newKey.password = wallet.password
              BY <3>2, <5>1, Zenon DEF Stage
            <6> QED BY <2>4, <5>2, <6>1, Zenon DEF SamePassword
          <5>4. admin'[a].pc = "idle" /\ "idle" \notin {"init", "change"}
            BY <3>1, <5>3, IdleRecords
          <5> QED BY <4>2, <5>3, <5>4 DEF Stage
        <4> QED BY Zenon, <2>1, <3>1, <4>1, <4>2, <4>3
      <3> QED BY Zenon, <2>9, <3>3, <3>4 DEF StoreChanges
    <2> QED BY Zenon, <2>6, <2>7, <2>8, <2>9 DEF AdminSteps
  \* The faults are counted.
  <1>FaultsCounted.
    ASSUME faults \in Nat, [Next]_vars
    PROVE  faults' \in Nat
    <2> USE <1>FaultsCounted
    <2>1. CASE RPCBegins
      BY <2>1 DEF RPCBegins, Subscribe, Unsubscribe, InitWallet, UnlockWallet, LockWallet,
                  ChangePassword, storeVars
    <2>2. ASSUME NEW c \in Callers, CallSteps(c) PROVE faults' \in Nat
      <3>1. \A i, new, ok : Transaction(i, new, ok) => faults' \in Nat
        BY DEF Transaction
      <3>2. CASE AddReadsList(c) \/ RemoveReadsList(c)
        BY Zenon, <3>2 DEF AddReadsList, RemoveReadsList, storeVars
      <3>3. CASE AddSubscription(c)
        BY <3>1, <3>3, Zenon DEF AddSubscription, AddToBucket
      <3>4. CASE RemoveSubscription(c)
        BY <3>1, <3>4, Zenon DEF RemoveSubscription, RemoveFromBucket
      <3>5. CASE WriteList(c)
        <4>1. \E i, new, ok : Transaction(i, new, ok)
          BY Zenon, <3>5 DEF WriteList, AddToBucket, RemoveFromBucket
        <4> QED BY <3>1, <4>1, Zenon
      <3> QED BY <2>2, <3>2, <3>3, <3>4, <3>5 DEF CallSteps
    <2>3. ASSUME NEW a \in Admins, AdminSteps(a) PROVE faults' \in Nat
      <3>1. CASE StoreUnlock(a) \/ StoreBuckets(a) \/ StoreLock(a) \/ StoreChangePassword(a)
        BY Zenon, <3>1 DEF StoreUnlock, StoreBuckets, StoreLock, StoreChangePassword
      <3>2. CASE ChangeReadsBucket(a)
        BY <3>2, Zenon DEF ChangeReadsBucket
      <3>3. CASE ChangeRewrites(a)
        <4>1. faults' = faults \/ faults' = faults + 1
          BY <3>3, Zenon DEF ChangeRewrites
        <4> QED BY <4>1
      <3>4. CASE ChangeStoresKey(a)
        <4>1. faults' = faults \/ faults' = faults + 1
          BY <3>4, Zenon DEF ChangeStoresKey
        <4> QED BY <4>1
      <3> QED BY <2>3, <3>1, <3>2, <3>3, <3>4 DEF AdminSteps, StoreChanges
    <2>4. CASE PublishSteps
      BY <2>4 DEF PublishSteps, Publish, PublishRequests, storeVars
    <2>5. CASE Crash
      BY <2>5 DEF Crash
    <2>6. CASE UNCHANGED vars
      BY Zenon, <2>6 DEF vars, storeVars
    <2> QED BY <2>1, <2>2, <2>3, <2>4, <2>5, <2>6 DEF Next
  \* A crash between RPCs loses the key in memory only.
  <1>CrashPasswords.
    ASSUME PasswordInv, Crash, disturbed' = (disturbed \/ Busy)
    PROVE  PasswordInv'
    <2> USE <1>CrashPasswords
    <2>1. /\ UNCHANGED <<encKey, keysMade, wallet>> /\ key' = NoKey
          /\ change' = [a \in Admins |-> NoChange] /\ admin' = [a \in Admins |-> NoAdmin]
      BY Zenon DEF Crash, StoreDies, diskVars
    <2>2. /\ admin' \in [Admins -> AdminRecord] /\ DOMAIN change' = Admins
          /\ \A a \in Admins : Idle(a)'
      BY <2>1 DEF AdminRecord, NoAdmin, Idle
    <2>3. ~disturbed' => ~disturbed /\ \A a \in Admins : Idle(a)
      BY Zenon DEF Busy
    <2> QED BY Zenon, <2>1, <2>2, <2>3 DEF PasswordInv, SamePassword
  <1> SUFFICES ASSUME PasswordInv, faults \in Nat, [Next]_vars PROVE PasswordInv'
    BY Zenon, <1>FaultsCounted DEF PasswordFaultInv
  <1>1. CASE RPCBegins /\ disturbed' = (disturbed \/ Busy)
    <2>1. CASE \E c \in Callers : (Subscribe(c) \/ Unsubscribe(c)) /\ UNCHANGED <<wallet, admin>>
      <3>1. UNCHANGED passwordVars
        BY Zenon, <2>1 DEF Subscribe, Unsubscribe, storeVars, passwordVars
      <3> QED BY Zenon, <1>1, <3>1, <1>SamePasswords
    <2>2. CASE \E a \in Admins : InitWallet(a) \/ UnlockWallet(a) \/ LockWallet(a)
                                  \/ ChangePassword(a)
      BY <1>1, <2>2, <1>WalletPasswords
    <2> QED BY <1>1, <2>1, <2>2 DEF RPCBegins
  <1>2. ASSUME NEW c \in Callers, CallSteps(c), disturbed' = (disturbed \/ faults' # faults)
        PROVE  PasswordInv'
    <2>1. UNCHANGED passwordVars
      BY Zenon, <1>2 DEF CallSteps, AddSubscription, AddReadsList, RemoveSubscription, RemoveReadsList,
                  WriteList, storeVars, passwordVars
    <2> QED BY Zenon, <1>2, <2>1, <1>SamePasswords
  <1>3. ASSUME NEW a \in Admins, AdminSteps(a), disturbed' = (disturbed \/ faults' # faults)
        PROVE  PasswordInv'
    BY <1>3, <1>StorePasswords
  <1>4. CASE PublishSteps /\ disturbed' = (disturbed \/ faults' # faults)
    <2>1. UNCHANGED passwordVars
      BY <1>4 DEF PublishSteps, Publish, PublishRequests, storeVars, passwordVars
    <2> QED BY Zenon, <1>4, <2>1, <1>SamePasswords
  <1>5. CASE Crash /\ disturbed' = (disturbed \/ Busy)
    BY Zenon, <1>5, <1>CrashPasswords
  <1>6. CASE UNCHANGED vars
    BY <1>6, <1>SamePasswords DEF vars, storeVars, passwordVars
  <1> QED BY Zenon, <1>1, <1>2, <1>3, <1>4, <1>5, <1>6 DEF Next

\* While the RPCs of the wallet service do not overlap and no write of the store
\* fails, the store has the password of the wallet after each of them, whatever
\* their order and wherever the daemon restarts in between (unlocker/service.go).
THEOREM PasswordsStayTheSame == Spec => []PasswordsAgree
  <1>1. Init => PasswordFaultInv
    BY InitPasswordInv DEF Init, StoreInit, PasswordFaultInv
  <1>2. PasswordFaultInv => PasswordsAgree
    BY DEF PasswordFaultInv, PasswordInv, PasswordsAgree, SamePassword, Busy
  <1> QED BY <1>1, <1>2, NextPasswordInv, PTL DEF Spec

-----------------------------------------------------------------------------
(***************************************************************************)
(* The lists of the topics and the subscriptions.                          *)
(***************************************************************************)
Active(c) == calls[c].pc # "idle"

\* The identifiers a list names.
Named(l) == {l[n] : n \in 1..Len(l)}

Readable == \A i \in Items : data[i] # NoValue => data[i].key = encKey

Agrees(t) == Listed(t) = Subscribed(t)

\* An RPC at work on the subscription i of topic t: what the two buckets say by then.
CallStage(c, i, t) ==
  /\ key = encKey /\ key # NoKey /\ Buckets \subseteq buckets
  /\ \A u \in Topics \ {t} : Agrees(u)
  /\ calls[c].pc = "addSub" => Agrees(t) /\ data[i] = NoValue
  /\ calls[c].pc = "addRead" => Subscribed(t) = Listed(t) \cup {i}
  /\ calls[c].pc = "removeSub" => Agrees(t) /\ i \in Subscribed(t)
  /\ calls[c].pc = "removeRead" => i \in Listed(t) /\ Subscribed(t) = Listed(t) \ {i}
  /\ calls[c].pc \in {"addWrite", "removeWrite"} => Named(calls[c].list) = Subscribed(t)

MakesBuckets(a) == admin[a].pc \in {"initBuckets", "buckets"}

\* One RPC at a time.
OneAtWork ==
  /\ \A c, d \in Callers : Active(c) /\ Active(d) => c = d
  /\ \A c \in Callers, a \in Admins : Active(c) => Idle(a)

\* The key and the buckets between and during the RPCs of the wallet service.
KeysOK ==
  /\ encKey \in SecretKey \cup {NoKey}
  /\ \A a \in Admins : change[a] # NoChange => change[a].newKey \in SecretKey /\ encKey # NoKey
  /\ key = ZeroKey => \E a \in Admins : admin[a].pc = "clear"
  /\ \A a \in Admins : MakesBuckets(a) => key # NoKey
  /\ (\A a \in Admins : ~MakesBuckets(a)) => buckets = {} \/ Buckets \subseteq buckets
  /\ encKey = NoKey => \A i \in Items : data[i] = NoValue

\* What is stored, unless a password is being changed.
StoreOK ==
  ~rekeyed /\ (\A a \in Admins : change[a] = NoChange) =>
    /\ Readable
    /\ \A c \in Callers : Active(c) => CallStage(c, calls[c].id, calls[c].topic)
    /\ (\A c \in Callers : ~Active(c)) => \A t \in Topics : Agrees(t)

AgreeInv == ~disturbed => OneAtWork /\ KeysOK /\ StoreOK

agreeVars == <<encKey, key, buckets, data, change, calls, admin, rekeyed>>

\* No RPC has begun and nothing is stored.
LEMMA InitAgreeInv == Init => AgreeInv
  <1> SUFFICES ASSUME Init PROVE AgreeInv
    OBVIOUS
  <1>1. /\ encKey = NoKey /\ key = NoKey /\ buckets = {}
        /\ data = [i \in Items |-> NoValue]
        /\ change = [a \in Admins |-> NoChange]
        /\ calls = [c \in Callers |-> NoCall]
        /\ admin = [a \in Admins |-> NoAdmin]
    BY Zenon DEF Init, StoreInit, PubSubInit
  <1>2. /\ \A c \in Callers : ~Active(c)
        /\ \A a \in Admins : change[a] = NoChange /\ ~MakesBuckets(a)
        /\ \A i \in Items : data[i] = NoValue
    BY Zenon, <1>1 DEF Active, MakesBuckets, NoCall, NoAdmin
  <1>3. \A t \in Topics : Agrees(t)
    BY <1>2, Names DEF Agrees, Listed, Subscribed
  <1>4. OneAtWork /\ KeysOK
    BY Zenon, <1>1, <1>2, StoreAssumption DEF OneAtWork, KeysOK
  <1>5. StoreOK
    BY Zenon, <1>2, <1>3 DEF StoreOK, Readable
  <1> QED BY Zenon, <1>4, <1>5 DEF AgreeInv

\* The lists and the subscriptions follow the data (pubsub/store.go).
LEMMA FollowData ==
  ASSUME data' = data
  PROVE  \A t : /\ Listed(t)' = Listed(t) /\ Subscribed(t)' = Subscribed(t)
               /\ Agrees(t)' = Agrees(t)
  <1> SUFFICES ASSUME NEW t
               PROVE  /\ Listed(t)' = Listed(t) /\ Subscribed(t)' = Subscribed(t)
                      /\ Agrees(t)' = Agrees(t)
    OBVIOUS
  <1>1. Listed(t)' = Listed(t)
    BY Zenon DEF Listed
  <1>2. Subscribed(t)' = Subscribed(t)
    BY Zenon DEF Subscribed
  <1> QED BY Zenon, <1>1, <1>2 DEF Agrees

\* A step that touches none of it and hides no failure.
LEMMA SameAgreement ==
  ASSUME AgreeInv, UNCHANGED agreeVars, disturbed => disturbed'
  PROVE  AgreeInv'
  <1>1. /\ encKey' = encKey /\ key' = key /\ buckets' = buckets /\ data' = data
        /\ change' = change /\ calls' = calls /\ admin' = admin /\ rekeyed' = rekeyed
    BY Zenon DEF agreeVars
  <1>2. OneAtWork => OneAtWork'
    BY Zenon, <1>1 DEF OneAtWork, Active, Idle
  <1>3. KeysOK => KeysOK'
    BY <1>1 DEF KeysOK, MakesBuckets
  <1>4. \A t : /\ Listed(t)' = Listed(t) /\ Subscribed(t)' = Subscribed(t)
               /\ Agrees(t)' = Agrees(t)
    BY <1>1, FollowData
  <1>5. ASSUME NEW c, NEW i, NEW t, CallStage(c, i, t) PROVE CallStage(c, i, t)'
    <2>1. \A u \in Topics \ {t} : Agrees(u)'
      BY Zenon, <1>4, <1>5 DEF CallStage
    <2> QED BY Zenon, <1>1, <1>4, <1>5, <2>1 DEF CallStage, Named
  <1>6. StoreOK => StoreOK'
    BY Zenon, <1>1, <1>4, <1>5 DEF StoreOK, Readable, Active
  <1> QED BY <1>2, <1>3, <1>6 DEF AgreeInv

\* A wallet RPC that is over makes no bucket (unlocker/service.go).
LEMMA IdleAdmin ==
  ASSUME NEW a \in Admins, Idle(a)
  PROVE  admin[a].pc = "idle" /\ ~MakesBuckets(a) /\ change[a] = NoChange
  <1>1. admin[a] = NoAdmin /\ change[a] = NoChange
    BY DEF Idle
  <1>2. NoAdmin.pc = "idle"
    BY DEF NoAdmin
  <1>3. admin[a].pc = "idle"
    BY Zenon, <1>1, <1>2
  <1> QED BY <1>1, <1>3 DEF MakesBuckets

\* While no RPC of the wallet service runs, the key in memory is none or the one on
\* disk, and the buckets are all there or none is (pubsub/store.go).
LEMMA KeyAtRest ==
  ASSUME KeysOK, MemoryKeyIsStored, \A a \in Admins : Idle(a)
  PROVE  /\ key = NoKey \/ key = encKey
         /\ buckets = {} \/ Buckets \subseteq buckets
  <1>1. \A a \in Admins : ~MakesBuckets(a) /\ admin[a].pc # "clear"
    BY Zenon, IdleAdmin
  <1> QED BY Zenon, <1>1 DEF KeysOK, MemoryKeyIsStored

-----------------------------------------------------------------------------
(***************************************************************************)
(* The steps of an RPC that adds or removes a webhook, alone at work.      *)
(***************************************************************************)

\* The RPC begins on a store that is open and has its buckets (pubsub/service.go,
\* Subscribe, Unsubscribe).
LEMMA CallBegins ==
  ASSUME ListInv, MemoryKeyIsStored, AgreeInv, NEW c \in Callers,
         Subscribe(c) \/ Unsubscribe(c), UNCHANGED <<wallet, admin>>,
         disturbed' = (disturbed \/ Busy)
  PROVE  AgreeInv'
  <1> SUFFICES ASSUME ~disturbed' PROVE AgreeInv'
    BY DEF AgreeInv
  <1>1. ~disturbed /\ (\A a \in Admins : Idle(a)) /\ \A d \in Callers : ~Active(d)
    BY Zenon DEF Busy, ActiveCalls, Active
  <1>2. OneAtWork /\ KeysOK /\ StoreOK
    BY Zenon, <1>1 DEF AgreeInv
  <1>3. UNCHANGED <<encKey, key, buckets, data, change, admin, rekeyed>>
    BY DEF Subscribe, Unsubscribe, storeVars
  <1>4. PICK i \in Ids, t \in Topics :
          /\ ~IsLocked /\ BucketOf[i] \in buckets
          /\ \/ /\ calls' = [calls EXCEPT ![c] = Call("addSub", i, t, <<>>)]
                /\ data[i] = NoValue
             \/ /\ calls' = [calls EXCEPT ![c] = Call("removeSub", i, t, <<>>)]
                /\ data[i] # NoValue /\ data[i].value = t
    <2>1. CASE Subscribe(c)
      <3>1. PICK i \in Ids, t \in Topics :
              /\ GetFromBucket(i) = Returned(NoValue)
              /\ calls' = [calls EXCEPT ![c] = Call("addSub", i, t, <<>>)]
        BY Zenon, <2>1 DEF Subscribe, Goto
      <3>2. ~IsLocked /\ BucketOf[i] \in buckets
        BY <3>1 DEF GetFromBucket, Returned, Failed
      <3>3. data[i] = NoValue
        <4>1. data[i] # NoValue => data[i].value \in Topics
          BY DEF ListInv, TopicsOK
        <4> QED BY Zenon, <3>1, <3>2, <4>1, PubSubAssumption DEF GetFromBucket, Returned, Failed
      <3> QED BY Zenon, <3>1, <3>2, <3>3
    <2>2. CASE Unsubscribe(c)
      <3>1. PICK i \in Ids :
              /\ GetFromBucket(i).value # NoValue
              /\ calls' = [calls EXCEPT ![c] =
                             Call("removeSub", i, GetFromBucket(i).value, <<>>)]
        BY Zenon, <2>2 DEF Unsubscribe, Goto
      <3>2. /\ ~IsLocked /\ BucketOf[i] \in buckets /\ data[i] # NoValue
            /\ GetFromBucket(i).value = data[i].value
        BY Zenon, <3>1 DEF GetFromBucket, Returned, Failed
      <3>3. data[i].value \in Topics
        BY Zenon, <3>2 DEF ListInv, TopicsOK
      <3> QED BY Zenon, <3>1, <3>2, <3>3
    <2> QED BY Zenon, <2>1, <2>2
  <1>5. key = encKey /\ key # NoKey /\ Buckets \subseteq buckets
    BY Zenon, <1>1, <1>2, <1>4, KeyAtRest DEF IsLocked
  <1>6. DOMAIN calls = Callers
    BY Zenon DEF ListInv, Domains
  <1>7. /\ calls'[c].id = i /\ calls'[c].topic = t
        /\ \/ calls'[c].pc = "addSub" /\ data[i] = NoValue
           \/ calls'[c].pc = "removeSub" /\ data[i] # NoValue /\ data[i].value = t
        /\ \A d \in Callers : d # c => calls'[d] = calls[d]
    <2>1. CASE calls' = [calls EXCEPT ![c] = Call("addSub", i, t, <<>>)] /\ data[i] = NoValue
      BY Zenon, <1>6, <2>1 DEF Call
    <2>2. CASE /\ calls' = [calls EXCEPT ![c] = Call("removeSub", i, t, <<>>)]
               /\ data[i] # NoValue /\ data[i].value = t
      BY <1>6, <2>2 DEF Call
    <2> QED BY Zenon, <1>4, <2>1, <2>2
  <1>8. \A d \in Callers : d # c => ~Active(d)'
    BY Zenon, <1>1, <1>7 DEF Active
  <1>9. OneAtWork'
    BY Zenon, <1>1, <1>3, <1>8 DEF OneAtWork, Idle
  <1>10. KeysOK'
    BY Zenon, <1>2, <1>3 DEF KeysOK, MakesBuckets
  <1>11. ASSUME ~rekeyed PROVE Readable' /\ CallStage(c, i, t)'
    <2>1. Readable /\ \A u \in Topics : Agrees(u)
      BY Zenon, <1>1, <1>11, <1>2 DEF StoreOK, Idle
    <2>2. Readable' /\ \A u \in Topics : Agrees(u)'
      BY Zenon, <1>3, <2>1, FollowData DEF Readable
    <2>3. calls'[c].pc = "removeSub" => (i \in Subscribed(t))'
      BY Zenon, <1>3, <1>7 DEF Subscribed
    <2>4. calls'[c].pc = "addSub" => data'[i] = NoValue
      BY Zenon, <1>3, <1>7
    <2>5. key' = encKey' /\ key' # NoKey /\ Buckets \subseteq buckets'
      BY Zenon, <1>3, <1>5
    <2>6. calls'[c].pc \in {"addSub", "removeSub"}
      BY Zenon, <1>7
    <2> QED BY Zenon, <1>7, <2>2, <2>3, <2>4, <2>5, <2>6 DEF CallStage
  <1>12. Active(c)'
    BY Zenon, <1>7 DEF Active
  <1>13. StoreOK'
    BY Zenon, <1>3, <1>7, <1>8, <1>11, <1>12 DEF StoreOK
  <1> QED BY Zenon, <1>9, <1>10, <1>13 DEF AgreeInv

-----------------------------------------------------------------------------
(***************************************************************************)
(* The RPCs of the wallet service, alone at work.                          *)
(***************************************************************************)
\* A step during which no webhook is added or removed, nothing is written and the
\* values stay readable.
LEMMA QuietStore ==
  ASSUME StoreOK, \A c \in Callers : ~Active(c), UNCHANGED <<data, calls, rekeyed>>,
         (\A a \in Admins : change'[a] = NoChange) => \A a \in Admins : change[a] = NoChange,
         encKey' = encKey \/ \A i \in Items : data[i] = NoValue
  PROVE  StoreOK'
  <1> SUFFICES ASSUME ~rekeyed', \A a \in Admins : change'[a] = NoChange
               PROVE  /\ Readable'
                      /\ \A c \in Callers :
                           Active(c)' => CallStage(c, calls[c].id, calls[c].topic)'
                      /\ \A t \in Topics : Agrees(t)'
    BY Zenon DEF StoreOK
  <1>1. Readable /\ \A t \in Topics : Agrees(t)
    BY Zenon DEF StoreOK
  <1>2. Readable'
    BY Zenon, <1>1 DEF Readable
  <1>3. \A t \in Topics : Agrees(t)'
    BY Zenon, <1>1, FollowData
  <1>4. \A c \in Callers : ~Active(c)'
    BY Zenon DEF Active
  <1> QED BY Zenon, <1>2, <1>3, <1>4

\* An RPC of the wallet service asks the wallet first (unlocker/service.go).
LEMMA WalletAgrees ==
  ASSUME PasswordInv, AgreeInv, NEW a \in Admins,
         InitWallet(a) \/ UnlockWallet(a) \/ LockWallet(a) \/ ChangePassword(a),
         disturbed' = (disturbed \/ Busy)
  PROVE  AgreeInv'
  <1> SUFFICES ASSUME ~disturbed' PROVE AgreeInv'
    BY DEF AgreeInv
  <1>1. ~disturbed /\ (\A b \in Admins : Idle(b)) /\ \A c \in Callers : ~Active(c)
    BY Zenon DEF Busy, ActiveCalls, Active
  <1>2. OneAtWork /\ KeysOK /\ StoreOK
    BY <1>1 DEF AgreeInv
  <1>3. UNCHANGED <<encKey, key, buckets, data, change, calls, rekeyed>>
    BY Zenon DEF InitWallet, UnlockWallet, LockWallet, ChangePassword, storeVars, pubsubVars
  <1>4. \E pw, new :
          \/ admin' = [admin EXCEPT ![a] = Admin("init", pw, new)]
          \/ admin' = [admin EXCEPT ![a] = Admin("unlock", pw, new)]
          \/ admin' = [admin EXCEPT ![a] = Admin("lock", pw, new)]
          \/ admin' = [admin EXCEPT ![a] = Admin("change", pw, new)]
    <2>1. CASE InitWallet(a)
      BY Zenon, <2>1 DEF InitWallet
    <2>2. CASE UnlockWallet(a)
      BY Zenon, <2>2 DEF UnlockWallet
    <2>3. CASE LockWallet(a)
      BY Zenon, <2>3 DEF LockWallet
    <2>4. CASE ChangePassword(a)
      BY Zenon, <2>4 DEF ChangePassword
    <2> QED BY Zenon, <2>1, <2>2, <2>3, <2>4
  <1>5. DOMAIN admin = Admins
    BY Zenon DEF PasswordInv
  <1>6. /\ admin'[a].pc \in {"init", "unlock", "lock", "change"}
        /\ \A b \in Admins : b # a => admin'[b] = admin[b]
    BY <1>4, <1>5 DEF Admin
  <1>7. \A b \in Admins : admin[b].pc = "idle"
    BY Zenon, <1>1, IdleRecords DEF Idle
  <1>8. \A b \in Admins : ~MakesBuckets(b) /\ ~MakesBuckets(b)' /\ admin[b].pc # "clear"
    BY Zenon, <1>6, <1>7 DEF MakesBuckets
  <1>9. KeysOK'
    BY Zenon, <1>2, <1>3, <1>8 DEF KeysOK
  <1>10. OneAtWork'
    BY Zenon, <1>1, <1>3 DEF OneAtWork, Active
  <1>11. StoreOK'
    BY <1>1, <1>2, <1>3, QuietStore
  <1> QED BY Zenon, <1>9, <1>10, <1>11 DEF AgreeInv

\* A crash between RPCs: what is on disk stays, and the store is locked.
LEMMA CrashAgrees ==
  ASSUME AgreeInv, Crash, disturbed' = (disturbed \/ Busy)
  PROVE  AgreeInv'
  <1> SUFFICES ASSUME ~disturbed' PROVE AgreeInv'
    BY DEF AgreeInv
  <1>1. ~disturbed /\ (\A b \in Admins : Idle(b)) /\ \A c \in Callers : ~Active(c)
    BY Zenon DEF Busy, ActiveCalls, Active
  <1>2. OneAtWork /\ KeysOK /\ StoreOK
    BY Zenon, <1>1 DEF AgreeInv
  <1>3. /\ UNCHANGED <<encKey, buckets, data, rekeyed>> /\ key' = NoKey
        /\ change' = [a \in Admins |-> NoChange] /\ admin' = [a \in Admins |-> NoAdmin]
        /\ calls' = [c \in Callers |-> NoCall]
    BY Zenon DEF Crash, StoreDies, diskVars
  <1>4. \A c \in Callers : ~Active(c)'
    BY Zenon, <1>3 DEF Active, NoCall
  <1>5. \A a \in Admins : ~MakesBuckets(a) /\ ~MakesBuckets(a)' /\ change'[a] = NoChange
    <2>1. NoAdmin.pc = "idle"
      BY DEF NoAdmin
    <2> QED BY Zenon, <1>1, <1>3, <2>1, IdleAdmin DEF MakesBuckets
  <1>6. KeysOK'
    BY Zenon, <1>2, <1>3, <1>5, StoreAssumption DEF KeysOK
  <1>7. OneAtWork'
    BY Zenon, <1>4 DEF OneAtWork
  <1>8. StoreOK'
    <2>1. ~rekeyed => Readable /\ \A t \in Topics : Agrees(t)
      BY Zenon, <1>1, <1>2 DEF StoreOK, Idle
    <2>2. Readable => Readable'
      BY Zenon, <1>3 DEF Readable
    <2>3. \A t \in Topics : Agrees(t) => Agrees(t)'
      BY <1>3 DEF Agrees, Listed, Subscribed
    <2> QED BY Zenon, <1>3, <1>4, <2>1, <2>2, <2>3 DEF StoreOK
  <1> QED BY <1>6, <1>7, <1>8 DEF AgreeInv

\* All that the argument uses.
WebhooksInv == ListInv /\ PasswordFaultInv /\ MemoryKeyIsStored /\ AgreeInv

\* A step of an RPC of the webhooks keeps the agreement (pubsub/service.go).
LEMMA CallStepAgrees ==
  /\ WebhooksInv
  /\ \E c \in Callers : CallSteps(c)
  /\ disturbed' = (disturbed \/ faults' # faults)
  => AgreeInv'
  \* The list that is read is the one on disk (pubsub/service.go,
  \* getSerializedSubscriptions).
  <1>ListIsRead.
    ASSUME ListInv, Readable, key = encKey, key # NoKey, Buckets \subseteq buckets,
           NEW t \in Topics
    PROVE  Named(getSerializedSubscriptions(t)) = Listed(t)
    <2> USE <1>ListIsRead
    <2>1. t \in Items /\ BucketOf[t] \in buckets
      BY Names, StoreAssumption
    <2>2. CASE data[t] = NoValue
      <3>1. getSerializedSubscriptions(t) = <<>>
        BY <2>1, <2>2 DEF getSerializedSubscriptions, GetFromBucket, IsLocked, Returned
      <3>2. Named(<<>>) = {}
        BY DEF Named
      <3>3. Listed(t) = {}
        BY Zenon, <2>2 DEF Listed
      <3> QED BY Zenon, <3>1, <3>2, <3>3
    <2>3. CASE data[t] # NoValue
      <3>1. Good(t, data[t].value)
        BY Zenon, <2>3 DEF ListInv, ListsOK, Kept
      <3>2. data[t].value # NoValue
        BY Zenon, <3>1, PubSubAssumption DEF Good
      <3>3. data[t].key = key
        BY Zenon, <2>1, <2>3 DEF Readable
      <3>4. getSerializedSubscriptions(t) = data[t].value
        BY Zenon, <2>1, <2>3, <3>2, <3>3
           DEF getSerializedSubscriptions, GetFromBucket, IsLocked, Returned
      <3> QED BY Zenon, <2>3, <3>4 DEF Named, Listed
    <2> QED BY Zenon, <2>2, <2>3
  \* One name more (pubsub/service.go, addSubscriptionForTopic).
  <1>NamedAppend.
    ASSUME NEW l \in Seq(Ids), NEW i \in Ids
    PROVE  Named(Append(l, i)) = Named(l) \cup {i}
    <2> USE <1>NamedAppend
    <2> DEFINE m == Append(l, i)
    <2>1. /\ Len(m) = Len(l) + 1 /\ Len(l) \in Nat /\ m[Len(l) + 1] = i
          /\ \A n \in 1..Len(l) : m[n] = l[n]
      OBVIOUS
    <2>2. 1..Len(m) = (1..Len(l)) \cup {Len(l) + 1}
      BY <2>1
    <2> HIDE DEF m
    <2>3. {m[n] : n \in 1..Len(m)} = {l[n] : n \in 1..Len(l)} \cup {i}
      BY <2>1, <2>2
    <2> QED BY Zenon, <2>3 DEF Named, m
  \* One name less: the search finds it, and it is there once (pubsub/service.go,
  \* removeSubscriptionForTopic).
  <1>NamedWithout.
    ASSUME NEW t, NEW l, Good(t, l), NEW i \in Named(l)
    PROVE  Named(Without(l, IndexOf(l, i))) = Named(l) \ {i}
    <2> USE <1>NamedWithout
    <2> DEFINE n == IndexOf(l, i)
               w == Without(l, n)
    <2>1. l \in Seq(Ids) /\ Len(l) \in Nat /\ Distinct(l)
      BY DEF Good
    <2>2. n \in 1..Len(l) /\ l[n] = i
      <3>1. \E k \in 1..Len(l) : l[k] = i
        BY DEF Named
      <3>2. n = CHOOSE k \in 1..Len(l) : l[k] = i
        BY <3>1 DEF IndexOf
      <3> QED BY Zenon, <3>1, <3>2
    <2> HIDE DEF n
    <2>3. Good(t, w) /\ Len(w) \in Nat
      <3>1. Good(t, w)
        BY <2>2, WithoutGood
      <3>2. w \in Seq(Ids)
        BY Zenon, <3>1 DEF Good
      <3> QED BY <3>1, <3>2
    <2> DEFINE before == SubSeq(l, 1, n - 1)
               after == SubSeq(l, n + 1, Len(l))
    <2>4. /\ before \in Seq(Ids) /\ after \in Seq(Ids)
          /\ Len(before) = n - 1 /\ Len(after) = Len(l) - n
          /\ \A k \in 1..(n - 1) : before[k] = l[k]
          /\ \A k \in 1..(Len(l) - n) : after[k] = l[k + n]
      BY Zenon, <2>1, <2>2, CutList
    <2>5. w = before \o after
      BY DEF Without
    <2> HIDE DEF before, after, w
    <2>6. /\ Len(w) = Len(l) - 1
          /\ \A k \in 1..(Len(l) - 1) :
               w[k] = IF k <= n - 1 THEN before[k] ELSE after[k - (n - 1)]
      <3>1. /\ Len(before \o after) = Len(before) + Len(after)
            /\ \A k \in 1..Len(before) + Len(after) : (before \o after)[k] =
                 IF k <= Len(before) THEN before[k] ELSE after[k - Len(before)]
        BY Zenon, <2>4, ConcatFacts
      <3>2. Len(before) + Len(after) = Len(l) - 1
        <4>1. Len(before) = n - 1 /\ Len(after) = Len(l) - n
          BY Zenon, <2>4
        <4>2. n \in Nat /\ Len(l) \in Nat
          BY <2>1, <2>2
        <4> QED BY <4>1, <4>2
      <3> QED BY Zenon, <2>2, <2>4, <2>5, <3>1, <3>2
    <2>7. \A k \in 1..(n - 1) : k \in 1..Len(w) /\ w[k] = l[k]
      <3> TAKE k \in 1..(n - 1)
      <3>1. k \in 1..(Len(l) - 1) /\ k <= n - 1
        BY <2>1, <2>2
      <3> QED BY Zenon, <2>4, <2>6, <3>1
    <2>8. \A k \in n..(Len(l) - 1) : k \in 1..Len(w) /\ w[k] = l[k + 1]
      <3> TAKE k \in n..(Len(l) - 1)
      <3>1. /\ k \in 1..(Len(l) - 1) /\ ~(k <= n - 1)
            /\ k - (n - 1) \in 1..(Len(l) - n) /\ (k - (n - 1)) + n = k + 1
        BY <2>1, <2>2
      <3> QED BY Zenon, <2>4, <2>6, <3>1
    <2>9. ASSUME NEW x \in Named(w) PROVE x \in Named(l) \ {i}
      <3>1. PICK k \in 1..Len(w) : x = w[k]
        BY Zenon DEF Named
      <3>2. PICK j \in 1..Len(l) : x = l[j] /\ j # n
        <4>1. CASE k <= n - 1
          <5>1. k \in 1..(n - 1) /\ k \in 1..Len(l) /\ k # n
            BY <2>1, <2>2, <2>3, <4>1
          <5> QED BY Zenon, <2>7, <3>1, <5>1
        <4>2. CASE ~(k <= n - 1)
          <5>1. k \in n..(Len(l) - 1) /\ k + 1 \in 1..Len(l) /\ k + 1 # n
            BY <2>1, <2>2, <2>6, <4>2
          <5> QED BY Zenon, <2>8, <3>1, <5>1
        <4> QED BY Zenon, <4>1, <4>2
      <3> QED BY Zenon, <2>1, <2>2, <3>2 DEF Named, Distinct
    <2>10. ASSUME NEW x \in Named(l), x # i PROVE x \in Named(w)
      <3>1. PICK j \in 1..Len(l) : x = l[j]
        BY Zenon DEF Named
      <3>2. j # n
        BY Zenon, <2>2, <2>10, <3>1
      <3>3. CASE j < n
        <4>1. j \in 1..(n - 1)
          BY <2>2, <3>3
        <4> QED BY Zenon, <2>7, <3>1, <4>1 DEF Named
      <3>4. CASE j > n
        <4>1. j - 1 \in n..(Len(l) - 1) /\ (j - 1) + 1 = j
          BY <2>1, <2>2, <3>4
        <4>2. w[j - 1] = l[j] /\ j - 1 \in 1..Len(w)
          BY Zenon, <2>8, <4>1
        <4> QED BY Zenon, <3>1, <4>2 DEF Named
      <3> QED BY <2>2, <3>2, <3>3, <3>4
    <2> QED BY Zenon, <2>9, <2>10 DEF w, n
  \* A subscription stored or removed changes no list (pubsub/service.go,
  \* addSubscription, removeSubscription).
  <1>SubscriptionChanges.
    ASSUME ListInv, NEW i \in Ids, NEW v, data' = [data EXCEPT ![i] = v]
    PROVE  /\ \A t \in Topics : Listed(t)' = Listed(t)
           /\ \A t : Subscribed(t)' = (Subscribed(t) \ {i})
                       \cup (IF v # NoValue /\ v.value = t THEN {i} ELSE {})
    <2> USE <1>SubscriptionChanges
    <2>1. /\ data'[i] = v /\ \A j \in Items : j # i => data'[j] = data[j]
          /\ i \in Items
      BY Zenon, Names DEF ListInv, Domains
    <2>2. \A t \in Topics : data'[t] = data[t]
      BY Zenon, <2>1, Names
    <2>3. \A j \in Ids : j # i => data'[j] = data[j]
      BY <2>1, Names
    <2>4. \A t \in Topics : Listed(t)' = Listed(t)
      BY Zenon, <2>2 DEF Listed
    <2>5. \A t : Subscribed(t)' = (Subscribed(t) \ {i})
                       \cup (IF v # NoValue /\ v.value = t THEN {i} ELSE {})
      BY Zenon, <2>1, <2>3 DEF Subscribed
    <2> QED BY Zenon, <2>4, <2>5
  \* A list written or removed changes no subscription and no other list
  \* (pubsub/service.go, addSubscriptionForTopic, removeSubscriptionForTopic).
  <1>ListChanges.
    ASSUME ListInv, NEW t \in Topics, NEW v, data' = [data EXCEPT ![t] = v]
    PROVE  /\ \A u \in Topics : u # t => Listed(u)' = Listed(u)
           /\ Listed(t)' = IF v = NoValue THEN {} ELSE Named(v.value)
           /\ \A u : Subscribed(u)' = Subscribed(u)
    <2> USE <1>ListChanges
    <2>1. /\ data'[t] = v /\ \A j \in Items : j # t => data'[j] = data[j]
          /\ t \in Items
      BY Zenon, Names DEF ListInv, Domains
    <2>2. \A u \in Topics : u # t => data'[u] = data[u]
      BY Zenon, <2>1, Names
    <2>3. \A j \in Ids : data'[j] = data[j]
      BY Zenon, <2>1, Names
    <2>4. \A u \in Topics : u # t => Listed(u)' = Listed(u)
      BY Zenon, <2>2 DEF Listed
    <2>5. Listed(t)' = IF v = NoValue THEN {} ELSE Named(v.value)
      BY Zenon, <2>1 DEF Listed, Named
    <2>6. \A u : Subscribed(u)' = Subscribed(u)
      BY Zenon, <2>3 DEF Subscribed
    <2> QED BY Zenon, <2>4, <2>5, <2>6
  \* A step of the RPC c, all else at rest, is judged by the stage it leads to.
  <1>CallIsEnough.
    ASSUME AgreeInv, ~disturbed, NEW c \in Callers,
           UNCHANGED <<encKey, key, buckets, change, admin, rekeyed>>,
           encKey = NoKey => data' = data,
           \A a \in Admins : Idle(a),
           \A d \in Callers : d # c => ~Active(d) /\ calls'[d] = calls[d],
           ~rekeyed =>
             /\ Readable'
             /\ Active(c)' => CallStage(c, calls[c].id, calls[c].topic)'
             /\ ~Active(c)' => \A t \in Topics : Agrees(t)'
    PROVE  AgreeInv'
    <2> USE <1>CallIsEnough
    <2>1. OneAtWork /\ KeysOK
      BY Zenon DEF AgreeInv
    <2>2. \A d \in Callers : d # c => ~Active(d)'
      BY Zenon DEF Active
    <2>3. OneAtWork'
      BY Zenon, <2>2 DEF OneAtWork, Idle
    <2>4. KeysOK'
      BY Zenon, <2>1 DEF KeysOK, MakesBuckets
    <2>5. StoreOK'
      BY Zenon, <2>2 DEF StoreOK
    <2> QED BY Zenon, <2>3, <2>4, <2>5 DEF AgreeInv
  \* The RPC at work is alone, and the store is open (history variable disturbed).
  <1>CallAlone.
    ASSUME AgreeInv, ~disturbed, NEW c \in Callers, Active(c)
    PROVE  /\ \A d \in Callers : d # c => ~Active(d)
           /\ \A a \in Admins : Idle(a) /\ change[a] = NoChange
           /\ ~rekeyed => Readable /\ CallStage(c, calls[c].id, calls[c].topic)
    <2> USE <1>CallAlone
    <2>1. \A d \in Callers : d # c => ~Active(d)
      BY Zenon DEF AgreeInv, OneAtWork
    <2>2. \A a \in Admins : Idle(a) /\ change[a] = NoChange
      BY Zenon DEF AgreeInv, OneAtWork, Idle
    <2> QED BY <2>1, <2>2 DEF AgreeInv, StoreOK
  \* A write of the RPC at work: it succeeds on a store that is open, with the key on
  \* disk, and no other outcome counts as undisturbed (securestore/bolt/store.go,
  \* AddToBucket, RemoveFromBucket).
  <1>CallWrites.
    ASSUME MemoryKeyIsStored, AgreeInv, ~disturbed, \A a \in Admins : Idle(a),
           faults \in Nat, faults' = faults,
           NEW i \in Items, NEW new, NEW ok \in BOOLEAN, Transaction(i, new, ok)
    PROVE  /\ data' = IF ok THEN [data EXCEPT ![i] = new] ELSE data
           /\ ok = (key # NoKey /\ BucketOf[i] \in buckets)
           /\ ok => key = encKey
    <2> USE <1>CallWrites
    <2>1. /\ ok = (~IsLocked /\ BucketOf[i] \in buckets)
          /\ data' = IF ok THEN [data EXCEPT ![i] = new] ELSE data
      BY DEF Transaction
    <2>2. key = NoKey \/ key = encKey
      BY Zenon, KeyAtRest DEF AgreeInv
    <2> QED BY Zenon, <2>1, <2>2 DEF IsLocked
  \* The key on disk is one, once the store is open.
  <1>OpenKey.
    ASSUME AgreeInv, ~disturbed, encKey # NoKey
    PROVE  /\ encKey \in SecretKey
           /\ \A t \in Topics : Encrypted(encKey, t) # NoValue
           /\ \A l \in Seq(Ids) : Encrypted(encKey, l) # NoValue
    <2> USE <1>OpenKey
    <2>1. encKey \in SecretKey
      BY Zenon DEF AgreeInv, KeysOK
    <2>2. \A t \in Topics : Encrypted(encKey, t) \in [key : SecretKey, value : Topics]
      BY Zenon, <2>1 DEF Encrypted
    <2>3. \A l \in Seq(Ids) : Encrypted(encKey, l) \in [key : SecretKey, value : Seq(Ids)]
      BY Zenon, <2>1 DEF Encrypted
    <2> QED BY <2>1, <2>2, <2>3, PubSubAssumption
  \* One more subscription, which its list lacks, or none (pubsub/service.go,
  \* addSubscription).
  <1>AddSubscriptionAgrees.
    ASSUME ListInv, MemoryKeyIsStored, AgreeInv, faults \in Nat, NEW c \in Callers,
           AddSubscription(c), UNCHANGED <<wallet, admin>>,
           ~disturbed, faults' = faults
    PROVE  AgreeInv'
    <2> USE <1>AddSubscriptionAgrees
    <2>0. PICK i \in Ids, t \in Topics : i = calls[c].id /\ t = calls[c].topic
      BY Zenon DEF AddSubscription, ListInv, CallsOK
    <2>1. calls[c].pc = "addSub" /\ Active(c)
      BY Zenon DEF AddSubscription, Active
    <2>2. /\ \A d \in Callers : d # c => ~Active(d)
          /\ \A a \in Admins : Idle(a)
          /\ ~rekeyed => Readable /\ CallStage(c, i, t)
      BY Zenon, <2>0, <2>1, <1>CallAlone
    <2>3. UNCHANGED <<encKey, key, buckets, change, admin, rekeyed>>
      BY Zenon DEF AddSubscription
    <2>4. PICK ok \in BOOLEAN :
            /\ Transaction(i, Encrypted(key, t), ok)
            /\ IF ok THEN calls' = [calls EXCEPT ![c] = Call("addRead", i, t, <<>>)]
               ELSE calls' = [calls EXCEPT ![c] = NoCall]
      BY Zenon, <2>0 DEF AddSubscription, AddToBucket, Goto, Finish
    <2>5. /\ data' = IF ok THEN [data EXCEPT ![i] = Encrypted(key, t)] ELSE data
          /\ ok => key = encKey /\ key # NoKey
      <3>1. i \in Items
        BY Zenon, <2>1, Names
      <3> QED BY <2>2, <2>4, <3>1, <1>CallWrites
    <2>6. DOMAIN calls = Callers /\ DOMAIN data = Items /\ i \in Items
      BY Zenon, <2>1, Names DEF ListInv, Domains
    <2>7. /\ \A d \in Callers : d # c => calls'[d] = calls[d]
          /\ ok => calls'[c].pc = "addRead" /\ calls'[c].id = i /\ calls'[c].topic = t
          /\ ~ok => calls'[c].pc = "idle"
      <3>1. CASE ok
        BY <2>4, <2>6, <3>1 DEF Call
      <3>2. CASE ~ok
        <4>1. NoCall.pc = "idle"
          BY DEF NoCall
        <4> QED BY Zenon, <2>4, <2>6, <3>2, <4>1
      <3> QED BY Zenon, <3>1, <3>2
    <2>8. ASSUME ~rekeyed, ok PROVE Readable' /\ CallStage(c, i, t)'
      <3>1. Encrypted(key, t) # NoValue /\ Encrypted(key, t).value = t /\ Encrypted(key, t).key = key
        BY Zenon, <2>1, <2>5, <2>8, <1>OpenKey DEF Encrypted
      <3>2. data' = [data EXCEPT ![i] = Encrypted(key, t)]
        BY <2>5, <2>8
      <3> DEFINE v == Encrypted(key, t)
      <3> HIDE DEF v
      <3>3. /\ \A u \in Topics : Listed(u)' = Listed(u)
            /\ \A u : Subscribed(u)' = (Subscribed(u) \ {i})
                        \cup (IF v # NoValue /\ v.value = u THEN {i} ELSE {})
        BY Zenon, <2>1, <3>2, <1>SubscriptionChanges DEF v
      <3>4. CallStage(c, i, t) /\ Readable
        BY <2>2, <2>8
      <3>5. \A u : i \notin Subscribed(u)
        BY Zenon, <2>1, <3>4 DEF CallStage, Subscribed
      <3>6. \A u \in Topics : Subscribed(u)' = IF u = t THEN Subscribed(u) \cup {i} ELSE Subscribed(u)
        BY Zenon, <3>1, <3>3, <3>5 DEF v
      <3>7. Readable'
        <4>1. \A j \in Items : data'[j] = IF j = i THEN Encrypted(key, t) ELSE data[j]
          BY <2>6, <3>2
        <4> QED BY Zenon, <2>3, <2>5, <2>8, <3>1, <3>4, <4>1 DEF Readable
      <3>8. \A u \in Topics \ {t} : Agrees(u)'
        BY Zenon, <3>3, <3>4, <3>6 DEF CallStage, Agrees
      <3>9. Subscribed(t)' = Listed(t)' \cup {i}
        <4>1. Agrees(t)
          BY Zenon, <2>1, <3>4 DEF CallStage
        <4> QED BY <2>1, <3>3, <3>6, <4>1 DEF Agrees
      <3>10. key' = encKey' /\ key' # NoKey /\ Buckets \subseteq buckets'
        BY Zenon, <2>3, <3>4 DEF CallStage
      <3>11. calls'[c].pc = "addRead"
        BY Zenon, <2>7, <2>8
      <3> QED BY Zenon, <3>7, <3>8, <3>9, <3>10, <3>11 DEF CallStage
    <2>9. ASSUME ~rekeyed, ~ok PROVE Readable' /\ \A u \in Topics : Agrees(u)'
      <3>1. data' = data /\ encKey' = encKey
        BY <2>3, <2>5, <2>9
      <3>2. Readable /\ \A u \in Topics : Agrees(u)
        BY Zenon, <2>1, <2>2, <2>9 DEF CallStage
      <3> QED BY Zenon, <3>1, <3>2, FollowData DEF Readable
    <2>10. Active(c)' <=> ok
      BY <2>7 DEF Active
    <2>11. Active(c)' => calls'[c].id = i /\ calls'[c].topic = t
      BY Zenon, <2>7, <2>10
    <2>12. encKey = NoKey => data' = data
      BY Zenon, <2>5
    <2>13. ~rekeyed => /\ Readable'
                       /\ Active(c)' => CallStage(c, calls[c].id, calls[c].topic)'
                       /\ ~Active(c)' => \A u \in Topics : Agrees(u)'
      BY <2>8, <2>9, <2>10, <2>11
    <2> QED BY Zenon, <2>2, <2>3, <2>7, <2>12, <2>13, <1>CallIsEnough
  \* The list that is there, with one name more (pubsub/service.go,
  \* addSubscriptionForTopic).
  <1>AddReadsListAgrees.
    ASSUME ListInv, AgreeInv, NEW c \in Callers, AddReadsList(c),
           UNCHANGED <<wallet, admin>>, ~disturbed
    PROVE  AgreeInv'
    <2> USE <1>AddReadsListAgrees
    <2>0. PICK i \in Ids, t \in Topics : i = calls[c].id /\ t = calls[c].topic
      BY Zenon DEF AddReadsList, ListInv, CallsOK
    <2>1. calls[c].pc = "addRead" /\ Active(c)
      BY DEF AddReadsList, Active
    <2>2. /\ \A d \in Callers : d # c => ~Active(d)
          /\ \A a \in Admins : Idle(a)
          /\ ~rekeyed => Readable /\ CallStage(c, i, t)
      BY Zenon, <2>0, <2>1, <1>CallAlone
    <2>3. UNCHANGED <<encKey, key, buckets, data, change, admin, rekeyed>>
      BY Zenon DEF AddReadsList, storeVars
    <2>4. PICK l : l = getSerializedSubscriptions(t)
      BY Zenon
    <2>5. calls' = [calls EXCEPT ![c] = Call("addWrite", i, t, Append(l, i))]
      BY Zenon, <2>0, <2>4 DEF AddReadsList, Goto
    <2>6. DOMAIN calls = Callers
      BY Zenon DEF ListInv, Domains
    <2>7. /\ \A d \in Callers : d # c => calls'[d] = calls[d]
          /\ calls'[c].pc = "addWrite" /\ calls'[c].id = i /\ calls'[c].topic = t
          /\ calls'[c].list = Append(l, i)
      BY <2>5, <2>6 DEF Call
    <2>8. ASSUME ~rekeyed PROVE Readable' /\ CallStage(c, i, t)'
      <3>1. Readable /\ CallStage(c, i, t)
        BY <2>2, <2>8
      <3>2. /\ key = encKey /\ key # NoKey /\ Buckets \subseteq buckets
            /\ \A u \in Topics \ {t} : Agrees(u)
            /\ Subscribed(t) = Listed(t) \cup {i}
        BY Zenon, <2>1, <3>1 DEF CallStage
      <3>3. Named(l) = Listed(t)
        BY Zenon, <2>4, <3>1, <3>2, <1>ListIsRead
      <3>4. l \in Seq(Ids)
        BY Zenon, <2>4, ListReadGood DEF Good
      <3>5. Named(Append(l, i)) = Subscribed(t)
        BY Zenon, <3>2, <3>3, <3>4, <1>NamedAppend
      <3>6. Subscribed(t)' = Subscribed(t) /\ \A u \in Topics \ {t} : Agrees(u)'
        BY Zenon, <2>3, <3>2, FollowData
      <3>7. Readable'
        BY Zenon, <2>3, <3>1 DEF Readable
      <3>8. key' = encKey' /\ key' # NoKey /\ Buckets \subseteq buckets'
        BY Zenon, <2>3, <3>2
      <3>9. Named(calls'[c].list) = Subscribed(t)'
        BY Zenon, <2>7, <3>5, <3>6
      <3> QED BY Zenon, <2>7, <3>6, <3>7, <3>8, <3>9 DEF CallStage, Named
    <2>9. ~rekeyed => /\ Readable'
                      /\ Active(c)' => CallStage(c, calls[c].id, calls[c].topic)'
                      /\ ~Active(c)' => \A u \in Topics : Agrees(u)'
      <3>1. Active(c)'
        BY <2>7 DEF Active
      <3> QED BY Zenon, <2>7, <2>8, <3>1
    <2> QED BY Zenon, <2>2, <2>3, <2>7, <2>9, <1>CallIsEnough
  \* One subscription less, which its list still names, or none (pubsub/service.go,
  \* removeSubscription).
  <1>RemoveSubscriptionAgrees.
    ASSUME ListInv, MemoryKeyIsStored, AgreeInv, faults \in Nat, NEW c \in Callers,
           RemoveSubscription(c), UNCHANGED <<wallet, admin>>,
           ~disturbed, faults' = faults
    PROVE  AgreeInv'
    <2> USE <1>RemoveSubscriptionAgrees
    <2>0. PICK i \in Ids, t \in Topics : i = calls[c].id /\ t = calls[c].topic
      BY Zenon DEF RemoveSubscription, ListInv, CallsOK
    <2>1. calls[c].pc = "removeSub" /\ Active(c)
      BY Zenon DEF RemoveSubscription, Active
    <2>2. /\ \A d \in Callers : d # c => ~Active(d)
          /\ \A a \in Admins : Idle(a)
          /\ ~rekeyed => Readable /\ CallStage(c, i, t)
      BY Zenon, <2>0, <2>1, <1>CallAlone
    <2>3. UNCHANGED <<encKey, key, buckets, change, admin, rekeyed>>
      BY Zenon DEF RemoveSubscription
    <2>4. PICK ok \in BOOLEAN :
            /\ Transaction(i, NoValue, ok)
            /\ IF ok THEN calls' = [calls EXCEPT ![c] = Call("removeRead", i, t, <<>>)]
               ELSE calls' = [calls EXCEPT ![c] = NoCall]
      BY Zenon, <2>0 DEF RemoveSubscription, RemoveFromBucket, Goto, Finish
    <2>5. /\ data' = IF ok THEN [data EXCEPT ![i] = NoValue] ELSE data
          /\ ok => key = encKey /\ key # NoKey
      <3>1. i \in Items
        BY Zenon, Names
      <3> QED BY Zenon, <2>2, <2>4, <3>1, <1>CallWrites
    <2>6. DOMAIN calls = Callers /\ DOMAIN data = Items /\ i \in Items
      BY Zenon, Names DEF ListInv, Domains
    <2>7. /\ \A d \in Callers : d # c => calls'[d] = calls[d]
          /\ ok => calls'[c].pc = "removeRead" /\ calls'[c].id = i /\ calls'[c].topic = t
          /\ ~ok => calls'[c].pc = "idle"
      <3>1. CASE ok
        BY <2>4, <2>6, <3>1 DEF Call
      <3>2. CASE ~ok
        <4>1. NoCall.pc = "idle"
          BY DEF NoCall
        <4> QED BY Zenon, <2>4, <2>6, <3>2, <4>1
      <3> QED BY Zenon, <3>1, <3>2
    <2>8. ASSUME ~rekeyed, ok PROVE Readable' /\ CallStage(c, i, t)'
      <3>1. data' = [data EXCEPT ![i] = NoValue]
        BY Zenon, <2>5, <2>8
      <3>2. /\ \A u \in Topics : Listed(u)' = Listed(u)
            /\ \A u : Subscribed(u)' = Subscribed(u) \ {i}
        <4>1. \A u : Subscribed(u)' = (Subscribed(u) \ {i})
                       \cup (IF NoValue # NoValue /\ NoValue.value = u THEN {i} ELSE {})
          BY Zenon, <3>1, <1>SubscriptionChanges
        <4>2. \A u \in Topics : Listed(u)' = Listed(u)
          BY Zenon, <3>1, <1>SubscriptionChanges
        <4> QED BY <4>1, <4>2
      <3>3. Readable /\ CallStage(c, i, t)
        BY <2>2, <2>8
      <3>4. /\ key = encKey /\ key # NoKey /\ Buckets \subseteq buckets
            /\ \A u \in Topics \ {t} : Agrees(u)
            /\ Listed(t) = Subscribed(t) /\ i \in Subscribed(t)
        BY Zenon, <2>1, <3>3 DEF CallStage, Agrees
      <3>5. \A u \in Topics \ {t} : i \notin Subscribed(u)
        BY <3>4 DEF Subscribed
      <3>6. \A u \in Topics \ {t} : Agrees(u)'
        BY Zenon, <3>2, <3>4, <3>5 DEF Agrees
      <3>7. i \in Listed(t)' /\ Subscribed(t)' = Listed(t)' \ {i}
        BY Zenon, <3>2, <3>4
      <3>8. Readable'
        <4>1. \A j \in Items : data'[j] = IF j = i THEN NoValue ELSE data[j]
          BY Zenon, <2>6, <3>1
        <4> QED BY <2>3, <3>3, <4>1 DEF Readable
      <3>9. key' = encKey' /\ key' # NoKey /\ Buckets \subseteq buckets'
        BY Zenon, <2>3, <3>4
      <3>10. calls'[c].pc = "removeRead"
        BY <2>7, <2>8
      <3> QED BY Zenon, <3>6, <3>7, <3>8, <3>9, <3>10 DEF CallStage
    <2>9. ASSUME ~rekeyed, ~ok PROVE Readable' /\ \A u \in Topics : Agrees(u)'
      <3>1. data' = data /\ encKey' = encKey
        BY <2>3, <2>5, <2>9
      <3>2. Readable /\ \A u \in Topics : Agrees(u)
        BY Zenon, <2>1, <2>2, <2>9 DEF CallStage
      <3> QED BY <3>1, <3>2, FollowData DEF Readable
    <2>10. Active(c)' <=> ok
      BY Zenon, <2>7 DEF Active
    <2>11. Active(c)' => calls'[c].id = i /\ calls'[c].topic = t
      BY <2>7, <2>10
    <2>12. encKey = NoKey => data' = data
      BY <2>5
    <2>13. ~rekeyed => /\ Readable'
                       /\ Active(c)' => CallStage(c, calls[c].id, calls[c].topic)'
                       /\ ~Active(c)' => \A u \in Topics : Agrees(u)'
      BY <2>8, <2>9, <2>10, <2>11
    <2> QED BY Zenon, <2>2, <2>3, <2>7, <2>12, <2>13, <1>CallIsEnough
  \* The list that is there, with one name less (pubsub/service.go,
  \* removeSubscriptionForTopic).
  <1>RemoveReadsListAgrees.
    ASSUME ListInv, AgreeInv, NEW c \in Callers, RemoveReadsList(c),
           UNCHANGED <<wallet, admin>>, ~disturbed
    PROVE  AgreeInv'
    <2> USE <1>RemoveReadsListAgrees
    <2>0. PICK i \in Ids, t \in Topics : i = calls[c].id /\ t = calls[c].topic
      BY Zenon DEF RemoveReadsList, ListInv, CallsOK
    <2>1. calls[c].pc = "removeRead" /\ Active(c)
      BY Zenon DEF RemoveReadsList, Active
    <2>2. /\ \A d \in Callers : d # c => ~Active(d)
          /\ \A a \in Admins : Idle(a)
          /\ ~rekeyed => Readable /\ CallStage(c, i, t)
      BY Zenon, <2>0, <2>1, <1>CallAlone
    <2>3. UNCHANGED <<encKey, key, buckets, data, change, admin, rekeyed>>
      BY Zenon DEF RemoveReadsList, storeVars
    <2>4. PICK l : l = getSerializedSubscriptions(t)
      OBVIOUS
    <2>5. IF l = <<>> THEN calls' = [calls EXCEPT ![c] = NoCall]
          ELSE calls' = [calls EXCEPT ![c] =
                           Call("removeWrite", i, t, Without(l, IndexOf(l, i)))]
      BY <2>0, <2>4 DEF RemoveReadsList, Goto, Finish
    <2>6. DOMAIN calls = Callers
      BY Zenon DEF ListInv, Domains
    <2>7. /\ \A d \in Callers : d # c => calls'[d] = calls[d]
          /\ l # <<>> => /\ calls'[c].pc = "removeWrite"
                         /\ calls'[c].id = i /\ calls'[c].topic = t
                         /\ calls'[c].list = Without(l, IndexOf(l, i))
      <3>1. CASE l = <<>>
        BY Zenon, <2>5, <2>6, <3>1
      <3>2. CASE l # <<>>
        BY <2>5, <2>6, <3>2 DEF Call
      <3> QED BY Zenon, <3>1, <3>2
    <2>8. ASSUME ~rekeyed PROVE l # <<>> /\ Readable' /\ CallStage(c, i, t)'
      <3>1. Readable /\ CallStage(c, i, t)
        BY <2>2, <2>8
      <3>2. /\ key = encKey /\ key # NoKey /\ Buckets \subseteq buckets
            /\ \A u \in Topics \ {t} : Agrees(u)
            /\ i \in Listed(t) /\ Subscribed(t) = Listed(t) \ {i}
        BY Zenon, <2>1, <3>1 DEF CallStage
      <3>3. Named(l) = Listed(t)
        BY Zenon, <2>4, <3>1, <3>2, <1>ListIsRead
      <3>4. Good(t, l)
        BY Zenon, <2>4, ListReadGood
      <3>5. l # <<>>
        BY <3>2, <3>3 DEF Named
      <3>6. Named(Without(l, IndexOf(l, i))) = Subscribed(t)
        BY <3>2, <3>3, <3>4, <1>NamedWithout
      <3>7. Subscribed(t)' = Subscribed(t) /\ \A u \in Topics \ {t} : Agrees(u)'
        BY Zenon, <2>3, <3>2, FollowData
      <3>8. Readable'
        BY <2>3, <3>1 DEF Readable
      <3>9. key' = encKey' /\ key' # NoKey /\ Buckets \subseteq buckets'
        BY <2>3, <3>2
      <3>10. Named(calls'[c].list) = Subscribed(t)' /\ calls'[c].pc = "removeWrite"
        BY Zenon, <2>7, <3>5, <3>6, <3>7
      <3> QED BY Zenon, <3>5, <3>7, <3>8, <3>9, <3>10 DEF CallStage, Named
    <2>9. ~rekeyed => /\ Readable'
                      /\ Active(c)' => CallStage(c, calls[c].id, calls[c].topic)'
                      /\ ~Active(c)' => \A u \in Topics : Agrees(u)'
      <3>1. ~rekeyed => Active(c)'
        BY Zenon, <2>7, <2>8 DEF Active
      <3> QED BY Zenon, <2>7, <2>8, <3>1
    <2> QED BY Zenon, <2>2, <2>3, <2>7, <2>9, <1>CallIsEnough
  \* The list is written, or removed when it is empty, and is then the one of the
  \* subscriptions (pubsub/service.go, addSubscriptionForTopic,
  \* removeSubscriptionForTopic).
  <1>WriteListAgrees.
    ASSUME ListInv, MemoryKeyIsStored, AgreeInv, faults \in Nat, NEW c \in Callers,
           WriteList(c), UNCHANGED <<wallet, admin>>,
           ~disturbed, faults' = faults
    PROVE  AgreeInv'
    <2> USE <1>WriteListAgrees
    <2>1. calls[c].pc \in {"addWrite", "removeWrite"} /\ Active(c)
      BY Zenon DEF WriteList, Active
    <2>0. PICK i \in Ids, t \in Topics : i = calls[c].id /\ t = calls[c].topic
      BY Zenon, <2>1 DEF Active, ListInv, CallsOK
    <2>a. PICK l : l = calls[c].list
      OBVIOUS
    <2>2. /\ \A d \in Callers : d # c => ~Active(d)
          /\ \A a \in Admins : Idle(a)
          /\ ~rekeyed => Readable /\ CallStage(c, i, t)
      BY Zenon, <2>0, <2>a, <2>1, <1>CallAlone
    <2>3. UNCHANGED <<encKey, key, buckets, change, admin, rekeyed>>
      BY Zenon DEF WriteList
    <2>4. PICK v : v = IF l = <<>> THEN NoValue ELSE Encrypted(key, l)
      OBVIOUS
    <2>5. PICK ok \in BOOLEAN : Transaction(t, v, ok)
      BY Zenon, <2>0, <2>a, <2>4 DEF WriteList, AddToBucket, RemoveFromBucket
    <2>6. calls' = [calls EXCEPT ![c] = NoCall]
      BY Zenon DEF WriteList, Finish
    <2>7. /\ data' = IF ok THEN [data EXCEPT ![t] = v] ELSE data
          /\ ok = (key # NoKey /\ BucketOf[t] \in buckets)
          /\ ok => key = encKey
      <3>1. t \in Items
        BY Zenon, Names
      <3> QED BY Zenon, <2>2, <2>5, <3>1, <1>CallWrites
    <2>8. DOMAIN calls = Callers /\ DOMAIN data = Items /\ t \in Items
      BY Zenon, Names DEF ListInv, Domains
    <2>9. (\A d \in Callers : d # c => calls'[d] = calls[d]) /\ ~Active(c)'
      BY Zenon, <2>6, <2>8 DEF Active, NoCall
    <2>10. ASSUME ~rekeyed PROVE Readable' /\ \A u \in Topics : Agrees(u)'
      <3>1. Readable /\ CallStage(c, i, t)
        BY <2>2, <2>10
      <3>2. /\ key = encKey /\ key # NoKey /\ Buckets \subseteq buckets
            /\ \A u \in Topics \ {t} : Agrees(u)
            /\ Named(l) = Subscribed(t)
        BY Zenon, <2>0, <2>a, <2>1, <3>1 DEF CallStage
      <3>3. ok
        BY Zenon, <2>7, <2>8, <3>2, StoreAssumption
      <3>4. data' = [data EXCEPT ![t] = v]
        BY <2>7, <3>3
      <3>5. l \in Seq(Ids)
        <4>1. Kept(t, l)
          BY Zenon, <2>0, <2>a, <2>1 DEF Kept
        <4> QED BY Zenon, <4>1 DEF ListInv, ListsOK, Good
      <3>6. /\ l = <<>> => v = NoValue /\ Named(l) = {}
            /\ l # <<>> => v # NoValue /\ v.value = l /\ v.key = key
        <4>1. l = <<>> => v = NoValue /\ Named(l) = {}
          BY <2>4 DEF Named
        <4>2. Encrypted(encKey, l) # NoValue
          BY <3>2, <3>5, <1>OpenKey
        <4> QED BY Zenon, <2>4, <3>2, <4>1, <4>2 DEF Encrypted
      <3>7. /\ \A u \in Topics : u # t => Listed(u)' = Listed(u)
            /\ Listed(t)' = IF v = NoValue THEN {} ELSE Named(v.value)
            /\ \A u : Subscribed(u)' = Subscribed(u)
        BY Zenon, <3>4, <1>ListChanges
      <3>8. Listed(t)' = Named(l)
        BY Zenon, <3>6, <3>7
      <3>9. \A u \in Topics : Agrees(u)'
        BY Zenon, <3>2, <3>7, <3>8 DEF Agrees
      <3>10. \A j \in Items : data'[j] = IF j = t THEN v ELSE data[j]
        BY <2>8, <3>4
      <3>11. Readable'
        BY Zenon, <2>3, <3>1, <3>2, <3>6, <3>10 DEF Readable
      <3> QED BY Zenon, <3>9, <3>11
    <2>11. encKey = NoKey => data' = data
      BY Zenon, <2>7
    <2> QED BY Zenon, <2>2, <2>3, <2>9, <2>10, <2>11, <1>CallIsEnough
  <1> SUFFICES ASSUME ListInv, PasswordInv, faults \in Nat, MemoryKeyIsStored, AgreeInv,
                      NEW c \in Callers, CallSteps(c),
                      disturbed' = (disturbed \/ faults' # faults), ~disturbed'
               PROVE  AgreeInv'
    BY DEF WebhooksInv, PasswordFaultInv, AgreeInv
  <1>1. ~disturbed /\ faults' = faults /\ UNCHANGED <<wallet, admin>>
    BY Zenon DEF CallSteps
  <1>2. CASE AddSubscription(c)
    BY Zenon, <1>1, <1>2, <1>AddSubscriptionAgrees
  <1>3. CASE AddReadsList(c)
    BY Zenon, <1>1, <1>3, <1>AddReadsListAgrees
  <1>4. CASE RemoveSubscription(c)
    BY <1>1, <1>4, <1>RemoveSubscriptionAgrees
  <1>5. CASE RemoveReadsList(c)
    BY Zenon, <1>1, <1>5, <1>RemoveReadsListAgrees
  <1>6. CASE WriteList(c)
    BY <1>1, <1>6, <1>WriteListAgrees
  <1> QED BY <1>2, <1>3, <1>4, <1>5, <1>6 DEF CallSteps

\* A step of the store on behalf of the wallet service keeps it (unlocker/service.go).
LEMMA AdminStepAgrees ==
  /\ WebhooksInv
  /\ \E a \in Admins : AdminSteps(a)
  /\ disturbed' = (disturbed \/ faults' # faults)
  => AgreeInv'
  \* An RPC of the wallet service is alone at work.
  <1>AdminAlone.
    ASSUME PasswordInv, AgreeInv, ~disturbed, NEW a \in Admins, ~Idle(a)
    PROVE  /\ \A c \in Callers : ~Active(c)
           /\ \A b \in Admins : b # a => admin[b].pc = "idle" /\ admin[b] = NoAdmin /\ change[b] = NoChange
           /\ wallet.password \in Passwords /\ Stage(a)
           /\ OneAtWork /\ KeysOK /\ StoreOK
           /\ DOMAIN admin = Admins /\ DOMAIN change = Admins /\ keysMade \in Nat
    <2> USE <1>AdminAlone
    <2>1. OneAtWork /\ KeysOK /\ StoreOK
      BY DEF AgreeInv
    <2>2. \A c \in Callers : ~Active(c)
      BY Zenon, <2>1 DEF OneAtWork
    <2>3. \A b \in Admins : b # a => Idle(b)
      BY Zenon, OthersIdle
    <2>4. \A b \in Admins : b # a => admin[b].pc = "idle" /\ admin[b] = NoAdmin /\ change[b] = NoChange
      BY Zenon, <2>3, IdleRecords DEF Idle
    <2>5. DOMAIN admin = Admins /\ DOMAIN change = Admins /\ keysMade \in Nat
      BY Zenon DEF PasswordInv
    <2> QED BY Zenon, <2>1, <2>2, <2>4, <2>5, OthersIdle
  \* The store is opened, with a new key when there is none: then nothing is stored
  \* (securestore/bolt/store.go, CreateUnlock).
  <1>StoreUnlockAgrees.
    ASSUME PasswordInv, MemoryKeyIsStored, AgreeInv, NEW a \in Admins, ~Idle(a), ~disturbed,
           StoreUnlock(a)
    PROVE  AgreeInv'
    <2> USE <1>StoreUnlockAgrees
    <2>1. /\ \A c \in Callers : ~Active(c)
          /\ \A b \in Admins : b # a => admin[b].pc = "idle"
          /\ wallet.password \in Passwords /\ Stage(a)
          /\ KeysOK /\ StoreOK
          /\ DOMAIN admin = Admins /\ DOMAIN change = Admins /\ keysMade \in Nat
      BY Zenon, <1>AdminAlone
    <2>2. /\ UNCHANGED <<buckets, data, change, calls, rekeyed>>
          /\ admin[a].pc \in {"init", "unlock"}
      BY Zenon DEF StoreUnlock, pubsubVars
    <2>3. PICK ok \in BOOLEAN :
            /\ CreateUnlock(admin[a].password, ok)
            /\ ok => \/ admin' = [admin EXCEPT ![a].pc = "initBuckets"]
                     \/ admin' = [admin EXCEPT ![a].pc = "buckets"]
            /\ ~ok => admin' = [admin EXCEPT ![a] = NoAdmin]
      BY DEF StoreUnlock, Step, End
    <2>4. /\ \A b \in Admins : b # a => admin'[b] = admin[b]
          /\ ~ok => admin'[a].pc = "idle"
      BY <2>1, <2>3, IdleRecords
    <2>5. \A b \in Admins : ~MakesBuckets(b) /\ admin[b].pc # "clear"
      BY Zenon, <2>1, <2>2 DEF MakesBuckets
    <2>6. key # ZeroKey /\ (buckets = {} \/ Buckets \subseteq buckets)
      BY Zenon, <2>1, <2>5 DEF KeysOK
    <2>7. admin[a].pc = "unlock" => encKey # NoKey
      <3>1. admin[a].pc = "unlock" => admin[a].pc # "idle" /\ admin[a].pc \notin {"init", "change"}
        BY Zenon
      <3>2. admin[a].pc = "unlock" => change[a] = NoChange
        BY <2>1, <3>1, IdleRecords, Zenon
      <3> QED BY Zenon, <2>1, <3>1, <3>2 DEF Stage, SamePassword
    <2>8. /\ \/ encKey' = encKey
             \/ encKey = NoKey /\ encKey' \in SecretKey
          /\ key' = key \/ key' = encKey'
          /\ ok => key' # NoKey
      <3>1. CASE ~IsLocked
        BY Zenon, <2>3, <3>1 DEF CreateUnlock, IsLocked
      <3>2. CASE IsLocked /\ encKey = NoKey
        <4>1. /\ ok /\ keysMade < MaxKeys /\ key' = encKey'
              /\ encKey' = NewSecretKey(admin[a].password)
          BY <2>3, <3>2 DEF CreateUnlock
        <4>2. admin[a].password \in Passwords
          BY Zenon, <2>1, <2>2, <2>7, <3>2 DEF Stage
        <4>3. keysMade + 1 \in 1..MaxKeys
          BY Zenon, <2>1, <4>1, NextKey
        <4>4. encKey' \in SecretKey
          BY Zenon, <4>1, <4>2, <4>3 DEF NewSecretKey, SecretKey
        <4>5. encKey' # NoKey
          BY Zenon, <2>1, <4>1, <4>2, NewKeys
        <4> QED BY <3>2, <4>1, <4>4, <4>5
      <3>3. CASE IsLocked /\ encKey # NoKey
        BY <2>3, <3>3 DEF CreateUnlock, IsLocked
      <3> QED BY <3>1, <3>2, <3>3
    <2>9. encKey = NoKey => \A i \in Items : data[i] = NoValue
      BY Zenon, <2>1 DEF KeysOK
    <2>10. encKey' \in SecretKey \cup {NoKey} /\ (encKey' = NoKey => encKey = NoKey)
      BY Zenon, <2>1, <2>8 DEF KeysOK
    <2>11. key' # ZeroKey
      <3>1. ZeroKey \notin SecretKey \cup {NoKey}
        BY Zenon, StoreAssumption DEF SecretKey
      <3> QED BY <2>6, <2>8, <2>10, <3>1
    <2>12. KeysOK'
      <3>1. \A b \in Admins : change'[b] # NoChange => change'[b].newKey \in SecretKey /\ encKey' # NoKey
        BY Zenon, <2>1, <2>2, <2>8, <2>10 DEF KeysOK
      <3>2. \A b \in Admins : MakesBuckets(b)' => key' # NoKey
        BY Zenon, <2>4, <2>5, <2>8 DEF MakesBuckets
      <3> QED BY Zenon, <2>2, <2>6, <2>9, <2>10, <2>11, <3>1, <3>2 DEF KeysOK
    <2>13. OneAtWork'
      BY Zenon, <2>1, <2>2 DEF OneAtWork, Active
    <2>14. StoreOK'
      BY Zenon, <2>1, <2>2, <2>8, <2>9, QuietStore
    <2> QED BY <2>12, <2>13, <2>14 DEF AgreeInv
  \* The buckets are made while the store is open, all of them before the RPC goes on
  \* (pubsub/store.go); the key is zeroed and forgotten (securestore/bolt/store.go, Lock).
  <1>BucketsAndLockAgree.
    ASSUME PasswordInv, AgreeInv, NEW a \in Admins, ~Idle(a), ~disturbed,
           StoreBuckets(a) \/ StoreLock(a)
    PROVE  AgreeInv'
    <2> USE <1>BucketsAndLockAgree
    <2>1. /\ \A c \in Callers : ~Active(c)
          /\ \A b \in Admins : b # a => admin[b].pc = "idle"
          /\ KeysOK /\ StoreOK
          /\ DOMAIN admin = Admins
      BY Zenon, <1>AdminAlone
    <2>2. UNCHANGED <<encKey, data, change, calls, rekeyed>>
      BY Zenon DEF StoreBuckets, StoreLock, pubsubVars, diskVars
    <2>3. OneAtWork'
      BY Zenon, <2>1, <2>2 DEF OneAtWork, Active
    <2>4. StoreOK'
      BY Zenon, <2>1, <2>2, QuietStore
    <2> SUFFICES KeysOK'
      BY <2>3, <2>4 DEF AgreeInv
    <2>5. ASSUME \A b \in Admins : b # a => admin'[b] = admin[b],
                 key' = ZeroKey => admin'[a].pc = "clear",
                 MakesBuckets(a)' => key' # NoKey,
                 ~MakesBuckets(a)' => buckets' = {} \/ Buckets \subseteq buckets'
          PROVE  KeysOK'
      <3>1. \A b \in Admins : b # a => ~MakesBuckets(b)'
        BY Zenon, <2>1, <2>5 DEF MakesBuckets
      <3>2. \A b \in Admins : change'[b] # NoChange => change'[b].newKey \in SecretKey /\ encKey' # NoKey
        BY Zenon, <2>1, <2>2 DEF KeysOK
      <3>3. /\ encKey' \in SecretKey \cup {NoKey}
            /\ encKey' = NoKey => \A i \in Items : data'[i] = NoValue
        BY Zenon, <2>1, <2>2 DEF KeysOK
      <3> QED BY Zenon, <2>5, <3>1, <3>2, <3>3 DEF KeysOK
    <2>6. CASE StoreBuckets(a)
      <3>1. admin[a].pc \in {"initBuckets", "buckets"} /\ key' = key
        BY Zenon, <2>6 DEF StoreBuckets
      <3>2. \A b \in Admins : admin[b].pc # "clear"
        BY Zenon, <2>1, <3>1
      <3>3. MakesBuckets(a) /\ key # NoKey /\ key # ZeroKey
        BY Zenon, <2>1, <3>1, <3>2 DEF KeysOK, MakesBuckets
      <3>4. CASE Buckets \subseteq buckets
        <4>1. /\ buckets' = buckets
              /\ \/ admin' = [admin EXCEPT ![a].pc = "lock"]
                 \/ admin' = [admin EXCEPT ![a] = NoAdmin]
          BY <2>6, <3>4 DEF StoreBuckets, Step, End
        <4>2. \A b \in Admins : b # a => admin'[b] = admin[b]
          BY <2>1, <4>1
        <4> QED BY <2>5, <3>1, <3>3, <3>4, <4>1, <4>2
      <3>5. CASE ~(Buckets \subseteq buckets)
        <4>1. admin' = admin
          BY Zenon, <2>6, <3>3, <3>5 DEF StoreBuckets, IsLocked
        <4>2. MakesBuckets(a)'
          BY <3>3, <4>1 DEF MakesBuckets
        <4> QED BY Zenon, <2>5, <3>1, <3>3, <4>1, <4>2
      <3> QED BY <3>4, <3>5
    <2>7. CASE StoreLock(a)
      <3>1. /\ admin[a].pc \in {"lock", "clear"} /\ buckets' = buckets
            /\ \/ admin' = [admin EXCEPT ![a] = NoAdmin] /\ key = NoKey /\ key' = key
               \/ admin' = [admin EXCEPT ![a] = NoAdmin] /\ key' = NoKey
               \/ admin' = [admin EXCEPT ![a].pc = "clear"] /\ key' = ZeroKey
        BY <2>7 DEF StoreLock, IsLocked, LockZeroes, LockClears, Step, End, diskVars
      <3>2. /\ \A b \in Admins : b # a => admin'[b] = admin[b]
            /\ \/ admin'[a].pc = "idle" /\ key' = NoKey
               \/ admin'[a].pc = "clear"
        <4>1. admin \in [Admins -> AdminRecord]
          BY DEF PasswordInv
        <4> QED BY Zenon, <3>1, <4>1, IdleRecords DEF AdminRecord
      <3>3. buckets' = {} \/ Buckets \subseteq buckets'
        <4>1. \A b \in Admins : ~MakesBuckets(b)
          BY Zenon, <2>1, <3>1 DEF MakesBuckets
        <4> QED BY <2>1, <3>1, <4>1 DEF KeysOK
      <3>4. key' = ZeroKey => admin'[a].pc = "clear"
        BY Zenon, <3>2, StoreAssumption
      <3>5. ~MakesBuckets(a)'
        BY Zenon, <3>2 DEF MakesBuckets
      <3> QED BY Zenon, <2>5, <3>2, <3>3, <3>4, <3>5
    <2> QED BY <2>6, <2>7
  \* ChangePassword: nothing is said of the values until the new key is stored, and
  \* afterwards only if there were none (securestore/bolt/store.go, ChangePassword).
  <1>ChangeAgrees.
    ASSUME PasswordInv, AgreeInv, faults \in Nat, NEW a \in Admins, ~Idle(a), ~disturbed,
           StoreChangePassword(a) \/ StoreChanges(a), faults' = faults
    PROVE  AgreeInv'
    <2> USE <1>ChangeAgrees
    <2>1. /\ \A c \in Callers : ~Active(c)
          /\ \A b \in Admins : b # a => admin[b].pc = "idle" /\ change[b] = NoChange
          /\ wallet.password \in Passwords /\ Stage(a)
          /\ KeysOK /\ StoreOK
          /\ DOMAIN admin = Admins /\ DOMAIN change = Admins /\ keysMade \in Nat
      BY Zenon, <1>AdminAlone
    <2>2. calls' = calls /\ buckets' = buckets
      BY Zenon DEF StoreChangePassword, StoreChanges, ChangeReadsBucket, ChangeRewrites,
             ChangeStoresKey, pubsubVars, diskVars
    <2>3. OneAtWork'
      BY Zenon, <2>1, <2>2 DEF OneAtWork, Active
    <2>4. admin[a].pc \in {"idle", "change"}
      <3>1. CASE StoreChangePassword(a)
        BY Zenon, <3>1 DEF StoreChangePassword
      <3>2. CASE StoreChanges(a)
        <4>1. change[a].pc # "idle"
          BY Zenon, <3>2 DEF StoreChanges, ChangeReadsBucket, ChangeRewrites, ChangeStoresKey
        <4>2. change[a] # NoChange
          BY <4>1, IdleRecords, Zenon
        <4> QED BY Zenon, <2>1, <4>2, IdleRecords DEF Stage
      <3> QED BY <3>1, <3>2
    <2>5. \A b \in Admins : ~MakesBuckets(b) /\ admin[b].pc # "clear"
      BY Zenon, <2>1, <2>4 DEF MakesBuckets
    <2>6. key # ZeroKey /\ (buckets = {} \/ Buckets \subseteq buckets)
      BY Zenon, <2>1, <2>5 DEF KeysOK
    <2>7. ASSUME \A b \in Admins : admin'[b].pc = "idle" \/ admin'[b] = admin[b],
                 key' # ZeroKey,
                 encKey' \in SecretKey,
                 \A b \in Admins : change'[b] # NoChange => change'[b].newKey \in SecretKey
          PROVE  KeysOK'
      <3>1. \A b \in Admins : ~MakesBuckets(b)'
        BY Zenon, <2>5, <2>7 DEF MakesBuckets
      <3>2. encKey' # NoKey
        BY Zenon, <2>7, StoreAssumption DEF SecretKey
      <3> QED BY Zenon, <2>2, <2>6, <2>7, <3>1, <3>2 DEF KeysOK
    <2>8. CASE StoreChangePassword(a)
      <3> DEFINE r == Change(IF buckets = {} THEN "store" ELSE "read",
                             NewSecretKey(admin[a].new), buckets, <<>>)
      <3>1. /\ admin[a].pc = "change" /\ admin' = [admin EXCEPT ![a] = NoAdmin]
            /\ encKey' = encKey /\ key' = key /\ keysMade < MaxKeys
            /\ change' = IF encKey = NoKey \/ encKey.password # admin[a].password THEN change
                         ELSE [change EXCEPT ![a] = r]
        BY Zenon, <2>8 DEF StoreChangePassword, ChangePasswordBegins, End, diskVars
      <3>2. r.newKey = NewSecretKey(admin[a].new) /\ r # NoChange
        <4>1. r.pc # NoChange.pc
          BY Zenon DEF Change, NoChange
        <4>2. r # NoChange
          BY <4>1
        <4> QED BY Zenon, <4>2 DEF Change
      <3> HIDE DEF r
      <3>3. /\ encKey # NoKey /\ encKey.password = admin[a].password
            /\ wallet.password = admin[a].new
        BY Zenon, <2>1, <3>1 DEF Stage
      <3>4. NewSecretKey(admin[a].new) \in SecretKey
        <4>1. keysMade + 1 \in 1..MaxKeys
          BY Zenon, <2>1, <3>1, NextKey
        <4> QED BY Zenon, <2>1, <3>3, <4>1 DEF NewSecretKey, SecretKey
      <3>5. change'[a] = r /\ \A b \in Admins : b # a => change'[b] = change[b]
        BY Zenon, <2>1, <3>1, <3>3
      <3>6. \A b \in Admins : admin'[b].pc = "idle" \/ admin'[b] = admin[b]
        BY Zenon, <2>1, <3>1, IdleRecords
      <3>7. encKey' \in SecretKey
        BY Zenon, <2>1, <3>1, <3>3 DEF KeysOK
      <3>8. KeysOK'
        <4>1. \A b \in Admins : change'[b] # NoChange => change'[b].newKey \in SecretKey
          BY Zenon, <2>1, <3>2, <3>4, <3>5 DEF KeysOK
        <4>2. key' # ZeroKey
          BY Zenon, <2>6, <3>1
        <4> QED BY Zenon, <2>7, <3>6, <3>7, <4>1, <4>2
      <3>9. StoreOK'
        BY Zenon, <3>2, <3>5 DEF StoreOK
      <3> QED BY <2>3, <3>8, <3>9 DEF AgreeInv
    <2>9. CASE StoreChanges(a)
      <3>1. admin' = admin /\ change[a].pc \in {"read", "rewrite", "store"}
        BY Zenon, <2>9 DEF StoreChanges, ChangeReadsBucket, ChangeRewrites, ChangeStoresKey
      <3>2. change[a] # NoChange
        <4>1. change[a].pc # "idle"
          BY <3>1
        <4> QED BY <4>1, IdleRecords, Zenon
      <3>3. change[a].newKey \in SecretKey /\ encKey \in SecretKey
        BY Zenon, <2>1, <3>2 DEF KeysOK
      <3>4. CASE ChangeReadsBucket(a) \/ ChangeRewrites(a)
        <4>1. PICK pc, left, plain :
                change' = [change EXCEPT ![a] = Change(pc, change[a].newKey, left, plain)]
                   /\ pc \in {"read", "rewrite", "store"}
          <5>1. CASE ChangeReadsBucket(a)
            BY Zenon, <5>1 DEF ChangeReadsBucket
          <5>2. CASE ChangeRewrites(a)
            BY Zenon, <5>2 DEF ChangeRewrites
          <5> QED BY <3>4, <5>1, <5>2
        <4>2. encKey' = encKey /\ key' = key
          BY Zenon, <3>4 DEF ChangeReadsBucket, ChangeRewrites, diskVars
        <4>3. /\ \A b \in Admins : b # a => change'[b] = change[b]
              /\ change'[a].newKey = change[a].newKey /\ change'[a].pc # "idle"
          BY <2>1, <4>1 DEF Change
        <4>4. change'[a] # NoChange
          BY <4>3, IdleRecords, Zenon
        <4>5. \A b \in Admins : change'[b] # NoChange => change'[b].newKey \in SecretKey
          BY Zenon, <2>1, <3>3, <4>3
        <4>6. KeysOK'
          BY Zenon, <2>6, <2>7, <3>1, <3>3, <4>2, <4>5
        <4>7. StoreOK'
          BY Zenon, <4>4 DEF StoreOK
        <4> QED BY <2>3, <4>6, <4>7 DEF AgreeInv
      <3>5. CASE ChangeStoresKey(a)
        <4>1. /\ change' = [change EXCEPT ![a] = NoChange] /\ data' = data
              /\ encKey' = change[a].newKey /\ key' = change[a].newKey
          BY <3>5 DEF ChangeStoresKey
        <4>2. rekeyed' = (rekeyed \/ \E i \in Items : data[i] # NoValue)
          <5>1. change[a].pc = "store"
            BY <3>5 DEF ChangeStoresKey
          <5> QED BY Zenon, <2>9, <5>1 DEF StoreChanges, ChangeReadsBucket, ChangeRewrites
        <4>3. /\ \A b \in Admins : change'[b] = NoChange
              /\ key' # ZeroKey
          BY Zenon, <2>1, <3>3, <4>1, StoreAssumption DEF SecretKey
        <4>4. KeysOK'
          BY Zenon, <2>7, <3>1, <3>3, <4>1, <4>3
        <4>5. ASSUME ~rekeyed' PROVE Readable' /\ \A t \in Topics : Agrees(t)'
          <5>1. \A i \in Items : data'[i] = NoValue
            BY Zenon, <4>1, <4>2, <4>5
          <5> QED BY Zenon, <5>1, Names DEF Readable, Agrees, Listed, Subscribed
        <4>6. \A c \in Callers : ~Active(c)'
          BY Zenon, <2>1, <2>2 DEF Active
        <4>7. StoreOK'
          BY <4>5, <4>6 DEF StoreOK
        <4> QED BY <2>3, <4>4, <4>7 DEF AgreeInv
      <3> QED BY <2>9, <3>4, <3>5 DEF StoreChanges
    <2> QED BY Zenon, <2>8, <2>9
  <1> SUFFICES ASSUME ListInv, PasswordInv, faults \in Nat, MemoryKeyIsStored, AgreeInv,
                      NEW a \in Admins, AdminSteps(a),
                      disturbed' = (disturbed \/ faults' # faults), ~disturbed'
               PROVE  AgreeInv'
    BY DEF WebhooksInv, PasswordFaultInv, AgreeInv
  <1>1. ~disturbed /\ faults' = faults
    BY Zenon
  <1>2. ~Idle(a)
    <2>1. admin[a].pc # "idle" \/ change[a].pc \in {"read", "rewrite", "store"}
      BY Zenon DEF AdminSteps, StoreUnlock, StoreBuckets, StoreLock, StoreChangePassword,
                  StoreChanges, ChangeReadsBucket, ChangeRewrites, ChangeStoresKey
    <2>2. change[a].pc \in {"read", "rewrite", "store"} => change[a].pc # "idle"
      BY Zenon
    <2> QED BY <2>1, <2>2, IdleRecords, Zenon DEF Idle
  <1>3. CASE StoreUnlock(a)
    BY Zenon, <1>1, <1>2, <1>3, <1>StoreUnlockAgrees
  <1>4. CASE StoreBuckets(a) \/ StoreLock(a)
    BY Zenon, <1>1, <1>2, <1>4, <1>BucketsAndLockAgree
  <1>5. CASE StoreChangePassword(a) \/ StoreChanges(a)
    BY Zenon, <1>1, <1>2, <1>5, <1>ChangeAgrees
  <1> QED BY <1>3, <1>4, <1>5 DEF AdminSteps

\* Every step keeps the lists in agreement with the subscriptions.
LEMMA NextAgreeInv == WebhooksInv /\ [Next]_vars => AgreeInv'
  <1> SUFFICES ASSUME WebhooksInv, [Next]_vars PROVE AgreeInv'
    OBVIOUS
  <1>0. ListInv /\ PasswordInv /\ faults \in Nat /\ MemoryKeyIsStored /\ AgreeInv
    BY Zenon DEF WebhooksInv, PasswordFaultInv
  <1>1. CASE RPCBegins /\ disturbed' = (disturbed \/ Busy)
    <2>1. CASE \E c \in Callers : (Subscribe(c) \/ Unsubscribe(c)) /\ UNCHANGED <<wallet, admin>>
      BY Zenon, <1>1, <2>1, <1>0, CallBegins
    <2>2. CASE \E a \in Admins : InitWallet(a) \/ UnlockWallet(a) \/ LockWallet(a)
                                  \/ ChangePassword(a)
      BY <1>1, <2>2, <1>0, WalletAgrees
    <2> QED BY Zenon, <1>1, <2>1, <2>2 DEF RPCBegins
  <1>2. ASSUME NEW c \in Callers, CallSteps(c), disturbed' = (disturbed \/ faults' # faults)
        PROVE  AgreeInv'
    BY Zenon, <1>2, CallStepAgrees
  <1>3. ASSUME NEW a \in Admins, AdminSteps(a), disturbed' = (disturbed \/ faults' # faults)
        PROVE  AgreeInv'
    BY <1>3, AdminStepAgrees
  <1>4. CASE PublishSteps /\ disturbed' = (disturbed \/ faults' # faults)
    <2>1. UNCHANGED agreeVars
      BY <1>4 DEF PublishSteps, Publish, PublishRequests, storeVars, agreeVars
    <2> QED BY Zenon, <1>4, <2>1, <1>0, SameAgreement
  <1>5. CASE Crash /\ disturbed' = (disturbed \/ Busy)
    BY Zenon, <1>5, <1>0, CrashAgrees
  <1>6. CASE UNCHANGED vars
    BY <1>6, <1>0, SameAgreement DEF vars, storeVars, pubsubVars, agreeVars
  <1> QED BY <1>1, <1>2, <1>3, <1>4, <1>5, <1>6 DEF Next

\* RPCs that do not overlap keep the bucket of the subscriptions and the lists of
\* the topics in agreement and readable, in every order of them and with crashes in
\* between, as long as no password is changed with data in the store
\* (pubsub/service.go, addSubscriptionForTopic, removeSubscriptionForTopic).
THEOREM WebhooksAgree == Spec => []ListsAgree
  <1>1. Init => WebhooksInv
    <2>1. Init => MemoryKeyIsStored
      BY DEF Init, StoreInit, MemoryKeyIsStored
    <2>2. Init => PasswordFaultInv
      BY InitPasswordInv DEF PasswordFaultInv, Init, StoreInit
    <2> QED BY <2>1, <2>2, InitListInv, InitAgreeInv DEF WebhooksInv
  <1>2. Spec => [](ListInv /\ PasswordFaultInv /\ MemoryKeyIsStored)
    <2>1. Init => ListInv /\ PasswordFaultInv
      BY <1>1 DEF WebhooksInv
    <2> QED BY <2>1, KeyInMemory, NextListInv, NextPasswordInv, PTL DEF Spec
  <1>3. ListInv /\ PasswordFaultInv /\ MemoryKeyIsStored /\ AgreeInv /\ [Next]_vars => AgreeInv'
    BY Zenon, NextAgreeInv DEF WebhooksInv
  <1>4. AgreeInv => ListsAgree
    <2> SUFFICES ASSUME AgreeInv, ~disturbed, ~rekeyed, ~Busy PROVE StoreConsistent
      BY Zenon DEF ListsAgree
    <2>1. (\A a \in Admins : change[a] = NoChange) /\ \A c \in Callers : ~Active(c)
      BY Zenon DEF Busy, ActiveCalls, Active, Idle
    <2>2. Readable /\ \A t \in Topics : Agrees(t)
      BY <2>1 DEF AgreeInv, StoreOK
    <2> QED BY <2>2 DEF StoreConsistent, Readable, Agrees
  <1>5. Init => AgreeInv
    BY InitAgreeInv
  <1> QED BY <1>2, <1>3, <1>4, <1>5, PTL DEF Spec
=============================================================================

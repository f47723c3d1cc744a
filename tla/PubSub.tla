-------------------------------- MODULE PubSub --------------------------------
(***************************************************************************)
(* The webhook subscriptions (internal/infrastructure/pubsub/service.go)   *)
(* over the secure store.  A subscription is kept in the bucket of all     *)
(* subscriptions and in the list of its topic, which is read, changed and  *)
(* written back.  Every access to the store is one step.                   *)
(***************************************************************************)
EXTENDS SecureStore, Sequences

CONSTANTS
  Ids,         \* identifiers of subscriptions, given by Subscribe
  Topics,      \* topics, AnyTopic included
  AnyTopic,
  Callers,     \* RPCs that add or remove a webhook
  NoId, NoTopic

ASSUME PubSubAssumption ==
  /\ Ids \cup Topics \subseteq Items /\ Ids \cap Topics = {}
  /\ AnyTopic \in Topics
  /\ \A i \in Ids : BucketOf[i] = "subscriptions" /\ SplitKey[i] = i
  /\ \A t \in Topics : BucketOf[t] = "subscriptionsbyevent"
  /\ \A i \in Items \ Ids : SplitKey[i] \notin Ids
  /\ \A i \in Items : SplitKey[i] \in Topics => SplitKey[i] = i
  /\ NoId \notin Ids /\ NoTopic \notin Topics
  /\ NoValue \notin Topics /\ NoValue \notin Seq(Ids)
  /\ NoValue \notin [key : SecretKey, value : Topics]
  /\ NoValue \notin [key : SecretKey, value : Seq(Ids)]

VARIABLES
  calls,       \* the RPCs in progress
  publish,     \* an event being published
  issued,      \* the topic each identifier was given for (history)
  rekeyed      \* a password was changed with data in the store (history)

pubsubVars == <<calls, publish, issued, rekeyed>>

NoCall == [pc |-> "idle", id |-> NoId, topic |-> NoTopic, list |-> <<>>]

Call(pc, i, t, list) == [pc |-> pc, id |-> i, topic |-> t, list |-> list]

Goto(c, pc, i, t, list) == calls' = [calls EXCEPT ![c] = Call(pc, i, t, list)]

Finish(c) == calls' = [calls EXCEPT ![c] = NoCall]

NoPublish == [pc |-> "idle", topic |-> NoTopic, targets |-> <<>>]

Publishing(pc, t, targets) == [pc |-> pc, topic |-> t, targets |-> targets]

PubSubInit ==
  /\ calls = [c \in Callers |-> NoCall]
  /\ publish = NoPublish
  /\ issued = [i \in Ids |-> NoTopic]
  /\ rekeyed = FALSE

ActiveCalls == {c \in Callers : calls[c].pc # "idle"}

\* getSerializedSubscriptions: an error reads as no subscription.
getSerializedSubscriptions(t) ==
  LET got == GetFromBucket(t)
  IN  IF got.value = NoValue THEN <<>> ELSE got.value

-----------------------------------------------------------------------------
(***************************************************************************)
(* Subscribe: a fresh identifier, the subscription, the list of its topic. *)
(***************************************************************************)
Subscribe(c) ==
  /\ calls[c] = NoCall
  /\ \E i \in Ids, t \in Topics :
       /\ issued[i] = NoTopic
       /\ GetFromBucket(i) = Returned(NoValue)
       /\ issued' = [issued EXCEPT ![i] = t]
       /\ Goto(c, "addSub", i, t, <<>>)
  /\ UNCHANGED <<storeVars, publish, rekeyed>>

AddSubscription(c) ==
  /\ calls[c].pc = "addSub"
  /\ \E ok \in BOOLEAN :
       /\ AddToBucket(calls[c].id, calls[c].topic, ok)
       /\ IF ok THEN Goto(c, "addRead", calls[c].id, calls[c].topic, <<>>)
          ELSE Finish(c)
  /\ UNCHANGED <<encKey, key, buckets, keysMade, change, publish, issued, rekeyed>>

AddReadsList(c) ==
  /\ calls[c].pc = "addRead"
  /\ Goto(c, "addWrite", calls[c].id, calls[c].topic,
          Append(getSerializedSubscriptions(calls[c].topic), calls[c].id))
  /\ UNCHANGED <<storeVars, publish, issued, rekeyed>>

-----------------------------------------------------------------------------
(***************************************************************************)
(* Unsubscribe.  An identifier that is not in the list counts as the first *)
(* entry; an empty list makes the RPC panic, which its server recovers.    *)
(***************************************************************************)
Unsubscribe(c) ==
  /\ calls[c] = NoCall
  /\ \E i \in Ids :
       /\ GetFromBucket(i).value # NoValue
       /\ Goto(c, "removeSub", i, GetFromBucket(i).value, <<>>)
  /\ UNCHANGED <<storeVars, publish, issued, rekeyed>>

RemoveSubscription(c) ==
  /\ calls[c].pc = "removeSub"
  /\ \E ok \in BOOLEAN :
       /\ RemoveFromBucket(calls[c].id, ok)
       /\ IF ok THEN Goto(c, "removeRead", calls[c].id, calls[c].topic, <<>>)
          ELSE Finish(c)
  /\ UNCHANGED <<encKey, key, buckets, keysMade, change, publish, issued, rekeyed>>

\* The search that never looks past the first entry.
FirstIndex(list, i) == 1

IndexOf(list, i) ==
  IF \E n \in 1..Len(list) : list[n] = i
  THEN CHOOSE n \in 1..Len(list) : list[n] = i
  ELSE 1

Without(list, n) == SubSeq(list, 1, n - 1) \o SubSeq(list, n + 1, Len(list))

RemoveReadsList(c) ==
  LET list == getSerializedSubscriptions(calls[c].topic)
  IN  /\ calls[c].pc = "removeRead"
      /\ IF list = <<>> THEN Finish(c)
         ELSE Goto(c, "removeWrite", calls[c].id, calls[c].topic,
                   Without(list, IndexOf(list, calls[c].id)))
      /\ UNCHANGED <<storeVars, publish, issued, rekeyed>>

\* One list for all topics.
WriteAnyList(c) ==
  /\ calls[c].pc \in {"addWrite", "removeWrite"}
  /\ \E ok \in BOOLEAN :
       IF calls[c].list = <<>> THEN RemoveFromBucket(AnyTopic, ok)
       ELSE AddToBucket(AnyTopic, calls[c].list, ok)
  /\ Finish(c)
  /\ UNCHANGED <<encKey, key, buckets, keysMade, change, publish, issued, rekeyed>>

\* The last write of both RPCs; a list that has become empty is removed.
WriteList(c) ==
  /\ calls[c].pc \in {"addWrite", "removeWrite"}
  /\ \E ok \in BOOLEAN :
       IF calls[c].list = <<>> THEN RemoveFromBucket(calls[c].topic, ok)
       ELSE AddToBucket(calls[c].topic, calls[c].list, ok)
  /\ Finish(c)
  /\ UNCHANGED <<encKey, key, buckets, keysMade, change, publish, issued, rekeyed>>

-----------------------------------------------------------------------------
(***************************************************************************)
(* Publish: the list of the topic, the list of AnyTopic, then one request  *)
(* to each endpoint, all of them at once.                                  *)
(***************************************************************************)
\* Publish of an event that is AnyTopic itself.
PublishAny ==
  /\ publish = NoPublish
  /\ \E t \in Topics :
       publish' = Publishing("readAny", t, getSerializedSubscriptions(t))
  /\ UNCHANGED <<storeVars, calls, issued, rekeyed>>

Publish ==
  /\ publish = NoPublish
  /\ \E t \in Topics \ {AnyTopic} :
       publish' = Publishing("readAny", t, getSerializedSubscriptions(t))
  /\ UNCHANGED <<storeVars, calls, issued, rekeyed>>

\* The endpoints listSubscriptionsForTopic returns when it has read both lists.
Targets == publish.targets \o getSerializedSubscriptions(AnyTopic)

\* doRequest for every target; publishForTopic waits for all, whatever they return.
PublishRequests ==
  /\ publish.pc = "readAny"
  /\ publish' = NoPublish
  /\ UNCHANGED <<storeVars, calls, issued, rekeyed>>

-----------------------------------------------------------------------------
Distinct(list) ==
  \A m, n \in 1..Len(list) : list[m] = list[n] => m = n

\* The list of a topic never names a subscription twice, nor one of another
\* topic, however adding and removing webhooks, password changes, failed writes
\* and crashes interleave (service.go, addSubscriptionForTopic and
\* removeSubscriptionForTopic).
ListedOnceForItsTopic ==
  \A t \in Topics : data[t] # NoValue =>
    /\ Distinct(data[t].value)
    /\ \A n \in 1..Len(data[t].value) : issued[data[t].value[n]] = t

\* One event makes one request to an endpoint, although the lists of its topic
\* and of AnyTopic are read apart and subscriptions change in between, and only
\* subscriptions of these two topics get it (service.go, publishForTopic).
NotifiedOnce ==
  publish.pc = "readAny" =>
    /\ Distinct(Targets)
    /\ \A n \in 1..Len(Targets) : issued[Targets[n]] \in {publish.topic, AnyTopic}
=============================================================================

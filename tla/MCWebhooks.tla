------------------------------ MODULE MCWebhooks ------------------------------
EXTENDS Webhooks, TLC

CONSTANTS i1, i2, tradeSettled, trade, c1, c2, a1, p1, p2

MCIds == {i1, i2}
MCTopics == {tradeSettled, AnyTopic}
\* trade is the first part of the name of the topic TRADE_SETTLED.
MCItems == MCIds \cup MCTopics \cup {trade}
MCBuckets == {"subscriptions", "subscriptionsbyevent"}
MCBucketOf ==
  [i \in MCItems |-> IF i \in MCIds THEN "subscriptions" ELSE "subscriptionsbyevent"]
MCSplitKey == [i \in MCItems |-> IF i = tradeSettled THEN trade ELSE i]
MCCallers == {c1, c2}
MCAdmins == {a1}
MCPasswords == {p1, p2}

WebhookSymmetry ==
  Permutations(MCIds) \cup Permutations(MCCallers) \cup Permutations(MCPasswords)
=============================================================================

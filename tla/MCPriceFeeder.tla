---------------------------- MODULE MCPriceFeeder ----------------------------
EXTENDS PriceFeeder, TLC

CONSTANTS f1, f2, m1, m2, t1, t2, s1, st1, k1, k2, c1

MCFeeds == {f1, f2}
MCMarkets == {m1, m2}
MCTickers == {t1, t2}
MCSources == {s1}
MCStreams == {st1}
MCConsumers == {k1, k2}
MCCallers == {c1}

FeedSymmetry ==
  Permutations(MCFeeds) \cup Permutations(MCMarkets) \cup Permutations(MCTickers)
    \cup Permutations(MCConsumers)
=============================================================================

----------------------------- MODULE CoinSelection -----------------------------
(***************************************************************************)
(* The selection of coins by the trade clients                             *)
(* (pkg/explorer/coinselection.go).  A coin is                             *)
(* [id, asset, value, blinded].                                            *)
(* The supply of an asset is so far below 2^64 that no sum overflows.      *)
(***************************************************************************)
EXTENDS Integers, SequencesExt

\* The sequences of size elements of src after the first offset, by position.
RECURSIVE getCombination(_, _, _)
getCombination(src, size, offset) ==
  IF size = 0 THEN <<<<>>>>
  ELSE FlattenSeq([k \in 1..(Len(src) - size - offset + 1) |->
         LET rest == getCombination(src, size - 1, offset + k)
         IN  [j \in DOMAIN rest |-> <<src[offset + k]>> \o rest[j]]])

\* At least the target, and at most ten times as much.
WithinRatio(total, target) == total = target \/ (total >= target /\ total <= target * 10)

\* The first combination within the ratio, the smaller ones first, or else the
\* first value above the target.
getBestCombination(items, target) ==
  LET all == FlattenSeq([i \in 1..Len(items) |-> getCombination(items, i, 0)])
      best == SelectInSeq(all, LAMBDA c : WithinRatio(FoldLeft(+, 0, c), target))
      greater == SelectInSeq(items, LAMBDA v : v > target)
  IN  IF best > 0 THEN all[best]
      ELSE IF greater > 0 THEN <<items[greater]>>
      ELSE <<>>

\* findIndexes that does not look at the indexes it has.
FirstIndexes(list, values) == [k \in DOMAIN list |-> SelectInSeq(values, LAMBDA v : v = list[k])]

\* For each value the first index that holds it and is not taken.
findIndexes(list, values) ==
  FoldLeft(LAMBDA indexes, v :
             LET free == {i \in DOMAIN values : values[i] = v /\ ~Contains(indexes, i)}
             IN  IF free = {} THEN indexes ELSE Append(indexes, Min(free)),
           <<>>, list)

\* Coins of equal value may be sorted in any order; here they keep theirs.
SelectUnspents(utxos, targetAmount, targetAsset) ==
  LET unblinded == SortSeq(SelectSeq(utxos, LAMBDA u : u.asset = targetAsset),
                           LAMBDA u, w : u.value > w.value)
      values == [i \in DOMAIN unblinded |-> unblinded[i].value]
      indexes == findIndexes(getBestCombination(values, targetAmount), values)
      coins == [k \in DOMAIN indexes |-> unblinded[indexes[k]]]
  IN  IF (\E i \in DOMAIN utxos : utxos[i].blinded) \/ indexes = <<>> THEN [ok |-> FALSE]
      ELSE [ok |-> TRUE, coins |-> coins,
            change |-> FoldLeft(LAMBDA n, u : n + u.value, 0, coins) - targetAmount]
=============================================================================

------------------------------ MODULE Sharding ------------------------------
(***************************************************************************)
(* shard_bounds of main.rs: which part of a list that is sorted by hash    *)
(* belongs to shard.index of shard.count.                                  *)
(***************************************************************************)
EXTENDS Integers

\* The values that Shard::from_str accepts.
Shards == {s \in [index : Nat \ {0}, count : Nat \ {0}] : s.index <= s.count}

AtMost(m, n) == IF m <= n THEN m ELSE n

ShardStart(n, shard) ==
  (shard.index - 1) * (n \div shard.count) + AtMost(shard.index - 1, n % shard.count)

\* Mutant: every shard has the size of the smallest.
ShardSize_Rounded(n, shard) == n \div shard.count

ShardSize(n, shard) ==
  (n \div shard.count) + (IF shard.index <= n % shard.count THEN 1 ELSE 0)

\* The positions in a list of n that skip(start).take(size) retains.
Positions(n, shard) ==
  (ShardStart(n, shard) + 1)..(ShardStart(n, shard) + ShardSize(n, shard))
=============================================================================

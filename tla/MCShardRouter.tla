---------------------------- MODULE MCShardRouter ----------------------------
(***************************************************************************)
(* Instances of ShardRouter for TLC: collection names of two bytes, and a  *)
(* hash that tells their routing keys apart.                               *)
(***************************************************************************)
EXTENDS ShardRouter, FiniteSetsExt

\* The sum of the bytes stands for FNV-1a: what is routed where is of no
\* consequence here.
ByteSum(key) == FoldSet(LAMBDA i, sum : sum + key[i], 0, DOMAIN key)

\* The namespace "a" with the collection "c".
MCCollection == {<<<<97>>, <<99>>>>}

=============================================================================

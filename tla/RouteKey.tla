------------------------------ MODULE RouteKey ------------------------------
(***************************************************************************)
(* Where a collection lives: its position in the ordered keyspace          *)
(* (routeKey) and the data shard that owns it (ShardForKey), as the server *)
(* computes them too.  A name is a sequence of bytes.                      *)
(***************************************************************************)
EXTENDS Integers, Sequences

CONSTANT Fnv64a(_)   \* the 64-bit FNV-1a hash of a sequence of bytes

FirstDataShard == 2

\* A uint32 in big-endian order.
PutUint32(n) == <<(n \div 16777216) % 256, (n \div 65536) % 256,
                  (n \div 256) % 256, n % 256>>

\* A name preceded by its length.
appendChunk(dst, b) == dst \o PutUint32(Len(b)) \o b

routeKey(ns, coll) == appendChunk(appendChunk(<< >>, ns), coll)

\* dataShards below 1 is taken for 1.
ShardForKey(ns, coll, dataShards) ==
    FirstDataShard
      + (Fnv64a(routeKey(ns, coll)) % (IF dataShards < 1 THEN 1 ELSE dataShards))

=============================================================================

---------------------------- MODULE MessageCache ----------------------------
(***************************************************************************)
(* One bucket of the message cache (cache/message_cache.h): the messages   *)
(* of a conversation, by sequence number.  A bucket is a function from the *)
(* numbers it holds to the messages' statuses, so its order is theirs;     *)
(* each operator below is one call under the cache's mutex.                *)
(***************************************************************************)
EXTENDS Integers, FiniteSets

Bucket(Seqs, Statuses) == UNION {[S -> Statuses] : S \in SUBSET Seqs}

EmptyBucket == [n \in {} |-> "normal"]

Oldest(S) == CHOOSE n \in S : \A k \in S : n <= k
Newest(S) == CHOOSE n \in S : \A k \in S : k <= n

Without(bucket, n) == [k \in DOMAIN bucket \ {n} |-> bucket[k]]

With(bucket, n, status) ==
    [k \in DOMAIN bucket \cup {n} |-> IF k = n THEN status ELSE bucket[k]]

\* A faulty variant for a mutant: the newest message is evicted.
EvictNewest(bucket, size) ==
    IF Cardinality(DOMAIN bucket) > size
    THEN Without(bucket, Newest(DOMAIN bucket)) ELSE bucket

\* A faulty variant for a mutant: one message too many is kept.
EvictLate(bucket, size) ==
    IF Cardinality(DOMAIN bucket) > size + 1
    THEN Without(bucket, Oldest(DOMAIN bucket)) ELSE bucket

Evict(bucket, size) ==
    IF Cardinality(DOMAIN bucket) > size
    THEN Without(bucket, Oldest(DOMAIN bucket)) ELSE bucket

\* A faulty variant for a mutant: a duplicate replaces what is cached.
InsertOrReplace(bucket, size, n, status) == Evict(With(bucket, n, status), size)

\* Duplicates are ignored; over capacity the lowest sequence number goes.
Insert(bucket, size, n, status) ==
    IF n \in DOMAIN bucket THEN bucket ELSE Evict(With(bucket, n, status), size)

\* In place, and only if the message is cached.
UpdateMessageById(bucket, n, status) ==
    IF n \in DOMAIN bucket THEN [bucket EXCEPT ![n] = status] ELSE bucket

=============================================================================

---------------------------- MODULE BlockManager ----------------------------
(***************************************************************************)
(* src/block_manager.cpp: the paged KV-block pool with reference counts    *)
(* and a prefix cache.  Each operator below is one member function, with   *)
(* the calls it makes.                                                     *)
(*                                                                         *)
(*  - A hash is the token prefix it was computed from: compute_hash chains *)
(*    the blocks, so the 64-bit value is taken to identify the prefix.     *)
(*    The seed -1 is the empty prefix, a reset hash is NoHash.             *)
(*  - free_block_ids_ is a deque used first in, first out.  It is a set    *)
(*    here and _allocate_block takes ANY free block: the order decides     *)
(*    only which cached content is lost first, and everything stated below *)
(*    holds for every order.                                               *)
(***************************************************************************)
EXTENDS Sequence

CONSTANT Blocks          \* block ids, 0 .. num_kvcache_blocks - 1

ASSUME BlocksAssumption == IsFiniteSet(Blocks)

VARIABLES
  ref_count,             \* Block::ref_count
  hash,                  \* Block::hash with has_hash
  block_tokens,          \* Block::token_ids
  hash_to_block_id,      \* the prefix index
  free_block_ids,
  used_block_ids

blockVars == <<ref_count, hash, block_tokens, hash_to_block_id,
               free_block_ids, used_block_ids>>

NoHash == <<0>>          \* hash = 0, has_hash = false: no token is 0
compute_hash(toks, prefix) == prefix \o toks

BlockManagerInit ==
  /\ ref_count = [b \in Blocks |-> 0]
  /\ hash = [b \in Blocks |-> NoHash]
  /\ block_tokens = [b \in Blocks |-> <<>>]
  /\ hash_to_block_id = <<>>
  /\ free_block_ids = Blocks
  /\ used_block_ids = {}

\* Mutant: the block is not reset.
ForgetIndexOnly(F) ==
  /\ hash_to_block_id' = Restrict(hash_to_block_id,
       {h \in DOMAIN hash_to_block_id :
          ~ \E b \in F : hash_to_block_id[h] = b /\ hash[b] = h})
  /\ UNCHANGED <<hash, block_tokens>>

(***************************************************************************)
(* _allocate_block for every block of F: the index entry goes when it      *)
(* still points at the block, then Block::reset.                           *)
(***************************************************************************)
ForgetContents(F) ==
  /\ hash_to_block_id' = Restrict(hash_to_block_id,
       {h \in DOMAIN hash_to_block_id :
          ~ \E b \in F : hash_to_block_id[h] = b /\ hash[b] = h})
  /\ hash' = [b \in Blocks |-> IF b \in F THEN NoHash ELSE hash[b]]
  /\ block_tokens' = [b \in Blocks |-> IF b \in F THEN <<>> ELSE block_tokens[b]]

(***************************************************************************)
(* can_allocate.  The hash of block i of s, chained from -1, is the prefix *)
(* that ends with it; the walk stops at the first miss and never looks at  *)
(* the last block.  PrefixHits(s, n): the walk found exactly n hits.       *)
(***************************************************************************)
PrefixHash(s, i) == SubSeq(token_ids[s], 1, i * BlockSize)
HitBlock(s, i) == hash_to_block_id[PrefixHash(s, i)]
IsHit(s, i) ==
  /\ PrefixHash(s, i) \in DOMAIN hash_to_block_id
  /\ block_tokens[HitBlock(s, i)] = block(s, i - 1)

PrefixHits(s, n) ==
  /\ \A i \in 1..n : IsHit(s, i)
  /\ n + 1 < num_blocks(s) => ~ IsHit(s, n + 1)

\* Blocks that must come from the free list, hits that are free included.
NewBlocksNeeded(s, n) ==
  num_blocks(s) - Cardinality({i \in 1..n : HitBlock(s, i) \in used_block_ids})

can_allocate(s, n) == Cardinality(free_block_ids) >= NewBlocksNeeded(s, n)

(***************************************************************************)
(* allocate(seq, n), for an empty table: share the hits that are in use,   *)
(* revive the free ones (their count starts again), then take fresh        *)
(* blocks.                                                                 *)
(***************************************************************************)
FreshCount(s, n) == num_blocks(s) - n

FreshBlocks(s, hits, k) ==
  {fresh \in [1..k -> free_block_ids \ Range(hits)] : IsInjective(fresh)}

\* The positions of a block table that name block b.
Positions(table, b) == {i \in DOMAIN table : table[i] = b}

\* Mutant: a shared block gets no further reference.
allocateUncounted(s, n) ==
  LET hits == [i \in 1..n |-> HitBlock(s, i)]
  IN \E fresh \in FreshBlocks(s, hits, FreshCount(s, n)) :
       LET taken == Range(hits) \cup Range(fresh)
       IN /\ block_table' = [block_table EXCEPT ![s] = hits \o fresh]
          /\ ref_count' = [b \in Blocks |->
               IF b \in taken \ used_block_ids THEN 1 ELSE ref_count[b]]
          /\ free_block_ids' = free_block_ids \ taken
          /\ used_block_ids' = used_block_ids \cup taken
          /\ num_cached_tokens' = [num_cached_tokens EXCEPT ![s] = n * BlockSize]
          /\ ForgetContents(Range(fresh))

allocate(s, n) ==
  LET hits == [i \in 1..n |-> HitBlock(s, i)]
  IN \E fresh \in FreshBlocks(s, hits, FreshCount(s, n)) :
       LET taken == Range(hits) \cup Range(fresh)
       IN /\ block_table' = [block_table EXCEPT ![s] = hits \o fresh]
          /\ ref_count' = [b \in Blocks |->
               (IF b \in taken \ used_block_ids THEN 0 ELSE ref_count[b])
                 + Cardinality(Positions(hits \o fresh, b))]
          /\ free_block_ids' = free_block_ids \ taken
          /\ used_block_ids' = used_block_ids \cup taken
          /\ num_cached_tokens' = [num_cached_tokens EXCEPT ![s] = n * BlockSize]
          /\ ForgetContents(Range(fresh))

\* One _allocate_block too many: "no free blocks".
AllocateThrows(s, n) ==
  Cardinality(free_block_ids \ {HitBlock(s, i) : i \in 1..n}) < FreshCount(s, n)

(***************************************************************************)
(* deallocate: every entry of the table gives back one reference; a block  *)
(* that reaches 0 becomes free and keeps its hash and contents.            *)
(***************************************************************************)
Uses(s, b) == Cardinality(Positions(block_table[s], b))

\* Mutant: a block is freed although others still refer to it.
releaseAll(s) ==
  /\ ref_count' = [b \in Blocks |-> ref_count[b] - Uses(s, b)]
  /\ used_block_ids' = used_block_ids \ Range(block_table[s])
  /\ free_block_ids' = free_block_ids \cup Range(block_table[s])
  /\ num_cached_tokens' = [num_cached_tokens EXCEPT ![s] = 0]
  /\ block_table' = [block_table EXCEPT ![s] = <<>>]

release(s) ==
  LET released == {b \in Range(block_table[s]) : ref_count[b] = Uses(s, b)}
  IN /\ ref_count' = [b \in Blocks |-> ref_count[b] - Uses(s, b)]
     /\ used_block_ids' = used_block_ids \ released
     /\ free_block_ids' = free_block_ids \cup released
     /\ num_cached_tokens' = [num_cached_tokens EXCEPT ![s] = 0]
     /\ block_table' = [block_table EXCEPT ![s] = <<>>]

deallocate(s) ==
  /\ release(s)
  /\ UNCHANGED <<hash, block_tokens, hash_to_block_id>>

(***************************************************************************)
(* can_append / may_append: a block is needed when the token about to be   *)
(* computed is the first of its block.                                     *)
(***************************************************************************)
\* Mutant: the boundary test one token early.
NeedsBlockEarly(s) == num_tokens(s) % BlockSize = 0

NeedsBlock(s) == num_tokens(s) % BlockSize = 1

can_append(s) == Cardinality(free_block_ids) >= IF NeedsBlock(s) THEN 1 ELSE 0

may_append(s) ==
  \/ /\ ~ NeedsBlock(s)
     /\ UNCHANGED <<blockVars, block_table>>
  \/ /\ NeedsBlock(s)
     /\ \E b \in free_block_ids :
          /\ block_table' = [block_table EXCEPT ![s] = Append(@, b)]
          /\ ref_count' = [ref_count EXCEPT ![b] = 1]
          /\ free_block_ids' = free_block_ids \ {b}
          /\ used_block_ids' = used_block_ids \cup {b}
          /\ ForgetContents({b})

(***************************************************************************)
(* hash_blocks: the blocks that this step completes are hashed, chained    *)
(* from the hash of the block before them, and indexed; an older entry for *)
(* the same prefix is overwritten.                                         *)
(***************************************************************************)
FirstUnhashed(s) == num_cached_tokens[s] \div BlockSize
EndHashed(s) == (num_cached_tokens[s] + num_scheduled_tokens[s]) \div BlockSize

ChainHash(s, i) ==
  compute_hash(SubSeq(token_ids[s], FirstUnhashed(s) * BlockSize + 1, i * BlockSize),
               IF FirstUnhashed(s) > 0 THEN hash[block_table[s][FirstUnhashed(s)]] ELSE <<>>)

hash_blocks(s) ==
  LET done == FirstUnhashed(s) + 1 .. EndHashed(s)
      At(b) == {i \in done : block_table[s][i] = b}
      Named(h) == {i \in done : ChainHash(s, i) = h}
  IN /\ hash' = [b \in Blocks |->
          IF At(b) = {} THEN hash[b] ELSE ChainHash(s, CHOOSE i \in At(b) : TRUE)]
     /\ block_tokens' = [b \in Blocks |->
          IF At(b) = {} THEN block_tokens[b] ELSE block(s, (CHOOSE i \in At(b) : TRUE) - 1)]
     /\ hash_to_block_id' =
          [h \in DOMAIN hash_to_block_id \cup {ChainHash(s, i) : i \in done} |->
             IF Named(h) = {} THEN hash_to_block_id[h]
             ELSE block_table[s][CHOOSE i \in Named(h) : TRUE]]

\* A hash or a token list is a sequence of numbers: tokens, or the 0 of NoHash.
BlockManagerTypeOK ==
  /\ block_table \in [Seqs -> Seq(Blocks)]
  /\ ref_count \in [Blocks -> Nat]
  /\ hash \in [Blocks -> Seq(Nat)]
  /\ block_tokens \in [Blocks -> Seq(Nat)]
  /\ DOMAIN hash_to_block_id \subseteq Seq(Nat)
  /\ hash_to_block_id \in [DOMAIN hash_to_block_id -> Blocks]
  /\ free_block_ids \subseteq Blocks
  /\ used_block_ids \subseteq Blocks

\* allocate, may_append and deallocate keep every reference count equal to the
\* number of table entries that name the block, whatever was shared, revived
\* from the free list, preempted or finished in between.
Holders(b) == UNION {{s} \X Positions(block_table[s], b) : s \in Seqs}
RefCountsMatch == \A b \in Blocks : ref_count[b] = Cardinality(Holders(b))

\* The free list and the used set split the pool, and a block is used exactly
\* while some reference to it is left: nothing leaks and nothing that a request
\* still reads can be handed out again.
PoolPartition ==
  /\ free_block_ids \cap used_block_ids = {}
  /\ free_block_ids \cup used_block_ids = Blocks
  /\ \A b \in Blocks : b \in used_block_ids <=> ref_count[b] > 0
=============================================================================

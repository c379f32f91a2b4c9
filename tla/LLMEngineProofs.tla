--------------------------- MODULE LLMEngineProofs ---------------------------
(***************************************************************************)
(* CoreInv is an inductive invariant of LLMEngine for every number of      *)
(* requests and blocks, every block size, token budget and vocabulary: one *)
(* lemma per action, then the theorems about Spec.  PrefixInv, what the    *)
(* shared blocks hold, is inductive beside it and comes second.            *)
(***************************************************************************)
EXTENDS EngineServerInv, QueueProofs, FiniteSetTheorems

(***************************************************************************)
(* The operations of BlockManager: the types they keep and the length of   *)
(* the block tables they leave.                                            *)
(***************************************************************************)
USE DEF SequenceAssumption, BlocksAssumption

\* num_blocks is the least number of blocks that covers the tokens.
LEMMA NumBlocks ==
  ASSUME NEW s \in Seqs, SequenceTypeOK
  PROVE  /\ num_tokens(s) \in Nat
         /\ num_blocks(s) \in Nat
         /\ num_tokens(s) <= num_blocks(s) * BlockSize
         /\ \A n \in Int : n <= num_blocks(s) - 1 => n * BlockSize <= num_tokens(s) - 1
  <1>0. token_ids[s] \in Seq(Tokens)
    BY DEF SequenceTypeOK
  <1>1. num_tokens(s) \in Nat
    BY <1>0, LenProperties DEF num_tokens
  <1> DEFINE L == num_tokens(s)
             N == (L + BlockSize - 1) \div BlockSize
  <1>2. /\ L + BlockSize - 1 \in Nat /\ BlockSize \in Nat \ {0}
        /\ BlockSize - 1 \in Nat
    BY <1>1, SequenceAssumption
  <1>3. num_blocks(s) = N
    BY DEF num_blocks, CeilDiv
  <1>4. /\ N \in Nat /\ N * BlockSize <= L + BlockSize - 1
        /\ L + BlockSize - 1 < N * BlockSize + BlockSize
    BY <1>2, DivFacts
  <1>5. ASSUME NEW n \in Int, n <= N - 1 PROVE n * BlockSize <= L - 1
    <2>1. n * BlockSize <= (N - 1) * BlockSize
      BY <1>4, <1>5, <1>2, MulMono
    <2>2. (N - 1) * BlockSize = N * BlockSize - BlockSize
      BY <1>4, <1>2
    <2> QED BY <2>1, <2>2, <1>4, <1>1, <1>2
  <1>6. L <= N * BlockSize
    BY <1>4, <1>2, <1>1
  <1> QED BY <1>1, <1>3, <1>4, <1>5, <1>6

\* A slice of the tokens is a list of numbers.
LEMMA TokenSlice ==
  ASSUME NEW s \in Seqs, SequenceTypeOK, NEW m \in Int, NEW n \in Int,
         m >= 1, n <= num_tokens(s)
  PROVE  SubSeq(token_ids[s], m, n) \in Seq(Nat)
  <1>0. token_ids[s] \in Seq(Tokens)
    BY DEF SequenceTypeOK
  <1>1. ASSUME NEW i \in m..n PROVE token_ids[s][i] \in Nat
    <2>1. i \in 1..Len(token_ids[s])
      BY <1>0, LenProperties DEF num_tokens
    <2>2. token_ids[s][i] \in Tokens
      BY <1>0, <2>1, ElementOfSeq
    <2> QED BY <2>2, SequenceAssumption
  <1> QED BY <1>1, SubSeqProperties

\* So is a block of them.
LEMMA BlockTokens ==
  ASSUME NEW s \in Seqs, SequenceTypeOK, NEW i \in Nat
  PROVE  block(s, i) \in Seq(Nat)
  <1>1. i * BlockSize + 1 \in Int /\ i * BlockSize + 1 >= 1 /\ (i + 1) * BlockSize \in Int
    BY SequenceAssumption
  <1>2. num_tokens(s) \in Nat
    BY NumBlocks
  <1> QED BY <1>1, <1>2, TokenSlice DEF block

\* _allocate_block keeps the types of hashes and of the index.
LEMMA ForgetContentsType ==
  ASSUME BlockManagerTypeOK, NEW F \in SUBSET Blocks, ForgetContents(F)
  PROVE  /\ hash' \in [Blocks -> Seq(Nat)]
         /\ block_tokens' \in [Blocks -> Seq(Nat)]
         /\ DOMAIN hash_to_block_id' \subseteq Seq(Nat)
         /\ hash_to_block_id' \in [DOMAIN hash_to_block_id' -> Blocks]
  <1>1. NoHash \in Seq(Nat) /\ <<>> \in Seq(Nat)
    BY DEF NoHash
  <1>2. hash' \in [Blocks -> Seq(Nat)] /\ block_tokens' \in [Blocks -> Seq(Nat)]
    BY <1>1 DEF ForgetContents, BlockManagerTypeOK
  <1> QED BY <1>2 DEF ForgetContents, BlockManagerTypeOK, Restrict

(***************************************************************************)
(* allocate.                                                               *)
(***************************************************************************)

\* The blocks that the prefix index names for the hits.
LEMMA HitsType ==
  ASSUME NEW s \in Seqs, NEW n \in Nat, BlockManagerTypeOK, PrefixHits(s, n)
  PROVE  [i \in 1..n |-> HitBlock(s, i)] \in [1..n -> Blocks]
  <1>1. ASSUME NEW i \in 1..n PROVE HitBlock(s, i) \in Blocks
    BY DEF PrefixHits, IsHit, HitBlock, BlockManagerTypeOK
  <1> QED BY <1>1

\* The table that allocate builds: it covers the request, and its entries are the
\* hits followed by fresh blocks.
LEMMA AllocateTable ==
  ASSUME NEW s \in Seqs, NEW n \in 0..num_blocks(s) - 1,
         SequenceTypeOK, BlockManagerTypeOK, PrefixHits(s, n),
         NEW fresh \in [1..FreshCount(s, n) -> free_block_ids]
  PROVE  LET hits == [i \in 1..n |-> HitBlock(s, i)]
         IN /\ hits \in Seq(Blocks) /\ Len(hits) = n
            /\ fresh \in Seq(Blocks) /\ Len(fresh) = FreshCount(s, n)
            /\ hits \o fresh \in Seq(Blocks)
            /\ Len(hits \o fresh) = num_blocks(s)
            /\ Range(hits \o fresh) = Range(hits) \cup Range(fresh)
            /\ Range(hits) \subseteq Blocks /\ Range(fresh) \subseteq free_block_ids
  <1> DEFINE hits == [i \in 1..n |-> HitBlock(s, i)]
  <1>1. num_blocks(s) \in Nat /\ n \in Nat /\ FreshCount(s, n) \in Nat
    BY NumBlocks DEF FreshCount
  <1>2. hits \in [1..n -> Blocks]
    BY HitsType, <1>1
  <1>3. fresh \in [1..FreshCount(s, n) -> Blocks]
    BY DEF BlockManagerTypeOK
  <1> HIDE DEF hits
  <1>4. hits \in Seq(Blocks) /\ Len(hits) = n
    BY <1>1, <1>2
  <1>5. fresh \in Seq(Blocks) /\ Len(fresh) = FreshCount(s, n)
    BY <1>1, <1>3
  <1>6. /\ hits \o fresh \in Seq(Blocks)
        /\ Len(hits \o fresh) = n + FreshCount(s, n)
        /\ Range(hits \o fresh) = Range(hits) \cup Range(fresh)
    BY <1>4, <1>5, ConcatProperties, RangeConcatenation
  <1>7. n + FreshCount(s, n) = num_blocks(s)
    BY <1>1 DEF FreshCount
  <1>8. Range(hits) \subseteq Blocks /\ Range(fresh) \subseteq free_block_ids
    BY <1>2 DEF Range
  <1> QED BY <1>4, <1>5, <1>6, <1>7, <1>8 DEF hits

LEMMA PositionsFinite ==
  ASSUME NEW table \in Seq(Blocks), NEW b
  PROVE  /\ IsFiniteSet(Positions(table, b))
         /\ Cardinality(Positions(table, b)) \in Nat
         /\ Positions(table, b) = {} <=> b \notin Range(table)
         /\ Positions(table, b) \subseteq 1..Len(table)
  <1>1. DOMAIN table = 1..Len(table) /\ Len(table) \in Nat
    BY LenProperties
  <1>2. IsFiniteSet(1..Len(table))
    BY <1>1, FS_Interval
  <1>3. Positions(table, b) \in SUBSET (1..Len(table))
    BY <1>1 DEF Positions
  <1>4. IsFiniteSet(Positions(table, b))
    BY <1>2, <1>3, FS_Subset
  <1>5. Positions(table, b) = {} <=> b \notin Range(table)
    BY DEF Positions, Range
  <1> QED BY <1>3, <1>4, <1>5, FS_CardinalityType

\* allocate keeps the types, covers the request and touches no other table.
LEMMA AllocateType ==
  ASSUME NEW s \in Seqs, NEW n \in 0..num_blocks(s) - 1,
         SequenceTypeOK, BlockManagerTypeOK, PrefixHits(s, n), allocate(s, n)
  PROVE  /\ BlockManagerTypeOK'
         /\ Len(block_table'[s]) = num_blocks(s)
         /\ \A t \in Seqs \ {s} : block_table'[t] = block_table[t]
         /\ num_cached_tokens' = [num_cached_tokens EXCEPT ![s] = n * BlockSize]
  <1> DEFINE hits == [i \in 1..n |-> HitBlock(s, i)]
  <1>1. PICK fresh \in FreshBlocks(s, hits, FreshCount(s, n)) :
          LET taken == Range(hits) \cup Range(fresh)
          IN /\ block_table' = [block_table EXCEPT ![s] = hits \o fresh]
             /\ ref_count' = [b \in Blocks |->
                  (IF b \in taken \ used_block_ids THEN 0 ELSE ref_count[b])
                    + Cardinality(Positions(hits \o fresh, b))]
             /\ free_block_ids' = free_block_ids \ taken
             /\ used_block_ids' = used_block_ids \cup taken
             /\ num_cached_tokens' = [num_cached_tokens EXCEPT ![s] = n * BlockSize]
             /\ ForgetContents(Range(fresh))
    BY DEF allocate
  <1>2. fresh \in [1..FreshCount(s, n) -> free_block_ids]
    BY DEF FreshBlocks
  <1> DEFINE table == hits \o fresh
  <1>3. /\ table \in Seq(Blocks)
        /\ Len(table) = num_blocks(s)
        /\ Range(hits) \subseteq Blocks
        /\ Range(fresh) \subseteq free_block_ids
    BY <1>2, AllocateTable
  <1>4. \A b \in Blocks : Cardinality(Positions(table, b)) \in Nat
    BY <1>3, PositionsFinite
  <1>5. block_table' = [block_table EXCEPT ![s] = table]
    BY <1>1
  <1> DEFINE count(b) == (IF b \in (Range(hits) \cup Range(fresh)) \ used_block_ids
                          THEN 0 ELSE ref_count[b]) + Cardinality(Positions(table, b))
  <1>61. ASSUME NEW b \in Blocks PROVE count(b) \in Nat
    <2>1. ref_count[b] \in Nat
      BY DEF BlockManagerTypeOK
    <2>2. Cardinality(Positions(table, b)) \in Nat
      BY <1>4
    <2>3. (IF b \in (Range(hits) \cup Range(fresh)) \ used_block_ids
           THEN 0 ELSE ref_count[b]) \in Nat
      BY <2>1
    <2> HIDE DEF table, hits
    <2> QED BY <2>2, <2>3
  <1>62. ref_count' = [b \in Blocks |-> count(b)]
    BY <1>1
  <1>6. ref_count' \in [Blocks -> Nat]
    <2> HIDE DEF count
    <2> QED BY <1>61, <1>62
  <1>7. Range(fresh) \in SUBSET Blocks
    BY <1>3 DEF BlockManagerTypeOK
  <1>8. free_block_ids' \subseteq Blocks /\ used_block_ids' \subseteq Blocks
    BY <1>1, <1>3, <1>7 DEF BlockManagerTypeOK
  <1>9. /\ hash' \in [Blocks -> Seq(Nat)]
        /\ block_tokens' \in [Blocks -> Seq(Nat)]
        /\ DOMAIN hash_to_block_id' \subseteq Seq(Nat)
        /\ hash_to_block_id' \in [DOMAIN hash_to_block_id' -> Blocks]
    BY <1>1, <1>7, ForgetContentsType
  <1> HIDE DEF table
  <1>10. block_table' \in [Seqs -> Seq(Blocks)]
    BY <1>3, <1>5 DEF BlockManagerTypeOK
  <1>11. block_table'[s] = table /\ \A t \in Seqs \ {s} : block_table'[t] = block_table[t]
    BY <1>5 DEF BlockManagerTypeOK
  <1> QED BY <1>1, <1>3, <1>6, <1>8, <1>9, <1>10, <1>11 DEF BlockManagerTypeOK

(***************************************************************************)
(* Reference counts.                                                       *)
(***************************************************************************)
Entries(s, b) == {s} \X Positions(block_table[s], b)

LEMMA PairsFinite ==
  ASSUME NEW s, NEW P, IsFiniteSet(P)
  PROVE  IsFiniteSet({s} \X P) /\ Cardinality({s} \X P) = Cardinality(P)
  <1> DEFINE f == [i \in P |-> <<s, i>>]
  <1>1. f \in Bijection(P, {s} \X P)
    <2>1. f \in [P -> {s} \X P]
      OBVIOUS
    <2>2. \A i, j \in P : f[i] = f[j] => i = j
      OBVIOUS
    <2>3. ASSUME NEW q \in {s} \X P PROVE \E i \in P : f[i] = q
      <3>1. q[2] \in P /\ q = <<s, q[2]>>
        OBVIOUS
      <3> QED BY <3>1
    <2>4. DOMAIN f = P
      OBVIOUS
    <2> HIDE DEF f
    <2> QED BY <2>1, <2>2, <2>3, <2>4 DEF Bijection, Injection, Surjection, IsInjective
  <1>2. ExistsBijection(P, {s} \X P)
    BY <1>1 DEF ExistsBijection
  <1> QED BY <1>2, FS_Bijection

LEMMA HoldersFinite ==
  ASSUME BlockManagerTypeOK, NEW b
  PROVE  /\ IsFiniteSet(Holders(b)) /\ Cardinality(Holders(b)) \in Nat
         /\ \A s \in Seqs : Entries(s, b) \subseteq Holders(b)
         /\ \A p \in Holders(b) : \E s \in Seqs : p \in Entries(s, b)
  <1> DEFINE all == {Entries(s, b) : s \in Seqs}
             f == [s \in Seqs |-> Entries(s, b)]
  <1>1. f \in Surjection(Seqs, all)
    BY DEF Surjection
  <1>2. IsFiniteSet(all)
    <2> HIDE DEF f, all
    <2> QED BY <1>1, FS_Surjection, SequenceAssumption
  <1>3. ASSUME NEW s \in Seqs PROVE IsFiniteSet(Entries(s, b))
    <2>1. block_table[s] \in Seq(Blocks)
      BY DEF BlockManagerTypeOK
    <2>2. IsFiniteSet(Positions(block_table[s], b))
      BY <2>1, PositionsFinite
    <2> QED BY <2>2, PairsFinite DEF Entries
  <1>4. \A T \in all : IsFiniteSet(T)
    BY <1>3
  <1>5. Holders(b) = UNION all
    BY DEF Holders, Entries
  <1>6. IsFiniteSet(Holders(b))
    <2> HIDE DEF all
    <2> QED BY <1>2, <1>4, <1>5, FS_UNION
  <1> QED BY <1>5, <1>6, FS_CardinalityType

\* Replacing one table moves the holders of a block by the difference of its entries.
LEMMA HoldersUpdate ==
  ASSUME BlockManagerTypeOK, BlockManagerTypeOK', NEW s \in Seqs, NEW table \in Seq(Blocks), NEW b,
         block_table' = [block_table EXCEPT ![s] = table]
  PROVE  /\ Cardinality(Holders(b))' = Cardinality(Holders(b))
               - Cardinality(Positions(block_table[s], b)) + Cardinality(Positions(table, b))
         /\ Cardinality(Positions(block_table[s], b)) <= Cardinality(Holders(b))
  <1> DEFINE old == Entries(s, b)
             new == {s} \X Positions(table, b)
             rest == Holders(b) \ old
  <1>1. /\ block_table[s] \in Seq(Blocks)
        /\ block_table'[s] = table
        /\ \A t \in Seqs \ {s} : block_table'[t] = block_table[t]
    BY DEF BlockManagerTypeOK
  <1>2. /\ IsFiniteSet(old) /\ Cardinality(old) = Cardinality(Positions(block_table[s], b))
        /\ IsFiniteSet(new) /\ Cardinality(new) = Cardinality(Positions(table, b))
        /\ Cardinality(old) \in Nat /\ Cardinality(new) \in Nat
    BY <1>1, PositionsFinite, PairsFinite, FS_CardinalityType DEF Entries
  <1>3. /\ IsFiniteSet(Holders(b)) /\ Cardinality(Holders(b)) \in Nat
        /\ old \subseteq Holders(b)
    BY HoldersFinite
  <1>4. IsFiniteSet(rest) /\ Cardinality(rest) = Cardinality(Holders(b)) - Cardinality(old)
    <2>1. Holders(b) \cap old = old
      BY <1>3
    <2> QED BY <2>1, <1>3, FS_Difference
  <1>5. rest \cap new = {}
    BY HoldersFinite DEF Entries
  <1>6. Holders(b)' = rest \cup new
    <2>1. \A p : p \in Holders(b) <=> \E t \in Seqs : p \in Entries(t, b)
      BY DEF Holders, Entries
    <2>2. \A p : p \in Holders(b)' <=> \E t \in Seqs : p \in {t} \X Positions(block_table'[t], b)
      BY DEF Holders, Positions
    <2>3. \A t \in Seqs \ {s} : Entries(t, b) \cap old = {}
      BY DEF Entries
    <2>4. \A t \in Seqs \ {s} : {t} \X Positions(block_table'[t], b) = Entries(t, b)
      BY <1>1 DEF Entries
    <2>5. {s} \X Positions(block_table'[s], b) = new
      BY <1>1
    <2> HIDE DEF old, new
    <2>6. \A p : p \in Holders(b)' <=> p \in new \/ \E t \in Seqs \ {s} : p \in Entries(t, b)
      BY <2>2, <2>4, <2>5
    <2>7. \A p : p \in rest <=> \E t \in Seqs \ {s} : p \in Entries(t, b)
      BY <2>1, <2>3 DEF old
    <2> HIDE DEF rest
    <2> QED BY <2>6, <2>7
  <1>7. Cardinality(rest \cup new) = Cardinality(rest) + Cardinality(new)
    <2> HIDE DEF rest, new
    <2>1. Cardinality(rest \cup new) = Cardinality(rest) + Cardinality(new) - Cardinality(rest \cap new)
      BY <1>2, <1>4, FS_Union
    <2>2. Cardinality(rest \cap new) = 0
      BY <1>5, FS_EmptySet
    <2>3. Cardinality(rest) \in Nat /\ Cardinality(new) \in Nat
      BY <1>2, <1>4, FS_CardinalityType
    <2> QED BY <2>1, <2>2, <2>3
  <1>8. Cardinality(old) <= Cardinality(Holders(b))
    BY <1>3, FS_Subset
  <1>9. Cardinality(Holders(b))' = Cardinality(rest \cup new)
    BY <1>6
  <1> HIDE DEF old, new, rest
  <1> QED BY <1>2, <1>3, <1>4, <1>7, <1>8, <1>9

\* What every operation of BlockManager preserves.
BlockInv == BlockManagerTypeOK /\ RefCountsMatch /\ PoolPartition

LEMMA RefFacts ==
  ASSUME BlockInv, NEW b \in Blocks
  PROVE  /\ ref_count[b] \in Nat
         /\ ref_count[b] = Cardinality(Holders(b))
         /\ b \in used_block_ids <=> ref_count[b] > 0
         /\ b \in free_block_ids <=> ref_count[b] = 0
  <1>1. ref_count[b] \in Nat
    BY DEF BlockInv, BlockManagerTypeOK
  <1> QED BY <1>1 DEF BlockInv, RefCountsMatch, PoolPartition

\* allocate: a request without blocks gets its table, counted.
LEMMA AllocateInv ==
  ASSUME NEW s \in Seqs, NEW n \in 0..num_blocks(s) - 1,
         SequenceTypeOK, BlockInv, PrefixHits(s, n), allocate(s, n), block_table[s] = <<>>
  PROVE  BlockInv'
  <1> DEFINE hits == [i \in 1..n |-> HitBlock(s, i)]
  <1>0. BlockManagerTypeOK /\ BlockManagerTypeOK'
    BY AllocateType DEF BlockInv
  <1>1. PICK fresh \in FreshBlocks(s, hits, FreshCount(s, n)) :
          LET taken == Range(hits) \cup Range(fresh)
          IN /\ block_table' = [block_table EXCEPT ![s] = hits \o fresh]
             /\ ref_count' = [b \in Blocks |->
                  (IF b \in taken \ used_block_ids THEN 0 ELSE ref_count[b])
                    + Cardinality(Positions(hits \o fresh, b))]
             /\ free_block_ids' = free_block_ids \ taken
             /\ used_block_ids' = used_block_ids \cup taken
    BY DEF allocate
  <1> DEFINE table == hits \o fresh
             taken == Range(hits) \cup Range(fresh)
  <1>2. fresh \in [1..FreshCount(s, n) -> free_block_ids]
    BY DEF FreshBlocks
  <1>3. table \in Seq(Blocks) /\ Range(table) = taken /\ taken \subseteq Blocks
    BY <1>0, <1>2, AllocateTable DEF BlockManagerTypeOK
  <1>4. /\ block_table' = [block_table EXCEPT ![s] = table]
        /\ \A b \in Blocks : ref_count'[b] =
              (IF b \in taken \ used_block_ids THEN 0 ELSE ref_count[b])
                + Cardinality(Positions(table, b))
        /\ free_block_ids' = free_block_ids \ taken
        /\ used_block_ids' = used_block_ids \cup taken
    BY <1>1
  <1> HIDE DEF table, taken, hits
  <1>5. ASSUME NEW b \in Blocks
        PROVE  /\ ref_count'[b] = Cardinality(Holders(b))'
               /\ b \in used_block_ids' <=> ref_count'[b] > 0
    <2>1. Cardinality(Holders(b))' = Cardinality(Holders(b))
            - Cardinality(Positions(block_table[s], b)) + Cardinality(Positions(table, b))
      BY <1>0, <1>3, <1>4, HoldersUpdate
    <2>2. Cardinality(Positions(block_table[s], b)) = 0
      BY FS_EmptySet DEF Positions
    <2>3. /\ Cardinality(Positions(table, b)) \in Nat
          /\ Cardinality(Positions(table, b)) = 0 <=> b \notin taken
      BY <1>3, PositionsFinite, FS_EmptySet
    <2>4. ref_count'[b] = ref_count[b] + Cardinality(Positions(table, b))
      BY <1>4, RefFacts, <2>3
    <2> QED BY <2>1, <2>2, <2>3, <2>4, <1>4, RefFacts
  <1>6. RefCountsMatch'
    BY <1>5 DEF RefCountsMatch
  <1>7. PoolPartition'
    BY <1>5, <1>4, <1>3 DEF PoolPartition, BlockInv
  <1> QED BY <1>0, <1>6, <1>7 DEF BlockInv

\* may_append: one more block at the end of the table, or nothing.
LEMMA MayAppendType ==
  ASSUME NEW s \in Seqs, BlockManagerTypeOK, may_append(s)
  PROVE  /\ BlockManagerTypeOK'
         /\ Len(block_table'[s]) = Len(block_table[s]) + IF NeedsBlock(s) THEN 1 ELSE 0
         /\ \A t \in Seqs \ {s} : block_table'[t] = block_table[t]
  <1>0. block_table[s] \in Seq(Blocks) /\ Len(block_table[s]) \in Nat
    BY LenProperties DEF BlockManagerTypeOK
  <1>1. CASE ~ NeedsBlock(s)
    <2>1. UNCHANGED <<blockVars, block_table>>
      BY <1>1 DEF may_append
    <2> QED BY <1>0, <1>1, <2>1 DEF blockVars, BlockManagerTypeOK
  <1>2. CASE NeedsBlock(s)
    <2>1. PICK b \in free_block_ids :
            /\ block_table' = [block_table EXCEPT ![s] = Append(@, b)]
            /\ ref_count' = [ref_count EXCEPT ![b] = 1]
            /\ free_block_ids' = free_block_ids \ {b}
            /\ used_block_ids' = used_block_ids \cup {b}
            /\ ForgetContents({b})
      BY <1>2 DEF may_append
    <2>2. b \in Blocks /\ {b} \in SUBSET Blocks
      BY DEF BlockManagerTypeOK
    <2>3. /\ hash' \in [Blocks -> Seq(Nat)]
          /\ block_tokens' \in [Blocks -> Seq(Nat)]
          /\ DOMAIN hash_to_block_id' \subseteq Seq(Nat)
          /\ hash_to_block_id' \in [DOMAIN hash_to_block_id' -> Blocks]
      BY <2>1, <2>2, ForgetContentsType
    <2>4. Append(block_table[s], b) \in Seq(Blocks)
          /\ Len(Append(block_table[s], b)) = Len(block_table[s]) + 1
      BY <1>0, <2>2, AppendProperties
    <2>5. block_table' \in [Seqs -> Seq(Blocks)] /\ ref_count' \in [Blocks -> Nat]
      BY <2>1, <2>2, <2>4 DEF BlockManagerTypeOK
    <2>6. free_block_ids' \subseteq Blocks /\ used_block_ids' \subseteq Blocks
      BY <2>1, <2>2 DEF BlockManagerTypeOK
    <2>7. /\ Len(block_table'[s]) = Len(block_table[s]) + 1
          /\ \A t \in Seqs \ {s} : block_table'[t] = block_table[t]
      BY <2>1, <2>4 DEF BlockManagerTypeOK
    <2> QED BY <1>2, <2>3, <2>5, <2>6, <2>7 DEF BlockManagerTypeOK
  <1> QED BY <1>1, <1>2

LEMMA MayAppendInv ==
  ASSUME NEW s \in Seqs, BlockInv, may_append(s)
  PROVE  BlockInv'
  <1>0. BlockManagerTypeOK /\ BlockManagerTypeOK'
    BY MayAppendType DEF BlockInv
  <1>1. CASE ~ NeedsBlock(s)
    <2>1. UNCHANGED <<blockVars, block_table>>
      BY <1>1 DEF may_append
    <2> QED BY <1>0, <2>1 DEF BlockInv, blockVars, RefCountsMatch, PoolPartition, Holders
  <1>2. CASE NeedsBlock(s)
    <2>1. PICK new \in free_block_ids :
            /\ block_table' = [block_table EXCEPT ![s] = Append(@, new)]
            /\ ref_count' = [ref_count EXCEPT ![new] = 1]
            /\ free_block_ids' = free_block_ids \ {new}
            /\ used_block_ids' = used_block_ids \cup {new}
      BY <1>2 DEF may_append
    <2> DEFINE old == block_table[s]
               table == Append(old, new)
    <2>2. new \in Blocks /\ old \in Seq(Blocks)
      BY <1>0 DEF BlockManagerTypeOK
    <2>3. /\ table \in Seq(Blocks)
          /\ Len(table) = Len(old) + 1 /\ Len(old) \in Nat
          /\ \A i \in 1..Len(old) : table[i] = old[i]
          /\ table[Len(old) + 1] = new
          /\ DOMAIN table = 1..Len(old) + 1 /\ DOMAIN old = 1..Len(old)
      BY <2>2, AppendProperties, LenProperties
    <2>4. block_table' = [block_table EXCEPT ![s] = table]
      BY <2>1 DEF BlockManagerTypeOK
    <2> HIDE DEF table, old
    <2>5. ASSUME NEW b \in Blocks
          PROVE  /\ ref_count'[b] = Cardinality(Holders(b))'
                 /\ b \in used_block_ids' <=> ref_count'[b] > 0
      <3>1. /\ Cardinality(Holders(b))' = Cardinality(Holders(b))
                  - Cardinality(Positions(old, b)) + Cardinality(Positions(table, b))
            /\ Cardinality(Positions(old, b)) <= Cardinality(Holders(b))
        BY <1>0, <2>3, <2>4, HoldersUpdate DEF old
      <3>2. Cardinality(Positions(old, b)) \in Nat
        BY <2>2, PositionsFinite
      <3>3. CASE b # new
        <4>1. Positions(table, b) = Positions(old, b)
          BY <2>3, <3>3 DEF Positions
        <4>2. ref_count'[b] = ref_count[b]
          BY <2>1, <3>3, <1>0 DEF BlockManagerTypeOK
        <4> QED BY <3>1, <3>2, <3>3, <4>1, <4>2, <2>1, RefFacts
      <3>4. CASE b = new
        <4>1. ref_count[b] = 0 /\ Cardinality(Holders(b)) = 0
          BY <3>4, RefFacts
        <4>2. Positions(old, b) = {}
          BY <3>1, <3>2, <4>1, <2>2, PositionsFinite, FS_EmptySet
        <4>3. Positions(table, b) = {Len(old) + 1}
          BY <2>3, <3>4, <4>2 DEF Positions
        <4>4. Cardinality(Positions(table, b)) = 1
          BY <4>3, FS_Singleton
        <4>5. ref_count'[b] = 1
          BY <2>1, <3>4, <1>0 DEF BlockManagerTypeOK
        <4>6. Cardinality(Positions(old, b)) = 0
          BY <4>2, FS_EmptySet
        <4> QED BY <3>1, <4>1, <4>4, <4>5, <4>6, <2>1, <3>4
      <3> QED BY <3>3, <3>4
    <2>6. RefCountsMatch'
      BY <2>5 DEF RefCountsMatch
    <2>7. PoolPartition'
      BY <2>5, <2>1, <2>2 DEF PoolPartition, BlockInv
    <2> QED BY <1>0, <2>6, <2>7 DEF BlockInv
  <1> QED BY <1>1, <1>2

\* deallocate's accounting (release): every entry of the table is given back once.
\* The types of the hashes are a premise: postprocess hashes and frees in one step.
LEMMA ReleaseInv ==
  ASSUME NEW s \in Seqs, BlockInv, release(s),
         hash' \in [Blocks -> Seq(Nat)],
         block_tokens' \in [Blocks -> Seq(Nat)],
         DOMAIN hash_to_block_id' \subseteq Seq(Nat),
         hash_to_block_id' \in [DOMAIN hash_to_block_id' -> Blocks]
  PROVE  /\ BlockInv'
         /\ block_table'[s] = <<>>
         /\ \A t \in Seqs \ {s} : block_table'[t] = block_table[t]
  <1> DEFINE old == block_table[s]
             released == {b \in Range(old) : ref_count[b] = Uses(s, b)}
  <1>1. /\ ref_count' = [b \in Blocks |-> ref_count[b] - Uses(s, b)]
        /\ used_block_ids' = used_block_ids \ released
        /\ free_block_ids' = free_block_ids \cup released
        /\ block_table' = [block_table EXCEPT ![s] = <<>>]
    BY DEF release
  <1>2. BlockManagerTypeOK /\ old \in Seq(Blocks) /\ <<>> \in Seq(Blocks)
    BY DEF BlockInv, BlockManagerTypeOK
  <1>3. released \subseteq Blocks
    BY <1>2, RangeOfSeq
  <1>4. ASSUME NEW b \in Blocks
        PROVE  /\ Uses(s, b) \in Nat /\ Uses(s, b) <= ref_count[b]
               /\ Uses(s, b) = 0 <=> b \notin Range(old)
    <2>1. Uses(s, b) \in Nat /\ (Uses(s, b) = 0 <=> b \notin Range(old))
      BY <1>2, PositionsFinite, FS_EmptySet DEF Uses
    <2>2. Entries(s, b) \subseteq Holders(b) /\ IsFiniteSet(Holders(b))
      BY <1>2, HoldersFinite
    <2>3. Cardinality(Entries(s, b)) <= Cardinality(Holders(b))
      BY <2>2, FS_Subset
    <2>4. Cardinality(Entries(s, b)) = Uses(s, b)
      BY <1>2, PositionsFinite, PairsFinite DEF Entries, Uses
    <2> QED BY <2>1, <2>3, <2>4, RefFacts
  <1>5. \A b \in Blocks : ref_count[b] - Uses(s, b) \in Nat
    BY <1>4, RefFacts
  <1> HIDE DEF released, old
  <1>6. BlockManagerTypeOK'
    <2>1. ref_count' \in [Blocks -> Nat]
      BY <1>1, <1>5
    <2>2. block_table' \in [Seqs -> Seq(Blocks)]
      BY <1>1, <1>2 DEF BlockManagerTypeOK
    <2> QED BY <1>1, <1>2, <1>3, <2>1, <2>2 DEF BlockManagerTypeOK
  <1>7. ASSUME NEW b \in Blocks
        PROVE  /\ ref_count'[b] = Cardinality(Holders(b))'
               /\ b \in used_block_ids' <=> ref_count'[b] > 0
    <2>1. Cardinality(Holders(b))' = Cardinality(Holders(b))
            - Cardinality(Positions(block_table[s], b)) + Cardinality(Positions(<<>>, b))
      BY <1>1, <1>2, <1>6, HoldersUpdate
    <2>2. Cardinality(Positions(<<>>, b)) = 0
      BY FS_EmptySet DEF Positions
    <2>3. ref_count'[b] = ref_count[b] - Uses(s, b)
      BY <1>1
    <2>4. ref_count'[b] = Cardinality(Holders(b))'
      BY <2>1, <2>2, <2>3, <1>4, RefFacts DEF Uses
    <2>5. b \in released <=> b \in Range(old) /\ ref_count[b] = Uses(s, b)
      BY DEF released
    <2>6. b \in used_block_ids' <=> ref_count'[b] > 0
      BY <2>3, <2>5, <1>1, <1>4, RefFacts
    <2> QED BY <2>4, <2>6
  <1>8. RefCountsMatch'
    BY <1>7 DEF RefCountsMatch
  <1>9. released \subseteq used_block_ids
    <2>1. ASSUME NEW b \in released PROVE b \in used_block_ids
      <3>1. b \in Blocks /\ b \in Range(old) /\ ref_count[b] = Uses(s, b)
        BY <1>3 DEF released
      <3> QED BY <3>1, <1>4, RefFacts
    <2> QED BY <2>1
  <1>10. PoolPartition'
    BY <1>7, <1>1, <1>3, <1>9 DEF PoolPartition, BlockInv
  <1>11. block_table'[s] = <<>> /\ \A t \in Seqs \ {s} : block_table'[t] = block_table[t]
    BY <1>1, <1>2 DEF BlockManagerTypeOK
  <1> QED BY <1>6, <1>8, <1>10, <1>11 DEF BlockInv

\* The range hash_blocks walks, in plain numbers: c cached and k scheduled tokens
\* of L, a table of T blocks of d.
LEMMA HashRange ==
  ASSUME NEW c \in Nat, NEW k \in Nat, NEW L \in Nat, NEW T \in Nat, NEW d \in Nat \ {0},
         c + k <= L, c + k <= T * d
  PROVE  /\ c \div d \in Nat /\ (c + k) \div d \in Nat
         /\ c \div d <= (c + k) \div d /\ (c + k) \div d <= T
         /\ \A i \in Nat : i <= (c + k) \div d => i * d <= L
  <1> DEFINE a == c \div d
             e == (c + k) \div d
  <1>0. c + k \in Nat
    OBVIOUS
  <1>1. a \in Nat /\ a * d \in Nat /\ a * d <= c /\ c < a * d + d
    BY DivFacts
  <1>2. e \in Nat /\ e * d \in Nat /\ e * d <= c + k /\ c + k < e * d + d
    <2>1. \A m \in Nat : /\ m \div d \in Nat /\ (m \div d) * d \in Nat
                         /\ (m \div d) * d <= m /\ m < (m \div d) * d + d
      BY DivFacts
    <2> QED BY <2>1, <1>0
  <1> HIDE DEF a, e
  <1>3. T * d \in Nat
    OBVIOUS
  <1>4. e <= T
    <2>1. e * d < T * d + d
      <3> DEFINE x == e * d
                 y == T * d
      <3>1. x \in Nat /\ y \in Nat /\ x <= c + k /\ c + k <= y
        BY <1>2, <1>3
      <3> HIDE DEF x, y
      <3>2. x < y + d
        BY <3>1
      <3> QED BY <3>2 DEF x, y
    <2> QED BY <2>1, <1>2, MulCancel
  <1>5. a <= e
    <2>1. a * d < e * d + d
      <3> DEFINE x == a * d
                 y == e * d
      <3>1. x \in Nat /\ y \in Nat /\ x <= c /\ c + k < y + d
        BY <1>1, <1>2
      <3> HIDE DEF x, y
      <3>2. x < y + d
        BY <3>1
      <3> QED BY <3>2 DEF x, y
    <2> QED BY <2>1, <1>1, <1>2, MulCancel
  <1>6. ASSUME NEW i \in Nat, i <= e PROVE i * d <= L
    <2> DEFINE x == i * d
               y == e * d
    <2>1. x <= y
      BY <1>6, <1>2, MulMono
    <2>2. x \in Nat /\ y \in Nat /\ y <= c + k
      BY <1>2
    <2> HIDE DEF x, y
    <2>3. x <= L
      BY <2>1, <2>2
    <2> QED BY <2>3 DEF x
  <1> QED BY <1>1, <1>2, <1>4, <1>5, <1>6 DEF a, e

\* hash_blocks stays inside the request's tokens and its table, when what this
\* step computes does.
LEMMA HashBlocksType ==
  ASSUME NEW s \in Seqs, SequenceTypeOK, BlockManagerTypeOK, hash_blocks(s),
         num_cached_tokens[s] + num_scheduled_tokens[s] <= num_tokens(s),
         num_cached_tokens[s] + num_scheduled_tokens[s] <= Len(block_table[s]) * BlockSize
  PROVE  /\ hash' \in [Blocks -> Seq(Nat)]
         /\ block_tokens' \in [Blocks -> Seq(Nat)]
         /\ DOMAIN hash_to_block_id' \subseteq Seq(Nat)
         /\ hash_to_block_id' \in [DOMAIN hash_to_block_id' -> Blocks]
  <1> DEFINE start == FirstUnhashed(s)
             done == start + 1 .. EndHashed(s)
             At(b) == {i \in done : block_table[s][i] = b}
             Named(h) == {i \in done : ChainHash(s, i) = h}
  <1>1. /\ num_cached_tokens[s] \in Nat /\ num_scheduled_tokens[s] \in Nat
        /\ block_table[s] \in Seq(Blocks) /\ Len(block_table[s]) \in Nat
        /\ num_tokens(s) \in Nat
    <2>1. /\ num_cached_tokens[s] \in Nat /\ num_scheduled_tokens[s] \in Nat
          /\ block_table[s] \in Seq(Blocks)
      BY DEF SequenceTypeOK, BlockManagerTypeOK
    <2>2. num_tokens(s) \in Nat
      BY NumBlocks
    <2> QED BY <2>1, <2>2, LenProperties
  <1>2. BlockSize \in Nat \ {0}
    BY SequenceAssumption
  <1>3. /\ start \in Nat /\ EndHashed(s) \in Nat
        /\ EndHashed(s) <= Len(block_table[s])
        /\ start <= EndHashed(s)
        /\ \A i \in Nat : i <= EndHashed(s) => i * BlockSize <= num_tokens(s)
    BY <1>1, <1>2, HashRange DEF FirstUnhashed, EndHashed
  <1> HIDE DEF start
  <1>5. ASSUME NEW i \in done PROVE ChainHash(s, i) \in Seq(Nat)
    <2>1. i \in Nat /\ i <= EndHashed(s) /\ i \in 1..Len(block_table[s])
      BY <1>1, <1>3
    <2>2. i * BlockSize <= num_tokens(s)
      BY <2>1, <1>3
    <2>3. start * BlockSize + 1 \in Int /\ start * BlockSize + 1 >= 1 /\ i * BlockSize \in Int
      BY <1>3, <2>1, <1>2
    <2>4. SubSeq(token_ids[s], start * BlockSize + 1, i * BlockSize) \in Seq(Nat)
      BY <2>2, <2>3, TokenSlice
    <2>5. (IF start > 0 THEN hash[block_table[s][start]] ELSE <<>>) \in Seq(Nat)
      <3>1. CASE start > 0
        <4>1. start \in 1..Len(block_table[s])
          BY <1>1, <1>3, <3>1
        <4>2. block_table[s][start] \in Blocks
          BY <1>1, <4>1, ElementOfSeq
        <4> QED BY <4>2, <3>1 DEF BlockManagerTypeOK
      <3>2. CASE ~ (start > 0)
        BY <3>2
      <3> QED BY <3>1, <3>2
    <2> QED BY <2>4, <2>5, ConcatProperties DEF ChainHash, compute_hash, start
  <1>6. ASSUME NEW i \in done PROVE block_table[s][i] \in Blocks /\ i - 1 \in Nat
    <2>1. i \in 1..Len(block_table[s])
      BY <1>1, <1>3
    <2> QED BY <2>1, <1>1, ElementOfSeq
  <1>7. \A i \in done : block(s, i - 1) \in Seq(Nat)
    BY <1>6, BlockTokens
  <1>8. \A b \in Blocks : At(b) # {} => (CHOOSE i \in At(b) : TRUE) \in done
    OBVIOUS
  <1>9. \A h : Named(h) # {} => (CHOOSE i \in Named(h) : TRUE) \in done
    OBVIOUS
  <1>10. /\ hash' = [b \in Blocks |->
              IF At(b) = {} THEN hash[b] ELSE ChainHash(s, CHOOSE i \in At(b) : TRUE)]
         /\ block_tokens' = [b \in Blocks |->
              IF At(b) = {} THEN block_tokens[b] ELSE block(s, (CHOOSE i \in At(b) : TRUE) - 1)]
         /\ hash_to_block_id' =
              [h \in DOMAIN hash_to_block_id \cup {ChainHash(s, i) : i \in done} |->
                 IF Named(h) = {} THEN hash_to_block_id[h]
                 ELSE block_table[s][CHOOSE i \in Named(h) : TRUE]]
    BY DEF hash_blocks, start
  <1> HIDE DEF done, At
  <1>11. hash' \in [Blocks -> Seq(Nat)]
    BY <1>5, <1>8, <1>10 DEF BlockManagerTypeOK
  <1>12. block_tokens' \in [Blocks -> Seq(Nat)]
    BY <1>7, <1>8, <1>10 DEF BlockManagerTypeOK
  <1>13. DOMAIN hash_to_block_id' \subseteq Seq(Nat)
    BY <1>5, <1>10 DEF BlockManagerTypeOK
  <1>14. ASSUME NEW h \in DOMAIN hash_to_block_id' PROVE hash_to_block_id'[h] \in Blocks
    <2>1. CASE Named(h) = {}
      <3>1. h \in DOMAIN hash_to_block_id
        BY <2>1, <1>10
      <3> QED BY <2>1, <3>1, <1>10 DEF BlockManagerTypeOK
    <2>2. CASE Named(h) # {}
      <3> HIDE DEF Named
      <3> QED BY <2>2, <1>6, <1>9, <1>10
    <2> QED BY <2>1, <2>2
  <1>15. hash_to_block_id' \in [DOMAIN hash_to_block_id' -> Blocks]
    <2> HIDE DEF Named
    <2> QED BY <1>10, <1>14
  <1> QED BY <1>11, <1>12, <1>13, <1>15

-----------------------------------------------------------------------------
(***************************************************************************)
(* The steps of the engine.                                                *)
(***************************************************************************)
USE DEF SchedulerAssumption

\* A request none of whose fields changes stays where it is.
LEMMA PositionedSame ==
  ASSUME NEW t \in Seqs, Positioned(t),
         status'[t] = status[t], token_ids'[t] = token_ids[t],
         num_cached_tokens'[t] = num_cached_tokens[t],
         block_table'[t] = block_table[t]
  PROVE  Positioned(t)'
  BY DEF Positioned, num_tokens

\* A request that stays in the batch untouched.
LEMMA InBatchSame ==
  ASSUME NEW t \in Seqs, InBatch(t), Decoding' = Decoding,
         status'[t] = status[t], token_ids'[t] = token_ids[t],
         num_cached_tokens'[t] = num_cached_tokens[t],
         num_scheduled_tokens'[t] = num_scheduled_tokens[t],
         block_table'[t] = block_table[t]
  PROVE  InBatch(t)'
  BY DEF InBatch, End, num_tokens

\* The batch is made of requests.
LEMMA OpenIsSeq ==
  ASSUME SchedulerTypeOK
  PROVE  /\ OpenSeqs \subseteq Seqs /\ OpenSeqs \subseteq Range(scheduled)
         /\ phase # "post" => OpenSeqs = Range(scheduled)
  <1>1. scheduled \in Seq(Seqs) /\ DOMAIN scheduled = 1..Len(scheduled)
    BY LenProperties DEF SchedulerTypeOK
  <1> QED BY <1>1, ElementOfSeq DEF OpenSeqs, Range

\* The conjuncts of CoreInv, as the lemmas below establish them.
LEMMA CoreParts ==
  CoreInv <=> /\ SequenceTypeOK /\ SchedulerTypeOK /\ ModelRunnerTypeOK
           /\ BlockInv
           /\ PositionsInv /\ QueuesInv /\ BatchInv
  BY DEF CoreInv, TypeOK, BlockInv

LEMMA BlockInvSame ==
  ASSUME BlockInv, UNCHANGED <<block_table, blockVars>>
  PROVE  BlockInv'
  BY DEF BlockInv, BlockManagerTypeOK, RefCountsMatch, Holders, Positions, PoolPartition, blockVars

LEMMA InitInv == Init => CoreInv
  <1> SUFFICES ASSUME Init PROVE CoreInv
    OBVIOUS
  <1> USE DEF Init, SequenceInit, BlockManagerInit, SchedulerInit
  <1>1. SequenceTypeOK
    BY DEF SequenceTypeOK
  <1>2. SchedulerTypeOK
    <2>0. is_prefill \in BOOLEAN /\ phase \in Phases
      BY Zenon DEF Phases
    <2>1. <<>> \in Seq(Seqs)
      OBVIOUS
    <2>2. waiting = <<>> /\ running = <<>> /\ scheduled = <<>> /\ num_batched_tokens = 0 /\ at = 1
      OBVIOUS
    <2> QED BY <2>0, <2>1, <2>2 DEF SchedulerTypeOK
  <1>3. ModelRunnerTypeOK
    <2>1. Garbage \in Seq(Nat)
      BY DEF Garbage
    <2> QED BY <2>1 DEF ModelRunnerInit, ModelRunnerTypeOK
  <1>4. BlockManagerTypeOK
    <2>1. NoHash \in Seq(Nat) /\ \A S : <<>> \in Seq(S)
      BY DEF NoHash
    <2>2. DOMAIN hash_to_block_id = {}
      OBVIOUS
    <2>3. hash_to_block_id \in [{} -> Blocks]
      OBVIOUS
    <2> QED BY <2>1, <2>2, <2>3 DEF BlockManagerTypeOK
  <1>5. RefCountsMatch
    <2>1. \A b \in Blocks : Holders(b) = {}
      BY DEF Holders, Positions
    <2> QED BY <2>1, FS_EmptySet DEF RefCountsMatch
  <1>6. PoolPartition
    BY DEF PoolPartition
  <1>7. PositionsInv
    BY DEF PositionsInv, Positioned
  <1>8. QueuesInv
    BY DEF QueuesInv, IsInjective, Range
  <1>9. BatchInv
    BY SchedulerAssumption DEF BatchInv, IsInjective, Range, OpenSeqs
  <1> QED BY <1>1, <1>2, <1>3, <1>4, <1>5, <1>6, <1>7, <1>8, <1>9, CoreParts DEF BlockInv

LEMMA AddRequestInv ==
  ASSUME CoreInv, NEW s \in Seqs, NEW p \in Prompts, NEW m \in MaxTokensChoices,
         NEW i \in IgnoreEosChoices, add_request(s, p, m, i)
  PROVE  CoreInv'
  <1>1. /\ SequenceTypeOK /\ SchedulerTypeOK /\ ModelRunnerTypeOK /\ BlockInv
        /\ PositionsInv /\ QueuesInv /\ BatchInv
    BY CoreParts
  <1>2. /\ phase = "idle" /\ status[s] = "NEW" /\ p # <<>>
        /\ NewSequence(s, p, m, i)
        /\ waiting' = Append(waiting, s)
        /\ UNCHANGED <<num_cached_tokens, num_scheduled_tokens, block_table, running,
                       phase, batchVars, blockVars, kv>>
    BY DEF add_request
  <1>3. p \in Seq(Tokens) /\ Len(p) \in Nat \ {0} /\ m \in Nat /\ i \in BOOLEAN
    BY <1>2, EngineAssumption, EmptySeq DEF EngineAssumption
  <1>4. SequenceTypeOK'
    BY <1>1, <1>2, <1>3 DEF SequenceTypeOK, NewSequence
  <1>5. BlockInv'
    BY <1>1, <1>2, BlockInvSame
  <1>6. waiting \in Seq(Seqs)
    BY <1>1 DEF SchedulerTypeOK
  <1>7. /\ waiting' \in Seq(Seqs) /\ Range(waiting') = Range(waiting) \cup {s}
        /\ IsInjective(waiting) /\ s \notin Range(waiting) => IsInjective(waiting')
    BY <1>2, <1>6, QueueAppend
  <1>8. SchedulerTypeOK' /\ ModelRunnerTypeOK'
    BY <1>1, <1>2, <1>7 DEF SchedulerTypeOK, ModelRunnerTypeOK, batchVars
  <1>9. PositionsInv'
    <2>1. ASSUME NEW t \in Seqs \ {s} PROVE Positioned(t)'
      <3>1. status'[t] = status[t] /\ token_ids'[t] = token_ids[t]
        BY <1>1, <1>2 DEF SequenceTypeOK, NewSequence
      <3> QED BY <1>1, <1>2, <3>1, PositionedSame DEF PositionsInv
    <2>2. Positioned(s)'
      <3>1. status'[s] = "WAITING" /\ token_ids'[s] = p
        BY <1>1, <1>2 DEF SequenceTypeOK, NewSequence
      <3>2. block_table[s] = <<>> /\ num_cached_tokens[s] = 0
        BY <1>1, <1>2 DEF PositionsInv, Positioned
      <3> QED BY <1>2, <1>3, <3>1, <3>2 DEF Positioned, num_tokens
    <2> QED BY <2>1, <2>2 DEF PositionsInv
  <1>10. QueuesInv'
    <2>1. s \notin Range(waiting) /\ s \notin Range(running)
      BY <1>1, <1>2 DEF QueuesInv
    <2>2. Range(waiting) \subseteq Seqs /\ Range(running) \subseteq Seqs
      BY <1>1, RangeMembers DEF SchedulerTypeOK
    <2>3. \A t \in Seqs : status'[t] = IF t = s THEN "WAITING" ELSE status[t]
      BY <1>1, <1>2 DEF SequenceTypeOK, NewSequence
    <2> QED BY <1>1, <1>2, <1>7, <2>1, <2>2, <2>3 DEF QueuesInv
  <1>11. BatchInv'
    <2>1. OpenSeqs' = {} /\ phase' = "idle" /\ at' = at /\ scheduled' = scheduled
      BY <1>1, <1>2 DEF OpenSeqs, batchVars, BatchInv
    <2> QED BY <1>1, <1>2, <2>1 DEF BatchInv, batchVars
  <1> QED BY <1>4, <1>5, <1>8, <1>9, <1>10, <1>11 DEF CoreInv, TypeOK, BlockInv

\* Entering schedule(), at the start of a step or again from its end.
LEMMA EnterScheduleInv ==
  ASSUME CoreInv, StartStep \/ Retry, UNCHANGED kv
  PROVE  CoreInv'
  <1>1. /\ SequenceTypeOK /\ SchedulerTypeOK /\ ModelRunnerTypeOK /\ BlockInv
        /\ PositionsInv /\ QueuesInv /\ BatchInv
    BY CoreParts
  <1>2. /\ phase' = "prefill" /\ scheduled' = <<>> /\ num_batched_tokens' = 0
        /\ UNCHANGED <<is_prefill, at, queueVars, sequenceVars, blockVars, kv>>
        /\ phase \in {"idle", "decode"} /\ scheduled = <<>>
    BY <1>1 DEF StartStep, Retry, EnterSchedule, BatchInv
  <1>3. SequenceTypeOK'
    BY <1>1, <1>2 DEF SequenceTypeOK, sequenceVars, requestVars
  <1>4. SchedulerTypeOK' /\ ModelRunnerTypeOK'
    BY <1>1, <1>2 DEF SchedulerTypeOK, ModelRunnerTypeOK, queueVars, Phases
  <1>5. BlockInv'
    BY <1>1, <1>2, BlockInvSame DEF sequenceVars
  <1>6. PositionsInv'
    BY <1>1, <1>2, PositionedSame DEF PositionsInv, sequenceVars
  <1>7. QueuesInv'
    BY <1>1, <1>2 DEF QueuesInv, sequenceVars, queueVars
  <1>8. BatchInv'
    <2>1. OpenSeqs = {} /\ OpenSeqs' = {}
      BY <1>2 DEF OpenSeqs
    <2>2. IsInjective(scheduled')
      BY <1>2 DEF IsInjective
    <2> QED BY <1>1, <1>2, <2>1, <2>2, SchedulerAssumption DEF BatchInv, sequenceVars
  <1> QED BY <1>3, <1>4, <1>5, <1>6, <1>7, <1>8 DEF CoreInv, TypeOK, BlockInv

LEMMA PrefillEndInv ==
  ASSUME CoreInv, PrefillEnd, UNCHANGED kv
  PROVE  CoreInv'
  <1>1. /\ SequenceTypeOK /\ SchedulerTypeOK /\ ModelRunnerTypeOK /\ BlockInv
        /\ PositionsInv /\ QueuesInv /\ BatchInv
    BY CoreParts
  <1>2. /\ phase = "prefill"
        /\ UNCHANGED <<queueVars, scheduled, num_batched_tokens, at, sequenceVars, blockVars, kv>>
        /\ \/ scheduled # <<>> /\ phase' = "run" /\ is_prefill' = TRUE
           \/ scheduled = <<>> /\ phase' = "decode" /\ is_prefill' = is_prefill
    BY DEF PrefillEnd
  <1>3. SequenceTypeOK'
    BY <1>1, <1>2 DEF SequenceTypeOK, sequenceVars, requestVars
  <1>4. SchedulerTypeOK' /\ ModelRunnerTypeOK'
    BY <1>1, <1>2 DEF SchedulerTypeOK, ModelRunnerTypeOK, queueVars, Phases
  <1>5. BlockInv'
    BY <1>1, <1>2, BlockInvSame DEF sequenceVars
  <1>6. PositionsInv'
    BY <1>1, <1>2, PositionedSame DEF PositionsInv, sequenceVars
  <1>7. QueuesInv'
    BY <1>1, <1>2 DEF QueuesInv, sequenceVars, queueVars
  <1>8. BatchInv'
    <2>1. OpenSeqs' = OpenSeqs
      BY <1>2 DEF OpenSeqs
    <2>2. scheduled = <<>> => OpenSeqs = {} /\ Range(scheduled) = {}
      BY DEF OpenSeqs, Range
    <2>3. scheduled # <<>> => Decoding' = Decoding
      BY <1>2 DEF Decoding
    <2>4. \A t \in OpenSeqs' : InBatch(t)'
      BY <1>1, <1>2, <2>1, <2>2, <2>3, InBatchSame, OpenIsSeq DEF BatchInv, sequenceVars
    <2> QED BY <1>1, <1>2, <2>1, <2>2, <2>4 DEF BatchInv
  <1> QED BY <1>3, <1>4, <1>5, <1>6, <1>7, <1>8 DEF CoreInv, TypeOK, BlockInv

\* The batch goes back in front of those that had no turn.
LEMMA DecodeEndInv ==
  ASSUME CoreInv, DecodeEnd, UNCHANGED kv
  PROVE  CoreInv'
  <1>1. /\ SequenceTypeOK /\ SchedulerTypeOK /\ ModelRunnerTypeOK /\ BlockInv
        /\ PositionsInv /\ QueuesInv /\ BatchInv
    BY CoreParts
  <1>2. /\ phase = "decode" /\ phase' = "run" /\ scheduled # <<>>
        /\ running' = scheduled \o running /\ is_prefill' = FALSE
        /\ UNCHANGED <<waiting, scheduled, num_batched_tokens, at, sequenceVars, blockVars, kv>>
    BY DEF DecodeEnd
  <1>3. SequenceTypeOK'
    BY <1>1, <1>2 DEF SequenceTypeOK, sequenceVars, requestVars
  <1>4. scheduled \in Seq(Seqs) /\ running \in Seq(Seqs)
    BY <1>1 DEF SchedulerTypeOK
  <1>5. OpenSeqs = Range(scheduled) /\ OpenSeqs' = OpenSeqs
    BY <1>2 DEF OpenSeqs, Range
  <1>6. /\ running' \in Seq(Seqs)
        /\ Range(running') = Range(scheduled) \cup Range(running)
        /\ IsInjective(running')
    BY <1>1, <1>2, <1>4, QueueConcat DEF BatchInv, QueuesInv
  <1>7. SchedulerTypeOK' /\ ModelRunnerTypeOK'
    BY <1>1, <1>2, <1>6 DEF SchedulerTypeOK, ModelRunnerTypeOK, Phases
  <1>8. BlockInv'
    BY <1>1, <1>2, BlockInvSame DEF sequenceVars
  <1>9. PositionsInv'
    BY <1>1, <1>2, PositionedSame DEF PositionsInv, sequenceVars
  <1>10. QueuesInv'
    <2>1. \A t \in Range(scheduled) : status[t] = "RUNNING"
      BY <1>1, <1>2, <1>5 DEF BatchInv, InBatch, Decoding
    <2> QED BY <1>1, <1>2, <1>6, <2>1 DEF QueuesInv, sequenceVars
  <1>11. BatchInv'
    <2>1. Decoding' = Decoding
      BY <1>2 DEF Decoding
    <2>2. \A t \in OpenSeqs' : InBatch(t)'
      BY <1>1, <1>2, <1>5, <2>1, InBatchSame, OpenIsSeq DEF BatchInv, sequenceVars
    <2> QED BY <1>1, <1>2, <1>5, <2>2 DEF BatchInv
  <1> QED BY <1>3, <1>7, <1>8, <1>9, <1>10, <1>11 DEF CoreInv, TypeOK, BlockInv

\* What a batch leaves in the cache is a token prefix or garbage.
LEMMA RunBatchInv ==
  ASSUME CoreInv, RunBatch
  PROVE  CoreInv'
  <1>1. /\ SequenceTypeOK /\ SchedulerTypeOK /\ ModelRunnerTypeOK /\ BlockInv
        /\ PositionsInv /\ QueuesInv /\ BatchInv
    BY CoreParts
  <1>2. /\ phase = "run" /\ phase' = "post"
        /\ kv' = [b \in Blocks |-> [o \in Offsets |-> Written(b, o)]]
        /\ \A i \in DOMAIN scheduled : Legal(scheduled[i])
        /\ UNCHANGED <<queueVars, batchVars, sequenceVars, blockVars>>
    BY DEF RunBatch, RunThrows
  <1>3. SequenceTypeOK'
    BY <1>1, <1>2 DEF SequenceTypeOK, sequenceVars, requestVars
  <1>4. Garbage \in Seq(Nat)
    BY DEF Garbage
  <1>5. ASSUME NEW s \in Seqs, NEW q \in Nat, q < num_tokens(s)
        PROVE  Prefix(s, q) \in Seq(Nat)
    BY <1>1, <1>5, NumBlocks, TokenSlice DEF Prefix
  <1>6. ASSUME NEW s \in Range(scheduled), NEW w \in RowWrites(s)
        PROVE  w[2] \in Seq(Nat)
    <2>1. s \in Seqs /\ Legal(s)
      BY <1>1, <1>2, RangeMembers DEF SchedulerTypeOK, Range
    <2>2. num_tokens(s) \in Nat /\ num_cached_tokens[s] \in Nat /\ num_scheduled_tokens[s] \in Nat
      BY <1>1, <2>1, NumBlocks DEF SequenceTypeOK
    <2>3. CASE is_prefill
      <3>1. PICK q \in First(s)..End(s) - 1 :
              w = <<Slot(s, q), IF ContextRight(s, First(s)) THEN Prefix(s, q) ELSE Garbage>>
        BY <2>3 DEF RowWrites
      <3>2. q \in Nat /\ q < num_tokens(s)
        BY <2>1, <2>2, <2>3 DEF Legal, PrefillLegal, First, End
      <3> QED BY <3>1, <3>2, <1>4, <1>5, <2>1
    <2>4. CASE ~ is_prefill
      <3>1. w = <<DecodeSlot(s), IF ContextRight(s, num_tokens(s) - 1)
                                 THEN Prefix(s, num_tokens(s) - 1) ELSE Garbage>>
        BY <2>4 DEF RowWrites
      <3>2. num_tokens(s) - 1 \in Nat /\ num_tokens(s) - 1 < num_tokens(s)
        BY <2>1, <2>2, <2>4 DEF Legal, DecodeLegal
      <3> QED BY <3>1, <3>2, <1>4, <1>5, <2>1
    <2> QED BY <2>3, <2>4
  <1>7. ASSUME NEW b \in Blocks, NEW o \in Offsets PROVE Written(b, o) \in Seq(Nat)
    <2> DEFINE values == {w[2] : w \in {v \in UNION {RowWrites(s) : s \in Range(scheduled)} :
                                          v[1] = <<b, o>>}}
    <2>1. values \subseteq Seq(Nat)
      BY <1>6
    <2>2. kv[b][o] \in Seq(Nat)
      BY <1>1 DEF ModelRunnerTypeOK
    <2>3. Written(b, o) = IF values = {} THEN kv[b][o]
                          ELSE IF Cardinality(values) = 1 THEN CHOOSE v \in values : TRUE ELSE Garbage
      BY DEF Written
    <2> HIDE DEF values
    <2> QED BY <2>1, <2>2, <2>3, <1>4
  <1>8. ModelRunnerTypeOK'
    BY <1>2, <1>7 DEF ModelRunnerTypeOK
  <1>9. SchedulerTypeOK'
    BY <1>1, <1>2 DEF SchedulerTypeOK, Phases, queueVars, batchVars
  <1>10. BlockInv'
    BY <1>1, <1>2, BlockInvSame DEF sequenceVars
  <1>11. PositionsInv'
    BY <1>1, <1>2, PositionedSame DEF PositionsInv, sequenceVars
  <1>12. QueuesInv'
    BY <1>1, <1>2 DEF QueuesInv, sequenceVars, queueVars
  <1>13. BatchInv'
    <2>1. at = 1 /\ scheduled # <<>> /\ scheduled \in Seq(Seqs)
      BY <1>1, <1>2 DEF BatchInv, SchedulerTypeOK
    <2>2. DOMAIN scheduled = 1..Len(scheduled) /\ Len(scheduled) \in Nat \ {0}
      BY <2>1, LenProperties, EmptySeq
    <2>3. at' \in DOMAIN scheduled'
      BY <1>2, <2>1, <2>2 DEF batchVars
    <2>4. OpenSeqs' = OpenSeqs
      BY <1>2, <2>1, <2>2 DEF OpenSeqs, batchVars
    <2>5. Decoding' = Decoding
      BY <1>2 DEF Decoding, batchVars
    <2>6. \A t \in OpenSeqs' : InBatch(t)'
      BY <1>1, <1>2, <2>4, <2>5, InBatchSame, OpenIsSeq DEF BatchInv, sequenceVars
    <2> QED BY <1>1, <1>2, <2>3, <2>4, <2>6 DEF BatchInv, batchVars
  <1> QED BY <1>3, <1>8, <1>9, <1>10, <1>11, <1>12, <1>13 DEF CoreInv, TypeOK, BlockInv
\* The head of waiting joins the batch: n tokens behind the first cached ones.
LEMMA TakeInv ==
  ASSUME SequenceTypeOK, SchedulerTypeOK, QueuesInv, BatchInv,
         NEW s, PrefillTurn(s),
         NEW n \in Nat \ {0}, NEW cached \in Nat, cached + n = num_tokens(s),
         Take(s, n, cached),
         num_cached_tokens' = [num_cached_tokens EXCEPT ![s] = cached],
         num_tokens(s) <= Len(block_table'[s]) * BlockSize,
         \A t \in Seqs \ {s} : block_table'[t] = block_table[t]
  PROVE  /\ SequenceTypeOK' /\ SchedulerTypeOK' /\ QueuesInv' /\ BatchInv'
         /\ s \in Seqs /\ token_ids' = token_ids
         /\ num_scheduled_tokens'[s] \in Nat \ {0}
         /\ \/ status'[s] = "RUNNING" /\ cached + num_scheduled_tokens'[s] = num_tokens(s)
            \/ status'[s] = "WAITING" /\ cached + num_scheduled_tokens'[s] < num_tokens(s)
         /\ \A t \in Seqs \ {s} : /\ status'[t] = status[t]
                                  /\ num_scheduled_tokens'[t] = num_scheduled_tokens[t]
                                  /\ num_cached_tokens'[t] = num_cached_tokens[t]
  <1> DEFINE sched == IF n <= Remaining THEN n ELSE Remaining
  <1>1. /\ phase = "prefill" /\ waiting # <<>> /\ s = Head(waiting) /\ Remaining # 0
        /\ num_scheduled_tokens' = [num_scheduled_tokens EXCEPT ![s] = sched]
        /\ num_batched_tokens' = num_batched_tokens + sched
        /\ scheduled' = Append(scheduled, s)
        /\ UNCHANGED <<phase, is_prefill, at, token_ids, requestVars>>
        /\ \/ /\ cached + sched = num_tokens(s)
              /\ status' = [status EXCEPT ![s] = "RUNNING"]
              /\ waiting' = Tail(waiting)
              /\ running' = Append(running, s)
           \/ /\ cached + sched # num_tokens(s)
              /\ UNCHANGED <<status, waiting, running>>
    BY DEF PrefillTurn, Take, queueVars
  <1>2. waiting \in Seq(Seqs) /\ running \in Seq(Seqs) /\ scheduled \in Seq(Seqs)
    BY DEF SchedulerTypeOK
  <1>3. /\ s \in Range(waiting) /\ s \in Seqs /\ status[s] = "WAITING"
        /\ Tail(waiting) \in Seq(Seqs) /\ IsInjective(Tail(waiting))
        /\ Range(Tail(waiting)) = Range(waiting) \ {s}
    BY <1>1, <1>2, QueueTail DEF QueuesInv
  <1>4. /\ Append(running, s) \in Seq(Seqs) /\ IsInjective(Append(running, s))
        /\ Range(Append(running, s)) = Range(running) \cup {s}
    <2>1. s \notin Range(running)
      BY <1>3 DEF QueuesInv
    <2> QED BY <1>2, <1>3, <2>1, QueueAppend DEF QueuesInv
  <1>5. /\ Remaining \in Nat \ {0} /\ MaxNumBatchedTokens \in Nat /\ num_batched_tokens \in Nat
        /\ Remaining = MaxNumBatchedTokens - num_batched_tokens
    BY <1>1, SchedulerAssumption DEF Remaining, SchedulerTypeOK, BatchInv
  <1>6. /\ sched \in Nat \ {0} /\ sched <= n
        /\ num_batched_tokens + sched <= MaxNumBatchedTokens
        /\ num_batched_tokens + sched \in Nat
        /\ cached + sched = num_tokens(s) \/ cached + sched < num_tokens(s)
        /\ MaxNumBatchedTokens - (num_batched_tokens + sched) # 0 => cached + sched = num_tokens(s)
    BY <1>5
  <1> HIDE DEF sched
  <1>7. SequenceTypeOK'
    BY <1>1, <1>3, <1>6 DEF SequenceTypeOK, requestVars
  <1>8. OpenSeqs = Range(scheduled) /\ OpenSeqs' = Range(scheduled')
    BY <1>1 DEF OpenSeqs, Range
  <1>9. s \notin Range(scheduled)
    BY <1>1, <1>3, <1>8 DEF BatchInv
  <1>10. /\ scheduled' \in Seq(Seqs) /\ Range(scheduled') = Range(scheduled) \cup {s}
         /\ IsInjective(scheduled')
    BY <1>1, <1>2, <1>3, <1>9, QueueAppend DEF BatchInv
  <1>11. SchedulerTypeOK'
    BY <1>1, <1>2, <1>3, <1>4, <1>6, <1>10 DEF SchedulerTypeOK
  <1>12. \A t \in Seqs : num_scheduled_tokens'[t] = IF t = s THEN sched ELSE num_scheduled_tokens[t]
    BY <1>1 DEF SequenceTypeOK
  <1>13. \A t \in Seqs \ {s} : status'[t] = status[t]
    BY <1>1 DEF SequenceTypeOK
  <1>14. \/ status'[s] = "RUNNING" /\ cached + sched = num_tokens(s)
         \/ status'[s] = "WAITING" /\ cached + sched < num_tokens(s)
    BY <1>1, <1>3, <1>6 DEF SequenceTypeOK
  <1>17. /\ num_cached_tokens'[s] = cached
         /\ \A t \in Seqs \ {s} : num_cached_tokens'[t] = num_cached_tokens[t]
    BY <1>3 DEF SequenceTypeOK
  <1>15. QueuesInv'
    <2>1. Range(waiting) \subseteq Seqs /\ Range(running) \subseteq Seqs
      BY <1>2, RangeMembers
    <2>2. CASE cached + sched = num_tokens(s)
      <3>1. status'[s] = "RUNNING" /\ waiting' = Tail(waiting) /\ running' = Append(running, s)
        BY <2>2, <1>1, <1>3 DEF SequenceTypeOK
      <3> QED BY <3>1, <2>1, <1>3, <1>4, <1>13 DEF QueuesInv
    <2>3. CASE cached + sched # num_tokens(s)
      BY <2>3, <1>1 DEF QueuesInv
    <2> QED BY <2>2, <2>3
  <1>16. BatchInv'
    <2>1. InBatch(s)'
      <3>1. End(s)' = cached + sched /\ num_tokens(s)' = num_tokens(s) /\ ~ Decoding'
        BY <1>1, <1>3, <1>12, <1>17 DEF End, num_tokens, Decoding
      <3>2. num_tokens(s)' <= Len(block_table'[s]) * BlockSize
        BY <3>1
      <3> QED BY <1>3, <1>6, <1>12, <1>14, <3>1, <3>2 DEF InBatch
    <2>4. ASSUME NEW t \in OpenSeqs', t # s PROVE InBatch(t)'
      <3>1. t \in OpenSeqs /\ t \in Seqs /\ Decoding' = Decoding
        BY <2>4, <1>1, <1>2, <1>8, <1>10, RangeMembers DEF Decoding
      <3> QED BY <2>4, <3>1, <1>1, <1>12, <1>13, <1>17, InBatchSame DEF BatchInv
    <2>2. ASSUME Remaining' # 0, NEW t \in OpenSeqs' PROVE status'[t] = "RUNNING"
      <3>1. status'[s] = "RUNNING"
        BY <2>2, <1>1, <1>6, <1>14 DEF Remaining
      <3>2. t # s => t \in OpenSeqs /\ t \in Seqs
        BY <2>2, <1>2, <1>8, <1>10, RangeMembers
      <3> QED BY <3>1, <3>2, <1>1, <1>13 DEF BatchInv
    <2>3. num_batched_tokens' <= MaxNumBatchedTokens
      BY <1>1, <1>6
    <2> QED BY <2>1, <2>2, <2>3, <2>4, <1>1, <1>10 DEF BatchInv
  <1> QED BY <1>1, <1>3, <1>6, <1>7, <1>11, <1>12, <1>13, <1>14, <1>15, <1>16, <1>17

LEMMA PrefillAllocateInv ==
  ASSUME CoreInv, NEW s \in Seqs, NEW n \in 0..num_blocks(s) - 1, PrefillAllocate(s, n), UNCHANGED kv
  PROVE  CoreInv'
  <1> DEFINE cached == n * BlockSize
  <1>1. /\ SequenceTypeOK /\ SchedulerTypeOK /\ ModelRunnerTypeOK /\ BlockInv
        /\ PositionsInv /\ QueuesInv /\ BatchInv
    BY CoreParts
  <1>2. /\ PrefillTurn(s) /\ block_table[s] = <<>> /\ PrefixHits(s, n) /\ allocate(s, n)
        /\ Take(s, num_tokens(s) - cached, cached)
    BY DEF PrefillAllocate, HasTable
  <1>3. /\ num_tokens(s) \in Nat /\ num_blocks(s) \in Nat
        /\ num_tokens(s) <= num_blocks(s) * BlockSize
        /\ cached <= num_tokens(s) - 1
    BY <1>1, NumBlocks
  <1>4. cached \in Nat
    BY <1>3, SequenceAssumption DEF SequenceAssumption
  <1>5. /\ num_tokens(s) - cached \in Nat \ {0}
        /\ cached + (num_tokens(s) - cached) = num_tokens(s)
    <2> HIDE DEF cached
    <2> QED BY <1>3, <1>4
  <1>6. /\ BlockInv'
        /\ Len(block_table'[s]) = num_blocks(s)
        /\ \A t \in Seqs \ {s} : block_table'[t] = block_table[t]
        /\ num_cached_tokens' = [num_cached_tokens EXCEPT ![s] = cached]
    BY <1>1, <1>2, AllocateType, AllocateInv DEF BlockInv
  <1>7. num_cached_tokens'[s] = cached
    BY <1>1, <1>6 DEF SequenceTypeOK
  <1>11. num_tokens(s) <= Len(block_table'[s]) * BlockSize
    BY <1>3, <1>6
  <1> HIDE DEF cached
  <1>8. /\ SequenceTypeOK' /\ SchedulerTypeOK' /\ QueuesInv' /\ BatchInv'
        /\ token_ids' = token_ids
        /\ num_scheduled_tokens'[s] \in Nat \ {0}
        /\ \/ status'[s] = "RUNNING" /\ cached + num_scheduled_tokens'[s] = num_tokens(s)
           \/ status'[s] = "WAITING" /\ cached + num_scheduled_tokens'[s] < num_tokens(s)
        /\ \A t \in Seqs \ {s} : /\ status'[t] = status[t]
                                 /\ num_scheduled_tokens'[t] = num_scheduled_tokens[t]
                                 /\ num_cached_tokens'[t] = num_cached_tokens[t]
    BY <1>1, <1>2, <1>4, <1>5, <1>6, <1>11, TakeInv
  <1>9. PositionsInv'
    <2>1. ASSUME NEW t \in Seqs \ {s} PROVE Positioned(t)'
      BY <1>1, <1>6, <1>8, PositionedSame DEF PositionsInv
    <2>2. Positioned(s)'
      <3> DEFINE cover == Len(block_table'[s]) * BlockSize
      <3>1. num_tokens(s)' = num_tokens(s) /\ num_tokens(s) <= cover
        BY <1>8, <1>11 DEF num_tokens
      <3>2. cover \in Int /\ cached < num_tokens(s)
        BY <1>3, <1>5, <1>4, <1>6, SequenceAssumption
      <3> HIDE DEF cover
      <3>3. num_tokens(s)' - 1 <= cover
        BY <3>1, <3>2, <1>3
      <3> QED BY <3>1, <3>2, <3>3, <1>7, <1>8 DEF Positioned, cover
    <2> QED BY <2>1, <2>2 DEF PositionsInv
  <1>10. ModelRunnerTypeOK'
    BY <1>1 DEF ModelRunnerTypeOK
  <1> QED BY <1>6, <1>8, <1>9, <1>10 DEF CoreInv, TypeOK, BlockInv

LEMMA PrefillContinueInv ==
  ASSUME CoreInv, NEW s \in Seqs, PrefillContinue(s), UNCHANGED kv
  PROVE  CoreInv'
  <1> DEFINE cached == num_cached_tokens[s]
  <1>1. /\ SequenceTypeOK /\ SchedulerTypeOK /\ ModelRunnerTypeOK /\ BlockInv
        /\ PositionsInv /\ QueuesInv /\ BatchInv
    BY CoreParts
  <1>2. /\ PrefillTurn(s) /\ block_table[s] # <<>>
        /\ Take(s, num_tokens(s) - cached, cached)
        /\ UNCHANGED <<blockVars, block_table, num_cached_tokens>>
    BY DEF PrefillContinue, HasTable
  <1>3. status[s] = "WAITING"
    <2>1. s \in Range(waiting)
      BY <1>1, <1>2, QueueTail DEF PrefillTurn, QueuesInv, SchedulerTypeOK
    <2> QED BY <2>1, <1>1 DEF QueuesInv
  <1>4. /\ cached \in Nat /\ num_scheduled_tokens[s] \in Nat /\ num_tokens(s) \in Nat
        /\ cached < num_tokens(s)
        /\ num_tokens(s) <= Len(block_table[s]) * BlockSize
    BY <1>1, <1>2, <1>3, NumBlocks DEF SequenceTypeOK, PositionsInv, Positioned
  <1>5. num_cached_tokens' = [num_cached_tokens EXCEPT ![s] = cached]
    BY <1>1, <1>2 DEF SequenceTypeOK
  <1>6. num_tokens(s) - cached \in Nat \ {0} /\ cached + (num_tokens(s) - cached) = num_tokens(s)
    BY <1>4
  <1> HIDE DEF cached
  <1>7. /\ SequenceTypeOK' /\ SchedulerTypeOK' /\ QueuesInv' /\ BatchInv'
        /\ token_ids' = token_ids
        /\ num_scheduled_tokens'[s] \in Nat \ {0}
        /\ \/ status'[s] = "RUNNING" /\ cached + num_scheduled_tokens'[s] = num_tokens(s)
           \/ status'[s] = "WAITING" /\ cached + num_scheduled_tokens'[s] < num_tokens(s)
        /\ \A t \in Seqs \ {s} : /\ status'[t] = status[t]
                                 /\ num_scheduled_tokens'[t] = num_scheduled_tokens[t]
                                 /\ num_cached_tokens'[t] = num_cached_tokens[t]
    BY <1>1, <1>2, <1>4, <1>5, <1>6, TakeInv
  <1>8. BlockInv' /\ ModelRunnerTypeOK'
    BY <1>1, <1>2, BlockInvSame DEF ModelRunnerTypeOK
  <1>9. PositionsInv'
    <2>1. ASSUME NEW t \in Seqs \ {s} PROVE Positioned(t)'
      BY <1>1, <1>2, <1>7, PositionedSame DEF PositionsInv
    <2>2. Positioned(s)'
      <3> DEFINE cover == Len(block_table[s]) * BlockSize
      <3>1. /\ num_tokens(s)' = num_tokens(s) /\ Len(block_table'[s]) * BlockSize = cover
            /\ num_cached_tokens'[s] = cached
        BY <1>2, <1>7 DEF num_tokens, cached
      <3>2. cover \in Int /\ num_tokens(s) <= cover
        <4>1. Len(block_table[s]) \in Nat
          BY <1>1, LenProperties DEF BlockInv, BlockManagerTypeOK
        <4> QED BY <4>1, <1>4, SequenceAssumption
      <3> HIDE DEF cover
      <3>3. num_tokens(s)' - 1 <= cover
        BY <3>1, <3>2, <1>4
      <3> QED BY <3>1, <3>2, <3>3, <1>4, <1>7 DEF Positioned
    <2> QED BY <2>1, <2>2 DEF PositionsInv
  <1> QED BY <1>7, <1>8, <1>9 DEF CoreInv, TypeOK, BlockInv

\* A table of T blocks of d that covers n - 1 tokens covers n, unless the n-th
\* token is the first of its block.
LEMMA CoverNext ==
  ASSUME NEW n \in Nat \ {0}, NEW T \in Nat, NEW d \in Nat \ {0, 1},
         n - 1 <= T * d, n % d # 1
  PROVE  n <= T * d
  <1> DEFINE c == T * d
             q == n \div d
             r == q * d
  <1>1. q \in Nat /\ r \in Nat /\ r <= n /\ n < r + d /\ n % d = n - r
    BY DivFacts
  <1>2. c \in Nat /\ n - 1 <= c
    OBVIOUS
  <1>3. SUFFICES ASSUME n = c + 1 PROVE FALSE
    <2> HIDE DEF c
    <2> QED BY <1>2
  <1>4. c < r + d /\ r < c + d
    <2> HIDE DEF c, r
    <2> QED BY <1>1, <1>2, <1>3
  <1>5. q = T
    <2>1. T <= q /\ q <= T
      <3> HIDE DEF q
      <3> QED BY <1>1, <1>4, MulCancel
    <2> QED BY <2>1, <1>1
  <1>6. n % d = 1
    <2>1. r = c
      BY <1>5
    <2> HIDE DEF c, r
    <2> QED BY <2>1, <1>1, <1>2, <1>3
  <1> QED BY <1>6

\* In the decode loop the head and the back of running await their turn: they are not
\* in the batch, and have blocks for all but their last token.
LEMMA DecodeTurnFacts ==
  ASSUME CoreInv, phase = "decode", NEW s \in Range(running)
  PROVE  /\ s \in Seqs /\ s \notin Range(scheduled) /\ s \notin Range(waiting)
         /\ status[s] = "RUNNING"
         /\ num_cached_tokens[s] \in Nat /\ num_tokens(s) \in Nat \ {0}
         /\ num_cached_tokens[s] < num_tokens(s)
         /\ block_table[s] \in Seq(Blocks) /\ Len(block_table[s]) \in Nat
         /\ num_tokens(s) - 1 <= Len(block_table[s]) * BlockSize
  <1>1. /\ SequenceTypeOK /\ SchedulerTypeOK /\ ModelRunnerTypeOK /\ BlockInv
        /\ PositionsInv /\ QueuesInv /\ BatchInv
    BY CoreParts
  <1>2. s \in Seqs
    BY <1>1, RangeMembers DEF SchedulerTypeOK
  <1>3. status[s] = "RUNNING" /\ s \notin Range(scheduled) /\ s \notin Range(waiting)
    BY <1>1 DEF QueuesInv, BatchInv
  <1>4. num_cached_tokens[s] \in Nat /\ num_tokens(s) \in Nat
    BY <1>1, <1>2, NumBlocks DEF SequenceTypeOK
  <1>5. block_table[s] \in Seq(Blocks) /\ Len(block_table[s]) \in Nat
    BY <1>1, <1>2, LenProperties DEF BlockInv, BlockManagerTypeOK
  <1>6. /\ num_cached_tokens[s] < num_tokens(s)
        /\ num_tokens(s) - 1 <= Len(block_table[s]) * BlockSize
    BY <1>1, <1>2, <1>3 DEF PositionsInv, Positioned
  <1>7. num_tokens(s) \in Nat \ {0}
    BY <1>4, <1>6
  <1> QED BY <1>2, <1>3, <1>4, <1>5, <1>6, <1>7

LEMMA DecodeTakeInv ==
  ASSUME CoreInv, NEW s \in Seqs, DecodeTake(s), UNCHANGED kv
  PROVE  CoreInv'
  <1>1. /\ SequenceTypeOK /\ SchedulerTypeOK /\ ModelRunnerTypeOK /\ BlockInv
        /\ PositionsInv /\ QueuesInv /\ BatchInv
    BY CoreParts
  <1>2. /\ phase = "decode" /\ running # <<>> /\ s = Head(running)
        /\ num_scheduled_tokens' = [num_scheduled_tokens EXCEPT ![s] = 1]
        /\ may_append(s)
        /\ running' = Tail(running) /\ scheduled' = Append(scheduled, s)
        /\ UNCHANGED <<waiting, phase, num_batched_tokens, is_prefill, at,
                       status, token_ids, num_cached_tokens, requestVars, kv>>
    BY DEF DecodeTake, DecodeTurn
  <1>3. running \in Seq(Seqs) /\ scheduled \in Seq(Seqs) /\ waiting \in Seq(Seqs)
    BY <1>1 DEF SchedulerTypeOK
  <1>4. /\ s \in Range(running) /\ running' \in Seq(Seqs) /\ IsInjective(running')
        /\ Range(running') = Range(running) \ {s}
    BY <1>1, <1>2, <1>3, QueueTail DEF QueuesInv
  <1>5. /\ s \notin Range(scheduled) /\ status[s] = "RUNNING"
        /\ num_cached_tokens[s] < num_tokens(s)
        /\ num_cached_tokens[s] \in Nat /\ num_tokens(s) \in Nat \ {0}
        /\ Len(block_table[s]) \in Nat
        /\ num_tokens(s) - 1 <= Len(block_table[s]) * BlockSize
    BY <1>2, <1>4, DecodeTurnFacts
  <1>6. /\ scheduled' \in Seq(Seqs) /\ IsInjective(scheduled')
        /\ Range(scheduled') = Range(scheduled) \cup {s}
    BY <1>1, <1>2, <1>3, <1>5, QueueAppend DEF BatchInv
  <1>7. SequenceTypeOK'
    BY <1>1, <1>2 DEF SequenceTypeOK, requestVars
  <1>8. SchedulerTypeOK' /\ ModelRunnerTypeOK'
    BY <1>1, <1>2, <1>4, <1>6 DEF SchedulerTypeOK, ModelRunnerTypeOK
  <1>9. /\ BlockInv'
        /\ Len(block_table'[s]) = Len(block_table[s]) + IF NeedsBlock(s) THEN 1 ELSE 0
        /\ \A t \in Seqs \ {s} : block_table'[t] = block_table[t]
    BY <1>1, <1>2, MayAppendType, MayAppendInv DEF BlockInv
  <1>10. \A t \in Seqs : num_scheduled_tokens'[t] = IF t = s THEN 1 ELSE num_scheduled_tokens[t]
    BY <1>1, <1>2 DEF SequenceTypeOK
  <1>11. num_tokens(s) <= Len(block_table'[s]) * BlockSize
    <2>1. BlockSize \in Nat \ {0, 1}
      BY SequenceAssumption DEF SequenceAssumption
    <2>2. CASE NeedsBlock(s)
      <3> DEFINE c == Len(block_table[s]) * BlockSize
      <3>1. Len(block_table'[s]) * BlockSize = c + BlockSize
        BY <2>1, <2>2, <1>5, <1>9
      <3>2. c \in Nat /\ num_tokens(s) - 1 <= c
        BY <2>1, <1>5
      <3> HIDE DEF c
      <3> QED BY <2>1, <3>1, <3>2, <1>5
    <2>3. CASE ~ NeedsBlock(s)
      <3>1. Len(block_table'[s]) = Len(block_table[s])
        BY <2>3, <1>5, <1>9
      <3>2. num_tokens(s) - 1 <= Len(block_table[s]) * BlockSize /\ num_tokens(s) % BlockSize # 1
        BY <2>3, <1>5 DEF NeedsBlock
      <3>3. num_tokens(s) <= Len(block_table[s]) * BlockSize
        BY <2>1, <3>2, <1>5, CoverNext
      <3> QED BY <3>1, <3>3
    <2> QED BY <2>2, <2>3
  <1>12. PositionsInv'
    <2>1. ASSUME NEW t \in Seqs \ {s} PROVE Positioned(t)'
      BY <1>1, <1>2, <1>9, <1>10, PositionedSame DEF PositionsInv
    <2>2. Positioned(s)'
      <3> DEFINE cover == Len(block_table'[s]) * BlockSize
      <3>1. num_tokens(s)' = num_tokens(s) /\ num_cached_tokens'[s] < num_tokens(s)' /\ status'[s] = "RUNNING"
        BY <1>2, <1>5 DEF num_tokens
      <3>2. num_tokens(s) <= cover /\ cover \in Int
        <4>1. Len(block_table'[s]) \in Nat
          BY <1>9, LenProperties DEF BlockInv, BlockManagerTypeOK
        <4> QED BY <4>1, <1>11, SequenceAssumption
      <3> HIDE DEF cover
      <3>3. num_tokens(s)' - 1 <= cover
        BY <3>1, <3>2, <1>5
      <3> QED BY <3>1, <3>3 DEF Positioned, cover
    <2> QED BY <2>1, <2>2 DEF PositionsInv
  <1>13. QueuesInv'
    BY <1>1, <1>2, <1>4 DEF QueuesInv
  <1>14. BatchInv'
    <2>1. OpenSeqs = Range(scheduled) /\ OpenSeqs' = Range(scheduled')
      BY <1>2 DEF OpenSeqs, Range
    <2>2. InBatch(s)'
      <3>1. /\ End(s)' = num_cached_tokens[s] + 1 /\ num_tokens(s)' = num_tokens(s)
            /\ num_scheduled_tokens'[s] = 1 /\ status'[s] = "RUNNING" /\ Decoding'
        BY <1>2, <1>5, <1>10 DEF End, num_tokens, Decoding
      <3>2. End(s)' <= num_tokens(s)'
        BY <3>1, <1>5
      <3> QED BY <3>1, <3>2, <1>11 DEF InBatch
    <2>3. ASSUME NEW t \in OpenSeqs', t # s PROVE InBatch(t)'
      <3>1. t \in OpenSeqs /\ t \in Seqs /\ Decoding' = Decoding
        BY <2>3, <2>1, <1>1, <1>2, <1>6, OpenIsSeq DEF Decoding
      <3> QED BY <2>3, <3>1, <1>1, <1>2, <1>9, <1>10, InBatchSame DEF BatchInv
    <2>4. Range(running') \cap Range(scheduled') = {}
      BY <1>1, <1>2, <1>4, <1>6 DEF BatchInv
    <2> QED BY <1>1, <1>2, <1>6, <2>2, <2>3, <2>4 DEF BatchInv
  <1> QED BY <1>7, <1>8, <1>9, <1>12, <1>13, <1>14 DEF CoreInv, TypeOK, BlockInv

LEMMA DecodePreemptInv ==
  ASSUME CoreInv, NEW s \in Seqs, DecodePreempt(s), UNCHANGED kv
  PROVE  CoreInv'
  <1>1. /\ SequenceTypeOK /\ SchedulerTypeOK /\ ModelRunnerTypeOK /\ BlockInv
        /\ PositionsInv /\ QueuesInv /\ BatchInv
    BY CoreParts
  <1>2. /\ phase = "decode" /\ running # <<>> /\ running' = Front(running)
        /\ status' = [status EXCEPT ![Last(running)] = "WAITING"]
        /\ release(Last(running)) /\ waiting' = <<Last(running)>> \o waiting
        /\ UNCHANGED <<hash, block_tokens, hash_to_block_id, token_ids,
                       num_scheduled_tokens, requestVars, phase, batchVars, kv>>
    BY DEF DecodePreempt, DecodeTurn, preempt, deallocate
  <1>3. running \in Seq(Seqs) /\ waiting \in Seq(Seqs)
    BY <1>1 DEF SchedulerTypeOK
  <1>0. PICK v \in Seqs : v = Last(running)
    BY <1>1, <1>2, <1>3, QueueFront DEF QueuesInv
  <1>4. /\ v = Last(running) /\ v \in Range(running) /\ running' \in Seq(Seqs) /\ IsInjective(running')
        /\ Range(running') = Range(running) \ {v}
    BY <1>1, <1>2, <1>3, <1>0, QueueFront DEF QueuesInv
  <1>5. /\ v \in Seqs /\ v \notin Range(waiting)
        /\ num_tokens(v) \in Nat \ {0}
    BY <1>2, <1>4, DecodeTurnFacts
  <1>6. /\ waiting' \in Seq(Seqs) /\ IsInjective(waiting')
        /\ Range(waiting') = {v} \cup Range(waiting)
    BY <1>1, <1>2, <1>3, <1>4, <1>5, QueuePush DEF QueuesInv
  <1>7. /\ BlockInv' /\ block_table'[v] = <<>>
        /\ \A t \in Seqs \ {v} : block_table'[t] = block_table[t]
    BY <1>1, <1>2, <1>4, <1>5, ReleaseInv DEF BlockInv, BlockManagerTypeOK
  <1>8. num_cached_tokens' = [num_cached_tokens EXCEPT ![v] = 0]
    BY <1>2, <1>4 DEF release
  <1>9. SequenceTypeOK'
    BY <1>1, <1>2, <1>4, <1>5, <1>8 DEF SequenceTypeOK, requestVars
  <1>10. SchedulerTypeOK' /\ ModelRunnerTypeOK'
    BY <1>1, <1>2, <1>4, <1>6 DEF SchedulerTypeOK, ModelRunnerTypeOK, batchVars
  <1>11. /\ \A t \in Seqs : status'[t] = IF t = v THEN "WAITING" ELSE status[t]
         /\ \A t \in Seqs : num_cached_tokens'[t] = IF t = v THEN 0 ELSE num_cached_tokens[t]
    BY <1>1, <1>2, <1>4, <1>8 DEF SequenceTypeOK
  <1>12. PositionsInv'
    <2>1. ASSUME NEW t \in Seqs \ {v} PROVE Positioned(t)'
      BY <1>1, <1>2, <1>7, <1>11, PositionedSame DEF PositionsInv
    <2>2. Positioned(v)'
      <3>1. /\ num_tokens(v)' = num_tokens(v)
            /\ status'[v] = "WAITING" /\ num_cached_tokens'[v] = 0
            /\ block_table'[v] = <<>>
        BY <1>2, <1>5, <1>7, <1>11 DEF num_tokens
      <3> QED BY <3>1, <1>5 DEF Positioned
    <2> QED BY <2>1, <2>2, <1>5 DEF PositionsInv
  <1>13. QueuesInv'
    <2>1. Range(waiting) \subseteq Seqs /\ Range(running) \subseteq Seqs
      BY <1>3, RangeMembers
    <2> QED BY <1>1, <1>4, <1>5, <1>6, <1>11, <2>1 DEF QueuesInv
  <1>14. BatchInv'
    <2>1. OpenSeqs = Range(scheduled) /\ OpenSeqs' = OpenSeqs
      BY <1>2 DEF OpenSeqs, Range, batchVars
    <2>2. v \notin OpenSeqs /\ OpenSeqs \subseteq Seqs
      BY <1>1, <1>2, <1>4, <2>1, RangeMembers DEF BatchInv, SchedulerTypeOK
    <2>3. \A t \in OpenSeqs' : InBatch(t)'
      <3>1. Decoding' = Decoding
        BY <1>2 DEF Decoding, batchVars
      <3> QED BY <1>1, <1>2, <1>7, <1>11, <2>1, <2>2, <3>1, InBatchSame DEF BatchInv
    <2>4. Range(running') \cap Range(scheduled') = {}
      BY <1>1, <1>2, <1>4 DEF BatchInv, batchVars
    <2> QED BY <1>1, <1>2, <2>1, <2>3, <2>4 DEF BatchInv, batchVars
  <1> QED BY <1>7, <1>9, <1>10, <1>12, <1>13, <1>14 DEF CoreInv, TypeOK, BlockInv

\* What every iteration of postprocess does to the batch.
LEMMA PostTurnFacts ==
  ASSUME CoreInv, NEW s, PostTurn(s)
  PROVE  /\ phase = "post" /\ s \in Seqs
         /\ num_cached_tokens[s] \in Nat /\ num_tokens(s) \in Nat \ {0}
         /\ num_scheduled_tokens[s] \in Nat \ {0}
         /\ CachedAfter(s) \in Nat /\ CachedAfter(s) <= num_tokens(s)
         /\ CachedAfter(s) <= Len(block_table[s]) * BlockSize
         /\ num_tokens(s) <= Len(block_table[s]) * BlockSize
         /\ \/ status[s] = "WAITING" /\ is_prefill /\ CachedAfter(s) < num_tokens(s)
            \/ status[s] = "RUNNING" /\ (is_prefill => CachedAfter(s) = num_tokens(s))
         /\ num_scheduled_tokens' \in [Seqs -> Nat]
         /\ \A t \in Seqs : num_scheduled_tokens'[t] = IF t = s THEN 0 ELSE num_scheduled_tokens[t]
         /\ OpenSeqs' = OpenSeqs \ {s} /\ s \in OpenSeqs
         /\ waiting' \in Seq(Seqs) /\ running' \in Seq(Seqs) => SchedulerTypeOK'
  <1>1. /\ SequenceTypeOK /\ SchedulerTypeOK /\ PositionsInv /\ QueuesInv /\ BatchInv
    BY CoreParts
  <1>2. /\ phase = "post" /\ s = scheduled[at]
        /\ num_scheduled_tokens' = [num_scheduled_tokens EXCEPT ![s] = 0]
        /\ is_prefill' = is_prefill
        /\ at = Len(scheduled) =>
             phase' = "idle" /\ at' = 1 /\ scheduled' = <<>> /\ num_batched_tokens' = 0
        /\ at # Len(scheduled) =>
             /\ phase' = "post" /\ at' = at + 1
             /\ scheduled' = scheduled /\ num_batched_tokens' = num_batched_tokens
    BY DEF PostTurn, AdvancePost
  <1>3. /\ scheduled \in Seq(Seqs) /\ at \in 1..Len(scheduled) /\ Len(scheduled) \in Nat
        /\ DOMAIN scheduled = 1..Len(scheduled)
    BY <1>1, <1>2, LenProperties DEF SchedulerTypeOK, BatchInv
  <1>4. s \in Seqs
    BY <1>2, <1>3, ElementOfSeq
  <1>5. OpenSeqs = {scheduled[i] : i \in at..Len(scheduled)}
    <2>1. \A j : j \in DOMAIN scheduled /\ j >= at <=> j \in at..Len(scheduled)
      BY <1>3
    <2> QED BY <2>1, <1>2 DEF OpenSeqs
  <1>6. s \in OpenSeqs
    <2>1. at \in at..Len(scheduled)
      BY <1>3
    <2> QED BY <2>1, <1>2, <1>5
  <1>7. /\ num_cached_tokens[s] \in Nat /\ num_tokens(s) \in Nat
        /\ num_scheduled_tokens[s] \in Nat \ {0}
    <2>1. num_cached_tokens[s] \in Nat /\ num_scheduled_tokens[s] \in Nat
      BY <1>1, <1>4 DEF SequenceTypeOK
    <2>2. num_scheduled_tokens[s] > 0
      BY <1>1, <1>4, <1>6 DEF BatchInv, InBatch
    <2>3. num_tokens(s) \in Nat
      BY <1>1, <1>4, NumBlocks
    <2> QED BY <2>1, <2>2, <2>3
  <1>8. /\ CachedAfter(s) \in Nat /\ CachedAfter(s) > 0
        /\ CachedAfter(s) = End(s)
    BY <1>7 DEF CachedAfter, End
  <1>9. InBatch(s) /\ (Decoding <=> ~ is_prefill)
    BY <1>1, <1>2, <1>6 DEF BatchInv, Decoding
  <1>10. CachedAfter(s) <= num_tokens(s) /\ num_tokens(s) <= Len(block_table[s]) * BlockSize
    BY <1>8, <1>9 DEF InBatch
  <1>11. CachedAfter(s) <= Len(block_table[s]) * BlockSize
    <2> DEFINE cover == Len(block_table[s]) * BlockSize
    <2>1. cover \in Int
      <3>1. Len(block_table[s]) \in Nat
        BY <1>4, CoreParts, LenProperties DEF BlockInv, BlockManagerTypeOK
      <3> QED BY <3>1, SequenceAssumption
    <2> HIDE DEF cover
    <2>2. num_tokens(s) <= cover
      BY <1>10 DEF cover
    <2>3. CachedAfter(s) <= cover
      BY <2>1, <2>2, <1>7, <1>8, <1>10
    <2> QED BY <2>3 DEF cover
  <1>12. \/ status[s] = "WAITING" /\ is_prefill /\ CachedAfter(s) < num_tokens(s)
         \/ status[s] = "RUNNING" /\ (is_prefill => CachedAfter(s) = num_tokens(s))
    BY <1>8, <1>9 DEF InBatch
  <1>13. /\ num_scheduled_tokens' \in [Seqs -> Nat]
         /\ \A t \in Seqs : num_scheduled_tokens'[t] = IF t = s THEN 0 ELSE num_scheduled_tokens[t]
    BY <1>1, <1>2 DEF SequenceTypeOK
  <1>14. waiting' \in Seq(Seqs) /\ running' \in Seq(Seqs) => SchedulerTypeOK'
    <2>1. at' \in Nat
      <3>1. at + 1 \in Nat /\ 1 \in Nat
        BY <1>3
      <3> QED BY <3>1, <1>2
    <2>2. phase' \in Phases
      BY <1>2 DEF Phases
    <2>3. num_batched_tokens' \in Nat /\ scheduled' \in Seq(Seqs)
      <3>1. num_batched_tokens \in Nat /\ 0 \in Nat /\ <<>> \in Seq(Seqs)
        BY <1>1 DEF SchedulerTypeOK
      <3> QED BY <3>1, <1>2, <1>3
    <2> QED BY <2>1, <2>2, <2>3, <1>1, <1>2 DEF SchedulerTypeOK
  <1>15. OpenSeqs' = OpenSeqs \ {s}
    <2>1. CASE at = Len(scheduled)
      <3>1. OpenSeqs' = {}
        BY <2>1, <1>2 DEF OpenSeqs
      <3>2. \A i \in at..Len(scheduled) : i = at
        BY <2>1, <1>3
      <3> QED BY <3>1, <3>2, <1>2, <1>5
    <2>2. CASE at # Len(scheduled)
      <3>1. \A j : j \in DOMAIN scheduled /\ j >= at + 1 <=> j \in at + 1..Len(scheduled)
        BY <1>3
      <3>2. OpenSeqs' = {scheduled[i] : i \in at + 1..Len(scheduled)}
        BY <2>2, <3>1, <1>2 DEF OpenSeqs
      <3>3. \A i \in at + 1..Len(scheduled) : i \in at..Len(scheduled) /\ scheduled[i] # s
        <4>1. \A i, j \in 1..Len(scheduled) : scheduled[i] = scheduled[j] => i = j
          BY <1>1, <1>3 DEF BatchInv, IsInjective
        <4>2. \A i \in at + 1..Len(scheduled) : /\ i \in 1..Len(scheduled) /\ i # at
                                               /\ i \in at..Len(scheduled)
          BY <1>3
        <4> QED BY <4>1, <4>2, <1>2, <1>3
      <3>4. \A i \in at..Len(scheduled) : i = at \/ i \in at + 1..Len(scheduled)
        BY <1>3
      <3> QED BY <3>2, <3>3, <3>4, <1>2, <1>5
    <2> QED BY <2>1, <2>2
  <1>16. num_tokens(s) \in Nat \ {0}
    BY <1>7, <1>8, <1>10
  <1> QED BY <1>2, <1>4, <1>6, <1>7, <1>8, <1>10, <1>11, <1>12, <1>13, <1>14, <1>15, <1>16

\* ... and the rest of the batch stays as it was.
LEMMA PostBatch ==
  ASSUME CoreInv, NEW s, PostTurn(s),
         \A t \in Seqs \ {s} : /\ status'[t] = status[t] /\ token_ids'[t] = token_ids[t]
                                /\ num_cached_tokens'[t] = num_cached_tokens[t]
                                /\ block_table'[t] = block_table[t]
  PROVE  BatchInv'
  <1>1. SchedulerTypeOK /\ BatchInv
    BY CoreParts
  <1>2. /\ phase = "post" /\ is_prefill' = is_prefill
        /\ \/ /\ at = Len(scheduled) /\ phase' = "idle" /\ at' = 1
              /\ scheduled' = <<>> /\ num_batched_tokens' = 0
           \/ /\ at # Len(scheduled) /\ phase' = "post" /\ at' = at + 1
              /\ scheduled' = scheduled /\ num_batched_tokens' = num_batched_tokens
    BY DEF PostTurn, AdvancePost
  <1>3. /\ scheduled \in Seq(Seqs) /\ at \in 1..Len(scheduled) /\ Len(scheduled) \in Nat
        /\ DOMAIN scheduled = 1..Len(scheduled)
    BY <1>1, <1>2, LenProperties DEF SchedulerTypeOK, BatchInv
  <1>4. /\ OpenSeqs' = OpenSeqs \ {s} /\ OpenSeqs \subseteq Seqs
        /\ \A t \in Seqs \ {s} : num_scheduled_tokens'[t] = num_scheduled_tokens[t]
    BY <1>1, PostTurnFacts, OpenIsSeq
  <1>5. CASE phase' = "idle"
    <2>1. scheduled' = <<>> /\ IsInjective(<<>>) /\ OpenSeqs' = {} /\ at' = 1 /\ num_batched_tokens' = 0
      BY <1>2, <1>5 DEF IsInjective, OpenSeqs
    <2> QED BY <1>5, <2>1, SchedulerAssumption DEF BatchInv
  <1>6. CASE phase' = "post"
    <2>1. scheduled' = scheduled /\ at' = at + 1 /\ num_batched_tokens' = num_batched_tokens
          /\ at # Len(scheduled)
      BY <1>2, <1>6
    <2>2. at' \in DOMAIN scheduled'
      <3> DEFINE len == Len(scheduled)
      <3>1. at \in 1..len /\ len \in Nat /\ at # len
        BY <2>1, <1>3
      <3> HIDE DEF len
      <3>2. at + 1 \in 1..len
        BY <3>1
      <3> QED BY <3>2, <2>1, <1>3 DEF len
    <2>3. Decoding' = Decoding
      BY <1>2, <1>6 DEF Decoding
    <2>4. \A t \in OpenSeqs' : InBatch(t)'
      BY <1>1, <1>4, <2>3, InBatchSame DEF BatchInv
    <2> QED BY <1>1, <1>2, <1>6, <2>1, <2>2, <2>4 DEF BatchInv
  <1> QED BY <1>2, <1>5, <1>6

\* hash_blocks in postprocess.
LEMMA PostHashType ==
  ASSUME CoreInv, NEW s, PostTurn(s), hash_blocks(s)
  PROVE  /\ hash' \in [Blocks -> Seq(Nat)]
         /\ block_tokens' \in [Blocks -> Seq(Nat)]
         /\ DOMAIN hash_to_block_id' \subseteq Seq(Nat)
         /\ hash_to_block_id' \in [DOMAIN hash_to_block_id' -> Blocks]
  <1>1. SequenceTypeOK /\ BlockManagerTypeOK
    BY CoreParts DEF BlockInv
  <1>2. /\ s \in Seqs
        /\ num_cached_tokens[s] + num_scheduled_tokens[s] <= num_tokens(s)
        /\ num_cached_tokens[s] + num_scheduled_tokens[s] <= Len(block_table[s]) * BlockSize
    BY PostTurnFacts DEF CachedAfter
  <1> QED BY <1>1, <1>2, HashBlocksType

\* Hashing does not move blocks.
LEMMA BlockInvHashed ==
  ASSUME BlockInv, UNCHANGED <<block_table, ref_count, free_block_ids, used_block_ids>>,
         hash' \in [Blocks -> Seq(Nat)],
         block_tokens' \in [Blocks -> Seq(Nat)],
         DOMAIN hash_to_block_id' \subseteq Seq(Nat),
         hash_to_block_id' \in [DOMAIN hash_to_block_id' -> Blocks]
  PROVE  BlockInv'
  BY DEF BlockInv, BlockManagerTypeOK, RefCountsMatch, Holders, Positions, PoolPartition

LEMMA PostPartialPrefillInv ==
  ASSUME CoreInv, NEW s \in Seqs, PostPartialPrefill(s), UNCHANGED kv
  PROVE  CoreInv'
  <1>1. /\ SequenceTypeOK /\ SchedulerTypeOK /\ ModelRunnerTypeOK /\ BlockInv
        /\ PositionsInv /\ QueuesInv /\ BatchInv
    BY CoreParts
  <1>2. /\ PostTurn(s) /\ CachedAfter(s) < num_tokens(s) /\ hash_blocks(s)
        /\ num_cached_tokens' = [num_cached_tokens EXCEPT ![s] = CachedAfter(s)]
        /\ UNCHANGED <<ref_count, free_block_ids, used_block_ids, waiting, running,
                       status, token_ids, block_table, requestVars, kv>>
    BY DEF PostPartialPrefill, queueVars
  <1>3. is_prefill
    BY DEF PostPartialPrefill
  <1>4. /\ CachedAfter(s) \in Nat /\ num_tokens(s) \in Nat
        /\ status[s] = "WAITING" /\ num_tokens(s) <= Len(block_table[s]) * BlockSize
        /\ num_scheduled_tokens' \in [Seqs -> Nat]
        /\ waiting' \in Seq(Seqs) /\ running' \in Seq(Seqs) => SchedulerTypeOK'
    BY <1>2, <1>3, PostTurnFacts
  <1>5. SequenceTypeOK'
    BY <1>1, <1>2, <1>4 DEF SequenceTypeOK, requestVars
  <1>6. SchedulerTypeOK' /\ ModelRunnerTypeOK'
    BY <1>1, <1>2, <1>4 DEF SchedulerTypeOK, ModelRunnerTypeOK
  <1>7. BlockInv'
    BY <1>1, <1>2, PostHashType, BlockInvHashed
  <1>8. \A t \in Seqs : num_cached_tokens'[t] = IF t = s THEN CachedAfter(s) ELSE num_cached_tokens[t]
    BY <1>1, <1>2 DEF SequenceTypeOK
  <1>9. PositionsInv'
    <2>1. ASSUME NEW t \in Seqs \ {s} PROVE Positioned(t)'
      BY <1>1, <1>2, <1>8, PositionedSame DEF PositionsInv
    <2>2. Positioned(s)'
      BY <1>2, <1>4, <1>8 DEF Positioned, num_tokens
    <2> QED BY <2>1, <2>2 DEF PositionsInv
  <1>10. QueuesInv'
    BY <1>1, <1>2 DEF QueuesInv
  <1>11. BatchInv'
    BY <1>2, <1>8, PostBatch
  <1> QED BY <1>5, <1>6, <1>7, <1>9, <1>10, <1>11 DEF CoreInv, TypeOK, BlockInv

LEMMA PostAppendInv ==
  ASSUME CoreInv, NEW s \in Seqs, NEW tok \in Tokens, PostAppend(s, tok), UNCHANGED kv
  PROVE  CoreInv'
  <1>1. /\ SequenceTypeOK /\ SchedulerTypeOK /\ ModelRunnerTypeOK /\ BlockInv
        /\ PositionsInv /\ QueuesInv /\ BatchInv
    BY CoreParts
  <1>2. /\ PostTurn(s) /\ ~ (is_prefill /\ CachedAfter(s) < num_tokens(s)) /\ hash_blocks(s)
        /\ token_ids' = [token_ids EXCEPT ![s] = Append(token_ids[s], tok)]
        /\ num_cached_tokens' = [num_cached_tokens EXCEPT ![s] = CachedAfter(s)]
        /\ UNCHANGED <<ref_count, free_block_ids, used_block_ids, waiting, running,
                       status, block_table, requestVars, kv>>
    BY DEF PostAppend, append_token, queueVars
  <1>4. /\ CachedAfter(s) \in Nat /\ num_tokens(s) \in Nat \ {0}
        /\ num_tokens(s) <= Len(block_table[s]) * BlockSize
        /\ status[s] = "RUNNING" /\ CachedAfter(s) <= num_tokens(s)
        /\ num_scheduled_tokens' \in [Seqs -> Nat]
        /\ waiting' \in Seq(Seqs) /\ running' \in Seq(Seqs) => SchedulerTypeOK'
    BY <1>2, PostTurnFacts
  <1>5. /\ Append(token_ids[s], tok) \in Seq(Tokens)
        /\ Len(Append(token_ids[s], tok)) = num_tokens(s) + 1
    BY <1>1, AppendProperties DEF SequenceTypeOK, num_tokens
  <1>6. SequenceTypeOK'
    BY <1>1, <1>2, <1>4, <1>5 DEF SequenceTypeOK, requestVars
  <1>7. SchedulerTypeOK' /\ ModelRunnerTypeOK'
    BY <1>1, <1>2, <1>4 DEF SchedulerTypeOK, ModelRunnerTypeOK
  <1>8. BlockInv'
    BY <1>1, <1>2, PostHashType, BlockInvHashed
  <1>3. /\ \A t \in Seqs : num_cached_tokens'[t] = IF t = s THEN CachedAfter(s) ELSE num_cached_tokens[t]
        /\ \A t \in Seqs : token_ids'[t] = IF t = s THEN Append(token_ids[s], tok) ELSE token_ids[t]
    BY <1>1, <1>2 DEF SequenceTypeOK
  <1>9. PositionsInv'
    <2>1. ASSUME NEW t \in Seqs \ {s} PROVE Positioned(t)'
      BY <1>1, <1>2, <1>3, PositionedSame DEF PositionsInv
    <2>2. Positioned(s)'
      <3> DEFINE cover == Len(block_table[s]) * BlockSize
      <3>1. /\ num_tokens(s)' = num_tokens(s) + 1 /\ num_cached_tokens'[s] = CachedAfter(s)
            /\ status'[s] = "RUNNING" /\ Len(block_table'[s]) * BlockSize = cover
            /\ num_tokens(s) <= cover
        BY <1>2, <1>3, <1>4, <1>5 DEF num_tokens
      <3> HIDE DEF cover
      <3>2. num_cached_tokens'[s] < num_tokens(s)' /\ num_tokens(s)' - 1 <= cover
        BY <3>1, <1>4
      <3> QED BY <3>1, <3>2 DEF Positioned
    <2> QED BY <2>1, <2>2 DEF PositionsInv
  <1>10. QueuesInv'
    BY <1>1, <1>2 DEF QueuesInv
  <1>11. BatchInv'
    BY <1>2, <1>3, PostBatch
  <1> QED BY <1>6, <1>7, <1>8, <1>9, <1>10, <1>11 DEF CoreInv, TypeOK, BlockInv

LEMMA PostFinishInv ==
  ASSUME CoreInv, NEW s \in Seqs, NEW tok \in Tokens, PostFinish(s, tok), UNCHANGED kv
  PROVE  CoreInv'
  <1>1. /\ SequenceTypeOK /\ SchedulerTypeOK /\ ModelRunnerTypeOK /\ BlockInv
        /\ PositionsInv /\ QueuesInv /\ BatchInv
    BY CoreParts
  <1>2. /\ PostTurn(s) /\ ~ (is_prefill /\ CachedAfter(s) < num_tokens(s)) /\ hash_blocks(s)
        /\ token_ids' = [token_ids EXCEPT ![s] = Append(token_ids[s], tok)]
        /\ status' = [status EXCEPT ![s] = "FINISHED"]
        /\ release(s)
        /\ running' = RemoveFirst(running, s)
        /\ UNCHANGED <<waiting, requestVars, kv>>
    BY DEF PostFinish, append_token
  <1>3. \A t \in Seqs : status'[t] = IF t = s THEN "FINISHED" ELSE status[t]
    BY <1>1, <1>2 DEF SequenceTypeOK
  <1>4. /\ status[s] = "RUNNING"
        /\ num_scheduled_tokens' \in [Seqs -> Nat]
        /\ waiting' \in Seq(Seqs) /\ running' \in Seq(Seqs) => SchedulerTypeOK'
    BY <1>2, PostTurnFacts
  <1>5. Append(token_ids[s], tok) \in Seq(Tokens)
    BY <1>1, AppendProperties DEF SequenceTypeOK
  <1>6. num_cached_tokens' = [num_cached_tokens EXCEPT ![s] = 0]
    BY <1>2 DEF release
  <1>7. SequenceTypeOK'
    BY <1>1, <1>2, <1>4, <1>5, <1>6 DEF SequenceTypeOK, requestVars
  <1>8. running \in Seq(Seqs) /\ waiting \in Seq(Seqs) /\ IsInjective(running)
    BY <1>1 DEF SchedulerTypeOK, QueuesInv
  <1>9. /\ running' \in Seq(Seqs) /\ IsInjective(running')
        /\ Range(running') = Range(running) \ {s}
    <2>1. CASE s \in Range(running)
      BY <2>1, <1>2, <1>8, QueueRemoveFirst
    <2>2. CASE s \notin Range(running)
      <3>1. running' = running
        BY <2>2, <1>2, <1>8, RangeMembers DEF RemoveFirst
      <3> QED BY <2>2, <3>1, <1>8
    <2> QED BY <2>1, <2>2
  <1>10. SchedulerTypeOK' /\ ModelRunnerTypeOK'
    BY <1>1, <1>2, <1>4, <1>8, <1>9 DEF ModelRunnerTypeOK
  <1>11. /\ hash' \in [Blocks -> Seq(Nat)]
         /\ block_tokens' \in [Blocks -> Seq(Nat)]
         /\ DOMAIN hash_to_block_id' \subseteq Seq(Nat)
         /\ hash_to_block_id' \in [DOMAIN hash_to_block_id' -> Blocks]
    BY <1>2, PostHashType
  <1>12. /\ BlockInv' /\ block_table'[s] = <<>>
         /\ \A t \in Seqs \ {s} : block_table'[t] = block_table[t]
    BY <1>1, <1>2, <1>11, ReleaseInv
  <1>15. /\ \A t \in Seqs : num_cached_tokens'[t] = IF t = s THEN 0 ELSE num_cached_tokens[t]
         /\ \A t \in Seqs \ {s} : token_ids'[t] = token_ids[t]
    BY <1>1, <1>2, <1>6 DEF SequenceTypeOK
  <1>13. PositionsInv'
    <2>1. ASSUME NEW t \in Seqs \ {s} PROVE Positioned(t)'
      BY <1>1, <1>3, <1>12, <1>15, PositionedSame DEF PositionsInv
    <2>2. Positioned(s)'
      BY <1>3, <1>12, <1>15 DEF Positioned
    <2> QED BY <2>1, <2>2 DEF PositionsInv
  <1>14. QueuesInv'
    <2>1. Range(waiting) \subseteq Seqs /\ Range(running) \subseteq Seqs
      BY <1>8, RangeMembers
    <2>2. s \notin Range(waiting)
      BY <1>1, <1>4 DEF QueuesInv
    <2> QED BY <1>1, <1>2, <1>3, <1>9, <2>1, <2>2 DEF QueuesInv
  <1>16. BatchInv'
    BY <1>2, <1>3, <1>12, <1>15, PostBatch
  <1> QED BY <1>7, <1>10, <1>12, <1>13, <1>14, <1>16 DEF CoreInv, TypeOK, BlockInv

LEMMA StutterInv ==
  ASSUME CoreInv, UNCHANGED vars
  PROVE  CoreInv'
  <1>1. /\ SequenceTypeOK /\ SchedulerTypeOK /\ ModelRunnerTypeOK /\ BlockInv
        /\ PositionsInv /\ QueuesInv /\ BatchInv
    BY CoreParts
  <1>2. UNCHANGED <<sequenceVars, blockVars, queueVars, phase, batchVars, kv>>
    BY DEF vars, schedulerVars
  <1>3. SequenceTypeOK' /\ SchedulerTypeOK' /\ ModelRunnerTypeOK'
    BY <1>1, <1>2 DEF SequenceTypeOK, SchedulerTypeOK, ModelRunnerTypeOK,
                      sequenceVars, requestVars, queueVars, batchVars
  <1>4. BlockInv'
    BY <1>1, <1>2, BlockInvSame DEF sequenceVars
  <1>5. PositionsInv'
    BY <1>1, <1>2, PositionedSame DEF PositionsInv, sequenceVars
  <1>6. QueuesInv' /\ BatchInv'
    <2>1. OpenSeqs' = OpenSeqs /\ Decoding' = Decoding /\ Remaining' = Remaining
      BY <1>2 DEF OpenSeqs, Decoding, Remaining, batchVars
    <2>2. \A t \in OpenSeqs' : InBatch(t)'
      BY <1>1, <1>2, <2>1, InBatchSame, OpenIsSeq DEF BatchInv, sequenceVars
    <2> QED BY <1>1, <1>2, <2>1, <2>2 DEF QueuesInv, BatchInv, sequenceVars, queueVars, batchVars
  <1> QED BY <1>3, <1>4, <1>5, <1>6 DEF CoreInv, TypeOK, BlockInv

LEMMA NextInv == CoreInv /\ [Next]_vars => CoreInv'
  <1> SUFFICES ASSUME CoreInv, [Next]_vars PROVE CoreInv'
    OBVIOUS
  <1>1. CASE AddRequest
    BY <1>1, AddRequestInv DEF AddRequest
  <1>2. CASE (StartStep \/ Retry) /\ UNCHANGED kv
    BY <1>2, EnterScheduleInv
  <1>3. CASE Prefill /\ UNCHANGED kv
    BY <1>3, PrefillAllocateInv, PrefillContinueInv DEF Prefill
  <1>4. CASE PrefillEnd /\ UNCHANGED kv
    BY <1>4, PrefillEndInv
  <1>5. CASE Decode /\ UNCHANGED kv
    BY <1>5, DecodeTakeInv, DecodePreemptInv DEF Decode
  <1>6. CASE DecodeEnd /\ UNCHANGED kv
    BY <1>6, DecodeEndInv
  <1>7. CASE Postprocess /\ UNCHANGED kv
    BY <1>7, PostPartialPrefillInv, PostAppendInv, PostFinishInv DEF Postprocess
  <1>8. CASE RunBatch
    BY <1>8, RunBatchInv
  <1>9. CASE UNCHANGED vars
    BY <1>9, StutterInv
  <1> QED BY <1>1, <1>2, <1>3, <1>4, <1>5, <1>6, <1>7, <1>8, <1>9 DEF Next, step, Schedule

(***************************************************************************)
(* What holds as long as no step throws: nothing is scheduled outside the  *)
(* batch, and a running request lacks its last token or is being computed  *)
(* to its end.                                                             *)
(***************************************************************************)
LEMMA AlignedSame ==
  ASSUME NEW t \in Seqs, Aligned(t), t \in OpenSeqs' <=> t \in OpenSeqs,
         status'[t] = status[t], token_ids'[t] = token_ids[t],
         num_cached_tokens'[t] = num_cached_tokens[t],
         num_scheduled_tokens'[t] = num_scheduled_tokens[t]
  PROVE  Aligned(t)'
  BY DEF Aligned, End, num_tokens

LEMMA InitAligned == Init => AlignedInv
  BY DEF Init, SequenceInit, SchedulerInit, AlignedInv, Aligned

\* Steps that leave positions and batch alone.
LEMMA LoopAligned ==
  ASSUME CoreInv, AlignedInv,
         \/ StartStep \/ Retry \/ PrefillEnd \/ DecodeEnd \/ RunBatch
         \/ UNCHANGED vars
  PROVE  AlignedInv'
  <1>1. SchedulerTypeOK /\ BatchInv
    BY CoreParts
  <1>2. UNCHANGED <<status, token_ids, num_cached_tokens, num_scheduled_tokens>>
    BY DEF StartStep, Retry, PrefillEnd, DecodeEnd, RunBatch, vars, sequenceVars
  <1>3. OpenSeqs' = OpenSeqs
    <2>1. CASE StartStep \/ Retry
      <3>1. scheduled = <<>> /\ scheduled' = <<>>
        BY <1>1, <2>1 DEF StartStep, Retry, EnterSchedule, BatchInv
      <3> QED BY <3>1 DEF OpenSeqs
    <2>2. CASE PrefillEnd \/ DecodeEnd
      BY <2>2 DEF PrefillEnd, DecodeEnd, OpenSeqs
    <2>3. CASE RunBatch
      <3>1. /\ phase = "run" /\ at = 1 /\ scheduled' = scheduled /\ at' = at
            /\ DOMAIN scheduled = 1..Len(scheduled)
        BY <1>1, <2>3, LenProperties DEF RunBatch, BatchInv, SchedulerTypeOK, batchVars
      <3> QED BY <3>1 DEF OpenSeqs
    <2>4. CASE UNCHANGED vars
      BY <2>4 DEF OpenSeqs, vars, schedulerVars, batchVars
    <2> QED BY <2>1, <2>2, <2>3, <2>4
  <1> QED BY <1>2, <1>3, AlignedSame DEF AlignedInv

LEMMA AddRequestAligned ==
  ASSUME CoreInv, AlignedInv, AddRequest
  PROVE  AlignedInv'
  <1>1. PICK s \in Seqs : \E p \in Prompts, m \in MaxTokensChoices, i \in IgnoreEosChoices :
          add_request(s, p, m, i)
    BY DEF AddRequest
  <1>2. /\ phase = "idle" /\ phase' = "idle" /\ scheduled' = scheduled /\ at' = at
        /\ UNCHANGED <<num_cached_tokens, num_scheduled_tokens>>
        /\ status' = [status EXCEPT ![s] = "WAITING"]
        /\ \E p : token_ids' = [token_ids EXCEPT ![s] = p]
    BY <1>1 DEF add_request, NewSequence, batchVars
  <1>3. OpenSeqs = {} /\ OpenSeqs' = {} /\ SequenceTypeOK
    BY <1>2, CoreParts DEF OpenSeqs, BatchInv
  <1>4. ASSUME NEW t \in Seqs, t # s PROVE Aligned(t)'
    <2>1. status'[t] = status[t] /\ token_ids'[t] = token_ids[t]
      BY <1>2, <1>3, <1>4 DEF SequenceTypeOK
    <2> QED BY <2>1, <1>2, <1>3, AlignedSame DEF AlignedInv
  <1>5. Aligned(s)'
    BY <1>2, <1>3 DEF AlignedInv, Aligned, SequenceTypeOK
  <1> QED BY <1>4, <1>5 DEF AlignedInv

\* Taken into a batch: what a prefill starts to run, it computes to the end; a decode
\* computes the one token that is missing.
LEMMA TakeAligned ==
  ASSUME CoreInv, AlignedInv, NEW s \in Seqs,
         \/ \E n \in 0..num_blocks(s) - 1 : PrefillAllocate(s, n)
         \/ PrefillContinue(s)
         \/ DecodeTake(s)
  PROVE  AlignedInv'
  <1>1. SequenceTypeOK /\ SchedulerTypeOK /\ BatchInv /\ Aligned(s)
    BY CoreParts DEF AlignedInv
  <1>2. /\ scheduled' = Append(scheduled, s) /\ phase # "post" /\ phase' = phase
        /\ token_ids' = token_ids
    BY DEF PrefillAllocate, PrefillContinue, PrefillTurn, Take, DecodeTake, DecodeTurn
  <1>3. OpenSeqs' = OpenSeqs \cup {s}
    <2>1. scheduled \in Seq(Seqs) /\ OpenSeqs = Range(scheduled) /\ OpenSeqs' = Range(scheduled')
      BY <1>1, <1>2 DEF SchedulerTypeOK, OpenSeqs, Range
    <2> QED BY <1>2, <2>1, QueueAppend
  <1>4. /\ \A t \in Seqs \ {s} : /\ status'[t] = status[t]
                                 /\ num_cached_tokens'[t] = num_cached_tokens[t]
                                 /\ num_scheduled_tokens'[t] = num_scheduled_tokens[t]
        /\ status'[s] = "RUNNING" => End(s)' = num_tokens(s)
    <2>1. ASSUME NEW n, NEW cached, Take(s, n, cached), PrefillTurn(s),
                 num_cached_tokens' = [num_cached_tokens EXCEPT ![s] = cached]
          PROVE  <1>4!:
      <3> DEFINE sched == IF n <= Remaining THEN n ELSE Remaining
      <3>1. /\ num_scheduled_tokens' = [num_scheduled_tokens EXCEPT ![s] = sched]
            /\ \/ cached + sched = num_tokens(s) /\ status' = [status EXCEPT ![s] = "RUNNING"]
               \/ status' = status
        BY <2>1 DEF Take
      <3> HIDE DEF sched
      <3>2. num_cached_tokens'[s] = cached /\ num_scheduled_tokens'[s] = sched
        BY <2>1, <3>1, <1>1 DEF SequenceTypeOK
      <3>3. status[s] = "WAITING"
        BY <2>1, CoreParts, QueueTail DEF PrefillTurn, QueuesInv, SchedulerTypeOK
      <3> QED BY <2>1, <3>1, <3>2, <3>3, <1>1 DEF SequenceTypeOK, End
    <2>2. CASE DecodeTake(s)
      <3>1. /\ num_scheduled_tokens' = [num_scheduled_tokens EXCEPT ![s] = 1]
            /\ UNCHANGED <<status, num_cached_tokens>>
            /\ phase = "decode" /\ s \in Range(running)
        BY <2>2, CoreParts, QueueTail DEF DecodeTake, DecodeTurn, SchedulerTypeOK, QueuesInv
      <3>2. status[s] = "RUNNING" /\ s \notin OpenSeqs
        BY <3>1, <1>1, DecodeTurnFacts, OpenIsSeq
      <3>3. num_scheduled_tokens[s] = 0 /\ End(s) = num_tokens(s) - 1
        BY <3>2, <1>1 DEF Aligned
      <3>4. num_cached_tokens[s] \in Nat /\ num_tokens(s) \in Nat
        BY <3>1, DecodeTurnFacts
      <3>5. num_cached_tokens[s] + 1 = num_tokens(s)
        BY <3>3, <3>4 DEF End
      <3> QED BY <3>1, <3>5, <1>1 DEF SequenceTypeOK, End
    <2>3. CASE PrefillContinue(s)
      <3>1. /\ PrefillTurn(s) /\ Take(s, num_tokens(s) - num_cached_tokens[s], num_cached_tokens[s])
            /\ num_cached_tokens' = [num_cached_tokens EXCEPT ![s] = num_cached_tokens[s]]
        BY <2>3, <1>1 DEF PrefillContinue, SequenceTypeOK
      <3> QED BY <3>1, <2>1
    <2>4. ASSUME NEW n \in 0..num_blocks(s) - 1, PrefillAllocate(s, n) PROVE <1>4!:
      <3>1. /\ PrefillTurn(s) /\ Take(s, num_tokens(s) - n * BlockSize, n * BlockSize)
            /\ num_cached_tokens' = [num_cached_tokens EXCEPT ![s] = n * BlockSize]
        BY <2>4 DEF PrefillAllocate, allocate
      <3> QED BY <3>1, <2>1
    <2> QED BY <2>2, <2>3, <2>4
  <1>5. ASSUME NEW t \in Seqs, t # s PROVE Aligned(t)'
    BY <1>2, <1>3, <1>4, <1>5, AlignedSame DEF AlignedInv
  <1>6. Aligned(s)'
    BY <1>2, <1>3, <1>4 DEF Aligned, num_tokens
  <1> QED BY <1>5, <1>6 DEF AlignedInv

LEMMA PreemptAligned ==
  ASSUME CoreInv, AlignedInv, NEW s \in Seqs, DecodePreempt(s)
  PROVE  AlignedInv'
  <1>1. SequenceTypeOK /\ SchedulerTypeOK /\ QueuesInv /\ BatchInv
    BY CoreParts
  <1>2. /\ phase = "decode" /\ running # <<>>
        /\ status' = [status EXCEPT ![Last(running)] = "WAITING"]
        /\ num_cached_tokens' = [num_cached_tokens EXCEPT ![Last(running)] = 0]
        /\ UNCHANGED <<token_ids, num_scheduled_tokens, phase, scheduled, at>>
    BY DEF DecodePreempt, DecodeTurn, preempt, deallocate, release, batchVars
  <1>3. PICK v \in Seqs : v = Last(running) /\ v \in Range(running)
    BY <1>1, <1>2, QueueFront DEF SchedulerTypeOK, QueuesInv
  <1>4. v \notin OpenSeqs /\ OpenSeqs' = OpenSeqs
    BY <1>1, <1>2, <1>3, DecodeTurnFacts, OpenIsSeq DEF OpenSeqs
  <1>5. \A t \in Seqs : /\ status'[t] = IF t = v THEN "WAITING" ELSE status[t]
                        /\ num_cached_tokens'[t] = IF t = v THEN 0 ELSE num_cached_tokens[t]
    BY <1>1, <1>2, <1>3 DEF SequenceTypeOK
  <1>6. ASSUME NEW t \in Seqs, t # v PROVE Aligned(t)'
    BY <1>2, <1>4, <1>5, <1>6, AlignedSame DEF AlignedInv
  <1>7. Aligned(v)'
    BY <1>2, <1>4, <1>5 DEF AlignedInv, Aligned
  <1> QED BY <1>6, <1>7 DEF AlignedInv

LEMMA PostAligned ==
  ASSUME CoreInv, AlignedInv, NEW s \in Seqs,
         PostPartialPrefill(s) \/ \E tok \in Tokens : PostAppend(s, tok) \/ PostFinish(s, tok)
  PROVE  AlignedInv'
  <1>1. SequenceTypeOK /\ Aligned(s)
    BY CoreParts DEF AlignedInv
  <1>2. PostTurn(s)
    BY DEF PostPartialPrefill, PostAppend, PostFinish
  <1>3. /\ OpenSeqs' = OpenSeqs \ {s} /\ s \in OpenSeqs
        /\ num_tokens(s) \in Nat /\ CachedAfter(s) \in Nat
        /\ status[s] = "WAITING" \/ status[s] = "RUNNING"
        /\ status[s] = "WAITING" => is_prefill /\ CachedAfter(s) < num_tokens(s)
        /\ \A t \in Seqs : num_scheduled_tokens'[t] = IF t = s THEN 0 ELSE num_scheduled_tokens[t]
    BY <1>2, PostTurnFacts
  <1>4. ASSUME NEW t \in Seqs, t # s PROVE Aligned(t)'
    <2>1. /\ status'[t] = status[t] /\ token_ids'[t] = token_ids[t]
          /\ num_cached_tokens'[t] = num_cached_tokens[t]
      BY <1>1, <1>4 DEF PostPartialPrefill, PostAppend, PostFinish, append_token, release, SequenceTypeOK
    <2> QED BY <2>1, <1>3, <1>4, AlignedSame DEF AlignedInv
  <1>5. Aligned(s)'
    <2>1. CASE PostPartialPrefill(s)
      <3>1. status'[s] = status[s] /\ is_prefill /\ CachedAfter(s) < num_tokens(s)
        BY <2>1 DEF PostPartialPrefill
      <3>2. status[s] # "RUNNING"
        BY <3>1, <1>2, PostTurnFacts
      <3> QED BY <3>1, <3>2, <1>3 DEF Aligned
    <2>2. ASSUME NEW tok \in Tokens, PostAppend(s, tok) PROVE Aligned(s)'
      <3>1. /\ status'[s] = status[s] /\ ~ (is_prefill /\ CachedAfter(s) < num_tokens(s))
            /\ token_ids'[s] = Append(token_ids[s], tok) /\ num_cached_tokens'[s] = CachedAfter(s)
        BY <2>2, <1>1 DEF PostAppend, append_token, SequenceTypeOK
      <3>2. num_tokens(s)' = num_tokens(s) + 1
        <4>1. token_ids[s] \in Seq(Tokens)
          BY <1>1 DEF SequenceTypeOK
        <4> QED BY <3>1, <4>1, AppendProperties DEF num_tokens
      <3>3. CachedAfter(s) = num_tokens(s)
        BY <3>1, <1>1, <1>3 DEF Aligned, End, CachedAfter
      <3>4. End(s)' = CachedAfter(s) + 0
        BY <3>1, <1>3 DEF End
      <3>5. End(s)' = num_tokens(s)' - 1
        BY <3>2, <3>3, <3>4, <1>3
      <3> QED BY <3>5, <1>3 DEF Aligned
    <2>3. ASSUME NEW tok \in Tokens, PostFinish(s, tok) PROVE Aligned(s)'
      <3>1. status'[s] = "FINISHED"
        BY <2>3, <1>1 DEF PostFinish, SequenceTypeOK
      <3> QED BY <3>1, <1>3 DEF Aligned
    <2> QED BY <2>1, <2>2, <2>3
  <1> QED BY <1>4, <1>5 DEF AlignedInv

LEMMA NextAligned == CoreInv /\ AlignedInv /\ [Next]_vars => AlignedInv'
  <1> SUFFICES ASSUME CoreInv, AlignedInv, [Next]_vars PROVE AlignedInv'
    OBVIOUS
  <1>1. CASE AddRequest
    BY <1>1, AddRequestAligned
  <1>2. CASE StartStep \/ Retry \/ PrefillEnd \/ DecodeEnd \/ RunBatch \/ UNCHANGED vars
    BY <1>2, LoopAligned
  <1>3. CASE Prefill
    BY <1>3, TakeAligned DEF Prefill
  <1>4. CASE Decode
    BY <1>4, TakeAligned, PreemptAligned DEF Decode
  <1>5. CASE Postprocess
    BY <1>5, PostAligned DEF Postprocess
  <1> QED BY <1>1, <1>2, <1>3, <1>4, <1>5 DEF Next, step, Schedule

\* The conjuncts of IInv.
LEMMA IInvParts ==
  IInv <=> /\ CoreInv /\ AlignedInv
           /\ SequenceTypeOK /\ SchedulerTypeOK /\ ModelRunnerTypeOK
           /\ BlockInv
           /\ PositionsInv /\ QueuesInv /\ BatchInv
  BY CoreParts DEF IInv

\* Where the positions of a request stand while everybody is aligned.
LEMMA AlignedFacts ==
  ASSUME IInv, NEW s \in Seqs
  PROVE  /\ End(s) \in Nat /\ End(s) <= num_tokens(s)
         /\ End(s) <= Len(block_table[s]) * BlockSize
         /\ status[s] \in {"NEW", "FINISHED"} =>
              block_table[s] = <<>> /\ num_cached_tokens[s] = 0 /\ num_scheduled_tokens[s] = 0
  <1> DEFINE c == num_cached_tokens[s]
             n == num_tokens(s)
             cover == Len(block_table[s]) * BlockSize
  <1>1. SequenceTypeOK /\ SchedulerTypeOK /\ Positioned(s) /\ BatchInv /\ Aligned(s)
    BY IInvParts DEF PositionsInv, AlignedInv
  <1>2. /\ c \in Nat /\ num_scheduled_tokens[s] \in Nat /\ n \in Nat /\ cover \in Nat
        /\ status[s] \in {"NEW", "WAITING", "RUNNING", "FINISHED"}
    <2>1. Len(block_table[s]) \in Nat
      BY IInvParts, LenProperties DEF BlockInv, BlockManagerTypeOK
    <2>2. cover \in Nat
      BY <2>1, SequenceAssumption
    <2>3. n \in Nat
      BY <1>1, NumBlocks
    <2> QED BY <1>1, <2>2, <2>3 DEF SequenceTypeOK
  <1>3. s \in OpenSeqs => status[s] \notin {"NEW", "FINISHED"}
    BY <1>1 DEF BatchInv, InBatch
  <1>4. End(s) <= n /\ End(s) <= cover
    <2>1. CASE s \in OpenSeqs
      <3>1. End(s) <= n /\ n <= cover
        BY <2>1, <1>1 DEF BatchInv, InBatch
      <3> HIDE DEF cover
      <3> QED BY <3>1, <1>2 DEF End
    <2>2. CASE s \notin OpenSeqs
      <3>1. End(s) = c
        BY <2>2, <1>1, <1>2 DEF Aligned, End
      <3>2. c <= n
        BY <1>1, <1>2 DEF Positioned
      <3>3. c <= cover
        <4>1. status[s] = "WAITING" => c = 0 \/ (c < n /\ n <= cover)
          BY <1>1 DEF Positioned
        <4>2. status[s] = "RUNNING" => c < n /\ n - 1 <= cover
          BY <1>1 DEF Positioned
        <4>3. status[s] \in {"NEW", "FINISHED"} => c = 0
          BY <1>1 DEF Positioned
        <4> HIDE DEF cover, c, n
        <4> QED BY <4>1, <4>2, <4>3, <1>2
      <3> QED BY <3>1, <3>2, <3>3
    <2> QED BY <2>1, <2>2
  <1>5. End(s) \in Nat
    BY <1>2 DEF End
  <1> QED BY <1>1, <1>3, <1>4, <1>5 DEF Positioned, Aligned

\* schedule, run and postprocess keep CoreInv, in any order of requests, batches,
\* preemptions and chunks.
THEOREM Invariance == Spec => []CoreInv
  BY InitInv, NextInv, PTL DEF Spec

\* The state of the engine keeps its types: no token count, no reference count and
\* no block table leaves its domain.
THEOREM TypeCorrect == Spec => []TypeOK
  <1>1. CoreInv => TypeOK
    BY DEF CoreInv
  <1> QED BY <1>1, Invariance, PTL

\* Every reference count of BlockManager is the number of block-table entries that
\* name the block.
THEOREM RefCountsCorrect == Spec => []RefCountsMatch
  <1>1. CoreInv => RefCountsMatch
    BY DEF CoreInv
  <1> QED BY <1>1, Invariance, PTL

\* free_block_ids_ and used_block_ids_ split the pool by reference count: nothing
\* leaks and no block that is referred to can be handed out.
THEOREM PoolPartitioned == Spec => []PoolPartition
  <1>1. CoreInv => PoolPartition
    BY DEF CoreInv
  <1> QED BY <1>1, Invariance, PTL

-----------------------------------------------------------------------------
(***************************************************************************)
(* The order of the queues: OrderInv is inductive beside CoreInv, and from *)
(* both follow that no request is lost, that only the head of waiting_     *)
(* holds blocks, that no step throws, and that the engine implements       *)
(* Generation.                                                             *)
(***************************************************************************)
\* The conjuncts of OrderInv that the lemmas below establish.
LEMMA OrderParts ==
  OrderInv <=> /\ QueuedInv /\ WorkInv
               /\ OnlyHeadHoldsBlocks
               /\ phase = "prefill" /\ scheduled = <<>> => num_batched_tokens = 0
               /\ phase = "decode" => \A s \in Range(waiting) : ~ HasTable(s)
  BY DEF OrderInv, ChunksInv

LEMMA InitOrder == Init => OrderInv
  <1> SUFFICES ASSUME Init PROVE OrderInv
    OBVIOUS
  <1>1. /\ waiting = <<>> /\ phase = "idle"
        /\ \A s \in Seqs : status[s] = "NEW"
    BY DEF Init, SchedulerInit, SequenceInit
  <1>2. DOMAIN waiting = {}
    BY <1>1
  <1> QED BY <1>1, <1>2 DEF OrderInv, QueuedInv, ChunksInv, WorkInv, OnlyHeadHoldsBlocks

\* Steps that touch neither queue, but may finish requests of the batch: running the
\* model and postprocess.
LEMMA BatchOrder ==
  ASSUME CoreInv, OrderInv, phase \in {"run", "post"}, phase' \notin {"prefill", "decode"},
         waiting' = waiting,
         \A t \in Seqs : \/ status'[t] = status[t] /\ (t \in Range(running) => t \in Range(running'))
                         \/ status'[t] = "FINISHED" /\ status[t] = "RUNNING",
         \A t \in Seqs : block_table[t] = <<>> => block_table'[t] = <<>>
  PROVE  OrderInv'
  <1>1. QueuedInv /\ OnlyHeadHoldsBlocks
    BY DEF OrderInv, ChunksInv
  <1>2. waiting \in Seq(Seqs)
    BY CoreParts DEF SchedulerTypeOK
  <1>3. QueuedInv'
    BY <1>1 DEF QueuedInv
  <1>4. OnlyHeadHoldsBlocks'
    <2>1. ASSUME NEW i \in DOMAIN waiting, i > 1 PROVE block_table'[waiting[i]] = <<>>
      <3>1. waiting[i] \in Seqs /\ block_table[waiting[i]] = <<>>
        BY <1>1, <1>2, <2>1, ElementOfSeq, LenProperties DEF OnlyHeadHoldsBlocks, HasTable
      <3> QED BY <3>1
    <2> QED BY <2>1 DEF OnlyHeadHoldsBlocks, HasTable
  <1> QED BY <1>3, <1>4 DEF OrderInv, ChunksInv, WorkInv

LEMMA AddRequestOrder ==
  ASSUME CoreInv, OrderInv, NEW s \in Seqs, NEW prompt \in Prompts,
         NEW max \in MaxTokensChoices, NEW ignore \in IgnoreEosChoices,
         add_request(s, prompt, max, ignore)
  PROVE  OrderInv'
  <1>1. /\ SequenceTypeOK /\ SchedulerTypeOK /\ PositionsInv /\ QueuesInv
        /\ QueuedInv /\ OnlyHeadHoldsBlocks
    BY CoreParts DEF OrderInv, ChunksInv
  <1>2. /\ phase = "idle" /\ phase' = "idle" /\ status[s] = "NEW"
        /\ status' = [status EXCEPT ![s] = "WAITING"]
        /\ waiting' = Append(waiting, s) /\ running' = running
        /\ block_table' = block_table
    BY DEF add_request, NewSequence
  <1>3. waiting \in Seq(Seqs) /\ running \in Seq(Seqs)
    BY <1>1 DEF SchedulerTypeOK
  <1>4. /\ waiting' \in Seq(Seqs)
        /\ Range(waiting') = Range(waiting) \cup {s}
    BY <1>2, <1>3, QueueAppend
  <1>5. \A t \in Seqs : status'[t] = IF t = s THEN "WAITING" ELSE status[t]
    BY <1>1, <1>2 DEF SequenceTypeOK
  <1>6. QueuedInv'
    BY <1>1, <1>2, <1>4, <1>5 DEF QueuedInv
  <1>7. OnlyHeadHoldsBlocks'
    <2>1. block_table[s] = <<>>
      BY <1>1, <1>2 DEF PositionsInv, Positioned
    <2>2. ASSUME NEW i \in 1..Len(waiting'), i > 1 PROVE block_table[waiting'[i]] = <<>>
      <3>1. /\ Len(waiting') = Len(waiting) + 1 /\ waiting'[Len(waiting) + 1] = s
            /\ \A j \in 1..Len(waiting) : waiting'[j] = waiting[j]
            /\ Len(waiting) \in Nat
        BY <1>2, <1>3, AppendProperties, LenProperties
      <3>2. CASE i = Len(waiting) + 1
        BY <3>1, <3>2, <2>1
      <3>3. CASE i # Len(waiting) + 1
        <4>1. i \in 1..Len(waiting)
          BY <3>1, <3>3, <2>2
        <4> QED BY <4>1, <3>1, <2>2, <1>1, <1>3, LenProperties DEF OnlyHeadHoldsBlocks, HasTable
      <3> QED BY <3>2, <3>3
    <2> QED BY <2>2, <1>2, <1>4, LenProperties DEF OnlyHeadHoldsBlocks, HasTable
  <1> QED BY <1>2, <1>6, <1>7 DEF OrderInv, ChunksInv, WorkInv

\* schedule() is entered, by step or by itself.
LEMMA EnterScheduleOrder ==
  ASSUME CoreInv, OrderInv, StartStep \/ Retry
  PROVE  OrderInv'
  <1>1. QueuedInv /\ OnlyHeadHoldsBlocks /\ BatchInv /\ SchedulerTypeOK
    BY CoreParts DEF OrderInv, ChunksInv
  <1>2. /\ phase' = "prefill" /\ scheduled' = <<>> /\ num_batched_tokens' = 0
        /\ UNCHANGED <<waiting, running, status, block_table>>
        /\ phase \in {"idle", "decode"} /\ scheduled = <<>>
        /\ waiting # <<>> \/ running # <<>>
    BY <1>1 DEF StartStep, Retry, EnterSchedule, BatchInv, SchedulerIsFinished, queueVars, sequenceVars
  <1>3. Range(scheduled) = {}
    BY <1>1, <1>2, RangeMembers DEF SchedulerTypeOK
  <1>4. QueuedInv'
    BY <1>1, <1>2, <1>3 DEF QueuedInv
  <1>5. OnlyHeadHoldsBlocks'
    BY <1>1, <1>2 DEF OnlyHeadHoldsBlocks, HasTable
  <1> QED BY <1>2, <1>4, <1>5 DEF OrderInv, ChunksInv, WorkInv

\* A sequence is taken into a prefill batch; only its own table may have changed.
LEMMA TakeOrder ==
  ASSUME CoreInv, OrderInv, NEW s \in Seqs, PrefillTurn(s),
         NEW n, NEW cached, Take(s, n, cached),
         \A t \in Seqs \ {s} : block_table'[t] = block_table[t]
  PROVE  OrderInv'
  <1>1. /\ SequenceTypeOK /\ SchedulerTypeOK /\ QueuesInv
        /\ QueuedInv /\ OnlyHeadHoldsBlocks
    BY CoreParts DEF OrderInv, ChunksInv
  <1>2. /\ phase = "prefill" /\ phase' = "prefill" /\ waiting # <<>> /\ s = Head(waiting)
        /\ scheduled' = Append(scheduled, s)
        /\ \/ /\ status' = [status EXCEPT ![s] = "RUNNING"]
              /\ waiting' = Tail(waiting) /\ running' = Append(running, s)
           \/ UNCHANGED <<status, waiting, running>>
    BY DEF PrefillTurn, Take, queueVars
  <1>3. /\ waiting \in Seq(Seqs) /\ running \in Seq(Seqs) /\ scheduled \in Seq(Seqs)
        /\ IsInjective(waiting)
    BY <1>1 DEF SchedulerTypeOK, QueuesInv
  <1>4. scheduled' # <<>>
    BY <1>2, <1>3, AppendProperties
  <1>5. /\ Tail(waiting) \in Seq(Seqs) /\ Len(Tail(waiting)) = Len(waiting) - 1
        /\ \A i \in 1..Len(Tail(waiting)) : Tail(waiting)[i] = waiting[i + 1]
        /\ Range(Tail(waiting)) = Range(waiting) \ {s}
        /\ Len(waiting) \in Nat \ {0} /\ waiting[1] = s
    BY <1>2, <1>3, QueueTail, HeadTailProperties, LenProperties, EmptySeq
  <1>6. Range(Append(running, s)) = Range(running) \cup {s}
    BY <1>3, QueueAppend
  <1>7. QueuedInv'
    <2>1. CASE UNCHANGED <<status, waiting, running>>
      BY <2>1, <1>1, <1>2 DEF QueuedInv
    <2>2. CASE /\ status' = [status EXCEPT ![s] = "RUNNING"]
               /\ waiting' = Tail(waiting) /\ running' = Append(running, s)
      <3>1. \A t \in Seqs : status'[t] = IF t = s THEN "RUNNING" ELSE status[t]
        BY <2>2, <1>1 DEF SequenceTypeOK
      <3> QED BY <3>1, <2>2, <1>1, <1>2, <1>5, <1>6 DEF QueuedInv
    <2> QED BY <2>1, <2>2, <1>2
  <1>8. \A i \in 1..Len(waiting) : i > 1 => /\ waiting[i] \in Seqs \ {s}
                                            /\ block_table[waiting[i]] = <<>>
    <2>1. \A i, j \in 1..Len(waiting) : waiting[i] = waiting[j] => i = j
      BY <1>3, LenProperties DEF IsInjective
    <2>2. DOMAIN waiting = 1..Len(waiting) /\ \A i \in 1..Len(waiting) : waiting[i] \in Seqs
      BY <1>3, LenProperties, ElementOfSeq
    <2> QED BY <2>1, <2>2, <1>1, <1>5 DEF OnlyHeadHoldsBlocks, HasTable
  <1>9. OnlyHeadHoldsBlocks'
    <2>1. CASE waiting' = waiting
      BY <2>1, <1>3, <1>8, LenProperties DEF OnlyHeadHoldsBlocks, HasTable
    <2>2. CASE waiting' = Tail(waiting)
      <3>1. ASSUME NEW i \in 1..Len(waiting'), i > 1 PROVE block_table'[waiting'[i]] = <<>>
        <4>1. waiting'[i] = waiting[i + 1] /\ i + 1 \in 1..Len(waiting) /\ i + 1 > 1
          BY <3>1, <2>2, <1>5
        <4> QED BY <4>1, <1>8
      <3> QED BY <3>1, <2>2, <1>5, LenProperties DEF OnlyHeadHoldsBlocks, HasTable
    <2> QED BY <2>1, <2>2, <1>2
  <1> QED BY <1>2, <1>4, <1>7, <1>9 DEF OrderInv, ChunksInv, WorkInv

LEMMA PrefillOrder ==
  ASSUME CoreInv, OrderInv, NEW s \in Seqs,
         PrefillContinue(s) \/ \E n \in 0..num_blocks(s) - 1 : PrefillAllocate(s, n)
  PROVE  OrderInv'
  <1>1. SequenceTypeOK /\ BlockManagerTypeOK
    BY CoreParts DEF BlockInv
  <1>2. CASE PrefillContinue(s)
    BY <1>2, TakeOrder DEF PrefillContinue
  <1>3. ASSUME NEW n \in 0..num_blocks(s) - 1, PrefillAllocate(s, n) PROVE OrderInv'
    <2>1. \A t \in Seqs \ {s} : block_table'[t] = block_table[t]
      BY <1>1, <1>3, AllocateType DEF PrefillAllocate
    <2> QED BY <1>3, <2>1, TakeOrder DEF PrefillAllocate
  <1> QED BY <1>2, <1>3

\* The decode loop starts only when the head could not join an empty batch, which a
\* request that already has blocks always can.
LEMMA PrefillEndOrder ==
  ASSUME CoreInv, OrderInv, PrefillEnd
  PROVE  OrderInv'
  <1>1. /\ SchedulerTypeOK /\ QueuedInv /\ OnlyHeadHoldsBlocks /\ WorkInv
        /\ phase = "prefill" /\ scheduled = <<>> => num_batched_tokens = 0
    BY CoreParts, OrderParts
  <1>2. /\ phase = "prefill"
        /\ UNCHANGED <<waiting, running, scheduled, status, block_table>>
        /\ \/ scheduled # <<>> /\ phase' = "run"
           \/ scheduled = <<>> /\ phase' = "decode"
        /\ \/ waiting = <<>> \/ Len(scheduled) >= MaxNumSeqs \/ Remaining = 0
           \/ waiting # <<>> /\ HeadCannotJoin
    BY DEF PrefillEnd, queueVars, sequenceVars
  <1>3. QueuedInv' /\ WorkInv'
    BY <1>1, <1>2 DEF QueuedInv, WorkInv
  <1>4. OnlyHeadHoldsBlocks'
    BY <1>1, <1>2 DEF OnlyHeadHoldsBlocks, HasTable
  <1>5. ASSUME phase' = "decode", NEW s \in Range(waiting) PROVE ~ HasTable(s)
    <2>1. scheduled = <<>> /\ num_batched_tokens = 0 /\ waiting # <<>>
      BY <1>1, <1>2, <1>5, RangeMembers DEF SchedulerTypeOK
    <2>2. ~ (Len(scheduled) >= MaxNumSeqs) /\ Remaining # 0
      BY <2>1, SchedulerAssumption DEF Remaining
    <2>3. HeadCannotJoin
      BY <1>2, <2>1, <2>2
    <2>4. \A n : Admits(n)
      BY <2>1 DEF Admits
    <2>5. ~ HasTable(Head(waiting))
      BY <2>3, <2>4 DEF HeadCannotJoin
    <2>6. PICK i \in 1..Len(waiting) : waiting[i] = s
      BY <1>1, <1>5, RangeMembers DEF SchedulerTypeOK
    <2>7. i \in DOMAIN waiting /\ (i > 1 \/ i = 1)
      BY <1>1, <2>6, LenProperties DEF SchedulerTypeOK
    <2> QED BY <1>1, <2>1, <2>5, <2>6, <2>7 DEF OnlyHeadHoldsBlocks
  <1>6. phase' = "decode" => \A s \in Range(waiting') : ~ HasTable(s)'
    BY <1>2, <1>5 DEF HasTable
  <1> QED BY <1>2, <1>3, <1>4, <1>6 DEF OrderInv, ChunksInv

LEMMA DecodeTakeOrder ==
  ASSUME CoreInv, OrderInv, NEW s \in Seqs, DecodeTake(s)
  PROVE  OrderInv'
  <1>1. /\ SchedulerTypeOK /\ BlockManagerTypeOK /\ QueuesInv
        /\ QueuedInv /\ OnlyHeadHoldsBlocks /\ \A t \in Range(waiting) : phase = "decode" => ~ HasTable(t)
    BY CoreParts, OrderParts DEF BlockInv
  <1>2. /\ phase = "decode" /\ phase' = "decode" /\ running # <<>> /\ s = Head(running)
        /\ may_append(s)
        /\ running' = Tail(running) /\ scheduled' = Append(scheduled, s)
        /\ UNCHANGED <<waiting, status>>
    BY DEF DecodeTake, DecodeTurn
  <1>3. waiting \in Seq(Seqs) /\ running \in Seq(Seqs) /\ scheduled \in Seq(Seqs)
        /\ IsInjective(running)
    BY <1>1 DEF SchedulerTypeOK, QueuesInv
  <1>4. /\ s \in Range(running) /\ Range(running') = Range(running) \ {s}
        /\ Range(scheduled') = Range(scheduled) \cup {s} /\ scheduled' # <<>>
    BY <1>2, <1>3, QueueTail, QueueAppend, RangeMembers
  <1>5. \A t \in Seqs \ {s} : block_table'[t] = block_table[t]
    BY <1>1, <1>2, MayAppendType
  <1>6. \A t \in Range(waiting) : t \in Seqs /\ t # s /\ block_table[t] = <<>>
    BY <1>1, <1>2, <1>3, <1>4, DecodeTurnFacts, RangeMembers DEF HasTable
  <1>7. QueuedInv'
    BY <1>1, <1>2, <1>4 DEF QueuedInv
  <1>8. \A t \in Range(waiting) : block_table'[t] = <<>>
    BY <1>5, <1>6
  <1>9. OnlyHeadHoldsBlocks'
    BY <1>2, <1>3, <1>8, RangeMembers DEF OnlyHeadHoldsBlocks, HasTable
  <1> QED BY <1>2, <1>4, <1>7, <1>8, <1>9 DEF OrderInv, ChunksInv, WorkInv, HasTable

\* preempt gives the table of the youngest running request back before it queues it in
\* front of requests that have none.
LEMMA DecodePreemptOrder ==
  ASSUME CoreInv, OrderInv, NEW s \in Seqs, DecodePreempt(s)
  PROVE  OrderInv'
  <1> DEFINE v == Last(running)
  <1>1. /\ SequenceTypeOK /\ SchedulerTypeOK /\ BlockManagerTypeOK /\ QueuesInv
        /\ QueuedInv /\ \A t \in Range(waiting) : phase = "decode" => ~ HasTable(t)
    BY CoreParts, OrderParts DEF BlockInv
  <1>2. /\ phase = "decode" /\ phase' = "decode" /\ running # <<>>
        /\ running' = Front(running) /\ waiting' = <<v>> \o waiting
        /\ status' = [status EXCEPT ![v] = "WAITING"]
        /\ block_table' = [block_table EXCEPT ![v] = <<>>]
        /\ scheduled' = scheduled
    BY DEF DecodePreempt, DecodeTurn, preempt, deallocate, release, batchVars
  <1>3. waiting \in Seq(Seqs) /\ running \in Seq(Seqs) /\ IsInjective(running)
    BY <1>1 DEF SchedulerTypeOK, QueuesInv
  <1>4. v \in Seqs /\ v \in Range(running) /\ Range(running') = Range(running) \ {v}
    BY <1>2, <1>3, QueueFront
  <1> HIDE DEF v
  <1>5. waiting' \in Seq(Seqs) /\ Range(waiting') = {v} \cup Range(waiting)
    BY <1>2, <1>3, <1>4, QueuePush
  <1>6. /\ \A t \in Seqs : status'[t] = IF t = v THEN "WAITING" ELSE status[t]
        /\ \A t \in Seqs : block_table'[t] = IF t = v THEN <<>> ELSE block_table[t]
    BY <1>1, <1>2 DEF SequenceTypeOK, BlockManagerTypeOK
  <1>7. QueuedInv'
    BY <1>1, <1>2, <1>4, <1>5, <1>6 DEF QueuedInv
  <1>8. \A t \in Range(waiting') : block_table'[t] = <<>>
    BY <1>1, <1>2, <1>3, <1>4, <1>5, <1>6, RangeMembers DEF HasTable
  <1>9. OnlyHeadHoldsBlocks'
    BY <1>5, <1>8, RangeMembers DEF OnlyHeadHoldsBlocks, HasTable
  <1>10. waiting' # <<>>
    BY <1>5, RangeMembers
  <1> QED BY <1>2, <1>7, <1>8, <1>9, <1>10 DEF OrderInv, ChunksInv, WorkInv, HasTable

LEMMA DecodeEndOrder ==
  ASSUME CoreInv, OrderInv, DecodeEnd
  PROVE  OrderInv'
  <1>1. SchedulerTypeOK /\ QueuedInv /\ OnlyHeadHoldsBlocks
    BY CoreParts DEF OrderInv, ChunksInv
  <1>2. /\ phase = "decode" /\ phase' = "run" /\ running' = scheduled \o running
        /\ UNCHANGED <<waiting, status, block_table>>
    BY DEF DecodeEnd, sequenceVars
  <1>3. Range(running') = Range(scheduled) \cup Range(running)
    BY <1>1, <1>2, QueueConcat DEF SchedulerTypeOK
  <1>4. QueuedInv'
    BY <1>1, <1>2, <1>3 DEF QueuedInv
  <1>5. OnlyHeadHoldsBlocks'
    BY <1>1, <1>2 DEF OnlyHeadHoldsBlocks, HasTable
  <1> QED BY <1>2, <1>4, <1>5 DEF OrderInv, ChunksInv, WorkInv

LEMMA RunBatchOrder ==
  ASSUME CoreInv, OrderInv, RunBatch
  PROVE  OrderInv'
  <1>1. phase = "run" /\ phase' = "post" /\ UNCHANGED <<waiting, running, status, block_table>>
    BY DEF RunBatch, queueVars, sequenceVars
  <1> QED BY <1>1, BatchOrder

\* Where postprocess goes next.
LEMMA PostPhase ==
  ASSUME NEW s, PostTurn(s)
  PROVE  phase = "post" /\ phase' \notin {"prefill", "decode"}
  BY DEF PostTurn, AdvancePost

LEMMA PostprocessOrder ==
  ASSUME CoreInv, OrderInv, NEW s \in Seqs,
         PostPartialPrefill(s) \/ \E t \in Tokens : PostAppend(s, t) \/ PostFinish(s, t)
  PROVE  OrderInv'
  <1>1. SequenceTypeOK /\ SchedulerTypeOK /\ BlockManagerTypeOK /\ QueuesInv
    BY CoreParts DEF BlockInv
  <1>2. CASE PostPartialPrefill(s)
    <2>1. PostTurn(s) /\ UNCHANGED <<waiting, running, status, block_table>>
      BY <1>2 DEF PostPartialPrefill, queueVars
    <2> QED BY <2>1, PostPhase, BatchOrder
  <1>3. ASSUME NEW t \in Tokens, PostAppend(s, t) PROVE OrderInv'
    <2>1. PostTurn(s) /\ UNCHANGED <<waiting, running, status, block_table>>
      BY <1>3 DEF PostAppend, queueVars
    <2> QED BY <2>1, PostPhase, BatchOrder
  <1>4. ASSUME NEW tok \in Tokens, PostFinish(s, tok) PROVE OrderInv'
    <2>1. /\ PostTurn(s) /\ waiting' = waiting /\ running' = RemoveFirst(running, s)
          /\ ~ (is_prefill /\ CachedAfter(s) < num_tokens(s))
          /\ status' = [status EXCEPT ![s] = "FINISHED"]
          /\ block_table' = [block_table EXCEPT ![s] = <<>>]
      BY <1>4 DEF PostFinish, release
    <2>2. /\ \A t \in Seqs : status'[t] = IF t = s THEN "FINISHED" ELSE status[t]
          /\ \A t \in Seqs : block_table'[t] = IF t = s THEN <<>> ELSE block_table[t]
      BY <1>1, <2>1 DEF SequenceTypeOK, BlockManagerTypeOK
    <2>3. status[s] = "RUNNING"
      BY <2>1, <2>2, PostTurnFacts
    <2>4. \A t \in Seqs \ {s} : t \in Range(running) => t \in Range(running')
      <3>1. running \in Seq(Seqs) /\ IsInjective(running)
        BY <1>1 DEF SchedulerTypeOK, QueuesInv
      <3>2. CASE s \in Range(running)
        BY <3>1, <3>2, <2>1, QueueRemoveFirst
      <3>3. CASE s \notin Range(running)
        BY <3>1, <3>3, <2>1, RangeMembers DEF RemoveFirst
      <3> QED BY <3>2, <3>3
    <2> QED BY <2>1, <2>2, <2>3, <2>4, PostPhase, BatchOrder
  <1> QED BY <1>2, <1>3, <1>4

LEMMA StutterOrder ==
  ASSUME OrderInv, UNCHANGED vars
  PROVE  OrderInv'
  BY DEF OrderInv, QueuedInv, ChunksInv, WorkInv, OnlyHeadHoldsBlocks, HasTable,
         vars, sequenceVars, schedulerVars, queueVars, batchVars

LEMMA NextOrder == CoreInv /\ OrderInv /\ [Next]_vars => OrderInv'
  <1> SUFFICES ASSUME CoreInv, OrderInv, [Next]_vars PROVE OrderInv'
    OBVIOUS
  <1>1. CASE AddRequest
    BY <1>1, AddRequestOrder DEF AddRequest
  <1>2. CASE StartStep \/ Retry
    BY <1>2, EnterScheduleOrder
  <1>3. CASE Prefill
    BY <1>3, PrefillOrder DEF Prefill
  <1>4. CASE PrefillEnd
    BY <1>4, PrefillEndOrder
  <1>5. CASE Decode
    BY <1>5, DecodeTakeOrder, DecodePreemptOrder DEF Decode
  <1>6. CASE DecodeEnd
    BY <1>6, DecodeEndOrder
  <1>7. CASE Postprocess
    BY <1>7, PostprocessOrder DEF Postprocess
  <1>8. CASE RunBatch
    BY <1>8, RunBatchOrder
  <1>9. CASE UNCHANGED vars
    BY <1>9, StutterOrder
  <1> QED BY <1>1, <1>2, <1>3, <1>4, <1>5, <1>6, <1>7, <1>8, <1>9 DEF Next, step, Schedule

\* Both invariants together are inductive.
THEOREM Ordered == Spec => [](CoreInv /\ OrderInv)
  <1>1. Init => CoreInv /\ OrderInv
    BY InitInv, InitOrder
  <1>2. CoreInv /\ OrderInv /\ [Next]_vars => (CoreInv /\ OrderInv)'
    BY NextInv, NextOrder
  <1> QED BY <1>1, <1>2, PTL DEF Spec

\* Of the requests that wait only the head of waiting_ can hold blocks: a prompt
\* between two chunks is never overtaken.
THEOREM HeadOnly == Spec => []OnlyHeadHoldsBlocks
  <1>1. OrderInv => OnlyHeadHoldsBlocks
    BY DEF OrderInv, ChunksInv
  <1> QED BY <1>1, Ordered, PTL

(***************************************************************************)
(* No request is lost or duplicated.                                       *)
(***************************************************************************)
\* An element occurs once or not at all in a queue without duplicates.
LEMMA CountOnce ==
  ASSUME NEW q \in Seq(Seqs), IsInjective(q), NEW s
  PROVE  Count(q, s) = IF s \in Range(q) THEN 1 ELSE 0
  <1> DEFINE I == {i \in DOMAIN q : q[i] = s}
  <1>1. DOMAIN q = 1..Len(q) /\ \A x : x \in Range(q) <=> \E i \in 1..Len(q) : q[i] = x
    BY RangeMembers
  <1>2. CASE s \in Range(q)
    <2>1. PICK k \in 1..Len(q) : q[k] = s
      BY <1>1, <1>2
    <2>2. I = {k}
      BY <2>1, <1>1 DEF IsInjective
    <2> QED BY <2>2, <1>2, FS_Singleton DEF Count
  <1>3. CASE s \notin Range(q)
    <2>1. I = {}
      BY <1>1, <1>3
    <2> QED BY <2>1, <1>3, FS_EmptySet DEF Count
  <1> QED BY <1>2, <1>3

LEMMA NotLost == CoreInv /\ OrderInv => NoRequestLost
  <1> SUFFICES ASSUME CoreInv, OrderInv PROVE NoRequestLost
    OBVIOUS
  <1>1. /\ SequenceTypeOK /\ SchedulerTypeOK /\ QueuesInv /\ BatchInv /\ QueuedInv
    BY CoreParts DEF OrderInv
  <1>2. /\ waiting \in Seq(Seqs) /\ running \in Seq(Seqs) /\ scheduled \in Seq(Seqs)
        /\ IsInjective(waiting) /\ IsInjective(running) /\ IsInjective(scheduled)
    BY <1>1 DEF SchedulerTypeOK, QueuesInv, BatchInv
  <1>3. phase = "decode" => \A t \in Range(scheduled) : status[t] = "RUNNING" /\ t \notin Range(running)
    <2>1. phase = "decode" => OpenSeqs = Range(scheduled)
      BY DEF OpenSeqs, Range
    <2> QED BY <2>1, <1>1 DEF BatchInv, InBatch, Decoding
  <1>4. ASSUME NEW s \in Seqs
        PROVE  Count(waiting, s) + Count(running, s)
                 + (IF phase = "decode" THEN Count(scheduled, s) ELSE 0)
               = IF status[s] \in {"WAITING", "RUNNING"} THEN 1 ELSE 0
    <2>1. /\ Count(waiting, s) = IF s \in Range(waiting) THEN 1 ELSE 0
          /\ Count(running, s) = IF s \in Range(running) THEN 1 ELSE 0
          /\ Count(scheduled, s) = IF s \in Range(scheduled) THEN 1 ELSE 0
      BY <1>2, CountOnce
    <2>2. /\ s \in Range(waiting) <=> status[s] = "WAITING"
          /\ s \in Range(running) => status[s] = "RUNNING"
          /\ status[s] = "RUNNING" =>
               s \in Range(running) \/ (phase = "decode" /\ s \in Range(scheduled))
      BY <1>1 DEF QueuesInv, QueuedInv
    <2> QED BY <2>1, <2>2, <1>3
  <1> QED BY <1>4 DEF NoRequestLost

\* Every request that was submitted and has not finished is in exactly one of
\* waiting_, running_ and, while the decode loop holds it, the batch.
THEOREM NothingLost == Spec => []NoRequestLost
  BY NotLost, Ordered, PTL

(***************************************************************************)
(* No step throws.                                                         *)
(***************************************************************************)
\* prepare_prefill and prepare_decode find what they check.
LEMMA BatchLegal ==
  ASSUME CoreInv, phase = "run", NEW i \in DOMAIN scheduled
  PROVE  Legal(scheduled[i])
  <1> DEFINE s == scheduled[i]
             T == Len(block_table[s])
  <1>1. /\ SequenceTypeOK /\ SchedulerTypeOK /\ BlockManagerTypeOK
        /\ PositionsInv /\ BatchInv
    BY CoreParts DEF BlockInv
  <1>2. s \in OpenSeqs /\ s \in Seqs
    <2>1. scheduled \in Seq(Seqs) /\ i \in 1..Len(scheduled)
      BY <1>1, LenProperties DEF SchedulerTypeOK
    <2> QED BY <2>1, ElementOfSeq DEF OpenSeqs
  <1> HIDE DEF s
  <1>3. /\ num_scheduled_tokens[s] \in Nat /\ num_cached_tokens[s] \in Nat
        /\ num_tokens(s) \in Nat
    BY <1>1, <1>2, NumBlocks DEF SequenceTypeOK
  <1>4. /\ block_table[s] \in Seq(Blocks) /\ T \in Nat
        /\ T = 0 <=> block_table[s] = <<>>
    BY <1>1, <1>2, LenProperties, EmptySeq DEF BlockManagerTypeOK
  <1>5. /\ num_scheduled_tokens[s] > 0 /\ End(s) <= num_tokens(s)
        /\ num_tokens(s) <= T * BlockSize
    BY <1>1, <1>2 DEF BatchInv, InBatch
  <1>6. End(s) \in Nat \ {0} /\ num_tokens(s) \in Nat \ {0}
    BY <1>3, <1>5 DEF End
  <1>7. block_table[s] # <<>>
    BY <1>4, <1>5, <1>6, SequenceAssumption
  <1>8. ASSUME NEW e \in Nat, e <= num_tokens(s) PROVE CeilDiv(e, BlockSize) <= T
    <2> DEFINE c == CeilDiv(e, BlockSize)
               m == T * BlockSize
               k == c * BlockSize
    <2>1. e + BlockSize - 1 \in Nat /\ BlockSize \in Nat \ {0} /\ m \in Nat
      BY <1>4, <1>8, SequenceAssumption
    <2>2. c \in Nat /\ k <= e + BlockSize - 1
      BY <2>1, DivFacts DEF CeilDiv
    <2>3. k \in Int /\ num_tokens(s) <= m
      BY <2>1, <2>2, <1>5
    <2> HIDE DEF c, m, k
    <2>4. k < m + BlockSize
      BY <1>3, <1>8, <2>1, <2>2, <2>3
    <2> QED BY <1>4, <2>1, <2>2, <2>4, MulCancel DEF c, k, m
  <1>9. PrefillLegal(s)
    BY <1>5, <1>6, <1>7, <1>8 DEF PrefillLegal, HasTable
  <1>10. DecodeLegal(s)
    BY <1>6, <1>7, <1>8 DEF DecodeLegal, HasTable, num_blocks
  <1> QED BY <1>9, <1>10 DEF Legal, s

\* The blocks that can_allocate counts are there when allocate takes them: among the
\* n hits, those that are free leave at most as many fewer free blocks.
LEMMA AllocateEnough ==
  ASSUME CoreInv, NEW s \in Seqs, NEW n \in 0..num_blocks(s) - 1,
         PrefixHits(s, n), can_allocate(s, n)
  PROVE  ~ AllocateThrows(s, n)
  <1> DEFINE N == 1..n
             U == {i \in N : HitBlock(s, i) \in used_block_ids}
             F == {i \in N : HitBlock(s, i) \in free_block_ids}
             hits == {HitBlock(s, i) : i \in N}
             f == [i \in F |-> HitBlock(s, i)]
             taken == free_block_ids \cap hits
  <1>1. SequenceTypeOK /\ BlockInv
    BY CoreParts
  <1>2. num_blocks(s) \in Nat /\ n \in Nat /\ n <= num_blocks(s) - 1
    BY <1>1, NumBlocks
  <1>3. \A i \in N : HitBlock(s, i) \in Blocks
    BY <1>1 DEF BlockInv, PrefixHits, IsHit, HitBlock, BlockManagerTypeOK
  <1>4. \A b \in Blocks : b \in used_block_ids <=> b \notin free_block_ids
    BY <1>1, RefFacts
  <1>5. IsFiniteSet(N) /\ Cardinality(N) = n
    BY <1>2, FS_Interval
  <1>6. F = N \ U /\ U \subseteq N
    BY <1>3, <1>4
  <1>7. IsFiniteSet(U) /\ IsFiniteSet(F)
    BY <1>5, <1>6, FS_Subset
  <1>8. /\ Cardinality(F) = n - Cardinality(U)
        /\ Cardinality(U) \in Nat /\ Cardinality(F) \in Nat
    <2>1. N \cap U = U
      BY <1>6
    <2>2. Cardinality(N \ U) = Cardinality(N) - Cardinality(N \cap U)
      BY <1>5, FS_Difference
    <2> QED BY <2>1, <2>2, <1>5, <1>6, <1>7, FS_CardinalityType
  <1>9. IsFiniteSet(taken) /\ Cardinality(taken) <= Cardinality(F)
    <2>1. f \in Surjection(F, taken)
      <3>1. f \in [F -> taken]
        OBVIOUS
      <3>2. ASSUME NEW b \in taken PROVE \E i \in F : f[i] = b
        <4>1. PICK i \in N : HitBlock(s, i) = b
          OBVIOUS
        <4>2. i \in F /\ f[i] = b
          BY <4>1
        <4> QED BY <4>2
      <3> HIDE DEF f, taken, F
      <3> QED BY <3>1, <3>2 DEF Surjection
    <2> HIDE DEF f, taken, F
    <2> QED BY <2>1, <1>7, FS_Surjection
  <1>10. IsFiniteSet(free_block_ids) /\ Cardinality(free_block_ids) \in Nat
    BY <1>1, BlocksAssumption, FS_Subset, FS_CardinalityType DEF BlockInv, BlockManagerTypeOK
  <1>11. Cardinality(free_block_ids \ hits) = Cardinality(free_block_ids) - Cardinality(taken)
    BY <1>10, FS_Difference
  <1>12. Cardinality(free_block_ids) >= num_blocks(s) - Cardinality(U)
    BY DEF can_allocate, NewBlocksNeeded
  <1>13. Cardinality(taken) \in Nat
    BY <1>9, FS_CardinalityType
  <1> HIDE DEF U, F, taken
  <1>14. ~ (Cardinality(free_block_ids \ hits) < num_blocks(s) - n)
    BY <1>2, <1>8, <1>9, <1>10, <1>11, <1>12, <1>13
  <1> QED BY <1>14 DEF AllocateThrows, FreshCount

LEMMA NotThrown == CoreInv /\ OrderInv => NoStepThrows
  <1> SUFFICES ASSUME CoreInv, OrderInv PROVE NoStepThrows
    OBVIOUS
  <1>1. ~ NoProgressThrows
    BY DEF OrderInv, WorkInv, NoProgressThrows
  <1>2. ~ RunThrows
    BY BatchLegal DEF RunThrows
  <1> QED BY <1>1, <1>2, AllocateEnough DEF NoStepThrows

\* No request that add_request accepted makes a step throw: schedule() always finds
\* something to do, allocate() the blocks can_allocate() promised, and the model
\* runner a batch it can prepare.
THEOREM NothingThrows == Spec => []NoStepThrows
  BY NotThrown, Ordered, PTL

(***************************************************************************)
(* The engine implements Generation.                                       *)
(***************************************************************************)
\* The mapped stage.
Stage == [s \in Seqs |-> IF status[s] = "RUNNING" THEN "WAITING" ELSE status[s]]

LEMMA GenerationInitial == Init => Generation!Init
  <1> SUFFICES ASSUME Init PROVE Generation!Init
    OBVIOUS
  <1>1. Stage = [s \in Seqs |-> "NEW"]
    BY DEF Init, SequenceInit, Stage
  <1> QED BY <1>1 DEF Init, SequenceInit, Generation!Init, Stage

\* Scheduling, preemption, chunks and the model's run are invisible.
LEMMA GenerationStutter ==
  ASSUME UNCHANGED <<token_ids, requestVars>>,
         \A t \in Seqs : \/ status'[t] = status[t]
                         \/ {status[t], status'[t]} \subseteq {"WAITING", "RUNNING"}
  PROVE  UNCHANGED Generation!vars
  <1>1. ASSUME NEW t \in Seqs
        PROVE  (IF status'[t] = "RUNNING" THEN "WAITING" ELSE status'[t])
                 = (IF status[t] = "RUNNING" THEN "WAITING" ELSE status[t])
    OBVIOUS
  <1>2. Stage' = Stage
    BY <1>1 DEF Stage
  <1> QED BY <1>2 DEF Generation!vars, Stage, requestVars

LEMMA SubmitStep ==
  ASSUME CoreInv, NEW s \in Seqs, NEW prompt \in Prompts,
         NEW max \in MaxTokensChoices, NEW ignore \in IgnoreEosChoices,
         add_request(s, prompt, max, ignore)
  PROVE  Generation!Submit(s)
  <1>1. SequenceTypeOK
    BY CoreParts
  <1>2. /\ status[s] = "NEW" /\ max >= 1 /\ prompt # <<>> /\ Len(prompt) + max <= MaxModelLen
        /\ token_ids' = [token_ids EXCEPT ![s] = prompt]
        /\ num_prompt_tokens' = [num_prompt_tokens EXCEPT ![s] = Len(prompt)]
        /\ max_tokens' = [max_tokens EXCEPT ![s] = max]
        /\ ignore_eos' = [ignore_eos EXCEPT ![s] = ignore]
        /\ status' = [status EXCEPT ![s] = "WAITING"]
    BY DEF add_request, NewSequence
  <1>3. Len(prompt) >= 1
    <2>1. prompt \in Seq(Tokens)
      BY EngineAssumption
    <2> QED BY <2>1, <1>2, LenProperties, EmptySeq
  <1>4. Stage' = [Stage EXCEPT ![s] = "WAITING"]
    BY <1>1, <1>2 DEF Stage, SequenceTypeOK
  <1>5. Stage[s] = "NEW"
    BY <1>2 DEF Stage
  <1> QED BY <1>2, <1>3, <1>4, <1>5 DEF Generation!Submit, Stage

\* postprocess yields the tokens one by one, and finishes a request as Generation does.
LEMMA GenerateStep ==
  ASSUME CoreInv, NEW s \in Seqs, NEW t \in Tokens, PostAppend(s, t) \/ PostFinish(s, t)
  PROVE  Generation!Generate(s, t)
  <1>1. SequenceTypeOK
    BY CoreParts
  <1>2. /\ token_ids' = [token_ids EXCEPT ![s] = Append(@, t)]
        /\ UNCHANGED <<num_prompt_tokens, max_tokens, ignore_eos>>
        /\ PostTurn(s) /\ ~ (is_prefill /\ CachedAfter(s) < num_tokens(s))
        /\ \/ ~ Finishes(s, t) /\ status' = status
           \/ Finishes(s, t) /\ status' = [status EXCEPT ![s] = "FINISHED"]
    BY DEF PostAppend, PostFinish, append_token, requestVars
  <1>3. status[s] = "RUNNING"
    <2>1. \A r \in Seqs \ {s} : status'[r] = status[r]
      BY <1>1, <1>2 DEF SequenceTypeOK
    <2> QED BY <1>2, <2>1, PostTurnFacts
  <1>4. Finishes(s, t) <=> Generation!Last(s, t)
    <2>1. /\ Len(token_ids[s]) \in Nat /\ num_prompt_tokens[s] \in Nat /\ max_tokens[s] \in Nat
      BY <1>1, NumBlocks DEF SequenceTypeOK, num_tokens
    <2>2. num_completion_tokens(s) + 1 = max_tokens[s]
            <=> Len(token_ids[s]) - num_prompt_tokens[s] = max_tokens[s] - 1
      BY <2>1 DEF num_completion_tokens, num_tokens
    <2> QED BY <2>2 DEF Finishes, Generation!Last
  <1>5. Stage[s] = "WAITING"
    BY <1>3 DEF Stage
  <1>6. Stage' = [Stage EXCEPT ![s] = IF Finishes(s, t) THEN "FINISHED" ELSE "WAITING"]
    BY <1>1, <1>2, <1>3 DEF Stage, SequenceTypeOK
  <1> QED BY <1>2, <1>4, <1>5, <1>6 DEF Generation!Generate, Stage

LEMMA GenerationStep == CoreInv /\ [Next]_vars => [Generation!Next]_(Generation!vars)
  <1> SUFFICES ASSUME CoreInv, [Next]_vars PROVE [Generation!Next]_(Generation!vars)
    OBVIOUS
  <1>0. SequenceTypeOK /\ SchedulerTypeOK /\ QueuesInv
    BY CoreParts
  <1>1. CASE AddRequest
    BY <1>1, SubmitStep DEF AddRequest, Generation!Next
  <1>2. CASE StartStep \/ Retry \/ PrefillEnd \/ DecodeEnd \/ RunBatch
    <2>1. UNCHANGED <<token_ids, requestVars, status>>
      BY <1>2 DEF StartStep, Retry, PrefillEnd, DecodeEnd, RunBatch, sequenceVars
    <2> QED BY <2>1, GenerationStutter
  <1>3. CASE Prefill
    <2>1. PICK s \in Seqs : /\ PrefillTurn(s) /\ \E n, cached : Take(s, n, cached)
      BY <1>3 DEF Prefill, PrefillAllocate, PrefillContinue
    <2>2. /\ UNCHANGED <<token_ids, requestVars>> /\ waiting # <<>> /\ s = Head(waiting)
          /\ status' = status \/ status' = [status EXCEPT ![s] = "RUNNING"]
      BY <2>1 DEF Take, PrefillTurn
    <2>3. status[s] = "WAITING"
      BY <1>0, <2>2, QueueTail DEF SchedulerTypeOK, QueuesInv
    <2>4. \A t \in Seqs : \/ status'[t] = status[t]
                          \/ {status[t], status'[t]} \subseteq {"WAITING", "RUNNING"}
      BY <1>0, <2>2, <2>3 DEF SequenceTypeOK
    <2> QED BY <2>2, <2>4, GenerationStutter
  <1>4. CASE Decode
    <2>1. PICK s \in Seqs : DecodeTake(s) \/ DecodePreempt(s)
      BY <1>4 DEF Decode
    <2>2. CASE DecodeTake(s)
      <3>1. UNCHANGED <<token_ids, requestVars, status>>
        BY <2>2 DEF DecodeTake
      <3> QED BY <3>1, GenerationStutter
    <2>3. CASE DecodePreempt(s)
      <3>1. /\ UNCHANGED <<token_ids, requestVars>> /\ running # <<>>
            /\ status' = [status EXCEPT ![Last(running)] = "WAITING"]
        BY <2>3 DEF DecodePreempt, DecodeTurn, preempt
      <3>2. Last(running) \in Seqs /\ status[Last(running)] = "RUNNING"
        BY <1>0, <3>1, QueueFront DEF SchedulerTypeOK, QueuesInv
      <3>3. \A t \in Seqs : \/ status'[t] = status[t]
                            \/ {status[t], status'[t]} \subseteq {"WAITING", "RUNNING"}
        BY <1>0, <3>1, <3>2 DEF SequenceTypeOK
      <3> QED BY <3>1, <3>3, GenerationStutter
    <2> QED BY <2>1, <2>2, <2>3
  <1>5. ASSUME NEW s \in Seqs, PostPartialPrefill(s) PROVE UNCHANGED Generation!vars
    <2>1. UNCHANGED <<token_ids, requestVars, status>>
      BY <1>5 DEF PostPartialPrefill
    <2> QED BY <2>1, GenerationStutter
  <1>6. CASE Postprocess
    BY <1>5, <1>6, GenerateStep DEF Postprocess, Generation!Next
  <1>7. CASE UNCHANGED vars
    <2>1. UNCHANGED <<token_ids, requestVars, status>>
      BY <1>7 DEF vars, sequenceVars
    <2> QED BY <2>1, GenerationStutter
  <1> QED BY <1>1, <1>2, <1>3, <1>4, <1>6, <1>7 DEF Next, step, Schedule

\* The engine implements Generation: with batching, paging, sharing and preemption out
\* of sight, the tokens of a request grow one by one and never beyond max_tokens.
THEOREM Implements == Spec => ImplementsGeneration
  <1>1. Init => Generation!Init
    BY GenerationInitial
  <1> QED BY <1>1, GenerationStep, Invariance, PTL DEF Spec, ImplementsGeneration, Generation!Spec

(***************************************************************************)
(* Sharing is right: PrefixInv is inductive beside IInv.  A block keeps    *)
(* its hash exactly as long as it holds the keys and values of that        *)
(* prefix, a block without hash has one owner, so what attention reads     *)
(* through a table is what the request's own tokens would have produced,   *)
(* and no hashed block is ever written.                                    *)
(***************************************************************************)


(***************************************************************************)
(* Positions and prefixes.                                                 *)
(***************************************************************************)
LEMMA OffsetOf ==
  ASSUME NEW p \in Nat
  PROVE  p % BlockSize \in Offsets
  <1>1. BlockSize \in Nat \ {0}
    BY SequenceAssumption
  <1>2. p % BlockSize \in 0..BlockSize - 1
    BY <1>1, SplitPosition, Zenon
  <1> QED BY <1>2 DEF Offsets

\* The first c positions lie in the entries that cover them, and the ones behind the
\* first c in entries that are not full.
LEMMA PositionEntry ==
  ASSUME NEW p \in Nat, NEW c \in Nat, NEW T \in Nat, NEW d \in Nat \ {0}
  PROVE  /\ p < T * d => p \div d + 1 \in 1..T
         /\ p >= c => p \div d + 1 >= c \div d + 1
         /\ c \div d \in Nat
         /\ c <= T * d => c \div d <= T
  <1> DEFINE a == p \div d
             b == c \div d
  <1>1. /\ a \in Nat /\ a * d <= p /\ p < a * d + d
        /\ b \in Nat /\ b * d <= c /\ c < b * d + d
    BY DivFacts
  <1>2. a * d \in Nat /\ b * d \in Nat /\ T * d \in Nat
    BY <1>1
  <1> HIDE DEF a, b
  <1>3. ASSUME p < T * d PROVE a + 1 \in 1..T
    <2>1. (a + 1) * d = a * d + d
      BY <1>1
    <2>2. (a + 1) * d < T * d + d
      <3> DEFINE x == a * d
                 y == T * d
      <3>1. x <= p /\ p < y /\ x \in Nat /\ y \in Nat
        BY <1>1, <1>2, <1>3
      <3> HIDE DEF x, y
      <3>2. x + d < y + d
        BY <3>1
      <3> QED BY <3>2, <2>1 DEF x, y
    <2> QED BY <2>2, <1>1, MulCancel
  <1>4. ASSUME p >= c PROVE a + 1 >= b + 1
    <2>1. b * d < a * d + d
      <3> DEFINE x == a * d
                 y == b * d
      <3>1. p < x + d /\ y <= c /\ x \in Nat /\ y \in Nat
        BY <1>1, <1>2
      <3> HIDE DEF x, y
      <3>2. y < x + d
        BY <3>1, <1>4
      <3> QED BY <3>2 DEF x, y
    <2>2. b <= a
      BY <2>1, <1>1, MulCancel
    <2> QED BY <2>2, <1>1
  <1>5. ASSUME c <= T * d PROVE b <= T
    <2>1. b * d < T * d + d
      <3> DEFINE x == T * d
                 y == b * d
      <3>1. y <= c /\ c <= x /\ x \in Nat /\ y \in Nat
        BY <1>1, <1>2, <1>5
      <3> HIDE DEF x, y
      <3>2. y < x + d
        BY <3>1
      <3> QED BY <3>2 DEF x, y
    <2> QED BY <2>1, <1>1, MulCancel
  <1> QED BY <1>1, <1>3, <1>4, <1>5 DEF a, b

LEMMA PrefixOfPrefix ==
  ASSUME NEW S, NEW q \in Seq(S), NEW n \in 0..Len(q), NEW m \in 0..n
  PROVE  /\ Len(SubSeq(q, 1, n)) = n
         /\ SubSeq(SubSeq(q, 1, n), 1, m) = SubSeq(q, 1, m)
  <1>1. Len(q) \in Nat /\ \A i \in 1..Len(q) : q[i] \in S
    BY RangeMembers
  <1>2. Len(SubSeq(q, 1, n)) = n
    BY <1>1, SubSeqProperties
  <1>3. CASE m = 0
    BY <1>3, SubSeqEmpty
  <1>4. CASE m # 0
    <2>1. 1 \in 1..Len(q) /\ n \in 1..Len(q) /\ 1 \in 1..n - 1 + 1 /\ m \in 1..n - 1 + 1
      BY <1>1, <1>4
    <2>2. SubSeq(SubSeq(q, 1, n), 1, m) = SubSeq(q, 1 + 1 - 1, 1 + m - 1)
      BY <2>1, SubSeqOfSubSeq
    <2>3. 1 + 1 - 1 = 1 /\ 1 + m - 1 = m
      BY <1>4
    <2> QED BY <1>2, <2>2, <2>3
  <1> QED BY <1>2, <1>3, <1>4

LEMMA PrefixOfAppend ==
  ASSUME NEW S, NEW q \in Seq(S), NEW x \in S, NEW m \in 0..Len(q)
  PROVE  SubSeq(Append(q, x), 1, m) = SubSeq(q, 1, m)
  <1>1. Len(q) \in Nat
    BY LenProperties
  <1>2. CASE m = 0
    BY <1>2, SubSeqEmpty
  <1>3. CASE m # 0
    <2>1. <<x>> \in Seq(S) /\ 1 \in 1..Len(q) /\ m \in 1..Len(q)
      BY <1>1, <1>3
    <2>2. Append(q, x) = q \o <<x>>
      BY AppendIsConcat
    <2> QED BY <2>1, <2>2, SubSeqOfConcat1
  <1> QED BY <1>2, <1>3

LEMMA PrefixGrows ==
  ASSUME NEW S, NEW q \in Seq(S), NEW n \in 0..Len(q), NEW m \in 0..n
  PROVE  SubSeq(q, 1, m) \o SubSeq(q, m + 1, n) = SubSeq(q, 1, n)
  <1>1. Len(q) \in Nat
    BY LenProperties
  <1>2. 1 \in 1..Len(q) + 1 /\ m \in 1 - 1..Len(q) /\ n \in m..Len(q)
    BY <1>1
  <1> QED BY <1>2, ConcatAdjacentSubSeq

(***************************************************************************)
(* What the parts of PrefixInv say about one request.                      *)
(***************************************************************************)
\* The hash of a full block is no reset hash, and the prefixes in it are the request's.
LEMMA PrefixHashFacts ==
  ASSUME SequenceTypeOK, NEW s \in Seqs, NEW i \in Nat \ {0}, i * BlockSize <= num_tokens(s)
  PROVE  /\ Len(PrefixHash(s, i)) = i * BlockSize
         /\ PrefixHash(s, i) # NoHash
         /\ \A o \in Offsets :
              SubSeq(PrefixHash(s, i), 1, Len(PrefixHash(s, i)) - BlockSize + o + 1)
                = Prefix(s, (i - 1) * BlockSize + o)
  <1> DEFINE n == i * BlockSize
             q == token_ids[s]
  <1>1. q \in Seq(Tokens) /\ Len(q) \in Nat
    BY LenProperties DEF SequenceTypeOK
  <1>2. n \in Nat /\ BlockSize <= n /\ (i - 1) * BlockSize = n - BlockSize
    <2>1. BlockSize \in Nat \ {0, 1} /\ 1 <= i
      BY SequenceAssumption
    <2>2. 1 * BlockSize <= i * BlockSize
      BY <2>1, MulMono
    <2>3. (i - 1) * BlockSize = i * BlockSize - BlockSize
      BY <2>1
    <2> QED BY <2>1, <2>2, <2>3
  <1>3. n \in 0..Len(q)
    <2> HIDE DEF n
    <2> QED BY <1>1, <1>2 DEF n, num_tokens
  <1> HIDE DEF n
  <1>4. PrefixHash(s, i) = SubSeq(q, 1, n) /\ Len(SubSeq(q, 1, n)) = n
    BY <1>1, <1>3, PrefixOfPrefix DEF PrefixHash, n
  <1>5. PrefixHash(s, i) # NoHash
    <2>1. Len(NoHash) = 1
      BY DEF NoHash
    <2> QED BY <2>1, <1>2, <1>4, SequenceAssumption
  <1>6. ASSUME NEW o \in Offsets
        PROVE  SubSeq(PrefixHash(s, i), 1, Len(PrefixHash(s, i)) - BlockSize + o + 1)
                 = Prefix(s, (i - 1) * BlockSize + o)
    <2>1. n - BlockSize + o + 1 \in 0..n
      BY <1>2, SequenceAssumption DEF Offsets
    <2> QED BY <2>1, <1>1, <1>2, <1>3, <1>4, PrefixOfPrefix DEF Prefix
  <1> QED BY <1>4, <1>5, <1>6 DEF n

\* What IInv says about the table of a request and the positions it covers.
LEMMA TableFacts ==
  ASSUME IInv, NEW s \in Seqs
  PROVE  /\ token_ids[s] \in Seq(Tokens) /\ num_tokens(s) \in Nat
         /\ num_cached_tokens[s] \in Nat /\ num_scheduled_tokens[s] \in Nat
         /\ First(s) \in Nat /\ End(s) \in Nat /\ First(s) <= End(s) /\ End(s) <= num_tokens(s)
         /\ block_table[s] \in Seq(Blocks) /\ Len(block_table[s]) \in Nat
         /\ DOMAIN block_table[s] = 1..Len(block_table[s])
         /\ \A i \in 1..Len(block_table[s]) : block_table[s][i] \in Blocks
         /\ \A p \in Nat : p < End(s) => p \div BlockSize + 1 \in 1..Len(block_table[s])
         /\ FirstUnhashed(s) \in Nat /\ FirstUnhashed(s) <= Len(block_table[s])
         /\ \A i \in 1..FirstUnhashed(s) : i * BlockSize <= num_tokens(s)
  <1> DEFINE T == Len(block_table[s])
             c == num_cached_tokens[s]
             k == num_scheduled_tokens[s]
             n == num_tokens(s)
             top == T * BlockSize
  <1>1. SequenceTypeOK /\ BlockManagerTypeOK /\ PositionsInv
    BY IInvParts DEF BlockInv
  <1>2. token_ids[s] \in Seq(Tokens) /\ n \in Nat /\ c \in Nat /\ k \in Nat
        /\ status[s] \in {"NEW", "WAITING", "RUNNING", "FINISHED"}
    BY <1>1, LenProperties DEF SequenceTypeOK, num_tokens
  <1>3. /\ block_table[s] \in Seq(Blocks) /\ T \in Nat /\ DOMAIN block_table[s] = 1..T
        /\ \A i \in 1..T : block_table[s][i] \in Blocks
    BY <1>1, RangeMembers DEF BlockManagerTypeOK
  <1>4. BlockSize \in Nat \ {0} /\ top \in Nat
    BY <1>3, SequenceAssumption
  <1>6. c + k <= n /\ c + k <= top
    BY AlignedFacts DEF End
  <1> HIDE DEF T, c, k, n
  <1>7. ASSUME NEW p \in Nat, p < c + k PROVE p \div BlockSize + 1 \in 1..T
    <2>1. p < top
      <3> HIDE DEF top
      <3> QED BY <1>2, <1>4, <1>6, <1>7
    <2> QED BY <2>1, <1>3, <1>4, PositionEntry
  <1>8. c \div BlockSize \in Nat /\ c \div BlockSize <= T
    <2>1. c <= top
      <3> HIDE DEF top
      <3> QED BY <1>2, <1>4, <1>6
    <2> QED BY <2>1, <1>2, <1>3, <1>4, PositionEntry
  <1>9. ASSUME NEW i \in 1..c \div BlockSize PROVE i * BlockSize <= n
    <2>1. i * BlockSize <= (c \div BlockSize) * BlockSize
      BY <1>4, <1>8, MulMono
    <2>2. (c \div BlockSize) * BlockSize <= c /\ (c \div BlockSize) * BlockSize \in Nat
      BY <1>2, <1>4, <1>8, DivFacts
    <2> DEFINE x == i * BlockSize
               y == (c \div BlockSize) * BlockSize
    <2>3. x \in Int
      BY <1>4
    <2> HIDE DEF x, y
    <2>4. x <= n
      BY <2>1, <2>2, <2>3, <1>2, <1>6 DEF x, y
    <2> QED BY <2>4 DEF x
  <1>10. c \in Nat /\ c + k \in Nat /\ c <= c + k
    BY <1>2
  <1> QED BY <1>2, <1>3, <1>6, <1>7, <1>8, <1>9, <1>10 DEF T, c, k, n, First, End, FirstUnhashed

\* A block with the hash of a request's prefix holds that prefix.
LEMMA FullContents ==
  ASSUME SequenceTypeOK, ContentsRight, NEW s \in Seqs, NEW i \in Nat \ {0},
         i * BlockSize <= num_tokens(s),
         NEW b \in Blocks, hash[b] = PrefixHash(s, i)
  PROVE  \A o \in Offsets : kv[b][o] = Prefix(s, (i - 1) * BlockSize + o)
  <1>1. /\ PrefixHash(s, i) # NoHash
        /\ \A o \in Offsets :
             SubSeq(PrefixHash(s, i), 1, Len(PrefixHash(s, i)) - BlockSize + o + 1)
               = Prefix(s, (i - 1) * BlockSize + o)
    BY PrefixHashFacts
  <1>2. \A o \in Offsets : kv[b][o] = SubSeq(hash[b], 1, Len(hash[b]) - BlockSize + o + 1)
    BY <1>1 DEF ContentsRight
  <1> QED BY <1>1, <1>2

\* A free block is in no table.
LEMMA FreeUnheld ==
  ASSUME BlockInv, NEW b \in free_block_ids, NEW t \in Seqs, NEW j \in DOMAIN block_table[t]
  PROVE  block_table[t][j] # b
  <1>1. b \in Blocks
    BY DEF BlockInv, BlockManagerTypeOK
  <1>2. Cardinality(Holders(b)) = 0
    BY <1>1, RefFacts
  <1>3. IsFiniteSet(Holders(b))
    BY HoldersFinite DEF BlockInv
  <1>4. Holders(b) = {}
    BY <1>2, <1>3, FS_EmptySet
  <1>5. SUFFICES ASSUME block_table[t][j] = b PROVE FALSE
    OBVIOUS
  <1>6. j \in Positions(block_table[t], b)
    BY <1>5 DEF Positions
  <1>7. <<t, j>> \in Holders(b)
    BY <1>6 DEF Holders
  <1> QED BY <1>4, <1>7

\* _allocate_block: forgetting blocks leaves the index exact and the rest as it is.
LEMMA ForgetRight ==
  ASSUME BlockManagerTypeOK, IndexSound, ContentsRight, NEW F \in SUBSET Blocks,
         ForgetContents(F), kv' = kv
  PROVE  /\ IndexSound' /\ ContentsRight'
         /\ \A b \in Blocks : hash'[b] = IF b \in F THEN NoHash ELSE hash[b]
  <1>1. \A b \in Blocks : hash'[b] = IF b \in F THEN NoHash ELSE hash[b]
    BY DEF ForgetContents
  <1>2. ContentsRight'
    BY <1>1 DEF ContentsRight
  <1>3. ASSUME NEW h \in DOMAIN hash_to_block_id'
        PROVE  h # NoHash /\ hash'[hash_to_block_id'[h]] = h
    <2>1. /\ h \in DOMAIN hash_to_block_id
          /\ ~ \E b \in F : hash_to_block_id[h] = b /\ hash[b] = h
          /\ hash_to_block_id'[h] = hash_to_block_id[h]
      BY DEF ForgetContents, Restrict
    <2>2. hash_to_block_id[h] \in Blocks /\ h # NoHash /\ hash[hash_to_block_id[h]] = h
      BY <2>1 DEF BlockManagerTypeOK, IndexSound
    <2> QED BY <2>1, <2>2, <1>1
  <1> QED BY <1>1, <1>2, <1>3 DEF IndexSound

(***************************************************************************)
(* Steps that leave tables, blocks and the KV cache alone.                 *)
(***************************************************************************)
LEMMA InitPrefix == Init => PrefixInv
  <1> SUFFICES ASSUME Init PROVE PrefixInv
    OBVIOUS
  <1>1. /\ \A s \in Seqs : /\ num_cached_tokens[s] = 0 /\ num_scheduled_tokens[s] = 0
                           /\ block_table[s] = <<>> /\ status[s] = "NEW"
        /\ \A b \in Blocks : hash[b] = NoHash
        /\ hash_to_block_id = <<>> /\ phase = "idle"
    BY DEF Init, SequenceInit, BlockManagerInit, SchedulerInit
  <1>2. ContentsRight /\ IndexSound /\ DecodesOne
    <2>1. DOMAIN hash_to_block_id = {}
      BY <1>1
    <2> QED BY <1>1, <2>1 DEF ContentsRight, IndexSound, DecodesOne, Decoding
  <1>3. 0 \div BlockSize = 0
    BY JoinPosition, SequenceAssumption
  <1>4. ASSUME NEW s \in Seqs
        PROVE  FullHashed(s) /\ OpenOwned(s) /\ ContextRight(s, Computed(s)) /\ Tight(s)
    <2>1. FirstUnhashed(s) = 0 /\ Len(block_table[s]) = 0 /\ Computed(s) = 0
      BY <1>1, <1>3 DEF FirstUnhashed, Computed, First
    <2> QED BY <1>1, <2>1 DEF FullHashed, OpenOwned, ContextRight, Tight
  <1> QED BY <1>2, <1>4 DEF PrefixInv

\* Nothing of a request changes that its part of PrefixInv speaks of.
LEMMA RequestSame ==
  ASSUME NEW t \in Seqs,
         FullHashed(t), OpenOwned(t), ContextRight(t, Computed(t)),
         UNCHANGED <<block_table, hash, kv>>,
         token_ids'[t] = token_ids[t], num_cached_tokens'[t] = num_cached_tokens[t],
         Computed(t)' = Computed(t)
  PROVE  FullHashed(t)' /\ OpenOwned(t)' /\ ContextRight(t, Computed(t))'
  BY DEF FullHashed, OpenOwned, Owned, ContextRight, KVAt, Prefix, FirstUnhashed, PrefixHash

\* A request that has no blocks afterwards has nothing that could be wrong.
LEMMA NoTable ==
  ASSUME NEW t \in Seqs, block_table'[t] = <<>>,
         num_cached_tokens'[t] = 0, num_scheduled_tokens'[t] = 0
  PROVE  (FullHashed(t) /\ OpenOwned(t) /\ ContextRight(t, Computed(t)))'
  <1>1. 0 \div BlockSize = 0
    BY JoinPosition, SequenceAssumption
  <1>2. FirstUnhashed(t)' = 0 /\ Len(block_table'[t]) = 0 /\ Computed(t)' = 0
    BY <1>1 DEF FirstUnhashed, Computed, First, End
  <1> QED BY <1>2 DEF FullHashed, OpenOwned, ContextRight

LEMMA AddRequestPrefix ==
  ASSUME IInv, PrefixInv, NEW s \in Seqs, NEW prompt \in Prompts,
         NEW max \in MaxTokensChoices, NEW ignore \in IgnoreEosChoices,
         add_request(s, prompt, max, ignore)
  PROVE  PrefixInv'
  <1>1. /\ SequenceTypeOK /\ PositionsInv /\ BatchInv
        /\ ContentsRight /\ IndexSound
        /\ \A t \in Seqs : FullHashed(t) /\ OpenOwned(t) /\ ContextRight(t, Computed(t)) /\ Tight(t)
    BY IInvParts DEF PrefixInv
  <1>2. /\ phase = "idle" /\ phase' = "idle" /\ status[s] = "NEW"
        /\ token_ids' = [token_ids EXCEPT ![s] = prompt]
        /\ status' = [status EXCEPT ![s] = "WAITING"]
        /\ UNCHANGED <<num_cached_tokens, num_scheduled_tokens, block_table, kv,
                       hash, block_tokens, hash_to_block_id>>
    BY DEF add_request, NewSequence, blockVars
  <1>3. ContentsRight' /\ IndexSound' /\ DecodesOne'
    BY <1>1, <1>2 DEF ContentsRight, IndexSound, DecodesOne, Decoding
  <1>4. \A t \in Seqs : /\ t # s => token_ids'[t] = token_ids[t] /\ status'[t] = status[t]
                        /\ t = s => status'[t] = "WAITING"
    BY <1>1, <1>2 DEF SequenceTypeOK
  <1>5. ASSUME NEW t \in Seqs, t # s
        PROVE  (FullHashed(t) /\ OpenOwned(t) /\ ContextRight(t, Computed(t)) /\ Tight(t))'
    <2>1. Computed(t)' = Computed(t)
      BY <1>2 DEF Computed, First
    <2>2. Tight(t)'
      BY <1>1, <1>2, <1>4, <1>5 DEF Tight, End, HasTable, num_tokens
    <2> QED BY <1>1, <1>2, <1>4, <1>5, <2>1, <2>2, RequestSame
  <1>6. (FullHashed(s) /\ OpenOwned(s) /\ ContextRight(s, Computed(s)) /\ Tight(s))'
    <2>1. block_table[s] = <<>> /\ num_cached_tokens[s] = 0 /\ num_scheduled_tokens[s] = 0
      BY <1>2, AlignedFacts
    <2>2. Tight(s)'
      BY <1>2, <1>4, <2>1 DEF Tight, HasTable
    <2> QED BY <1>2, <2>1, <2>2, NoTable
  <1> QED BY <1>3, <1>5, <1>6 DEF PrefixInv

\* Entering a loop of schedule() or leaving it.
LEMMA LoopPrefix ==
  ASSUME IInv, PrefixInv, StartStep \/ Retry \/ PrefillEnd \/ DecodeEnd, UNCHANGED kv
  PROVE  PrefixInv'
  <1>1. /\ SchedulerTypeOK /\ BatchInv
        /\ ContentsRight /\ IndexSound /\ DecodesOne
        /\ \A t \in Seqs : FullHashed(t) /\ OpenOwned(t) /\ ContextRight(t, Computed(t)) /\ Tight(t)
    BY IInvParts DEF PrefixInv
  <1>2. /\ UNCHANGED <<status, token_ids, num_cached_tokens, num_scheduled_tokens, block_table, kv,
                       hash, block_tokens, hash_to_block_id>>
        /\ phase # "post" /\ phase' # "post"
        /\ \/ phase' = "prefill"
           \/ phase' = "run" /\ is_prefill' = TRUE
           \/ phase' = "decode" /\ scheduled' = <<>>
           \/ phase = "decode" /\ phase' = "run" /\ scheduled' = scheduled /\ is_prefill' = FALSE
    BY DEF StartStep, Retry, PrefillEnd, DecodeEnd, EnterSchedule, sequenceVars, blockVars
  <1>3. ContentsRight' /\ IndexSound'
    BY <1>1, <1>2 DEF ContentsRight, IndexSound
  <1>4. DecodesOne'
    <2>1. scheduled' = <<>> => OpenSeqs' = {}
      BY DEF OpenSeqs
    <2>2. phase = "decode" /\ phase' = "run" /\ scheduled' = scheduled => OpenSeqs' = OpenSeqs
      BY DEF OpenSeqs
    <2> QED BY <1>1, <1>2, <2>1, <2>2 DEF DecodesOne, Decoding
  <1>5. ASSUME NEW t \in Seqs
        PROVE  (FullHashed(t) /\ OpenOwned(t) /\ ContextRight(t, Computed(t)) /\ Tight(t))'
    <2>1. Computed(t)' = Computed(t)
      BY <1>2 DEF Computed, First
    <2>2. Tight(t)'
      BY <1>1, <1>2 DEF Tight, End, HasTable, num_tokens
    <2> QED BY <1>1, <1>2, <2>1, <2>2, RequestSame
  <1> QED BY <1>3, <1>4, <1>5 DEF PrefixInv

\* What Take does to the schedule of s, for either way into a prefill batch.
LEMMA TakeTight ==
  ASSUME SequenceTypeOK, NEW s \in Seqs, NEW n, NEW cached, Take(s, n, cached), PrefillTurn(s),
         num_cached_tokens'[s] = cached
  PROVE  /\ UNCHANGED token_ids /\ phase = "prefill" /\ phase' = "prefill"
         /\ \A t \in Seqs \ {s} : /\ status'[t] = status[t]
                                  /\ num_scheduled_tokens'[t] = num_scheduled_tokens[t]
         /\ \/ status'[s] = "RUNNING" /\ End(s)' = num_tokens(s)
            \/ status'[s] = status[s]
  <1> DEFINE sched == IF n <= Remaining THEN n ELSE Remaining
  <1>1. /\ num_scheduled_tokens' = [num_scheduled_tokens EXCEPT ![s] = sched]
        /\ \/ cached + sched = num_tokens(s) /\ status' = [status EXCEPT ![s] = "RUNNING"]
           \/ status' = status
        /\ token_ids' = token_ids /\ phase = "prefill" /\ phase' = phase
    BY DEF Take, PrefillTurn
  <1> HIDE DEF sched
  <1>2. num_scheduled_tokens'[s] = sched
    BY <1>1 DEF SequenceTypeOK
  <1> QED BY <1>1, <1>2 DEF SequenceTypeOK, End

LEMMA PrefillContinuePrefix ==
  ASSUME IInv, PrefixInv, NEW s \in Seqs, PrefillContinue(s), UNCHANGED kv
  PROVE  PrefixInv'
  <1>1. /\ SequenceTypeOK /\ SchedulerTypeOK /\ QueuesInv
        /\ ContentsRight /\ IndexSound
        /\ \A t \in Seqs : FullHashed(t) /\ OpenOwned(t) /\ ContextRight(t, Computed(t)) /\ Tight(t)
    BY IInvParts DEF PrefixInv
  <1>2. /\ PrefillTurn(s) /\ HasTable(s)
        /\ Take(s, num_tokens(s) - num_cached_tokens[s], num_cached_tokens[s])
        /\ UNCHANGED <<num_cached_tokens, block_table, kv, hash, block_tokens, hash_to_block_id>>
    BY DEF PrefillContinue, blockVars
  <1>3. /\ UNCHANGED token_ids /\ phase = "prefill" /\ phase' = "prefill"
        /\ \A t \in Seqs \ {s} : /\ status'[t] = status[t]
                                 /\ num_scheduled_tokens'[t] = num_scheduled_tokens[t]
        /\ \/ status'[s] = "RUNNING" /\ End(s)' = num_tokens(s)
           \/ status'[s] = status[s]
    BY <1>1, <1>2, TakeTight
  <1>4. status[s] = "WAITING"
    BY <1>1, <1>2, QueueTail DEF PrefillTurn, SchedulerTypeOK, QueuesInv
  <1>5. ContentsRight' /\ IndexSound' /\ DecodesOne'
    BY <1>1, <1>2, <1>3 DEF ContentsRight, IndexSound, DecodesOne, Decoding
  <1>6. ASSUME NEW t \in Seqs
        PROVE  (FullHashed(t) /\ OpenOwned(t) /\ ContextRight(t, Computed(t)) /\ Tight(t))'
    <2>1. Computed(t)' = Computed(t)
      BY <1>2, <1>3 DEF Computed, First
    <2>2. CASE t = s
      <3>1. (Len(block_table[s]) - 1) * BlockSize < num_tokens(s)
        BY <1>1, <1>2, <1>4 DEF Tight
      <3>2. Tight(s)'
        BY <1>2, <1>3, <1>4, <3>1 DEF Tight, num_tokens
      <3> QED BY <1>1, <1>2, <1>3, <2>1, <2>2, <3>2, RequestSame
    <2>3. CASE t # s
      <3>1. Tight(t)'
        BY <1>1, <1>2, <1>3, <2>3 DEF Tight, End, HasTable, num_tokens
      <3> QED BY <1>1, <1>2, <1>3, <2>1, <3>1, RequestSame
    <2> QED BY <2>2, <2>3
  <1> QED BY <1>5, <1>6 DEF PrefixInv

(***************************************************************************)
(* Steps that move blocks.                                                 *)
(***************************************************************************)
\* Tables change by dropping entries, or by entries for blocks that nobody else has or
\* that carry a hash; an open entry stays the only one for its block.
LEMMA OthersOwned ==
  ASSUME NEW s \in Seqs, NEW t \in Seqs, t # s, OpenOwned(t),
         num_cached_tokens'[t] = num_cached_tokens[t],
         \A u \in Seqs \ {s} : block_table'[u] = block_table[u],
         \A b : (\E i \in FirstUnhashed(t) + 1..Len(block_table[t]) : block_table[t][i] = b)
            => hash'[b] = NoHash /\ \A j \in DOMAIN block_table'[s] : block_table'[s][j] # b
  PROVE  OpenOwned(t)'
  <1>1. FirstUnhashed(t)' = FirstUnhashed(t) /\ block_table'[t] = block_table[t]
    BY DEF FirstUnhashed
  <1>2. ASSUME NEW i \in FirstUnhashed(t) + 1..Len(block_table[t])
        PROVE  hash'[block_table[t][i]] = NoHash /\ Owned(t, i)'
    <2>1. /\ hash'[block_table[t][i]] = NoHash
          /\ \A j \in DOMAIN block_table'[s] : block_table'[s][j] # block_table[t][i]
      OBVIOUS
    <2>2. Owned(t, i)
      BY DEF OpenOwned
    <2> QED BY <1>1, <2>1, <2>2 DEF Owned
  <1> QED BY <1>1, <1>2 DEF OpenOwned

\* The reads of a request whose table keeps its covered entries.
LEMMA ContextSame ==
  ASSUME IInv, NEW t \in Seqs, NEW c \in Nat, NEW d \in Nat, d <= c, c <= End(t), ContextRight(t, c),
         kv' = kv,
         \A p \in 0..d - 1 : Prefix(t, p)' = Prefix(t, p),
         \A i \in 1..Len(block_table[t]) : block_table'[t][i] = block_table[t][i]
  PROVE  ContextRight(t, d)'
  <1>1. ASSUME NEW p \in 0..d - 1 PROVE KVAt(t, p)' = Prefix(t, p)'
    <2>1. p \in Nat /\ p < End(t) /\ p \in 0..c - 1
      BY TableFacts
    <2>2. KVAt(t, p) = Prefix(t, p)
      BY <2>1 DEF ContextRight
    <2>3. p \div BlockSize + 1 \in 1..Len(block_table[t])
      BY <2>1, TableFacts
    <2>4. KVAt(t, p)' = KVAt(t, p)
      BY <2>3 DEF KVAt
    <2> QED BY <2>2, <2>4
  <1> QED BY <1>1 DEF ContextRight

\* An open entry is within the table and names a block without hash.
LEMMA OpenEntry ==
  ASSUME IInv, NEW t \in Seqs, OpenOwned(t), NEW i \in FirstUnhashed(t) + 1..Len(block_table[t])
  PROVE  /\ i \in 1..Len(block_table[t]) /\ i \in DOMAIN block_table[t]
         /\ block_table[t][i] \in Blocks
         /\ hash[block_table[t][i]] = NoHash /\ Owned(t, i)
  <1>1. i \in 1..Len(block_table[t])
    BY TableFacts
  <1> QED BY <1>1, TableFacts DEF OpenOwned

LEMMA PrefillAllocatePrefix ==
  ASSUME IInv, PrefixInv, NEW s \in Seqs, NEW n \in 0..num_blocks(s) - 1,
         PrefillAllocate(s, n), UNCHANGED kv
  PROVE  PrefixInv'
  <1> DEFINE hits == [i \in 1..n |-> HitBlock(s, i)]
             N == num_blocks(s)
  <1>1. /\ SequenceTypeOK /\ SchedulerTypeOK /\ BlockInv /\ BlockManagerTypeOK /\ PositionsInv
        /\ ContentsRight /\ IndexSound
        /\ \A t \in Seqs : FullHashed(t) /\ OpenOwned(t) /\ ContextRight(t, Computed(t)) /\ Tight(t)
    BY IInvParts DEF PrefixInv, BlockInv
  <1>2. /\ PrefillTurn(s) /\ block_table[s] = <<>> /\ PrefixHits(s, n) /\ allocate(s, n)
        /\ Take(s, num_tokens(s) - n * BlockSize, n * BlockSize)
        /\ kv' = kv
    BY DEF PrefillAllocate, HasTable
  <1>3. /\ num_tokens(s) \in Nat /\ N \in Nat /\ n \in Nat /\ n <= N - 1
        /\ (N - 1) * BlockSize <= num_tokens(s) - 1
        /\ \A i \in 1..n : i * BlockSize <= num_tokens(s)
    <2>1. num_tokens(s) \in Nat /\ N \in Nat
      BY <1>1, NumBlocks
    <2>2. n \in Nat /\ n <= N - 1 /\ N - 1 <= N - 1
      BY <2>1
    <2>3. \A m \in Int : m <= N - 1 => m * BlockSize <= num_tokens(s) - 1
      BY <1>1, NumBlocks
    <2>4. ASSUME NEW i \in 1..n PROVE i * BlockSize <= num_tokens(s)
      <3>1. i * BlockSize <= num_tokens(s) - 1
        BY <2>1, <2>2, <2>3
      <3>2. i * BlockSize \in Int
        BY SequenceAssumption
      <3> DEFINE x == i * BlockSize
      <3> HIDE DEF x
      <3>3. x <= num_tokens(s)
        BY <2>1, <3>1, <3>2 DEF x
      <3> QED BY <3>3 DEF x
    <2>5. (N - 1) * BlockSize <= num_tokens(s) - 1
      BY <2>1, <2>2, <2>3
    <2> QED BY <2>1, <2>2, <2>4, <2>5
  <1> HIDE DEF N
  <1>4. PICK fresh \in FreshBlocks(s, hits, FreshCount(s, n)) :
          /\ block_table' = [block_table EXCEPT ![s] = hits \o fresh]
          /\ num_cached_tokens' = [num_cached_tokens EXCEPT ![s] = n * BlockSize]
          /\ ForgetContents(Range(fresh))
    BY <1>2 DEF allocate
  <1>5. /\ fresh \in [1..FreshCount(s, n) -> free_block_ids]
        /\ \A i \in DOMAIN fresh : fresh[i] \notin Range(hits)
        /\ IsInjective(fresh)
    BY <1>4 DEF FreshBlocks
  <1>6. /\ hits \in Seq(Blocks) /\ Len(hits) = n
        /\ fresh \in Seq(Blocks) /\ Len(fresh) = N - n
        /\ Range(fresh) \subseteq free_block_ids /\ Range(hits) \subseteq Blocks
        /\ free_block_ids \subseteq Blocks
    BY <1>1, <1>2, <1>5, AllocateTable DEF FreshCount, N, BlockManagerTypeOK
  <1>7. /\ block_table'[s] = hits \o fresh
        /\ \A t \in Seqs \ {s} : block_table'[t] = block_table[t]
        /\ num_cached_tokens'[s] = n * BlockSize
        /\ \A t \in Seqs \ {s} : num_cached_tokens'[t] = num_cached_tokens[t]
    BY <1>1, <1>4 DEF BlockManagerTypeOK, SequenceTypeOK
  \* The new table: hits, whose hashes are the prefixes, then fresh blocks.
  <1>8. /\ Len(block_table'[s]) = N /\ DOMAIN block_table'[s] = 1..N
        /\ \A i \in 1..n : block_table'[s][i] = HitBlock(s, i)
        /\ \A i \in n + 1..N : /\ i - n \in DOMAIN fresh
                               /\ block_table'[s][i] = fresh[i - n]
                               /\ block_table'[s][i] \in Range(fresh)
    <2>1. /\ hits \o fresh \in Seq(Blocks) /\ Len(hits \o fresh) = n + (N - n)
          /\ \A i \in 1..n + (N - n) :
               (hits \o fresh)[i] = IF i <= n THEN hits[i] ELSE fresh[i - n]
      BY <1>6, ConcatProperties
    <2>2. n + (N - n) = N /\ DOMAIN (hits \o fresh) = 1..N
      BY <1>3, <2>1, LenProperties
    <2>3. ASSUME NEW i \in 1..n PROVE (hits \o fresh)[i] = HitBlock(s, i)
      BY <1>3, <2>1, <2>2
    <2>4. ASSUME NEW i \in n + 1..N
          PROVE  /\ i - n \in DOMAIN fresh /\ (hits \o fresh)[i] = fresh[i - n]
                 /\ fresh[i - n] \in Range(fresh)
      <3>1. i - n \in 1..N - n /\ i \in 1..N /\ ~ (i <= n)
        BY <1>3
      <3>2. DOMAIN fresh = 1..N - n
        BY <1>6, LenProperties
      <3> QED BY <3>1, <3>2, <2>1, <2>2, <1>6, RangeMembers
    <2> QED BY <1>7, <2>1, <2>2, <2>3, <2>4
  <1>9. ASSUME NEW i \in 1..n
        PROVE  /\ HitBlock(s, i) \in Blocks /\ HitBlock(s, i) \in Range(hits)
               /\ hash[HitBlock(s, i)] = PrefixHash(s, i)
               /\ PrefixHash(s, i) # NoHash
    <2>1. PrefixHash(s, i) \in DOMAIN hash_to_block_id
      BY <1>2 DEF PrefixHits, IsHit
    <2>2. hits[i] = HitBlock(s, i) /\ i \in 1..Len(hits)
      BY <1>6
    <2>3. HitBlock(s, i) \in Range(hits)
      BY <2>2, <1>6, RangeMembers
    <2> QED BY <1>1, <1>6, <2>1, <2>3 DEF IndexSound, HitBlock
  <1>10. Range(fresh) \cap Range(hits) = {}
    <2>1. ASSUME NEW b \in Range(fresh) PROVE b \notin Range(hits)
      <3>1. PICK i \in DOMAIN fresh : fresh[i] = b
        BY <2>1 DEF Range
      <3> QED BY <3>1, <1>5
    <2> QED BY <2>1
  <1>11. \A b \in Range(fresh) : \A t \in Seqs : \A j \in DOMAIN block_table[t] : block_table[t][j] # b
    BY <1>1, <1>6, FreeUnheld
  <1>12. /\ IndexSound' /\ ContentsRight'
         /\ \A b \in Blocks : hash'[b] = IF b \in Range(fresh) THEN NoHash ELSE hash[b]
    <2>1. Range(fresh) \in SUBSET Blocks
      BY <1>6
    <2> QED BY <1>1, <1>2, <1>4, <2>1, ForgetRight
  <1>13. /\ UNCHANGED token_ids /\ phase = "prefill" /\ phase' = "prefill"
         /\ \A t \in Seqs \ {s} : /\ status'[t] = status[t]
                                  /\ num_scheduled_tokens'[t] = num_scheduled_tokens[t]
         /\ \/ status'[s] = "RUNNING" /\ End(s)' = num_tokens(s)
            \/ status'[s] = status[s]
    BY <1>1, <1>2, <1>7, TakeTight
  <1>14. DecodesOne'
    BY <1>13 DEF DecodesOne, Decoding
  <1>15. ASSUME NEW t \in Seqs, t # s
         PROVE  (FullHashed(t) /\ OpenOwned(t) /\ ContextRight(t, Computed(t)) /\ Tight(t))'
    <2>1. /\ block_table'[t] = block_table[t] /\ num_cached_tokens'[t] = num_cached_tokens[t]
          /\ FirstUnhashed(t)' = FirstUnhashed(t) /\ Computed(t)' = Computed(t)
          /\ Computed(t) = First(t)
      BY <1>7, <1>13, <1>15 DEF FirstUnhashed, Computed, First
    <2>2. FullHashed(t)'
      <3>1. ASSUME NEW i \in 1..FirstUnhashed(t)
            PROVE  hash'[block_table[t][i]] = PrefixHash(t, i)
        <4>1. i \in 1..Len(block_table[t]) /\ i \in DOMAIN block_table[t]
              /\ block_table[t][i] \in Blocks
          BY TableFacts
        <4>2. block_table[t][i] \notin Range(fresh)
          BY <1>11, <4>1
        <4> QED BY <4>1, <4>2, <1>1, <1>12 DEF FullHashed
      <3> QED BY <3>1, <2>1, <1>13 DEF FullHashed, PrefixHash
    <2>3. OpenOwned(t)'
      <3>1. ASSUME NEW i \in FirstUnhashed(t) + 1..Len(block_table[t])
            PROVE  /\ hash'[block_table[t][i]] = NoHash
                   /\ \A j \in DOMAIN block_table'[s] : block_table'[s][j] # block_table[t][i]
        <4>1. /\ i \in DOMAIN block_table[t] /\ block_table[t][i] \in Blocks
              /\ hash[block_table[t][i]] = NoHash
          BY <1>1, OpenEntry
        <4>2. ASSUME NEW j \in 1..N, block_table'[s][j] = block_table[t][i] PROVE FALSE
          <5>1. CASE j \in 1..n
            BY <5>1, <4>1, <4>2, <1>8, <1>9
          <5>2. CASE j \in n + 1..N
            BY <5>2, <4>1, <4>2, <1>8, <1>11
          <5> QED BY <5>1, <5>2, <1>3
        <4> QED BY <4>1, <4>2, <1>8, <1>12
      <3> QED BY <3>1, <2>1, <1>1, <1>7, <1>15, OthersOwned
    <2>4. ContextRight(t, Computed(t))'
      <3>1. /\ Computed(t) \in Nat /\ Computed(t) <= End(t)
            /\ \A p : Prefix(t, p)' = Prefix(t, p)
        BY <2>1, <1>13, TableFacts DEF Prefix
      <3> QED BY <3>1, <2>1, <1>1, <1>2, ContextSame
    <2>5. Tight(t)'
      BY <1>1, <1>13, <1>15, <2>1 DEF Tight, End, HasTable, num_tokens
    <2> QED BY <2>2, <2>3, <2>4, <2>5
  <1>16. (FullHashed(s) /\ OpenOwned(s) /\ ContextRight(s, Computed(s)) /\ Tight(s))'
    <2>1. /\ FirstUnhashed(s)' = n
          /\ Computed(s)' = n * BlockSize
      <3>1. n * BlockSize + 0 = n * BlockSize /\ (n * BlockSize + 0) \div BlockSize = n
        BY <1>3, JoinPosition, SequenceAssumption
      <3> QED BY <3>1, <1>7, <1>13 DEF FirstUnhashed, Computed, First
    <2>2. ASSUME NEW i \in 1..n
          PROVE  block_table'[s][i] \in Blocks /\ hash'[block_table'[s][i]] = PrefixHash(s, i)
      <3>1. block_table'[s][i] = HitBlock(s, i)
        BY <1>8
      <3>2. /\ HitBlock(s, i) \in Blocks /\ HitBlock(s, i) \in Range(hits)
            /\ hash[HitBlock(s, i)] = PrefixHash(s, i)
        BY <1>9
      <3>3. HitBlock(s, i) \notin Range(fresh)
        BY <1>10, <3>2
      <3>4. hash'[HitBlock(s, i)] = hash[HitBlock(s, i)]
        BY <1>12, <3>2, <3>3
      <3> QED BY <3>1, <3>2, <3>4
    <2>3. FullHashed(s)'
      BY <2>1, <2>2, <1>13 DEF FullHashed, PrefixHash
    <2>4. OpenOwned(s)'
      <3>1. ASSUME NEW i \in n + 1..N
            PROVE  hash'[block_table'[s][i]] = NoHash /\ Owned(s, i)'
        <4>1. block_table'[s][i] \in Range(fresh) /\ block_table'[s][i] \in Blocks
          BY <1>6, <1>8
        <4>2. ASSUME NEW t \in Seqs, NEW j \in DOMAIN block_table'[t],
                     block_table'[t][j] = block_table'[s][i]
              PROVE  t = s /\ j = i
          <5>1. t = s
            BY <4>1, <4>2, <1>7, <1>11
          <5>2. j \in 1..N
            BY <5>1, <4>2, <1>8
          <5>3. ~ (j \in 1..n)
            BY <5>1, <4>1, <4>2, <1>8, <1>9, <1>10
          <5>4. j \in n + 1..N
            BY <5>2, <5>3, <1>3
          <5>5. fresh[j - n] = fresh[i - n] /\ j - n \in DOMAIN fresh /\ i - n \in DOMAIN fresh
            BY <5>1, <5>4, <4>2, <1>8
          <5>6. j - n = i - n
            BY <5>5, <1>5 DEF IsInjective
          <5> QED BY <5>1, <5>4, <5>6, <1>3
        <4>3. hash'[block_table'[s][i]] = NoHash
          BY <4>1, <1>12
        <4> QED BY <4>2, <4>3 DEF Owned
      <3> QED BY <3>1, <2>1, <1>8 DEF OpenOwned
    <2>5. ContextRight(s, Computed(s))'
      <3>1. ASSUME NEW p \in 0..n * BlockSize - 1 PROVE KVAt(s, p)' = Prefix(s, p)
        <4> DEFINE i == p \div BlockSize + 1
                   o == p % BlockSize
        <4>1. n * BlockSize \in Nat /\ BlockSize \in Nat \ {0}
          BY <1>3, SequenceAssumption
        <4>2. p \in Nat /\ p < n * BlockSize
          <5> DEFINE x == n * BlockSize
          <5> HIDE DEF x
          <5>1. p \in 0..x - 1 /\ x \in Nat
            BY <4>1 DEF x
          <5>2. p \in Nat /\ p < x
            BY <5>1
          <5> QED BY <5>2 DEF x
        <4>3. i \in 1..n
          BY <4>1, <4>2, <1>3, PositionEntry
        <4>4. o \in Offsets /\ p = (i - 1) * BlockSize + o
          <5>1. p \div BlockSize \in Nat /\ o \in 0..BlockSize - 1
                /\ p = (p \div BlockSize) * BlockSize + o
            BY <4>1, <4>2, SplitPosition
          <5>2. i - 1 = p \div BlockSize
            BY <5>1
          <5> QED BY <5>1, <5>2 DEF Offsets
        <4> DEFINE b == HitBlock(s, i)
        <4>5. KVAt(s, p)' = kv[b][o]
          BY <4>3, <1>2, <1>8 DEF KVAt
        <4> HIDE DEF i, o, b
        <4>6. b \in Blocks /\ hash[b] = PrefixHash(s, i) /\ i * BlockSize <= num_tokens(s)
          BY <4>3, <1>3, <1>9 DEF b
        <4>7. i \in Nat \ {0}
          BY <4>3, <1>3
        <4>8. kv[b][o] = Prefix(s, (i - 1) * BlockSize + o)
          BY <4>4, <4>6, <4>7, <1>1, FullContents
        <4> QED BY <4>4, <4>5, <4>8
      <3> QED BY <3>1, <2>1, <1>13 DEF ContextRight, Prefix
    <2>6. Tight(s)'
      <3> DEFINE x == (N - 1) * BlockSize
      <3>1. x \in Int /\ x <= num_tokens(s) - 1 /\ num_tokens(s) \in Nat
        BY <1>3, SequenceAssumption
      <3>2. (Len(block_table'[s]) - 1) * BlockSize = x
        BY <1>8
      <3> HIDE DEF x
      <3>3. x < num_tokens(s)
        BY <3>1
      <3>4. status[s] # "RUNNING"
        <4>1. waiting # <<>> /\ s = Head(waiting)
          BY <1>2 DEF PrefillTurn
        <4>2. s \in Range(waiting) /\ \A r \in Range(waiting) : status[r] = "WAITING"
          BY <4>1, <1>1, IInvParts, QueueTail DEF SchedulerTypeOK, QueuesInv
        <4> QED BY <4>2
      <3>5. num_tokens(s)' = num_tokens(s)
        BY <1>13 DEF num_tokens
      <3> QED BY <3>2, <3>3, <3>4, <3>5, <1>13 DEF Tight
    <2> QED BY <2>3, <2>4, <2>5, <2>6
  <1> QED BY <1>12, <1>14, <1>15, <1>16 DEF PrefixInv

\* A decode that begins a block needs it exactly because its table is full.
LEMMA AppendTight ==
  ASSUME NEW e \in Nat, NEW T \in Nat, NEW d \in Nat \ {0, 1},
         e <= T * d, (T - 1) * d < e,
         NEW n, n = e + 1
  PROVE  /\ n % d = 1 => T * d < n
         /\ n % d # 1 => (T - 1) * d < n
  <1> DEFINE x == (T - 1) * d
             y == T * d
  <1>1. x \in Int /\ y \in Nat /\ y = x + d
    OBVIOUS
  <1>2. e <= y /\ x < e
    OBVIOUS
  <1>3. n % d # 1 => x < n
    <2> HIDE DEF x
    <2> QED BY <1>1, <1>2
  <1>4. ASSUME n % d = 1 PROVE y < n
    <2> DEFINE q == n \div d
               z == q * d
    <2>1. n \in Nat /\ d \in Nat \ {0}
      OBVIOUS
    <2>2. q \in Nat /\ z <= n /\ n < z + d /\ n % d = n - z
      BY <2>1, DivFacts
    <2>3. z = e
      <3>1. z \in Nat
        BY <2>2
      <3> HIDE DEF z
      <3> QED BY <2>2, <3>1, <1>4
    <2> HIDE DEF q
    <2>4. (T - 1) * d < q * d
      BY <1>2, <2>3
    <2>5. ~ (q <= T - 1)
      <3>1. q <= T - 1 => q * d <= (T - 1) * d
        BY <2>2, MulMono
      <3> HIDE DEF x
      <3>2. q * d = e /\ (T - 1) * d = x
        BY <2>3 DEF x
      <3> QED BY <3>1, <3>2, <1>1, <1>2
    <2>6. T <= q
      BY <2>2, <2>5
    <2>7. T * d <= q * d
      BY <2>2, <2>6, MulMono
    <2> HIDE DEF y
    <2>8. y <= e
      BY <2>3, <2>7 DEF y
    <2> QED BY <2>8, <1>1
  <1> QED BY <1>3, <1>4 DEF x, y

\* A running request that the decode loop has not reached lacks exactly its last token.
LEMMA DecodeTurnAligned ==
  ASSUME IInv, phase = "decode", NEW s \in Range(running)
  PROVE  /\ s \in Seqs /\ s \notin Range(scheduled) /\ status[s] = "RUNNING"
         /\ num_scheduled_tokens[s] = 0 /\ num_cached_tokens[s] = num_tokens(s) - 1
         /\ num_cached_tokens[s] \in Nat /\ num_tokens(s) \in Nat \ {0}
         /\ Len(block_table[s]) \in Nat
         /\ num_cached_tokens[s] <= Len(block_table[s]) * BlockSize
  <1>1. CoreInv /\ SchedulerTypeOK /\ AlignedInv
    BY IInvParts
  <1>2. /\ s \in Seqs /\ s \notin Range(scheduled) /\ status[s] = "RUNNING"
        /\ num_cached_tokens[s] \in Nat /\ num_tokens(s) \in Nat \ {0}
        /\ Len(block_table[s]) \in Nat
        /\ num_tokens(s) - 1 <= Len(block_table[s]) * BlockSize
    BY <1>1, DecodeTurnFacts
  <1>3. s \notin OpenSeqs
    BY <1>1, <1>2, OpenIsSeq
  <1>4. num_scheduled_tokens[s] = 0 /\ End(s) = num_tokens(s) - 1
    BY <1>1, <1>2, <1>3 DEF AlignedInv, Aligned
  <1>5. num_cached_tokens[s] = num_tokens(s) - 1
    BY <1>2, <1>4 DEF End
  <1> QED BY <1>2, <1>4, <1>5

LEMMA DecodeTakePrefix ==
  ASSUME IInv, PrefixInv, NEW s \in Seqs, DecodeTake(s), UNCHANGED kv
  PROVE  PrefixInv'
  <1>1. /\ SequenceTypeOK /\ SchedulerTypeOK /\ BlockInv /\ BlockManagerTypeOK /\ QueuesInv /\ BatchInv
        /\ ContentsRight /\ IndexSound /\ DecodesOne
        /\ \A t \in Seqs : FullHashed(t) /\ OpenOwned(t) /\ ContextRight(t, Computed(t)) /\ Tight(t)
    BY IInvParts DEF PrefixInv, BlockInv
  <1>2. /\ phase = "decode" /\ phase' = "decode" /\ running # <<>> /\ s = Head(running)
        /\ num_scheduled_tokens' = [num_scheduled_tokens EXCEPT ![s] = 1]
        /\ may_append(s)
        /\ scheduled' = Append(scheduled, s)
        /\ UNCHANGED <<status, token_ids, num_cached_tokens, kv>>
    BY DEF DecodeTake, DecodeTurn
  <1>3. /\ s \in Range(running) /\ scheduled \in Seq(Seqs)
        /\ Range(scheduled') = Range(scheduled) \cup {s}
    BY <1>1, <1>2, QueueTail, QueueAppend DEF SchedulerTypeOK, QueuesInv
  <1>4. /\ s \notin Range(scheduled) /\ status[s] = "RUNNING"
        /\ num_scheduled_tokens[s] = 0 /\ num_cached_tokens[s] = num_tokens(s) - 1
        /\ num_cached_tokens[s] \in Nat /\ num_tokens(s) \in Nat \ {0}
        /\ Len(block_table[s]) \in Nat
        /\ num_cached_tokens[s] <= Len(block_table[s]) * BlockSize
    BY <1>2, <1>3, DecodeTurnAligned
  <1>5. \A t \in Seqs : num_scheduled_tokens'[t] = IF t = s THEN 1 ELSE num_scheduled_tokens[t]
    BY <1>1, <1>2 DEF SequenceTypeOK
  <1>6. /\ Len(block_table'[s]) = Len(block_table[s]) + IF NeedsBlock(s) THEN 1 ELSE 0
        /\ \A t \in Seqs \ {s} : block_table'[t] = block_table[t]
    BY <1>1, <1>2, MayAppendType
  \* The new entry, if there is one, names a block that was free.
  <1>7. PICK F \in SUBSET free_block_ids :
          /\ IndexSound' /\ ContentsRight'
          /\ \A b \in Blocks : hash'[b] = IF b \in F THEN NoHash ELSE hash[b]
          /\ DOMAIN block_table'[s] = 1..Len(block_table'[s])
          /\ \A i \in 1..Len(block_table[s]) : block_table'[s][i] = block_table[s][i]
          /\ \A i \in 1..Len(block_table'[s]) :
               i \in 1..Len(block_table[s]) \/ (i = Len(block_table[s]) + 1 /\ block_table'[s][i] \in F)
    <2>1. CASE ~ NeedsBlock(s)
      <3>1. UNCHANGED <<hash, hash_to_block_id, block_table>>
        BY <2>1, <1>2 DEF may_append, blockVars
      <3>2. IndexSound' /\ ContentsRight'
        BY <3>1, <1>1, <1>2 DEF IndexSound, ContentsRight
      <3>3. {} \in SUBSET free_block_ids /\ DOMAIN block_table[s] = 1..Len(block_table[s])
        BY TableFacts
      <3> QED BY <3>1, <3>2, <3>3
    <2>2. CASE NeedsBlock(s)
      <3>1. PICK b \in free_block_ids :
              /\ block_table' = [block_table EXCEPT ![s] = Append(@, b)]
              /\ ForgetContents({b})
        BY <2>2, <1>2 DEF may_append
      <3>2. b \in Blocks /\ block_table[s] \in Seq(Blocks)
        BY <1>1 DEF BlockManagerTypeOK
      <3>3. block_table'[s] = Append(block_table[s], b)
        BY <1>1, <3>1 DEF BlockManagerTypeOK
      <3>4. /\ IndexSound' /\ ContentsRight'
            /\ \A c \in Blocks : hash'[c] = IF c \in {b} THEN NoHash ELSE hash[c]
        <4>1. {b} \in SUBSET Blocks
          BY <3>2
        <4> QED BY <1>1, <1>2, <3>1, <4>1, ForgetRight
      <3>5. /\ block_table'[s] \in Seq(Blocks) /\ Len(block_table'[s]) = Len(block_table[s]) + 1
            /\ \A i \in 1..Len(block_table[s]) : block_table'[s][i] = block_table[s][i]
            /\ block_table'[s][Len(block_table[s]) + 1] = b
        BY <3>2, <3>3, AppendProperties
      <3>6. DOMAIN block_table'[s] = 1..Len(block_table'[s])
        BY <3>5, LenProperties
      <3>7. \A i \in 1..Len(block_table'[s]) :
               i \in 1..Len(block_table[s]) \/ (i = Len(block_table[s]) + 1 /\ block_table'[s][i] \in {b})
        BY <3>5, <1>4
      <3>8. {b} \in SUBSET free_block_ids
        OBVIOUS
      <3> QED BY <3>4, <3>5, <3>6, <3>7, <3>8
    <2> QED BY <2>1, <2>2
  <1>8. \A b \in F : b \in Blocks /\ \A t \in Seqs : \A j \in DOMAIN block_table[t] : block_table[t][j] # b
    BY <1>1, FreeUnheld DEF BlockManagerTypeOK
  <1>9. ASSUME NEW t \in Seqs
        PROVE  /\ FirstUnhashed(t)' = FirstUnhashed(t)
               /\ Computed(t)' = Computed(t) /\ Computed(t) = First(t)
               /\ \A p : Prefix(t, p)' = Prefix(t, p)
               /\ \A i : PrefixHash(t, i)' = PrefixHash(t, i)
               /\ \A i \in 1..Len(block_table[t]) : block_table'[t][i] = block_table[t][i]
    BY <1>2, <1>6, <1>7 DEF FirstUnhashed, Computed, First, Prefix, PrefixHash
  <1>10. ASSUME NEW t \in Seqs PROVE FullHashed(t)'
    <2>1. ASSUME NEW i \in 1..FirstUnhashed(t)
          PROVE  hash'[block_table'[t][i]] = PrefixHash(t, i)
      <3>1. i \in 1..Len(block_table[t]) /\ i \in DOMAIN block_table[t]
            /\ block_table[t][i] \in Blocks
        BY TableFacts
      <3>2. block_table[t][i] \notin F
        BY <1>8, <3>1
      <3> QED BY <3>1, <3>2, <1>1, <1>7, <1>9 DEF FullHashed
    <2> QED BY <2>1, <1>9 DEF FullHashed
  <1>11. ASSUME NEW t \in Seqs PROVE ContextRight(t, Computed(t))'
    <2>1. Computed(t) \in Nat /\ Computed(t) <= End(t)
      BY <1>9, TableFacts
    <2> QED BY <2>1, <1>1, <1>2, <1>9, ContextSame
  <1>12. ASSUME NEW t \in Seqs, t # s PROVE OpenOwned(t)'
    <2>1. ASSUME NEW i \in FirstUnhashed(t) + 1..Len(block_table[t])
          PROVE  /\ hash'[block_table[t][i]] = NoHash
                 /\ \A j \in DOMAIN block_table'[s] : block_table'[s][j] # block_table[t][i]
      <3>1. /\ i \in DOMAIN block_table[t] /\ block_table[t][i] \in Blocks
            /\ hash[block_table[t][i]] = NoHash /\ Owned(t, i)
        BY <1>1, OpenEntry
      <3>2. ASSUME NEW j \in DOMAIN block_table'[s], block_table'[s][j] = block_table[t][i] PROVE FALSE
        <4>1. CASE j \in 1..Len(block_table[s])
          <5>1. j \in DOMAIN block_table[s] /\ block_table[s][j] = block_table[t][i]
            BY <3>2, <4>1, <1>7, TableFacts
          <5> QED BY <5>1, <3>1, <1>12 DEF Owned
        <4>2. CASE block_table'[s][j] \in F
          BY <4>2, <3>1, <3>2, <1>8
        <4> QED BY <4>1, <4>2, <3>2, <1>7
      <3> QED BY <3>1, <3>2, <1>7
    <2>2. num_cached_tokens'[t] = num_cached_tokens[t]
      BY <1>2
    <2> QED BY <2>1, <2>2, <1>1, <1>6, <1>12, OthersOwned
  <1>13. OpenOwned(s)'
    <2>1. ASSUME NEW i \in FirstUnhashed(s) + 1..Len(block_table'[s])
          PROVE  hash'[block_table'[s][i]] = NoHash /\ Owned(s, i)'
      <3>1. i \in 1..Len(block_table'[s])
        <4>1. FirstUnhashed(s) \in Nat
          BY TableFacts
        <4> QED BY <4>1
      <3>2. CASE i \in 1..Len(block_table[s])
        <4>1. /\ i \in FirstUnhashed(s) + 1..Len(block_table[s])
              /\ i \in DOMAIN block_table[s] /\ block_table[s][i] \in Blocks
              /\ block_table'[s][i] = block_table[s][i]
          BY <2>1, <3>2, <1>7, TableFacts
        <4>2. hash[block_table[s][i]] = NoHash /\ Owned(s, i)
          BY <4>1, <1>1, OpenEntry
        <4>3. ASSUME NEW t \in Seqs, NEW j \in DOMAIN block_table'[t],
                     block_table'[t][j] = block_table[s][i]
              PROVE  t = s /\ j = i
          <5>1. CASE t # s
            BY <5>1, <4>2, <4>3, <1>6 DEF Owned
          <5>2. CASE t = s
            <6>1. j \in 1..Len(block_table[s])
              BY <5>2, <4>1, <4>3, <1>7, <1>8
            <6>2. j \in DOMAIN block_table[s] /\ block_table[s][j] = block_table[s][i]
              BY <6>1, <5>2, <4>3, <1>7, TableFacts
            <6> QED BY <6>2, <5>2, <4>2 DEF Owned
          <5> QED BY <5>1, <5>2
        <4> QED BY <4>1, <4>2, <4>3, <1>7 DEF Owned
      <3>3. CASE i = Len(block_table[s]) + 1 /\ block_table'[s][i] \in F
        <4>1. ASSUME NEW t \in Seqs, NEW j \in DOMAIN block_table'[t],
                     block_table'[t][j] = block_table'[s][i]
              PROVE  t = s /\ j = i
          <5>1. CASE t # s
            BY <5>1, <3>3, <4>1, <1>6, <1>8
          <5>2. CASE t = s
            <6>1. j \notin 1..Len(block_table[s])
              BY <5>2, <3>3, <4>1, <1>7, <1>8, TableFacts
            <6> QED BY <6>1, <5>2, <3>3, <4>1, <1>7
          <5> QED BY <5>1, <5>2
        <4> QED BY <4>1, <3>3, <1>7, <1>8 DEF Owned
      <3> QED BY <3>1, <3>2, <3>3, <1>7
    <2> QED BY <2>1, <1>9 DEF OpenOwned
  <1>14. ASSUME NEW t \in Seqs PROVE Tight(t)'
    <2>1. CASE t # s
      BY <2>1, <1>1, <1>2, <1>5, <1>6 DEF Tight, End, HasTable, num_tokens
    <2>2. CASE t = s
      <3> DEFINE e == num_cached_tokens[s]
                 T == Len(block_table[s])
                 n == num_tokens(s)
      <3>1. /\ e \in Nat /\ T \in Nat /\ n = e + 1 /\ n \in Nat
            /\ e <= T * BlockSize /\ BlockSize \in Nat \ {0, 1}
        BY <1>4, SequenceAssumption
      <3>2. (T - 1) * BlockSize < e
        <4>1. End(s) = e
          BY <1>4 DEF End
        <4> QED BY <4>1, <1>1, <1>4 DEF Tight
      <3>3. End(s)' = n
        BY <1>2, <1>4, <1>5 DEF End
      <3> HIDE DEF e, T, n
      <3>4. /\ n % BlockSize = 1 => T * BlockSize < n
            /\ n % BlockSize # 1 => (T - 1) * BlockSize < n
        BY <3>1, <3>2, AppendTight
      <3>5. (Len(block_table'[s]) - 1) * BlockSize < n
        <4>1. CASE NeedsBlock(s)
          <5>1. Len(block_table'[s]) - 1 = T /\ n % BlockSize = 1
            BY <4>1, <1>6, <3>1 DEF NeedsBlock, T, n
          <5> QED BY <5>1, <3>4
        <4>2. CASE ~ NeedsBlock(s)
          <5>1. Len(block_table'[s]) = T /\ n % BlockSize # 1
            BY <4>2, <1>6, <3>1 DEF NeedsBlock, T, n
          <5> QED BY <5>1, <3>4
        <4> QED BY <4>1, <4>2
      <3> QED BY <2>2, <3>3, <3>5, <1>2, <1>4 DEF Tight
    <2> QED BY <2>1, <2>2
  <1>15. DecodesOne'
    <2>1. OpenSeqs = Range(scheduled) /\ OpenSeqs' = Range(scheduled')
      BY <1>2 DEF OpenSeqs, Range
    <2>2. \A t \in Range(scheduled') : num_scheduled_tokens'[t] = 1
      <3>1. \A t \in Range(scheduled) : t \in Seqs /\ t # s /\ num_scheduled_tokens[t] = 1
        BY <2>1, <1>1, <1>2, <1>3, <1>4, RangeMembers DEF DecodesOne, Decoding
      <3> QED BY <3>1, <1>3, <1>5
    <2> QED BY <2>1, <2>2 DEF DecodesOne, Decoding
  <1> QED BY <1>7, <1>10, <1>11, <1>12, <1>13, <1>14, <1>15 DEF PrefixInv

LEMMA DecodePreemptPrefix ==
  ASSUME IInv, PrefixInv, NEW s \in Seqs, DecodePreempt(s), UNCHANGED kv
  PROVE  PrefixInv'
  <1>1. /\ SequenceTypeOK /\ SchedulerTypeOK /\ BlockManagerTypeOK /\ QueuesInv
        /\ ContentsRight /\ IndexSound /\ DecodesOne
        /\ \A t \in Seqs : FullHashed(t) /\ OpenOwned(t) /\ ContextRight(t, Computed(t)) /\ Tight(t)
    BY IInvParts DEF PrefixInv, BlockInv
  <1>0. PICK v \in Seqs : v = Last(running) /\ v \in Range(running)
    <2>1. running # <<>>
      BY DEF DecodePreempt, DecodeTurn
    <2> QED BY <2>1, <1>1, QueueFront DEF SchedulerTypeOK, QueuesInv
  <1>2. /\ phase = "decode" /\ phase' = "decode"
        /\ status' = [status EXCEPT ![v] = "WAITING"]
        /\ num_cached_tokens' = [num_cached_tokens EXCEPT ![v] = 0]
        /\ block_table' = [block_table EXCEPT ![v] = <<>>]
        /\ UNCHANGED <<token_ids, num_scheduled_tokens, hash, hash_to_block_id, kv, scheduled>>
    BY <1>0 DEF DecodePreempt, DecodeTurn, preempt, deallocate, release, batchVars
  <1>4. num_scheduled_tokens[v] = 0
    BY <1>0, <1>2, DecodeTurnAligned
  <1>5. /\ status'[v] = "WAITING" /\ num_cached_tokens'[v] = 0 /\ block_table'[v] = <<>>
        /\ \A t \in Seqs \ {v} : /\ status'[t] = status[t]
                                 /\ num_cached_tokens'[t] = num_cached_tokens[t]
                                 /\ block_table'[t] = block_table[t]
    BY <1>1, <1>2 DEF SequenceTypeOK, BlockManagerTypeOK
  <1>6. ContentsRight' /\ IndexSound'
    BY <1>1, <1>2 DEF ContentsRight, IndexSound
  <1>7. DecodesOne'
    <2>1. OpenSeqs' = OpenSeqs
      BY <1>2 DEF OpenSeqs
    <2> QED BY <2>1, <1>1, <1>2 DEF DecodesOne, Decoding
  <1>8. ASSUME NEW t \in Seqs, t # v
        PROVE  (FullHashed(t) /\ OpenOwned(t) /\ ContextRight(t, Computed(t)) /\ Tight(t))'
    <2>1. FullHashed(t)'
      BY <1>1, <1>2, <1>5, <1>8 DEF FullHashed, FirstUnhashed, PrefixHash
    <2>2. OpenOwned(t)'
      <3>1. DOMAIN block_table'[v] = {}
        BY <1>5
      <3>2. \A i \in FirstUnhashed(t) + 1..Len(block_table[t]) : hash'[block_table[t][i]] = NoHash
        BY <1>1, <1>2, OpenEntry
      <3> QED BY <3>1, <3>2, <1>1, <1>5, <1>8, OthersOwned
    <2>3. ContextRight(t, Computed(t))'
      <3>1. /\ Computed(t)' = Computed(t) /\ Computed(t) \in Nat /\ Computed(t) <= End(t)
            /\ \A p : Prefix(t, p)' = Prefix(t, p)
        BY <1>2, <1>5, <1>8, TableFacts DEF Computed, First, Prefix
      <3> QED BY <3>1, <1>1, <1>2, <1>5, <1>8, ContextSame
    <2>4. Tight(t)'
      BY <1>1, <1>2, <1>5, <1>8 DEF Tight, End, HasTable, num_tokens
    <2> QED BY <2>1, <2>2, <2>3, <2>4
  <1>9. (FullHashed(v) /\ OpenOwned(v) /\ ContextRight(v, Computed(v)) /\ Tight(v))'
    <2>1. Tight(v)'
      BY <1>5 DEF Tight, HasTable
    <2> QED BY <2>1, <1>2, <1>4, <1>5, NoTable
  <1> QED BY <1>6, <1>7, <1>8, <1>9 DEF PrefixInv

(***************************************************************************)
(* The model runs.                                                         *)
(***************************************************************************)
\* Positions of a request from cached tokens on lie in open entries, which nobody else
\* names; two of them that share block and offset are the same.
LEMMA OpenPosition ==
  ASSUME IInv, PrefixInv, NEW s \in Seqs, NEW p \in Nat, First(s) <= p, p < End(s)
  PROVE  /\ block_table[s][p \div BlockSize + 1] \in Blocks
         /\ p % BlockSize \in Offsets
         /\ hash[block_table[s][p \div BlockSize + 1]] = NoHash
         /\ \A t \in Seqs : \A q \in Nat : q < End(t) /\ Slot(t, q) = Slot(s, p) => t = s /\ q = p
  <1> DEFINE i == p \div BlockSize + 1
             b == block_table[s][i]
  <1>1. BlockSize \in Nat \ {0}
    BY SequenceAssumption
  <1>2. \A q \in Nat : /\ q \div BlockSize \in Nat
                       /\ q % BlockSize \in 0..BlockSize - 1
                       /\ q = (q \div BlockSize) * BlockSize + (q % BlockSize)
    BY <1>1, SplitPosition
  <1>3. i \in 1..Len(block_table[s])
    BY TableFacts
  <1>4. i >= FirstUnhashed(s) + 1
    <2>1. First(s) \in Nat /\ Len(block_table[s]) \in Nat /\ p >= First(s)
      BY TableFacts
    <2>2. i >= First(s) \div BlockSize + 1
      BY <1>1, <2>1, PositionEntry
    <2> QED BY <2>2 DEF FirstUnhashed, First
  <1>5. i \in FirstUnhashed(s) + 1..Len(block_table[s])
    <2>1. FirstUnhashed(s) \in Nat /\ Len(block_table[s]) \in Nat
      BY TableFacts
    <2> QED BY <2>1, <1>3, <1>4
  <1>6. b \in Blocks /\ hash[b] = NoHash /\ Owned(s, i)
    BY <1>5, OpenEntry DEF PrefixInv
  <1>7. ASSUME NEW t \in Seqs, NEW q \in Nat, q < End(t), Slot(t, q) = Slot(s, p)
        PROVE  t = s /\ q = p
    <2>1. /\ block_table[t][q \div BlockSize + 1] = b
          /\ q % BlockSize = p % BlockSize
      BY <1>7 DEF Slot
    <2>2. q \div BlockSize + 1 \in DOMAIN block_table[t]
      BY <1>7, TableFacts
    <2>3. t = s /\ q \div BlockSize + 1 = i
      BY <2>1, <2>2, <1>6 DEF Owned
    <2>4. q \div BlockSize = p \div BlockSize
      BY <2>3, <1>2
    <2> QED BY <2>1, <2>3, <2>4, <1>2
  <1> QED BY <1>2, <1>6, <1>7 DEF Offsets

\* The entry that covers the last token of a tight table is its last.
LEMMA LastEntry ==
  ASSUME NEW e \in Nat \ {0}, NEW T \in Nat \ {0}, NEW d \in Nat \ {0},
         e <= T * d, (T - 1) * d < e
  PROVE  /\ (e - 1) \div d = T - 1
         /\ (e + d - 1) \div d = T
         /\ (e - 1) % d = e - (T - 1) * d - 1
  <1> DEFINE x == (T - 1) * d
             o == e - 1 - x
  <1>1. x \in Nat /\ T * d = x + d /\ x < e /\ e <= x + d
    OBVIOUS
  <1>2. o \in Nat /\ o < d /\ x + o = e - 1
    <2> HIDE DEF x
    <2> QED BY <1>1
  <1>3. (e - 1) \div d = T - 1 /\ (e - 1) % d = o
    <2>1. T - 1 \in Nat
      OBVIOUS
    <2>2. (x + o) \div d = T - 1 /\ (x + o) % d = o
      <3> HIDE DEF o
      <3> QED BY <2>1, <1>2, JoinPosition
    <2> HIDE DEF x, o
    <2> QED BY <2>2, <1>2
  <1>4. (e + d - 1) \div d = T
    <2>1. T * d + o = e + d - 1
      <3> DEFINE y == T * d
      <3>1. y = x + d
        BY <1>1
      <3> HIDE DEF x, o, y
      <3>2. y + o = e + d - 1
        BY <3>1, <1>1, <1>2
      <3> QED BY <3>2 DEF y
    <2>2. (T * d + o) \div d = T
      <3> HIDE DEF o
      <3> QED BY <1>2, JoinPosition
    <2> QED BY <2>1, <2>2
  <1>5. o = e - x - 1
    <2> HIDE DEF x
    <2> QED BY <1>1
  <1> HIDE DEF o
  <1> QED BY <1>3, <1>4, <1>5

\* A row writes the positions its request has scheduled, each with its own prefix.
LEMMA RowRight ==
  ASSUME IInv, PrefixInv, phase = "run", NEW s \in OpenSeqs
  PROVE  s \in Seqs /\ RowWrites(s) = {<<Slot(s, p), Prefix(s, p)>> : p \in First(s)..End(s) - 1}
  <1>1. /\ SchedulerTypeOK /\ BatchInv /\ PositionsInv /\ DecodesOne
        /\ \A t \in Seqs : ContextRight(t, Computed(t)) /\ Tight(t)
    BY IInvParts DEF PrefixInv
  <1>2. s \in Seqs
    BY <1>1, ElementOfSeq, LenProperties DEF OpenSeqs, SchedulerTypeOK
  <1>3. ContextRight(s, First(s))
    BY <1>1, <1>2 DEF Computed
  <1>4. CASE is_prefill
    BY <1>2, <1>3, <1>4 DEF RowWrites
  <1>5. CASE ~ is_prefill
    <2> DEFINE n == num_tokens(s)
               T == Len(block_table[s])
    <2>1. /\ status[s] = "RUNNING" /\ num_scheduled_tokens[s] = 1
          /\ num_cached_tokens[s] + num_scheduled_tokens[s] = n
      BY <1>1, <1>2, <1>5, IInvParts DEF BatchInv, InBatch, Decoding, DecodesOne, AlignedInv, Aligned, End
    <2>2. /\ n \in Nat \ {0} /\ First(s) = n - 1 /\ End(s) = n
      BY <2>1, <1>2, TableFacts DEF First, End
    <2>3. T \in Nat /\ block_table[s] \in Seq(Blocks)
      BY <1>2, TableFacts
    <2>4. n <= T * BlockSize /\ (T - 1) * BlockSize < n
      BY <1>1, <1>2, <2>1, <2>2 DEF Tight, BatchInv, InBatch
    <2>5. T # 0
      BY <2>2, <2>4, SequenceAssumption
    <2>6. /\ (n - 1) \div BlockSize = T - 1
          /\ num_blocks(s) = T
          /\ (n - 1) % BlockSize = n - (T - 1) * BlockSize - 1
      <3>1. num_blocks(s) = (n + BlockSize - 1) \div BlockSize
        BY DEF num_blocks, CeilDiv
      <3> HIDE DEF n, T
      <3>2. n \in Nat \ {0} /\ T \in Nat \ {0} /\ BlockSize \in Nat \ {0}
        BY <2>2, <2>3, <2>5, SequenceAssumption
      <3>3. /\ (n - 1) \div BlockSize = T - 1
            /\ (n + BlockSize - 1) \div BlockSize = T
            /\ (n - 1) % BlockSize = n - (T - 1) * BlockSize - 1
        BY <2>4, <3>2, LastEntry, Zenon
      <3> QED BY <3>1, <3>3, Zenon
    <2>7. DecodeSlot(s) = Slot(s, n - 1)
      <3>1. Last(block_table[s]) = block_table[s][T]
        BY <2>3 DEF Last
      <3>2. T - 1 + 1 = T
        BY <2>3
      <3>3. last_block_num_tokens(s) - 1 = (n - 1) % BlockSize
        BY <2>6 DEF last_block_num_tokens
      <3> QED BY <3>1, <3>2, <3>3, <2>6 DEF DecodeSlot, Slot
    <2>8. First(s)..End(s) - 1 = {n - 1}
      BY <2>2
    <2>9. RowWrites(s) = {<<DecodeSlot(s), Prefix(s, n - 1)>>}
      BY <1>3, <1>5, <2>2 DEF RowWrites
    <2> HIDE DEF n
    <2> QED BY <1>2, <2>7, <2>8, <2>9
  <1> QED BY <1>4, <1>5

\* A slot that some row computes gets the prefix of that row's position, for the one row
\* that can; every other slot keeps what it held.
LEMMA WrittenRight ==
  ASSUME IInv, PrefixInv, phase = "run", NEW b, NEW o
  PROVE  /\ \A s \in OpenSeqs : \A p \in First(s)..End(s) - 1 :
              Slot(s, p) = <<b, o>> => Written(b, o) = Prefix(s, p)
         /\ (\A s \in OpenSeqs : \A p \in First(s)..End(s) - 1 : Slot(s, p) # <<b, o>>)
              => Written(b, o) = kv[b][o]
  <1> DEFINE rows == UNION {RowWrites(s) : s \in Range(scheduled)}
             values == {w[2] : w \in {v \in rows : v[1] = <<b, o>>}}
  <1>1. Written(b, o) = IF values = {} THEN kv[b][o]
                        ELSE IF Cardinality(values) = 1 THEN CHOOSE v \in values : TRUE ELSE Garbage
    BY DEF Written
  <1>2. OpenSeqs = Range(scheduled)
    BY DEF OpenSeqs, Range
  <1>3. \A s \in OpenSeqs :
          s \in Seqs /\ RowWrites(s) = {<<Slot(s, p), Prefix(s, p)>> : p \in First(s)..End(s) - 1}
    BY RowRight
  <1>4. \A x : x \in values <=>
          \E s \in OpenSeqs : \E p \in First(s)..End(s) - 1 : Slot(s, p) = <<b, o>> /\ x = Prefix(s, p)
    <2>1. ASSUME NEW x, x \in values
          PROVE  \E s \in OpenSeqs : \E p \in First(s)..End(s) - 1 :
                   Slot(s, p) = <<b, o>> /\ x = Prefix(s, p)
      <3>1. PICK w \in rows : w[1] = <<b, o>> /\ x = w[2]
        BY <2>1
      <3>2. PICK s \in OpenSeqs : w \in RowWrites(s)
        BY <3>1, <1>2
      <3>3. PICK p \in First(s)..End(s) - 1 : w = <<Slot(s, p), Prefix(s, p)>>
        BY <3>2, <1>3
      <3>4. w[1] = Slot(s, p) /\ w[2] = Prefix(s, p)
        BY <3>3
      <3> QED BY <3>1, <3>4
    <2>2. ASSUME NEW s \in OpenSeqs, NEW p \in First(s)..End(s) - 1, Slot(s, p) = <<b, o>>
          PROVE  Prefix(s, p) \in values
      <3> DEFINE w == <<Slot(s, p), Prefix(s, p)>>
      <3>1. w \in RowWrites(s)
        BY <1>3
      <3>2. w \in rows
        BY <3>1, <1>2
      <3>3. w[1] = <<b, o>> /\ w[2] = Prefix(s, p)
        BY <2>2
      <3> HIDE DEF w
      <3> QED BY <3>2, <3>3
    <2> QED BY <2>1, <2>2
  <1> HIDE DEF values
  <1>5. ASSUME NEW s \in OpenSeqs, NEW p \in First(s)..End(s) - 1, Slot(s, p) = <<b, o>>
        PROVE  Written(b, o) = Prefix(s, p)
    <2>1. s \in Seqs /\ p \in Nat /\ First(s) <= p /\ p < End(s)
      BY <1>3, TableFacts
    <2>2. ASSUME NEW t \in OpenSeqs, NEW q \in First(t)..End(t) - 1, Slot(t, q) = <<b, o>>
          PROVE  t = s /\ q = p
      <3>1. t \in Seqs /\ q \in Nat /\ q < End(t)
        BY <1>3, TableFacts
      <3> QED BY <3>1, <2>1, <2>2, <1>5, OpenPosition
    <2>3. values = {Prefix(s, p)}
      BY <1>4, <1>5, <2>2
    <2>4. Cardinality({Prefix(s, p)}) = 1
      BY FS_Singleton
    <2> QED BY <1>1, <2>3, <2>4
  <1>6. ASSUME \A s \in OpenSeqs : \A p \in First(s)..End(s) - 1 : Slot(s, p) # <<b, o>>
        PROVE  Written(b, o) = kv[b][o]
    <2>1. values = {}
      BY <1>4, <1>6
    <2> QED BY <1>1, <2>1
  <1> QED BY <1>5, <1>6

\* A block with a hash is not written.
LEMMA HashedKept ==
  ASSUME IInv, PrefixInv, phase = "run", NEW b \in Blocks, hash[b] # NoHash, NEW o
  PROVE  Written(b, o) = kv[b][o]
  <1>1. ASSUME NEW s \in OpenSeqs, NEW p \in First(s)..End(s) - 1, Slot(s, p) = <<b, o>>
        PROVE  FALSE
    <2>1. s \in Seqs
      BY RowRight
    <2>2. p \in Nat /\ First(s) <= p /\ p < End(s)
      BY <2>1, TableFacts
    <2>3. hash[block_table[s][p \div BlockSize + 1]] = NoHash
      BY <2>1, <2>2, OpenPosition
    <2> QED BY <1>1, <2>3 DEF Slot
  <1> QED BY <1>1, WrittenRight

LEMMA RunBatchPrefix ==
  ASSUME IInv, PrefixInv, RunBatch
  PROVE  PrefixInv'
  <1>1. /\ SchedulerTypeOK /\ BatchInv
        /\ ContentsRight /\ IndexSound /\ DecodesOne
        /\ \A t \in Seqs : FullHashed(t) /\ OpenOwned(t) /\ ContextRight(t, Computed(t)) /\ Tight(t)
    BY IInvParts DEF PrefixInv
  <1>2. /\ phase = "run" /\ phase' = "post"
        /\ kv' = [b \in Blocks |-> [o \in Offsets |-> Written(b, o)]]
        /\ UNCHANGED <<status, token_ids, num_cached_tokens, num_scheduled_tokens, block_table,
                       hash, block_tokens, hash_to_block_id, scheduled, at, is_prefill>>
    BY DEF RunBatch, sequenceVars, blockVars, batchVars
  <1>3. OpenSeqs' = OpenSeqs
    <2>1. OpenSeqs = Range(scheduled)
      BY <1>2 DEF OpenSeqs, Range
    <2>2. at = 1 /\ DOMAIN scheduled = 1..Len(scheduled)
      BY <1>1, <1>2, LenProperties DEF BatchInv, SchedulerTypeOK
    <2>3. OpenSeqs' = {scheduled[i] : i \in {j \in DOMAIN scheduled : j >= 1}}
      BY <1>2, <2>2 DEF OpenSeqs
    <2>4. {j \in DOMAIN scheduled : j >= 1} = DOMAIN scheduled
      BY <2>2
    <2> QED BY <2>1, <2>3, <2>4 DEF Range
  <1>4. DecodesOne'
    BY <1>1, <1>2, <1>3 DEF DecodesOne, Decoding
  <1>5. IndexSound'
    BY <1>1, <1>2 DEF IndexSound
  <1>6. ContentsRight'
    <2>1. ASSUME NEW b \in Blocks, hash[b] # NoHash, NEW o \in Offsets PROVE kv'[b][o] = kv[b][o]
      BY <2>1, <1>2, HashedKept
    <2> QED BY <2>1, <1>1, <1>2 DEF ContentsRight
  <1>7. ASSUME NEW t \in Seqs PROVE (FullHashed(t) /\ OpenOwned(t) /\ Tight(t))'
    <2>1. FullHashed(t)' /\ OpenOwned(t)'
      BY <1>1, <1>2 DEF FullHashed, OpenOwned, Owned, FirstUnhashed, PrefixHash
    <2>2. Tight(t)'
      BY <1>1, <1>2 DEF Tight, End, HasTable, num_tokens
    <2> QED BY <2>1, <2>2
  <1>8. ASSUME NEW t \in Seqs PROVE ContextRight(t, Computed(t))'
    <2>1. /\ Computed(t)' = End(t) /\ Computed(t) = First(t)
          /\ \A p : Prefix(t, p)' = Prefix(t, p)
      BY <1>2 DEF Computed, End, First, Prefix
    <2>2. ASSUME NEW p \in 0..End(t) - 1 PROVE KVAt(t, p)' = Prefix(t, p)
      <3> DEFINE i == p \div BlockSize + 1
                 o == p % BlockSize
                 b == block_table[t][i]
      <3>1. /\ p \in Nat /\ p < End(t) /\ First(t) \in Nat /\ End(t) \in Nat
            /\ i \in 1..Len(block_table[t]) /\ b \in Blocks
        BY TableFacts
      <3>2. o \in Offsets
        BY <3>1, OffsetOf, Zenon
      <3>3. KVAt(t, p)' = Written(b, o) /\ KVAt(t, p) = kv[b][o] /\ Slot(t, p) = <<b, o>>
        BY <3>1, <3>2, <1>2 DEF KVAt, Slot
      <3> HIDE DEF b, o
      <3>4. CASE p >= First(t)
        <4>1. p \in First(t)..End(t) - 1
          BY <3>1, <3>4
        <4>2. num_scheduled_tokens[t] > 0
          BY <3>1, <3>4, TableFacts DEF First, End
        <4>3. t \in OpenSeqs
          BY <4>2, IInvParts DEF AlignedInv, Aligned
        <4> QED BY <4>1, <4>3, <3>3, <1>2, WrittenRight
      <3>5. CASE ~ (p >= First(t))
        <4>1. ASSUME NEW s \in OpenSeqs, NEW q \in First(s)..End(s) - 1, Slot(s, q) = <<b, o>>
              PROVE  FALSE
          <5>1. s \in Seqs /\ q \in Nat /\ First(s) <= q /\ q < End(s)
            BY <1>2, RowRight, TableFacts
          <5>2. t = s /\ p = q
            BY <5>1, <4>1, <3>1, <3>3, OpenPosition
          <5> QED BY <5>1, <5>2, <3>5
        <4>2. Written(b, o) = kv[b][o]
          BY <4>1, <1>2, WrittenRight
        <4>3. p \in 0..First(t) - 1
          BY <3>1, <3>5
        <4> QED BY <4>2, <4>3, <3>3, <2>1, <1>1 DEF ContextRight
      <3> QED BY <3>4, <3>5
    <2> QED BY <2>1, <2>2 DEF ContextRight
  <1> QED BY <1>4, <1>5, <1>6, <1>7, <1>8 DEF PrefixInv

(***************************************************************************)
(* postprocess hashes what the step completed.                             *)
(***************************************************************************)
\* The entries that hash_blocks walks: open, covered by the table, computed.
LEMMA DoneFacts ==
  ASSUME IInv, NEW s \in Seqs
  PROVE  /\ FirstUnhashed(s) \in Nat /\ EndHashed(s) \in Nat
         /\ FirstUnhashed(s) <= EndHashed(s) /\ EndHashed(s) <= Len(block_table[s])
         /\ \A i \in Nat : i <= EndHashed(s) => i * BlockSize <= End(s) /\ i * BlockSize <= num_tokens(s)
  <1> DEFINE c == num_cached_tokens[s]
             k == num_scheduled_tokens[s]
             T == Len(block_table[s])
             n == num_tokens(s)
  <1>1. c \in Nat /\ k \in Nat /\ T \in Nat /\ n \in Nat /\ c + k <= n
    BY TableFacts DEF End
  <1>2. c + k <= T * BlockSize
    BY AlignedFacts DEF End
  <1>3. BlockSize \in Nat \ {0} /\ c + k \in Nat /\ c + k <= c + k
    BY <1>1, SequenceAssumption
  <1>4. FirstUnhashed(s) = c \div BlockSize /\ EndHashed(s) = (c + k) \div BlockSize /\ End(s) = c + k
    BY DEF FirstUnhashed, EndHashed, End
  <1> HIDE DEF c, k, T, n
  <1>5. /\ c \div BlockSize \in Nat /\ (c + k) \div BlockSize \in Nat
        /\ c \div BlockSize <= (c + k) \div BlockSize /\ (c + k) \div BlockSize <= T
        /\ \A i \in Nat : i <= (c + k) \div BlockSize => i * BlockSize <= c + k
    BY <1>1, <1>2, <1>3, HashRange, Zenon
  <1>6. \A i \in Nat : i <= (c + k) \div BlockSize => i * BlockSize <= n
    BY <1>1, <1>2, <1>3, HashRange, Zenon
  <1> QED BY <1>4, <1>5, <1>6, Zenon DEF T, n

\* Chaining block hashes from the last hashed block gives the hash of the whole prefix.
LEMMA ChainRight ==
  ASSUME IInv, PrefixInv, NEW s \in Seqs, NEW i \in FirstUnhashed(s) + 1..EndHashed(s)
  PROVE  /\ ChainHash(s, i) = PrefixHash(s, i)
         /\ i \in Nat \ {0} /\ i <= EndHashed(s)
         /\ i \in FirstUnhashed(s) + 1..Len(block_table[s])
  <1> DEFINE f == FirstUnhashed(s)
             q == token_ids[s]
             m == f * BlockSize
             n == i * BlockSize
  <1>1. f \in Nat /\ EndHashed(s) \in Nat /\ EndHashed(s) <= Len(block_table[s])
    BY DoneFacts
  <1>2. q \in Seq(Tokens) /\ Len(q) \in Nat /\ Len(block_table[s]) \in Nat /\ f <= Len(block_table[s])
    BY TableFacts DEF num_tokens
  <1> HIDE DEF f
  <1>3. i \in Nat \ {0} /\ i <= EndHashed(s) /\ i \in f + 1..Len(block_table[s]) /\ f <= i
    BY <1>1, <1>2 DEF f
  <1>4. m <= n /\ m \in Nat /\ n \in Nat
    BY <1>1, <1>3, MulMono, SequenceAssumption
  <1>5. n <= Len(q)
    BY <1>3, DoneFacts DEF num_tokens
  <1>6. n \in 0..Len(q) /\ m \in 0..n
    <2> HIDE DEF m, n, q
    <2> QED BY <1>2, <1>4, <1>5
  <1>7. SubSeq(q, 1, m) \o SubSeq(q, m + 1, n) = SubSeq(q, 1, n)
    <2> HIDE DEF m, n, q
    <2> QED BY <1>2, <1>6, PrefixGrows
  <1>8. (IF f > 0 THEN hash[block_table[s][f]] ELSE <<>>) = SubSeq(q, 1, m)
    <2>1. CASE f > 0
      <3>1. f \in 1..FirstUnhashed(s)
        BY <2>1, <1>1 DEF f
      <3>2. hash[block_table[s][f]] = PrefixHash(s, f)
        BY <3>1 DEF PrefixInv, FullHashed
      <3> QED BY <2>1, <3>2 DEF PrefixHash
    <2>2. CASE ~ (f > 0)
      <3>1. f = 0 /\ m = 0
        BY <2>2, <1>1, SequenceAssumption
      <3>2. SubSeq(q, 1, 0) = <<>>
        BY SubSeqEmpty, <1>2
      <3> QED BY <2>2, <3>1, <3>2
    <2> QED BY <2>1, <2>2
  <1>9. ChainHash(s, i) = PrefixHash(s, i)
    BY <1>7, <1>8 DEF ChainHash, compute_hash, PrefixHash, f
  <1> QED BY <1>3, <1>9 DEF f

LEMMA HashRight ==
  ASSUME IInv, PrefixInv, NEW s \in Seqs, phase = "post", hash_blocks(s), kv' = kv
  PROVE  /\ \A i \in FirstUnhashed(s) + 1..EndHashed(s) :
              hash'[block_table[s][i]] = PrefixHash(s, i)
         /\ \A b \in Blocks :
              (\A i \in FirstUnhashed(s) + 1..EndHashed(s) : block_table[s][i] # b)
                => hash'[b] = hash[b]
         /\ \A b \in Blocks : hash[b] # NoHash => hash'[b] = hash[b]
         /\ ContentsRight' /\ IndexSound'
  <1> DEFINE done == FirstUnhashed(s) + 1..EndHashed(s)
             At(b) == {i \in done : block_table[s][i] = b}
             Named(h) == {i \in done : ChainHash(s, i) = h}
  <1>1. /\ SequenceTypeOK /\ BlockManagerTypeOK /\ ContentsRight /\ IndexSound
        /\ OpenOwned(s) /\ ContextRight(s, End(s))
    BY IInvParts DEF PrefixInv, BlockInv, Computed
  <1>2. /\ hash' = [b \in Blocks |->
             IF At(b) = {} THEN hash[b] ELSE ChainHash(s, CHOOSE i \in At(b) : TRUE)]
        /\ hash_to_block_id' =
             [h \in DOMAIN hash_to_block_id \cup {ChainHash(s, i) : i \in done} |->
                IF Named(h) = {} THEN hash_to_block_id[h]
                ELSE block_table[s][CHOOSE i \in Named(h) : TRUE]]
    BY DEF hash_blocks
  <1>3. ASSUME NEW i \in done
        PROVE  /\ ChainHash(s, i) = PrefixHash(s, i)
               /\ i \in Nat \ {0} /\ i <= EndHashed(s)
               /\ i * BlockSize <= End(s) /\ i * BlockSize <= num_tokens(s)
               /\ i \in DOMAIN block_table[s] /\ block_table[s][i] \in Blocks
               /\ hash[block_table[s][i]] = NoHash /\ Owned(s, i)
    <2>1. /\ ChainHash(s, i) = PrefixHash(s, i)
          /\ i \in Nat \ {0} /\ i <= EndHashed(s)
          /\ i \in FirstUnhashed(s) + 1..Len(block_table[s])
      BY ChainRight
    <2> QED BY <2>1, <1>1, DoneFacts, OpenEntry
  <1> HIDE DEF done
  <1>4. ASSUME NEW i \in done PROVE hash'[block_table[s][i]] = PrefixHash(s, i)
    <2>1. \A j \in done : block_table[s][j] = block_table[s][i] => j = i
      BY <1>3 DEF Owned
    <2>2. At(block_table[s][i]) = {i}
      BY <2>1
    <2>3. (CHOOSE j \in At(block_table[s][i]) : TRUE) = i
      BY <2>2
    <2> QED BY <2>2, <2>3, <1>2, <1>3
  <1>5. ASSUME NEW b \in Blocks, \A i \in done : block_table[s][i] # b PROVE hash'[b] = hash[b]
    BY <1>5, <1>2
  <1>6. ASSUME NEW b \in Blocks, hash[b] # NoHash PROVE hash'[b] = hash[b]
    BY <1>3, <1>5, <1>6
  <1>7. ASSUME NEW b \in Blocks, hash'[b] # NoHash, NEW o \in Offsets
        PROVE  kv[b][o] = SubSeq(hash'[b], 1, Len(hash'[b]) - BlockSize + o + 1)
    <2>1. CASE \A i \in done : block_table[s][i] # b
      BY <2>1, <1>5, <1>7, <1>1 DEF ContentsRight
    <2>2. CASE \E i \in done : block_table[s][i] = b
      <3>1. PICK i \in done : block_table[s][i] = b
        BY <2>2
      <3> DEFINE p == (i - 1) * BlockSize + o
      <3>2. hash'[b] = PrefixHash(s, i)
        BY <3>1, <1>4
      <3>3. SubSeq(hash'[b], 1, Len(hash'[b]) - BlockSize + o + 1) = Prefix(s, p)
        BY <3>2, <1>1, <1>3, PrefixHashFacts
      <3>4. o \in Nat /\ o < BlockSize /\ BlockSize \in Nat \ {0} /\ i - 1 \in Nat
        BY <1>3, SequenceAssumption DEF Offsets
      <3>5. p \in Nat /\ p \div BlockSize = i - 1 /\ p % BlockSize = o
        BY <3>4, JoinPosition, Zenon
      <3>6. p < i * BlockSize
        <4>1. i * BlockSize = (i - 1) * BlockSize + BlockSize
          BY <3>4, <1>3
        <4> DEFINE x == (i - 1) * BlockSize
        <4>2. x \in Nat
          BY <3>4
        <4> HIDE DEF x
        <4>3. x + o < x + BlockSize
          BY <4>2, <3>4
        <4> QED BY <4>1, <4>3 DEF x
      <3>7. p \in 0..End(s) - 1
        <4> DEFINE y == i * BlockSize
        <4>1. y <= End(s) /\ y \in Nat /\ p < y
          BY <1>3, <3>4, <3>6
        <4>2. End(s) \in Nat
          BY TableFacts
        <4> HIDE DEF p, y
        <4> QED BY <4>1, <4>2, <3>5
      <3>8. KVAt(s, p) = Prefix(s, p)
        <4> HIDE DEF p
        <4> QED BY <3>7, <1>1 DEF ContextRight
      <3>9. KVAt(s, p) = kv[b][o]
        <4> HIDE DEF p
        <4>1. p \div BlockSize + 1 = i
          BY <3>5, <1>3
        <4> QED BY <4>1, <3>5, <3>1 DEF KVAt
      <3> QED BY <3>3, <3>8, <3>9
    <2> QED BY <2>1, <2>2
  <1>8. ContentsRight'
    BY <1>7 DEF ContentsRight
  <1>9. ASSUME NEW h \in DOMAIN hash_to_block_id'
        PROVE  h # NoHash /\ hash'[hash_to_block_id'[h]] = h
    <2>1. CASE Named(h) = {}
      <3>1. h \in DOMAIN hash_to_block_id /\ hash_to_block_id'[h] = hash_to_block_id[h]
        BY <2>1, <1>2
      <3>2. hash_to_block_id[h] \in Blocks /\ h # NoHash /\ hash[hash_to_block_id[h]] = h
        BY <3>1, <1>1 DEF BlockManagerTypeOK, IndexSound
      <3> QED BY <3>1, <3>2, <1>6
    <2>2. CASE Named(h) # {}
      <3>1. PICK i : i = CHOOSE j \in Named(h) : TRUE
        OBVIOUS
      <3>2. i \in done /\ ChainHash(s, i) = h
        BY <2>2, <3>1
      <3>3. hash_to_block_id'[h] = block_table[s][i]
        BY <2>2, <3>1, <1>2
      <3>4. h = PrefixHash(s, i) /\ h # NoHash
        BY <3>2, <1>1, <1>3, PrefixHashFacts
      <3> QED BY <3>2, <3>3, <3>4, <1>4
    <2> QED BY <2>1, <2>2
  <1>10. IndexSound'
    BY <1>9 DEF IndexSound
  <1> QED BY <1>4, <1>5, <1>6, <1>8, <1>10 DEF done

\* Requests of which postprocess changes nothing.
LEMMA PostOthers ==
  ASSUME IInv, PrefixInv, NEW s \in Seqs, PostTurn(s), hash_blocks(s), kv' = kv,
         NEW t \in Seqs, t # s,
         status'[t] = status[t], token_ids'[t] = token_ids[t],
         num_cached_tokens'[t] = num_cached_tokens[t],
         num_scheduled_tokens'[t] = num_scheduled_tokens[t],
         \A u \in Seqs \ {s} : block_table'[u] = block_table[u],
         block_table'[s] \in {block_table[s], <<>>}
  PROVE  (FullHashed(t) /\ OpenOwned(t) /\ ContextRight(t, Computed(t)) /\ Tight(t))'
  <1>1. /\ SequenceTypeOK /\ FullHashed(t) /\ OpenOwned(t) /\ ContextRight(t, Computed(t)) /\ Tight(t)
    BY IInvParts DEF PrefixInv
  <1>2. phase = "post" /\ block_table'[t] = block_table[t]
    BY DEF PostTurn
  <1>3. FullHashed(t)'
    <2>1. /\ FirstUnhashed(t)' = FirstUnhashed(t)
          /\ \A i : PrefixHash(t, i)' = PrefixHash(t, i)
      BY DEF FirstUnhashed, PrefixHash
    <2>2. ASSUME NEW i \in 1..FirstUnhashed(t)
          PROVE  hash'[block_table[t][i]] = PrefixHash(t, i)
      <3>1. /\ i \in Nat \ {0} /\ i * BlockSize <= num_tokens(t)
            /\ block_table[t][i] \in Blocks
        BY TableFacts
      <3>2. hash[block_table[t][i]] = PrefixHash(t, i) /\ PrefixHash(t, i) # NoHash
        BY <3>1, <1>1, PrefixHashFacts DEF FullHashed
      <3> QED BY <3>1, <3>2, <1>2, HashRight
    <2> QED BY <2>1, <2>2, <1>2 DEF FullHashed
  <1>4. OpenOwned(t)'
    <2>1. ASSUME NEW i \in FirstUnhashed(t) + 1..Len(block_table[t])
          PROVE  /\ hash'[block_table[t][i]] = NoHash
                 /\ \A j \in DOMAIN block_table'[s] : block_table'[s][j] # block_table[t][i]
      <3>1. /\ block_table[t][i] \in Blocks /\ hash[block_table[t][i]] = NoHash
            /\ \A j \in DOMAIN block_table[s] : block_table[s][j] # block_table[t][i]
        BY <1>1, OpenEntry DEF Owned
      <3>2. ASSUME NEW j \in FirstUnhashed(s) + 1..EndHashed(s) PROVE j \in DOMAIN block_table[s]
        <4>1. j \in FirstUnhashed(s) + 1..Len(block_table[s])
          BY ChainRight
        <4> QED BY <4>1, TableFacts
      <3>3. hash'[block_table[t][i]] = hash[block_table[t][i]]
        BY <3>1, <3>2, <1>2, HashRight
      <3>4. \A j \in DOMAIN block_table'[s] : block_table'[s][j] # block_table[t][i]
        BY <3>1
      <3> QED BY <3>1, <3>3, <3>4
    <2> QED BY <2>1, <1>1, OthersOwned
  <1>5. ContextRight(t, Computed(t))'
    <2>1. /\ First(t) \in Nat /\ End(t) \in Nat /\ First(t) <= End(t)
          /\ Computed(t) = End(t) /\ Computed(t)' \in {First(t), End(t)}
          /\ \A p : Prefix(t, p)' = Prefix(t, p)
      BY <1>2, TableFacts DEF Computed, First, End, Prefix
    <2>2. PICK d : d = Computed(t)'
      OBVIOUS
    <2>3. d \in Nat /\ d <= End(t)
      BY <2>1, <2>2
    <2>4. ContextRight(t, d)'
      BY <2>1, <2>3, <1>1, <1>2, ContextSame
    <2> QED BY <2>2, <2>4 DEF ContextRight
  <1>6. Tight(t)'
    BY <1>1, <1>2 DEF Tight, End, HasTable, num_tokens
  <1> QED BY <1>3, <1>4, <1>5, <1>6

\* The request itself, when it keeps its table and the tokens it had.
LEMMA PostOwn ==
  ASSUME IInv, PrefixInv, NEW s \in Seqs, PostTurn(s), hash_blocks(s), kv' = kv,
         block_table' = block_table,
         num_cached_tokens'[s] = CachedAfter(s), num_scheduled_tokens'[s] = 0,
         \A m \in 0..num_tokens(s) : SubSeq(token_ids'[s], 1, m) = SubSeq(token_ids[s], 1, m)
  PROVE  (FullHashed(s) /\ OpenOwned(s) /\ ContextRight(s, Computed(s)))'
  <1>1. FullHashed(s) /\ OpenOwned(s) /\ ContextRight(s, Computed(s))
    BY DEF PrefixInv
  <1>2. phase = "post" /\ FirstUnhashed(s)' = EndHashed(s)
    BY DEF PostTurn, FirstUnhashed, EndHashed, CachedAfter
  <1>3. /\ FirstUnhashed(s) \in Nat /\ EndHashed(s) \in Nat /\ FirstUnhashed(s) <= EndHashed(s)
        /\ \A i \in Nat : i <= EndHashed(s) => i * BlockSize <= num_tokens(s)
        /\ Len(block_table[s]) \in Nat /\ EndHashed(s) <= Len(block_table[s])
    BY DoneFacts, TableFacts
  <1>4. FullHashed(s)'
    <2>1. ASSUME NEW i \in 1..EndHashed(s)
          PROVE  hash'[block_table[s][i]] = PrefixHash(s, i)'
      <3>1. /\ i \in Nat \ {0} /\ i * BlockSize <= num_tokens(s)
            /\ i \in 1..Len(block_table[s]) /\ block_table[s][i] \in Blocks
        BY <1>3, TableFacts
      <3>2. i * BlockSize \in 0..num_tokens(s)
        BY <3>1, TableFacts, SequenceAssumption
      <3>3. PrefixHash(s, i)' = PrefixHash(s, i)
        BY <3>2 DEF PrefixHash
      <3>4. CASE i \in 1..FirstUnhashed(s)
        <4>1. hash[block_table[s][i]] = PrefixHash(s, i) /\ PrefixHash(s, i) # NoHash
          BY <3>1, <3>4, <1>1, IInvParts, PrefixHashFacts DEF FullHashed
        <4> QED BY <3>1, <3>3, <4>1, <1>2, HashRight
      <3>5. CASE i \in FirstUnhashed(s) + 1..EndHashed(s)
        BY <3>3, <3>5, <1>2, HashRight
      <3> QED BY <1>3, <3>4, <3>5
    <2> QED BY <2>1, <1>2 DEF FullHashed
  <1>5. OpenOwned(s)'
    <2>1. ASSUME NEW i \in EndHashed(s) + 1..Len(block_table[s])
          PROVE  hash'[block_table[s][i]] = NoHash /\ Owned(s, i)'
      <3>1. i \in FirstUnhashed(s) + 1..Len(block_table[s])
        BY <1>3
      <3>2. /\ block_table[s][i] \in Blocks /\ hash[block_table[s][i]] = NoHash /\ Owned(s, i)
        BY <3>1, <1>1, OpenEntry
      <3>3. ASSUME NEW j \in FirstUnhashed(s) + 1..EndHashed(s)
            PROVE  block_table[s][j] # block_table[s][i]
        <4>1. j # i /\ j \in DOMAIN block_table[s]
          BY <1>3, TableFacts
        <4> QED BY <4>1, <3>2 DEF Owned
      <3>4. hash'[block_table[s][i]] = NoHash
        BY <3>2, <3>3, <1>2, HashRight
      <3> QED BY <3>2, <3>4 DEF Owned
    <2> QED BY <2>1, <1>2 DEF OpenOwned
  <1>6. ContextRight(s, Computed(s))'
    <2>1. End(s) \in Nat /\ num_tokens(s) \in Nat /\ End(s) <= num_tokens(s)
          /\ Computed(s) = End(s) /\ CachedAfter(s) = End(s)
      BY <1>2, TableFacts DEF Computed, End, CachedAfter
    <2>2. Computed(s)' = End(s)
      BY <2>1 DEF Computed, First, End
    <2>3. \A p \in 0..End(s) - 1 : Prefix(s, p)' = Prefix(s, p)
      BY <2>1 DEF Prefix
    <2>4. ContextRight(s, End(s))
      BY <2>1, <1>1
    <2>5. PICK d : d = End(s)
      OBVIOUS
    <2>6. ContextRight(s, d)'
      BY <2>1, <2>3, <2>4, <2>5, ContextSame
    <2> QED BY <2>2, <2>5, <2>6 DEF ContextRight
  <1> QED BY <1>4, <1>5, <1>6

LEMMA PostDecodesOne ==
  ASSUME IInv, DecodesOne, NEW s \in Seqs, PostTurn(s)
  PROVE  DecodesOne'
  <1>1. /\ OpenSeqs' = OpenSeqs \ {s} /\ OpenSeqs \subseteq Seqs
        /\ \A t \in Seqs : num_scheduled_tokens'[t] = IF t = s THEN 0 ELSE num_scheduled_tokens[t]
    BY PostTurnFacts, OpenIsSeq, IInvParts
  <1>2. Decoding' => Decoding
    BY DEF PostTurn, AdvancePost, Decoding
  <1> QED BY <1>1, <1>2 DEF DecodesOne, Decoding

LEMMA PostPartialPrefillPrefix ==
  ASSUME IInv, PrefixInv, NEW s \in Seqs, PostPartialPrefill(s), UNCHANGED kv
  PROVE  PrefixInv'
  <1>1. /\ PostTurn(s) /\ hash_blocks(s) /\ kv' = kv
        /\ num_cached_tokens' = [num_cached_tokens EXCEPT ![s] = CachedAfter(s)]
        /\ UNCHANGED <<status, token_ids, block_table>>
    BY DEF PostPartialPrefill
  <1>2. SequenceTypeOK /\ Tight(s) /\ DecodesOne
    BY IInvParts DEF PrefixInv
  <1>3. /\ phase = "post" /\ status[s] = "WAITING"
        /\ \A t \in Seqs : num_scheduled_tokens'[t] = IF t = s THEN 0 ELSE num_scheduled_tokens[t]
    BY <1>1, PostTurnFacts, IInvParts DEF PostPartialPrefill
  <1>4. \A t \in Seqs : num_cached_tokens'[t] = IF t = s THEN CachedAfter(s) ELSE num_cached_tokens[t]
    BY <1>1, <1>2 DEF SequenceTypeOK
  <1>5. ContentsRight' /\ IndexSound'
    BY <1>1, <1>3, HashRight
  <1>6. ASSUME NEW t \in Seqs, t # s
        PROVE  (FullHashed(t) /\ OpenOwned(t) /\ ContextRight(t, Computed(t)) /\ Tight(t))'
    BY <1>1, <1>3, <1>4, <1>6, PostOthers
  <1>7. (FullHashed(s) /\ OpenOwned(s) /\ ContextRight(s, Computed(s)) /\ Tight(s))'
    <2>1. Tight(s)'
      BY <1>1, <1>2, <1>3 DEF Tight, HasTable, num_tokens
    <2> QED BY <2>1, <1>1, <1>3, <1>4, PostOwn
  <1>8. DecodesOne'
    BY <1>1, <1>2, PostDecodesOne
  <1> QED BY <1>5, <1>6, <1>7, <1>8 DEF PrefixInv

LEMMA PostAppendPrefix ==
  ASSUME IInv, PrefixInv, NEW s \in Seqs, NEW tok \in Tokens, PostAppend(s, tok), UNCHANGED kv
  PROVE  PrefixInv'
  <1>1. /\ PostTurn(s) /\ hash_blocks(s) /\ kv' = kv
        /\ token_ids' = [token_ids EXCEPT ![s] = Append(token_ids[s], tok)]
        /\ num_cached_tokens' = [num_cached_tokens EXCEPT ![s] = CachedAfter(s)]
        /\ UNCHANGED <<status, block_table>>
    BY DEF PostAppend, append_token
  <1>2. SequenceTypeOK /\ Tight(s) /\ DecodesOne
    BY IInvParts DEF PrefixInv
  <1>3. /\ phase = "post" /\ status[s] = "RUNNING" /\ CachedAfter(s) \in Nat
        /\ \A t \in Seqs : num_scheduled_tokens'[t] = IF t = s THEN 0 ELSE num_scheduled_tokens[t]
    BY <1>1, PostTurnFacts, IInvParts DEF PostAppend
  <1>4. \A t \in Seqs :
          /\ num_cached_tokens'[t] = IF t = s THEN CachedAfter(s) ELSE num_cached_tokens[t]
          /\ token_ids'[t] = IF t = s THEN Append(token_ids[s], tok) ELSE token_ids[t]
    BY <1>1, <1>2 DEF SequenceTypeOK
  <1>5. ContentsRight' /\ IndexSound'
    BY <1>1, <1>3, HashRight
  <1>6. ASSUME NEW t \in Seqs, t # s
        PROVE  (FullHashed(t) /\ OpenOwned(t) /\ ContextRight(t, Computed(t)) /\ Tight(t))'
    BY <1>1, <1>3, <1>4, <1>6, PostOthers
  <1>7. (FullHashed(s) /\ OpenOwned(s) /\ ContextRight(s, Computed(s)) /\ Tight(s))'
    <2>1. \A m \in 0..num_tokens(s) : SubSeq(token_ids'[s], 1, m) = SubSeq(token_ids[s], 1, m)
      <3>1. token_ids[s] \in Seq(Tokens) /\ token_ids'[s] = Append(token_ids[s], tok)
        BY <1>2, <1>4 DEF SequenceTypeOK
      <3>2. ASSUME NEW m \in 0..Len(token_ids[s])
            PROVE  SubSeq(Append(token_ids[s], tok), 1, m) = SubSeq(token_ids[s], 1, m)
        BY <3>1, PrefixOfAppend
      <3> QED BY <3>1, <3>2 DEF num_tokens
    <2>2. End(s)' = End(s)
      BY <1>3, <1>4 DEF End, CachedAfter
    <2>3. Tight(s)'
      BY <2>2, <1>1, <1>2, <1>3 DEF Tight
    <2> QED BY <2>1, <2>3, <1>1, <1>3, <1>4, PostOwn
  <1>8. DecodesOne'
    BY <1>1, <1>2, PostDecodesOne
  <1> QED BY <1>5, <1>6, <1>7, <1>8 DEF PrefixInv

LEMMA PostFinishPrefix ==
  ASSUME IInv, PrefixInv, NEW s \in Seqs, NEW tok \in Tokens, PostFinish(s, tok), UNCHANGED kv
  PROVE  PrefixInv'
  <1>1. /\ PostTurn(s) /\ hash_blocks(s) /\ kv' = kv
        /\ token_ids' = [token_ids EXCEPT ![s] = Append(token_ids[s], tok)]
        /\ status' = [status EXCEPT ![s] = "FINISHED"]
        /\ num_cached_tokens' = [num_cached_tokens EXCEPT ![s] = 0]
        /\ block_table' = [block_table EXCEPT ![s] = <<>>]
    BY DEF PostFinish, append_token, release
  <1>2. SequenceTypeOK /\ BlockManagerTypeOK /\ DecodesOne
    BY IInvParts DEF PrefixInv, BlockInv
  <1>3. /\ \A t \in Seqs \ {s} : /\ status'[t] = status[t] /\ token_ids'[t] = token_ids[t]
                                 /\ num_cached_tokens'[t] = num_cached_tokens[t]
                                 /\ block_table'[t] = block_table[t]
        /\ status'[s] = "FINISHED" /\ num_cached_tokens'[s] = 0 /\ block_table'[s] = <<>>
    BY <1>1, <1>2 DEF SequenceTypeOK, BlockManagerTypeOK
  <1>4. /\ phase = "post"
        /\ \A t \in Seqs : num_scheduled_tokens'[t] = IF t = s THEN 0 ELSE num_scheduled_tokens[t]
    BY <1>1, <1>3, PostTurnFacts, IInvParts
  <1>5. ContentsRight' /\ IndexSound'
    BY <1>1, <1>4, HashRight
  <1>6. ASSUME NEW t \in Seqs, t # s
        PROVE  (FullHashed(t) /\ OpenOwned(t) /\ ContextRight(t, Computed(t)) /\ Tight(t))'
    BY <1>1, <1>3, <1>4, <1>6, PostOthers
  <1>7. (FullHashed(s) /\ OpenOwned(s) /\ ContextRight(s, Computed(s)) /\ Tight(s))'
    <2>1. Tight(s)'
      BY <1>3 DEF Tight
    <2> QED BY <2>1, <1>3, <1>4, NoTable
  <1>8. DecodesOne'
    BY <1>1, <1>2, PostDecodesOne
  <1> QED BY <1>5, <1>6, <1>7, <1>8 DEF PrefixInv

(***************************************************************************)
(* Every step, and what follows.                                           *)
(***************************************************************************)
LEMMA StutterPrefix ==
  ASSUME PrefixInv, UNCHANGED vars
  PROVE  PrefixInv'
  <1>1. /\ ContentsRight /\ IndexSound /\ DecodesOne
        /\ \A t \in Seqs : FullHashed(t) /\ OpenOwned(t) /\ ContextRight(t, Computed(t)) /\ Tight(t)
    BY DEF PrefixInv
  <1>2. UNCHANGED <<status, token_ids, num_cached_tokens, num_scheduled_tokens, block_table,
                    hash, hash_to_block_id, kv, phase, scheduled, at, is_prefill>>
    BY DEF vars, sequenceVars, blockVars, schedulerVars, batchVars
  <1>3. ContentsRight' /\ IndexSound' /\ DecodesOne'
    BY <1>1, <1>2 DEF ContentsRight, IndexSound, DecodesOne, Decoding, OpenSeqs
  <1>4. ASSUME NEW t \in Seqs
        PROVE  (FullHashed(t) /\ OpenOwned(t) /\ ContextRight(t, Computed(t)) /\ Tight(t))'
    <2>1. Computed(t)' = Computed(t)
      BY <1>2 DEF Computed, First, End
    <2>2. Tight(t)'
      BY <1>1, <1>2 DEF Tight, End, HasTable, num_tokens
    <2> QED BY <1>1, <1>2, <2>1, <2>2, RequestSame
  <1> QED BY <1>3, <1>4 DEF PrefixInv

LEMMA NextPrefix == IInv /\ PrefixInv /\ [Next]_vars => PrefixInv'
  <1> SUFFICES ASSUME IInv, PrefixInv, [Next]_vars PROVE PrefixInv'
    OBVIOUS
  <1>1. CASE AddRequest
    BY <1>1, AddRequestPrefix DEF AddRequest
  <1>2. CASE (StartStep \/ Retry \/ PrefillEnd \/ DecodeEnd) /\ UNCHANGED kv
    BY <1>2, LoopPrefix
  <1>3. CASE Prefill /\ UNCHANGED kv
    BY <1>3, PrefillAllocatePrefix, PrefillContinuePrefix DEF Prefill
  <1>4. CASE Decode /\ UNCHANGED kv
    BY <1>4, DecodeTakePrefix, DecodePreemptPrefix DEF Decode
  <1>5. CASE Postprocess /\ UNCHANGED kv
    BY <1>5, PostPartialPrefillPrefix, PostAppendPrefix, PostFinishPrefix DEF Postprocess
  <1>6. CASE RunBatch
    BY <1>6, RunBatchPrefix
  <1>7. CASE UNCHANGED vars
    BY <1>7, StutterPrefix
  <1> QED BY <1>1, <1>2, <1>3, <1>4, <1>5, <1>6, <1>7 DEF Next, step, Schedule

\* The whole inductive invariant of the engine holds in every state.
THEOREM EngineInvariance == Spec => []EngineInv
  <1>1. IInv /\ PrefixInv /\ [Next]_vars => (IInv /\ PrefixInv)'
    BY NextInv, NextAligned, NextPrefix DEF IInv
  <1>2. Init => IInv /\ PrefixInv
    BY InitInv, InitAligned, InitPrefix DEF IInv
  <1>3. Spec => [](IInv /\ PrefixInv)
    BY <1>1, <1>2, PTL DEF Spec
  <1>4. (IInv /\ PrefixInv) /\ (CoreInv /\ OrderInv) => EngineInv
    BY DEF EngineInv
  <1> QED BY <1>3, <1>4, Ordered, PTL

\* What attention reads of a request through its table, however its blocks were shared,
\* evicted, refilled or taken back, is what the request's own tokens would have produced.
THEOREM CachedRight == Spec => []CachedPrefixRight
  <1>1. EngineInv => CachedPrefixRight
    <2> SUFFICES ASSUME EngineInv, NEW s \in Seqs, NEW p \in 0..num_cached_tokens[s] - 1
                 PROVE  KVAt(s, p) = Prefix(s, p)
      BY DEF CachedPrefixRight
    <2>1. IInv /\ ContextRight(s, Computed(s))
      BY DEF EngineInv, PrefixInv
    <2>2. num_cached_tokens[s] \in Nat /\ Computed(s) \in Nat /\ num_cached_tokens[s] <= Computed(s)
      BY <2>1, TableFacts DEF Computed, First
    <2>3. p \in 0..Computed(s) - 1
      BY <2>2
    <2> QED BY <2>1, <2>3 DEF ContextRight
  <1> QED BY <1>1, EngineInvariance, PTL

\* No step of the model writes into a block that has a hash, shared or not.
THEOREM HashedNotWritten == Spec => HashedBlocksImmutable
  <1>1. EngineInv /\ [Next]_vars => [\A b \in Blocks : hash[b] # NoHash => kv'[b] = kv[b]]_vars
    <2> SUFFICES ASSUME EngineInv, Next, NEW b \in Blocks, hash[b] # NoHash
                 PROVE  kv'[b] = kv[b]
      OBVIOUS
    <2>1. IInv /\ PrefixInv /\ ModelRunnerTypeOK
      BY IInvParts DEF EngineInv
    <2>2. CASE RunBatch
      <3>1. phase = "run" /\ kv'[b] = [o \in Offsets |-> Written(b, o)]
        BY <2>2 DEF RunBatch
      <3>2. kv[b] \in [Offsets -> Seq(Nat)]
        BY <2>1 DEF ModelRunnerTypeOK
      <3>3. \A o \in Offsets : Written(b, o) = kv[b][o]
        BY <2>1, <3>1, HashedKept
      <3> QED BY <3>1, <3>2, <3>3
    <2>3. CASE UNCHANGED kv
      BY <2>3
    <2>4. AddRequest => UNCHANGED kv
      BY DEF AddRequest, add_request
    <2> QED BY <2>2, <2>3, <2>4 DEF Next, step
  <1> QED BY <1>1, EngineInvariance, PTL DEF Spec, HashedBlocksImmutable

(***************************************************************************)
(* The server on the engine: a step that throws keeps the books of the     *)
(* engine in order for every later connection, and as long as none has,    *)
(* every client has the engine for itself and is sent the tokens of its    *)
(* own request, in order, each once.                                       *)
(***************************************************************************)
USE DEF ServerAssumption

(***************************************************************************)
(* What the engine sees of the server: its own steps, and steps that       *)
(* throw.                                                                  *)
(***************************************************************************)
LEMMA ServerEngineStep ==
  ASSUME mode \in Modes, [ServerNext]_allVars
  PROVE  [Next]_vars \/ StepThrows
  <1>1. ASSUME NEW s \in Seqs, handle_http(s) PROVE Next
    BY <1>1, ServerAssumption DEF handle_http, Next, AddRequest
  <1>2. CASE EngineStep
    <2>1. ASSUME NEW s \in Seqs, NEW t \in Tokens, PostReport(s, t), UNCHANGED kv
          PROVE  step
      BY <2>1 DEF PostReport, step, Postprocess
    <2>2. ASSUME NEW s \in Seqs, PostPartialPrefill(s), UNCHANGED kv PROVE step
      BY <2>2 DEF step, Postprocess
    <2>3. ASSUME Schedule \/ RunBatch, UNCHANGED kv \/ RunBatch PROVE step
      BY <2>3 DEF step
    <2> QED BY <1>2, <2>1, <2>2, <2>3 DEF EngineStep, Next
  <1>3. CASE OnToken \/ OnStop \/ OnFinished \/ UNCHANGED allVars
    BY <1>3 DEF OnToken, OnStop, OnFinished, allVars
  <1>4. CASE LibraryAdds \/ LibrarySteps
    BY <1>4 DEF LibraryAdds, LibrarySteps, Next
  <1> QED BY <1>1, <1>2, <1>3, <1>4 DEF ServerNext, RunGeneration

\* The batch is gone, and with it everything that BatchInv says of it.
LEMMA ThrowKeeps ==
  ASSUME CoreInv, OrderInv, StepThrows
  PROVE  CoreInv' /\ OrderInv'
  <1>1. /\ SequenceTypeOK /\ SchedulerTypeOK /\ ModelRunnerTypeOK /\ BlockInv
        /\ PositionsInv /\ QueuesInv /\ BatchInv /\ QueuedInv /\ ChunksInv
    BY CoreParts DEF OrderInv
  <1>2. /\ phase = "run" /\ phase' = "idle" /\ scheduled' = <<>> /\ num_batched_tokens' = 0
        /\ UNCHANGED <<waiting, running, is_prefill, at, sequenceVars, blockVars, kv>>
    BY DEF StepThrows, queueVars
  <1>3. UNCHANGED <<status, token_ids, num_prompt_tokens, num_cached_tokens,
                    num_scheduled_tokens, block_table, max_tokens, ignore_eos>>
    BY <1>2 DEF sequenceVars, requestVars
  <1>4. /\ SequenceTypeOK' /\ SchedulerTypeOK' /\ ModelRunnerTypeOK'
        /\ PositionsInv' /\ QueuesInv'
    <2>1. <<>> \in Seq(Seqs)
      OBVIOUS
    <2>2. SequenceTypeOK' /\ ModelRunnerTypeOK'
      BY <1>1, <1>2, <1>3 DEF SequenceTypeOK, ModelRunnerTypeOK
    <2>3. SchedulerTypeOK'
      BY <1>1, <1>2, <2>1 DEF SchedulerTypeOK, Phases
    <2>4. PositionsInv' /\ QueuesInv'
      BY <1>1, <1>2, <1>3 DEF PositionsInv, Positioned, QueuesInv, num_tokens
    <2> QED BY <2>2, <2>3, <2>4
  <1>5. BlockInv'
    BY <1>1, <1>2, <1>3, BlockInvSame
  <1>6. BatchInv'
    <2>1. IsInjective(scheduled') /\ OpenSeqs' = {}
      BY <1>2 DEF IsInjective, OpenSeqs
    <2>2. MaxNumBatchedTokens \in Nat /\ at' = 1
      BY <1>1, <1>2, SchedulerAssumption DEF BatchInv
    <2> QED BY <1>2, <2>1, <2>2 DEF BatchInv
  <1>7. OrderInv'
    <2>1. QueuedInv'
      BY <1>1, <1>2, <1>3 DEF QueuedInv
    <2>2. ChunksInv'
      BY <1>1, <1>2, <1>3 DEF ChunksInv, OnlyHeadHoldsBlocks, HasTable
    <2> QED BY <1>2, <2>1, <2>2 DEF OrderInv, WorkInv
  <1> QED BY <1>4, <1>5, <1>6, <1>7 DEF CoreInv, TypeOK, BlockInv

\* The engine's books are in order for whoever comes next, thrown steps included.
THEOREM ServerKeeps == ServerSpec => [](mode \in Modes /\ CoreInv /\ OrderInv)
  <1>1. ServerInit => mode \in Modes /\ CoreInv /\ OrderInv
    BY InitInv, InitOrder DEF ServerInit
  <1>2. ASSUME mode \in Modes, CoreInv, OrderInv, [ServerNext]_allVars
        PROVE  (mode \in Modes /\ CoreInv /\ OrderInv)'
    <2>1. mode' = mode
      BY <1>2 DEF ServerNext, handle_http, RunGeneration, EngineStep, OnToken, OnStop,
         OnFinished, StepThrows, LibraryAdds, LibrarySteps, serverVars, allVars
    <2>2. CASE [Next]_vars
      BY <1>2, <2>1, <2>2, NextInv, NextOrder
    <2>3. CASE StepThrows
      BY <1>2, <2>1, <2>3, ThrowKeeps
    <2> QED BY <1>2, <2>2, <2>3, ServerEngineStep
  <1> QED BY <1>1, <1>2, PTL DEF ServerSpec

\* Blocks stay accounted for and nobody is lost or duplicated, thrown steps included.
THEOREM Intact == ServerSpec => []EngineIntact
  <1>1. CoreInv /\ OrderInv => EngineIntact
    BY NotLost DEF CoreInv, EngineIntact
  <1> QED BY <1>1, ServerKeeps, PTL

\* A step that threw, whatever the reason, makes no later step throw.
THEOREM NoneThrows == ServerSpec => []NoStepThrows
  BY NotThrown, ServerKeeps, PTL

\* A client of the server or of the library sees Generation, thrown steps included.
THEOREM ServerImplements == ServerSpec => ImplementsGeneration
  <1>1. ServerInit => Generation!Init
    BY GenerationInitial DEF ServerInit
  <1>2. ASSUME mode \in Modes, CoreInv, [ServerNext]_allVars
        PROVE  [Generation!Next]_(Generation!vars)
    <2>1. CASE [Next]_vars
      BY <1>2, <2>1, GenerationStep
    <2>2. CASE StepThrows
      <3>1. UNCHANGED <<token_ids, requestVars, status>>
        BY <2>2 DEF StepThrows, sequenceVars
      <3> QED BY <3>1, GenerationStutter
    <2> QED BY <1>2, <2>1, <2>2, ServerEngineStep
  <1> QED BY <1>1, <1>2, ServerKeeps, PTL DEF ServerSpec, ImplementsGeneration, Generation!Spec

(***************************************************************************)
(* Who holds the pool.                                                     *)
(***************************************************************************)
LEMMA UsedHeld ==
  ASSUME BlockInv, NEW b \in used_block_ids
  PROVE  \E s \in Seqs : b \in Range(block_table[s])
  <1>1. b \in Blocks
    BY DEF BlockInv, BlockManagerTypeOK
  <1>2. Cardinality(Holders(b)) # 0
    BY <1>1, RefFacts
  <1>3. Holders(b) # {}
    BY <1>2, FS_EmptySet
  <1>4. PICK s \in Seqs : Positions(block_table[s], b) # {}
    BY <1>3 DEF Holders
  <1>5. PICK i \in DOMAIN block_table[s] : block_table[s][i] = b
    BY <1>4 DEF Positions
  <1> QED BY <1>5 DEF Range

\* Without a table in the engine the whole pool is free.
LEMMA AllFree ==
  ASSUME BlockInv, \A s \in Seqs : block_table[s] = <<>>
  PROVE  used_block_ids = {} /\ free_block_ids = Blocks /\ \A b \in Blocks : ref_count[b] = 0
  <1>1. used_block_ids = {}
    <2>1. \A s \in Seqs : Range(block_table[s]) = {}
      BY DEF Range
    <2> QED BY <2>1, UsedHeld
  <1>2. free_block_ids = Blocks
    BY <1>1 DEF BlockInv, PoolPartition
  <1> QED BY <1>1, <1>2, RefFacts

LEMMA NobodyIn ==
  ASSUME CoreInv, \A s \in Seqs : status[s] \in {"NEW", "FINISHED"}
  PROVE  SchedulerIsFinished /\ free_block_ids = Blocks /\ \A b \in Blocks : ref_count[b] = 0
  <1>1. SchedulerTypeOK /\ QueuesInv /\ PositionsInv /\ BlockInv
    BY CoreParts
  <1>2. Range(waiting) = {} /\ Range(running) = {}
    <2>1. Range(waiting) \subseteq Seqs /\ Range(running) \subseteq Seqs
      BY <1>1, RangeMembers DEF SchedulerTypeOK
    <2> QED BY <2>1, <1>1 DEF QueuesInv
  <1>3. waiting = <<>> /\ running = <<>>
    BY <1>1, <1>2, RangeMembers DEF SchedulerTypeOK
  <1>4. \A s \in Seqs : block_table[s] = <<>>
    BY <1>1 DEF PositionsInv, Positioned
  <1> QED BY <1>1, <1>3, <1>4, AllFree DEF SchedulerIsFinished

\* A pool that a lone request holds entirely is no larger than its table.
LEMMA LoneHolds ==
  ASSUME BlockInv, NEW h \in Seqs, free_block_ids = {},
         \A s \in Seqs \ {h} : block_table[s] = <<>>
  PROVE  Cardinality(Blocks) <= Len(block_table[h])
  <1> DEFINE q == block_table[h]
  <1>1. q \in Seq(Blocks) /\ Len(q) \in Nat /\ DOMAIN q = 1..Len(q)
    BY LenProperties DEF BlockInv, BlockManagerTypeOK
  <1>2. \A b \in Blocks : \E i \in 1..Len(q) : q[i] = b
    <2>1. ASSUME NEW b \in Blocks PROVE b \in Range(q)
      <3>1. b \in used_block_ids
        BY DEF BlockInv, PoolPartition
      <3>2. \A s \in Seqs \ {h} : Range(block_table[s]) = {}
        BY DEF Range
      <3> QED BY <3>1, <3>2, UsedHeld
    <2> QED BY <2>1, <1>1, RangeMembers
  <1>3. q \in Surjection(1..Len(q), Blocks)
    <2>1. q \in [1..Len(q) -> Blocks]
      <3>1. \A i \in 1..Len(q) : q[i] \in Blocks
        BY <1>1, ElementOfSeq
      <3>2. q = [i \in 1..Len(q) |-> q[i]]
        BY <1>1
      <3> QED BY <3>1, <3>2
    <2> QED BY <2>1, <1>2 DEF Surjection
  <1> HIDE DEF q
  <1>4. ExistsSurjection(1..Len(q), Blocks)
    BY <1>3 DEF ExistsSurjection
  <1> QED BY <1>1, <1>4, FS_SurjCardinalityBound DEF q

\* A lone request finds no block for its next token only when it holds the pool and
\* needs one block more than there are.
LEMMA Outgrown ==
  ASSUME EngineInv, phase = "decode", NEW h \in Range(running), ~ can_append(h),
         \A s \in Seqs \ {h} : block_table[s] = <<>>
  PROVE  num_blocks(h) > Cardinality(Blocks)
  <1> DEFINE T == Len(block_table[h])
             n == num_tokens(h)
             e == num_cached_tokens[h]
  <1>1. IInv /\ BlockInv /\ SequenceTypeOK /\ \A s \in Seqs : Tight(s)
    BY IInvParts DEF EngineInv, PrefixInv
  <1>2. /\ h \in Seqs /\ status[h] = "RUNNING" /\ num_scheduled_tokens[h] = 0
        /\ e = n - 1 /\ e \in Nat /\ n \in Nat \ {0} /\ T \in Nat /\ e <= T * BlockSize
    BY <1>1, DecodeTurnAligned
  <1>3. NeedsBlock(h) /\ free_block_ids = {}
    <2>1. IsFiniteSet(free_block_ids)
      BY <1>1, BlocksAssumption, FS_Subset DEF BlockInv, BlockManagerTypeOK
    <2>2. Cardinality(free_block_ids) \in Nat
      BY <2>1, FS_CardinalityType
    <2>3. NeedsBlock(h) /\ Cardinality(free_block_ids) = 0
      BY <2>2 DEF can_append
    <2> QED BY <2>1, <2>3, FS_EmptySet
  <1>4. Cardinality(Blocks) <= T
    BY <1>1, <1>2, <1>3, LoneHolds
  <1>5. Cardinality(Blocks) \in Nat
    BY BlocksAssumption, FS_CardinalityType
  <1>6. (T - 1) * BlockSize < e
    <2>1. End(h) = e
      BY <1>2 DEF End
    <2> QED BY <2>1, <1>1, <1>2 DEF Tight
  <1>7. T * BlockSize < n
    <2>1. n = e + 1 /\ n % BlockSize = 1 /\ BlockSize \in Nat \ {0, 1}
      BY <1>2, <1>3, SequenceAssumption DEF NeedsBlock
    <2> HIDE DEF T, n, e
    <2> QED BY <2>1, <1>2, <1>6, AppendTight
  <1>8. num_blocks(h) \in Nat /\ n <= num_blocks(h) * BlockSize
    BY <1>1, <1>2, NumBlocks
  <1>9. T < num_blocks(h)
    <2> DEFINE x == T * BlockSize
               y == num_blocks(h) * BlockSize
    <2>1. x \in Int /\ y \in Int /\ BlockSize \in Nat
      BY <1>2, <1>8, SequenceAssumption
    <2>2. num_blocks(h) <= T => y <= x
      BY <1>2, <1>8, SequenceAssumption, MulMono
    <2>3. x < n /\ n <= y /\ n \in Int
      BY <1>2, <1>7, <1>8
    <2> HIDE DEF x, y, n, T
    <2>4. ~ (num_blocks(h) <= T)
      BY <2>1, <2>2, <2>3
    <2> QED BY <2>4, <1>2, <1>8
  <1> HIDE DEF T
  <1> QED BY <1>2, <1>4, <1>5, <1>8, <1>9

\* A lone request that has outgrown the pool is not admitted again.
LEMMA NotAdmitted ==
  ASSUME CoreInv, \A s \in Seqs : block_table[s] = <<>>, NEW h \in Seqs,
         num_blocks(h) > Cardinality(Blocks), NEW n \in Nat
  PROVE  ~ can_allocate(h, n)
  <1>1. BlockInv /\ SequenceTypeOK
    BY CoreParts
  <1>2. used_block_ids = {} /\ free_block_ids = Blocks
    BY <1>1, AllFree
  <1>3. {i \in 1..n : HitBlock(h, i) \in used_block_ids} = {}
    BY <1>2
  <1>4. NewBlocksNeeded(h, n) = num_blocks(h) /\ num_blocks(h) \in Nat
    <2>1. num_blocks(h) \in Nat
      BY <1>1, NumBlocks
    <2> QED BY <2>1, <1>3, FS_EmptySet DEF NewBlocksNeeded
  <1>5. Cardinality(Blocks) \in Nat
    BY BlocksAssumption, FS_CardinalityType
  <1> QED BY <1>2, <1>4, <1>5 DEF can_allocate

(***************************************************************************)
(* What a step of the engine does to requests that are not in it, and to   *)
(* the only one that is.                                                   *)
(***************************************************************************)
\* What a step changes of a request is its status and, at the end, its tokens.
LEMMA StepKeeps ==
  ASSUME CoreInv, step
  PROVE  /\ UNCHANGED requestVars
         /\ \A s \in Seqs : status[s] \in {"NEW", "FINISHED"} =>
              status'[s] = status[s] /\ token_ids'[s] = token_ids[s]
         /\ \A s \in Seqs : status[s] # "NEW" => status'[s] # "NEW"
  <1>1. SequenceTypeOK /\ SchedulerTypeOK /\ QueuesInv
    BY CoreParts
  <1>2. CASE StartStep \/ Retry \/ PrefillEnd \/ DecodeEnd \/ RunBatch
    BY <1>2 DEF StartStep, Retry, PrefillEnd, DecodeEnd, RunBatch, sequenceVars
  <1>3. CASE Prefill
    <2>1. PICK s \in Seqs : /\ PrefillTurn(s) /\ \E n, cached : Take(s, n, cached)
      BY <1>3 DEF Prefill, PrefillAllocate, PrefillContinue
    <2>2. /\ UNCHANGED <<token_ids, requestVars>> /\ waiting # <<>> /\ s = Head(waiting)
          /\ status' = status \/ status' = [status EXCEPT ![s] = "RUNNING"]
      BY <2>1 DEF Take, PrefillTurn
    <2>3. status[s] = "WAITING"
      BY <1>1, <2>2, QueueTail DEF SchedulerTypeOK, QueuesInv
    <2> QED BY <1>1, <2>2, <2>3 DEF SequenceTypeOK
  <1>4. CASE Decode
    <2>1. PICK s \in Seqs : DecodeTake(s) \/ DecodePreempt(s)
      BY <1>4 DEF Decode
    <2>2. CASE DecodeTake(s)
      BY <2>2 DEF DecodeTake
    <2>3. CASE DecodePreempt(s)
      <3>1. /\ UNCHANGED <<token_ids, requestVars>> /\ running # <<>>
            /\ status' = [status EXCEPT ![Last(running)] = "WAITING"]
        BY <2>3 DEF DecodePreempt, DecodeTurn, preempt
      <3>2. Last(running) \in Seqs /\ status[Last(running)] = "RUNNING"
        BY <1>1, <3>1, QueueFront DEF SchedulerTypeOK, QueuesInv
      <3> QED BY <1>1, <3>1, <3>2 DEF SequenceTypeOK
    <2> QED BY <2>1, <2>2, <2>3
  <1>5. CASE Postprocess
    <2>1. PICK s \in Seqs : \/ PostPartialPrefill(s)
                            \/ \E t \in Tokens : PostAppend(s, t) \/ PostFinish(s, t)
      BY <1>5 DEF Postprocess
    <2>2. CASE PostPartialPrefill(s)
      BY <2>2 DEF PostPartialPrefill
    <2>3. ASSUME NEW t \in Tokens, PostAppend(s, t) \/ PostFinish(s, t)
          PROVE  /\ UNCHANGED requestVars
                 /\ \A r \in Seqs : status[r] \in {"NEW", "FINISHED"} =>
                      status'[r] = status[r] /\ token_ids'[r] = token_ids[r]
                 /\ \A r \in Seqs : status[r] # "NEW" => status'[r] # "NEW"
      <3>1. /\ PostTurn(s) /\ UNCHANGED requestVars
            /\ token_ids' = [token_ids EXCEPT ![s] = Append(@, t)]
            /\ status' = status \/ status' = [status EXCEPT ![s] = "FINISHED"]
            /\ ~ (is_prefill /\ CachedAfter(s) < num_tokens(s))
        BY <2>3 DEF PostAppend, PostFinish, append_token
      <3>2. status[s] = "RUNNING"
        BY <3>1, PostTurnFacts
      <3> QED BY <1>1, <3>1, <3>2 DEF SequenceTypeOK
    <2> QED BY <2>1, <2>2, <2>3
  <1> QED BY <1>2, <1>3, <1>4, <1>5 DEF step, Schedule

\* A request none of whose fields changes.
LEMMA FirstTokenSame ==
  ASSUME NEW s \in Seqs, FirstToken(s),
         UNCHANGED <<token_ids, num_prompt_tokens, status, block_table>>,
         status[s] = "RUNNING" => ((s \in OpenSeqs /\ ~ Decoding) <=> (s \in OpenSeqs /\ ~ Decoding)')
  PROVE  FirstToken(s)'
  BY DEF FirstToken, num_tokens, num_completion_tokens, num_blocks, CeilDiv

\* The queues of an engine with one request hold no other.
LEMMA OnlyOne ==
  ASSUME CoreInv, NEW h \in Seqs, \A s \in Seqs \ {h} : status[s] \in {"NEW", "FINISHED"}
  PROVE  /\ Range(waiting) \subseteq {h} /\ Range(running) \subseteq {h} /\ OpenSeqs \subseteq {h}
         /\ \A s \in Seqs \ {h} : block_table[s] = <<>>
  <1>1. SchedulerTypeOK /\ PositionsInv /\ QueuesInv /\ BatchInv
    BY CoreParts
  <1>2. Range(waiting) \subseteq Seqs /\ Range(running) \subseteq Seqs /\ OpenSeqs \subseteq Seqs
    BY <1>1, RangeMembers, OpenIsSeq DEF SchedulerTypeOK
  <1> QED BY <1>1, <1>2 DEF QueuesInv, BatchInv, InBatch, PositionsInv, Positioned

LEMMA FirstTokenTake ==
  ASSUME EngineInv, NEW h \in Seqs, \A s \in Seqs \ {h} : status[s] \in {"NEW", "FINISHED"},
         FirstToken(h), Prefill
  PROVE  FirstToken(h)'
  <1>1. CoreInv /\ SequenceTypeOK /\ SchedulerTypeOK /\ QueuesInv
    BY CoreParts DEF EngineInv, IInv
  <1>2. PICK s \in Seqs : \/ \E n \in 0..num_blocks(s) - 1 : PrefillAllocate(s, n)
                          \/ PrefillContinue(s)
    BY DEF Prefill
  <1>3. /\ phase = "prefill" /\ phase' = "prefill"
        /\ waiting # <<>> /\ s = Head(waiting)
        /\ UNCHANGED <<token_ids, num_prompt_tokens>>
        /\ scheduled' = Append(scheduled, s)
        /\ status' = status \/ status' = [status EXCEPT ![s] = "RUNNING"]
    BY <1>2 DEF PrefillAllocate, PrefillContinue, PrefillTurn, Take, requestVars
  <1>4. s \in Range(waiting) /\ status[s] = "WAITING" /\ s = h
    BY <1>1, <1>3, OnlyOne, QueueTail DEF SchedulerTypeOK, QueuesInv
  <1>5. ~ (num_completion_tokens(h) > 0)
    <2>1. CASE HasTable(h)
      BY <2>1, <1>4 DEF FirstToken, HasTable
    <2>2. CASE ~ HasTable(h)
      <3>1. PICK n \in 0..num_blocks(h) - 1 : can_allocate(h, n)
        BY <2>2, <1>2, <1>4 DEF PrefillAllocate, PrefillContinue
      <3>2. \A t \in Seqs : block_table[t] = <<>>
        BY <2>2, <1>1, OnlyOne DEF HasTable
      <3>3. n \in Nat
        BY <3>1
      <3> QED BY <3>1, <3>2, <3>3, <1>1, <1>4, NotAdmitted DEF FirstToken
    <2> QED BY <2>1, <2>2
  <1>6. num_completion_tokens(h)' = num_completion_tokens(h) /\ num_tokens(h)' = num_tokens(h)
    BY <1>3 DEF num_completion_tokens, num_tokens
  <1>7. num_completion_tokens(h) = 0
    <2>1. num_tokens(h) \in Nat /\ num_prompt_tokens[h] \in Nat /\ num_prompt_tokens[h] <= num_tokens(h)
      BY <1>1, NumBlocks DEF SequenceTypeOK, FirstToken
    <2> QED BY <2>1, <1>5 DEF num_completion_tokens
  <1>8. h \in OpenSeqs' /\ ~ Decoding'
    <2>1. h \in Range(scheduled')
      BY <1>1, <1>3, <1>4, QueueAppend DEF SchedulerTypeOK
    <2>2. OpenSeqs' = Range(scheduled')
      BY <1>3 DEF OpenSeqs, Range
    <2> QED BY <2>1, <2>2, <1>3 DEF Decoding
  <1>9. status'[h] \in {"WAITING", "RUNNING"}
    BY <1>1, <1>3, <1>4 DEF SequenceTypeOK
  <1> QED BY <1>3, <1>5, <1>6, <1>7, <1>8, <1>9 DEF FirstToken

LEMMA FirstTokenDecode ==
  ASSUME EngineInv, NEW h \in Seqs, \A s \in Seqs \ {h} : status[s] \in {"NEW", "FINISHED"},
         FirstToken(h), Decode
  PROVE  FirstToken(h)'
  <1>1. CoreInv /\ IInv /\ SequenceTypeOK /\ SchedulerTypeOK /\ QueuesInv /\ BlockInv
    BY CoreParts DEF EngineInv, IInv
  <1>2. PICK s \in Seqs : DecodeTake(s) \/ DecodePreempt(s)
    BY DEF Decode
  <1>3. /\ phase = "decode" /\ phase' = "decode" /\ running # <<>> /\ s = Head(running)
        /\ UNCHANGED <<token_ids, num_prompt_tokens>>
    BY <1>2 DEF DecodeTake, DecodePreempt, DecodeTurn, preempt, batchVars, requestVars
  <1>4. s \in Range(running) /\ s = h /\ status[h] = "RUNNING"
    BY <1>1, <1>3, OnlyOne, QueueTail DEF SchedulerTypeOK, QueuesInv
  <1>5. /\ num_completion_tokens(h)' = num_completion_tokens(h) /\ num_tokens(h)' = num_tokens(h)
        /\ num_blocks(h)' = num_blocks(h)
        /\ ~ (num_completion_tokens(h) = 0)
    BY <1>3, <1>4 DEF num_completion_tokens, num_tokens, num_blocks, FirstToken, Decoding
  <1>6. CASE DecodeTake(s)
    <2>1. UNCHANGED status /\ Decoding'
      BY <1>6, <1>3 DEF DecodeTake, Decoding
    <2> QED BY <2>1, <1>3, <1>4, <1>5 DEF FirstToken
  <1>7. CASE DecodePreempt(s)
    <2>1. Last(running) = h
      BY <1>1, <1>3, OnlyOne, QueueFront DEF SchedulerTypeOK, QueuesInv
    <2>2. /\ status' = [status EXCEPT ![h] = "WAITING"]
          /\ block_table' = [block_table EXCEPT ![h] = <<>>]
          /\ ~ can_append(h)
      BY <2>1, <1>4, <1>7 DEF DecodePreempt, preempt, deallocate, release
    <2>3. status'[h] = "WAITING" /\ block_table'[h] = <<>>
      BY <2>2, <1>1 DEF SequenceTypeOK, BlockInv, BlockManagerTypeOK
    <2>4. num_blocks(h) > Cardinality(Blocks)
      BY <2>2, <1>1, <1>3, <1>4, OnlyOne, Outgrown
    <2> QED BY <2>3, <2>4, <1>3, <1>5 DEF FirstToken
  <1> QED BY <1>2, <1>6, <1>7

LEMMA FirstTokenPost ==
  ASSUME EngineInv, NEW h \in Seqs, \A s \in Seqs \ {h} : status[s] \in {"NEW", "FINISHED"},
         FirstToken(h), Postprocess
  PROVE  FirstToken(h)'
  <1>1. CoreInv /\ SequenceTypeOK
    BY CoreParts DEF EngineInv, IInv
  <1>2. PICK s \in Seqs : \/ PostPartialPrefill(s)
                          \/ \E t \in Tokens : PostAppend(s, t) \/ PostFinish(s, t)
    BY DEF Postprocess
  <1>3. PostTurn(s)
    BY <1>2 DEF PostPartialPrefill, PostAppend, PostFinish
  <1>4. s = h /\ h \notin OpenSeqs'
    BY <1>1, <1>3, OnlyOne, PostTurnFacts
  <1>5. CASE PostPartialPrefill(s)
    <2>1. /\ UNCHANGED <<token_ids, num_prompt_tokens, status, block_table>>
          /\ is_prefill /\ CachedAfter(s) < num_tokens(s)
      BY <1>5 DEF PostPartialPrefill, requestVars
    <2>2. status[h] = "WAITING"
      BY <2>1, <1>1, <1>3, <1>4, PostTurnFacts
    <2> QED BY <2>1, <2>2, FirstTokenSame
  <1>6. ASSUME NEW t \in Tokens, PostAppend(s, t) \/ PostFinish(s, t) PROVE FirstToken(h)'
    <2>1. /\ token_ids' = [token_ids EXCEPT ![h] = Append(@, t)]
          /\ UNCHANGED num_prompt_tokens
          /\ status' = status \/ status' = [status EXCEPT ![h] = "FINISHED"]
          /\ ~ (is_prefill /\ CachedAfter(s) < num_tokens(s))
      BY <1>4, <1>6 DEF PostAppend, PostFinish, append_token, requestVars
    <2>2. status[h] = "RUNNING"
      BY <2>1, <1>1, <1>3, <1>4, PostTurnFacts
    <2>3. token_ids'[h] = Append(token_ids[h], t) /\ token_ids[h] \in Seq(Tokens)
      BY <2>1, <1>1 DEF SequenceTypeOK
    <2>4. num_tokens(h)' = num_tokens(h) + 1 /\ num_tokens(h) \in Nat
      BY <2>3, AppendProperties, LenProperties DEF num_tokens
    <2>5. num_prompt_tokens[h] \in Nat /\ num_prompt_tokens[h] <= num_tokens(h)
      BY <1>1 DEF SequenceTypeOK, FirstToken
    <2>6. num_completion_tokens(h)' > 0 /\ ~ (num_completion_tokens(h)' = 0)
          /\ (num_prompt_tokens[h] <= num_tokens(h))'
      BY <2>1, <2>4, <2>5 DEF num_completion_tokens
    <2>7. status'[h] \in {"RUNNING", "FINISHED"}
      BY <2>1, <2>2, <1>1 DEF SequenceTypeOK
    <2> QED BY <2>6, <2>7, <1>4 DEF FirstToken
  <1> QED BY <1>2, <1>5, <1>6

LEMMA FirstTokenStep ==
  ASSUME EngineInv, NEW h \in Seqs, \A s \in Seqs \ {h} : status[s] \in {"NEW", "FINISHED"},
         \A s \in Seqs : FirstToken(s), step
  PROVE  \A s \in Seqs : FirstToken(s)'
  <1>1. CoreInv /\ SchedulerTypeOK /\ BatchInv
    BY CoreParts DEF EngineInv, IInv
  <1>2. ASSUME NEW s \in Seqs \ {h} PROVE FirstToken(s)'
    <2>1. status'[s] = status[s] /\ token_ids'[s] = token_ids[s] /\ UNCHANGED num_prompt_tokens
      BY <1>1, <1>2, StepKeeps DEF requestVars
    <2>2. status[s] \in {"NEW", "FINISHED"} /\ FirstToken(s)
      BY <1>2
    <2> QED BY <2>1, <2>2 DEF FirstToken, num_tokens, num_completion_tokens
  <1>3. FirstToken(h)'
    <2>1. CASE StartStep \/ Retry
      <3>1. /\ UNCHANGED <<token_ids, num_prompt_tokens, status, block_table>>
            /\ phase' = "prefill" /\ scheduled' = <<>>
            /\ phase = "idle" \/ phase = "decode"
        BY <2>1 DEF StartStep, Retry, EnterSchedule, sequenceVars, requestVars
      <3>2. OpenSeqs' = {} /\ (Decoding \/ OpenSeqs = {})
        BY <3>1, <1>1 DEF OpenSeqs, Decoding, BatchInv
      <3> QED BY <3>1, <3>2, FirstTokenSame
    <2>2. CASE PrefillEnd
      <3>1. /\ UNCHANGED <<token_ids, num_prompt_tokens, status, block_table, scheduled>>
            /\ phase = "prefill"
            /\ \/ scheduled = <<>> /\ phase' = "decode"
               \/ phase' = "run" /\ is_prefill'
        BY <2>2 DEF PrefillEnd, sequenceVars, requestVars
      <3>2. OpenSeqs' = OpenSeqs /\ ~ Decoding /\ (~ Decoding' \/ OpenSeqs = {})
        BY <3>1 DEF OpenSeqs, Decoding
      <3> QED BY <3>1, <3>2, FirstTokenSame
    <2>3. CASE DecodeEnd
      <3>1. /\ UNCHANGED <<token_ids, num_prompt_tokens, status, block_table>>
            /\ phase = "decode" /\ phase' = "run" /\ ~ is_prefill'
        BY <2>3 DEF DecodeEnd, sequenceVars, requestVars
      <3>2. Decoding /\ Decoding'
        BY <3>1 DEF Decoding
      <3> QED BY <3>1, <3>2, FirstTokenSame
    <2>4. CASE RunBatch
      <3>1. /\ UNCHANGED <<token_ids, num_prompt_tokens, status, block_table, scheduled, at, is_prefill>>
            /\ phase = "run" /\ phase' = "post"
        BY <2>4 DEF RunBatch, sequenceVars, requestVars, batchVars
      <3>2. at = 1 /\ DOMAIN scheduled = 1..Len(scheduled)
        BY <3>1, <1>1, LenProperties DEF BatchInv, SchedulerTypeOK
      <3>3. {j \in DOMAIN scheduled : j >= 1} = DOMAIN scheduled
        BY <3>2
      <3>4. OpenSeqs' = OpenSeqs
        BY <3>1, <3>2, <3>3 DEF OpenSeqs
      <3>5. Decoding' = Decoding
        BY <3>1 DEF Decoding
      <3> QED BY <3>1, <3>4, <3>5, FirstTokenSame
    <2> QED BY <2>1, <2>2, <2>3, <2>4, FirstTokenTake, FirstTokenDecode, FirstTokenPost DEF step, Schedule
  <1> QED BY <1>2, <1>3

(***************************************************************************)
(* The tokens on their way to the client.                                  *)
(***************************************************************************)
LEMMA ServerTypes == ServerTypeOK /\ CoreInv /\ [ServerNext]_allVars => ServerTypeOK'
  <1> SUFFICES ASSUME ServerTypeOK, CoreInv, [ServerNext]_allVars PROVE ServerTypeOK'
    OBVIOUS
  <1> DEFINE Pairs == Seqs \X Tokens
  <1>0. \A q \in Seq(Pairs) : q # <<>> => Head(q) \in Pairs /\ Tail(q) \in Seq(Pairs)
    BY HeadTailProperties
  <1>1. ASSUME NEW s \in Seqs, handle_http(s) PROVE ServerTypeOK'
    BY <1>1 DEF handle_http, ServerTypeOK
  <1>2. ASSUME NEW s \in Seqs, NEW t \in Tokens, PostReport(s, t),
               UNCHANGED <<mode, handling, sent, finish, failures>>
        PROVE  ServerTypeOK'
    <2>1. news \in Seq(Pairs) /\ <<s, t>> \in Pairs
      BY DEF ServerTypeOK
    <2>2. news' \in Seq(Pairs)
      <3> HIDE DEF Pairs
      <3>1. Append(news, <<s, t>>) \in Seq(Pairs)
        BY <2>1, AppendProperties
      <3> QED BY <3>1, <2>1, <1>2 DEF PostReport, Reported
    <2> QED BY <1>2, <2>2 DEF ServerTypeOK
  <1>3. CASE EngineStep
    BY <1>2, <1>3 DEF EngineStep, ServerTypeOK
  <1>4. CASE OnToken
    <2>1. /\ news \in Seq(Pairs) /\ news # <<>> /\ news' = Tail(news)
          /\ sent \in [Seqs -> Seq(Pairs)]
          /\ sent' = [s \in Seqs |-> IF s \in handling THEN Append(sent[s], Head(news)) ELSE sent[s]]
          /\ UNCHANGED <<mode, handling, finish, failures>>
      BY <1>4 DEF OnToken, ServerTypeOK
    <2>2. news' \in Seq(Pairs) /\ sent' \in [Seqs -> Seq(Pairs)]
      <3> HIDE DEF Pairs
      <3>1. Head(news) \in Pairs /\ Tail(news) \in Seq(Pairs)
        BY <2>1, <1>0
      <3>2. \A s \in Seqs : Append(sent[s], Head(news)) \in Seq(Pairs)
        BY <2>1, <3>1, AppendProperties
      <3> QED BY <2>1, <3>1, <3>2
    <2> QED BY <2>1, <2>2 DEF ServerTypeOK
  <1>5. CASE OnStop \/ OnFinished
    <2>1. <<>> \in Seq(Pairs)
      OBVIOUS
    <2> QED BY <1>5, <2>1 DEF OnStop, OnFinished, Answer, ServerTypeOK
  <1>6. CASE StepThrows
    <2>1. <<>> \in Seq(Pairs)
      OBVIOUS
    <2> QED BY <1>6, <2>1 DEF StepThrows, Answer, ServerTypeOK
  <1>7. CASE LibraryAdds \/ LibrarySteps \/ UNCHANGED allVars
    BY <1>7 DEF LibraryAdds, LibrarySteps, serverVars, allVars, ServerTypeOK
  <1> QED BY <1>1, <1>3, <1>4, <1>5, <1>6, <1>7 DEF ServerNext, RunGeneration

LEMMA TailOfSubSeq ==
  ASSUME NEW S, NEW x \in Seq(S), NEW P \in Nat, P < Len(x)
  PROVE  LET y == Tail(SubSeq(x, P + 1, Len(x)))
         IN  /\ y \in Seq(S) /\ Len(y) = Len(x) - P - 1
             /\ \A i \in 1..Len(x) - P - 1 : y[i] = x[P + 1 + i]
  <1> DEFINE y == SubSeq(x, P + 2, Len(x))
  <1>1. Len(x) \in Nat /\ P + 1 \in 1..Len(x) /\ Len(x) \in P + 1..Len(x) /\ P + 1 + 1 = P + 2
        /\ P + 2 \in Int
    BY LenProperties
  <1>2. Tail(SubSeq(x, P + 1, Len(x))) = y
    BY <1>1, HeadTailOfSubSeq
  <1>3. \A i \in P + 2..Len(x) : x[i] \in S
    <2>1. \A i \in P + 2..Len(x) : i \in 1..Len(x)
      BY <1>1
    <2> QED BY <2>1, ElementOfSeq
  <1>4. /\ y \in Seq(S) /\ Len(y) = IF P + 2 <= Len(x) THEN Len(x) - (P + 2) + 1 ELSE 0
        /\ \A i \in 1..Len(x) - (P + 2) + 1 : y[i] = x[P + 2 + i - 1]
    BY <1>1, <1>3, SubSeqProperties
  <1>5. /\ Len(x) - (P + 2) + 1 = Len(x) - P - 1
        /\ ~ (P + 2 <= Len(x)) => Len(x) - P - 1 = 0
        /\ \A i \in 1..Len(x) - P - 1 : P + 2 + i - 1 = P + 1 + i
    BY <1>1
  <1> HIDE DEF y
  <1> QED BY <1>2, <1>4, <1>5

\* What has been delivered of a request that has a token are the tokens behind its first.
LEMMA TailOfFollow ==
  ASSUME SequenceTypeOK, NEW s \in Seqs, FirstToken(s), num_completion_tokens(s) > 0,
         NEW q \in Seq(Seqs \X Tokens), Follow(s, q)
  PROVE  Tail(completion_token_ids(s)) = [i \in DOMAIN q |-> q[i][2]]
  <1> DEFINE x == token_ids[s]
             P == num_prompt_tokens[s]
             L == Len(x)
             y == Tail(SubSeq(x, P + 1, L))
             z == [i \in DOMAIN q |-> q[i][2]]
  <1>1. /\ x \in Seq(Tokens) /\ L \in Nat /\ P \in Nat /\ P < L
        /\ num_completion_tokens(s) = L - P
    <2>1. x \in Seq(Tokens) /\ P \in Nat
      BY DEF SequenceTypeOK
    <2>2. L \in Nat
      BY <2>1, LenProperties
    <2> QED BY <2>1, <2>2 DEF num_completion_tokens, num_tokens
  <1>2. \A i \in 1..L - P - 1 : x[P + 1 + i] \in Tokens
    <2>1. \A i \in 1..L - P - 1 : P + 1 + i \in 1..L
      BY <1>1
    <2> QED BY <2>1, <1>1, ElementOfSeq
  <1>4. y = Tail(completion_token_ids(s))
    BY DEF completion_token_ids, num_tokens
  <1>5. /\ y \in Seq(Tokens) /\ Len(y) = L - P - 1
        /\ \A i \in 1..L - P - 1 : y[i] = x[P + 1 + i]
    BY <1>1, TailOfSubSeq
  <1>6. /\ DOMAIN q = 1..L - P - 1 /\ L - P - 1 \in Nat
        /\ \A i \in 1..L - P - 1 : q[i][2] = x[P + 1 + i]
    <2>1. Len(q) = L - P - 1
      BY <1>1 DEF Follow
    <2>2. DOMAIN q = 1..Len(q)
      BY LenProperties
    <2>3. \A i \in 1..Len(q) : q[i] = <<s, x[P + 1 + i]>>
      BY DEF Follow
    <2> QED BY <1>1, <2>1, <2>2, <2>3
  <1>7. /\ z \in Seq(Tokens) /\ Len(z) = L - P - 1
        /\ \A i \in 1..L - P - 1 : z[i] = x[P + 1 + i]
    <2>1. z = [i \in 1..L - P - 1 |-> q[i][2]]
      BY <1>6
    <2>2. \A i \in 1..L - P - 1 : q[i][2] \in Tokens
      BY <1>2, <1>6
    <2> HIDE DEF x, L, P, z
    <2>3. z \in [1..L - P - 1 -> Tokens]
      BY <2>1, <2>2
    <2> QED BY <2>1, <2>3, <1>6
  <1> HIDE DEF x, y, z, L, P
  <1>8. y = z
    BY <1>5, <1>7, SeqEqual
  <1> QED BY <1>4, <1>8 DEF z

LEMMA ServedParts ==
  ASSUME ServerTypeOK, EngineInv, ServedInv
  PROVE  /\ CoreInv /\ SequenceTypeOK /\ SchedulerTypeOK
         /\ Alone /\ Delivered /\ EosLast /\ RestSent
         /\ \A s \in Seqs : FirstToken(s)
         /\ \A s \in Seqs : Answered(s) => s \notin handling /\ status[s] = "FINISHED"
         /\ news \in Seq(Seqs \X Tokens) /\ \A s \in Seqs : sent[s] \in Seq(Seqs \X Tokens)
  BY CoreParts DEF EngineInv, IInv, ServedInv, Alone, Answered, ServerTypeOK

\* An answer that has been given keeps being right: nothing of its request changes.
LEMMA AnsweredStays ==
  ASSUME RestSent, failures = 0, UNCHANGED num_prompt_tokens,
         \A s \in Seqs : Answered(s)' => /\ Answered(s)
                                         /\ sent'[s] = sent[s] /\ token_ids'[s] = token_ids[s]
  PROVE  RestSent'
  BY DEF RestSent, SentTokens, completion_token_ids, num_tokens

\* A new connection finds nothing of an earlier one.
LEMMA ServedHttp ==
  ASSUME ServerTypeOK, EngineInv, ServedInv, failures = 0, NEW s \in Seqs, handle_http(s)
  PROVE  ServedInv'
  <1>1. /\ SequenceTypeOK /\ Alone /\ Delivered /\ EosLast /\ RestSent
        /\ \A t \in Seqs : FirstToken(t)
        /\ \A t \in Seqs : Answered(t) => t \notin handling /\ status[t] = "FINISHED"
    BY ServedParts
  <1>2. PICK p \in Prompts, m \in MaxTokensChoices : add_request(s, p, m, FALSE)
    BY DEF handle_http
  <1>3. /\ phase = "idle" /\ status[s] = "NEW" /\ handling = {} /\ news = <<>>
        /\ token_ids' = [token_ids EXCEPT ![s] = p]
        /\ num_prompt_tokens' = [num_prompt_tokens EXCEPT ![s] = Len(p)]
        /\ ignore_eos' = [ignore_eos EXCEPT ![s] = FALSE]
        /\ status' = [status EXCEPT ![s] = "WAITING"]
        /\ handling' = {s}
        /\ UNCHANGED <<mode, news, sent, finish, failures>>
        /\ UNCHANGED <<block_table, phase, scheduled, at, is_prefill>>
    BY <1>1, <1>2 DEF add_request, NewSequence, handle_http, Alone, batchVars
  <1>4. /\ token_ids'[s] = p /\ num_prompt_tokens'[s] = Len(p) /\ status'[s] = "WAITING"
        /\ ~ ignore_eos'[s]
        /\ \A t \in Seqs \ {s} : /\ token_ids'[t] = token_ids[t] /\ status'[t] = status[t]
                                 /\ num_prompt_tokens'[t] = num_prompt_tokens[t]
                                 /\ ignore_eos'[t] = ignore_eos[t]
    BY <1>1, <1>3 DEF SequenceTypeOK
  <1>5. Len(p) \in Nat
    BY EngineAssumption, LenProperties
  <1>6. num_completion_tokens(s)' = 0 /\ (num_prompt_tokens[s] <= num_tokens(s))'
    BY <1>4, <1>5 DEF num_completion_tokens, num_tokens
  <1>7. Alone'
    <2>1. finish[s] = "none"
      BY <1>1, <1>3 DEF Alone
    <2>2. \A t \in Seqs \ {s} : /\ status[t] \in {"NEW", "FINISHED"} /\ ~ ignore_eos[t]
                                /\ status[t] = "NEW" => finish[t] = "none" /\ sent[t] = <<>>
                                                        /\ token_ids[t] = <<>>
      BY <1>1, <1>3 DEF Alone
    <2> QED BY <2>1, <2>2, <1>3, <1>4 DEF Alone
  <1>8. ASSUME NEW t \in Seqs PROVE FirstToken(t)'
    <2>1. CASE t = s
      BY <2>1, <1>4, <1>6 DEF FirstToken
    <2>2. CASE t # s
      <3>1. status[t] \in {"NEW", "FINISHED"} /\ FirstToken(t)
        BY <2>2, <1>1, <1>3 DEF Alone
      <3> QED BY <2>2, <3>1, <1>4 DEF FirstToken, num_tokens, num_completion_tokens
    <2> QED BY <2>1, <2>2
  <1>9. Delivered'
    <2>1. sent'[s] \o news' = <<>>
      BY <1>1, <1>3 DEF Alone
    <2> QED BY <2>1, <1>3, <1>6 DEF Delivered, Follow
  <1>10. EosLast'
    BY <1>1, <1>3 DEF EosLast
  <1>11. RestSent'
    <2>1. \A t \in Seqs : Answered(t) => t # s
      BY <1>1, <1>3
    <2> QED BY <2>1, <1>1, <1>3, <1>4 DEF RestSent, Answered, SentTokens, completion_token_ids, num_tokens
  <1> QED BY <1>7, <1>8, <1>9, <1>10, <1>11 DEF ServedInv

LEMMA PushEntries ==
  ASSUME NEW S, NEW u \in Seq(S), Len(u) = 1, NEW r \in Seq(S)
  PROVE  /\ u \o r \in Seq(S) /\ Len(u \o r) = Len(r) + 1
         /\ (u \o r)[1] = u[1]
         /\ \A i \in 1..Len(r) : (u \o r)[i + 1] = r[i]
  <1> DEFINE w == u \o r
  <1>1. /\ w \in Seq(S) /\ Len(w) = Len(u) + Len(r)
        /\ \A i \in 1..Len(u) + Len(r) : w[i] = IF i <= Len(u) THEN u[i] ELSE r[i - Len(u)]
    BY ConcatProperties
  <1>2. Len(r) \in Nat
    BY LenProperties
  <1> HIDE DEF w
  <1>3. \A i \in 1..Len(r) : /\ i + 1 \in 1..Len(u) + Len(r) /\ ~ (i + 1 <= Len(u)) /\ i + 1 - Len(u) = i
    BY <1>2
  <1>4. 1 \in 1..Len(u) + Len(r) /\ 1 <= Len(u)
    BY <1>2
  <1> QED BY <1>1, <1>2, <1>3, <1>4 DEF w

LEMMA HeadThenTail ==
  ASSUME NEW S, NEW q \in Seq(S), q # <<>>
  PROVE  q = <<Head(q)>> \o Tail(q)
  <1>1. /\ Head(q) \in S /\ Head(q) = q[1] /\ Tail(q) \in Seq(S) /\ Len(Tail(q)) = Len(q) - 1
        /\ \A i \in 1..Len(Tail(q)) : Tail(q)[i] = q[i + 1]
    BY HeadTailProperties
  <1>2. <<Head(q)>> \in Seq(S) /\ Len(<<Head(q)>>) = 1 /\ <<Head(q)>>[1] = q[1]
    BY <1>1
  <1> DEFINE w == <<Head(q)>> \o Tail(q)
  <1>3. /\ w \in Seq(S) /\ Len(w) = Len(Tail(q)) + 1 /\ w[1] = q[1]
        /\ \A i \in 1..Len(Tail(q)) : w[i + 1] = Tail(q)[i]
    BY <1>1, <1>2, PushEntries
  <1> HIDE DEF w
  <1>4. Len(q) \in Nat
    BY LenProperties
  <1>5. ASSUME NEW i \in 1..Len(q) PROVE w[i] = q[i]
    <2>1. CASE i = 1
      BY <2>1, <1>3
    <2>2. CASE i # 1
      <3>1. i - 1 \in 1..Len(Tail(q)) /\ (i - 1) + 1 = i
        BY <2>2, <1>1, <1>4
      <3> QED BY <3>1, <1>1, <1>3
    <2> QED BY <2>1, <2>2
  <1>6. Len(w) = Len(q)
    BY <1>1, <1>3, <1>4
  <1> QED BY <1>3, <1>5, <1>6, SeqEqual DEF w

\* Taking a token from what step() reported and sending it keeps the order.
LEMMA ServedOnToken ==
  ASSUME ServerTypeOK, EngineInv, ServedInv, failures = 0, OnToken
  PROVE  ServedInv'
  <1> DEFINE Pairs == Seqs \X Tokens
  <1>1. /\ Alone /\ Delivered /\ EosLast /\ RestSent
        /\ \A t \in Seqs : FirstToken(t)
        /\ \A t \in Seqs : Answered(t) => t \notin handling /\ status[t] = "FINISHED"
        /\ news \in Seq(Pairs) /\ \A s \in Seqs : sent[s] \in Seq(Pairs)
        /\ handling \subseteq Seqs
    BY ServedParts DEF ServerTypeOK
  <1>2. /\ news # <<>> /\ Head(news)[2] # EOS
        /\ sent' = [s \in Seqs |-> IF s \in handling THEN Append(sent[s], Head(news)) ELSE sent[s]]
        /\ news' = Tail(news)
        /\ UNCHANGED <<mode, handling, finish, failures>>
        /\ UNCHANGED vars
    BY DEF OnToken, Stops
  <1>3. UNCHANGED <<status, token_ids, num_prompt_tokens, ignore_eos, phase, block_table,
                    scheduled, at, is_prefill>>
    BY <1>2 DEF vars, sequenceVars, requestVars, schedulerVars, batchVars
  <1>4. /\ Head(news) \in Pairs /\ Head(news) = news[1]
        /\ Tail(news) \in Seq(Pairs) /\ Len(Tail(news)) = Len(news) - 1 /\ Len(news) \in Nat \ {0}
        /\ \A i \in 1..Len(Tail(news)) : Tail(news)[i] = news[i + 1]
        /\ DOMAIN Tail(news) = 1..Len(Tail(news)) /\ DOMAIN news = 1..Len(news)
    <2> HIDE DEF Pairs
    <2>1. /\ Head(news) \in Pairs /\ Tail(news) \in Seq(Pairs) /\ Len(Tail(news)) = Len(news) - 1
          /\ \A i \in 1..Len(Tail(news)) : Tail(news)[i] = news[i + 1]
      BY <1>1, <1>2, HeadTailProperties
    <2>2. Len(news) \in Nat \ {0}
      BY <1>1, <1>2, LenProperties, EmptySeq
    <2>3. Head(news) = news[1]
      BY <1>1
    <2> QED BY <1>1, <2>1, <2>2, <2>3, LenProperties
  <1>5. Alone'
    <2>1. handling # {}
      BY <1>1, <1>2 DEF Alone
    <2>2. \A s \in Seqs : status[s] = "NEW" => s \notin handling
      BY <1>1 DEF Alone
    <2> QED BY <2>1, <2>2, <1>1, <1>2, <1>3 DEF Alone
  <1>6. \A t \in Seqs : FirstToken(t)'
    <2>1. OpenSeqs' = OpenSeqs /\ Decoding' = Decoding
      BY <1>3 DEF OpenSeqs, Decoding
    <2> QED BY <2>1, <1>1, <1>3, FirstTokenSame
  <1>7. Delivered'
    <2>1. ASSUME NEW s \in handling PROVE sent'[s] \o news' = sent[s] \o news
      <3> DEFINE a == sent[s]
                 h == Head(news)
                 r == Tail(news)
      <3>1. s \in Seqs /\ a \in Seq(Pairs) /\ h \in Pairs /\ r \in Seq(Pairs) /\ news = <<h>> \o r
        <4> HIDE DEF Pairs
        <4>1. news = <<h>> \o r
          BY <1>1, <1>2, HeadThenTail
        <4> QED BY <4>1, <1>1, <1>4, <2>1
      <3>2. sent'[s] = Append(a, h)
        BY <1>2, <2>1, <3>1
      <3> HIDE DEF Pairs, a, h, r
      <3>3. Append(a, h) = a \o <<h>> /\ <<h>> \in Seq(Pairs)
        BY <3>1, AppendIsConcat
      <3>4. (a \o <<h>>) \o r = a \o (<<h>> \o r)
        BY <3>1, <3>3, ConcatAssociative
      <3> QED BY <3>1, <3>2, <3>3, <3>4, <1>2 DEF a, r
    <2>2. ASSUME NEW s \in handling PROVE Follow(s, sent[s] \o news)'
      <3>1. Follow(s, sent[s] \o news)
        BY <1>1, <2>2 DEF Delivered
      <3>2. num_completion_tokens(s)' = num_completion_tokens(s)
        BY <1>3 DEF num_completion_tokens, num_tokens
      <3> QED BY <3>1, <3>2, <2>1, <2>2, <1>3 DEF Follow
    <2> QED BY <2>2, <1>2 DEF Delivered
  <1>8. EosLast'
    <2>1. ASSUME NEW s \in Seqs, NEW i \in DOMAIN sent'[s] PROVE sent'[s][i][2] # EOS
      <3>1. CASE s \in handling
        <4> HIDE DEF Pairs
        <4>1. sent'[s] = Append(sent[s], Head(news)) /\ sent[s] \in Seq(Pairs) /\ Head(news) \in Pairs
          BY <3>1, <1>1, <1>2, <1>4
        <4>2. /\ Len(sent'[s]) = Len(sent[s]) + 1 /\ sent'[s] \in Seq(Pairs)
              /\ \A j \in 1..Len(sent[s]) : sent'[s][j] = sent[s][j]
              /\ sent'[s][Len(sent[s]) + 1] = Head(news)
          BY <4>1, AppendProperties
        <4>3. /\ Len(sent[s]) \in Nat /\ DOMAIN sent[s] = 1..Len(sent[s])
              /\ DOMAIN sent'[s] = 1..Len(sent'[s])
          BY <4>1, <4>2, LenProperties
        <4>4. i \in 1..Len(sent[s]) \/ i = Len(sent[s]) + 1
          BY <2>1, <4>2, <4>3
        <4> QED BY <4>2, <4>3, <4>4, <1>1, <1>2 DEF EosLast
      <3>2. CASE s \notin handling
        BY <3>2, <2>1, <1>1, <1>2 DEF EosLast
      <3> QED BY <3>1, <3>2
    <2>2. ASSUME NEW i \in DOMAIN news', news'[i][2] = EOS
          PROVE  i = Len(news') /\ \A s \in handling : status[s] = "FINISHED"
      <3>1. i \in 1..Len(Tail(news)) /\ i + 1 \in DOMAIN news /\ news[i + 1][2] = EOS /\ i \in Nat
        BY <2>2, <1>2, <1>4
      <3>2. i + 1 = Len(news) /\ \A s \in handling : status[s] = "FINISHED"
        BY <3>1, <1>1 DEF EosLast
      <3> QED BY <3>1, <3>2, <1>2, <1>4
    <2> QED BY <2>1, <2>2, <1>2, <1>3 DEF EosLast
  <1>9. RestSent'
    <2>1. \A s \in Seqs : Answered(s)' => Answered(s) /\ sent'[s] = sent[s]
      BY <1>1, <1>2 DEF Answered
    <2> QED BY <2>1, <1>1, <1>2, <1>3, AnsweredStays
  <1> QED BY <1>5, <1>6, <1>7, <1>8, <1>9 DEF ServedInv

\* A request that is answered without an error has finished, and its client has been
\* sent what it is said to be sent.
LEMMA ServedAnswer ==
  ASSUME ServerTypeOK, EngineInv, ServedInv, failures = 0, NEW h \in Seqs, handling = {h},
         status[h] = "FINISHED", phase = "idle", NEW how, how \in {"stop", "length"},
         Answer(how), UNCHANGED <<vars, mode, sent, failures>>,
         Tail(completion_token_ids(h)) \in {SentTokens(h), Append(SentTokens(h), EOS)}
  PROVE  ServedInv'
  <1>1. /\ Alone /\ Delivered /\ EosLast /\ RestSent
        /\ \A t \in Seqs : FirstToken(t)
        /\ \A s \in Seqs : sent[s] \in Seq(Seqs \X Tokens)
    BY ServedParts
  <1>2. /\ finish' = [s \in Seqs |-> IF s = h THEN how ELSE finish[s]]
        /\ handling' = {} /\ news' = <<>>
        /\ UNCHANGED <<sent, failures, mode>>
        /\ UNCHANGED <<status, token_ids, num_prompt_tokens, ignore_eos, phase, block_table,
                       scheduled, at, is_prefill>>
    BY DEF Answer, vars, sequenceVars, requestVars, schedulerVars, batchVars
  <1>3. Alone'
    BY <1>1, <1>2 DEF Alone
  <1>4. \A t \in Seqs : FirstToken(t)'
    <2>1. OpenSeqs' = OpenSeqs /\ Decoding' = Decoding
      BY <1>2 DEF OpenSeqs, Decoding
    <2> QED BY <2>1, <1>1, <1>2, FirstTokenSame
  <1>5. Delivered' /\ EosLast'
    BY <1>1, <1>2 DEF Delivered, EosLast
  <1>6. RestSent'
    <2>1. SentTokens(h)' = SentTokens(h) /\ completion_token_ids(h)' = completion_token_ids(h)
      BY <1>2 DEF SentTokens, completion_token_ids, num_tokens
    <2>2. EOS \notin Range(SentTokens(h))
      BY <1>1 DEF EosLast, SentTokens, Range
    <2>3. ASSUME NEW s \in Seqs \ {h}, Answered(s)'
          PROVE  /\ EOS \notin Range(SentTokens(s))'
                 /\ (Tail(completion_token_ids(s)) \in {SentTokens(s), Append(SentTokens(s), EOS)})'
      <3>1. Answered(s)
        BY <2>3, <1>2 DEF Answered
      <3> QED BY <3>1, <1>1, <1>2 DEF RestSent, SentTokens, completion_token_ids, num_tokens
    <2> QED BY <2>1, <2>2, <2>3 DEF RestSent
  <1> QED BY <1>3, <1>4, <1>5, <1>6 DEF ServedInv

LEMMA ServedOnFinished ==
  ASSUME ServerTypeOK, EngineInv, ServedInv, failures = 0, OnFinished
  PROVE  ServedInv'
  <1>1. /\ CoreInv /\ SequenceTypeOK /\ Alone /\ Delivered /\ \A t \in Seqs : FirstToken(t)
        /\ \A s \in Seqs : sent[s] \in Seq(Seqs \X Tokens)
    BY ServedParts
  <1>2. /\ handling # {} /\ phase = "idle" /\ news = <<>> /\ waiting = <<>> /\ running = <<>>
        /\ Answer("length") /\ UNCHANGED <<vars, mode, sent, failures>>
    BY DEF OnFinished, EngineDone, SchedulerIsFinished
  <1>3. PICK h \in Seqs : handling = {h}
    BY <1>1, <1>2 DEF Alone
  <1>4. status[h] = "FINISHED"
    <2>1. QueuedInv
      BY DEF EngineInv, OrderInv
    <2>2. status[h] \in {"NEW", "WAITING", "RUNNING", "FINISHED"} /\ status[h] # "NEW"
      BY <1>1, <1>3 DEF SequenceTypeOK, Alone
    <2>3. Range(waiting) = {} /\ Range(running) = {}
      BY <1>2 DEF Range
    <2> QED BY <2>1, <2>2, <2>3, <1>2 DEF QueuedInv
  <1>5. Tail(completion_token_ids(h)) = SentTokens(h)
    <2>1. sent[h] \o news = sent[h]
      BY <1>1, <1>2, ConcatEmptySeq
    <2>2. Follow(h, sent[h]) /\ num_completion_tokens(h) > 0
      BY <2>1, <1>1, <1>3, <1>4 DEF Delivered, FirstToken
    <2> QED BY <2>2, <1>1, TailOfFollow DEF SentTokens
  <1> QED BY <1>2, <1>3, <1>4, <1>5, ServedAnswer

LEMMA ServedOnStop ==
  ASSUME ServerTypeOK, EngineInv, ServedInv, failures = 0, OnStop
  PROVE  ServedInv'
  <1> DEFINE Pairs == Seqs \X Tokens
  <1>1. /\ CoreInv /\ SequenceTypeOK /\ Alone /\ Delivered /\ EosLast
        /\ \A t \in Seqs : FirstToken(t)
        /\ news \in Seq(Pairs) /\ \A s \in Seqs : sent[s] \in Seq(Pairs)
    BY ServedParts
  <1>2. /\ phase = "idle" /\ news # <<>> /\ Head(news)[2] = EOS
        /\ Answer("stop") /\ UNCHANGED <<vars, mode, sent, failures>>
    BY DEF OnStop, Stops
  <1>3. PICK h \in Seqs : handling = {h}
    BY <1>1, <1>2 DEF Alone
  <1>4. news[1][2] = EOS /\ 1 \in DOMAIN news
    <2>1. Len(news) \in Nat \ {0} /\ DOMAIN news = 1..Len(news)
      BY <1>1, <1>2, LenProperties, EmptySeq
    <2>2. Head(news) = news[1]
      BY <1>1
    <2> QED BY <2>1, <2>2, <1>2
  <1>5. Len(news) = 1 /\ status[h] = "FINISHED"
    BY <1>1, <1>3, <1>4 DEF EosLast
  <1>6. Tail(completion_token_ids(h)) = Append(SentTokens(h), EOS)
    <2> DEFINE a == sent[h]
               q == a \o news
               z == [i \in DOMAIN q |-> q[i][2]]
               y == SentTokens(h)
    <2>1. a \in Seq(Pairs) /\ Len(a) \in Nat /\ DOMAIN a = 1..Len(a)
      BY <1>1, LenProperties
    <2>2. /\ q \in Seq(Pairs) /\ Len(q) = Len(a) + 1
          /\ \A i \in 1..Len(a) + 1 : q[i] = IF i <= Len(a) THEN a[i] ELSE news[i - Len(a)]
      <3> HIDE DEF Pairs
      <3> QED BY <2>1, <1>1, <1>5, ConcatProperties
    <2>3. Follow(h, q) /\ num_completion_tokens(h) > 0
      BY <1>1, <1>3, <1>5 DEF Delivered, FirstToken
    <2>4. Tail(completion_token_ids(h)) = z
      BY <2>2, <2>3, <1>1, TailOfFollow
    <2>5. y \in Seq(Tokens) /\ Len(y) = Len(a) /\ \A i \in 1..Len(a) : y[i] = a[i][2]
      <3>1. y = [i \in 1..Len(a) |-> a[i][2]]
        BY <2>1 DEF SentTokens
      <3>2. \A i \in 1..Len(a) : a[i] \in Pairs
        BY <2>1, ElementOfSeq
      <3>3. \A i \in 1..Len(a) : a[i][2] \in Tokens
        BY <3>2
      <3> HIDE DEF a, y
      <3>4. y \in [1..Len(a) -> Tokens]
        BY <3>1, <3>3
      <3> QED BY <3>1, <3>4, <2>1
    <2>6. z \in Seq(Tokens) /\ Len(z) = Len(a) + 1 /\ \A i \in 1..Len(a) + 1 : z[i] = q[i][2]
      <3>1. DOMAIN q = 1..Len(a) + 1
        BY <2>2, LenProperties
      <3>2. \A i \in 1..Len(a) + 1 : q[i] \in Pairs
        BY <2>2, ElementOfSeq
      <3>3. \A i \in 1..Len(a) + 1 : q[i][2] \in Tokens
        BY <3>2
      <3> HIDE DEF a, q
      <3>4. z = [i \in 1..Len(a) + 1 |-> q[i][2]] /\ z \in [1..Len(a) + 1 -> Tokens]
        BY <3>1, <3>3
      <3> HIDE DEF z
      <3> QED BY <3>4, <2>1
    <2>7. EOS \in Tokens
      <3>1. news[1] \in Pairs
        BY <1>1, <1>5, ElementOfSeq
      <3> QED BY <3>1, <1>4
    <2>8. /\ Append(y, EOS) \in Seq(Tokens) /\ Len(Append(y, EOS)) = Len(a) + 1
          /\ \A i \in 1..Len(a) : Append(y, EOS)[i] = y[i]
          /\ Append(y, EOS)[Len(a) + 1] = EOS
      <3> HIDE DEF y, a
      <3> QED BY <2>5, <2>7, AppendProperties
    <2>9. ASSUME NEW i \in 1..Len(a) + 1 PROVE z[i] = Append(y, EOS)[i]
      <3> HIDE DEF y, a, z, q
      <3>1. CASE i <= Len(a)
        <4>1. i \in 1..Len(a)
          BY <3>1, <2>1
        <4> QED BY <4>1, <3>1, <2>2, <2>5, <2>6, <2>8
      <3>2. CASE ~ (i <= Len(a))
        <4>1. i = Len(a) + 1 /\ i - Len(a) = 1
          BY <3>2, <2>1
        <4>2. z[i] = EOS
          BY <4>1, <3>2, <2>2, <2>6, <1>4
        <4> QED BY <4>1, <4>2, <2>8
      <3> QED BY <3>1, <3>2
    <2> HIDE DEF y, z, a, q
    <2>10. z = Append(y, EOS)
      BY <2>6, <2>8, <2>9, SeqEqual
    <2> QED BY <2>4, <2>10 DEF y
  <1> QED BY <1>2, <1>3, <1>5, <1>6, ServedAnswer

\* What step() reports: nothing of a prefill, which yields the first token, and every
\* token of a decode.
LEMMA ServedReport ==
  ASSUME ServerTypeOK, EngineInv, ServedInv, NEW h \in Seqs, handling = {h},
         NEW t \in Tokens, PostReport(h, t), UNCHANGED <<sent, handling>>
  PROVE  Follow(h, sent[h] \o news)'
  <1> DEFINE Pairs == Seqs \X Tokens
             q == sent[h] \o news
             x == token_ids[h]
             P == num_prompt_tokens[h]
             L == Len(x)
  <1>1. /\ CoreInv /\ SequenceTypeOK /\ Delivered /\ FirstToken(h)
        /\ news \in Seq(Pairs) /\ sent[h] \in Seq(Pairs)
    BY ServedParts
  <1>2. /\ PostTurn(h) /\ ~ (is_prefill /\ CachedAfter(h) < num_tokens(h))
        /\ token_ids' = [token_ids EXCEPT ![h] = Append(@, t)]
        /\ UNCHANGED num_prompt_tokens
        /\ news' = Reported(h, t)
    BY DEF PostReport, PostAppend, PostFinish, append_token, requestVars
  <1>3. status[h] = "RUNNING" /\ h \in OpenSeqs /\ phase = "post"
    BY <1>1, <1>2, PostTurnFacts
  <1>4. num_completion_tokens(h) = 0 <=> is_prefill
    BY <1>1, <1>3 DEF FirstToken, Decoding
  <1>5. /\ x \in Seq(Tokens) /\ P \in Nat /\ L \in Nat /\ P <= L
        /\ num_completion_tokens(h) = L - P
    <2>1. x \in Seq(Tokens) /\ P \in Nat
      BY <1>1 DEF SequenceTypeOK
    <2>2. L \in Nat
      BY <2>1, LenProperties
    <2> QED BY <2>1, <2>2, <1>1 DEF FirstToken, num_tokens, num_completion_tokens
  <1>6. /\ token_ids'[h] = Append(x, t) /\ Len(Append(x, t)) = L + 1
        /\ \A i \in 1..L : Append(x, t)[i] = x[i]
        /\ Append(x, t)[L + 1] = t
    <2>1. token_ids'[h] = Append(x, t)
      BY <1>1, <1>2 DEF SequenceTypeOK
    <2> HIDE DEF x
    <2> QED BY <2>1, <1>5, AppendProperties
  <1>7. num_completion_tokens(h)' = L + 1 - P /\ num_prompt_tokens'[h] = P
    <2>1. Len(token_ids'[h]) = L + 1 /\ num_prompt_tokens'[h] = P
      BY <1>2, <1>6
    <2> HIDE DEF x, L, P
    <2> QED BY <2>1, <1>5 DEF num_completion_tokens, num_tokens
  <1>8. Follow(h, q)
    BY <1>1 DEF Delivered
  <1>9. CASE is_prefill
    <2>1. Len(q) = 0
      BY <1>4, <1>8, <1>9 DEF Follow
    <2>2. sent'[h] \o news' = q
      BY <1>2, <1>9 DEF Reported
    <2>3. num_completion_tokens(h)' - 1 = 0
      BY <1>4, <1>5, <1>7, <1>9
    <2> HIDE DEF q
    <2>4. 1..Len(q) = {}
      BY <2>1
    <2> QED BY <2>1, <2>2, <2>3, <2>4 DEF Follow
  <1>10. CASE ~ is_prefill
    <2> DEFINE u == <<h, t>>
               r == Append(q, u)
    <2>1. sent'[h] \o news' = r
      <3> DEFINE a == sent[h]
      <3> HIDE DEF Pairs, a, u
      <3>1. u \in Pairs
        BY DEF u, Pairs
      <3>2. <<u>> \in Seq(Pairs) /\ Append(news, u) = news \o <<u>>
        BY <3>1, <1>1, AppendIsConcat
      <3>3. a \in Seq(Pairs) /\ a \o news \in Seq(Pairs)
        BY <1>1, ConcatProperties DEF a
      <3>4. a \o (news \o <<u>>) = (a \o news) \o <<u>>
        BY <3>2, <3>3, <1>1, ConcatAssociative
      <3>5. Append(a \o news, u) = (a \o news) \o <<u>>
        BY <3>1, <3>3, AppendIsConcat
      <3>6. news' = Append(news, u) /\ sent' = sent
        BY <1>2, <1>10 DEF Reported, u
      <3> QED BY <3>2, <3>4, <3>5, <3>6 DEF a
    <2>2. q \in Seq(Pairs) /\ u \in Pairs
      <3>1. u \in Pairs
        OBVIOUS
      <3> HIDE DEF Pairs, u
      <3> QED BY <3>1, <1>1, ConcatProperties
    <2> HIDE DEF q, u, Pairs
    <2>3. /\ Len(r) = Len(q) + 1 /\ r[Len(q) + 1] = u
          /\ \A i \in 1..Len(q) : r[i] = q[i]
      BY <2>2, AppendProperties
    <2>4. Len(q) = L - P - 1 /\ L - P > 0
      BY <1>4, <1>5, <1>8, <1>10 DEF Follow
    <2>5. ASSUME NEW i \in 1..Len(q) + 1
          PROVE  r[i] = <<h, token_ids'[h][P + 1 + i]>>
      <3>1. CASE i = Len(q) + 1
        <4>1. P + 1 + i = L + 1
          BY <3>1, <2>4, <1>5
        <4> HIDE DEF x, L, P, r
        <4> QED BY <4>1, <3>1, <2>3, <1>6 DEF u
      <3>2. CASE i # Len(q) + 1
        <4>1. i \in 1..Len(q) /\ P + 1 + i \in 1..L
          BY <3>2, <2>4, <1>5
        <4>2. q[i] = <<h, x[P + 1 + i]>>
          BY <4>1, <1>8 DEF Follow
        <4> HIDE DEF x, L, P, r
        <4> QED BY <4>1, <4>2, <2>3, <1>6
      <3> QED BY <3>1, <3>2
    <2>6. Len(r) = L + 1 - P - 1 /\ L + 1 - P # 0
      BY <2>3, <2>4, <1>5
    <2> HIDE DEF r, L, x, P
    <2>7. Len(r) = num_completion_tokens(h)' - 1 /\ num_completion_tokens(h)' # 0
      BY <2>6, <1>5, <1>7
    <2>8. \A i \in 1..Len(r) : r[i] = <<h, token_ids'[h][num_prompt_tokens'[h] + 1 + i]>>
      BY <2>3, <2>5, <1>7
    <2> QED BY <2>1, <2>7, <2>8 DEF Follow
  <1> QED BY <1>9, <1>10

LEMMA ServedEngine ==
  ASSUME ServerTypeOK, EngineInv, ServedInv, failures = 0, EngineStep
  PROVE  ServedInv'
  <1> DEFINE Pairs == Seqs \X Tokens
  <1>1. /\ CoreInv /\ SequenceTypeOK /\ Alone /\ Delivered /\ EosLast /\ RestSent
        /\ \A s \in Seqs : FirstToken(s)
        /\ \A s \in Seqs : Answered(s) => s \notin handling /\ status[s] = "FINISHED"
        /\ news \in Seq(Pairs) /\ Len(news) \in Nat /\ DOMAIN news = 1..Len(news)
    BY ServedParts, LenProperties
  <1>2. PICK h \in Seqs : handling = {h}
    BY <1>1 DEF EngineStep, Alone
  <1>3. UNCHANGED <<mode, handling, sent, finish, failures>>
    BY DEF EngineStep
  <1>4. step
    <2>1. ASSUME NEW s \in Seqs, NEW t \in Tokens, PostReport(s, t), UNCHANGED kv
          PROVE  step
      BY <2>1 DEF PostReport, step, Postprocess
    <2>2. ASSUME NEW s \in Seqs, PostPartialPrefill(s), UNCHANGED kv PROVE step
      BY <2>2 DEF step, Postprocess
    <2> QED BY <2>1, <2>2 DEF EngineStep, step
  <1>5. /\ UNCHANGED <<num_prompt_tokens, ignore_eos>>
        /\ \A s \in Seqs : status[s] \in {"NEW", "FINISHED"} =>
             status'[s] = status[s] /\ token_ids'[s] = token_ids[s]
        /\ \A s \in Seqs : status[s] # "NEW" => status'[s] # "NEW"
    BY <1>1, <1>4, StepKeeps DEF requestVars
  <1>6. Alone'
    <2>1. \A s \in Seqs \ {h} : status'[s] = status[s] /\ token_ids'[s] = token_ids[s]
      BY <1>1, <1>2, <1>5 DEF Alone
    <2>2. status'[h] # "NEW"
      BY <1>1, <1>2, <1>5 DEF Alone
    <2> QED BY <2>1, <2>2, <1>1, <1>2, <1>3, <1>5 DEF Alone
  <1>7. \A s \in Seqs : FirstToken(s)'
    BY <1>1, <1>2, <1>4, FirstTokenStep DEF Alone
  <1>8. RestSent'
    <2>1. \A s \in Seqs : Answered(s)' => /\ Answered(s) /\ sent'[s] = sent[s]
                                          /\ token_ids'[s] = token_ids[s]
      BY <1>1, <1>3, <1>5 DEF Answered
    <2> QED BY <2>1, <1>1, <1>5, AnsweredStays
  <1>9. ASSUME NEW s \in Seqs, NEW t \in Tokens, PostReport(s, t)
        PROVE  Delivered' /\ EosLast'
    <2>1. /\ PostTurn(s) /\ ~ (is_prefill /\ CachedAfter(s) < num_tokens(s))
          /\ Finishes(s, t) => status' = [status EXCEPT ![s] = "FINISHED"]
          /\ news' = Reported(s, t)
      BY <1>9 DEF PostReport, PostAppend, PostFinish
    <2>2. status[s] = "RUNNING" /\ s = h
      <3>1. status[s] = "RUNNING"
        BY <2>1, <1>1, PostTurnFacts
      <3> QED BY <3>1, <1>1, <1>2 DEF Alone
    <2>3. Delivered'
      BY <2>2, <1>2, <1>3, <1>9, ServedReport DEF Delivered
    <2>4. t = EOS => status'[h] = "FINISHED"
      <3>1. ~ ignore_eos[h]
        BY <1>1 DEF Alone
      <3> QED BY <3>1, <2>1, <2>2, <1>1 DEF Finishes, SequenceTypeOK
    <2>5. \A i \in DOMAIN news : news[i][2] # EOS
      BY <2>2, <1>1, <1>2 DEF EosLast
    <2>6. EosLast'
      <3>1. CASE is_prefill
        BY <3>1, <2>1, <2>5, <1>1, <1>3 DEF Reported, EosLast
      <3>2. CASE ~ is_prefill
        <4> DEFINE u == <<s, t>>
                   r == Append(news, u)
        <4>1. u \in Pairs /\ u[2] = t
          OBVIOUS
        <4> HIDE DEF u, Pairs
        <4>2. /\ Len(r) = Len(news) + 1 /\ r \in Seq(Pairs)
              /\ \A i \in 1..Len(news) : r[i] = news[i]
              /\ r[Len(news) + 1] = u
          BY <4>1, <1>1, AppendProperties
        <4>3. DOMAIN r = 1..Len(r)
          BY <4>2, LenProperties
        <4>4. news' = r
          BY <3>2, <2>1 DEF Reported, u
        <4> HIDE DEF r
        <4>5. ASSUME NEW i \in DOMAIN r, r[i][2] = EOS
              PROVE  i = Len(r) /\ status'[h] = "FINISHED"
          <5>1. i = Len(news) + 1
            BY <4>2, <4>3, <4>5, <2>5, <1>1
          <5> QED BY <5>1, <4>1, <4>2, <4>5, <2>4
        <4> QED BY <4>4, <4>5, <1>1, <1>2, <1>3 DEF EosLast
      <3> QED BY <3>1, <3>2
    <2> QED BY <2>3, <2>6
  <1>10. CASE \E s \in Seqs, t \in Tokens : PostReport(s, t)
    BY <1>6, <1>7, <1>8, <1>9, <1>10 DEF ServedInv
  <1>11. CASE UNCHANGED <<news, token_ids>>
    <2>1. Delivered'
      BY <1>1, <1>2, <1>3, <1>5, <1>11 DEF Delivered, Follow, num_completion_tokens, num_tokens
    <2>2. EosLast'
      BY <1>1, <1>2, <1>3, <1>5, <1>11 DEF EosLast
    <2> QED BY <2>1, <2>2, <1>6, <1>7, <1>8 DEF ServedInv
  <1>12. \/ \E s \in Seqs, t \in Tokens : PostReport(s, t)
         \/ UNCHANGED <<news, token_ids>>
    <2>1. ASSUME Schedule PROVE UNCHANGED token_ids
      BY <2>1 DEF Schedule, StartStep, Prefill, PrefillAllocate, PrefillContinue, Take, PrefillEnd,
         Decode, DecodeTake, DecodePreempt, preempt, DecodeEnd, Retry, sequenceVars
    <2>2. ASSUME NEW s \in Seqs, PostPartialPrefill(s) PROVE UNCHANGED token_ids
      BY <2>2 DEF PostPartialPrefill
    <2>3. RunBatch => UNCHANGED token_ids
      BY DEF RunBatch, sequenceVars
    <2> QED BY <2>1, <2>2, <2>3 DEF EngineStep
  <1> QED BY <1>10, <1>11, <1>12

(***************************************************************************)
(* The theorems.                                                           *)
(***************************************************************************)
LEMMA ServerInitial == ServerInit => ServerInv
  <1> SUFFICES ASSUME ServerInit PROVE ServerInv
    OBVIOUS
  <1>1. Init /\ mode \in Modes /\ handling = {} /\ news = <<>> /\ failures = 0
        /\ sent = [s \in Seqs |-> <<>>] /\ finish = [s \in Seqs |-> "none"]
    BY DEF ServerInit
  <1>2. CoreInv /\ OrderInv /\ EngineInv
    BY <1>1, InitInv, InitOrder, InitAligned, InitPrefix DEF EngineInv, IInv
  <1>3. ServerTypeOK
    BY <1>1 DEF ServerTypeOK
  <1>4. /\ status = [s \in Seqs |-> "NEW"] /\ ignore_eos = [s \in Seqs |-> FALSE]
        /\ token_ids = [s \in Seqs |-> <<>>] /\ num_prompt_tokens = [s \in Seqs |-> 0]
        /\ phase = "idle"
    BY <1>1 DEF Init, SequenceInit, SchedulerInit
  <1>5. Alone /\ Delivered /\ EosLast /\ RestSent
    BY <1>1, <1>4 DEF Alone, Delivered, EosLast, RestSent, Answered
  <1>6. \A s \in Seqs : FirstToken(s)
    BY <1>4 DEF FirstToken, num_tokens
  <1> QED BY <1>1, <1>2, <1>3, <1>5, <1>6 DEF ServerInv, ServedInv, NoConnection

LEMMA ServerStep == ServerInv /\ [ServerNext]_allVars => ServerInv'
  <1> SUFFICES ASSUME ServerInv, [ServerNext]_allVars PROVE ServerInv'
    OBVIOUS
  <1>1. ServerTypeOK /\ CoreInv /\ OrderInv /\ mode \in Modes /\ failures \in Nat
    BY DEF ServerInv, ServerTypeOK
  <1>2. ServerTypeOK'
    BY <1>1, ServerTypes
  <1>0. mode' = "library" => NoConnection'
    <2> SUFFICES ASSUME mode' = "library" PROVE NoConnection'
      OBVIOUS
    <2>1. mode = "library"
      BY DEF ServerNext, handle_http, RunGeneration, EngineStep, OnToken, OnStop,
         OnFinished, StepThrows, LibraryAdds, LibrarySteps, serverVars, allVars
    <2>2. NoConnection
      BY <2>1 DEF ServerInv
    <2> QED BY <2>1, <2>2 DEF NoConnection, ServerNext, handle_http, RunGeneration, EngineStep, OnToken,
           OnStop, OnFinished, Answer, StepThrows, LibraryAdds, LibrarySteps, serverVars, allVars
  <1>3. CASE StepThrows
    <2>1. failures' # 0
      BY <1>1, <1>3 DEF StepThrows
    <2> QED BY <2>1, <1>0, <1>1, <1>2, <1>3, ThrowKeeps DEF ServerInv
  <1>4. CASE ~ StepThrows
    <2>1. [Next]_vars /\ UNCHANGED <<failures, mode>>
      <3>1. UNCHANGED <<failures, mode>>
        BY <1>4 DEF ServerNext, handle_http, RunGeneration, EngineStep, OnToken, OnStop,
           OnFinished, LibraryAdds, LibrarySteps, serverVars, allVars
      <3> QED BY <3>1, <1>1, <1>4, ServerEngineStep
    <2>2. CoreInv' /\ OrderInv'
      BY <1>1, <2>1, NextInv, NextOrder
    <2>3. failures = 0 => EngineInv'
      BY <2>1, <2>2, <1>1, NextAligned, NextPrefix DEF ServerInv, EngineInv, IInv
    <2>4. ASSUME failures = 0, mode = "server" PROVE ServedInv'
      <3>1. EngineInv /\ ServedInv
        BY <2>4 DEF ServerInv
      <3>2. CASE \E s \in Seqs : handle_http(s)
        BY <3>1, <3>2, <1>1, <2>4, ServedHttp
      <3>3. CASE RunGeneration
        BY <3>1, <3>3, <1>1, <2>4, ServedEngine, ServedOnToken, ServedOnStop, ServedOnFinished
           DEF RunGeneration
      <3>4. CASE UNCHANGED allVars
        <4>1. UNCHANGED <<status, token_ids, num_prompt_tokens, ignore_eos, phase, block_table,
                          scheduled, at, is_prefill, handling, news, sent, finish, failures>>
          BY <3>4 DEF allVars, vars, serverVars, sequenceVars, requestVars, schedulerVars, batchVars
        <4>2. OpenSeqs' = OpenSeqs /\ Decoding' = Decoding
          BY <4>1 DEF OpenSeqs, Decoding
        <4>3. \A s \in Seqs : FirstToken(s)'
          BY <3>1, <4>1, <4>2, FirstTokenSame DEF ServedInv
        <4>4. Alone' /\ EosLast'
          BY <3>1, <4>1 DEF ServedInv, Alone, EosLast
        <4>5. Delivered'
          BY <3>1, <4>1 DEF ServedInv, Delivered, Follow, num_completion_tokens, num_tokens
        <4>6. RestSent'
          BY <3>1, <4>1 DEF ServedInv, RestSent, Answered, SentTokens, completion_token_ids, num_tokens
        <4> QED BY <4>3, <4>4, <4>5, <4>6 DEF ServedInv
      <3>5. ~ LibraryAdds /\ ~ LibrarySteps
        BY <2>4 DEF LibraryAdds, LibrarySteps
      <3> QED BY <3>2, <3>3, <3>4, <3>5, <1>4 DEF ServerNext
    <2> QED BY <2>1, <2>2, <2>3, <2>4, <1>0, <1>2 DEF ServerInv
  <1> QED BY <1>3, <1>4

\* The invariant of the server: what survives a step that throws, and, until one has,
\* the whole invariant of the engine and the order of the tokens on their way.
THEOREM ServerInvariance == ServerSpec => []ServerInv
  BY ServerInitial, ServerStep, PTL DEF ServerSpec

\* Between two connections nothing of the first one is left, its blocks included.
THEOREM EmptyBetween == ServerSpec => []EngineEmptyBetween
  <1>1. ServerInv => EngineEmptyBetween
    <2> SUFFICES ASSUME ServerInv, mode = "server", handling = {}, failures = 0
                 PROVE  /\ SchedulerIsFinished /\ free_block_ids = Blocks
                        /\ \A b \in Blocks : ref_count[b] = 0
      BY DEF EngineEmptyBetween
    <2>1. CoreInv /\ \A s \in Seqs : status[s] \in {"NEW", "FINISHED"}
      BY DEF ServerInv, ServedInv, Alone
    <2> QED BY <2>1, NobodyIn
  <1> QED BY <1>1, ServerInvariance, PTL

\* A client is sent the tokens of its request behind the first, in order, each once,
\* without the end-of-sequence token.
THEOREM TokensSent == ServerSpec => []RestSent
  <1>1. ServerInv => RestSent
    <2>1. ServerInv => mode \in {"server", "library"}
      BY ServerAssumption DEF ServerInv, ServerTypeOK
    <2> QED BY <2>1 DEF ServerInv, ServedInv, NoConnection, RestSent, Answered
  <1> QED BY <1>1, ServerInvariance, PTL
=============================================================================

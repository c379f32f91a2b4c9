---------------------------- MODULE LLMEngineInv ----------------------------
(***************************************************************************)
(* The inductive invariant of LLMEngine: what the scheduler has to keep    *)
(* about positions, queues and the batch for the types and the block       *)
(* accounting to survive every step.                                       *)
(***************************************************************************)
EXTENDS LLMEngine

\* The requests of the batch that postprocess has still to handle.
OpenSeqs == {scheduled[i] : i \in {j \in DOMAIN scheduled : phase = "post" => j >= at}}

\* The batch under construction, or the batch, is one of decodes.
Decoding == phase = "decode" \/ (phase \in {"run", "post"} /\ ~ is_prefill)

\* How far a request is computed, by status: never to its end; its table covers it,
\* but for the last token of a running request.
Positioned(s) ==
  /\ status[s] \in {"NEW", "FINISHED"} => block_table[s] = <<>> /\ num_cached_tokens[s] = 0
  /\ status[s] = "WAITING" =>
       /\ num_cached_tokens[s] < num_tokens(s)
       /\ \/ block_table[s] = <<>> /\ num_cached_tokens[s] = 0
          \/ num_tokens(s) <= Len(block_table[s]) * BlockSize
  /\ status[s] = "RUNNING" =>
       /\ num_cached_tokens[s] < num_tokens(s)
       /\ num_tokens(s) - 1 <= Len(block_table[s]) * BlockSize

PositionsInv == \A s \in Seqs : Positioned(s)

QueuesInv ==
  /\ IsInjective(waiting) /\ \A s \in Range(waiting) : status[s] = "WAITING"
  /\ IsInjective(running) /\ \A s \in Range(running) : status[s] = "RUNNING"

\* What a batch needs of a request: something to compute within its tokens and its
\* table.  A prefill completes it or leaves it waiting.
InBatch(s) ==
  /\ num_scheduled_tokens[s] > 0
  /\ End(s) <= num_tokens(s)
  /\ num_tokens(s) <= Len(block_table[s]) * BlockSize
  /\ \/ status[s] = "WAITING" /\ ~ Decoding /\ End(s) < num_tokens(s)
     \/ status[s] = "RUNNING" /\ (Decoding \/ End(s) = num_tokens(s))

\* Only the last request that a prefill took can still be waiting.
BatchInv ==
  /\ IsInjective(scheduled)
  /\ num_batched_tokens <= MaxNumBatchedTokens
  /\ phase = "idle" => scheduled = <<>>
  /\ phase \in {"run", "post"} => scheduled # <<>>
  /\ IF phase = "post" THEN at \in DOMAIN scheduled ELSE at = 1
  /\ \A s \in OpenSeqs : InBatch(s)
  /\ phase = "prefill" /\ Remaining # 0 => \A s \in OpenSeqs : status[s] = "RUNNING"
  /\ phase = "decode" => Range(running) \cap Range(scheduled) = {}

\* Types, positions and block accounting together.  A step that throws keeps this.
CoreInv == TypeOK /\ PositionsInv /\ QueuesInv /\ BatchInv /\ RefCountsMatch /\ PoolPartition

\* Unless a step has thrown, a request has tokens scheduled only while it is in the batch
\* and not yet postprocessed, and a running one lacks its last token otherwise.
Aligned(s) ==
  /\ s \notin OpenSeqs => num_scheduled_tokens[s] = 0
  /\ status[s] = "RUNNING" =>
       End(s) = IF s \in OpenSeqs THEN num_tokens(s) ELSE num_tokens(s) - 1

AlignedInv == \A s \in Seqs : Aligned(s)

IInv == CoreInv /\ AlignedInv

(***************************************************************************)
(* What the queues need beyond that.                                       *)
(***************************************************************************)
\* Nobody who has been submitted and has not finished is outside the queues.
QueuedInv ==
  \A s \in Seqs :
    /\ status[s] = "WAITING" => s \in Range(waiting)
    /\ status[s] = "RUNNING" =>
         \/ s \in Range(running)
         \/ phase = "decode" /\ s \in Range(scheduled)

\* A prompt that is prefilled in chunks always joins a batch that is still empty, so the
\* decode loop starts, and preempts, only when nobody who waits has blocks.
ChunksInv ==
  /\ OnlyHeadHoldsBlocks
  /\ phase = "prefill" /\ scheduled = <<>> => num_batched_tokens = 0
  /\ phase = "decode" => \A s \in Range(waiting) : ~ HasTable(s)

\* schedule() is entered only with something to schedule, and it stays that way.
WorkInv ==
  phase \in {"prefill", "decode"} => waiting # <<>> \/ running # <<>> \/ scheduled # <<>>

OrderInv == QueuedInv /\ ChunksInv /\ WorkInv

(***************************************************************************)
(* What sharing needs: a hash tells what a block holds, the index tells    *)
(* the hash, the full blocks of a request have the hashes of its own       *)
(* prefixes, and what is not full has no hash and no second owner.         *)
(***************************************************************************)
ContentsRight ==
  \A b \in Blocks : hash[b] # NoHash =>
    \A o \in Offsets : kv[b][o] = SubSeq(hash[b], 1, Len(hash[b]) - BlockSize + o + 1)

IndexSound ==
  \A h \in DOMAIN hash_to_block_id : h # NoHash /\ hash[hash_to_block_id[h]] = h

FullHashed(s) ==
  \A i \in 1..FirstUnhashed(s) : hash[block_table[s][i]] = PrefixHash(s, i)

\* Entry i of the table of s is the only one in the pool that names its block.
Owned(s, i) ==
  \A t \in Seqs : \A j \in DOMAIN block_table[t] :
    block_table[t][j] = block_table[s][i] => t = s /\ j = i

OpenOwned(s) ==
  \A i \in FirstUnhashed(s) + 1..Len(block_table[s]) :
    hash[block_table[s][i]] = NoHash /\ Owned(s, i)

\* Between the model and postprocess the scheduled positions are computed already.
Computed(s) == IF phase = "post" THEN End(s) ELSE First(s)

\* No table is longer than it must be, so the last entry is the block of the last
\* token, through which prepare_decode writes; and a decode computes one token.
Tight(s) ==
  /\ status[s] = "RUNNING" => (Len(block_table[s]) - 1) * BlockSize < End(s)
  /\ status[s] = "WAITING" /\ HasTable(s) =>
       (Len(block_table[s]) - 1) * BlockSize < num_tokens(s)

DecodesOne == Decoding => \A s \in OpenSeqs : num_scheduled_tokens[s] = 1

PrefixInv ==
  /\ ContentsRight /\ IndexSound
  /\ \A s \in Seqs : /\ FullHashed(s) /\ OpenOwned(s)
                     /\ ContextRight(s, Computed(s))
                     /\ Tight(s)
  /\ DecodesOne

\* The whole inductive invariant of the engine.
EngineInv == IInv /\ OrderInv /\ PrefixInv
=============================================================================

----------------------------- MODULE LLMEngine -----------------------------
(***************************************************************************)
(* src/llm_engine.cpp: requests are added between steps; a step is         *)
(* schedule, run, postprocess; the caller steps until is_finished().       *)
(* Composes Sequence, BlockManager, Scheduler and ModelRunner.             *)
(***************************************************************************)
EXTENDS ModelRunner

CONSTANTS
  Prompts,           \* token sequences a client may submit
  MaxTokensChoices,  \* SamplingParams::max_tokens a client may ask for
  IgnoreEosChoices,  \* SamplingParams::ignore_eos
  MaxModelLen        \* config_.max_model_len

ASSUME EngineAssumption ==
  /\ Prompts \subseteq Seq(Tokens)
  /\ MaxTokensChoices \subseteq Nat
  /\ IgnoreEosChoices \subseteq BOOLEAN
  /\ MaxModelLen \in Nat

vars == <<sequenceVars, blockVars, schedulerVars, kv>>

Init ==
  /\ SequenceInit /\ BlockManagerInit /\ SchedulerInit /\ ModelRunnerInit

\* Mutant: a new request overtakes a prompt that is being prefilled in chunks.
add_request_front(s, prompt, max, ignore) ==
  /\ phase = "idle" /\ status[s] = "NEW"
  /\ max >= 1
  /\ prompt # <<>>
  /\ Len(prompt) + max <= MaxModelLen
  /\ NewSequence(s, prompt, max, ignore)
  /\ waiting' = <<s>> \o waiting
  /\ UNCHANGED <<num_cached_tokens, num_scheduled_tokens, block_table, running,
                 phase, batchVars, blockVars, kv>>

\* validate(), the two checks of add_request, then Scheduler::add.
add_request(s, prompt, max, ignore) ==
  /\ phase = "idle" /\ status[s] = "NEW"
  /\ max >= 1
  /\ prompt # <<>>
  /\ Len(prompt) + max <= MaxModelLen
  /\ NewSequence(s, prompt, max, ignore)
  /\ waiting' = Append(waiting, s)
  /\ UNCHANGED <<num_cached_tokens, num_scheduled_tokens, block_table, running,
                 phase, batchVars, blockVars, kv>>

AddRequest == \E s \in Seqs, p \in Prompts, m \in MaxTokensChoices, i \in IgnoreEosChoices :
                add_request(s, p, m, i)

Prefill == \E s \in Seqs : \/ \E n \in 0..num_blocks(s) - 1 : PrefillAllocate(s, n)
                           \/ PrefillContinue(s)
Decode == \E s \in Seqs : DecodeTake(s) \/ DecodePreempt(s)
Postprocess == \E s \in Seqs : \/ PostPartialPrefill(s)
                               \/ \E t \in Tokens : PostAppend(s, t) \/ PostFinish(s, t)

Schedule == StartStep \/ Prefill \/ PrefillEnd \/ Decode \/ DecodeEnd \/ Retry

step == \/ (Schedule \/ Postprocess) /\ UNCHANGED kv
        \/ RunBatch

Next == AddRequest \/ step

Spec == Init /\ [][Next]_vars

\* The caller's loop: while (!is_finished()) step().
FairSpec == Spec /\ WF_vars(step)
-----------------------------------------------------------------------------
(***************************************************************************)
(* Properties.                                                             *)
(***************************************************************************)

\* The types of the state of the whole engine; in particular no reference count
\* and no token count ever becomes negative.
TypeOK == SequenceTypeOK /\ BlockManagerTypeOK /\ SchedulerTypeOK /\ ModelRunnerTypeOK

\* Attention reads num_cached_tokens positions of a request through its table
\* without computing them: each of them holds what this request's own tokens
\* would have produced, however the blocks were shared, evicted or refilled.
CachedPrefixRight ==
  \A s \in Seqs : \A p \in 0..num_cached_tokens[s] - 1 : KVAt(s, p) = Prefix(s, p)

\* A request that was submitted and has not finished is in exactly one place,
\* once: preempt, the chunked prefill that leaves a sequence at the front of
\* waiting_, and the reordering at the end of a decode batch lose or duplicate
\* nobody.
Count(q, s) == Cardinality({i \in DOMAIN q : q[i] = s})
NoRequestLost ==
  \A s \in Seqs :
    Count(waiting, s) + Count(running, s) + (IF phase = "decode" THEN Count(scheduled, s) ELSE 0)
      = IF status[s] \in {"WAITING", "RUNNING"} THEN 1 ELSE 0

\* Only the head of waiting_ can hold blocks (a prompt between two chunks), so a
\* queue of waiting requests cannot hold the pool while nobody runs.
OnlyHeadHoldsBlocks ==
  \A i \in DOMAIN waiting : i > 1 => ~ HasTable(waiting[i])

\* No request that add_request accepted makes a step throw: neither "no free
\* blocks", nor "could not make progress", nor any check of prepare_prefill or
\* prepare_decode.
NoStepThrows ==
  /\ ~ NoProgressThrows
  /\ ~ RunThrows
  /\ \A s \in Seqs : PrefillTurn(s) /\ ~ HasTable(s) =>
       \A n \in 0..num_blocks(s) - 1 :
         PrefixHits(s, n) /\ can_allocate(s, n) => ~ AllocateThrows(s, n)

\* The key/value pairs of a hashed block are never overwritten while the block
\* keeps its hash: sharing is read-only.
HashedBlocksImmutable ==
  [][\A b \in Blocks : hash[b] # NoHash => kv'[b] = kv[b]]_vars

\* schedule() returns a batch or throws "scheduler could not make progress"
\* (src/scheduler.cpp:83).
ScheduleReturns == (phase = "prefill") ~> (phase = "run" \/ NoProgressThrows)

\* What a client sees: its tokens grow one at a time, never beyond max_tokens.
Generation == INSTANCE Generation WITH
  stage <- [s \in Seqs |-> IF status[s] = "RUNNING" THEN "WAITING" ELSE status[s]]

ImplementsGeneration == Generation!Spec
=============================================================================

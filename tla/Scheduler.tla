----------------------------- MODULE Scheduler -----------------------------
(***************************************************************************)
(* src/scheduler.cpp: continuous batching.  schedule() is two loops; each  *)
(* iteration is an action, so phase is the program counter of a step:      *)
(*                                                                         *)
(*   idle -> prefill -> (decode ->) run -> post -> idle                    *)
(*                                                                         *)
(* run belongs to ModelRunner.  A step that throws has no successor here:  *)
(* the predicates ...Throws say when that is, and NoStepThrows in          *)
(* LLMEngine that it does not happen.                                      *)
(***************************************************************************)
EXTENDS BlockManager

CONSTANTS
  MaxNumSeqs,            \* max_num_seqs_
  MaxNumBatchedTokens    \* max_num_batched_tokens_

ASSUME SchedulerAssumption ==
  /\ MaxNumSeqs \in Nat \ {0}
  /\ MaxNumBatchedTokens \in Nat \ {0}

VARIABLES
  waiting, running,      \* the two deques
  phase,
  scheduled,             \* the batch under construction, then the batch
  num_batched_tokens,
  is_prefill,            \* the second result of schedule()
  at                     \* postprocess: position in the batch

queueVars == <<waiting, running>>
batchVars == <<scheduled, num_batched_tokens, is_prefill, at>>
schedulerVars == <<queueVars, phase, batchVars>>

Phases == {"idle", "prefill", "decode", "run", "post"}

SchedulerInit ==
  /\ waiting = <<>> /\ running = <<>>
  /\ phase = "idle"
  /\ scheduled = <<>> /\ num_batched_tokens = 0 /\ is_prefill = FALSE /\ at = 1

SchedulerIsFinished == waiting = <<>> /\ running = <<>>

EnterSchedule ==
  /\ phase' = "prefill"
  /\ scheduled' = <<>> /\ num_batched_tokens' = 0
  /\ UNCHANGED <<is_prefill, at>>

StartStep ==
  /\ phase = "idle" /\ ~ SchedulerIsFinished
  /\ EnterSchedule
  /\ UNCHANGED <<queueVars, sequenceVars, blockVars>>

(***************************************************************************)
(* The prefill loop.                                                       *)
(***************************************************************************)
Remaining == MaxNumBatchedTokens - num_batched_tokens
HasTable(s) == block_table[s] # <<>>

PrefillTurn(s) ==
  /\ phase = "prefill"
  /\ waiting # <<>> /\ s = Head(waiting)
  /\ Len(scheduled) < MaxNumSeqs
  /\ Remaining # 0

\* Mutant: without the exception for an empty batch.
AdmitsOnlyWhole(n) == Remaining >= n

\* Whether a sequence with n tokens to compute joins this batch.
Admits(n) == Remaining >= n \/ scheduled = <<>>

\* The tail of an iteration: n tokens to compute after the first cached ones.
Take(s, n, cached) ==
  LET sched == IF n <= Remaining THEN n ELSE Remaining
  IN /\ num_scheduled_tokens' = [num_scheduled_tokens EXCEPT ![s] = sched]
     /\ num_batched_tokens' = num_batched_tokens + sched
     /\ scheduled' = Append(scheduled, s)
     /\ IF cached + sched = num_tokens(s)
        THEN /\ status' = [status EXCEPT ![s] = "RUNNING"]
             /\ waiting' = Tail(waiting)
             /\ running' = Append(running, s)
        ELSE UNCHANGED <<status, queueVars>>
     /\ UNCHANGED <<phase, is_prefill, at, token_ids, requestVars>>

\* A sequence without blocks: its first prefill, or again after a preemption.
PrefillAllocate(s, n) ==
  /\ PrefillTurn(s) /\ ~ HasTable(s)
  /\ PrefixHits(s, n) /\ can_allocate(s, n)
  /\ Admits(num_tokens(s) - n * BlockSize)
  /\ allocate(s, n)
  /\ Take(s, num_tokens(s) - n * BlockSize, n * BlockSize)

\* The next chunk of a prompt longer than the token budget.
PrefillContinue(s) ==
  /\ PrefillTurn(s) /\ HasTable(s)
  /\ Admits(num_tokens(s) - num_cached_tokens[s])
  /\ Take(s, num_tokens(s) - num_cached_tokens[s], num_cached_tokens[s])
  /\ UNCHANGED <<blockVars, block_table, num_cached_tokens>>

HeadCannotJoin ==
  LET s == Head(waiting)
  IN IF HasTable(s)
     THEN ~ Admits(num_tokens(s) - num_cached_tokens[s])
     ELSE \E n \in 0..num_blocks(s) - 1 :
            /\ PrefixHits(s, n)
            /\ ~ (can_allocate(s, n) /\ Admits(num_tokens(s) - n * BlockSize))

PrefillEnd ==
  /\ phase = "prefill"
  /\ \/ waiting = <<>> \/ Len(scheduled) >= MaxNumSeqs \/ Remaining = 0
     \/ waiting # <<>> /\ HeadCannotJoin
  /\ IF scheduled # <<>>
     THEN phase' = "run" /\ is_prefill' = TRUE
     ELSE phase' = "decode" /\ UNCHANGED is_prefill
  /\ UNCHANGED <<queueVars, scheduled, num_batched_tokens, at, sequenceVars, blockVars>>

(***************************************************************************)
(* The decode loop.  The code pops the sequence first; here it stays at    *)
(* the head of running until the iteration disposes of it.                 *)
(***************************************************************************)
DecodeTurn(s) ==
  /\ phase = "decode"
  /\ running # <<>> /\ s = Head(running)
  /\ Len(scheduled) < MaxNumSeqs

DecodeTake(s) ==
  /\ DecodeTurn(s) /\ can_append(s)
  /\ num_scheduled_tokens' = [num_scheduled_tokens EXCEPT ![s] = 1]
  /\ may_append(s)
  /\ running' = Tail(running)
  /\ scheduled' = Append(scheduled, s)
  /\ UNCHANGED <<waiting, phase, num_batched_tokens, is_prefill, at,
                 status, token_ids, num_cached_tokens, requestVars>>

preempt(v) ==
  /\ status' = [status EXCEPT ![v] = "WAITING"]
  /\ deallocate(v)
  /\ waiting' = <<v>> \o waiting
  /\ UNCHANGED <<token_ids, num_scheduled_tokens, requestVars>>

\* No block for s: the youngest running sequence gives its blocks back.
\* With no other running sequence that is s itself, and the loop ends.
DecodePreempt(s) ==
  /\ DecodeTurn(s) /\ ~ can_append(s)
  /\ preempt(Last(running))
  /\ running' = Front(running)
  /\ UNCHANGED <<phase, batchVars>>

\* Mutant: the batch is not put back.
DecodeEndForgets ==
  /\ phase = "decode"
  /\ running = <<>> \/ Len(scheduled) >= MaxNumSeqs
  /\ scheduled # <<>>
  /\ phase' = "run" /\ is_prefill' = FALSE
  /\ UNCHANGED <<queueVars, scheduled, num_batched_tokens, at, sequenceVars, blockVars>>

DecodeEnd ==
  /\ phase = "decode"
  /\ running = <<>> \/ Len(scheduled) >= MaxNumSeqs
  /\ scheduled # <<>>
  /\ running' = scheduled \o running
  /\ phase' = "run" /\ is_prefill' = FALSE
  /\ UNCHANGED <<waiting, scheduled, num_batched_tokens, at, sequenceVars, blockVars>>

\* Nothing could be scheduled: schedule() calls itself.
Retry ==
  /\ phase = "decode" /\ running = <<>> /\ scheduled = <<>>
  /\ waiting # <<>>
  /\ EnterSchedule
  /\ UNCHANGED <<queueVars, sequenceVars, blockVars>>

\* "scheduler could not make progress"
NoProgressThrows ==
  /\ phase = "decode" /\ running = <<>> /\ scheduled = <<>>
  /\ waiting = <<>>

(***************************************************************************)
(* postprocess, one sequence of the batch at a time; t is the token that   *)
(* was sampled for it.                                                     *)
(***************************************************************************)
\* Mutant: one token more than max_tokens.
FinishesLate(s, t) ==
  \/ ~ ignore_eos[s] /\ t = EOS
  \/ num_completion_tokens(s) = max_tokens[s]

Finishes(s, t) ==
  \/ ~ ignore_eos[s] /\ t = EOS
  \/ num_completion_tokens(s) + 1 = max_tokens[s]

AdvancePost ==
  /\ IF at = Len(scheduled)
     THEN phase' = "idle" /\ at' = 1 /\ scheduled' = <<>> /\ num_batched_tokens' = 0
     ELSE at' = at + 1 /\ UNCHANGED <<phase, scheduled, num_batched_tokens>>
  /\ UNCHANGED is_prefill

CachedAfter(s) == num_cached_tokens[s] + num_scheduled_tokens[s]

\* Mutant: num_scheduled_tokens is not reset.
PostTurnUnreset(s) ==
  /\ phase = "post" /\ s = scheduled[at]
  /\ UNCHANGED num_scheduled_tokens
  /\ AdvancePost

PostTurn(s) ==
  /\ phase = "post" /\ s = scheduled[at]
  /\ num_scheduled_tokens' = [num_scheduled_tokens EXCEPT ![s] = 0]
  /\ AdvancePost

\* A chunk that does not complete the prompt yields no token.
PostPartialPrefill(s) ==
  /\ PostTurn(s)
  /\ is_prefill /\ CachedAfter(s) < num_tokens(s)
  /\ hash_blocks(s)
  /\ num_cached_tokens' = [num_cached_tokens EXCEPT ![s] = CachedAfter(s)]
  /\ UNCHANGED <<ref_count, free_block_ids, used_block_ids, queueVars,
                 status, token_ids, block_table, requestVars>>

PostAppend(s, t) ==
  /\ PostTurn(s)
  /\ ~ (is_prefill /\ CachedAfter(s) < num_tokens(s))
  /\ ~ Finishes(s, t)
  /\ hash_blocks(s)
  /\ append_token(s, t)
  /\ num_cached_tokens' = [num_cached_tokens EXCEPT ![s] = CachedAfter(s)]
  /\ UNCHANGED <<ref_count, free_block_ids, used_block_ids, queueVars,
                 status, block_table, requestVars>>

\* deallocate comes after hash_blocks and touches none of what that wrote.
PostFinish(s, t) ==
  /\ PostTurn(s)
  /\ ~ (is_prefill /\ CachedAfter(s) < num_tokens(s))
  /\ Finishes(s, t)
  /\ hash_blocks(s)
  /\ append_token(s, t)
  /\ status' = [status EXCEPT ![s] = "FINISHED"]
  /\ release(s)
  /\ running' = RemoveFirst(running, s)
  /\ UNCHANGED <<waiting, requestVars>>

SchedulerTypeOK ==
  /\ waiting \in Seq(Seqs)
  /\ running \in Seq(Seqs)
  /\ scheduled \in Seq(Seqs)
  /\ phase \in Phases
  /\ num_batched_tokens \in Nat
  /\ is_prefill \in BOOLEAN
  /\ at \in Nat
=============================================================================

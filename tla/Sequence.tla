------------------------------ MODULE Sequence ------------------------------
(***************************************************************************)
(* include/nanovllm/sequence.hpp: the state of one request.  A request s   *)
(* of the program is a Sequence object; here every field is a function on  *)
(* Seqs, the request identities.  Left out: temperature (the sampler is    *)
(* nondeterministic), is_prefill (written by the scheduler and read by     *)
(* nobody), last_token and num_tokens (functions of token_ids, which       *)
(* append_token keeps so).                                                 *)
(***************************************************************************)
EXTENDS Integers, FiniteSets, SequencesExt

CONSTANTS
  Seqs,        \* request identities, in any order of arrival
  Tokens,      \* the vocabulary
  EOS,         \* the end-of-sequence id (-1 when the tokenizer has none)
  BlockSize    \* Sequence::block_size, kvcache_block_size

ASSUME SequenceAssumption ==
  /\ IsFiniteSet(Seqs)
  /\ Tokens \subseteq Nat \ {0}
  /\ EOS \in Int
  /\ BlockSize \in Nat /\ BlockSize >= 2    \* config.hpp: a multiple of 256

VARIABLES
  status,                 \* "NEW" is a request that has not been submitted
  token_ids,
  num_prompt_tokens,
  num_cached_tokens,
  num_scheduled_tokens,
  block_table,
  max_tokens,
  ignore_eos

requestVars == <<num_prompt_tokens, max_tokens, ignore_eos>>
sequenceVars == <<status, token_ids, num_cached_tokens, num_scheduled_tokens,
                  block_table, requestVars>>

CeilDiv(n, d) == (n + d - 1) \div d

num_tokens(s) == Len(token_ids[s])
num_completion_tokens(s) == num_tokens(s) - num_prompt_tokens[s]
num_blocks(s) == CeilDiv(num_tokens(s), BlockSize)
last_block_num_tokens(s) == num_tokens(s) - (num_blocks(s) - 1) * BlockSize

\* The tokens of block i (from 0); the last block may be short.
block(s, i) ==
  SubSeq(token_ids[s], i * BlockSize + 1,
         IF (i + 1) * BlockSize <= num_tokens(s) THEN (i + 1) * BlockSize ELSE num_tokens(s))

append_token(s, t) == token_ids' = [token_ids EXCEPT ![s] = Append(@, t)]

SequenceInit ==
  /\ status = [s \in Seqs |-> "NEW"]
  /\ token_ids = [s \in Seqs |-> <<>>]
  /\ num_prompt_tokens = [s \in Seqs |-> 0]
  /\ num_cached_tokens = [s \in Seqs |-> 0]
  /\ num_scheduled_tokens = [s \in Seqs |-> 0]
  /\ block_table = [s \in Seqs |-> <<>>]
  /\ max_tokens = [s \in Seqs |-> 0]
  /\ ignore_eos = [s \in Seqs |-> FALSE]

\* The constructor Sequence(ids, sp); an empty prompt is refused by its caller.
NewSequence(s, prompt, max, ignore) ==
  /\ token_ids' = [token_ids EXCEPT ![s] = prompt]
  /\ num_prompt_tokens' = [num_prompt_tokens EXCEPT ![s] = Len(prompt)]
  /\ max_tokens' = [max_tokens EXCEPT ![s] = max]
  /\ ignore_eos' = [ignore_eos EXCEPT ![s] = ignore]
  /\ status' = [status EXCEPT ![s] = "WAITING"]

SequenceTypeOK ==
  /\ status \in [Seqs -> {"NEW", "WAITING", "RUNNING", "FINISHED"}]
  /\ token_ids \in [Seqs -> Seq(Tokens)]
  /\ num_prompt_tokens \in [Seqs -> Nat]
  /\ num_cached_tokens \in [Seqs -> Nat]
  /\ num_scheduled_tokens \in [Seqs -> Nat]
  /\ max_tokens \in [Seqs -> Nat]
  /\ ignore_eos \in [Seqs -> BOOLEAN]
=============================================================================

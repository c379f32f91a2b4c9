----------------------------- MODULE Generation -----------------------------
(***************************************************************************)
(* What the engine promises to a client, with batching, paging, sharing    *)
(* and preemption out of sight: a submitted request's tokens grow by one   *)
(* token at a time behind its prompt, and the request finishes with the    *)
(* token that is EOS (unless ignored) or that fills max_tokens.  The       *)
(* behaviour it abstracts is LLMEngine::step() and its finish condition,   *)
(* src/scheduler.cpp:100-103.                                              *)
(***************************************************************************)
EXTENDS Integers, Sequences

CONSTANTS Seqs, Tokens, EOS, Prompts, MaxTokensChoices, IgnoreEosChoices, MaxModelLen

VARIABLES
  stage,                 \* NEW, WAITING (being generated) or FINISHED
  token_ids, num_prompt_tokens, max_tokens, ignore_eos

vars == <<stage, token_ids, num_prompt_tokens, max_tokens, ignore_eos>>

Init ==
  /\ stage = [s \in Seqs |-> "NEW"]
  /\ token_ids = [s \in Seqs |-> <<>>]
  /\ num_prompt_tokens = [s \in Seqs |-> 0]
  /\ max_tokens = [s \in Seqs |-> 0]
  /\ ignore_eos = [s \in Seqs |-> FALSE]

Submit(s) ==
  /\ stage[s] = "NEW"
  /\ \E p \in Prompts, m \in MaxTokensChoices, i \in IgnoreEosChoices :
       /\ m >= 1 /\ Len(p) >= 1 /\ Len(p) + m <= MaxModelLen
       /\ token_ids' = [token_ids EXCEPT ![s] = p]
       /\ num_prompt_tokens' = [num_prompt_tokens EXCEPT ![s] = Len(p)]
       /\ max_tokens' = [max_tokens EXCEPT ![s] = m]
       /\ ignore_eos' = [ignore_eos EXCEPT ![s] = i]
  /\ stage' = [stage EXCEPT ![s] = "WAITING"]

Last(s, t) ==
  \/ t = EOS /\ ~ ignore_eos[s]
  \/ Len(token_ids[s]) - num_prompt_tokens[s] = max_tokens[s] - 1

Generate(s, t) ==
  /\ stage[s] = "WAITING"
  /\ token_ids' = [token_ids EXCEPT ![s] = Append(@, t)]
  /\ stage' = [stage EXCEPT ![s] = IF Last(s, t) THEN "FINISHED" ELSE "WAITING"]
  /\ UNCHANGED <<num_prompt_tokens, max_tokens, ignore_eos>>

Next == \E s \in Seqs : Submit(s) \/ \E t \in Tokens : Generate(s, t)

Spec == Init /\ [][Next]_vars
=============================================================================

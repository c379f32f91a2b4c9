--------------------------- MODULE EngineServerInv ---------------------------
(***************************************************************************)
(* The inductive invariant of EngineServer: what a step that throws leaves *)
(* of the engine's invariant, and, as long as none has, how the tokens on  *)
(* their way to the client relate to those of the request.                 *)
(***************************************************************************)
EXTENDS EngineServer, LLMEngineInv

ServerTypeOK ==
  /\ mode \in Modes
  /\ handling \subseteq Seqs
  /\ news \in Seq(Seqs \X Tokens)
  /\ sent \in [Seqs -> Seq(Seqs \X Tokens)]
  /\ DOMAIN finish = Seqs
  /\ failures \in Nat

\* One request at a time is in the engine, the one that is served.
Alone ==
  /\ handling = {} \/ \E s \in Seqs : handling = {s}
  /\ handling = {} => phase = "idle" /\ news = <<>>
  /\ \A s \in Seqs \ handling : status[s] \in {"NEW", "FINISHED"}
  /\ \A s \in handling : status[s] # "NEW" /\ finish[s] = "none"
  /\ \A s \in Seqs :
       /\ ~ ignore_eos[s]
       /\ status[s] = "NEW" => finish[s] = "none" /\ sent[s] = <<>> /\ token_ids[s] = <<>>

\* The prefill that completes a prompt yields the first token of the request: a lone
\* request that is preempted has outgrown the pool and is not prefilled again.
FirstToken(s) ==
  /\ num_prompt_tokens[s] <= num_tokens(s)
  /\ status[s] = "WAITING" /\ num_completion_tokens(s) > 0 =>
       block_table[s] = <<>> /\ num_blocks(s) > Cardinality(Blocks)
  /\ status[s] = "RUNNING" => (num_completion_tokens(s) = 0 <=> s \in OpenSeqs /\ ~ Decoding)
  /\ status[s] = "FINISHED" => num_completion_tokens(s) > 0

\* What was sent and what is about to be are the tokens behind the first, in order.
Follow(s, pairs) ==
  /\ Len(pairs) = IF num_completion_tokens(s) = 0 THEN 0 ELSE num_completion_tokens(s) - 1
  /\ \A i \in 1..Len(pairs) : pairs[i] = <<s, token_ids[s][num_prompt_tokens[s] + 1 + i]>>

Delivered == \A s \in handling : Follow(s, sent[s] \o news)

\* An end-of-sequence token is the last of its request, and is not sent.
EosLast ==
  /\ \A s \in Seqs : \A i \in DOMAIN sent[s] : sent[s][i][2] # EOS
  /\ \A i \in DOMAIN news : news[i][2] = EOS =>
       i = Len(news) /\ \A s \in handling : status[s] = "FINISHED"

ServedInv ==
  /\ Alone
  /\ \A s \in Seqs : FirstToken(s)
  /\ Delivered /\ EosLast /\ RestSent

\* The library serves no connection.
NoConnection == handling = {} /\ \A s \in Seqs : finish[s] = "none"

ServerInv ==
  /\ ServerTypeOK
  /\ mode = "library" => NoConnection
  /\ CoreInv /\ OrderInv
  /\ failures = 0 => EngineInv
  /\ failures = 0 /\ mode = "server" => ServedInv
=============================================================================

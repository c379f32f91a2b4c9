---------------------------- MODULE EngineServer ----------------------------
(***************************************************************************)
(* The programs on the HIP engine.                                         *)
(*                                                                         *)
(* Mode "server": the HTTP server of src/main.cpp (run_server,             *)
(* handle_http, run_generation): one connection at a time, each stepping   *)
(* the engine until nothing is left in it, passing on the tokens that      *)
(* step() reports, and answering with an error when a step throws.         *)
(*                                                                         *)
(* Mode "library": a caller that adds requests and steps until             *)
(* is_finished(), as generate(), generate_chat() and --bench do; these     *)
(* add all requests before the first step, the interface lets requests     *)
(* come between steps too.                                                 *)
(*                                                                         *)
(* Left out: parsing the HTTP request, requests that are refused before    *)
(* they reach the engine, the text of the tokens, and whether the client   *)
(* still reads (a failed send is ignored).                                 *)
(***************************************************************************)
EXTENDS LLMEngine

CONSTANTS
  Modes,          \* ways to run the engine
  MaxFailures     \* bound on the steps that throw

ASSUME ServerAssumption ==
  /\ Modes \subseteq {"server", "library"}
  /\ "server" \in Modes => FALSE \in IgnoreEosChoices
  /\ MaxFailures \in Nat

VARIABLES
  mode,
  handling,   \* {s} while handle_http serves request s, else {}
  news,       \* what step() reported and on_token has not seen yet: <<sequence, token>>
  sent,       \* per request: the <<sequence, token>> pairs its client was sent
  finish,     \* per request: "none" until answered, then "stop", "length" or "error"
  failures

serverVars == <<mode, handling, news, sent, finish, failures>>
allVars == <<vars, serverVars>>

ServerInit ==
  /\ Init
  /\ mode \in Modes
  /\ handling = {}
  /\ news = <<>>
  /\ sent = [s \in Seqs |-> <<>>]
  /\ finish = [s \in Seqs |-> "none"]
  /\ failures = 0

\* accept() and handle_http up to the loop of run_generation; no request of the
\* server sets ignore_eos.
handle_http(s) ==
  /\ mode = "server" /\ handling = {}
  /\ \E p \in Prompts, m \in MaxTokensChoices : add_request(s, p, m, FALSE)
  /\ handling' = {s}
  /\ UNCHANGED <<mode, news, sent, finish, failures>>

\* step() reports the tokens of decode batches only.
Reported(s, t) == IF is_prefill THEN news ELSE Append(news, <<s, t>>)

PostReport(s, t) ==
  /\ PostAppend(s, t) \/ PostFinish(s, t)
  /\ news' = Reported(s, t)

\* One step of the engine, in the pieces of LLMEngine.
EngineStep ==
  /\ handling # {}
  /\ phase = "idle" => news = <<>>
  /\ \/ (Schedule \/ \E s \in Seqs : PostPartialPrefill(s)) /\ UNCHANGED <<kv, news>>
     \/ (\E s \in Seqs, t \in Tokens : PostReport(s, t)) /\ UNCHANGED kv
     \/ RunBatch /\ UNCHANGED news
  /\ UNCHANGED <<mode, handling, sent, finish, failures>>

Answer(how) ==
  /\ finish' = [s \in Seqs |-> IF s \in handling THEN how ELSE finish[s]]
  /\ handling' = {}
  /\ news' = <<>>

\* Mutant: the end-of-sequence token is not recognised.
StopsNever(t) == FALSE

\* tok == eos: run_generation returns at once.
Stops(t) == t = EOS

OnToken ==
  /\ phase = "idle" /\ news # <<>>
  /\ ~ Stops(Head(news)[2])
  /\ sent' = [s \in Seqs |-> IF s \in handling THEN Append(sent[s], Head(news)) ELSE sent[s]]
  /\ news' = Tail(news)
  /\ UNCHANGED <<vars, mode, handling, finish, failures>>

OnStop ==
  /\ phase = "idle" /\ news # <<>>
  /\ Stops(Head(news)[2])
  /\ Answer("stop")
  /\ UNCHANGED <<vars, mode, sent, failures>>

\* Mutant: the loop ends when no request is waiting.
EngineDoneEarly == waiting = <<>>

EngineDone == SchedulerIsFinished

\* Mutant: no answer without content.
OnFinishedNonempty ==
  /\ handling # {} /\ phase = "idle" /\ news = <<>>
  /\ EngineDone
  /\ \A s \in handling : sent[s] # <<>>
  /\ Answer("length")
  /\ UNCHANGED <<vars, mode, sent, failures>>

\* The loop ends: while (!engine.is_finished()).
OnFinished ==
  /\ handling # {} /\ phase = "idle" /\ news = <<>>
  /\ EngineDone
  /\ Answer("length")
  /\ UNCHANGED <<vars, mode, sent, failures>>

\* The model throws before it computes anything (a token id outside the vocabulary,
\* no memory): the batch is gone, the queues and tables stay as schedule() left
\* them, and the client gets the error.
StepThrows ==
  /\ mode = "server" /\ phase = "run" /\ failures < MaxFailures
  /\ failures' = failures + 1
  /\ phase' = "idle"
  /\ scheduled' = <<>> /\ num_batched_tokens' = 0
  /\ UNCHANGED <<queueVars, is_prefill, at, sequenceVars, blockVars, kv, mode, sent>>
  /\ Answer("error")

RunGeneration == EngineStep \/ OnToken \/ OnStop \/ OnFinished

\* The library's caller adds a request, or runs while (!is_finished()) step().
LibraryAdds == mode = "library" /\ AddRequest /\ UNCHANGED serverVars

LibrarySteps == mode = "library" /\ step /\ UNCHANGED serverVars

ServerNext ==
  \/ \E s \in Seqs : handle_http(s)
  \/ RunGeneration
  \/ StepThrows
  \/ LibraryAdds
  \/ LibrarySteps

ServerSpec == ServerInit /\ [][ServerNext]_allVars

\* The thread that serves a connection, or the caller's loop, keeps running.
ServerFairSpec == ServerSpec /\ WF_allVars(RunGeneration) /\ WF_allVars(LibrarySteps)
-----------------------------------------------------------------------------
completion_token_ids(s) == SubSeq(token_ids[s], num_prompt_tokens[s] + 1, num_tokens(s))

SentTokens(s) == [i \in DOMAIN sent[s] |-> sent[s][i][2]]

Answered(s) == finish[s] \in {"stop", "length"}

\* Unless a step has thrown, the engine is empty when a connection is closed, although
\* run_generation leaves its loop early on an end-of-sequence token: the next request has
\* it for itself.
EngineEmptyBetween ==
  mode = "server" /\ handling = {} /\ failures = 0 =>
    /\ SchedulerIsFinished
    /\ free_block_ids = Blocks
    /\ \A b \in Blocks : ref_count[b] = 0

\* Unless a step has thrown, a client is sent the tokens of its request in order,
\* each once, and no end-of-sequence token; the first one, sampled by the prefill,
\* is not among them.
RestSent ==
  \A s \in Seqs : Answered(s) /\ failures = 0 =>
    /\ EOS \notin Range(SentTokens(s))
    /\ Tail(completion_token_ids(s)) \in {SentTokens(s), Append(SentTokens(s), EOS)}

\* A step that throws between schedule() and postprocess() leaves the engine with
\* its blocks accounted for and nobody lost or duplicated (the request that threw
\* stays in its queue), for every later connection.
EngineIntact == RefCountsMatch /\ PoolPartition /\ NoRequestLost

\* Every request that the library accepted finishes, with preemption, chunking and
\* sharing in between, as long as the caller keeps stepping.
EveryRequestFinishes ==
  \A s \in Seqs : (mode = "library" /\ status[s] = "WAITING") ~> (status[s] = "FINISHED")

\* A request is answered, whatever the order of its tokens and failures.
EveryRequestAnswered == \A s \in Seqs : (s \in handling) ~> (finish[s] # "none")
=============================================================================

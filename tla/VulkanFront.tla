----------------------------- MODULE VulkanFront -----------------------------
(***************************************************************************)
(* The three ways to run the Vulkan engine (src/main_vulkan.cpp): the      *)
(* console loop (--repl) with its tool calls, repeated runs of one prompt  *)
(* (--bench), and the HTTP server (include/nanovllm/http_server.hpp) with  *)
(* a thread per connection and a mutex around inference.                   *)
(*                                                                         *)
(* The token sampled from a row is any token.  Left out: the texts and     *)
(* their encoding, parsing the HTTP request, the reply's post-processing,  *)
(* the program's end on an exception outside the server.                   *)
(***************************************************************************)
EXTENDS KvTurn

CONSTANTS
  Modes,          \* subset of {"repl", "bench", "server"}
  Clients,        \* connections of the server
  Console,        \* the client that stands for the program's own loop
  Tokens, EOS,
  Prompts,        \* encoded prompts, feeds and requests
  MaxTokens,
  MaxTurns,       \* bound on the turns of a conversation, and on the runs of a benchmark
  MaxIters,       \* --max-iters
  Corpus,         \* the prompt the n-gram index is built from
  DraftN, DraftK

ASSUME FrontAssumption ==
  /\ Modes \subseteq {"repl", "bench", "server"}
  /\ Console \notin Clients
  /\ EOS \in Tokens
  /\ \A p \in Prompts : p \in Seq(Tokens) /\ p # <<>>
  /\ MaxTokens \in Nat /\ MaxIters \in Nat
  /\ Corpus \in Seq(Tokens) /\ DraftN \in Nat /\ DraftK \in Nat

VARIABLES
  mode,
  drafting,       \* --draft-n was given
  phase,          \* where each client is
  request,        \* the prompt of each client's turn
  out,            \* generated tokens
  pos,            \* current sequence length
  told,           \* the turns of the conversation: what was asked and emitted
  sampled,        \* the row of the last sample: its slot and the blocks of its table
  iters,          \* tool calls made in this user turn; runs made of a benchmark
  srv_mu,         \* {} or {the client that holds the lock}
  answer          \* how each connection was answered

turnVars == <<out, pos, told, sampled, kv>>
vars == <<mode, drafting, phase, request, iters, srv_mu, answer, turnVars>>

Everyone == Clients \cup {Console}
NoRow == [slot |-> -1, blocks |-> {}]
succ == build(Corpus, DraftN)

Init ==
  /\ kv = FreshCache
  /\ mode \in Modes
  /\ drafting \in (IF mode = "repl" THEN BOOLEAN ELSE {FALSE})
  /\ phase = [c \in Everyone |-> IF c = Console /\ mode # "server" THEN "prompt" ELSE "closed"]
  /\ request = [c \in Everyone |-> <<>>]
  /\ out = [c \in Everyone |-> <<>>]
  /\ pos = [c \in Everyone |-> 0]
  /\ told = [c \in Everyone |-> <<>>]
  /\ sampled = [c \in Everyone |-> NoRow]
  /\ iters = 0
  /\ srv_mu = {}
  /\ answer = [c \in Everyone |-> "none"]
-----------------------------------------------------------------------------
Goto(c, p) == phase' = [phase EXCEPT ![c] = p]

\* Bound: the conversation fits the table.
Fits(base, p) == base + Len(p) + MaxTokens + DraftK <= NumSlots

\* The reply of the current turn grows by these tokens.
Told(c, tokens) ==
  told' = [told EXCEPT ![c][Len(told[c])].reply = @ \o tokens]

\* prefill_logits at slot base, and the first token: out and pos become these.
Prefill(c, p, cache, base, history, turns, t) ==
  /\ kv' = cache
  /\ sampled' = [sampled EXCEPT ![c] = [slot |-> base + Len(p) - 1,
                                        blocks |-> PrefillBlocks(base, Len(p))]]
  /\ out' = [out EXCEPT ![c] = Append(history, t)]
  /\ pos' = [pos EXCEPT ![c] = base + Len(p)]
  /\ told' = [told EXCEPT ![c] = Append(turns, [prompt |-> p, reply |-> <<t>>])]

\* run_turn up to its loop.
StartTurn(c, p, t) ==
  /\ Fits(pos[c], p) /\ Len(told[c]) < MaxTurns
  /\ Prefill(c, p, forward_logits(kv, p, pos[c], PrefillBlocks(pos[c], Len(p))),
             pos[c], out[c], told[c], t)
  /\ Goto(c, IF t # EOS /\ Len(out'[c]) < MaxTokens THEN "decode" ELSE "reply")

\* A line from the console.
ReadLine(c, p, t) ==
  /\ mode = "repl" /\ phase[c] = "prompt"
  /\ request' = [request EXCEPT ![c] = p]
  /\ StartTurn(c, p, t)
  /\ UNCHANGED <<mode, drafting, iters, srv_mu, answer>>

\* What the speculative step is offered: only user turns draft.
Draft(c) ==
  LET d == suggest(succ, DraftN, TailOf(out[c], DraftN))
  IN  IF drafting /\ iters = 0 THEN SubSeq(d, 1, IF DraftK < Len(d) THEN DraftK ELSE Len(d)) ELSE <<>>

\* Mutant: the new token is counted before it is fed.
DecodeSlotNext(c) == pos[c] + 1

DecodeSlot(c) == pos[c]

\* Mutant: the loop goes on after an end-of-sequence token.
AfterEosGoesOn == "decode"

\* The loop breaks on an end-of-sequence token, which is not emitted.
AfterEos == "stopped"

\* One token per forward.
Decode(c, t) ==
  /\ phase[c] = "decode"
  /\ Draft(c) = <<>>
  /\ LET s == DecodeSlot(c)
     IN  /\ kv' = forward_logits(kv, <<Last(out[c])>>, s, DecodeBlocks(s))
         /\ sampled' = [sampled EXCEPT ![c] = [slot |-> s, blocks |-> DecodeBlocks(s)]]
  /\ IF t = EOS
     THEN Goto(c, AfterEos) /\ UNCHANGED <<out, pos, told>>
     ELSE /\ out' = [out EXCEPT ![c] = Append(@, t)]
          /\ pos' = [pos EXCEPT ![c] = @ + 1]
          /\ Told(c, <<t>>)
          /\ Goto(c, IF Len(out'[c]) < MaxTokens THEN "decode" ELSE "reply")
  /\ UNCHANGED <<mode, drafting, request, iters, srv_mu, answer>>

\* Mutant: the accepted drafts are not counted.
AdvancedByOne(accepted) == 1

\* Positions a speculative step moves on when it also samples a token.
Advanced(accepted) == accepted + 1

\* The last token and the draft in one forward; a draft is accepted up to the first
\* row that predicts another token, and t is what that row predicts (or the last row).
Speculate(c, accepted, t) ==
  /\ phase[c] = "decode"
  /\ LET d == Draft(c)
         K == Len(d)
         blocks == BlocksOf(0, pos[c] - 1 + K)
     IN  /\ K > 0
         /\ accepted <= K /\ (accepted < K => t # d[accepted + 1])
         /\ kv' = forward_logits(kv, <<Last(out[c])>> \o d, pos[c] - 1, blocks)
         /\ sampled' = [sampled EXCEPT ![c] = [slot |-> pos[c] - 1 + accepted, blocks |-> blocks]]
         /\ LET emitted == SubSeq(d, 1, accepted) \o (IF t = EOS THEN <<>> ELSE <<t>>)
            IN  /\ out' = [out EXCEPT ![c] = @ \o emitted]
                /\ Told(c, emitted)
         /\ pos' = [pos EXCEPT ![c] = @ + (IF t = EOS THEN accepted ELSE Advanced(accepted))]
         /\ Goto(c, IF t = EOS THEN AfterEos
                    ELSE IF Len(out'[c]) < MaxTokens THEN "decode" ELSE "reply")
  /\ UNCHANGED <<mode, drafting, request, iters, srv_mu, answer>>

\* A tool call in the reply: its result is the next prompt.
CallTool(c, p, t) ==
  /\ mode = "repl" /\ phase[c] \in {"reply", "stopped"}
  /\ iters < MaxIters
  /\ iters' = iters + 1
  /\ request' = [request EXCEPT ![c] = p]
  /\ StartTurn(c, p, t)
  /\ UNCHANGED <<mode, drafting, srv_mu, answer>>

\* No tool call, or enough of them: the reply is printed.
PrintReply(c) ==
  /\ mode = "repl" /\ phase[c] \in {"reply", "stopped"}
  /\ iters' = 0
  /\ Goto(c, "prompt")
  /\ UNCHANGED <<mode, drafting, request, srv_mu, answer, turnVars>>

\* One run of a prompt over a KV cache allocated for it.
BenchRun(c, p, t) ==
  /\ mode = "bench"
  /\ phase[c] \in {"prompt", "reply", "stopped"}
  /\ request[c] \in {<<>>, p}
  /\ Fits(0, p) /\ iters < MaxTurns
  /\ iters' = iters + 1
  /\ request' = [request EXCEPT ![c] = p]
  /\ Prefill(c, p, forward_logits(FreshCache, p, 0, PrefillBlocks(0, Len(p))), 0, <<>>, <<>>, t)
  /\ Goto(c, IF t # EOS /\ 1 < MaxTokens THEN "decode" ELSE "reply")
  /\ UNCHANGED <<mode, drafting, srv_mu, answer>>
-----------------------------------------------------------------------------
\* serve: accept() and a detached thread for the connection.
Accept(c) ==
  /\ mode = "server" /\ phase[c] = "closed" /\ answer[c] = "none"
  /\ Goto(c, "connected")
  /\ UNCHANGED <<mode, drafting, request, iters, srv_mu, answer, turnVars>>

\* handle_client up to the handler: a chat, an embedding, or an answer of its own
\* (a page, the list of models, 400, 404, 405; also a prompt encoded to nothing).
HandleClient(c) ==
  /\ phase[c] = "connected"
  /\ \/ \E p \in Prompts : request' = [request EXCEPT ![c] = p] /\ Goto(c, "chat") /\ UNCHANGED answer
     \/ Goto(c, "embed") /\ UNCHANGED <<request, answer>>
     \/ answer' = [answer EXCEPT ![c] = "page"] /\ Goto(c, "closed") /\ UNCHANGED request
  /\ UNCHANGED <<mode, drafting, iters, srv_mu, turnVars>>

\* Mutant: inference starts without the lock.
Unlocked(c) == srv_mu' = {c}

\* lock_guard of the handlers.
Locked(c) == srv_mu = {} /\ srv_mu' = {c}

\* The chat handler up to its loop: every request starts at slot 0, and an
\* end-of-sequence token from the prefill does not stop it.
StartChat(c, t) ==
  /\ phase[c] = "chat"
  /\ Locked(c)
  /\ LET p == request[c]
     IN  /\ Fits(0, p)
         /\ Prefill(c, p, forward_logits(kv, p, 0, PrefillBlocks(0, Len(p))), 0, <<>>, <<>>, t)
  /\ Goto(c, IF 1 < MaxTokens THEN "decode" ELSE "reply")
  /\ UNCHANGED <<mode, drafting, request, iters, answer>>

\* The embeddings handler; embed_text does not touch the KV cache.
Embed(c) ==
  /\ phase[c] = "embed"
  /\ srv_mu = {}
  /\ \E how \in {"200", "500"} : answer' = [answer EXCEPT ![c] = how]
  /\ Goto(c, "closed")
  /\ UNCHANGED <<mode, drafting, request, iters, srv_mu, turnVars>>

Respond(c) ==
  /\ mode = "server" /\ phase[c] \in {"reply", "stopped"}
  /\ answer' = [answer EXCEPT ![c] = "200"]
  /\ srv_mu' = srv_mu \ {c}
  /\ Goto(c, "closed")
  /\ UNCHANGED <<mode, drafting, request, iters, turnVars>>

\* Mutant: the lock survives the exception.
ThrowsHolding(c) ==
  /\ mode = "server" /\ phase[c] = "decode"
  /\ answer' = [answer EXCEPT ![c] = "500"]
  /\ Goto(c, "closed")
  /\ UNCHANGED <<mode, drafting, request, iters, srv_mu, turnVars>>

\* A decode throws: the lock is released and the client gets an error.
HandlerThrows(c) ==
  /\ mode = "server" /\ phase[c] = "decode"
  /\ answer' = [answer EXCEPT ![c] = "500"]
  /\ srv_mu' = srv_mu \ {c}
  /\ Goto(c, "closed")
  /\ UNCHANGED <<mode, drafting, request, iters, turnVars>>

\* The prefill throws after some of its chunks were stored.
PrefillThrows(c) ==
  /\ phase[c] = "chat" /\ srv_mu = {}
  /\ \E n \in 0 .. Len(request[c]) - 1 :
       kv' = forward_logits(kv, SubSeq(request[c], 1, n), 0, PrefillBlocks(0, Len(request[c])))
  /\ answer' = [answer EXCEPT ![c] = "500"]
  /\ Goto(c, "closed")
  /\ UNCHANGED <<mode, drafting, request, iters, srv_mu, out, pos, told, sampled>>

\* The thread of a connection, when nothing throws.
Serve(c) ==
  \/ HandleClient(c) \/ Embed(c) \/ Respond(c)
  \/ \E t \in Tokens : StartChat(c, t)

\* A turn goes on by itself until it is printed, answered or repeated.
Generate(c) ==
  \E t \in Tokens : Decode(c, t) \/ \E accepted \in 0 .. DraftK : Speculate(c, accepted, t)

ConsoleStep ==
  \/ \E p \in Prompts, t \in Tokens :
       ReadLine(Console, p, t) \/ CallTool(Console, p, t) \/ BenchRun(Console, p, t)
  \/ PrintReply(Console)

Next ==
  \/ ConsoleStep
  \/ \E c \in Everyone : Generate(c)
  \/ \E c \in Clients : Accept(c) \/ Serve(c) \/ HandlerThrows(c) \/ PrefillThrows(c)

Spec == Init /\ [][Next]_vars

\* The generating thread and the threads of connections are scheduled.
FairSpec ==
  /\ Spec
  /\ \A c \in Everyone : WF_vars(Generate(c))
  /\ \A c \in Clients : WF_vars(Serve(c))
-----------------------------------------------------------------------------
\* What the next turn still finds of a finished one: its last token was never fed,
\* or was fed to the slot the next prompt overwrites.
Kept(turn) == turn.prompt \o Front(turn.reply)

Generating(c) == phase[c] \in {"decode", "reply", "stopped"}

\* What the cache keeps of the turns before the current one of c.
Earlier(c) == FlattenSeq([i \in 1 .. Len(told[c]) - 1 |-> Kept(told[c][i])])

\* Where the current turn of c began.
Base(c) == Len(Earlier(c))

\* What the sampled row should have seen: earlier turns as kept, this turn's prompt
\* and its reply up to the token that was sampled.
Conversation(c) ==
  LET last == told[c][Len(told[c])]
  IN  Earlier(c) \o last.prompt \o (IF phase[c] = "stopped" THEN last.reply ELSE Front(last.reply))

\* Without drafts, a token is sampled from a row that saw the client's own conversation,
\* each token at its position: requests that share the cache do not mix, a failed one
\* leaves nothing behind, and a turn that starts in the first block of the
\* cache finds all earlier turns but the last token of each.
RowSawConversation ==
  \A c \in Everyone : Generating(c) /\ ~ drafting /\ Base(c) < BlockSize =>
    LET h == Conversation(c)
    IN  /\ sampled[c].slot = Len(h) - 1
        /\ \A p \in 0 .. sampled[c].slot :
             Found(kv, sampled[c].blocks, p) = SubSeq(h, 1, p + 1)

\* pos counts prompts and replies except the first token of every reply, on
\* the speculative path too: the next prompt goes behind everything that was fed.
PosCountsTokens ==
  \A c \in Everyone : Generating(c) =>
    pos[c] = Base(c) + Len(told[c][Len(told[c])].prompt) + Len(told[c][Len(told[c])].reply) - 1

\* A forward in a turn that goes on has emitted a token, so max_tokens ends the turn
\* whatever is sampled, drafted or rejected.
TurnMovesOn ==
  [][\A c \in Everyone :
       Generate(c) /\ phase'[c] = "decode" => Len(out'[c]) > Len(out[c])]_vars

\* Every connection is answered, whatever the others do.
EveryClientAnswered == \A c \in Clients : (phase[c] = "connected") ~> (answer[c] # "none")
-----------------------------------------------------------------------------
(***************************************************************************)
(* The inductive invariant: who generates, how far each conversation has   *)
(* been fed, and what the cache holds of the one that may use it.          *)
(***************************************************************************)
Turns == [prompt : Seq(Tokens), reply : Seq(Tokens) \ {<<>>}]

Phases == {"closed", "prompt", "connected", "chat", "embed", "decode", "reply", "stopped"}

FrontTypeOK ==
  /\ mode \in {"repl", "bench", "server"}
  /\ drafting \in BOOLEAN
  /\ phase \in [Everyone -> Phases]
  /\ DOMAIN request = Everyone
  /\ \A c \in Everyone : phase[c] = "chat" => request[c] \in Prompts
  /\ out \in [Everyone -> Seq(Tokens)]
  /\ pos \in [Everyone -> Nat]
  /\ told \in [Everyone -> Seq(Turns)]
  /\ DOMAIN sampled = Everyone
  /\ DOMAIN kv = Slots

\* Only the holder of the lock generates; without a server nobody is connected,
\* and the program's own loop never leaves its turn.
LockInv ==
  /\ mode = "server" => phase[Console] = "closed"
  /\ mode = "server" => \A c \in Everyone : Generating(c) <=> srv_mu = {c}
  /\ mode # "server" => \A c \in Clients : phase[c] = "closed"

\* What was fed of the conversation of c: all of it but the last token.
Fed(c) == FlattenSeq([i \in 1 .. Len(told[c]) |-> Kept(told[c][i])])

\* A client that generates has been asked and has a token; pos counts what was fed.
FedInv ==
  \A c \in Everyone :
    /\ pos[c] = Len(Fed(c))
    /\ Generating(c) =>
         /\ told[c] # <<>> /\ out[c] # <<>>
         /\ Last(out[c]) = Last(told[c][Len(told[c])].reply)

\* There is room for what the turn may still feed.
RoomInv ==
  \A c \in Everyone : phase[c] = "decode" /\ ~ drafting =>
    Len(out[c]) < MaxTokens /\ pos[c] + MaxTokens - Len(out[c]) <= NumSlots

\* Whose entries the cache holds: the console keeps them between its turns.
Owner(c) == IF mode = "repl" THEN c = Console ELSE Generating(c)

\* The turn began in the first block, where its prefill finds all earlier turns.
Early(c) == told[c] = <<>> \/ Base(c) < BlockSize

\* The entries of the first n tokens of h are in the cache.
Holds(h, n) == \A p \in 0 .. n - 1 : kv[p] = SubSeq(h, 1, p + 1)

CacheInv ==
  ~ drafting => \A c \in Everyone : Owner(c) /\ Early(c) => Holds(Fed(c), pos[c])

\* Where the last row was, and that it found the slots before it.
SampledInv ==
  ~ drafting => \A c \in Everyone : Generating(c) /\ Early(c) =>
    /\ sampled[c].slot = Len(Conversation(c)) - 1
    /\ BlocksOf(0, sampled[c].slot) \subseteq sampled[c].blocks
    /\ phase[c] = "stopped" => kv[pos[c]] = Conversation(c)

FrontInv == FrontTypeOK /\ LockInv /\ FedInv /\ RoomInv /\ CacheInv /\ SampledInv
=============================================================================

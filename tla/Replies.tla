------------------------------ MODULE Replies ------------------------------
(***************************************************************************)
(* What the console of the Vulkan engine does with the text of a turn      *)
(* (src/main_vulkan.cpp): it looks for tool calls                          *)
(* (include/nanovllm/agent.hpp), runs them and feeds the result back, and  *)
(* prints the last reply without its thinking blocks                       *)
(* (include/nanovllm/reason.hpp) and as far as the JSON shape admits it    *)
(* (include/nanovllm/gen.hpp).                                             *)
(*                                                                         *)
(*  - A text is a sequence of units; a unit is a character the code looks  *)
(*    for, or a run of characters of which only the identity matters.      *)
(*  - What the model says is any sequence of at most most pieces; a piece  *)
(*    is a short text.                                                     *)
(*  - A tool answers something: only that it ran, and on what, is kept.    *)
(***************************************************************************)
EXTENDS Integers, SequencesExt, FiniteSetsExt

Quote == "\""
Escape == "\\"
Space == " "
Fence == <<"fence">>
FenceJson == <<"fence", "json">>

(***************************************************************************)
(* A console: the pieces replies are made of and how many at most, the     *)
(* options --strip-thinking and --json-shape, the number of tool calls per *)
(* line, the names of the shell tools and of the MCP tools.                *)
(***************************************************************************)
CONSTANT Setups

VARIABLES
  setup,
  stage,        \* "waiting" for a line, "replying", "looking" or "running"
  pieces,       \* what the reply in progress is made of
  iters,        \* tool calls of this line
  call,         \* the call found last
  ran,          \* what was run for it
  printed       \* the text printed for the line

vars == <<setup, stage, pieces, iters, call, ran, printed>>

reply == FlattenSeq(pieces)
-----------------------------------------------------------------------------
(***************************************************************************)
(* std::string::find: the first position from which the text reads pat,    *)
(* 0 when there is none.                                                   *)
(***************************************************************************)
At(text, pat, i) == i + Len(pat) - 1 <= Len(text) /\ SubSeq(text, i, i + Len(pat) - 1) = pat

Find(text, pat, from) ==
  LET found == {i \in from .. Len(text) : At(text, pat, i)}
  IN  IF found = {} THEN 0 ELSE Min(found)

NoCallFound == [name |-> <<>>, args |-> <<>>]

(***************************************************************************)
(* parse_call: the string behind the first ":" after the key.  A value     *)
(* that is no string is no value, and one that does not end ends with the  *)
(* text.                                                                   *)
(***************************************************************************)
ReadUnit(s, u) ==
  CASE s.ended -> s
    [] ~ s.ended /\ s.escaped -> [s EXCEPT !.val = Append(@, u), !.escaped = FALSE]
    [] ~ s.ended /\ ~ s.escaped /\ u = Quote -> [s EXCEPT !.ended = TRUE]
    [] ~ s.ended /\ ~ s.escaped /\ u = Escape -> [s EXCEPT !.escaped = TRUE]
    [] OTHER -> [s EXCEPT !.val = Append(@, u)]

StringFrom(text, i) ==
  LET s == FoldLeft(ReadUnit, [val |-> <<>>, escaped |-> FALSE, ended |-> FALSE],
                    SubSeq(text, i, Len(text)))
  IN  IF s.escaped THEN Append(s.val, Escape) ELSE s.val

extract(obj, key) ==
  LET k == Find(obj, <<Quote, key, Quote>>, 1)
      colon == Find(obj, <<":">>, k + 3)
      starts == {i \in colon + 1 .. Len(obj) : obj[i] # Space}
  IN  IF k # 0 /\ colon # 0 /\ starts # {} /\ obj[Min(starts)] = Quote
      THEN StringFrom(obj, Min(starts) + 1)
      ELSE <<>>

parse_call(obj) == [name |-> extract(obj, "name"), args |-> extract(obj, "arguments")]

\* The object that a bare brace opens ends at the next closing brace.
BareObject(text, i) ==
  LET end == Find(text, <<"}">>, i)
  IN  IF end = 0 THEN <<>> ELSE SubSeq(text, i, end)

\* Mutant: only the first brace is tried.
BareCallFirst(text) ==
  LET i == Find(text, <<"{">>, 1)
  IN  IF i = 0 THEN NoCallFound ELSE parse_call(BareObject(text, i))

BareCall(text) ==
  LET calls == {i \in 1 .. Len(text) :
                  text[i] = "{" /\ parse_call(BareObject(text, i)).name # <<>>}
  IN  IF calls = {} THEN NoCallFound ELSE parse_call(BareObject(text, Min(calls)))

\* The text between the first fence marked json and the next fence.
Fenced(text) ==
  LET open == Find(text, FenceJson, 1)
      end == Find(text, Fence, open + 2)
  IN  IF open = 0 \/ end = 0 THEN <<>> ELSE SubSeq(text, open + 2, end - 1)

find_call(text) ==
  IF parse_call(Fenced(text)).name # <<>> THEN parse_call(Fenced(text)) ELSE BareCall(text)
-----------------------------------------------------------------------------
(***************************************************************************)
(* strip_thinking: the block with the earliest opening tag goes, and the   *)
(* search starts over.  add_pair is never called.                          *)
(***************************************************************************)
OpenTag == <<"[thin", "king]">>
CloseTag == <<"[/thinking]">>

Block(text) ==
  LET open == Find(text, OpenTag, 1)
  IN  [open |-> open,
       close |-> IF open = 0 THEN 0 ELSE Find(text, CloseTag, open + Len(OpenTag))]

HasBlock(text) == Block(text).close # 0

Erased(text) ==
  LET b == Block(text)
  IN  SubSeq(text, 1, b.open - 1) \o SubSeq(text, b.close + Len(CloseTag), Len(text))

strip_thinking(text) ==
  FoldLeft(LAMBDA t, u : IF HasBlock(t) THEN Erased(t) ELSE t, text, text)
-----------------------------------------------------------------------------
(***************************************************************************)
(* json_shape: the keys named in the option, none when it is refused.      *)
(***************************************************************************)
NextKey(s, u) ==
  CASE u = "," -> [s EXCEPT !.keys = Append(@, s.current), !.current = <<>>,
                            !.bad = @ \/ s.current = <<>>]
    [] u = Space -> s
    [] OTHER -> [s EXCEPT !.current = Append(@, u)]

json_shape(option) ==
  LET s == FoldLeft(NextKey, [keys |-> <<>>, current |-> <<>>, bad |-> FALSE], option)
      list == IF s.current = <<>> THEN s.keys ELSE Append(s.keys, s.current)
  IN  IF s.bad \/ ~ IsInjective(list) THEN {} ELSE ToSet(list)

NewShape(keys) ==
  [keys |-> keys, state |-> "ObjectStart", done |-> FALSE, key |-> <<>>, seen |-> {}]

\* JsonShapeConstraint::allow.
allow(c, u) ==
  \/ c.done /\ u = "}"
  \/ /\ ~ c.done
     /\ \/ u = Space
        \/ c.state = "ObjectStart" /\ u = "{"
        \/ c.state = "KeyOrEnd" /\ u \in {Quote, "}"}
        \/ c.state \in {"InKey", "InValue"}
        \/ c.state = "Colon" /\ u = ":"
        \/ c.state = "ValueStart" /\ u = Quote
        \/ c.state = "CommaOrEnd" /\ u \in {",", "}"}

\* Mutant: any key that comes again ends the object, listed or not.
RepeatedAny(c) == c.key \in c.seen

Repeated(c) == c.key \in c.keys /\ c.key \in c.seen

(***************************************************************************)
(* JsonShapeConstraint::feed, of a unit that allow lets through.           *)
(***************************************************************************)
feed(c, u) ==
  CASE c.done \/ u = Space -> c
    [] ~ c.done /\ u = "}" /\ c.state \in {"KeyOrEnd", "CommaOrEnd"} -> [c EXCEPT !.done = TRUE]
    [] ~ c.done /\ u = Quote ->
        (CASE c.state = "KeyOrEnd" -> [c EXCEPT !.state = "InKey", !.key = <<>>]
           [] c.state = "InKey" -> [c EXCEPT !.state = "Colon"]
           [] c.state = "ValueStart" -> [c EXCEPT !.state = "InValue"]
           [] c.state = "InValue" /\ Repeated(c) -> [c EXCEPT !.done = TRUE]
           [] c.state = "InValue" /\ ~ Repeated(c) ->
                [c EXCEPT !.state = "CommaOrEnd", !.seen = @ \cup {c.key}])
    [] ~ c.done /\ u = "{" /\ c.state = "ObjectStart" -> [c EXCEPT !.state = "KeyOrEnd"]
    [] ~ c.done /\ u = ":" /\ c.state = "Colon" -> [c EXCEPT !.state = "ValueStart"]
    [] ~ c.done /\ u = "," /\ c.state = "CommaOrEnd" -> [c EXCEPT !.state = "KeyOrEnd"]
    [] ~ c.done /\ u \notin {Quote, Space} /\ c.state = "InKey" -> [c EXCEPT !.key = Append(@, u)]
    [] OTHER -> c

\* The loop of postprocess_reply stops at the first unit that is not allowed.
Shaped(text, keys) ==
  LET Take(s, u) ==
        IF s.stopped \/ ~ allow(s.c, u) THEN [s EXCEPT !.stopped = TRUE]
        ELSE [s EXCEPT !.c = feed(@, u), !.ok = Append(@, u)]
  IN  FoldLeft(Take, [c |-> NewShape(keys), ok |-> <<>>, stopped |-> FALSE], text).ok

\* What is left of the text when thinking is stripped.
Answer(text) == IF setup.strip THEN strip_thinking(text) ELSE text

postprocess_reply(raw) ==
  LET keys == json_shape(setup.shape)
  IN  IF keys = {} THEN Answer(raw) ELSE Shaped(Answer(raw), keys)
-----------------------------------------------------------------------------
(***************************************************************************)
(* run_tool: what the tool may have been given.  A shell tool runs twice:  *)
(* it is given the arguments, and then runs again, without them, for the   *)
(* output that is fed back; either time it may fail to start.              *)
(***************************************************************************)
run_tool(c) ==
  CASE c.name \in setup.shell ->
         {[by |-> "shell", stdin |-> s] : s \in {<<>>, <<c.args>>, <<c.args, <<>>>>}}
    [] c.name \notin setup.shell /\ c.name \in setup.mcp ->
         {[by |-> "mcp", stdin |-> <<c.args>>]}
    [] OTHER -> {[by |-> "error", stdin |-> <<>>]}

NothingRan == [by |-> "nobody", stdin |-> <<>>]

Init ==
  /\ setup \in Setups
  /\ stage = "waiting" /\ pieces = <<>> /\ iters = 0
  /\ call = NoCallFound /\ ran = NothingRan /\ printed = <<>>

\* A line whose prompt has tokens starts a turn.
ReadLine ==
  /\ stage = "waiting"
  /\ stage' = "replying"
  /\ pieces' = <<>> /\ iters' = 0
  /\ call' = NoCallFound /\ ran' = NothingRan /\ printed' = <<>>
  /\ UNCHANGED setup

\* run_turn appends what a sampled token stands for.
Say ==
  /\ stage = "replying"
  /\ Len(pieces) < setup.most
  /\ \E p \in setup.pieces : pieces' = Append(pieces, p)
  /\ UNCHANGED <<setup, stage, iters, call, ran, printed>>

EndTurn ==
  /\ stage = "replying"
  /\ stage' = "looking"
  /\ UNCHANGED <<setup, pieces, iters, call, ran, printed>>

CallFound == iters < setup.max_iters /\ find_call(reply).name # <<>>

FindCall ==
  /\ stage = "looking"
  /\ CallFound
  /\ stage' = "running"
  /\ call' = find_call(reply)
  /\ ran' \in run_tool(call')
  /\ UNCHANGED <<setup, pieces, iters, printed>>

\* The result is fed back and the model replies to it.
FeedResult ==
  /\ stage = "running"
  /\ stage' = "replying"
  /\ pieces' = <<>>
  /\ iters' = iters + 1
  /\ UNCHANGED <<setup, call, ran, printed>>

Prints ==
  /\ stage' = "waiting"
  /\ printed' = postprocess_reply(reply)
  /\ UNCHANGED <<setup, pieces, iters, call, ran>>

PrintReply == stage = "looking" /\ ~ CallFound /\ Prints

\* The result encodes to no token: the reply that holds the call is printed.
FeedNothing == stage = "running" /\ Prints

Next ==
  \/ ReadLine \/ Say \/ EndTurn
  \/ FindCall \/ FeedResult \/ FeedNothing
  \/ PrintReply

Spec == Init /\ [][Next]_vars
-----------------------------------------------------------------------------
(***************************************************************************)
(* What a prefix of an object of the shape is, by position: outside the    *)
(* strings and without the spaces it reads { " : " , " : " , ... where a   *)
(* quote stands for a string, until it is closed.                          *)
(***************************************************************************)
QuotesBefore(text, i) == {j \in 1 .. i - 1 : text[j] = Quote}

Outside(text) ==
  SelectSeq([i \in DOMAIN text |-> i],
            LAMBDA i : text[i] # Space /\ Cardinality(QuotesBefore(text, i)) % 2 = 0)

Slot(i) == CASE i = 1 -> "{"
             [] i > 1 /\ i % 4 = 1 -> ","
             [] i % 4 = 3 -> ":"
             [] OTHER -> Quote

Quotes(text) == SelectSeq([i \in DOMAIN text |-> i], LAMBDA i : text[i] = Quote)

OnlyClosers(text, from) == \A j \in from .. Len(text) : text[j] = "}"

\* Nothing but closing braces follows the first member whose listed key an
\* earlier one had; a key counts without its spaces.
KeysOnce(text, keys) ==
  LET quotes == Quotes(text)
      Key(m) == SelectSeq(SubSeq(text, quotes[4 * m - 3] + 1, quotes[4 * m - 2] - 1),
                          LAMBDA u : u # Space)
  IN  \A m \in 1 .. Len(quotes) \div 4 :
        Key(m) \in keys /\ (\E l \in 1 .. m - 1 : Key(l) = Key(m)) =>
          OnlyClosers(text, quotes[4 * m] + 1)

ShapePrefix(text, keys) ==
  LET out == Outside(text)
  IN  /\ \E n \in 0 .. Len(out) :
           /\ \A i \in 1 .. n : text[out[i]] = Slot(i)
           /\ n < Len(out) => n > 0 /\ n % 4 \in {0, 1} /\ OnlyClosers(text, out[n + 1])
      /\ KeysOnce(text, keys)

IsSubsequence(s, t) ==
  FoldLeft(LAMBDA rest, u : IF rest # <<>> /\ Head(rest) = u THEN Tail(rest) ELSE rest, s, t) = <<>>

\* No block of thinking is left, also none that appears when another one is cut
\* out ("repeating until none remain", reason.hpp:66), and nothing is added;
\* with a shape the reply is printed exactly as far as it is the beginning of an
\* object in which no listed key comes twice (gen.hpp:31-36).
PrintedRight ==
  stage = "waiting" =>
    LET keys == json_shape(setup.shape)
        whole == Answer(reply)
    IN  /\ setup.strip => ~ HasBlock(whole) /\ IsSubsequence(whole, reply)
        /\ ~ HasBlock(reply) => whole = reply
        /\ keys = {} => printed = whole
        /\ keys # {} /\ printed # whole =>
             /\ IsStrictPrefix(printed, whole)
             /\ ~ ShapePrefix(SubSeq(whole, 1, Len(printed) + 1), keys)
        /\ keys # {} => ShapePrefix(printed, keys)

(***************************************************************************)
(* A call as a model writes it, quotes in the arguments escaped.           *)
(***************************************************************************)
Escaped(args) ==
  FlattenSeq([i \in DOMAIN args |->
                IF args[i] \in {Quote, Escape} THEN <<Escape, args[i]>> ELSE <<args[i]>>])

Member(key, value) == <<Quote, key, Quote, ":", Quote>> \o value \o <<Quote>>

CallText(c) ==
  <<"{">> \o Member("name", c.name) \o <<",">> \o Member("arguments", Escaped(c.args)) \o <<"}">>

\* The calls the pieces lo .. hi spell, by position.
SaidIn(lo, hi) == {i \in lo .. hi : \E c \in setup.calls : pieces[i] = CallText(c)}

Fences == {i \in DOMAIN pieces : pieces[i] = FenceJson}

InFence ==
  IF Fences = {} THEN {}
  ELSE LET ends == {i \in Min(Fences) + 1 .. Len(pieces) : pieces[i] \in {Fence, FenceJson}}
       IN  IF ends = {} THEN {} ELSE SaidIn(Min(Fences), Min(ends))

Said == SaidIn(1, Len(pieces))

\* The call that counts: the first of a fenced block, or else the first.
Spelled ==
  IF Said = {} THEN NoCallFound
  ELSE CHOOSE c \in setup.calls :
         CallText(c) = pieces[IF InFence # {} THEN Min(InFence) ELSE Min(Said)]

\* The tool is run that the reply calls first, with the arguments it gives,
\* those in a fenced block before all others ("Scan assistant text for a fenced
\* ... or bare ... block; return first parseable call", agent.hpp:81-82), whatever
\* stands around it; a reply is only printed without a call, or when calls were
\* run for this line already.
CallsRight ==
  /\ stage = "running" => call = Spelled
  /\ stage = "waiting" /\ setup.max_iters > 0 /\ Spelled # NoCallFound => call # NoCallFound
=============================================================================

---------------------------- MODULE ChatTemplate ----------------------------
(***************************************************************************)
(* The chat template interpreter (include/nanovllm/chat_template.hpp) and  *)
(* its caller Tokenizer::apply_chat_template (src/tokenizer.cpp).          *)
(*                                                                         *)
(* A template is a sequence of units: a text, an expression, or a tag.     *)
(* Whitespace control is left out.  A string is a sequence of its parts.   *)
(***************************************************************************)
EXTENDS Integers, Sequences, SequencesExt, FiniteSetsExt

True == <<"true">>
False == <<"false">>
AsString(b) == IF b THEN True ELSE False

IsTag(u, tags) == u.k = "tag" /\ u.tag \in tags
-----------------------------------------------------------------------------
(* Expressions.                                                             *)

\* The newest local of that name; what is not defined is false.
Local(ctx, name) ==
  LET at == {l \in DOMAIN ctx.locals : ctx.locals[l][1] = name}
  IN  IF at = {} THEN False ELSE ctx.locals[Max(at)][2]

lookupVar(ctx, name) ==
  CASE name = "add_generation_prompt" -> AsString(ctx.prompted)
    [] name = "eos_token" -> <<"eos">>
    [] name = "loop.first" -> AsString(ctx.msg = 1)
    [] name = "loop.last" -> AsString(ctx.msg = Len(ctx.messages))
    [] name \in {"message", "message.content"} ->
         IF ctx.msg = 0 THEN <<>> ELSE ctx.messages[ctx.msg].content
    [] name = "message.role" -> IF ctx.msg = 0 THEN <<>> ELSE ctx.messages[ctx.msg].role
    [] OTHER -> Local(ctx, name)

RECURSIVE evalExpr(_, _)
evalExpr(ctx, e) ==
  CASE e.op = "literal" -> e.of
    [] e.op = "var" -> lookupVar(ctx, e.of)
    [] e.op = "+" -> evalExpr(ctx, e.l) \o evalExpr(ctx, e.r)
    [] e.op = "==" -> AsString(evalExpr(ctx, e.l) = evalExpr(ctx, e.r))
    [] e.op = "!=" -> AsString(evalExpr(ctx, e.l) # evalExpr(ctx, e.r))
    [] e.op = "if" -> IF evalExpr(ctx, e.cond) = True THEN evalExpr(ctx, e.l)
                                                      ELSE evalExpr(ctx, e.r)

\* A condition is an `or` of `and`s.
evalCond(ctx, cond) == \E ands \in ToSet(cond) : \A e \in ToSet(ands) : evalExpr(ctx, e) = True
-----------------------------------------------------------------------------
(* Scanning for tags.                                                       *)

\* How deep in blocks opened behind i each later position is.  A tag that closes a
\* block opened before i is passed over.
Depth(tmpl, i) ==
  LET d[j \in i .. Len(tmpl) + 1] ==
        IF j = i THEN 0
        ELSE IF IsTag(tmpl[j - 1], {"if", "for"}) THEN d[j - 1] + 1
        ELSE IF IsTag(tmpl[j - 1], {"endif", "endfor"}) /\ d[j - 1] > 0 THEN d[j - 1] - 1
        ELSE d[j - 1]
  IN  d

\* Mutant: the nearest of the tags, however deep.
TagAtAnyDepth(tmpl, i, tags) ==
  LET at == {j \in i .. Len(tmpl) : IsTag(tmpl[j], tags)}
  IN  IF at = {} THEN 0 ELSE Min(at)

\* scanArm, skipToTag: the next of the tags at the depth of i; 0 if there is none.
TagAt(tmpl, i, tags) ==
  LET at == {j \in i .. Len(tmpl) : Depth(tmpl, i)[j] = 0 /\ IsTag(tmpl[j], tags)}
  IN  IF at = {} THEN 0 ELSE Min(at)

\* The first position behind the loop whose body begins at i: only loops are counted.
AfterLoop(tmpl, i) ==
  LET open(j) == 1 + Cardinality({k \in i .. j : IsTag(tmpl[k], {"for"})})
                   - Cardinality({k \in i .. j : IsTag(tmpl[k], {"endfor"})})
      at == {j \in i .. Len(tmpl) : open(j) = 0}
  IN  IF at = {} THEN Len(tmpl) + 1 ELSE Min(at) + 1
-----------------------------------------------------------------------------
(* Rendering: p.i is the parser's position, p.out what it wrote.            *)

Throw(p) == [p EXCEPT !.failed = TRUE]

RECURSIVE parseBlock(_, _), parseIf(_, _, _)

\* Every message in turn renders the body, with a context of its own.
forMessages(tmpl, p, var) ==
  LET turn(q, m) ==
        LET body == parseBlock(tmpl, [q EXCEPT !.i = p.i, !.ctx.msg = m,
                                 !.ctx.locals = Append(@, <<var, p.ctx.messages[m].content>>)])
        IN  [body EXCEPT !.ctx = p.ctx]
  IN  [FoldLeft(turn, p, [m \in DOMAIN p.ctx.messages |-> m])
         EXCEPT !.i = AfterLoop(tmpl, p.i)]

\* Up to the end of the template or the tag that ends the block.
parseBlock(tmpl, p) ==
  IF p.failed \/ p.i > Len(tmpl) THEN p
  ELSE LET u == tmpl[p.i]
           q == [p EXCEPT !.i = @ + 1]
       IN  CASE u.k = "text" -> parseBlock(tmpl, [q EXCEPT !.out = Append(@, u.of)])
             [] u.k = "expr" -> parseBlock(tmpl, [q EXCEPT !.out = @ \o evalExpr(p.ctx, u.of)])
             [] IsTag(u, {"for"}) ->
                  IF u.over = "messages" THEN parseBlock(tmpl, forMessages(tmpl, q, u.var))
                  ELSE IF lookupVar(p.ctx, u.over) \in {<<>>, False}
                       THEN parseBlock(tmpl, [q EXCEPT !.i = AfterLoop(tmpl, q.i)])
                       ELSE Throw(q)
             [] IsTag(u, {"if"}) -> parseBlock(tmpl, parseIf(tmpl, q, u.cond))
             [] IsTag(u, {"set"}) ->
                  parseBlock(tmpl, [q EXCEPT !.ctx.locals =
                                      Append(@, <<u.var, evalExpr(p.ctx, u.of)>>)])
             [] IsTag(u, {"elif", "else", "endif", "endfor"}) -> q

\* p.i is at the beginning of an arm whose condition is cond.
parseIf(tmpl, p, cond) ==
  LET at == TagAt(tmpl, p.i, {"elif", "else", "endif"})
      term == tmpl[at].tag
      behind == [p EXCEPT !.i = at + 1]
      arm == parseBlock(tmpl, p)
      end == TagAt(tmpl, arm.i, {"endif"})
      holds == evalCond(p.ctx, cond)
  IN  CASE at = 0 -> Throw(p)
        [] at # 0 /\ term = "elif" /\ holds ->
             IF end = 0 THEN Throw(arm) ELSE [arm EXCEPT !.i = end + 1]
        [] at # 0 /\ term = "elif" /\ ~ holds -> parseIf(tmpl, behind, tmpl[at].cond)
        [] at # 0 /\ term = "else" -> IF holds THEN arm ELSE parseBlock(tmpl, behind)
        [] at # 0 /\ term = "endif" -> IF holds THEN arm ELSE behind

render(tmpl, messages, prompted) ==
  parseBlock(tmpl, [i |-> 1, out |-> <<>>, failed |-> FALSE,
                    ctx |-> [messages |-> messages, prompted |-> prompted, msg |-> 0,
                             locals |-> <<>>]])

\* A template that fails, or none, leaves the prompt as it is.
apply_chat_template(tmpl, prompt, system) ==
  LET turn(role, content) == [role |-> <<role>>, content |-> content]
      messages == IF system = <<>> THEN <<turn("user", prompt)>>
                  ELSE <<turn("system", system), turn("user", prompt)>>
      rendered == render(tmpl, messages, TRUE)
  IN  IF tmpl = <<>> \/ rendered.failed THEN prompt ELSE rendered.out
=============================================================================

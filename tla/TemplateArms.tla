---------------------------- MODULE TemplateArms ----------------------------
(***************************************************************************)
(* A chat template written tag by tag, what it means, and what the         *)
(* interpreter makes of it.  Behind every tag stands an expression that    *)
(* writes where it is and the message it is rendered for.                  *)
(***************************************************************************)
EXTENDS ChatTemplate

CONSTANTS
  Conditions,     \* of if and elif
  Systems,        \* system prompts; <<>> is none
  MaxTags

VARIABLES tmpl,   \* the template so far
          open    \* the blocks that are open in it, the innermost last

vars == <<tmpl, open>>

Here(at) == [k |-> "expr", of |-> [op |-> "+", l |-> [op |-> "literal", of |-> <<at>>],
                                   r |-> [op |-> "var", of |-> "message.content"]]]
\* What is open must be closed within MaxTags.
Write(tag) == /\ Len(tmpl) < 2 * MaxTags /\ Len(tmpl) + 2 * Len(open) <= 2 * MaxTags + 1
              /\ tmpl' = tmpl \o <<tag, Here(Len(tmpl) + 2)>>
Within(blocks) == open # <<>> /\ Last(open) \in blocks

Init == tmpl = <<Here(1)>> /\ open = <<>>

OpenIf ==
  \E c \in Conditions : Write([k |-> "tag", tag |-> "if", cond |-> c])
                        /\ open' = Append(open, "if")
Elif ==
  /\ Within({"if"})
  /\ \E c \in Conditions : Write([k |-> "tag", tag |-> "elif", cond |-> c])
  /\ UNCHANGED open
Else == /\ Within({"if"})
        /\ Write([k |-> "tag", tag |-> "else"])
        /\ open' = Append(Front(open), "else")
Endif == /\ Within({"if", "else"})
         /\ Write([k |-> "tag", tag |-> "endif"])
         /\ open' = Front(open)
For == /\ "for" \notin ToSet(open)
       /\ \E over \in {"messages", "message.tool_calls"} :
            Write([k |-> "tag", tag |-> "for", var |-> "m", over |-> over])
       /\ open' = Append(open, "for")
Endfor == /\ Within({"for"})
          /\ Write([k |-> "tag", tag |-> "endfor"])
          /\ open' = Front(open)
Set == /\ Write([k |-> "tag", tag |-> "set", var |-> "x", of |-> [op |-> "literal", of |-> True]])
       /\ UNCHANGED open

Next == OpenIf \/ Elif \/ Else \/ Endif \/ For \/ Endfor \/ Set
Spec == Init /\ [][Next]_vars
-----------------------------------------------------------------------------
(* What a template means: which units are live for a message (0 outside of  *)
(* loops), told from the nesting alone.                                     *)

LevelOf(q) ==
  Cardinality({r \in 1 .. q - 1 : IsTag(tmpl[r], {"if", "for"})})
  - Cardinality({r \in 1 .. q : IsTag(tmpl[r], {"endif", "endfor"})})
  - (IF IsTag(tmpl[q], {"elif", "else"}) THEN 1 ELSE 0)
\* The tags of that kind between q and p that are in the same block as q.
Beside(q, p, tags) ==
  {r \in q + 1 .. p - 1 : IsTag(tmpl[r], tags) /\ LevelOf(r) = LevelOf(q)}
\* The arms and loops p lies in.
ArmsAround(p) == {q \in 1 .. p - 1 : /\ IsTag(tmpl[q], {"if", "elif", "else"})
                                     /\ Beside(q, p + 1, {"elif", "else", "endif"}) = {}}
LoopsAround(p) == {q \in 1 .. p - 1 : IsTag(tmpl[q], {"for"}) /\ Beside(q, p, {"endfor"}) = {}}
\* The arms in front of q in its chain.
EarlierArms(q) == {r \in 1 .. q - 1 : /\ ~ IsTag(tmpl[q], {"if"})
                                      /\ IsTag(tmpl[r], {"if", "elif"})
                                      /\ LevelOf(r) = LevelOf(q)
                                      /\ Beside(r, q, {"if", "endif"}) = {}}

RECURSIVE Live(_, _, _)
Holds(messages, q, m) ==
  LET set == \E r \in 1 .. q - 1 : /\ IsTag(tmpl[r], {"set"})
                                   /\ LoopsAround(r) \subseteq LoopsAround(q)
                                   /\ Live(messages, r, IF LoopsAround(r) = {} THEN 0 ELSE m)
      ctx == [messages |-> messages, prompted |-> TRUE, msg |-> m,
              locals |-> IF set THEN << <<"x", True>> >> ELSE <<>>]
  IN  IsTag(tmpl[q], {"else"}) \/ evalCond(ctx, tmpl[q].cond)
\* Every arm around p is the first of its chain whose condition holds, and its loops turn.
Live(messages, p, m) ==
  /\ \A q \in LoopsAround(p) : tmpl[q].over = "messages"
  /\ \A q \in ArmsAround(p) :
       LET of == IF LoopsAround(q) = {} THEN 0 ELSE m
       IN  Holds(messages, q, of) /\ \A r \in EarlierArms(q) : ~ Holds(messages, r, of)

Meaning(messages) ==
  LET text(p, m) == IF tmpl[p].k = "expr" /\ Live(messages, p, m)
                    THEN <<p>> \o (IF m = 0 THEN <<>> ELSE messages[m].content) ELSE <<>>
      body(f) == {p \in f + 1 .. AfterLoop(tmpl, f + 1) - 2 : TRUE}
      loop(f) == FlattenSeq([m \in DOMAIN messages |->
                   FlattenSeq([j \in 1 .. Cardinality(body(f)) |-> text(f + j, m)])])
  IN  FlattenSeq([p \in DOMAIN tmpl |->
        IF IsTag(tmpl[p], {"for"}) THEN loop(p)
        ELSE IF LoopsAround(p) = {} THEN text(p, 0) ELSE <<>>])
-----------------------------------------------------------------------------
Turn(role, content) == [role |-> <<role>>, content |-> content]
Conversation(system) ==
  IF system = <<>> THEN <<Turn("user", <<"prompt">>)>>
  ELSE <<Turn("system", system), Turn("user", <<"prompt">>)>>

(***************************************************************************)
(* A finished template is rendered to what it means: of every if-chain the *)
(* first arm whose condition holds and no other, of every loop one turn    *)
(* per message, and everything behind a block (chat_template.hpp:472,      *)
(* parseIf: "Full if/elif.../else/endif chain with correct arm selection"). *)
(***************************************************************************)
ArmsRight ==
  open = <<>> => \A system \in Systems : apply_chat_template(tmpl, <<"prompt">>, system)
                                           = Meaning(Conversation(system))

(***************************************************************************)
(* So it is wherever no arm in front of an else holds: chains of if and    *)
(* elif, nested in each other and in loops, with variables that are set in *)
(* an arm or a turn, and an else when its turn comes.                      *)
(***************************************************************************)
ElsesTaken ==
  \A q \in DOMAIN tmpl : IsTag(tmpl[q], {"else"}) =>
    \A system \in Systems : \A r \in EarlierArms(q) : \A m \in 0 .. Len(Conversation(system)) :
      ~ Holds(Conversation(system), r, m)
ChainsRight == ElsesTaken => ArmsRight
=============================================================================

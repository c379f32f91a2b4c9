------------------------------ MODULE ToolCalls ------------------------------
(***************************************************************************)
(* What the MCP client promises to the console loop ("request/response     *)
(* matching", TODO.md:213), with pipes, lines and timeouts out of sight:   *)
(* calls follow each other, each has a number of its own, and each returns *)
(* once: with what the child answered to this call, or with nothing.       *)
(***************************************************************************)
EXTENDS Naturals

CONSTANT MaxCalls

VARIABLES
  last,        \* calls made so far
  open,        \* the call in progress, or 0
  answered,    \* calls the child has answered
  outcome      \* what each call returned

vars == <<last, open, answered, outcome>>

Init ==
  /\ last = 0 /\ open = 0 /\ answered = {}
  /\ outcome = [n \in 1 .. MaxCalls |-> "pending"]

Call ==
  /\ open = 0 /\ last < MaxCalls
  /\ last' = last + 1 /\ open' = last'
  /\ UNCHANGED <<answered, outcome>>

Answer(n) ==
  /\ n \in 1 .. last
  /\ answered' = answered \cup {n}
  /\ UNCHANGED <<last, open, outcome>>

Return(how) ==
  /\ open # 0
  /\ how = "answer" => open \in answered
  /\ outcome' = [outcome EXCEPT ![open] = how]
  /\ open' = 0
  /\ UNCHANGED <<last, answered>>

Next ==
  \/ Call
  \/ \E n \in 1 .. MaxCalls : Answer(n)
  \/ \E how \in {"answer", "nothing"} : Return(how)

Spec == Init /\ [][Next]_vars
=============================================================================

------------------------------ MODULE McpClient ------------------------------
(***************************************************************************)
(* The MCP client of the console loop (include/nanovllm/mcp_client.hpp)    *)
(* and the child process it talks to.                                      *)
(*                                                                         *)
(*  - A request is its number.  A line of the child is a sequence of       *)
(*    units: the text "id": with a number, a piece of an answer, the end   *)
(*    of the line.  read_response takes the lines apart unit by unit.      *)
(*  - stderr of the child is the same pipe as its stdout, so that a line   *)
(*    of the log may fall into the middle of an answer.                    *)
(*  - The child may answer late, in any order, or not at all; it may send  *)
(*    requests with numbers of its own, log, stop reading, and die.        *)
(*  - A full pipe blocks its writer, and send_request has no timeout.      *)
(*                                                                         *)
(* Assumed of the child: a member called id stands on the top level of its *)
(* messages only.                                                          *)
(***************************************************************************)
EXTENDS Naturals, Sequences, SequencesExt

CONSTANTS
  MaxCalls,       \* bound on the requests of a session
  StdinRoom,      \* requests the child's stdin holds
  PipeRoom,       \* units the pipe to the client holds
  ChildIds        \* numbers of the child's own requests

ASSUME McpAssumption ==
  /\ MaxCalls \in Nat /\ StdinRoom \in Nat \ {0} /\ PipeRoom \in Nat \ {0, 1}
  /\ ChildIds \subseteq Nat

VARIABLES
  stage,          \* the console: "start", "initialize", "list", "tools", "off", "closed"
  id_counter,
  call,           \* the call in progress
  buffer,         \* read_response: the line read so far
  results,        \* for each call that returned, the answers its result is made of
  alive,          \* the child process runs
  to_child,       \* the pipe to its stdin
  serving,        \* requests the child has read
  answered,       \* those it has begun to answer
  writing,        \* the line the child is writing
  from_child,     \* the pipe from its stdout and stderr
  written         \* answers that are in the pipe to the end

clientVars == <<stage, id_counter, call, buffer, results>>
childVars == <<alive, to_child, serving, answered, writing, from_child, written>>
vars == <<clientVars, childVars>>

Ids == 1 .. MaxCalls
Nobody == 0
NoCall == [id |-> 0, at |-> "returned"]

IdUnit(n) == [kind |-> "id", of |-> n]
Text(n) == [kind |-> "text", of |-> n]
End(n) == [kind |-> "end", of |-> n]

\* A member of an object may stand before or after another.
AnswerLines(n) == {<<IdUnit(n), Text(n), End(n)>>, <<Text(n), IdUnit(n), End(n)>>}
LogLine == <<Text(Nobody), End(Nobody)>>

Init ==
  /\ stage = "start" /\ id_counter = 0 /\ call = NoCall /\ buffer = <<>>
  /\ results = <<>>
  /\ alive = FALSE
  /\ to_child = <<>> /\ serving = {} /\ answered = {}
  /\ writing = <<>> /\ from_child = <<>> /\ written = {}
-----------------------------------------------------------------------------
(***************************************************************************)
(* The client.                                                             *)
(***************************************************************************)

\* The constructor starts the child, or throws and there are no MCP tools.
Spawn ==
  /\ stage = "start"
  /\ \/ stage' = "initialize" /\ alive' = TRUE
     \/ stage' = "off" /\ UNCHANGED alive
  /\ UNCHANGED <<id_counter, call, buffer, results, to_child, serving, answered,
                 writing, from_child, written>>

\* initialize(), list_tools() or call_tool(), up to the write.
build_request ==
  /\ stage \in {"initialize", "list", "tools"}
  /\ call = NoCall /\ id_counter < MaxCalls
  /\ id_counter' = id_counter + 1
  /\ call' = [id |-> id_counter', at |-> "send"]
  /\ UNCHANGED <<stage, buffer, results, childVars>>

\* What the console does after a call that gave resp: without initialisation or
\* without tools it never calls the child again.
StageAfter(resp) ==
  CASE stage = "initialize" -> IF resp = <<>> THEN "off" ELSE "list"
    [] stage = "list" -> IF Text(call.id) \in ToSet(resp) THEN "tools" ELSE "off"
    [] OTHER -> stage

\* The call returns what parse_tools or parse_contents finds in the line.
Return(resp) ==
  /\ call' = NoCall
  /\ buffer' = <<>>
  /\ results' = Append(results,
                       {u.of : u \in {x \in ToSet(resp) : x.kind = "text"}} \ {Nobody})
  /\ stage' = StageAfter(resp)
  /\ UNCHANGED id_counter

\* WriteFile returns when the pipe has taken the request.
send_request ==
  /\ call.at = "send" /\ alive
  /\ Len(to_child) < StdinRoom
  /\ to_child' = Append(to_child, call.id)
  /\ call' = [call EXCEPT !.at = "read"]
  /\ UNCHANGED <<stage, id_counter, buffer, results, alive, serving, answered, writing,
                 from_child, written>>

\* The child is gone.
SendFails ==
  /\ call.at = "send" /\ ~ alive
  /\ Return(<<>>)
  /\ UNCHANGED childVars

\* Mutant: any number will do.
AnyNumber(line, id) == \E u \in ToSet(line) : u.kind = "id"

\* The first number behind "id": in the line is the one expected.
validate_response(line, id) ==
  \E p \in DOMAIN line : line[p] = IdUnit(id) /\ \A q \in 1 .. p - 1 : line[q].kind # "id"

\* Mutant: the buffer keeps the lines it has rejected.
KeepLine(line) == line

\* buffer.clear()
DropLine(line) == <<>>

\* One turn of the loop of read_response that finds something in the pipe.
ReadUnit ==
  /\ call.at = "read" /\ from_child # <<>>
  /\ LET line == Append(buffer, Head(from_child))
     IN  IF Head(from_child).kind # "end"
         THEN buffer' = line /\ UNCHANGED <<stage, id_counter, call, results>>
         ELSE IF validate_response(line, call.id)
         THEN Return(line)
         ELSE buffer' = DropLine(line) /\ UNCHANGED <<stage, id_counter, call, results>>
  /\ from_child' = Tail(from_child)
  /\ UNCHANGED <<alive, to_child, serving, answered, writing, written>>

\* Mutant: the clock is looked at only when the pipe is empty.
TimeoutWhenIdle ==
  /\ call.at = "read" /\ from_child = <<>>
  /\ Return(<<>>)
  /\ UNCHANGED childVars

\* The clock is looked at in every turn of the loop; what was read is dropped.
Timeout ==
  /\ call.at = "read"
  /\ Return(<<>>)
  /\ UNCHANGED childVars

\* The console ends: ~Client.
terminate ==
  /\ stage \in {"list", "tools", "off"} /\ call = NoCall
  /\ stage' = "closed"
  /\ alive' = FALSE /\ to_child' = <<>> /\ writing' = <<>> /\ from_child' = <<>>
  /\ UNCHANGED <<id_counter, call, buffer, results, serving, answered, written>>

Client == Spawn \/ build_request \/ send_request \/ SendFails \/ ReadUnit \/ Timeout \/ terminate
-----------------------------------------------------------------------------
(***************************************************************************)
(* The child.                                                              *)
(***************************************************************************)
ChildReads ==
  /\ alive /\ to_child # <<>>
  /\ serving' = serving \cup {Head(to_child)}
  /\ to_child' = Tail(to_child)
  /\ UNCHANGED <<clientVars, alive, answered, writing, from_child, written>>

ChildAnswers ==
  /\ alive /\ writing = <<>>
  /\ \E n \in serving \ answered :
       writing' \in AnswerLines(n) /\ answered' = answered \cup {n}
  /\ UNCHANGED <<clientVars, alive, to_child, serving, from_child, written>>

ChildRequests ==
  /\ alive /\ writing = <<>>
  /\ \E n \in ChildIds : writing' = <<IdUnit(n), End(Nobody)>>
  /\ UNCHANGED <<clientVars, alive, to_child, serving, answered, from_child, written>>

ChildWrites ==
  /\ alive /\ writing # <<>> /\ Len(from_child) < PipeRoom
  /\ from_child' = Append(from_child, Head(writing))
  /\ writing' = Tail(writing)
  /\ written' = written \cup {n \in Ids : Head(writing) = End(n)}
  /\ UNCHANGED <<clientVars, alive, to_child, serving, answered>>

ChildLogs ==
  /\ alive /\ Len(from_child) + Len(LogLine) <= PipeRoom
  /\ from_child' = from_child \o LogLine
  /\ UNCHANGED <<clientVars, alive, to_child, serving, answered, writing, written>>

ChildDies ==
  /\ alive
  /\ alive' = FALSE /\ to_child' = <<>> /\ writing' = <<>>
  /\ UNCHANGED <<clientVars, serving, answered, from_child, written>>

Child == ChildReads \/ ChildAnswers \/ ChildRequests \/ ChildWrites \/ ChildLogs \/ ChildDies

Next == Client \/ Child

Spec == Init /\ [][Next]_vars

\* The client's thread runs and its clock advances; nothing is asked of the child.
FairSpec == Spec /\ WF_vars(ReadUnit) /\ WF_vars(Timeout)
-----------------------------------------------------------------------------
\* What each call returned, as ToolCalls sees it.
Outcome ==
  [n \in Ids |-> IF n > Len(results) THEN "pending"
                 ELSE IF results[n] = {} THEN "nothing"
                 ELSE IF results[n] = {n} THEN "answer" ELSE "foreign"]

Calls == INSTANCE ToolCalls WITH last <- id_counter, open <- call.id, outcome <- Outcome

\* A call returns what the child answered to it, or nothing: what timed out, was
\* logged or sent in between, or came out of order, is never taken for the answer.
ImplementsToolCalls == Calls!Spec

\* While a call reads, an answer to it that was written to the end is still in the pipe
\* to its end: a timeout of an earlier call in the middle of a line, or lines for others,
\* cost no later call its answer.
AnswerStillAhead ==
  call.at = "read" /\ call.id \in written => End(call.id) \in ToSet(from_child)

\* A call that waits for its answer returns, however much the child writes.
EveryCallReturns == (call.at = "read") ~> (call = NoCall)
=============================================================================

--------------------------- MODULE McpClientProofs ---------------------------
(***************************************************************************)
(* McpClient implements ToolCalls for any bound on the calls and the       *)
(* pipes.  The argument is about the units on their way to the client:     *)
(* what it has read of a line, what the pipe holds and what the child is   *)
(* still writing, in this order, form one stream.  Between two line ends   *)
(* of it all units that belong to somebody belong to the same answer,      *)
(* wherever a timeout has cut the stream and the log has fallen into it.   *)
(***************************************************************************)
EXTENDS McpClient, QueueProofs

Unit == [kind : {"id", "text", "end"}, of : Nat]

\* Behind a unit in the same line come units of the same answer, and of nobody.
Follows(u, v) == u.kind = "end" \/ v.of = u.of \/ v.of = Nobody
Linked(s) == \A p \in 1 .. Len(s) - 1 : Follows(s[p], s[p + 1])
Uniform(s) ==
  \A p, q \in 1 .. Len(s) : s[p].of # Nobody /\ s[q].of # Nobody => s[p].of = s[q].of
Given(s, answers) ==
  \A p \in 1 .. Len(s) : s[p].kind = "text" /\ s[p].of # Nobody => s[p].of \in answers
EndsLine(s) == s = <<>> \/ s[Len(s)].kind = "end"

Stream == buffer \o (from_child \o writing)

McpTypeOK ==
  /\ stage \in {"start", "initialize", "list", "tools", "off", "closed"}
  /\ id_counter \in 0 .. MaxCalls
  /\ call \in [id : Nat, at : {"returned", "send", "read"}]
  /\ results \in Seq(SUBSET Nat)
  /\ alive \in BOOLEAN
  /\ buffer \in Seq(Unit) /\ from_child \in Seq(Unit) /\ writing \in Seq(Unit)
  /\ to_child \in Seq(1 .. id_counter)
  /\ answered \subseteq serving /\ serving \subseteq 1 .. id_counter

\* Calls are numbered in order, and each has one result, its answer or nothing.
CallsInv ==
  /\ call = NoCall => Len(results) = id_counter
  /\ call # NoCall => /\ call.at \in {"send", "read"}
                      /\ call.id = id_counter /\ call.id >= 1
                      /\ Len(results) = id_counter - 1
  /\ \A n \in 1 .. Len(results) : results[n] \in {{}, {n}}

\* Lines are not mixed, unfinished lines are still being written, and no part of an
\* answer is there before the answer is given.
StreamInv ==
  /\ Linked(Stream)
  /\ alive => EndsLine(Stream)
  /\ Uniform(buffer)
  /\ \A p \in 1 .. Len(buffer) : buffer[p].kind # "end"
  /\ Given(Stream, answered)

\* Before the child is there nothing is under way.
StartInv ==
  stage = "start" => /\ ~ alive /\ call = NoCall
                     /\ buffer = <<>> /\ from_child = <<>> /\ writing = <<>>

McpInv == McpTypeOK /\ CallsInv /\ StreamInv /\ StartInv

\* The answers a result is made of.
Texts(line) == {u.of : u \in {x \in ToSet(line) : x.kind = "text"}} \ {Nobody}
-----------------------------------------------------------------------------
\* A piece of a linked stream is linked, and nothing is in it that was not there.
LEMMA Suffix ==
  ASSUME NEW s \in Seq(Unit), NEW t \in Seq(Unit), Linked(s \o t)
  PROVE  Linked(t) /\ Linked(s)
  <1>1. Linked(t)
    <2> SUFFICES ASSUME NEW p \in 1 .. Len(t) - 1 PROVE Follows(t[p], t[p + 1])
      BY DEF Linked
    <2>1. /\ Len(s) + p \in 1 .. Len(s \o t) - 1
          /\ (s \o t)[Len(s) + p] = t[p] /\ (s \o t)[Len(s) + p + 1] = t[p + 1]
      OBVIOUS
    <2> QED BY <2>1 DEF Linked
  <1>2. Linked(s)
    <2> SUFFICES ASSUME NEW p \in 1 .. Len(s) - 1 PROVE Follows(s[p], s[p + 1])
      BY DEF Linked
    <2>1. /\ p \in 1 .. Len(s \o t) - 1
          /\ (s \o t)[p] = s[p] /\ (s \o t)[p + 1] = s[p + 1]
      OBVIOUS
    <2> QED BY <2>1 DEF Linked
  <1> QED BY <1>1, <1>2

\* Two linked pieces make a linked stream when the first ends a line, or when the second
\* begins with a unit of nobody.
LEMMA Joined ==
  ASSUME NEW s \in Seq(Unit), NEW t \in Seq(Unit), Linked(s), Linked(t),
         \/ s = <<>> \/ t = <<>> \/ Follows(s[Len(s)], t[1])
  PROVE  Linked(s \o t)
  <1> SUFFICES ASSUME NEW p \in 1 .. Len(s \o t) - 1
               PROVE  Follows((s \o t)[p], (s \o t)[p + 1])
    BY DEF Linked
  <1>1. CASE p < Len(s)
    <2>1. (s \o t)[p] = s[p] /\ (s \o t)[p + 1] = s[p + 1] /\ p \in 1 .. Len(s) - 1
      BY <1>1
    <2> QED BY <2>1 DEF Linked
  <1>2. CASE p = Len(s)
    <2>1. (s \o t)[p] = s[p] /\ (s \o t)[p + 1] = t[1] /\ s # <<>> /\ t # <<>>
      BY <1>2
    <2> QED BY <2>1, <1>2
  <1>3. CASE p > Len(s)
    <2>1. /\ (s \o t)[p] = t[p - Len(s)] /\ (s \o t)[p + 1] = t[(p - Len(s)) + 1]
          /\ p - Len(s) \in 1 .. Len(t) - 1
      BY <1>3
    <2> QED BY <2>1 DEF Linked
  <1> QED BY <1>1, <1>2, <1>3

LEMMA GivenParts ==
  ASSUME NEW s \in Seq(Unit), NEW t \in Seq(Unit), NEW answers
  PROVE  Given(s \o t, answers) <=> Given(s, answers) /\ Given(t, answers)
  <1>1. ASSUME Given(s \o t, answers) PROVE Given(s, answers) /\ Given(t, answers)
    <2>1. \A p \in 1 .. Len(s) : p \in 1 .. Len(s \o t) /\ (s \o t)[p] = s[p]
      OBVIOUS
    <2>2. \A p \in 1 .. Len(t) :
            Len(s) + p \in 1 .. Len(s \o t) /\ (s \o t)[Len(s) + p] = t[p]
      OBVIOUS
    <2> QED BY <1>1, <2>1, <2>2 DEF Given
  <1>2. ASSUME Given(s, answers), Given(t, answers) PROVE Given(s \o t, answers)
    <2> SUFFICES ASSUME NEW p \in 1 .. Len(s \o t),
                        (s \o t)[p].kind = "text", (s \o t)[p].of # Nobody
                 PROVE  (s \o t)[p].of \in answers
      BY DEF Given
    <2>1. CASE p <= Len(s)
      BY <1>2, <2>1 DEF Given
    <2>2. CASE p > Len(s)
      <3>1. p - Len(s) \in 1 .. Len(t) /\ (s \o t)[p] = t[p - Len(s)]
        BY <2>2
      <3> QED BY <1>2, <3>1 DEF Given
    <2> QED BY <2>1, <2>2
  <1> QED BY <1>1, <1>2

LEMMA EndsLineParts ==
  ASSUME NEW s \in Seq(Unit), NEW t \in Seq(Unit)
  PROVE  EndsLine(s \o t) <=> IF t = <<>> THEN EndsLine(s) ELSE EndsLine(t)
  <1>1. CASE t = <<>>
    <2>1. s \o t = s BY <1>1
    <2> QED BY <1>1, <2>1
  <1>2. CASE t # <<>>
    <2>1. Len(s \o t) = Len(s) + Len(t) /\ Len(t) > 0 /\ s \o t # <<>>
          /\ (s \o t)[Len(s \o t)] = t[Len(t)]
      BY <1>2
    <2> QED BY <1>2, <2>1 DEF EndsLine
  <1> QED BY <1>1, <1>2

LEMMA Initial == Init => McpInv
  <1> SUFFICES ASSUME Init PROVE McpInv
    OBVIOUS
  <1>1. Stream = <<>>
    BY DEF Init, Stream
  <1>2. McpTypeOK
    <2>1. stage = "start" /\ id_counter = 0 /\ call = NoCall /\ alive = FALSE
          /\ serving = {} /\ answered = {}
          /\ results = <<>> /\ buffer = <<>> /\ from_child = <<>> /\ writing = <<>> /\ to_child = <<>>
      BY DEF Init
    <2>2. \A S : <<>> \in Seq(S)
      OBVIOUS
    <2>3. 0 \in 0 .. MaxCalls
      BY McpAssumption
    <2> QED BY <2>1, <2>2, <2>3 DEF McpTypeOK, NoCall
  <1>3. CallsInv
    BY DEF Init, CallsInv
  <1>4. StreamInv
    <2>1. Linked(Stream) /\ EndsLine(Stream) /\ Given(Stream, answered)
      BY <1>1 DEF Linked, EndsLine, Given
    <2>2. Uniform(buffer) /\ \A p \in 1 .. Len(buffer) : buffer[p].kind # "end"
      BY DEF Init, Uniform
    <2> QED BY <2>1, <2>2 DEF StreamInv
  <1>5. StartInv
    BY DEF Init, StartInv
  <1> QED BY <1>2, <1>3, <1>4, <1>5 DEF McpInv
-----------------------------------------------------------------------------
\* Calls that neither read nor return leave the stream and its invariant alone.
LEMMA StreamSame ==
  ASSUME StreamInv, alive' => alive \/ EndsLine(Stream),
         UNCHANGED <<buffer, from_child, writing, answered>>
  PROVE  StreamInv'
  <1>1. Stream' = Stream
    BY DEF Stream
  <1> QED BY <1>1 DEF StreamInv, Linked, Given, EndsLine, Uniform

LEMMA StreamPieces ==
  ASSUME McpTypeOK
  PROVE  Stream \in Seq(Unit) /\ from_child \o writing \in Seq(Unit)
  BY DEF McpTypeOK, Stream

LEMMA SeqLarger ==
  ASSUME NEW S, NEW T, S \subseteq T, NEW s \in Seq(S)
  PROVE  s \in Seq(T)
  <1>1. \A i \in 1 .. Len(s) : s[i] \in T
    OBVIOUS
  <1>2. s = [i \in 1 .. Len(s) |-> s[i]] /\ Len(s) \in Nat
    OBVIOUS
  <1> QED BY <1>1, <1>2

LEMMA SpawnStep ==
  ASSUME McpInv, Spawn PROVE McpInv'
  <1>1. McpTypeOK'
    BY DEF McpInv, McpTypeOK, Spawn
  <1>2. CallsInv'
    BY DEF McpInv, CallsInv, Spawn
  <1>3. Stream = <<>>
    BY DEF McpInv, StartInv, Spawn, Stream
  <1>4. StreamInv'
    BY <1>3, StreamSame DEF McpInv, Spawn, EndsLine
  <1>5. StartInv'
    BY DEF McpInv, StartInv, Spawn
  <1> QED BY <1>1, <1>2, <1>4, <1>5 DEF McpInv

LEMMA RequestStep ==
  ASSUME McpInv, build_request PROVE McpInv'
  <1>1. id_counter' = id_counter + 1 /\ id_counter' \in 1 .. MaxCalls
    BY McpAssumption DEF McpInv, McpTypeOK, build_request
  <1>2. McpTypeOK'
    <2>1. call' \in [id : Nat, at : {"returned", "send", "read"}]
      BY <1>1 DEF build_request
    <2>2. to_child' \in Seq(1 .. id_counter') /\ serving' \subseteq 1 .. id_counter'
      <3>1. 1 .. id_counter \subseteq 1 .. id_counter'
        BY <1>1 DEF McpInv, McpTypeOK
      <3>2. to_child' = to_child /\ serving' = serving
        BY DEF build_request, childVars
      <3>3. to_child \in Seq(1 .. id_counter')
        BY <3>1, SeqLarger DEF McpInv, McpTypeOK
      <3> QED BY <3>1, <3>2, <3>3 DEF McpInv, McpTypeOK
    <2>3. id_counter' \in 0 .. MaxCalls
      BY <1>1
    <2> QED BY <2>1, <2>2, <2>3 DEF McpInv, McpTypeOK, build_request, childVars
  <1>3. CallsInv'
    <2>1. results' = results /\ Len(results) = id_counter /\ call' = [id |-> id_counter', at |-> "send"]
      BY DEF McpInv, CallsInv, build_request
    <2>2. call' # NoCall /\ call'.id = id_counter' /\ call'.at = "send"
      BY <2>1 DEF NoCall
    <2>3. id_counter \in Nat
      BY McpAssumption DEF McpInv, McpTypeOK
    <2> QED BY <1>1, <2>1, <2>2, <2>3 DEF McpInv, CallsInv
  <1>4. StreamInv'
    BY StreamSame DEF McpInv, build_request, childVars
  <1>5. StartInv'
    BY DEF McpInv, StartInv, build_request
  <1> QED BY <1>2, <1>3, <1>4, <1>5 DEF McpInv

LEMMA SendStep ==
  ASSUME McpInv, send_request PROVE McpInv'
  <1>1. call # NoCall /\ call' = [call EXCEPT !.at = "read"]
    BY DEF send_request, NoCall
  <1>2. call.id \in 1 .. id_counter
    BY <1>1 DEF McpInv, McpTypeOK, CallsInv
  <1>3. McpTypeOK'
    <2>1. call' \in [id : Nat, at : {"returned", "send", "read"}]
      BY <1>1 DEF McpInv, McpTypeOK
    <2>2. to_child' \in Seq(1 .. id_counter)
      BY <1>2 DEF McpInv, McpTypeOK, send_request
    <2> QED BY <2>1, <2>2 DEF McpInv, McpTypeOK, send_request
  <1>4. CallsInv'
    <2>1. call'.at = "send" \/ call'.at = "read"
      BY <1>1 DEF McpInv, McpTypeOK
    <2>2. call'.id = call.id /\ call' # NoCall
      BY <1>1, <2>1 DEF McpInv, McpTypeOK, NoCall
    <2>3. id_counter' = id_counter /\ results' = results
      BY DEF send_request
    <2> QED BY <1>1, <2>1, <2>2, <2>3 DEF McpInv, CallsInv
  <1>5. StreamInv'
    BY StreamSame DEF McpInv, send_request
  <1>6. StartInv'
    BY <1>1 DEF McpInv, StartInv, send_request
  <1> QED BY <1>3, <1>4, <1>5, <1>6 DEF McpInv
-----------------------------------------------------------------------------
\* A call returns a line whose texts are those of its own answer.
LEMMA ReturnStep ==
  ASSUME McpInv, call # NoCall, NEW line \in Seq(Unit), Return(line),
         Texts(line) \in {{}, {call.id}}
  PROVE  CallsInv' /\ StartInv'
         /\ results' \in Seq(SUBSET Nat) /\ call' = NoCall
         /\ stage' \in {"initialize", "list", "tools", "off", "closed"}
  <1>1. results' = Append(results, Texts(line)) /\ call' = NoCall /\ id_counter' = id_counter
        /\ buffer' = <<>> /\ stage' = StageAfter(line)
    BY DEF Return, Texts
  <1>2. call.id = id_counter /\ id_counter \in Nat /\ call.id \in Nat
        /\ Len(results) = id_counter - 1 /\ results \in Seq(SUBSET Nat)
    BY McpAssumption DEF McpInv, McpTypeOK, CallsInv
  <1>3. Texts(line) \in SUBSET Nat
    BY <1>2
  <1>4. results' \in Seq(SUBSET Nat) /\ Len(results') = id_counter
        /\ (\A n \in 1 .. Len(results) : results'[n] = results[n])
        /\ results'[id_counter] = Texts(line)
    BY <1>1, <1>2, <1>3
  <1>5. \A n \in 1 .. Len(results') : results'[n] \in {{}, {n}}
    BY <1>2, <1>4 DEF McpInv, CallsInv
  <1>6. CallsInv'
    BY <1>1, <1>4, <1>5 DEF CallsInv
  <1>7. stage # "start"
    BY DEF McpInv, StartInv
  <1>8. stage' \in {"initialize", "list", "tools", "off", "closed"}
    BY <1>1, <1>7 DEF McpInv, McpTypeOK, StageAfter
  <1> QED BY <1>1, <1>4, <1>6, <1>8 DEF StartInv

\* Dropping what was read of a line leaves a suffix of the stream.
LEMMA BufferDropped ==
  ASSUME McpInv, buffer' = <<>>, UNCHANGED <<alive, from_child, writing, answered>>
  PROVE  StreamInv'
  <1> DEFINE rest == from_child \o writing
  <1>1. buffer \in Seq(Unit) /\ rest \in Seq(Unit) /\ Stream = buffer \o rest
    BY StreamPieces DEF McpInv, McpTypeOK, Stream
  <1>2. Stream' = rest
    BY <1>1 DEF Stream
  <1>3. Linked(rest) /\ Given(rest, answered)
    BY <1>1, Suffix, GivenParts DEF McpInv, StreamInv
  <1>4. alive => EndsLine(rest)
    BY <1>1, EndsLineParts DEF McpInv, StreamInv, EndsLine
  <1>5. Uniform(buffer') /\ \A p \in 1 .. Len(buffer') : buffer'[p].kind # "end"
    BY DEF Uniform
  <1>6. Linked(Stream') /\ Given(Stream', answered') /\ (alive' => EndsLine(Stream'))
    BY <1>2, <1>3, <1>4
  <1> QED BY <1>5, <1>6 DEF StreamInv

LEMMA EmptyTexts == Texts(<<>>) = {}
  BY DEF Texts, ToSet

LEMMA NothingReturned ==
  ASSUME McpInv, call # NoCall, Return(<<>>), UNCHANGED childVars PROVE McpInv'
  <1>1. <<>> \in Seq(Unit)
    OBVIOUS
  <1>2. CallsInv' /\ StartInv' /\ results' \in Seq(SUBSET Nat) /\ call' = NoCall
        /\ stage' \in {"initialize", "list", "tools", "off", "closed"}
    BY <1>1, ReturnStep, EmptyTexts
  <1>3. buffer' = <<>> /\ id_counter' = id_counter
    BY DEF Return
  <1>4. StreamInv'
    BY <1>3, BufferDropped DEF childVars
  <1>5. McpTypeOK'
    BY <1>2, <1>3 DEF McpInv, McpTypeOK, childVars, NoCall
  <1> QED BY <1>2, <1>4, <1>5 DEF McpInv
-----------------------------------------------------------------------------
\* What ReadUnit looks at: the line read so far with the next unit.
LEMMA NextUnit ==
  ASSUME McpInv, from_child # <<>>
  PROVE  LET u == Head(from_child)
             line == Append(buffer, u)
             rest == Tail(from_child) \o writing
         IN  /\ u \in Unit /\ line \in Seq(Unit) /\ rest \in Seq(Unit)
             /\ Tail(from_child) \in Seq(Unit)
             /\ Stream = line \o rest
             /\ Uniform(line) /\ Given(line, answered)
  <1> DEFINE u == Head(from_child)
             line == Append(buffer, u)
             rest == Tail(from_child) \o writing
  <1>1. /\ buffer \in Seq(Unit) /\ from_child \in Seq(Unit) /\ writing \in Seq(Unit)
        /\ Len(from_child) > 0
    BY DEF McpInv, McpTypeOK
  <1>2. /\ u \in Unit /\ u = from_child[1] /\ Tail(from_child) \in Seq(Unit)
        /\ line \in Seq(Unit) /\ rest \in Seq(Unit)
    BY <1>1
  <1>3. Stream = line \o rest
    <2>1. Len(Stream) = Len(line \o rest)
      BY <1>1 DEF Stream
    <2>2. ASSUME NEW p \in 1 .. Len(Stream) PROVE Stream[p] = (line \o rest)[p]
      <3>1. CASE p <= Len(buffer)
        BY <1>1, <3>1 DEF Stream
      <3>2. CASE p = Len(buffer) + 1
        BY <1>1, <3>2 DEF Stream
      <3>3. CASE p > Len(buffer) + 1
        BY <1>1, <3>3 DEF Stream
      <3>4. p \in Int /\ Len(buffer) \in Int
        BY <1>1
      <3>5. p <= Len(buffer) \/ p = Len(buffer) + 1 \/ p > Len(buffer) + 1
        BY <3>4
      <3> QED BY <3>1, <3>2, <3>3, <3>5, Zenon
    <2> QED BY <1>1, <1>2, <2>1, <2>2 DEF Stream
  <1>4. Given(line, answered) /\ Linked(line)
    BY <1>2, <1>3, GivenParts, Suffix DEF McpInv, StreamInv
  <1>5. Uniform(line)
    <2>1. /\ Len(line) = Len(buffer) + 1 /\ line[Len(line)] = u
          /\ \A p \in 1 .. Len(buffer) : line[p] = buffer[p]
      BY <1>1, <1>2
    <2>2. buffer # <<>> => Follows(buffer[Len(buffer)], u) /\ buffer[Len(buffer)].kind # "end"
      BY <1>1, <1>4, <2>1 DEF Linked, McpInv, StreamInv
    <2>3. ASSUME NEW p \in 1 .. Len(buffer), buffer[p].of # Nobody, u.of # Nobody
          PROVE  buffer[p].of = u.of
      <3>1. buffer[Len(buffer)].of = u.of
        BY <1>1, <2>2, <2>3 DEF Follows
      <3>2. Len(buffer) \in 1 .. Len(buffer)
        BY <1>1
      <3> QED BY <2>3, <3>1, <3>2 DEF McpInv, StreamInv, Uniform
    <2>4. Len(buffer) \in Nat
      BY <1>1
    <2> QED BY <2>1, <2>3, <2>4 DEF McpInv, StreamInv, Uniform
  <1> QED BY <1>2, <1>3, <1>4, <1>5

\* Only the answer to the call is taken for it.
LEMMA OwnAnswer ==
  ASSUME McpInv, call # NoCall, NEW line \in Seq(Unit), Uniform(line), Given(line, answered),
         validate_response(line, call.id)
  PROVE  Texts(line) \in {{}, {call.id}} /\ Texts(line) \subseteq answered
  <1>1. call.id \in Nat /\ call.id # Nobody
    BY McpAssumption DEF McpInv, McpTypeOK, CallsInv, Nobody
  <1>2. PICK p \in 1 .. Len(line) : line[p] = IdUnit(call.id)
    BY DEF validate_response
  <1>3. line[p].of = call.id
    BY <1>2 DEF IdUnit
  <1>4. ASSUME NEW k \in Texts(line) PROVE k = call.id /\ k \in answered
    <2>1. PICK q \in 1 .. Len(line) : line[q].kind = "text" /\ line[q].of = k /\ k # Nobody
      BY <1>4 DEF Texts, ToSet
    <2> QED BY <1>1, <1>2, <1>3, <2>1 DEF Uniform, Given
  <1> QED BY <1>4

LEMMA ReadStep ==
  ASSUME McpInv, ReadUnit PROVE McpInv'
  <1> DEFINE u == Head(from_child)
             line == Append(buffer, u)
             rest == Tail(from_child) \o writing
  <1>1. /\ u \in Unit /\ line \in Seq(Unit) /\ rest \in Seq(Unit)
        /\ Tail(from_child) \in Seq(Unit)
        /\ Stream = line \o rest
        /\ Uniform(line) /\ Given(line, answered)
    BY NextUnit DEF ReadUnit
  <1>2. from_child' = Tail(from_child) /\ call # NoCall
        /\ UNCHANGED <<alive, to_child, serving, answered, writing, written>>
    BY DEF ReadUnit, NoCall
  <1>3. stage # "start"
    BY <1>2 DEF McpInv, StartInv
  <1>4. alive => EndsLine(line \o rest)
    BY <1>1 DEF McpInv, StreamInv
  <1>5. Linked(line \o rest) /\ Given(line \o rest, answered)
    BY <1>1 DEF McpInv, StreamInv
  <1>6. CASE u.kind # "end"
    <2>1. buffer' = line /\ UNCHANGED <<stage, id_counter, call, results>>
      BY <1>6 DEF ReadUnit
    <2>2. Stream' = line \o rest
      BY <1>2, <2>1 DEF Stream
    <2>3. \A p \in 1 .. Len(line) : line[p].kind # "end"
      <3>1. \A p \in 1 .. Len(buffer) : line[p] = buffer[p]
        BY <1>1 DEF McpInv, McpTypeOK
      <3>2. Len(line) = Len(buffer) + 1 /\ line[Len(buffer) + 1] = u /\ Len(buffer) \in Nat
        BY <1>1 DEF McpInv, McpTypeOK
      <3> QED BY <1>6, <3>1, <3>2 DEF McpInv, StreamInv
    <2>4. StreamInv'
      BY <1>1, <1>2, <1>4, <1>5, <2>1, <2>2, <2>3 DEF StreamInv
    <2>5. McpTypeOK' /\ CallsInv' /\ StartInv'
      BY <1>1, <1>2, <1>3, <2>1 DEF McpInv, McpTypeOK, CallsInv, StartInv
    <2> QED BY <2>4, <2>5 DEF McpInv
  <1>7. CASE u.kind = "end"
    <2>1. buffer' = <<>> /\ id_counter' = id_counter
      BY <1>7 DEF ReadUnit, Return, DropLine
    <2>2. Stream' = rest
      BY <1>1, <1>2, <2>1 DEF Stream
    <2>3. StreamInv'
      <3>1. Linked(rest) /\ Given(rest, answered)
        BY <1>1, <1>5, Suffix, GivenParts
      <3>2. alive => EndsLine(rest)
        BY <1>1, <1>4, EndsLineParts DEF EndsLine
      <3>3. Uniform(buffer') /\ \A p \in 1 .. Len(buffer') : buffer'[p].kind # "end"
        BY <2>1 DEF Uniform
      <3> QED BY <1>2, <2>2, <3>1, <3>2, <3>3 DEF StreamInv
    <2>4. CASE validate_response(line, call.id)
      <3>1. Return(line)
        BY <1>7, <2>4 DEF ReadUnit
      <3>2. Texts(line) \in {{}, {call.id}}
        BY <1>1, <1>2, <2>4, OwnAnswer
      <3>3. CallsInv' /\ StartInv' /\ results' \in Seq(SUBSET Nat) /\ call' = NoCall
            /\ stage' \in {"initialize", "list", "tools", "off", "closed"}
        BY <1>1, <1>2, <3>1, <3>2, ReturnStep
      <3>4. McpTypeOK'
        BY <1>1, <1>2, <2>1, <3>3 DEF McpInv, McpTypeOK, NoCall
      <3> QED BY <2>3, <3>3, <3>4 DEF McpInv
    <2>5. CASE ~ validate_response(line, call.id)
      <3>1. UNCHANGED <<stage, id_counter, call, results>>
        BY <1>7, <2>5 DEF ReadUnit
      <3>2. CallsInv' /\ StartInv'
        BY <1>3, <2>1, <3>1 DEF McpInv, CallsInv, StartInv
      <3>3. <<>> \in Seq(Unit)
        OBVIOUS
      <3>4. McpTypeOK'
        BY <1>1, <1>2, <2>1, <3>1, <3>3 DEF McpInv, McpTypeOK
      <3> QED BY <2>3, <3>2, <3>4 DEF McpInv
    <2> QED BY <2>4, <2>5
  <1> QED BY <1>6, <1>7
LEMMA TerminateStep ==
  ASSUME McpInv, terminate PROVE McpInv'
  <1>1. buffer' = buffer /\ UNCHANGED <<id_counter, call, results, serving, answered>>
        /\ stage' = "closed" /\ alive' = FALSE
        /\ to_child' = <<>> /\ writing' = <<>> /\ from_child' = <<>>
    BY DEF terminate
  <1>2. buffer \in Seq(Unit) /\ \A S : <<>> \in Seq(S)
    BY DEF McpInv, McpTypeOK
  <1>3. Stream' = buffer
    BY <1>1, <1>2 DEF Stream
  <1>4. Linked(buffer) /\ Given(buffer, answered)
    BY <1>2, StreamPieces, Suffix, GivenParts DEF McpInv, StreamInv, Stream
  <1>5. StreamInv'
    BY <1>1, <1>3, <1>4 DEF McpInv, StreamInv
  <1>6. McpTypeOK'
    BY <1>1, <1>2 DEF McpInv, McpTypeOK
  <1>7. CallsInv' /\ StartInv'
    BY <1>1 DEF McpInv, CallsInv, StartInv
  <1> QED BY <1>5, <1>6, <1>7 DEF McpInv
-----------------------------------------------------------------------------
LEMMA ChildReadsStep ==
  ASSUME McpInv, ChildReads PROVE McpInv'
  <1>1. Head(to_child) \in 1 .. id_counter /\ Tail(to_child) \in Seq(1 .. id_counter)
    BY DEF McpInv, McpTypeOK, ChildReads
  <1>2. McpTypeOK'
    BY <1>1 DEF McpInv, McpTypeOK, ChildReads, clientVars
  <1>3. CallsInv' /\ StartInv'
    BY DEF McpInv, CallsInv, StartInv, ChildReads, clientVars
  <1>4. StreamInv'
    BY StreamSame DEF McpInv, ChildReads, clientVars
  <1> QED BY <1>2, <1>3, <1>4 DEF McpInv

\* The child begins a line of its own behind what it has written.
LEMMA LineBegun ==
  ASSUME McpInv, alive, writing = <<>>, NEW line \in Seq(Unit), NEW answers,
         Linked(line), EndsLine(line), line # <<>>, Given(line, answers), answered \subseteq answers,
         writing' = line, answered' = answers, UNCHANGED <<clientVars, alive, from_child>>
  PROVE  StreamInv' /\ CallsInv' /\ StartInv' /\ writing' \in Seq(Unit)
  <1> DEFINE before == buffer \o from_child
  <1>1. buffer \in Seq(Unit) /\ from_child \in Seq(Unit) /\ before \in Seq(Unit)
    BY DEF McpInv, McpTypeOK
  <1>2. Stream = before
    BY <1>1 DEF Stream
  <1>3. Stream' = before \o line
    BY <1>1 DEF Stream, clientVars
  <1>4. Linked(before) /\ Given(before, answered) /\ EndsLine(before)
    BY <1>2 DEF McpInv, StreamInv
  <1>5. before = <<>> \/ Follows(before[Len(before)], line[1])
    BY <1>4 DEF EndsLine, Follows
  <1> HIDE DEF before
  <1>6. Linked(before \o line)
    BY <1>1, <1>4, <1>5, Joined
  <1>7. EndsLine(before \o line)
    BY <1>1, EndsLineParts
  <1>8. Given(before, answers)
    BY <1>4 DEF Given
  <1>9. Given(before \o line, answers)
    BY <1>1, <1>8, GivenParts
  <1>10. StreamInv'
    BY <1>3, <1>6, <1>7, <1>9 DEF McpInv, StreamInv, clientVars
  <1>11. CallsInv' /\ StartInv'
    BY DEF McpInv, CallsInv, StartInv, clientVars
  <1> QED BY <1>10, <1>11

LEMMA ChildAnswersStep ==
  ASSUME McpInv, ChildAnswers PROVE McpInv'
  <1>1. PICK n \in serving \ answered :
          writing' \in AnswerLines(n) /\ answered' = answered \cup {n}
    BY DEF ChildAnswers
  <1>2. n \in Nat /\ n # Nobody
    BY McpAssumption DEF McpInv, McpTypeOK, Nobody
  <1>3. writing' = <<IdUnit(n), Text(n), End(n)>> \/ writing' = <<Text(n), IdUnit(n), End(n)>>
    BY <1>1 DEF AnswerLines
  <1>4. /\ IdUnit(n) \in Unit /\ Text(n) \in Unit /\ End(n) \in Unit
        /\ IdUnit(n).of = n /\ Text(n).of = n /\ End(n).of = n /\ End(n).kind = "end"
    BY <1>2 DEF IdUnit, Text, End, Unit
  <1>5. writing' \in Seq(Unit) /\ Len(writing') = 3 /\ writing' # <<>>
        /\ writing'[3].kind = "end" /\ \A p \in 1 .. 3 : writing'[p].of = n
    <2>1. /\ writing' \in Seq(Unit) /\ Len(writing') = 3 /\ writing' # <<>>
          /\ writing'[3] = End(n)
          /\ writing'[1].of = n /\ writing'[2].of = n
      <3>1. CASE writing' = <<IdUnit(n), Text(n), End(n)>>
        BY <1>4, <3>1
      <3>2. CASE writing' = <<Text(n), IdUnit(n), End(n)>>
        BY <1>4, <3>2
      <3> QED BY <1>3, <3>1, <3>2
    <2>2. \A p \in 1 .. 3 : p = 1 \/ p = 2 \/ p = 3
      OBVIOUS
    <2> QED BY <1>4, <2>1, <2>2
  <1>6. Linked(writing')
    BY <1>5 DEF Linked, Follows
  <1>7. EndsLine(writing') /\ Given(writing', answered')
    BY <1>1, <1>5 DEF EndsLine, Given
  <1>8. StreamInv' /\ CallsInv' /\ StartInv'
    BY <1>1, <1>5, <1>6, <1>7, LineBegun DEF ChildAnswers
  <1>9. McpTypeOK'
    BY <1>1, <1>5 DEF McpInv, McpTypeOK, ChildAnswers, clientVars
  <1> QED BY <1>8, <1>9 DEF McpInv

LEMMA ChildRequestsStep ==
  ASSUME McpInv, ChildRequests PROVE McpInv'
  <1>1. PICK n \in ChildIds : writing' = <<IdUnit(n), End(Nobody)>>
    BY DEF ChildRequests
  <1>2. IdUnit(n) \in Unit /\ End(Nobody) \in Unit
        /\ End(Nobody).of = Nobody /\ End(Nobody).kind = "end" /\ IdUnit(n).kind = "id"
    BY McpAssumption DEF IdUnit, End, Unit, Nobody
  <1>3. writing' \in Seq(Unit) /\ Len(writing') = 2 /\ writing' # <<>>
        /\ writing'[1] = IdUnit(n) /\ writing'[2] = End(Nobody)
    BY <1>1, <1>2
  <1>4. Linked(writing') /\ EndsLine(writing') /\ Given(writing', answered)
    BY <1>2, <1>3 DEF Linked, EndsLine, Given, Follows
  <1>5. StreamInv' /\ CallsInv' /\ StartInv'
    BY <1>3, <1>4, LineBegun DEF ChildRequests
  <1>6. McpTypeOK'
    BY <1>3 DEF McpInv, McpTypeOK, ChildRequests, clientVars
  <1> QED BY <1>5, <1>6 DEF McpInv

LEMMA ChildDiesStep ==
  ASSUME McpInv, ChildDies PROVE McpInv'
  <1>1. UNCHANGED <<clientVars, serving, answered, from_child>>
        /\ alive' = FALSE /\ to_child' = <<>> /\ writing' = <<>>
    BY DEF ChildDies
  <1> DEFINE before == buffer \o from_child
  <1>2. /\ buffer \in Seq(Unit) /\ from_child \in Seq(Unit) /\ writing \in Seq(Unit)
        /\ before \in Seq(Unit)
    BY DEF McpInv, McpTypeOK
  <1>3. Stream = before \o writing /\ Stream' = before
    BY <1>1, <1>2 DEF Stream, clientVars
  <1>4. Linked(before) /\ Given(before, answered)
    BY <1>2, <1>3, Suffix, GivenParts DEF McpInv, StreamInv
  <1>5. StreamInv'
    BY <1>1, <1>3, <1>4 DEF McpInv, StreamInv, clientVars
  <1>6. \A S : <<>> \in Seq(S)
    OBVIOUS
  <1>7. McpTypeOK'
    BY <1>1, <1>6 DEF McpInv, McpTypeOK, clientVars
  <1>8. CallsInv' /\ StartInv'
    BY <1>1 DEF McpInv, CallsInv, StartInv, clientVars
  <1> QED BY <1>5, <1>7, <1>8 DEF McpInv
LEMMA Associative ==
  ASSUME NEW r \in Seq(Unit), NEW s \in Seq(Unit), NEW t \in Seq(Unit)
  PROVE  (r \o s) \o t = r \o (s \o t) /\ s \o t \in Seq(Unit)
  OBVIOUS

\* The pipe takes the next unit of the line.
LEMMA ChildWritesStep ==
  ASSUME McpInv, ChildWrites PROVE McpInv'
  <1> DEFINE u == Head(writing)
  <1>1. /\ from_child' = Append(from_child, u) /\ writing' = Tail(writing)
        /\ UNCHANGED <<clientVars, alive, to_child, serving, answered>>
    BY DEF ChildWrites
  <1>2. /\ buffer \in Seq(Unit) /\ from_child \in Seq(Unit) /\ writing \in Seq(Unit)
        /\ Len(writing) > 0 /\ u \in Unit
        /\ from_child' \in Seq(Unit) /\ writing' \in Seq(Unit)
    BY <1>1 DEF McpInv, McpTypeOK, ChildWrites
  <1>3. from_child' \o writing' = from_child \o writing
    BY <1>1, <1>2
  <1>4. Stream' = Stream
    BY <1>1, <1>3 DEF Stream, clientVars
  <1>5. StreamInv'
    BY <1>1, <1>4 DEF McpInv, StreamInv, clientVars
  <1>6. McpTypeOK'
    BY <1>1, <1>2 DEF McpInv, McpTypeOK, clientVars
  <1>7. CallsInv' /\ StartInv'
    BY <1>1 DEF McpInv, CallsInv, StartInv, clientVars, ChildWrites
  <1> QED BY <1>5, <1>6, <1>7 DEF McpInv

\* The log falls in between, also into an answer.
LEMMA ChildLogsStep ==
  ASSUME McpInv, ChildLogs PROVE McpInv'
  <1> DEFINE before == buffer \o from_child
  <1>1. from_child' = from_child \o LogLine
        /\ UNCHANGED <<clientVars, alive, to_child, serving, answered, writing>>
    BY DEF ChildLogs
  <1>2. LogLine \in Seq(Unit) /\ Len(LogLine) = 2 /\ LogLine # <<>>
        /\ LogLine[1] = Text(Nobody) /\ LogLine[2] = End(Nobody)
    BY DEF LogLine, Text, End, Unit, Nobody
  <1>3. /\ Text(Nobody).of = Nobody /\ End(Nobody).of = Nobody /\ End(Nobody).kind = "end"
    BY DEF Text, End
  <1>4. Linked(LogLine) /\ EndsLine(LogLine)
    BY <1>2, <1>3 DEF Linked, EndsLine, Follows
  <1>5. Given(LogLine, answered)
    BY <1>2, <1>3 DEF Given
  <1>6. /\ buffer \in Seq(Unit) /\ from_child \in Seq(Unit) /\ writing \in Seq(Unit)
        /\ before \in Seq(Unit)
    BY DEF McpInv, McpTypeOK
  <1>7. Stream = before \o writing /\ Stream' = (before \o LogLine) \o writing
        /\ from_child' \in Seq(Unit)
    <2>1. from_child' \in Seq(Unit)
      BY <1>1, <1>2, <1>6
    <2>2. Stream = before \o writing
      BY <1>6 DEF Stream
    <2>3. Stream' = buffer \o ((from_child \o LogLine) \o writing)
      BY <1>1 DEF Stream, clientVars
    <2>4. (from_child \o LogLine) \o writing = from_child \o (LogLine \o writing)
      BY <1>2, <1>6, Associative
    <2>5. buffer \o (from_child \o (LogLine \o writing)) = before \o (LogLine \o writing)
      <3>1. PICK behind \in Seq(Unit) : behind = LogLine \o writing
        BY <1>2, <1>6, Associative
      <3>2. before \o behind = buffer \o (from_child \o behind)
        BY <1>6, Associative
      <3> QED BY <3>1, <3>2
    <2>6. before \o (LogLine \o writing) = (before \o LogLine) \o writing
      BY <1>2, <1>6, Associative
    <2> QED BY <2>1, <2>2, <2>3, <2>4, <2>5, <2>6
  <1>8. Linked(before) /\ Linked(writing) /\ Given(before, answered) /\ Given(writing, answered)
    BY <1>6, <1>7, Suffix, GivenParts DEF McpInv, StreamInv
  <1> HIDE DEF before
  <1>9. Linked(before \o LogLine)
    BY <1>2, <1>3, <1>4, <1>6, <1>8, Joined DEF Follows
  <1> DEFINE logged == before \o LogLine
  <1>10. logged \in Seq(Unit) /\ EndsLine(logged) /\ Given(logged, answered) /\ logged # <<>>
    BY <1>2, <1>4, <1>5, <1>6, <1>8, EndsLineParts, GivenParts
  <1>11. Linked(logged)
    BY <1>9
  <1> HIDE DEF logged
  <1>12. Follows(logged[Len(logged)], writing[1])
    BY <1>10 DEF EndsLine, Follows
  <1>13. Linked(logged \o writing) /\ Given(logged \o writing, answered)
    BY <1>6, <1>8, <1>10, <1>11, <1>12, Joined, GivenParts
  <1>14. EndsLine(logged \o writing)
    <2>1. writing # <<>> => EndsLine(writing)
      BY <1>6, <1>7, EndsLineParts DEF McpInv, StreamInv, ChildLogs
    <2> QED BY <1>6, <1>10, <2>1, EndsLineParts
  <1>15. StreamInv'
    BY <1>1, <1>7, <1>13, <1>14 DEF McpInv, StreamInv, clientVars, logged
  <1>16. McpTypeOK'
    BY <1>1, <1>7 DEF McpInv, McpTypeOK, clientVars
  <1>17. CallsInv' /\ StartInv'
    BY <1>1 DEF McpInv, CallsInv, StartInv, clientVars, ChildLogs
  <1> QED BY <1>15, <1>16, <1>17 DEF McpInv

LEMMA Step ==
  ASSUME McpInv, [Next]_vars PROVE McpInv'
  <1>1. CASE UNCHANGED vars
    <2>1. McpTypeOK' /\ CallsInv' /\ StartInv'
      BY <1>1 DEF McpInv, McpTypeOK, CallsInv, StartInv, vars, clientVars, childVars
    <2>2. StreamInv'
      BY <1>1, StreamSame DEF McpInv, vars, clientVars, childVars
    <2> QED BY <2>1, <2>2 DEF McpInv
  <1>2. ASSUME SendFails \/ Timeout PROVE McpInv'
    <2>1. call # NoCall /\ Return(<<>>) /\ UNCHANGED childVars
      BY <1>2 DEF SendFails, Timeout, NoCall
    <2> QED BY <2>1, NothingReturned
  <1> QED BY <1>1, <1>2, SpawnStep, RequestStep, SendStep, ReadStep, TerminateStep, ChildReadsStep,
             ChildAnswersStep, ChildRequestsStep, ChildWritesStep, ChildLogsStep, ChildDiesStep
          DEF Next, Client, Child

\* The invariant of the stream between the child and the client, for any bound on
\* calls and pipes.
THEOREM Streams == Spec => []McpInv
  BY Initial, Step, PTL DEF Spec
-----------------------------------------------------------------------------
(***************************************************************************)
(* Every step of the client and the child is a step of ToolCalls, or       *)
(* changes nothing that it speaks of.                                      *)
(***************************************************************************)
LEMMA CallsInitial == Init => Calls!Init
  <1> SUFFICES ASSUME Init PROVE Calls!Init
    OBVIOUS
  <1>1. id_counter = 0 /\ call.id = 0 /\ answered = {} /\ Len(results) = 0
    BY DEF Init, NoCall
  <1>2. Outcome = [n \in 1 .. MaxCalls |-> "pending"]
    BY <1>1 DEF Outcome, Ids
  <1> QED BY <1>1, <1>2 DEF Calls!Init

\* A return is one with the answer the child has given, or with nothing.
LEMMA CallsReturn ==
  ASSUME McpInv, call # NoCall, NEW line \in Seq(Unit), Return(line),
         Texts(line) \in {{}, {call.id}}, Texts(line) \subseteq answered,
         answered' = answered
  PROVE  Calls!Next
  <1> DEFINE how == IF Texts(line) = {} THEN "nothing" ELSE "answer"
  <1>1. results' = Append(results, Texts(line)) /\ call' = NoCall /\ id_counter' = id_counter
    BY DEF Return, Texts
  <1>2. call.id = id_counter /\ id_counter \in Nat /\ id_counter >= 1 /\ id_counter <= MaxCalls
        /\ Len(results) = id_counter - 1 /\ results \in Seq(SUBSET Nat)
    BY McpAssumption DEF McpInv, McpTypeOK, CallsInv
  <1>3. Texts(line) \in SUBSET Nat
    BY <1>2
  <1>4. /\ Len(results') = id_counter
        /\ \A n \in 1 .. id_counter - 1 : results'[n] = results[n]
        /\ results'[id_counter] = Texts(line)
    BY <1>1, <1>2, <1>3
  <1>5. Outcome' = [Outcome EXCEPT ![call.id] = how]
    <2>1. ASSUME NEW n \in Ids PROVE Outcome'[n] = IF n = call.id THEN how ELSE Outcome[n]
      <3>1. n \in Nat /\ n >= 1
        BY <2>1, McpAssumption DEF Ids
      <3>2. CASE n = id_counter
        BY <1>2, <1>4, <3>1, <3>2 DEF Outcome
      <3>3. CASE n < id_counter
        BY <1>2, <1>4, <3>1, <3>3 DEF Outcome
      <3>4. CASE n > id_counter
        BY <1>2, <1>4, <3>1, <3>4 DEF Outcome
      <3> QED BY <1>2, <3>1, <3>2, <3>3, <3>4
    <2>2. call.id \in Ids
      BY <1>2, McpAssumption DEF Ids
    <2> QED BY <2>1, <2>2 DEF Outcome
  <1>6. how \in {"answer", "nothing"} /\ (how = "answer" => call.id \in answered)
    OBVIOUS
  <1>7. call'.id = 0 /\ call.id # 0
    BY <1>1, <1>2 DEF NoCall
  <1>8. Calls!Return(how)
    BY <1>1, <1>5, <1>6, <1>7 DEF Calls!Return
  <1> QED BY <1>6, <1>8 DEF Calls!Next

LEMMA CallsStep ==
  ASSUME McpInv, [Next]_vars PROVE [Calls!Next]_(Calls!vars)
  <1>1. ASSUME UNCHANGED <<id_counter, call, answered, results>> PROVE UNCHANGED Calls!vars
    BY <1>1 DEF Calls!vars, Outcome
  <1>2. CASE UNCHANGED vars
    BY <1>1, <1>2 DEF vars, clientVars, childVars
  <1>3. ASSUME Spawn \/ terminate \/ Child, ~ ChildAnswers PROVE UNCHANGED Calls!vars
    BY <1>1, <1>3 DEF Spawn, terminate, Child, ChildReads, ChildRequests, ChildWrites, ChildLogs,
                      ChildDies, clientVars
  <1>4. ASSUME build_request PROVE Calls!Next
    <2>1. /\ id_counter < MaxCalls /\ id_counter' = id_counter + 1 /\ call = NoCall
          /\ call'.id = id_counter' /\ answered' = answered /\ results' = results
      BY <1>4 DEF build_request, childVars
    <2>2. Outcome' = Outcome
      BY <2>1 DEF Outcome
    <2> QED BY <2>1, <2>2 DEF Calls!Next, Calls!Call, NoCall
  <1>5. ASSUME send_request PROVE UNCHANGED Calls!vars
    <2>1. call'.id = call.id
      BY <1>5 DEF send_request, McpInv, McpTypeOK
    <2> QED BY <1>5, <2>1 DEF send_request, Calls!vars, Outcome
  <1>6. ASSUME SendFails \/ Timeout PROVE Calls!Next
    <2>1. call # NoCall /\ Return(<<>>) /\ answered' = answered /\ <<>> \in Seq(Unit)
      BY <1>6 DEF SendFails, Timeout, NoCall, childVars
    <2> QED BY <2>1, EmptyTexts, CallsReturn
  <1>7. ASSUME ReadUnit PROVE [Calls!Next]_(Calls!vars)
    <2> DEFINE line == Append(buffer, Head(from_child))
    <2>1. line \in Seq(Unit) /\ Uniform(line) /\ Given(line, answered)
      BY <1>7, NextUnit DEF ReadUnit
    <2>2. call # NoCall /\ answered' = answered
      BY <1>7 DEF ReadUnit, NoCall
    <2>3. CASE Head(from_child).kind = "end" /\ validate_response(line, call.id)
      <3>1. Return(line)
        BY <1>7, <2>3 DEF ReadUnit
      <3>2. Texts(line) \in {{}, {call.id}} /\ Texts(line) \subseteq answered
        BY <2>1, <2>2, <2>3, OwnAnswer
      <3> QED BY <2>1, <2>2, <3>1, <3>2, CallsReturn
    <2>4. CASE ~ (Head(from_child).kind = "end" /\ validate_response(line, call.id))
      <3>1. UNCHANGED <<id_counter, call, answered, results>>
        BY <1>7, <2>4 DEF ReadUnit
      <3> QED BY <1>1, <3>1
    <2> QED BY <2>3, <2>4
  <1>8. ASSUME ChildAnswers PROVE Calls!Next
    <2>1. PICK n \in serving \ answered : answered' = answered \cup {n}
      BY <1>8 DEF ChildAnswers
    <2>2. UNCHANGED <<id_counter, call, results>>
      BY <1>8 DEF ChildAnswers, clientVars
    <2>3. Outcome' = Outcome
      BY <2>2 DEF Outcome
    <2>4. n \in 1 .. id_counter /\ n \in 1 .. MaxCalls
      BY <2>1, McpAssumption DEF McpInv, McpTypeOK
    <2>5. Calls!Answer(n)
      BY <2>1, <2>2, <2>3, <2>4 DEF Calls!Answer
    <2> QED BY <2>4, <2>5 DEF Calls!Next
  <1> QED BY <1>2, <1>3, <1>4, <1>5, <1>6, <1>7, <1>8 DEF Next, Client

\* The client implements ToolCalls: whatever is late, lost, interleaved or cut off, a
\* call returns its own answer or nothing.
THEOREM Implements == Spec => ImplementsToolCalls
  <1>1. Init => Calls!Init
    BY CallsInitial
  <1>2. McpInv /\ [Next]_vars => [Calls!Next]_(Calls!vars)
    BY CallsStep
  <1> QED BY <1>1, <1>2, Streams, PTL DEF Spec, ImplementsToolCalls, Calls!Spec

(***************************************************************************)
(* No answer is lost on the way to a call that waits for it: the number    *)
(* and the end of the answer lie in front of the client until it has read  *)
(* the line that the call returns with.                                    *)
(***************************************************************************)
Ahead(s, n) ==
  \E p, q \in 1 .. Len(s) : p < q /\ s[p] = IdUnit(n) /\ s[q] = End(n)

\* Behind a unit of nobody the line has no unit of somebody.
Trailing(s) ==
  \A p, q \in 1 .. Len(s) : p < q /\ s[p].of = Nobody => s[q].of = Nobody

\* The answers that will still come: of a child that died those it has written.
Coming == IF alive THEN answered ELSE written

AnswersInv ==
  /\ written \subseteq answered
  /\ call.at = "send" => /\ call.id \notin serving
                         /\ \A i \in 1 .. Len(to_child) : to_child[i] # call.id
  /\ \A p \in 1 .. Len(writing) : writing[p].kind = "end" =>
       p = Len(writing) /\ writing[p].of \in {Nobody} \cup (answered \ written)
  /\ Trailing(buffer)
  /\ call.at = "read" /\ call.id \in Coming => Ahead(Stream, call.id)
-----------------------------------------------------------------------------
LEMMA AheadWider ==
  ASSUME NEW r \in Seq(Unit), NEW s \in Seq(Unit), NEW n
  PROVE  (Ahead(r, n) \/ Ahead(s, n)) => Ahead(r \o s, n)
  <1>1. ASSUME Ahead(r, n) PROVE Ahead(r \o s, n)
    <2>1. PICK p, q \in 1 .. Len(r) : p < q /\ r[p] = IdUnit(n) /\ r[q] = End(n)
      BY <1>1 DEF Ahead
    <2>2. /\ p \in 1 .. Len(r \o s) /\ q \in 1 .. Len(r \o s)
          /\ (r \o s)[p] = r[p] /\ (r \o s)[q] = r[q]
      BY <2>1
    <2> QED BY <2>1, <2>2 DEF Ahead
  <1>2. ASSUME Ahead(s, n) PROVE Ahead(r \o s, n)
    <2>1. PICK p, q \in 1 .. Len(s) : p < q /\ s[p] = IdUnit(n) /\ s[q] = End(n)
      BY <1>2 DEF Ahead
    <2>2. /\ Len(r) + p \in 1 .. Len(r \o s) /\ Len(r) + q \in 1 .. Len(r \o s)
          /\ (r \o s)[Len(r) + p] = s[p] /\ (r \o s)[Len(r) + q] = s[q]
          /\ Len(r) + p < Len(r) + q
      BY <2>1
    <2> QED BY <2>1, <2>2 DEF Ahead
  <1> QED BY <1>1, <1>2

\* Something falls in between.
LEMMA AheadInserted ==
  ASSUME NEW r \in Seq(Unit), NEW m \in Seq(Unit), NEW s \in Seq(Unit), NEW n, Ahead(r \o s, n)
  PROVE  Ahead((r \o m) \o s, n)
  <1> DEFINE long == (r \o m) \o s
             at(p) == IF p <= Len(r) THEN p ELSE p + Len(m)
  <1>1. PICK p, q \in 1 .. Len(r \o s) :
          p < q /\ (r \o s)[p] = IdUnit(n) /\ (r \o s)[q] = End(n)
    BY DEF Ahead
  <1>2. ASSUME NEW k \in 1 .. Len(r \o s)
        PROVE  at(k) \in 1 .. Len(long) /\ long[at(k)] = (r \o s)[k]
    <2>1. CASE k <= Len(r)
      BY <2>1
    <2>2. CASE k > Len(r)
      BY <2>2
    <2> QED BY <2>1, <2>2
  <1>3. at(p) < at(q)
    BY <1>1
  <1>4. at(p) \in 1 .. Len(long) /\ at(q) \in 1 .. Len(long)
        /\ long[at(p)] = IdUnit(n) /\ long[at(q)] = End(n)
    BY <1>1, <1>2
  <1> QED BY <1>3, <1>4 DEF Ahead

\* The number is not in what is taken off the front.
LEMMA AheadBehind ==
  ASSUME NEW r \in Seq(Unit), NEW s \in Seq(Unit), NEW n, Ahead(r \o s, n),
         \A p \in 1 .. Len(r) : r[p] # IdUnit(n)
  PROVE  Ahead(s, n)
  <1>1. PICK p, q \in 1 .. Len(r \o s) :
          p < q /\ (r \o s)[p] = IdUnit(n) /\ (r \o s)[q] = End(n)
    BY DEF Ahead
  <1>2. p > Len(r)
    <2>1. p <= Len(r) => (r \o s)[p] = r[p] /\ p \in 1 .. Len(r)
      OBVIOUS
    <2> QED BY <1>1, <2>1
  <1>3. /\ p - Len(r) \in 1 .. Len(s) /\ q - Len(r) \in 1 .. Len(s)
        /\ p - Len(r) < q - Len(r)
        /\ s[p - Len(r)] = IdUnit(n) /\ s[q - Len(r)] = End(n)
    BY <1>1, <1>2
  <1> QED BY <1>3 DEF Ahead

\* The end of the answer is not in what is cut off the back.
LEMMA AheadBefore ==
  ASSUME NEW r \in Seq(Unit), NEW s \in Seq(Unit), NEW n, Ahead(r \o s, n),
         \A p \in 1 .. Len(s) : s[p] # End(n)
  PROVE  Ahead(r, n)
  <1>1. PICK p, q \in 1 .. Len(r \o s) :
          p < q /\ (r \o s)[p] = IdUnit(n) /\ (r \o s)[q] = End(n)
    BY DEF Ahead
  <1>2. q <= Len(r)
    <2>1. q > Len(r) => (r \o s)[q] = s[q - Len(r)] /\ q - Len(r) \in 1 .. Len(s)
      OBVIOUS
    <2> QED BY <1>1, <2>1
  <1>3. p \in 1 .. Len(r) /\ q \in 1 .. Len(r) /\ r[p] = IdUnit(n) /\ r[q] = End(n)
    BY <1>1, <1>2
  <1> QED BY <1>1, <1>3 DEF Ahead

\* A line that is rejected does not hold the number of the call.
LEMMA RejectedLine ==
  ASSUME NEW line \in Seq(Unit), NEW n \in Nat \ {Nobody}, Uniform(line), Trailing(line),
         ~ validate_response(line, n)
  PROVE  \A p \in 1 .. Len(line) : line[p] # IdUnit(n)
  <1> SUFFICES ASSUME NEW p \in 1 .. Len(line), line[p] = IdUnit(n) PROVE FALSE
    OBVIOUS
  <1> DEFINE ids == {q \in 1 .. Len(line) : line[q].kind = "id"}
  <1>1. line[p].kind = "id" /\ line[p].of = n /\ p \in ids
    BY DEF IdUnit
  <1>2. PICK m \in ids : \A q \in ids : m <= q
    <2>1. ids \in SUBSET Nat /\ ids # {}
      BY <1>1
    <2> QED BY <2>1, LeastExists
  <1>3. line[m].of = n
    <2>1. m \in 1 .. Len(line) /\ m <= p
      BY <1>1, <1>2
    <2>2. line[m].of # Nobody
      <3>1. CASE m = p
        BY <1>1, <3>1
      <3>2. CASE m < p
        BY <1>1, <2>1, <3>2 DEF Trailing
      <3> QED BY <2>1, <3>1, <3>2
    <2> QED BY <1>1, <2>1, <2>2 DEF Uniform
  <1>4. line[m] = IdUnit(n)
    <2>1. line[m] \in Unit /\ line[m].kind = "id"
      BY <1>2
    <2> QED BY <1>3, <2>1 DEF Unit, IdUnit
  <1>5. \A q \in 1 .. m - 1 : line[q].kind # "id"
    <2> SUFFICES ASSUME NEW q \in 1 .. m - 1, line[q].kind = "id" PROVE FALSE
      OBVIOUS
    <2>1. q \in ids /\ ~ (m <= q)
      BY <1>2
    <2> QED BY <1>2, <2>1
  <1> QED BY <1>2, <1>4, <1>5 DEF validate_response
-----------------------------------------------------------------------------
LEMMA AnswersInitial == Init => AnswersInv
  <1> SUFFICES ASSUME Init PROVE AnswersInv
    OBVIOUS
  <1>1. call.at = "returned" /\ buffer = <<>> /\ writing = <<>> /\ written = {}
    BY DEF Init, NoCall
  <1> QED BY <1>1 DEF AnswersInv, Trailing

\* Steps that leave the stream alone and begin no read.
LEMMA AnswersSame ==
  ASSUME AnswersInv, call'.at = "read" => call' = call,
         UNCHANGED <<alive, buffer, writing, from_child, answered, written>>,
         call'.at = "send" => /\ call'.id \notin serving'
                              /\ \A i \in 1 .. Len(to_child') : to_child'[i] # call'.id
  PROVE  AnswersInv'
  <1>1. Stream' = Stream /\ Coming' = Coming
    BY DEF Stream, Coming
  <1>2. call'.at = "read" /\ call'.id \in Coming' => Ahead(Stream', call'.id)
    BY <1>1 DEF AnswersInv
  <1>3. Trailing(buffer')
    BY DEF AnswersInv
  <1> QED BY <1>2, <1>3 DEF AnswersInv

\* A call that has returned waits for nothing.
LEMMA AnswersReturned ==
  ASSUME AnswersInv, call' = NoCall, Trailing(buffer'),
         UNCHANGED <<answered, written>>, writing' \in {writing, <<>>}
  PROVE  AnswersInv'
  <1>1. call'.at = "returned"
    BY DEF NoCall
  <1>2. \A p \in 1 .. Len(writing') : writing'[p].kind = "end" =>
          p = Len(writing') /\ writing'[p].of \in {Nobody} \cup (answered' \ written')
    BY DEF AnswersInv
  <1> QED BY <1>1, <1>2 DEF AnswersInv

LEMMA AnswersRequest ==
  ASSUME McpInv, AnswersInv, build_request PROVE AnswersInv'
  <1>1. call' = [id |-> id_counter + 1, at |-> "send"] /\ id_counter \in Nat
        /\ UNCHANGED <<buffer, childVars>>
    BY McpAssumption DEF build_request, McpInv, McpTypeOK
  <1>2. call'.id \notin serving /\ \A i \in 1 .. Len(to_child) : to_child[i] # call'.id
    BY <1>1 DEF McpInv, McpTypeOK
  <1> QED BY <1>1, <1>2, AnswersSame DEF childVars

LEMMA AnswersSend ==
  ASSUME McpInv, AnswersInv, send_request PROVE AnswersInv'
  <1>1. /\ call.at = "send" /\ call'.id = call.id /\ call'.at = "read"
        /\ UNCHANGED <<buffer, alive, serving, answered, writing, from_child, written>>
    BY DEF send_request, McpInv, McpTypeOK
  <1>2. call.id \notin answered
    BY <1>1 DEF AnswersInv, McpInv, McpTypeOK
  <1>3. call'.id \notin Coming'
    BY <1>1, <1>2 DEF AnswersInv, Coming
  <1>4. Trailing(buffer')
    BY <1>1 DEF AnswersInv
  <1> QED BY <1>1, <1>3, <1>4 DEF AnswersInv

\* A unit of the pipe joins the line read so far, or the line is dropped with all that
\* was in it.
LEMMA AnswersRead ==
  ASSUME McpInv, AnswersInv, ReadUnit PROVE AnswersInv'
  <1> DEFINE u == Head(from_child)
             line == Append(buffer, u)
             rest == Tail(from_child) \o writing
  <1>1. /\ u \in Unit /\ line \in Seq(Unit) /\ rest \in Seq(Unit)
        /\ Stream = line \o rest /\ Uniform(line)
    BY NextUnit DEF ReadUnit
  <1>2. /\ from_child' = Tail(from_child) /\ call # NoCall /\ call.at = "read"
        /\ UNCHANGED <<alive, answered, writing, written>>
    BY DEF ReadUnit, NoCall
  <1>3. Linked(line)
    BY <1>1, Suffix DEF McpInv, StreamInv
  <1>4. /\ buffer \in Seq(Unit) /\ Len(line) = Len(buffer) + 1 /\ line[Len(line)] = u
        /\ \A p \in 1 .. Len(buffer) : line[p] = buffer[p] /\ buffer[p].kind # "end"
    BY <1>1 DEF McpInv, McpTypeOK, StreamInv
  <1>5. ASSUME NEW p \in 1 .. Len(buffer), buffer[p].of = Nobody PROVE u.of = Nobody
    <2>1. Len(buffer) \in 1 .. Len(buffer) /\ p <= Len(buffer)
      BY <1>4
    <2>2. buffer[Len(buffer)].of = Nobody
      <3>1. CASE p = Len(buffer)
        BY <1>5, <3>1
      <3>2. CASE p < Len(buffer)
        BY <1>5, <2>1, <3>2 DEF AnswersInv, Trailing
      <3> QED BY <1>4, <2>1, <3>1, <3>2
    <2>3. Follows(buffer[Len(buffer)], u)
      BY <1>3, <1>4, <2>1 DEF Linked
    <2> QED BY <1>4, <2>1, <2>2, <2>3 DEF Follows
  <1>6. Trailing(line)
    <2> SUFFICES ASSUME NEW p \in 1 .. Len(line), NEW q \in 1 .. Len(line),
                        p < q, line[p].of = Nobody
                 PROVE  line[q].of = Nobody
      BY DEF Trailing
    <2>1. p \in 1 .. Len(buffer) /\ buffer[p].of = Nobody
      BY <1>4
    <2>2. CASE q = Len(line)
      BY <1>4, <1>5, <2>1, <2>2
    <2>3. CASE q # Len(line)
      <3>1. q \in 1 .. Len(buffer)
        BY <1>4, <2>3
      <3> QED BY <1>4, <2>1, <3>1 DEF AnswersInv, Trailing
    <2> QED BY <2>2, <2>3
  <1>7. call.id \in Nat \ {Nobody}
    BY <1>2, McpAssumption DEF McpInv, McpTypeOK, CallsInv, Nobody
  <1>8. Coming' = Coming
    BY <1>2 DEF Coming
  <1>9. Trailing(<<>>)
    BY DEF Trailing
  <1>10. CASE u.kind # "end"
    <2>1. buffer' = line /\ call' = call
      BY <1>10 DEF ReadUnit
    <2>2. Stream' = Stream
      BY <1>1, <1>2, <2>1 DEF Stream
    <2> QED BY <1>2, <1>6, <1>8, <2>1, <2>2 DEF AnswersInv
  <1>11. CASE u.kind = "end" /\ validate_response(line, call.id)
    <2>1. buffer' = <<>> /\ call' = NoCall
      BY <1>11 DEF ReadUnit, Return
    <2> QED BY <1>2, <1>9, <2>1, AnswersReturned
  <1>12. CASE u.kind = "end" /\ ~ validate_response(line, call.id)
    <2>1. buffer' = <<>> /\ call' = call
      BY <1>12 DEF ReadUnit, DropLine
    <2>2. Stream' = rest
      BY <1>1, <1>2, <2>1 DEF Stream
    <2>3. \A p \in 1 .. Len(line) : line[p] # IdUnit(call.id)
      BY <1>1, <1>6, <1>7, <1>12, RejectedLine
    <2>4. Ahead(Stream, call.id) => Ahead(rest, call.id)
      BY <1>1, <2>3, AheadBehind
    <2> QED BY <1>2, <1>8, <1>9, <2>1, <2>2, <2>4 DEF AnswersInv
  <1> QED BY <1>10, <1>11, <1>12
-----------------------------------------------------------------------------
\* The request the child reads is not one that is still to be sent.
LEMMA AnswersChildReads ==
  ASSUME McpInv, AnswersInv, ChildReads PROVE AnswersInv'
  <1>1. /\ serving' = serving \cup {Head(to_child)} /\ to_child' = Tail(to_child)
        /\ call' = call /\ UNCHANGED <<alive, buffer, writing, from_child, answered, written>>
    BY DEF ChildReads, clientVars
  <1>2. to_child \in Seq(1 .. id_counter) /\ to_child # <<>>
    BY DEF ChildReads, McpInv, McpTypeOK
  <1>3. Head(to_child) = to_child[1] /\ 1 \in 1 .. Len(to_child)
        /\ Len(to_child') = Len(to_child) - 1
        /\ \A i \in 1 .. Len(to_child') : to_child'[i] = to_child[i + 1]
    BY <1>1, <1>2
  <1>4. ASSUME call.at = "send"
        PROVE  call.id \notin serving' /\ \A i \in 1 .. Len(to_child') : to_child'[i] # call.id
    <2>1. call.id \notin serving /\ \A i \in 1 .. Len(to_child) : to_child[i] # call.id
      BY <1>4 DEF AnswersInv
    <2>2. \A i \in 1 .. Len(to_child') : i + 1 \in 1 .. Len(to_child)
      BY <1>2, <1>3
    <2> QED BY <1>1, <1>3, <2>1, <2>2
  <1> QED BY <1>1, <1>4, AnswersSame

\* Where the stream ends while no line is being written.
LEMMA StreamOpen ==
  ASSUME McpInv
  PROVE  /\ buffer \o from_child \in Seq(Unit) /\ writing \in Seq(Unit)
         /\ Stream = (buffer \o from_child) \o writing
  BY DEF McpInv, McpTypeOK, Stream

\* What is not about the stream when the child begins a line.
LEMMA LineBegins ==
  ASSUME McpInv, AnswersInv, McpInv', alive, writing = <<>>,
         UNCHANGED <<clientVars, alive, to_child, serving, from_child, written>>,
         answered \subseteq answered',
         \A p \in 1 .. Len(writing') : writing'[p].kind = "end" =>
           p = Len(writing') /\ writing'[p].of \in {Nobody} \cup (answered' \ written'),
         call.at = "read" /\ call.id \in answered' =>
           call.id \in answered \/ Ahead(writing', call.id)
  PROVE  AnswersInv'
  <1> DEFINE before == buffer \o from_child
  <1>1. /\ before \in Seq(Unit) /\ writing' \in Seq(Unit)
        /\ Stream = before \o writing /\ Stream' = before \o writing'
    <2>1. McpTypeOK' /\ buffer' = buffer /\ from_child' = from_child
      BY DEF McpInv, clientVars
    <2>2. writing' \in Seq(Unit)
      BY <2>1 DEF McpTypeOK
    <2>3. Stream' = buffer \o (from_child \o writing')
      BY <2>1 DEF Stream
    <2>4. buffer \in Seq(Unit) /\ from_child \in Seq(Unit)
      BY DEF McpInv, McpTypeOK
    <2>5. Stream' = before \o writing'
      BY <2>2, <2>3, <2>4, Associative
    <2> QED BY <2>2, <2>5, StreamOpen
  <1>2. Stream = before
    BY <1>1
  <1>3. call' = call /\ Coming = answered /\ Coming' = answered' /\ buffer' = buffer
    BY DEF Coming, clientVars
  <1>4. call'.at = "read" /\ call'.id \in Coming' => Ahead(Stream', call'.id)
    <2> SUFFICES ASSUME call.at = "read", call.id \in answered' PROVE Ahead(before \o writing', call.id)
      BY <1>1, <1>3
    <2>1. Ahead(before, call.id) \/ Ahead(writing', call.id)
      BY <1>2, <1>3 DEF AnswersInv
    <2> QED BY <1>1, <2>1, AheadWider
  <1>5. Trailing(buffer')
    BY <1>3 DEF AnswersInv
  <1>6. written' \subseteq answered'
    BY DEF AnswersInv
  <1> QED BY <1>3, <1>4, <1>5, <1>6 DEF AnswersInv

LEMMA AnswersChildAnswers ==
  ASSUME McpInv, AnswersInv, McpInv', ChildAnswers PROVE AnswersInv'
  <1>1. PICK n \in serving \ answered : writing' \in AnswerLines(n) /\ answered' = answered \cup {n}
    BY DEF ChildAnswers
  <1>2. /\ Len(writing') = 3 /\ writing'[3] = End(n)
        /\ (writing'[1] = IdUnit(n) /\ writing'[2] = Text(n))
           \/ (writing'[1] = Text(n) /\ writing'[2] = IdUnit(n))
    BY <1>1 DEF AnswerLines
  <1>3. IdUnit(n).kind = "id" /\ Text(n).kind = "text" /\ End(n).of = n
    BY DEF IdUnit, Text, End
  <1>4. UNCHANGED <<clientVars, alive, to_child, serving, from_child, written>>
        /\ alive /\ writing = <<>>
    BY DEF ChildAnswers
  <1>5. n \notin written'
    BY <1>1, <1>4 DEF AnswersInv
  <1>6. ASSUME NEW p \in 1 .. Len(writing'), writing'[p].kind = "end"
        PROVE  p = Len(writing') /\ writing'[p].of \in {Nobody} \cup (answered' \ written')
    <2>1. p = 3
      BY <1>2, <1>3, <1>6
    <2> QED BY <1>1, <1>2, <1>3, <1>5, <2>1
  <1>7. Ahead(writing', n)
    <2>1. 1 \in 1 .. Len(writing') /\ 2 \in 1 .. Len(writing') /\ 3 \in 1 .. Len(writing')
      BY <1>2
    <2> QED BY <1>2, <2>1 DEF Ahead
  <1>8. call.id \in answered' => call.id \in answered \/ Ahead(writing', call.id)
    BY <1>1, <1>7
  <1> QED BY <1>1, <1>4, <1>6, <1>8, LineBegins

LEMMA AnswersChildRequests ==
  ASSUME McpInv, AnswersInv, McpInv', ChildRequests PROVE AnswersInv'
  <1>1. PICK n \in ChildIds : writing' = <<IdUnit(n), End(Nobody)>>
    BY DEF ChildRequests
  <1>2. UNCHANGED <<clientVars, alive, to_child, serving, from_child, written, answered>>
        /\ alive /\ writing = <<>>
    BY DEF ChildRequests
  <1>3. ASSUME NEW p \in 1 .. Len(writing'), writing'[p].kind = "end"
        PROVE  p = Len(writing') /\ writing'[p].of \in {Nobody} \cup (answered' \ written')
    <2>1. Len(writing') = 2 /\ writing'[1].kind = "id" /\ writing'[2].of = Nobody
      BY <1>1 DEF IdUnit, End
    <2> QED BY <1>3, <2>1
  <1> QED BY <1>2, <1>3, LineBegins

LEMMA AnswersChildWrites ==
  ASSUME McpInv, AnswersInv, McpInv', ChildWrites PROVE AnswersInv'
  <1> DEFINE u == Head(writing)
  <1>1. /\ from_child' = Append(from_child, u) /\ writing' = Tail(writing)
        /\ written' = written \cup {n \in Ids : u = End(n)} /\ alive
        /\ UNCHANGED <<clientVars, alive, to_child, serving, answered>>
    BY DEF ChildWrites
  <1>2. /\ from_child \in Seq(Unit) /\ writing \in Seq(Unit) /\ Len(writing) > 0
        /\ u = writing[1] /\ u \in Unit
        /\ from_child' \in Seq(Unit) /\ writing' \in Seq(Unit)
    BY <1>1 DEF McpInv, McpTypeOK, ChildWrites
  <1>3. Stream' = Stream /\ Coming' = Coming /\ call' = call /\ buffer' = buffer
    <2>1. from_child' \o writing' = from_child \o writing
      BY <1>1, <1>2
    <2> QED BY <1>1, <2>1 DEF Stream, Coming, clientVars
  <1>4. ASSUME NEW n \in Ids, u = End(n) PROVE Len(writing) = 1 /\ n \in answered
    <2>1. u.kind = "end" /\ u.of = n
      BY <1>4 DEF End
    <2>2. n # Nobody
      BY McpAssumption DEF Ids, Nobody
    <2>3. 1 \in 1 .. Len(writing) /\ writing[1].kind = "end" /\ writing[1].of = n
      BY <1>2, <2>1
    <2> QED BY <2>2, <2>3 DEF AnswersInv
  <1>5. written' \subseteq answered'
    BY <1>1, <1>4 DEF AnswersInv
  <1>6. ASSUME NEW p \in 1 .. Len(writing'), writing'[p].kind = "end"
        PROVE  p = Len(writing') /\ writing'[p].of \in {Nobody} \cup (answered' \ written')
    <2>1. Len(writing') = Len(writing) - 1 /\ writing'[p] = writing[p + 1]
          /\ p + 1 \in 1 .. Len(writing)
      BY <1>1, <1>2
    <2>2. Len(writing) # 1
      BY <2>1
    <2>3. written' = written
      BY <1>1, <1>4, <2>2
    <2>4. p + 1 = Len(writing) /\ writing[p + 1].of \in {Nobody} \cup (answered \ written)
      BY <1>6, <2>1 DEF AnswersInv
    <2> QED BY <1>1, <2>1, <2>3, <2>4
  <1>7. Trailing(buffer')
    BY <1>3 DEF AnswersInv
  <1>8. call'.at = "send" => /\ call'.id \notin serving'
                             /\ \A i \in 1 .. Len(to_child') : to_child'[i] # call'.id
    BY <1>1, <1>3 DEF AnswersInv
  <1> QED BY <1>3, <1>5, <1>6, <1>7, <1>8 DEF AnswersInv

LEMMA AnswersChildLogs ==
  ASSUME McpInv, AnswersInv, ChildLogs PROVE AnswersInv'
  <1> DEFINE before == buffer \o from_child
  <1>1. from_child' = from_child \o LogLine
        /\ UNCHANGED <<clientVars, alive, to_child, serving, answered, writing, written>>
    BY DEF ChildLogs
  <1>2. LogLine \in Seq(Unit)
    BY DEF LogLine, Text, End, Unit, Nobody
  <1>3. /\ buffer \in Seq(Unit) /\ from_child \in Seq(Unit) /\ writing \in Seq(Unit)
        /\ before \in Seq(Unit)
    BY DEF McpInv, McpTypeOK
  <1>4. Stream = before \o writing
    BY StreamOpen
  <1>5. Stream' = (before \o LogLine) \o writing
    <2>1. Stream' = buffer \o ((from_child \o LogLine) \o writing)
      BY <1>1 DEF Stream, clientVars
    <2>2. (from_child \o LogLine) \o writing = from_child \o (LogLine \o writing)
      BY <1>2, <1>3, Associative
    <2>3. buffer \o (from_child \o (LogLine \o writing)) = before \o (LogLine \o writing)
      <3>1. PICK behind \in Seq(Unit) : behind = LogLine \o writing
        BY <1>2, <1>3, Associative
      <3>2. before \o behind = buffer \o (from_child \o behind)
        BY <1>3, Associative
      <3> QED BY <3>1, <3>2
    <2>4. before \o (LogLine \o writing) = (before \o LogLine) \o writing
      BY <1>2, <1>3, Associative
    <2> QED BY <2>1, <2>2, <2>3, <2>4
  <1>6. call' = call /\ buffer' = buffer /\ Coming' = Coming
    BY <1>1 DEF clientVars, Coming
  <1>7. call'.at = "read" /\ call'.id \in Coming' => Ahead(Stream', call'.id)
    <2> SUFFICES ASSUME call.at = "read", call.id \in Coming
                 PROVE  Ahead((before \o LogLine) \o writing, call.id)
      BY <1>5, <1>6
    <2>1. Ahead(before \o writing, call.id)
      BY <1>4 DEF AnswersInv
    <2> QED BY <1>2, <1>3, <2>1, AheadInserted
  <1>8. Trailing(buffer')
    BY <1>6 DEF AnswersInv
  <1> QED BY <1>1, <1>6, <1>7, <1>8 DEF AnswersInv

\* A line the child does not finish was of an answer it has not written.
LEMMA AnswersChildDies ==
  ASSUME McpInv, AnswersInv, ChildDies PROVE AnswersInv'
  <1> DEFINE before == buffer \o from_child
  <1>1. UNCHANGED <<clientVars, serving, answered, from_child, written>>
        /\ alive /\ alive' = FALSE /\ to_child' = <<>> /\ writing' = <<>>
    BY DEF ChildDies
  <1>2. before \in Seq(Unit) /\ writing \in Seq(Unit) /\ Stream = before \o writing
    BY StreamOpen
  <1>3. Stream' = before
    <2>1. Stream' = buffer \o (from_child \o <<>>)
      BY <1>1 DEF Stream, clientVars
    <2>2. from_child \o <<>> = from_child
      BY DEF McpInv, McpTypeOK
    <2> QED BY <2>1, <2>2
  <1>4. call' = call /\ buffer' = buffer /\ Coming' = written /\ Coming = answered
    BY <1>1 DEF clientVars, Coming
  <1>5. call'.at = "read" /\ call'.id \in Coming' => Ahead(Stream', call'.id)
    <2> SUFFICES ASSUME call.at = "read", call.id \in written PROVE Ahead(before, call.id)
      BY <1>3, <1>4
    <2>1. Ahead(before \o writing, call.id)
      BY <1>2, <1>4 DEF AnswersInv
    <2>2. call.id # Nobody
      <3>1. call # NoCall
        BY DEF NoCall
      <3> QED BY <3>1, McpAssumption DEF McpInv, McpTypeOK, CallsInv, Nobody
    <2>3. \A p \in 1 .. Len(writing) : writing[p] # End(call.id)
      <3> SUFFICES ASSUME NEW p \in 1 .. Len(writing), writing[p] = End(call.id) PROVE FALSE
        OBVIOUS
      <3>1. writing[p].kind = "end" /\ writing[p].of = call.id
        BY DEF End
      <3> QED BY <2>2, <3>1 DEF AnswersInv
    <2> QED BY <1>2, <2>1, <2>3, AheadBefore
  <1>6. Trailing(buffer')
    BY <1>4 DEF AnswersInv
  <1>7. call'.at = "send" => call'.id \notin serving'
    BY <1>1, <1>4 DEF AnswersInv
  <1> QED BY <1>1, <1>5, <1>6, <1>7 DEF AnswersInv
-----------------------------------------------------------------------------
LEMMA AnswersStep ==
  ASSUME McpInv, AnswersInv, [Next]_vars PROVE AnswersInv'
  <1>0. McpInv'
    BY Step
  <1>1. CASE UNCHANGED vars
    BY <1>1, AnswersSame DEF vars, clientVars, childVars, AnswersInv
  <1>2. ASSUME Spawn PROVE AnswersInv'
    <2>1. call = NoCall /\ call' = call /\ UNCHANGED <<buffer, answered, written, writing>>
      BY <1>2 DEF Spawn, McpInv, StartInv
    <2>2. Trailing(buffer')
      BY <2>1 DEF AnswersInv
    <2> QED BY <2>1, <2>2, AnswersReturned
  <1>3. ASSUME SendFails \/ Timeout PROVE AnswersInv'
    <2>1. call' = NoCall /\ buffer' = <<>> /\ UNCHANGED <<answered, written, writing>>
      BY <1>3 DEF SendFails, Timeout, Return, childVars
    <2>2. Trailing(buffer')
      BY <2>1 DEF Trailing
    <2> QED BY <2>1, <2>2, AnswersReturned
  <1>4. ASSUME terminate PROVE AnswersInv'
    <2>1. call' = NoCall /\ writing' = <<>> /\ UNCHANGED <<buffer, answered, written>>
      BY <1>4 DEF terminate
    <2>2. Trailing(buffer')
      BY <2>1 DEF AnswersInv
    <2> QED BY <2>1, <2>2, AnswersReturned
  <1> QED BY <1>0, <1>1, <1>2, <1>3, <1>4, AnswersRequest, AnswersSend, AnswersRead,
             AnswersChildReads, AnswersChildAnswers, AnswersChildRequests, AnswersChildWrites,
             AnswersChildLogs, AnswersChildDies
          DEF Next, Client, Child

\* The end of an answer that was written is neither in the line read so far, which has
\* no end, nor in what the child is still writing.
LEMMA InThePipe ==
  ASSUME McpInv, AnswersInv PROVE AnswerStillAhead
  <1> SUFFICES ASSUME call.at = "read", call.id \in written
               PROVE  End(call.id) \in ToSet(from_child)
    BY DEF AnswerStillAhead
  <1>1. /\ buffer \in Seq(Unit) /\ from_child \in Seq(Unit) /\ writing \in Seq(Unit)
        /\ Stream = buffer \o (from_child \o writing)
    BY DEF McpInv, McpTypeOK, Stream
  <1>2. Ahead(Stream, call.id)
    BY DEF AnswersInv, Coming
  <1>3. PICK q \in 1 .. Len(Stream) : Stream[q] = End(call.id)
    BY <1>2 DEF Ahead
  <1>4. End(call.id).kind = "end" /\ End(call.id).of = call.id
    BY DEF End
  <1>5. call.id # Nobody
    <2>1. call # NoCall
      BY DEF NoCall
    <2> QED BY <2>1, McpAssumption DEF McpInv, McpTypeOK, CallsInv, Nobody
  <1>6. q > Len(buffer)
    <2>1. q <= Len(buffer) => q \in 1 .. Len(buffer) /\ Stream[q] = buffer[q]
      BY <1>1
    <2>2. \A p \in 1 .. Len(buffer) : buffer[p].kind # "end"
      BY DEF McpInv, StreamInv
    <2>3. Len(buffer) \in Nat /\ q \in Int
      BY <1>1
    <2> QED BY <1>3, <1>4, <2>1, <2>2, <2>3
  <1>7. q <= Len(buffer) + Len(from_child)
    <2> DEFINE p == q - (Len(buffer) + Len(from_child))
    <2>1. p >= 1 => p \in 1 .. Len(writing) /\ Stream[q] = writing[p]
      BY <1>1
    <2>2. p >= 1 => FALSE
      BY <1>3, <1>4, <1>5, <2>1 DEF AnswersInv
    <2>3. Len(buffer) \in Nat /\ Len(from_child) \in Nat /\ q \in Int
      BY <1>1
    <2> QED BY <2>2, <2>3
  <1>8. q - Len(buffer) \in 1 .. Len(from_child) /\ from_child[q - Len(buffer)] = End(call.id)
    BY <1>1, <1>3, <1>6, <1>7
  <1> QED BY <1>1, <1>8 DEF ToSet

\* For any number of calls and any size of the pipes, an answer that was written is still
\* ahead of the call that waits for it.
THEOREM AnswersKept == Spec => []AnswerStillAhead
  <1>1. Spec => []AnswersInv
    BY AnswersInitial, AnswersStep, Streams, PTL DEF Spec
  <1> QED BY <1>1, InThePipe, Streams, PTL
=============================================================================

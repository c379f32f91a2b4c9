------------------------- MODULE DeviceQueuesProofs -------------------------
(***************************************************************************)
(* The device queues for any number of layers and of chunks: whatever      *)
(* order the barriers allow, a forward pass computes the logits of the     *)
(* reference.  The argument has two halves that meet in Safe:              *)
(*                                                                         *)
(*  - The queues (QueueInv): as long as the host keeps to the discipline   *)
(*    Legal, there is a way W to run the groups of the batch one after the *)
(*    other that explains what memory is wanted.                           *)
(*  - The host (Safe): every call that forward_logits makes is Legal, and  *)
(*    the memory that is wanted is the reference's.                        *)
(***************************************************************************)
EXTENDS DeviceQueues, QueueProofs

-----------------------------------------------------------------------------
(***************************************************************************)
(* Sequences of calls, of groups and of copies, whatever they hold.        *)
(***************************************************************************)
IsSeq(s) == \E S : s \in Seq(S)

LEMMA SeqLen ==
  ASSUME NEW s, IsSeq(s)
  PROVE  /\ Len(s) \in Nat /\ DOMAIN s = 1 .. Len(s)
         /\ s = <<>> <=> Len(s) = 0
         /\ s = [i \in 1 .. Len(s) |-> s[i]]
  <1>1. PICK S : s \in Seq(S)
    BY DEF IsSeq
  <1> QED BY <1>1, LenProperties, EmptySeq

LEMMA SeqTail ==
  ASSUME NEW s, IsSeq(s), s # <<>>
  PROVE  /\ IsSeq(Tail(s)) /\ Len(Tail(s)) = Len(s) - 1 /\ Head(s) = s[1]
         /\ \A i \in 1 .. Len(s) - 1 : Tail(s)[i] = s[i + 1]
  <1>1. PICK S : s \in Seq(S)
    BY DEF IsSeq
  <1>2. Tail(s) \in Seq(S) /\ Len(Tail(s)) = Len(s) - 1
    BY <1>1, HeadTailProperties
  <1>3. \A i \in 1 .. Len(s) - 1 : Tail(s)[i] = s[i + 1]
    BY <1>1, <1>2, HeadTailProperties
  <1> QED BY <1>1, <1>2, <1>3 DEF IsSeq

LEMMA SeqMade ==
  ASSUME NEW s, NEW n \in Nat, s = [i \in 1 .. n |-> s[i]]
  PROVE  IsSeq(s) /\ Len(s) = n
  <1> DEFINE S == {s[i] : i \in 1 .. n}
  <1>1. s \in [1 .. n -> S]
    OBVIOUS
  <1>2. s \in Seq(S)
    BY <1>1, SeqDef
  <1>3. Len(s) = n
    BY <1>1, <1>2, LenProperties
  <1> QED BY <1>2, <1>3 DEF IsSeq

LEMMA SeqAppend ==
  ASSUME NEW s, IsSeq(s), NEW x
  PROVE  /\ IsSeq(Append(s, x)) /\ Len(Append(s, x)) = Len(s) + 1
         /\ (\A i \in 1 .. Len(s) : Append(s, x)[i] = s[i]) /\ Append(s, x)[Len(s) + 1] = x
         /\ Append(s, x) # <<>>
  <1>1. PICK S : s \in Seq(S)
    BY DEF IsSeq
  <1> DEFINE T == S \cup {x}
  <1>2. s \in Seq(T) /\ x \in T
    BY <1>1
  <1> HIDE DEF T
  <1>3. Append(s, x) \in Seq(T) /\ Len(Append(s, x)) = Len(s) + 1
        /\ (\A i \in 1 .. Len(s) : Append(s, x)[i] = s[i]) /\ Append(s, x)[Len(s) + 1] = x
    BY <1>2, AppendProperties
  <1>4. Append(s, x) # <<>>
    BY <1>2, <1>3, LenProperties, EmptySeq
  <1> QED BY <1>3, <1>4 DEF IsSeq

LEMMA SeqConcat ==
  ASSUME NEW s, NEW t, IsSeq(s), IsSeq(t)
  PROVE  \E S : s \in Seq(S) /\ t \in Seq(S) /\ s \o t \in Seq(S)
  <1>1. PICK S, T : s \in Seq(S) /\ t \in Seq(T)
    BY DEF IsSeq
  <1> DEFINE U == S \cup T
  <1>2. s \in Seq(U) /\ t \in Seq(U)
    BY <1>1
  <1> HIDE DEF U
  <1> QED BY <1>2, ConcatProperties

LEMMA SeqExcept ==
  ASSUME NEW s, IsSeq(s), NEW k \in 1 .. Len(s), NEW x
  PROVE  LET t == [s EXCEPT ![k] = x]
         IN  /\ IsSeq(t) /\ Len(t) = Len(s) /\ t[k] = x
             /\ \A i \in 1 .. Len(s) : i # k => t[i] = s[i]
  <1> DEFINE t == [s EXCEPT ![k] = x]
  <1>1. Len(s) \in Nat /\ DOMAIN s = 1 .. Len(s) /\ s = [i \in 1 .. Len(s) |-> s[i]]
    BY SeqLen
  <1>2. /\ t = [i \in 1 .. Len(s) |-> t[i]] /\ t[k] = x
        /\ \A i \in 1 .. Len(s) : i # k => t[i] = s[i]
    BY <1>1
  <1> HIDE DEF t
  <1>3. IsSeq(t) /\ Len(t) = Len(s)
    BY <1>1, <1>2, SeqMade
  <1> QED BY <1>2, <1>3 DEF t

-----------------------------------------------------------------------------
(***************************************************************************)
(* Memory.  What a dispatch computes depends on the regions it is declared *)
(* to touch, and it changes only those it is declared to write.            *)
(***************************************************************************)
IsMem(c) == c = [r \in Regions |-> c[r]]

With(c, x, v) == [r \in Regions |-> IF r = x THEN v ELSE c[r]]

Touches(d) == d.reads \cup d.writes

Local(d) ==
  /\ \A c : IsMem(c) => /\ IsMem(Computed(d, c))
                        /\ \A r \in Regions \ d.writes : Computed(d, c)[r] = c[r]
  /\ \A b, c : IsMem(b) /\ IsMem(c) /\ (\A r \in Touches(d) : b[r] = c[r]) =>
       \A r \in d.writes : Computed(d, b)[r] = Computed(d, c)[r]

LEMMA WithIs ==
  ASSUME NEW c, NEW x, NEW v
  PROVE  /\ IsMem(With(c, x, v))
         /\ \A r \in Regions : With(c, x, v)[r] = IF r = x THEN v ELSE c[r]
         /\ IsMem(c) => [c EXCEPT ![x] = v] = With(c, x, v)
  BY DEF IsMem, With

LEMMA SameMem ==
  ASSUME NEW b, NEW c, IsMem(b), IsMem(c), \A r \in Regions : b[r] = c[r]
  PROVE  b = c
  BY DEF IsMem

LEMMA LocalKeeps ==
  ASSUME NEW d, Local(d), NEW c, IsMem(c)
  PROVE  /\ IsMem(Computed(d, c))
         /\ \A r \in Regions \ d.writes : Computed(d, c)[r] = c[r]
  BY DEF Local

LEMMA LocalSame ==
  ASSUME NEW d, Local(d), NEW b, NEW c, IsMem(b), IsMem(c), \A r \in Touches(d) : b[r] = c[r]
  PROVE  \A r \in d.writes : Computed(d, b)[r] = Computed(d, c)[r]
  BY DEF Local

-----------------------------------------------------------------------------
(***************************************************************************)
(* What is queued.  A group is independent when none of its dispatches     *)
(* writes what another one touches.  W explains the batch: W[i] is the     *)
(* memory when the groups up to i have run, each dispatch of a group from  *)
(* the memory in front of the group, in which it finds what it expects.    *)
(***************************************************************************)
Within(groups, S) == \A i \in 1 .. Len(groups) : \A d \in groups[i] : Touches(d.cmd) \subseteq S

GroupsOK(groups) ==
  \A i \in 1 .. Len(groups) :
    /\ \A d \in groups[i] : Local(d.cmd) /\ Touches(d.cmd) \subseteq Regions /\ d.cmd.writes # {}
    /\ \A d, e \in groups[i] : d # e => d.cmd.writes \cap Touches(e.cmd) = {}

GroupStep(group, b, c) ==
  /\ \A r \in Regions : (\A d \in group : r \notin d.cmd.writes) => c[r] = b[r]
  /\ \A d \in group : \A r \in d.cmd.writes : c[r] = Computed(d.cmd, b)[r]
  /\ \A d \in group : \A r \in d.cmd.reads : d.expects[r] = b[r]

Explains(W, groups, from, to) ==
  /\ W = [i \in 0 .. Len(groups) |-> W[i]]
  /\ \A i \in 0 .. Len(groups) : IsMem(W[i])
  /\ W[0] = from /\ W[Len(groups)] = to
  /\ \A i \in 1 .. Len(groups) : GroupStep(groups[i], W[i - 1], W[i])

Explained(groups, from, to) == \E W : Explains(W, groups, from, to)

\* Nothing queued: memory is as it is wanted.
LEMMA ExplainNothing ==
  ASSUME NEW c, IsMem(c)
  PROVE  Explained(<<>>, c, c)
  <1> DEFINE W == [i \in 0 .. 0 |-> c]
  <1>1. Len(<<>>) = 0
    OBVIOUS
  <1>2. Explains(W, <<>>, c, c)
    BY <1>1 DEF Explains
  <1> QED BY <1>2 DEF Explained

LEMMA NothingExplains ==
  ASSUME NEW b, NEW c, Explained(<<>>, b, c)
  PROVE  b = c
  <1>1. Len(<<>>) = 0
    OBVIOUS
  <1> QED BY <1>1 DEF Explained, Explains

LEMMA EmptyGroupExplains ==
  ASSUME NEW b, NEW c, Explained(<<{}>>, b, c), IsMem(b)
  PROVE  b = c
  <1>1. PICK W : Explains(W, <<{}>>, b, c)
    BY DEF Explained
  <1>2. Len(<<{}>>) = 1 /\ <<{}>>[1] = {}
    OBVIOUS
  <1>3. IsMem(W[1]) /\ W[1] = c /\ W[0] = b /\ GroupStep({}, W[0], W[1])
    BY <1>1, <1>2 DEF Explains
  <1>4. \A r \in Regions : b[r] = c[r]
    BY <1>3 DEF GroupStep
  <1> QED BY <1>3, <1>4, SameMem

\* A barrier opens an empty group.
LEMMA ExplainBarrier ==
  ASSUME NEW groups, IsSeq(groups), NEW b, NEW c, Explained(groups, b, c)
  PROVE  Explained(Append(groups, {}), b, c)
  <1>1. PICK W : Explains(W, groups, b, c)
    BY DEF Explained
  <1> DEFINE n == Len(groups)
             more == Append(groups, {})
             X == [i \in 0 .. n + 1 |-> IF i = n + 1 THEN c ELSE W[i]]
  <1>2. n \in Nat
    BY SeqLen
  <1>3. Len(more) = n + 1 /\ (\A i \in 1 .. n : more[i] = groups[i]) /\ more[n + 1] = {}
    BY SeqAppend
  <1> HIDE DEF more
  <1>4. /\ W[0] = b /\ W[n] = c /\ \A i \in 0 .. n : IsMem(W[i])
        /\ \A i \in 1 .. n : GroupStep(groups[i], W[i - 1], W[i])
    BY <1>1 DEF Explains
  <1> HIDE DEF n
  <1>5. X[0] = b /\ X[n + 1] = c /\ X[n] = c /\ \A i \in 0 .. n : X[i] = W[i]
    BY <1>2, <1>4
  <1>6. \A i \in 0 .. n + 1 : IsMem(X[i])
    BY <1>2, <1>4, <1>5
  <1>7. X = [i \in 0 .. n + 1 |-> X[i]]
    OBVIOUS
  <1> HIDE DEF X
  <1>8. ASSUME NEW i \in 1 .. n + 1 PROVE GroupStep(more[i], X[i - 1], X[i])
    <2>1. CASE i = n + 1
      <3>1. X[i - 1] = c /\ X[i] = c /\ more[i] = {}
        BY <1>2, <1>3, <1>5, <2>1
      <3> QED BY <3>1 DEF GroupStep
    <2>2. CASE i # n + 1
      <3>1. i \in 1 .. n /\ i - 1 \in 0 .. n /\ i \in 0 .. n
        BY <1>2, <2>2
      <3>2. X[i - 1] = W[i - 1] /\ X[i] = W[i] /\ more[i] = groups[i]
        BY <1>3, <1>5, <3>1
      <3> QED BY <1>4, <3>1, <3>2
    <2> QED BY <2>1, <2>2
  <1>9. Explains(X, more, b, c)
    BY <1>3, <1>5, <1>6, <1>7, <1>8 DEF Explains
  <1> QED BY <1>9 DEF Explained, more

\* A dispatch that is independent of the last group joins it: it expects and
\* computes from what is wanted so far.
LEMMA ExplainPut ==
  ASSUME NEW groups, IsSeq(groups), groups # <<>>, GroupsOK(groups),
         NEW b, NEW c, Explained(groups, b, c),
         NEW d, Local(d.cmd), Touches(d.cmd) \subseteq Regions,
         \A e \in groups[Len(groups)] : /\ e.cmd.writes \cap Touches(d.cmd) = {}
                                        /\ d.cmd.writes \cap Touches(e.cmd) = {},
         \A r \in d.cmd.reads : d.expects[r] = c[r]
  PROVE  Explained([groups EXCEPT ![Len(groups)] = @ \cup {d}], b, Computed(d.cmd, c))
  <1>1. PICK W : Explains(W, groups, b, c)
    BY DEF Explained
  <1> DEFINE n == Len(groups)
             put == [groups EXCEPT ![n] = @ \cup {d}]
             X == [i \in 0 .. n |-> IF i = n THEN Computed(d.cmd, c) ELSE W[i]]
  <1>2. n \in Nat /\ n # 0 /\ n \in 1 .. n
    BY SeqLen
  <1>3. /\ Len(put) = n /\ put[n] = groups[n] \cup {d}
        /\ \A i \in 1 .. n : i # n => put[i] = groups[i]
    BY <1>2, SeqExcept
  <1>4. /\ W[0] = b /\ W[n] = c /\ \A i \in 0 .. n : IsMem(W[i])
        /\ \A i \in 1 .. n : GroupStep(groups[i], W[i - 1], W[i])
    BY <1>1 DEF Explains
  <1>5. /\ \A e \in groups[n] : /\ e.cmd.writes \cap Touches(d.cmd) = {}
                                /\ d.cmd.writes \cap Touches(e.cmd) = {}
                                /\ Local(e.cmd) /\ Touches(e.cmd) \subseteq Regions
    BY <1>2 DEF GroupsOK
  <1> HIDE DEF n, put
  <1>6. X = [i \in 0 .. n |-> X[i]] /\ X[n] = Computed(d.cmd, c)
          /\ \A i \in 0 .. n : i # n => X[i] = W[i]
    BY <1>2
  <1> HIDE DEF X
  <1>7. IsMem(c) /\ IsMem(W[n - 1]) /\ X[n - 1] = W[n - 1] /\ X[0] = b
    BY <1>2, <1>4, <1>6
  <1>8. IsMem(Computed(d.cmd, c)) /\ \A r \in Regions \ d.cmd.writes : Computed(d.cmd, c)[r] = c[r]
    BY <1>7, LocalKeeps
  <1>9. GroupStep(put[n], W[n - 1], Computed(d.cmd, c))
    <2>1. GroupStep(groups[n], W[n - 1], c)
      BY <1>2, <1>4
    <2>2. \A r \in Touches(d.cmd) : W[n - 1][r] = c[r]
      <3>1. SUFFICES ASSUME NEW r \in Touches(d.cmd) PROVE W[n - 1][r] = c[r]
        OBVIOUS
      <3>2. \A e \in groups[n] : r \notin e.cmd.writes
        BY <1>5, <3>1
      <3> QED BY <2>1, <3>2 DEF GroupStep
    <2>3. \A r \in d.cmd.writes : Computed(d.cmd, c)[r] = Computed(d.cmd, W[n - 1])[r]
      BY <1>7, <2>2, LocalSame
    <2>4. \A r \in d.cmd.reads : d.expects[r] = W[n - 1][r]
      BY <2>2 DEF Touches
    <2>5. ASSUME NEW e \in groups[n], NEW r \in e.cmd.writes
          PROVE  Computed(d.cmd, c)[r] = Computed(e.cmd, W[n - 1])[r]
      <3>1. r \in Regions \ d.cmd.writes
        BY <1>5, <2>5 DEF Touches
      <3>2. c[r] = Computed(e.cmd, W[n - 1])[r]
        BY <2>1 DEF GroupStep
      <3> QED BY <1>8, <3>1, <3>2
    <2>6. ASSUME NEW r \in Regions, \A e \in put[n] : r \notin e.cmd.writes
          PROVE  Computed(d.cmd, c)[r] = W[n - 1][r]
      <3>1. r \notin d.cmd.writes /\ \A e \in groups[n] : r \notin e.cmd.writes
        BY <1>3, <2>6
      <3>2. c[r] = W[n - 1][r]
        BY <2>1, <3>1 DEF GroupStep
      <3> QED BY <1>8, <3>1, <3>2
    <2>7. \A e \in groups[n] : \A r \in e.cmd.reads : e.expects[r] = W[n - 1][r]
      BY <2>1 DEF GroupStep
    <2> QED BY <1>3, <2>3, <2>4, <2>5, <2>6, <2>7 DEF GroupStep
  <1>10. ASSUME NEW i \in 1 .. n PROVE GroupStep(put[i], X[i - 1], X[i])
    <2>1. CASE i = n
      BY <1>6, <1>7, <1>9, <2>1
    <2>2. CASE i # n
      <3>1. i - 1 \in 0 .. n /\ i - 1 # n /\ i \in 0 .. n
        BY <1>2, <2>2
      <3> QED BY <1>3, <1>4, <1>6, <2>2, <3>1
    <2> QED BY <2>1, <2>2
  <1>11. \A i \in 0 .. n : IsMem(X[i])
    BY <1>4, <1>6, <1>8
  <1>12. Explains(X, put, b, Computed(d.cmd, c))
    BY <1>2, <1>3, <1>6, <1>7, <1>10, <1>11 DEF Explains
  <1> QED BY <1>12 DEF Explained, put, n

\* The queue after it has run d of the first group.
Ran(groups, d) == IF groups[1] = {d} THEN Tail(groups) ELSE [groups EXCEPT ![1] = @ \ {d}]

\* Running any dispatch of the first group leaves the rest explained.
LEMMA ExplainRun ==
  ASSUME NEW groups, IsSeq(groups), groups # <<>>, GroupsOK(groups),
         NEW b, NEW c, Explained(groups, b, c), NEW d \in groups[1]
  PROVE  Explained(Ran(groups, d), Computed(d.cmd, b), c)
  <1>1. PICK W : Explains(W, groups, b, c)
    BY DEF Explained
  <1> DEFINE n == Len(groups)
             a == Computed(d.cmd, b)
  <1>2. n \in Nat /\ n # 0 /\ 1 \in 1 .. n
    BY SeqLen
  <1>3. /\ W[0] = b /\ W[n] = c /\ \A i \in 0 .. n : IsMem(W[i])
        /\ \A i \in 1 .. n : GroupStep(groups[i], W[i - 1], W[i])
    BY <1>1 DEF Explains
  <1>4. /\ Local(d.cmd) /\ d.cmd.writes \subseteq Regions
        /\ \A e \in groups[1] : /\ Local(e.cmd) /\ Touches(e.cmd) \subseteq Regions
                                /\ e # d => d.cmd.writes \cap Touches(e.cmd) = {}
                                            /\ e.cmd.writes \cap Touches(d.cmd) = {}
    BY <1>2 DEF GroupsOK, Touches
  <1>5. IsMem(b) /\ IsMem(a) /\ \A r \in Regions \ d.cmd.writes : a[r] = b[r]
    <2>1. IsMem(b)
      BY <1>2, <1>3
    <2> QED BY <1>4, <2>1, LocalKeeps
  <1>6. GroupStep(groups[1], b, W[1])
    BY <1>2, <1>3
  <1> HIDE DEF n, a
  <1>7. CASE groups[1] = {d}
    <2>1. W[1] = a
      <3>1. ASSUME NEW r \in Regions PROVE W[1][r] = a[r]
        <4>1. CASE r \in d.cmd.writes
          BY <1>6, <1>7, <4>1 DEF GroupStep, a
        <4>2. CASE r \notin d.cmd.writes
          BY <1>5, <1>6, <1>7, <4>2 DEF GroupStep
        <4> QED BY <4>1, <4>2
      <3>2. IsMem(W[1])
        BY <1>2, <1>3
      <3> QED BY <1>5, <3>1, <3>2, SameMem
    <2> DEFINE rest == Tail(groups)
               X == [i \in 0 .. n - 1 |-> W[i + 1]]
    <2>2. Len(rest) = n - 1 /\ \A i \in 1 .. n - 1 : rest[i] = groups[i + 1]
      BY SeqTail DEF n
    <2>3. rest = Ran(groups, d)
      BY <1>7 DEF Ran
    <2> HIDE DEF rest
    <2>4. n - 1 \in Nat /\ X[0] = a /\ X[n - 1] = c /\ \A i \in 0 .. n - 1 : IsMem(X[i])
      BY <1>2, <1>3, <2>1
    <2>5. ASSUME NEW i \in 1 .. n - 1 PROVE GroupStep(rest[i], X[i - 1], X[i])
      <3>1. i + 1 \in 1 .. n /\ (i + 1) - 1 = i /\ (i - 1) + 1 = i
        BY <1>2
      <3>2. X[i - 1] = W[i] /\ X[i] = W[i + 1]
        BY <1>2, <3>1
      <3> QED BY <1>3, <2>2, <3>1, <3>2
    <2>6. X = [i \in 0 .. n - 1 |-> X[i]]
      OBVIOUS
    <2> HIDE DEF X
    <2>7. Explains(X, rest, a, c)
      BY <2>2, <2>4, <2>5, <2>6 DEF Explains
    <2> QED BY <2>3, <2>7 DEF Explained, a
  <1>8. CASE groups[1] # {d}
    <2> DEFINE rest == [groups EXCEPT ![1] = @ \ {d}]
               X == [i \in 0 .. n |-> IF i = 0 THEN a ELSE W[i]]
    <2>1. Len(rest) = n /\ rest[1] = groups[1] \ {d}
            /\ \A i \in 1 .. n : i # 1 => rest[i] = groups[i]
      BY <1>2, SeqExcept DEF n
    <2>2. rest = Ran(groups, d)
      BY <1>8 DEF Ran
    <2> HIDE DEF rest
    <2>3. X[0] = a /\ X[n] = c /\ X[1] = W[1] /\ (\A i \in 0 .. n : i # 0 => X[i] = W[i])
      BY <1>2, <1>3
    <2>4. X = [i \in 0 .. n |-> X[i]]
      OBVIOUS
    <2> HIDE DEF X
    <2>5. \A i \in 0 .. n : IsMem(X[i])
      BY <1>2, <1>3, <1>5, <2>3
    <2>6. GroupStep(rest[1], a, W[1])
      <3>1. ASSUME NEW r \in Regions, \A e \in rest[1] : r \notin e.cmd.writes PROVE W[1][r] = a[r]
        <4>1. CASE r \in d.cmd.writes
          BY <1>6, <4>1 DEF GroupStep, a
        <4>2. CASE r \notin d.cmd.writes
          BY <1>5, <1>6, <2>1, <3>1, <4>2 DEF GroupStep
        <4> QED BY <4>1, <4>2
      <3>2. ASSUME NEW e \in rest[1] PROVE \A r \in Touches(e.cmd) : a[r] = b[r]
        BY <1>4, <1>5, <2>1, <3>2
      <3>3. ASSUME NEW e \in rest[1], NEW r \in e.cmd.writes PROVE W[1][r] = Computed(e.cmd, a)[r]
        <4>1. Computed(e.cmd, a)[r] = Computed(e.cmd, b)[r]
          BY <1>4, <1>5, <2>1, <3>2, <3>3, LocalSame
        <4> QED BY <1>6, <2>1, <4>1 DEF GroupStep
      <3>4. ASSUME NEW e \in rest[1], NEW r \in e.cmd.reads PROVE e.expects[r] = a[r]
        BY <1>6, <2>1, <3>2 DEF GroupStep, Touches
      <3> QED BY <3>1, <3>3, <3>4 DEF GroupStep
    <2>7. ASSUME NEW i \in 1 .. n PROVE GroupStep(rest[i], X[i - 1], X[i])
      <3>1. CASE i = 1
        BY <2>3, <2>6, <3>1
      <3>2. CASE i # 1
        <4>1. i - 1 \in 0 .. n /\ i - 1 # 0 /\ i \in 0 .. n /\ i # 0
          BY <1>2, <3>2
        <4> QED BY <1>3, <2>1, <2>3, <3>2, <4>1
      <3> QED BY <3>1, <3>2
    <2>8. Explains(X, rest, a, c)
      BY <2>1, <2>3, <2>4, <2>5, <2>7 DEF Explains
    <2> QED BY <2>2, <2>8 DEF Explained, a
  <1> QED BY <1>7, <1>8

\* Two memories that differ on S only, where v gives the second one.
Patched(c, S, v) == [r \in Regions |-> IF r \in S THEN v[r] ELSE c[r]]

\* What is copied where no queued dispatch looks changes nothing for them.
LEMMA ExplainPatch ==
  ASSUME NEW groups, IsSeq(groups), GroupsOK(groups), NEW b, NEW c, Explained(groups, b, c),
         NEW S, Within(groups, Regions \ S), NEW v
  PROVE  Explained(groups, Patched(b, S, v), Patched(c, S, v))
  <1>1. PICK W : Explains(W, groups, b, c)
    BY DEF Explained
  <1> DEFINE n == Len(groups)
             X == [i \in 0 .. n |-> Patched(W[i], S, v)]
  <1>2. n \in Nat
    BY SeqLen
  <1>3. /\ W[0] = b /\ W[n] = c /\ \A i \in 0 .. n : IsMem(W[i])
        /\ \A i \in 1 .. n : GroupStep(groups[i], W[i - 1], W[i])
    BY <1>1 DEF Explains
  <1>4. \A i \in 1 .. n : \A d \in groups[i] : Local(d.cmd) /\ Touches(d.cmd) \subseteq Regions \ S
    BY DEF GroupsOK, Within
  <1> HIDE DEF n
  <1>5. X[0] = Patched(b, S, v) /\ X[n] = Patched(c, S, v)
    BY <1>2, <1>3
  <1>6. ASSUME NEW i \in 0 .. n
        PROVE  /\ IsMem(X[i]) /\ \A r \in Regions \ S : X[i][r] = W[i][r]
               /\ \A r \in Regions \cap S : X[i][r] = v[r]
    BY DEF Patched, IsMem
  <1>7. X = [i \in 0 .. n |-> X[i]]
    OBVIOUS
  <1> HIDE DEF X
  <1>8. ASSUME NEW i \in 1 .. n PROVE GroupStep(groups[i], X[i - 1], X[i])
    <2>1. i - 1 \in 0 .. n /\ i \in 0 .. n
      BY <1>2
    <2>2. GroupStep(groups[i], W[i - 1], W[i])
      BY <1>3
    <2>3. ASSUME NEW r \in Regions, \A d \in groups[i] : r \notin d.cmd.writes
          PROVE  X[i][r] = X[i - 1][r]
      <3>1. CASE r \in S
        BY <1>6, <2>1, <3>1
      <3>2. CASE r \notin S
        BY <1>6, <2>1, <2>2, <2>3, <3>2 DEF GroupStep
      <3> QED BY <3>1, <3>2
    <2>4. ASSUME NEW d \in groups[i], NEW r \in d.cmd.writes
          PROVE  X[i][r] = Computed(d.cmd, X[i - 1])[r]
      <3>1. Local(d.cmd) /\ Touches(d.cmd) \subseteq Regions \ S /\ r \in Touches(d.cmd)
        BY <1>4, <2>4 DEF Touches
      <3>2. Computed(d.cmd, X[i - 1])[r] = Computed(d.cmd, W[i - 1])[r]
        <4>1. IsMem(X[i - 1]) /\ IsMem(W[i - 1])
                /\ \A x \in Touches(d.cmd) : X[i - 1][x] = W[i - 1][x]
          BY <1>3, <1>6, <2>1, <3>1
        <4> QED BY <2>4, <3>1, <4>1, LocalSame
      <3> QED BY <1>6, <2>1, <2>2, <3>1, <3>2 DEF GroupStep
    <2>5. ASSUME NEW d \in groups[i], NEW r \in d.cmd.reads PROVE d.expects[r] = X[i - 1][r]
      <3>1. r \in Regions \ S
        BY <1>4, <2>5 DEF Touches
      <3> QED BY <1>6, <2>1, <2>2, <2>5, <3>1 DEF GroupStep
    <2> QED BY <2>3, <2>4, <2>5 DEF GroupStep
  <1>9. Explains(X, groups, Patched(b, S, v), Patched(c, S, v))
    BY <1>5, <1>6, <1>7, <1>8 DEF Explains, n
  <1> QED BY <1>9 DEF Explained

\* The ready dispatches find what they expect.
LEMMA ReadyFindsExpected ==
  ASSUME NEW groups, IsSeq(groups), groups # <<>>, NEW b, NEW c, Explained(groups, b, c),
         NEW d \in groups[1], NEW r \in d.cmd.reads
  PROVE  d.expects[r] = b[r]
  <1>1. PICK W : Explains(W, groups, b, c)
    BY DEF Explained
  <1>2. 1 \in 1 .. Len(groups)
    BY SeqLen
  <1>3. GroupStep(groups[1], W[1 - 1], W[1]) /\ W[0] = b
    BY <1>1, <1>2 DEF Explains
  <1> QED BY <1>3 DEF GroupStep

-----------------------------------------------------------------------------
(***************************************************************************)
(* What Put and Execute make of the groups.                                *)
(***************************************************************************)
QueueOf(groups, S) == IsSeq(groups) /\ GroupsOK(groups) /\ Within(groups, S)

LEMMA QueueBarrier ==
  ASSUME NEW S, NEW groups, QueueOf(groups, S)
  PROVE  QueueOf(Append(groups, {}), S)
  <1> DEFINE more == Append(groups, {})
  <1>1. /\ IsSeq(more) /\ Len(more) = Len(groups) + 1 /\ Len(groups) \in Nat
        /\ (\A i \in 1 .. Len(groups) : more[i] = groups[i]) /\ more[Len(groups) + 1] = {}
    BY SeqAppend, SeqLen DEF QueueOf
  <1> HIDE DEF more
  <1>2. \A i \in 1 .. Len(more) : i \in 1 .. Len(groups) \/ more[i] = {}
    BY <1>1
  <1>3. GroupsOK(more)
    BY <1>1, <1>2 DEF GroupsOK, QueueOf
  <1>4. Within(more, S)
    BY <1>1, <1>2 DEF Within, QueueOf
  <1> QED BY <1>1, <1>3, <1>4 DEF QueueOf, more

LEMMA QueueJoined ==
  ASSUME NEW S, NEW groups, QueueOf(groups, S), groups # <<>>,
         NEW d, Local(d.cmd), Touches(d.cmd) \subseteq Regions \cap S, d.cmd.writes # {},
         \A e \in groups[Len(groups)] : /\ e.cmd.writes \cap Touches(d.cmd) = {}
                                        /\ d.cmd.writes \cap Touches(e.cmd) = {}
  PROVE  QueueOf([groups EXCEPT ![Len(groups)] = @ \cup {d}], S)
  <1> DEFINE n == Len(groups)
             put == [groups EXCEPT ![n] = @ \cup {d}]
  <1>1. n \in Nat /\ n \in 1 .. n
    BY SeqLen DEF QueueOf
  <1>2. /\ IsSeq(put) /\ Len(put) = n /\ put[n] = groups[n] \cup {d}
        /\ \A i \in 1 .. n : i # n => put[i] = groups[i]
    BY <1>1, SeqExcept DEF QueueOf
  <1> HIDE DEF put
  <1>3. ASSUME NEW i \in 1 .. n, NEW e \in put[i]
        PROVE  Local(e.cmd) /\ Touches(e.cmd) \subseteq Regions \cap S /\ e.cmd.writes # {}
    <2>1. e \in groups[i] \/ e = d
      BY <1>2, <1>3
    <2> QED BY <1>3, <2>1 DEF QueueOf, GroupsOK, Within
  <1>4. ASSUME NEW i \in 1 .. n, NEW e \in put[i], NEW f \in put[i], e # f
        PROVE  e.cmd.writes \cap Touches(f.cmd) = {}
    <2>1. CASE e \in groups[i] /\ f \in groups[i]
      BY <1>4, <2>1 DEF QueueOf, GroupsOK
    <2>2. CASE ~ (e \in groups[i] /\ f \in groups[i])
      <3>1. i = n /\ (e = d \/ f = d) /\ (e = d \/ e \in groups[n]) /\ (f = d \/ f \in groups[n])
        BY <1>2, <1>4, <2>2
      <3> QED BY <1>4, <3>1 DEF n
    <2> QED BY <2>1, <2>2
  <1>5. GroupsOK(put)
    BY <1>2, <1>3, <1>4 DEF GroupsOK
  <1>6. Within(put, S)
    BY <1>2, <1>3 DEF Within
  <1> QED BY <1>2, <1>5, <1>6 DEF QueueOf, put, n

LEMMA QueueRan ==
  ASSUME NEW S, NEW groups, QueueOf(groups, S), groups # <<>>, NEW d \in groups[1]
  PROVE  /\ QueueOf(Ran(groups, d), S)
         /\ Ran(groups, d) # <<>> =>
              Ran(groups, d)[Len(Ran(groups, d))] \subseteq groups[Len(groups)]
  <1> DEFINE n == Len(groups)
             ran == Ran(groups, d)
  <1>1. n \in Nat /\ n # 0 /\ 1 \in 1 .. n
    BY SeqLen DEF QueueOf
  <1>2. CASE groups[1] = {d}
    <2>1. ran = Tail(groups)
      BY <1>2 DEF Ran
    <2>2. IsSeq(ran) /\ Len(ran) = n - 1 /\ \A i \in 1 .. n - 1 : ran[i] = groups[i + 1]
      BY <2>1, SeqTail DEF QueueOf
    <2> HIDE DEF ran
    <2>3. \A i \in 1 .. n - 1 : i + 1 \in 1 .. n
      BY <1>1
    <2>4. GroupsOK(ran)
      BY <2>2, <2>3 DEF GroupsOK, QueueOf
    <2>5. Within(ran, S)
      BY <2>2, <2>3 DEF Within, QueueOf
    <2>6. ran # <<>> => Len(ran) \in 1 .. n - 1 /\ Len(ran) + 1 = n
      BY <1>1, <2>2, SeqLen
    <2> QED BY <2>2, <2>4, <2>5, <2>6 DEF QueueOf, ran
  <1>3. CASE groups[1] # {d}
    <2>1. ran = [groups EXCEPT ![1] = @ \ {d}]
      BY <1>3 DEF Ran
    <2>2. /\ IsSeq(ran) /\ Len(ran) = n /\ ran[1] = groups[1] \ {d}
          /\ \A i \in 1 .. n : i # 1 => ran[i] = groups[i]
      <3>1. IsSeq(groups) /\ 1 \in 1 .. Len(groups)
        BY <1>1 DEF QueueOf
      <3> DEFINE x == groups[1] \ {d}
      <3>2. ran = [groups EXCEPT ![1] = x]
        BY <2>1
      <3> HIDE DEF x, ran
      <3> DEFINE t == [groups EXCEPT ![1] = x]
      <3>3. /\ IsSeq(t) /\ Len(t) = Len(groups) /\ t[1] = x
            /\ \A i \in 1 .. Len(groups) : i # 1 => t[i] = groups[i]
        BY <3>1, SeqExcept
      <3> HIDE DEF t
      <3>4. ran = t
        BY <3>2 DEF t
      <3> QED BY <3>3, <3>4 DEF x
    <2> HIDE DEF ran
    <2>3. \A i \in 1 .. n : ran[i] \subseteq groups[i]
      BY <2>2
    <2>4. GroupsOK(ran)
      BY <2>2, <2>3 DEF GroupsOK, QueueOf
    <2>5. Within(ran, S)
      BY <2>2, <2>3 DEF Within, QueueOf
    <2>6. Len(ran) \in 1 .. n
      BY <1>1, <2>2
    <2> QED BY <2>2, <2>3, <2>4, <2>5, <2>6 DEF QueueOf, ran
  <1> QED BY <1>2, <1>3

\* The last group and what may be written in or read by it.
LastTouches(groups, R, S) ==
  groups # <<>> => \A d \in groups[Len(groups)] : d.cmd.reads \subseteq R
    /\ d.cmd.writes \subseteq S

\* It stays in S, and conflicts with none that read in R and write in T.
Fits(c, S, R, T) ==
  /\ Local(c) /\ Touches(c) \subseteq Regions \cap S /\ c.writes # {}
  /\ c.writes \cap (R \cup T) = {} /\ c.reads \cap T = {}

\* dispatch_bound: a dispatch that does not conflict with the open group.
LEMMA PutKeeps ==
  ASSUME NEW S, NEW groups, QueueOf(groups, S), NEW b, NEW c, IsMem(c), Explained(groups, b, c),
         NEW R, NEW T, LastTouches(groups, R, T),
         NEW d, Fits(d.cmd, S, R, T), \A r \in d.cmd.reads : d.expects[r] = c[r]
  PROVE  /\ QueueOf(Put(groups, d), S) /\ Put(groups, d) # <<>>
         /\ Explained(Put(groups, d), b, Computed(d.cmd, c))
         /\ d.cmd.barrier \/ InOrder => LastTouches(Put(groups, d), {}, {})
         /\ ~ (d.cmd.barrier \/ InOrder) =>
              LastTouches(Put(groups, d), R \cup d.cmd.reads, T \cup d.cmd.writes)
  <1> DEFINE opened == IF groups = <<>> THEN <<{}>> ELSE groups
             put == [opened EXCEPT ![Len(opened)] = @ \cup {d}]
  <1>1. /\ QueueOf(opened, S) /\ opened # <<>> /\ Explained(opened, b, c)
        /\ LastTouches(opened, R, T)
    <2>1. CASE groups = <<>>
      <3>1. opened = Append(groups, {})
        BY <2>1
      <3>2. opened = <<{}>> /\ Len(<<{}>>) = 1 /\ <<{}>>[1] = {} /\ <<{}>> # <<>>
        BY <2>1
      <3>3. LastTouches(opened, R, T) /\ opened # <<>>
        BY <3>2 DEF LastTouches
      <3>4. QueueOf(opened, S)
        BY <3>1, QueueBarrier
      <3>5. Explained(opened, b, c)
        BY <3>1, ExplainBarrier DEF QueueOf
      <3> QED BY <3>3, <3>4, <3>5
    <2>2. CASE groups # <<>>
      BY <2>2
    <2> QED BY <2>1, <2>2
  <1>2. Put(groups, d) = IF d.cmd.barrier \/ InOrder THEN Append(put, {}) ELSE put
    BY DEF Put
  <1>0. /\ Local(d.cmd) /\ Touches(d.cmd) \subseteq Regions \cap S /\ d.cmd.writes # {}
        /\ d.cmd.writes \cap (R \cup T) = {} /\ d.cmd.reads \cap T = {}
    BY DEF Fits
  <1> HIDE DEF opened
  <1>3. \A e \in opened[Len(opened)] : /\ e.cmd.writes \cap Touches(d.cmd) = {}
                                       /\ d.cmd.writes \cap Touches(e.cmd) = {}
    BY <1>0, <1>1 DEF LastTouches, Touches
  <1>4. QueueOf(put, S)
    BY <1>0, <1>1, <1>3, QueueJoined
  <1>5. Explained(put, b, Computed(d.cmd, c))
    BY <1>0, <1>1, <1>3, ExplainPut DEF QueueOf
  <1>6. Len(put) = Len(opened) /\ put[Len(opened)] = opened[Len(opened)] \cup {d} /\ put # <<>>
    <2>1. Len(opened) \in Nat /\ Len(opened) # 0 /\ Len(opened) \in 1 .. Len(opened)
      BY <1>1, SeqLen DEF QueueOf
    <2>2. /\ IsSeq(put) /\ Len(put) = Len(opened)
          /\ put[Len(opened)] = opened[Len(opened)] \cup {d}
      BY <1>1, <2>1, SeqExcept DEF QueueOf
    <2> QED BY <2>1, <2>2, SeqLen
  <1> HIDE DEF put
  <1>7. LastTouches(put, R \cup d.cmd.reads, T \cup d.cmd.writes)
    BY <1>1, <1>6 DEF LastTouches
  <1>8. /\ QueueOf(Append(put, {}), S) /\ Append(put, {}) # <<>>
        /\ Explained(Append(put, {}), b, Computed(d.cmd, c))
        /\ LastTouches(Append(put, {}), {}, {})
    <2>1. Len(Append(put, {})) = Len(put) + 1 /\ Append(put, {})[Len(put) + 1] = {}
            /\ Append(put, {}) # <<>>
      BY <1>4, SeqAppend DEF QueueOf
    <2> QED BY <1>4, <1>5, <2>1, QueueBarrier, ExplainBarrier DEF QueueOf, LastTouches
  <1> QED BY <1>2, <1>4, <1>5, <1>6, <1>7, <1>8

-----------------------------------------------------------------------------
(***************************************************************************)
(* The host.  What it knows of the queues between two calls: the buffers   *)
(* that exist, the memory that is wanted, the regions that what is queued  *)
(* may touch, those that the dispatches since the last barrier read and    *)
(* write, and whether copies may be under way.  On HIP the stream keeps    *)
(* the order, nothing is known and nothing needs to be.                    *)
(***************************************************************************)
HostState(al, w, bs, oR, oW, cp) ==
  [alive |-> al, want |-> w, busy |-> bs, openR |-> oR, openW |-> oW, copying |-> cp]

\* After a barrier, with no copies under way.
St(al, w, bs) == HostState(al, w, bs, {}, {}, FALSE)

Hip(m) == m.backend = "hip"

\* Experts are uploaded while dispatches that touch none of them are queued.
Plain == Regions \ {"slot_gu", "slot_dn", "slot_of"}

Legal(m, c, a) ==
  /\ c.call \in {"dispatch", "submit", "upload", "async", "download", "alloc", "free"}
  /\ c.call = "dispatch" =>
       /\ ~ a.copying /\ Local(c) /\ c.writes # {} /\ Touches(c) \subseteq Regions \cap a.alive
       /\ c.writes \cap (a.openR \cup a.openW) = {} /\ c.reads \cap a.openW = {}
  /\ c.call = "submit" => ~ a.copying
  /\ c.call = "upload" => c.to \in Regions /\ c.to \notin a.busy
  /\ c.call = "async" => c.to \in Regions /\ c.to \notin a.busy /\ ~ Hip(m)
  /\ c.call = "download" =>
       /\ ~ a.copying /\ a.busy = {} /\ c.from \in Regions
       /\ c.from = "logits" => a.want["logits"] = Reference(m)
  /\ c.call = "alloc" => ~ a.copying /\ c.set \subseteq Regions /\ c.set \cap a.alive = {}
  /\ c.call = "free" => ~ a.copying /\ a.busy = {}

AfterDispatch(m, c, a) ==
  LET closed == c.barrier \/ Hip(m)
      bs == IF Hip(m) THEN {}
            ELSE IF a.busy \cup Touches(c) \subseteq Plain THEN Plain ELSE Regions
  IN  HostState(a.alive, Computed(c, a.want), bs,
                IF closed THEN {} ELSE a.openR \cup c.reads,
                IF closed THEN {} ELSE a.openW \cup c.writes, FALSE)

Filled(m, w, set) == [r \in Regions |-> IF r \in set THEN Blank(m, r) ELSE w[r]]

After(m, c, a) ==
  IF c.call = "dispatch" THEN AfterDispatch(m, c, a)
  ELSE IF c.call = "submit" THEN HostState(a.alive, a.want, {}, {}, {}, FALSE)
  ELSE IF c.call \in {"upload", "async"}
       THEN HostState(a.alive, With(a.want, c.to, c.data), a.busy, a.openR, a.openW,
         c.call = "async")
  ELSE IF c.call = "alloc"
       THEN HostState(a.alive \cup c.set, Filled(m, a.want, c.set), a.busy, a.openR, a.openW, FALSE)
  ELSE IF c.call = "free"
       THEN HostState(a.alive \ c.set, a.want, a.busy, a.openR, a.openW, FALSE)
  ELSE a

\* Between two forward passes.
Final(m, a) ==
  /\ a = St(ModelBuffers, a.want, {}) /\ IsMem(a.want)
  /\ a.want["cache"] = [l \in 1 .. m.layers |-> a.want["cache"][l]]

\* G is closed under the calls of its programs, which are all legal.
Closed(m, G) ==
  \A p, a : <<p, a>> \in G =>
    IF p = <<>> THEN Final(m, a)
    ELSE IF Head(p).call = "miss"
    THEN <<Tail(p), a>> \in G /\ <<Head(p).then \o Tail(p), a>> \in G
    ELSE Legal(m, Head(p), a) /\ <<Tail(p), After(m, Head(p), a)>> \in G

\* Every call of the program is legal, however the misses turn out.
Safe(m, p, a) == \E G : <<p, a>> \in G /\ Closed(m, G)

LEMMA SafeUnfolds ==
  ASSUME NEW m, NEW p, NEW a, Safe(m, p, a)
  PROVE  IF p = <<>> THEN Final(m, a)
         ELSE IF Head(p).call = "miss"
         THEN Safe(m, Tail(p), a) /\ Safe(m, Head(p).then \o Tail(p), a)
         ELSE Legal(m, Head(p), a) /\ Safe(m, Tail(p), After(m, Head(p), a))
  <1>1. PICK G : <<p, a>> \in G /\ Closed(m, G)
    BY DEF Safe
  <1>2. IF p = <<>> THEN Final(m, a)
        ELSE IF Head(p).call = "miss"
        THEN <<Tail(p), a>> \in G /\ <<Head(p).then \o Tail(p), a>> \in G
        ELSE Legal(m, Head(p), a) /\ <<Tail(p), After(m, Head(p), a)>> \in G
    BY <1>1 DEF Closed
  <1>3. \A q, b : <<q, b>> \in G => Safe(m, q, b)
    BY <1>1 DEF Safe
  <1> QED BY <1>2, <1>3

LEMMA OneFirst ==
  ASSUME NEW c, NEW q, IsSeq(q)
  PROVE  <<c>> \o q # <<>> /\ Head(<<c>> \o q) = c /\ Tail(<<c>> \o q) = q
  <1>1. PICK S : q \in Seq(S)
    BY DEF IsSeq
  <1> QED BY <1>1

\* The program has come to its end.
LEMMA SafeEnd ==
  ASSUME NEW m, NEW a, Final(m, a)
  PROVE  Safe(m, <<>>, a)
  <1> DEFINE G == {<<<<>>, a>>}
  <1>1. Closed(m, G)
    BY DEF Closed
  <1> QED BY <1>1 DEF Safe

\* A call that is legal.
LEMMA SafeCall ==
  ASSUME NEW m, NEW c, c.call # "miss", NEW a, Legal(m, c, a),
         NEW q, IsSeq(q), Safe(m, q, After(m, c, a))
  PROVE  Safe(m, <<c>> \o q, a)
  <1>1. PICK G : <<q, After(m, c, a)>> \in G /\ Closed(m, G)
    BY DEF Safe
  <1> DEFINE p == <<c>> \o q
             H == G \cup {<<p, a>>}
  <1>2. p # <<>> /\ Head(p) = c /\ Tail(p) = q
    BY OneFirst
  <1> HIDE DEF p
  <1>3. Closed(m, H)
    BY <1>1, <1>2 DEF Closed
  <1> QED BY <1>3 DEF Safe, p

\* Experts may have to be placed.
LEMMA SafeMiss ==
  ASSUME NEW m, NEW calls, NEW a, NEW q, IsSeq(q), Safe(m, q, a), Safe(m, calls \o q, a)
  PROVE  Safe(m, <<onMiss(calls)>> \o q, a)
  <1>1. PICK G : <<q, a>> \in G /\ Closed(m, G)
    BY DEF Safe
  <1>2. PICK H : <<calls \o q, a>> \in H /\ Closed(m, H)
    BY DEF Safe
  <1> DEFINE p == <<onMiss(calls)>> \o q
             I == G \cup H \cup {<<p, a>>}
  <1>3. p # <<>> /\ Head(p) = onMiss(calls) /\ Tail(p) = q
    BY OneFirst
  <1>4. onMiss(calls).call = "miss" /\ onMiss(calls).then = calls
    BY DEF onMiss
  <1> HIDE DEF p
  <1>5. Closed(m, I)
    BY <1>1, <1>2, <1>3, <1>4 DEF Closed
  <1> QED BY <1>5 DEF Safe, p

-----------------------------------------------------------------------------
(***************************************************************************)
(* The invariant.  With the copies that are under way in place, memory is  *)
(* such that what is queued makes of it what is wanted; no copy goes where *)
(* a queued dispatch looks; and the rest of the program is safe from a     *)
(* state of the host that is right about the queues.                       *)
(***************************************************************************)
Targets(cs) == {cs[i].to : i \in 1 .. Len(cs)}

\* The last copy to a region brings what is wanted there.
CopiesOK(cs, ids, w) ==
  /\ IsSeq(cs)
  /\ \A i \in 1 .. Len(cs) :
       /\ cs[i].to \in Regions /\ cs[i].id \in ids
       /\ (\A j \in 1 .. Len(cs) : j > i => cs[j].to # cs[i].to) => cs[i].data = w[cs[i].to]

Matches(a) ==
  /\ a.alive = alive /\ a.want = want
  /\ ~ submitted => LastTouches(batch, a.openR, a.openW)
  /\ ~ submitted /\ ~ InOrder => Within(batch, a.busy) /\ (a.busy = {} => QueueEmpty)
  /\ ~ a.copying => copies = <<>>

QueueInv ==
  /\ model \in Models
  /\ alive \subseteq Regions /\ QueueOf(batch, alive)
  /\ IsMem(mem) /\ IsMem(want)
  /\ submitted \/ InOrder => copies = <<>>
  /\ CopiesOK(copies, staged, want)
  /\ Within(batch, Regions \ Targets(copies))
  /\ Explained(batch, Patched(mem, Targets(copies), want), want)
  /\ \E a : Matches(a) /\ Safe(model, program, a)

LEMMA NoCopies ==
  ASSUME NEW ids, NEW w, NEW c, IsMem(c), NEW S, QueueOf(batch, S), S \subseteq Regions
  PROVE  /\ Targets(<<>>) = {} /\ CopiesOK(<<>>, ids, w) /\ Patched(c, {}, w) = c
         /\ Within(batch, Regions \ Targets(<<>>))
  <1>1. Len(<<>>) = 0 /\ <<>> \in Seq({})
    OBVIOUS
  <1>2. Targets(<<>>) = {} /\ CopiesOK(<<>>, ids, w)
    BY <1>1 DEF Targets, CopiesOK, IsSeq
  <1>3. Patched(c, {}, w) = c
    BY DEF Patched, IsMem
  <1> QED BY <1>2, <1>3 DEF Within, QueueOf

LEMMA EmptyQueue ==
  ASSUME NEW S
  PROVE  /\ QueueOf(<<>>, S) /\ Within(<<>>, S) /\ QueueOf(<<{}>>, S) /\ Within(<<{}>>, S)
         /\ \A R, T : LastTouches(<<>>, R, T) /\ LastTouches(<<{}>>, R, T)
  <1>1. Len(<<>>) = 0 /\ <<>> \in Seq({})
    OBVIOUS
  <1>2. QueueOf(<<>>, S) /\ Within(<<>>, S)
    BY <1>1 DEF QueueOf, Within, GroupsOK, IsSeq
  <1>3. <<{}>> = Append(<<>>, {}) /\ Len(<<{}>>) = 1 /\ <<{}>>[1] = {}
    OBVIOUS
  <1>4. QueueOf(<<{}>>, S)
    BY <1>2, <1>3, QueueBarrier
  <1>5. \A R, T : LastTouches(<<>>, R, T) /\ LastTouches(<<{}>>, R, T)
    BY <1>3 DEF LastTouches
  <1> QED BY <1>2, <1>4, <1>5 DEF QueueOf

\* With nothing under way memory is as it is wanted.
LEMMA MemoryIsWanted ==
  ASSUME QueueInv, QueueEmpty, copies = <<>>
  PROVE  mem = want
  <1>1. Explained(batch, mem, want) /\ IsMem(mem)
    BY NoCopies DEF QueueInv
  <1>2. CASE batch = <<>>
    BY <1>1, <1>2, NothingExplains
  <1>3. CASE batch = <<{}>>
    BY <1>1, <1>3, EmptyGroupExplains
  <1> QED BY <1>2, <1>3 DEF QueueEmpty

LEMMA CallIsSafe ==
  ASSUME QueueInv, NEW name, name # "miss", Call(name)
  PROVE  \E a : /\ Matches(a) /\ Legal(model, Next1, a) /\ Next1.call = name
                /\ Safe(model, program', After(model, Next1, a))
  <1>1. PICK a : Matches(a) /\ Safe(model, program, a)
    BY DEF QueueInv
  <1>2. program # <<>> /\ Next1 = Head(program) /\ Next1.call = name /\ program' = Tail(program)
    BY DEF Call, Next1
  <1> QED BY <1>1, <1>2, SafeUnfolds

\* Nothing is under way and nothing queued touches set.
LEMMA PatchBoth ==
  ASSUME QueueInv, copies = <<>>, NEW set, set \subseteq Regions, Within(batch, Regions \ set),
         NEW v
  PROVE  Explained(batch, Patched(mem, set, v), Patched(want, set, v))
  <1>1. Explained(batch, mem, want)
    BY NoCopies DEF QueueInv
  <1> QED BY <1>1, ExplainPatch DEF QueueInv, QueueOf

LEMMA RecordKeeps ==
  ASSUME QueueInv, Record
  PROVE  QueueInv'
  <1>1. PICK a : /\ Matches(a) /\ Legal(model, Next1, a) /\ Next1.call = "dispatch"
                 /\ Safe(model, program', After(model, Next1, a))
    BY CallIsSafe DEF Record
  <1>b. PICK b : b = After(model, Next1, a)
    OBVIOUS
  <1> DEFINE d == [cmd |-> Next1, id |-> clock, expects |-> [r \in Next1.reads |-> want[r]]]
             S == IF InOrder THEN alive ELSE alive \cap b.busy
  <1>2. /\ batch' = Put(batch, d) /\ want' = Computed(Next1, want)
        /\ UNCHANGED <<model, submitted, copies, staged, mem, alive>> /\ ~ submitted
    BY DEF Record, Call
  <1>3. /\ ~ a.copying /\ Local(Next1) /\ Next1.writes # {}
        /\ Touches(Next1) \subseteq Regions \cap alive
        /\ Next1.writes \cap (a.openR \cup a.openW) = {} /\ Next1.reads \cap a.openW = {}
    BY <1>1 DEF Legal, Matches
  <1>4. copies = <<>> /\ LastTouches(batch, a.openR, a.openW)
    BY <1>1, <1>2, <1>3 DEF Matches
  <1>5. b = AfterDispatch(model, Next1, a)
    BY <1>b, <1>1 DEF After
  <1>6. /\ b.alive = alive /\ b.want = want' /\ ~ b.copying
        /\ ~ InOrder => a.busy \cup Touches(Next1) \subseteq b.busy \/ b.busy = Regions
        /\ ~ InOrder => b.busy # {}
        /\ Next1.barrier \/ InOrder => b.openR = {} /\ b.openW = {}
        /\ ~ (Next1.barrier \/ InOrder) =>
             b.openR = a.openR \cup Next1.reads /\ b.openW = a.openW \cup Next1.writes
    <2>1. "q" \in Plain /\ "q" \in Regions
      BY DEF Plain, Regions, PassBuffers, Slices, Q
    <2>2. a.alive = alive /\ a.want = want
      BY <1>1 DEF Matches
    <2>3. InOrder <=> Hip(model)
      BY DEF InOrder, Hip
    <2> QED BY <1>2, <1>5, <2>1, <2>2, <2>3 DEF AfterDispatch, HostState
  <1>7. Explained(batch, mem, want) /\ IsMem(mem) /\ IsMem(want)
    BY <1>4, NoCopies DEF QueueInv
  <1>8. QueueOf(batch, S) /\ Touches(Next1) \subseteq Regions \cap S /\ S \subseteq alive
    <2>1. QueueOf(batch, alive) /\ alive \subseteq Regions
      BY DEF QueueInv
    <2>2. ~ InOrder => Within(batch, a.busy)
      BY <1>1, <1>2 DEF Matches
    <2>3. ~ InOrder => Within(batch, b.busy)
      BY <1>6, <2>1, <2>2 DEF Within, QueueOf
    <2> QED BY <1>3, <1>6, <2>1, <2>3 DEF QueueOf, Within
  <1> HIDE DEF S
  <1>9. d.cmd = Next1 /\ \A r \in d.cmd.reads : d.expects[r] = want[r]
    OBVIOUS
  <1> HIDE DEF d
  <1>10. /\ QueueOf(batch', S) /\ batch' # <<>>
         /\ Explained(batch', mem, want')
         /\ IF Next1.barrier \/ InOrder THEN LastTouches(batch', {}, {})
            ELSE LastTouches(batch', a.openR \cup Next1.reads, a.openW \cup Next1.writes)
    <2>1. Fits(d.cmd, S, a.openR, a.openW)
      BY <1>3, <1>8, <1>9 DEF Fits
    <2>2. /\ QueueOf(Put(batch, d), S) /\ Put(batch, d) # <<>>
          /\ Explained(Put(batch, d), mem, Computed(d.cmd, want))
          /\ d.cmd.barrier \/ InOrder => LastTouches(Put(batch, d), {}, {})
          /\ ~ (d.cmd.barrier \/ InOrder) =>
               LastTouches(Put(batch, d), a.openR \cup d.cmd.reads, a.openW \cup d.cmd.writes)
      BY <1>4, <1>7, <1>8, <1>9, <2>1, PutKeeps
    <2> QED BY <1>2, <1>9, <2>2
  <1>11. QueueOf(batch', alive) /\ (~ InOrder => Within(batch', b.busy))
    BY <1>8, <1>10 DEF QueueOf, Within, S
  <1>12. IsMem(want')
    BY <1>2, <1>3, <1>7, LocalKeeps
  <1>13. LastTouches(batch', b.openR, b.openW)
    BY <1>6, <1>10
  <1>14. Matches(b)'
    BY <1>2, <1>4, <1>6, <1>11, <1>13 DEF Matches, InOrder, QueueEmpty
  <1>15. /\ Targets(<<>>) = {} /\ CopiesOK(<<>>, staged', want') /\ Patched(mem, {}, want') = mem
         /\ Within(batch', Regions)
    <2>1. Within(batch', Regions)
      BY <1>11 DEF QueueOf, Within, QueueInv
    <2> QED BY <1>7, <2>1, NoCopies, EmptyQueue DEF QueueInv
  <1> QED BY <1>b, <1>1, <1>2, <1>4, <1>7, <1>10, <1>11, <1>12, <1>14, <1>15 DEF QueueInv, InOrder

LEMMA SubmitNothingKeeps ==
  ASSUME QueueInv, SubmitNothing
  PROVE  QueueInv'
  <1>1. PICK a : /\ Matches(a) /\ Legal(model, Next1, a) /\ Next1.call = "submit"
                 /\ Safe(model, program', After(model, Next1, a))
    BY CallIsSafe DEF SubmitNothing
  <1>b. PICK b : b = After(model, Next1, a)
    OBVIOUS
  <1>2. /\ UNCHANGED <<model, batch, submitted, copies, staged, mem, want, alive>>
        /\ ~ submitted /\ batch = <<>>
    BY DEF SubmitNothing, Call
  <1>3. b = HostState(alive, want, {}, {}, {}, FALSE) /\ copies = <<>>
    BY <1>b, <1>1 DEF After, Matches, Legal
  <1>4. Matches(b)'
    BY <1>2, <1>3, EmptyQueue DEF Matches, InOrder, QueueEmpty, HostState
  <1> QED BY <1>b, <1>1, <1>2, <1>4 DEF QueueInv, InOrder

LEMMA SubmitKeeps ==
  ASSUME QueueInv, Submit
  PROVE  QueueInv'
  <1>1. PICK a : /\ Matches(a) /\ Legal(model, Next1, a) /\ Next1.call = "submit"
                 /\ Safe(model, program', After(model, Next1, a))
    BY CallIsSafe DEF Submit
  <1>b. PICK b : b = After(model, Next1, a)
    OBVIOUS
  <1>2. /\ UNCHANGED <<model, batch, copies, staged, mem, want, alive>> /\ submitted'
    BY DEF Submit, Call
  <1>3. b = HostState(alive, want, {}, {}, {}, FALSE) /\ copies = <<>>
    BY <1>b, <1>1 DEF After, Matches, Legal
  <1>4. Matches(b)'
    BY <1>2, <1>3 DEF Matches, InOrder, QueueEmpty, HostState
  <1> QED BY <1>b, <1>1, <1>2, <1>3, <1>4 DEF QueueInv, InOrder

LEMMA CompleteKeeps ==
  ASSUME QueueInv, Complete
  PROVE  QueueInv'
  <1>1. PICK a : Matches(a) /\ Safe(model, program, a)
    BY DEF QueueInv
  <1>2. /\ UNCHANGED <<model, program, copies, mem, want, alive>> /\ batch' = <<>>
        /\ ~ submitted' /\ QueueEmpty /\ copies = <<>>
    BY DEF Complete, FenceSignalled
  <1>3. mem = want /\ IsMem(mem)
    BY <1>2, MemoryIsWanted DEF QueueInv
  <1>4. Explained(batch', mem, want)
    BY <1>2, <1>3, ExplainNothing
  <1>5. Matches(a)'
    BY <1>1, <1>2, EmptyQueue DEF Matches, InOrder, QueueEmpty
  <1>6. QueueOf(batch', alive) /\ Within(batch', Regions) /\ Targets(<<>>) = {}
        /\ CopiesOK(<<>>, staged', want) /\ Patched(mem, {}, want) = mem
    BY <1>2, <1>3, EmptyQueue, NoCopies DEF QueueInv
  <1> QED BY <1>1, <1>2, <1>3, <1>4, <1>5, <1>6 DEF QueueInv, InOrder

LEMMA UploadKeeps ==
  ASSUME QueueInv, Upload
  PROVE  QueueInv'
  <1>1. PICK a : /\ Matches(a) /\ Legal(model, Next1, a) /\ Next1.call = "upload"
                 /\ Safe(model, program', After(model, Next1, a))
    BY CallIsSafe DEF Upload
  <1>b. PICK b : b = After(model, Next1, a)
    OBVIOUS
  <1> DEFINE x == Next1.to
             v == Next1.data
  <1>2. /\ UNCHANGED <<model, batch, submitted, copies, staged, alive>> /\ ~ submitted
        /\ copies = <<>> /\ (InOrder => QueueEmpty)
        /\ mem' = [mem EXCEPT ![x] = v] /\ want' = [want EXCEPT ![x] = v]
    BY DEF Upload, Call, Settled
  <1>3. x \in Regions /\ x \notin a.busy
    BY <1>1 DEF Legal
  <1>4. b = HostState(alive, With(want, x, v), a.busy, a.openR, a.openW, FALSE)
    BY <1>b, <1>1 DEF After, Matches
  <1> HIDE DEF x, v
  <1>5. mem' = With(mem, x, v) /\ want' = With(want, x, v) /\ IsMem(mem') /\ IsMem(want')
    <2>1. IsMem(mem) /\ IsMem(want)
      BY DEF QueueInv
    <2> QED BY <1>2, <2>1 DEF IsMem, With
  <1>6. Within(batch, Regions \ {x})
    <2>1. CASE InOrder
      BY <1>2, <2>1, EmptyQueue DEF QueueEmpty
    <2>2. CASE ~ InOrder
      <3>1. Within(batch, a.busy) /\ QueueOf(batch, alive) /\ alive \subseteq Regions
        BY <1>1, <1>2, <2>2 DEF Matches, QueueInv
      <3> QED BY <1>3, <3>1 DEF Within, QueueOf
    <2> QED BY <2>1, <2>2
  <1>7. Explained(batch, mem', want')
    <2> DEFINE w == [r \in Regions |-> v]
    <2>1. Patched(mem, {x}, w) = With(mem, x, v) /\ Patched(want, {x}, w) = With(want, x, v)
      BY DEF Patched, With
    <2> HIDE DEF w
    <2>2. {x} \subseteq Regions
      BY <1>3
    <2>3. Explained(batch, Patched(mem, {x}, w), Patched(want, {x}, w))
      BY <1>2, <1>6, <2>2, PatchBoth
    <2> QED BY <1>5, <2>1, <2>3
  <1>8. Matches(b)'
    BY <1>1, <1>2, <1>4, <1>5 DEF Matches, InOrder, QueueEmpty, HostState
  <1>9. /\ Targets(<<>>) = {} /\ CopiesOK(<<>>, staged', want') /\ Patched(mem', {}, want') = mem'
        /\ Within(batch, Regions \ Targets(<<>>))
    BY <1>5, NoCopies DEF QueueInv
  <1> QED BY <1>b, <1>1, <1>2, <1>5, <1>7, <1>8, <1>9 DEF QueueInv, InOrder

LEMMA UploadAsyncKeeps ==
  ASSUME QueueInv, UploadAsync
  PROVE  QueueInv'
  <1>1. PICK a : /\ Matches(a) /\ Legal(model, Next1, a) /\ Next1.call = "async"
                 /\ Safe(model, program', After(model, Next1, a))
    BY CallIsSafe DEF UploadAsync
  <1>b. PICK b : b = After(model, Next1, a)
    OBVIOUS
  <1> DEFINE x == Next1.to
             v == Next1.data
             e == [to |-> x, data |-> v, id |-> clock]
             n == Len(copies)
  <1>2. /\ UNCHANGED <<model, batch, submitted, mem, alive>> /\ ~ submitted
        /\ copies' = Append(copies, e) /\ staged' = staged \cup {clock}
        /\ want' = [want EXCEPT ![x] = v]
    BY DEF UploadAsync, Call
  <1>3. x \in Regions /\ x \notin a.busy /\ ~ InOrder
    BY <1>1 DEF Legal, InOrder, Hip
  <1>4. b = HostState(alive, With(want, x, v), a.busy, a.openR, a.openW, TRUE)
    BY <1>b, <1>1 DEF After, Matches
  <1>5. e.to = x /\ e.data = v /\ e.id = clock
    OBVIOUS
  <1> HIDE DEF x, v, e
  <1>6. want' = With(want, x, v) /\ IsMem(want')
    <2>1. IsMem(mem) /\ IsMem(want)
      BY DEF QueueInv
    <2> QED BY <1>2, <2>1 DEF IsMem, With
  <1>7. /\ n \in Nat /\ IsSeq(copies') /\ Len(copies') = n + 1
        /\ (\A i \in 1 .. n : copies'[i] = copies[i]) /\ copies'[n + 1] = e
    <2>1. IsSeq(copies)
      BY DEF QueueInv, CopiesOK
    <2> QED BY <1>2, <2>1, SeqAppend, SeqLen
  <1> HIDE DEF n
  <1>8. CopiesOK(copies', staged', want')
    <2>1. ASSUME NEW i \in 1 .. n + 1
          PROVE  /\ copies'[i].to \in Regions /\ copies'[i].id \in staged'
                 /\ (\A j \in 1 .. n + 1 : j > i => copies'[j].to # copies'[i].to) =>
                      copies'[i].data = want'[copies'[i].to]
      <3>1. CASE i = n + 1
        BY <1>2, <1>3, <1>5, <1>6, <1>7, <3>1 DEF With
      <3>2. CASE i # n + 1
        <4>1. i \in 1 .. n /\ copies'[i] = copies[i]
          BY <1>7, <3>2
        <4>2. copies[i].to \in Regions /\ copies[i].id \in staged
          BY <4>1 DEF QueueInv, CopiesOK, n
        <4>3. ASSUME \A j \in 1 .. n + 1 : j > i => copies'[j].to # copies[i].to
              PROVE  copies[i].data = want'[copies[i].to]
          <5>1. x # copies[i].to
            <6>1. n + 1 \in 1 .. n + 1 /\ n + 1 > i
              BY <1>7, <4>1
            <6> QED BY <1>5, <1>7, <4>3, <6>1
          <5>2. \A j \in 1 .. n : j > i => copies[j].to # copies[i].to
            <6>1. \A j \in 1 .. n : j \in 1 .. n + 1
              BY <1>7
            <6> QED BY <1>7, <4>3, <6>1
          <5>3. copies[i].data = want[copies[i].to]
            BY <4>1, <5>2 DEF QueueInv, CopiesOK, n
          <5> QED BY <1>6, <4>2, <5>1, <5>3 DEF With
        <4> QED BY <1>2, <4>1, <4>2, <4>3
      <3> QED BY <3>1, <3>2
    <2> QED BY <1>7, <2>1 DEF CopiesOK
  <1>9. Targets(copies') = Targets(copies) \cup {x}
    <2>1. \A i \in 1 .. n + 1 : i \in 1 .. n \/ i = n + 1
      BY <1>7
    <2>2. 1 .. n \subseteq 1 .. n + 1 /\ n + 1 \in 1 .. n + 1
      BY <1>7
    <2> QED BY <1>5, <1>7, <2>1, <2>2 DEF Targets, n
  <1>10. Within(batch, a.busy) /\ QueueOf(batch, alive) /\ alive \subseteq Regions
    BY <1>1, <1>2, <1>3 DEF Matches, QueueInv
  <1>11. Within(batch, Regions \ {x}) /\ Within(batch, Regions \ Targets(copies'))
    <2>1. Within(batch, Regions \ {x})
      BY <1>3, <1>10 DEF Within, QueueOf
    <2>2. Within(batch, Regions \ Targets(copies))
      BY DEF QueueInv
    <2> QED BY <1>9, <2>1, <2>2 DEF Within
  <1>12. Explained(batch, Patched(mem, Targets(copies'), want'), want')
    <2> DEFINE T == Targets(copies)
    <2>1. Explained(batch, Patched(mem, T, want), want) /\ IsSeq(batch) /\ GroupsOK(batch)
      BY DEF QueueInv, QueueOf
    <2>2. Patched(Patched(mem, T, want), {x}, want') = Patched(mem, T \cup {x}, want')
      BY <1>6 DEF Patched, With
    <2>3. Patched(want, {x}, want') = want'
      BY <1>6 DEF Patched, With
    <2> HIDE DEF T
    <2>4. Explained(batch, Patched(Patched(mem, T, want), {x}, want'), Patched(want, {x}, want'))
      BY <1>11, <2>1, ExplainPatch
    <2> QED BY <1>9, <2>2, <2>3, <2>4 DEF T
  <1>13. Matches(b)'
    BY <1>1, <1>2, <1>4, <1>6 DEF Matches, InOrder, QueueEmpty, HostState
  <1> QED BY <1>b, <1>1, <1>2, <1>3, <1>6, <1>8, <1>11, <1>12, <1>13 DEF QueueInv, InOrder

LEMMA DownloadKeeps ==
  ASSUME QueueInv, Download
  PROVE  QueueInv'
  <1>1. PICK a : /\ Matches(a) /\ Legal(model, Next1, a) /\ Next1.call = "download"
                 /\ Safe(model, program', After(model, Next1, a))
    BY CallIsSafe DEF Download
  <1>2. UNCHANGED <<model, batch, submitted, copies, staged, mem, want, alive>>
    BY DEF Download, Call
  <1>3. After(model, Next1, a) = a
    BY <1>1 DEF After
  <1>4. Matches(a)'
    BY <1>1, <1>2 DEF Matches, InOrder, QueueEmpty
  <1> QED BY <1>1, <1>2, <1>3, <1>4 DEF QueueInv, InOrder

LEMMA AllocKeeps ==
  ASSUME QueueInv, Alloc
  PROVE  QueueInv'
  <1>1. PICK a : /\ Matches(a) /\ Legal(model, Next1, a) /\ Next1.call = "alloc"
                 /\ Safe(model, program', After(model, Next1, a))
    BY CallIsSafe DEF Alloc
  <1>b. PICK b : b = After(model, Next1, a)
    OBVIOUS
  <1> DEFINE S == Next1.set
             v == [r \in Regions |-> Blank(model, r)]
  <1>2. /\ UNCHANGED <<model, batch, submitted, copies, staged>> /\ ~ submitted
        /\ alive' = alive \cup S /\ mem' = Filled(model, mem, S) /\ want' = Filled(model, want, S)
    BY DEF Alloc, Call, Fresh, Filled
  <1>3. copies = <<>> /\ S \subseteq Regions /\ S \cap alive = {}
    BY <1>1 DEF Legal, Matches
  <1>4. b = HostState(alive', want', a.busy, a.openR, a.openW, FALSE)
    BY <1>b, <1>1, <1>2 DEF After, Matches
  <1> HIDE DEF S
  <1>5. mem' = Patched(mem, S, v) /\ want' = Patched(want, S, v) /\ IsMem(mem') /\ IsMem(want')
    BY <1>2, <1>3 DEF Filled, Patched, IsMem
  <1> HIDE DEF v
  <1>6. Within(batch, Regions \ S) /\ QueueOf(batch, alive') /\ alive' \subseteq Regions
    BY <1>2, <1>3 DEF Within, QueueOf, QueueInv
  <1>7. Explained(batch, mem', want')
    BY <1>3, <1>5, <1>6, PatchBoth
  <1>8. Matches(b)'
    BY <1>1, <1>2, <1>3, <1>4 DEF Matches, InOrder, QueueEmpty, HostState
  <1>9. /\ Targets(<<>>) = {} /\ CopiesOK(<<>>, staged', want') /\ Patched(mem', {}, want') = mem'
        /\ Within(batch, Regions \ Targets(<<>>))
    BY <1>5, NoCopies DEF QueueInv
  <1> QED BY <1>b, <1>1, <1>2, <1>3, <1>5, <1>6, <1>7, <1>8, <1>9 DEF QueueInv, InOrder

LEMMA FreeKeeps ==
  ASSUME QueueInv, Free
  PROVE  QueueInv'
  <1>1. PICK a : /\ Matches(a) /\ Legal(model, Next1, a) /\ Next1.call = "free"
                 /\ Safe(model, program', After(model, Next1, a))
    BY CallIsSafe DEF Free
  <1>b. PICK b : b = After(model, Next1, a)
    OBVIOUS
  <1> DEFINE S == Next1.set
  <1>2. /\ UNCHANGED <<model, batch, submitted, copies, staged, mem, want>> /\ ~ submitted
        /\ alive' = alive \ S /\ (InOrder => QueueEmpty)
    BY DEF Free, Call
  <1>3. copies = <<>> /\ QueueEmpty
    BY <1>1, <1>2 DEF Legal, Matches
  <1>4. b = HostState(alive', want, a.busy, a.openR, a.openW, FALSE)
    BY <1>b, <1>1, <1>2 DEF After, Matches
  <1> HIDE DEF S
  <1>5. QueueOf(batch, alive') /\ alive' \subseteq Regions
    BY <1>2, <1>3, EmptyQueue DEF QueueEmpty, QueueInv
  <1>6. Matches(b)'
    BY <1>1, <1>2, <1>3, <1>4 DEF Matches, InOrder, QueueEmpty, HostState
  <1> QED BY <1>b, <1>1, <1>2, <1>5, <1>6 DEF QueueInv, InOrder

LEMMA MissKeeps ==
  ASSUME QueueInv, Miss
  PROVE  QueueInv'
  <1>1. PICK a : Matches(a) /\ Safe(model, program, a)
    BY DEF QueueInv
  <1>2. /\ UNCHANGED <<model, batch, submitted, copies, staged, mem, want, alive>>
        /\ program # <<>> /\ Head(program).call = "miss"
        /\ program' \in {Tail(program), Head(program).then \o Tail(program)}
    BY DEF Miss, Next1
  <1>3. Safe(model, program', a)
    BY <1>1, <1>2, SafeUnfolds
  <1>4. Matches(a)'
    BY <1>1, <1>2 DEF Matches, InOrder, QueueEmpty
  <1> QED BY <1>2, <1>3, <1>4 DEF QueueInv, InOrder

LEMMA ExecuteKeeps ==
  ASSUME QueueInv, NEW d \in Ready, Execute(d)
  PROVE  QueueInv'
  <1>1. PICK a : Matches(a) /\ Safe(model, program, a)
    BY DEF QueueInv
  <1>2. /\ UNCHANGED <<model, program, submitted, copies, staged, want, alive>>
        /\ mem' = Computed(d.cmd, mem) /\ batch' = Ran(batch, d)
    BY DEF Execute, Ran
  <1>3. batch # <<>> /\ d \in batch[1] /\ copies = <<>>
    BY DEF Ready, QueueInv
  <1>4. Explained(batch, mem, want) /\ QueueOf(batch, alive) /\ IsMem(mem)
          /\ alive \subseteq Regions
    BY <1>3, NoCopies DEF QueueInv
  <1>5. 1 \in 1 .. Len(batch)
    BY <1>3, <1>4, SeqLen DEF QueueOf
  <1>6. Local(d.cmd)
    BY <1>3, <1>4, <1>5 DEF QueueOf, GroupsOK
  <1>7. Explained(batch', mem', want) /\ IsMem(mem')
    BY <1>2, <1>3, <1>4, <1>6, ExplainRun, LocalKeeps DEF QueueOf
  <1>8. QueueOf(batch', alive) /\ Within(batch', Regions)
    BY <1>2, <1>3, <1>4, QueueRan DEF QueueOf, Within
  <1>9. ~ submitted => LastTouches(batch', a.openR, a.openW)
    <2>1. batch' # <<>> => batch'[Len(batch')] \subseteq batch[Len(batch)]
      BY <1>2, <1>3, <1>4, QueueRan
    <2> QED BY <1>1, <1>3, <2>1 DEF LastTouches, Matches
  <1>10. submitted \/ InOrder
    BY DEF Ready
  <1>11. Matches(a)'
    BY <1>1, <1>2, <1>3, <1>9, <1>10 DEF Matches, InOrder, QueueEmpty
  <1>12. /\ Targets(<<>>) = {} /\ CopiesOK(<<>>, staged', want') /\ Patched(mem', {}, want') = mem'
    BY <1>4, <1>7, NoCopies
  <1> QED BY <1>1, <1>2, <1>3, <1>7, <1>8, <1>11, <1>12 DEF QueueInv, InOrder

LEMMA TransferKeeps ==
  ASSUME QueueInv, Transfer
  PROVE  QueueInv'
  <1>1. PICK a : Matches(a) /\ Safe(model, program, a)
    BY DEF QueueInv
  <1> DEFINE e == Head(copies)
             n == Len(copies)
             T == Targets(copies)
             U == Targets(copies')
  <1>2. /\ UNCHANGED <<model, program, batch, submitted, staged, want, alive>>
        /\ copies # <<>> /\ mem' = [mem EXCEPT ![e.to] = e.data] /\ copies' = Tail(copies)
    BY DEF Transfer
  <1>3. CopiesOK(copies, staged, want) /\ IsSeq(copies)
    BY DEF QueueInv, CopiesOK
  <1>4. n \in Nat /\ n # 0 /\ 1 \in 1 .. n
    BY <1>2, <1>3, SeqLen
  <1>5. /\ IsSeq(copies') /\ Len(copies') = n - 1 /\ e = copies[1]
        /\ \A i \in 1 .. n - 1 : copies'[i] = copies[i + 1]
    BY <1>2, <1>3, SeqTail
  <1> HIDE DEF e, n
  <1>6. \A i \in 1 .. n - 1 : i + 1 \in 1 .. n
    BY <1>4
  <1>7. CopiesOK(copies', staged', want')
    <2>1. ASSUME NEW i \in 1 .. n - 1
          PROVE  /\ copies'[i].to \in Regions /\ copies'[i].id \in staged
                 /\ (\A j \in 1 .. n - 1 : j > i => copies'[j].to # copies'[i].to) =>
                      copies'[i].data = want[copies'[i].to]
      <3>1. i + 1 \in 1 .. n /\ copies'[i] = copies[i + 1]
        BY <1>5, <1>6
      <3>2. ASSUME \A j \in 1 .. n - 1 : j > i => copies'[j].to # copies'[i].to,
                   NEW j \in 1 .. n, j > i + 1
            PROVE  copies[j].to # copies[i + 1].to
        <4>1. j - 1 \in 1 .. n - 1 /\ j - 1 > i /\ (j - 1) + 1 = j
          BY <1>4, <3>2
        <4>2. copies'[j - 1] = copies[j]
          BY <1>5, <4>1
        <4> QED BY <3>1, <3>2, <4>1, <4>2
      <3> QED BY <1>3, <3>1, <3>2 DEF CopiesOK, n
    <2> QED BY <1>2, <1>5, <2>1 DEF CopiesOK
  <1>8. T = U \cup {e.to}
    <2>1. \A i \in 1 .. n : i = 1 \/ (i - 1 \in 1 .. n - 1 /\ copies'[i - 1] = copies[i])
      <3>1. ASSUME NEW i \in 1 .. n, i # 1 PROVE i - 1 \in 1 .. n - 1 /\ copies'[i - 1] = copies[i]
        <4>1. i - 1 \in 1 .. n - 1 /\ (i - 1) + 1 = i
          BY <1>4, <3>1
        <4> QED BY <1>5, <4>1
      <3> QED BY <3>1
    <2>2. \A i \in 1 .. n : copies[i].to \in U \cup {e.to}
      BY <1>5, <2>1 DEF Targets
    <2>3. \A i \in 1 .. n - 1 : copies'[i].to \in T
      BY <1>5, <1>6 DEF Targets, n
    <2>4. e.to \in T
      BY <1>4, <1>5 DEF Targets, n
    <2> QED BY <1>5, <2>2, <2>3, <2>4 DEF Targets, n
  <1>9. e.to \in Regions /\ (e.to \notin U => e.data = want[e.to])
    <2>1. ASSUME e.to \notin U, NEW j \in 1 .. n, j > 1 PROVE copies[j].to # copies[1].to
      <3>1. j - 1 \in 1 .. n - 1 /\ (j - 1) + 1 = j
        BY <1>4, <2>1
      <3>2. copies'[j - 1] = copies[j] /\ copies'[j - 1].to \in U
        BY <1>5, <3>1 DEF Targets
      <3> QED BY <1>5, <2>1, <3>2
    <2> QED BY <1>3, <1>4, <1>5, <2>1 DEF CopiesOK, n
  <1> HIDE DEF T, U
  <1>10. mem' = With(mem, e.to, e.data) /\ IsMem(mem')
    <2>1. IsMem(mem) /\ IsMem(want)
      BY DEF QueueInv
    <2> QED BY <1>2, <2>1 DEF IsMem, With
  <1>11. Patched(mem', U, want) = Patched(mem, T, want)
    <2>1. ASSUME NEW r \in Regions PROVE Patched(mem', U, want)[r] = Patched(mem, T, want)[r]
      BY <1>8, <1>9, <1>10 DEF Patched, With
    <2>2. IsMem(Patched(mem', U, want)) /\ IsMem(Patched(mem, T, want))
      BY DEF IsMem, Patched
    <2> QED BY <2>1, <2>2, SameMem
  <1>12. Within(batch, Regions \ U)
    <2>1. Within(batch, Regions \ T)
      BY DEF QueueInv, T
    <2> QED BY <1>8, <2>1 DEF Within
  <1>13. ~ (submitted \/ InOrder)
    BY <1>2 DEF QueueInv
  <1>14. Matches(a)'
    <2>1. a.copying
      BY <1>1, <1>2 DEF Matches
    <2> QED BY <1>1, <1>2, <2>1 DEF Matches, InOrder, QueueEmpty
  <1>15. Explained(batch', Patched(mem', U, want'), want')
    BY <1>2, <1>11 DEF QueueInv, T
  <1> QED BY <1>1, <1>2, <1>7, <1>10, <1>12, <1>13, <1>14, <1>15 DEF QueueInv, InOrder, U

-----------------------------------------------------------------------------
(***************************************************************************)
(* The operators.  Each is local: it changes what it is declared to write, *)
(* from what it is declared to touch.                                      *)
(***************************************************************************)
IsOp(d, op, w, reads, writes, bar) ==
  /\ d.call = "dispatch" /\ d.op = op /\ d.weight = w
  /\ d.reads = reads /\ d.writes = writes /\ d.barrier = bar

Does(d, reads, writes, bar) ==
  /\ d.call = "dispatch" /\ d.reads = reads /\ d.writes = writes /\ d.barrier = bar
  /\ Local(d)

LEMMA RegionNames ==
  /\ InputBuffers \subseteq Regions /\ PassBuffers \subseteq Regions
  /\ ExpertBuffers \subseteq Regions /\ TailBuffers \subseteq Regions
  /\ ModelBuffers \subseteq Regions /\ Slices \subseteq Regions /\ Slices = {"q", "k", "v"}
  /\ {"hidden", "residual", "norm", "attn", "gate", "mlp", "q", "k", "v", "ids", "pos", "slots",
      "tables", "last", "route", "idx", "score", "shs", "exp", "selected", "logits",
      "cache", "slot_gu", "slot_dn", "slot_of"} = Regions
  BY DEF Regions, InputBuffers, PassBuffers, ExpertBuffers, TailBuffers, ModelBuffers, Slices, Q,
         K, V

LEMMA TheOne ==
  ASSUME NEW x
  PROVE  The({x}) = x
  BY DEF The

\* matmul, also on a slice of the qkv buffer.
LEMMA MatmulDoes ==
  ASSUME NEW w, NEW x \in Regions, NEW y \in Regions, NEW bar \in BOOLEAN
  PROVE  LET d == matmulSlice(w, x, y, bar)
         IN  /\ Does(d, {x}, {y}, bar)
             /\ \A c : IsMem(c) => Computed(d, c) = With(c, y, Product(w, c[x]))
  <1> DEFINE d == matmulSlice(w, x, y, bar)
  <1>1. IsOp(d, "matmul", w, {x}, {y}, bar)
    BY DEF IsOp, matmulSlice, matmul, dispatch
  <1> HIDE DEF d
  <1>2. ASSUME NEW c, IsMem(c) PROVE Computed(d, c) = With(c, y, Product(w, c[x]))
    <2>1. Computed(d, c) = [c EXCEPT ![y] = Product(w, c[x])]
      BY <1>1, TheOne DEF Computed, IsOp
    <2> QED BY <1>2, <2>1 DEF With, IsMem
  <1>3. Local(d)
    <2>1. ASSUME NEW c, IsMem(c)
          PROVE  IsMem(Computed(d, c)) /\ \A r \in Regions \ {y} : Computed(d, c)[r] = c[r]
      BY <1>2, <2>1 DEF With, IsMem
    <2>2. ASSUME NEW b, NEW c, IsMem(b), IsMem(c), \A r \in {x} \cup {y} : b[r] = c[r]
          PROVE  Computed(d, b)[y] = Computed(d, c)[y]
      <3>1. \A e : IsMem(e) => Computed(d, e)[y] = Product(w, e[x])
        BY <1>2, RegionNames DEF With
      <3> QED BY <2>2, <3>1
    <2> QED BY <1>1, <2>1, <2>2 DEF Local, IsOp, Touches
  <1> QED BY <1>1, <1>2, <1>3 DEF Does, IsOp, d

\* matmul
LEMMA MatmulWhole ==
  ASSUME NEW w, NEW x \in Regions, NEW y \in Regions
  PROVE  LET d == matmul(w, x, y)
         IN  /\ Does(d, {x}, {y}, TRUE)
             /\ \A c : IsMem(c) => Computed(d, c) = With(c, y, Product(w, c[x]))
  <1> DEFINE d == matmul(w, x, y)
  <1>1. IsOp(d, "matmul", w, {x}, {y}, TRUE)
    BY DEF IsOp, matmul, dispatch
  <1> HIDE DEF d
  <1>2. ASSUME NEW c, IsMem(c) PROVE Computed(d, c) = With(c, y, Product(w, c[x]))
    <2>1. Computed(d, c) = [c EXCEPT ![y] = Product(w, c[x])]
      BY <1>1, TheOne DEF Computed, IsOp
    <2> QED BY <1>2, <2>1 DEF With, IsMem
  <1>3. Local(d)
    <2>1. ASSUME NEW c, IsMem(c)
          PROVE  IsMem(Computed(d, c)) /\ \A r \in Regions \ {y} : Computed(d, c)[r] = c[r]
      BY <1>2, <2>1 DEF With, IsMem
    <2>2. ASSUME NEW b, NEW c, IsMem(b), IsMem(c), \A r \in {x} \cup {y} : b[r] = c[r]
          PROVE  Computed(d, b)[y] = Computed(d, c)[y]
      <3>1. \A e : IsMem(e) => Computed(d, e)[y] = Product(w, e[x])
        BY <1>2, RegionNames DEF With
      <3> QED BY <2>2, <3>1
    <2> QED BY <1>1, <2>1, <2>2 DEF Local, IsOp, Touches
  <1> QED BY <1>1, <1>2, <1>3 DEF Does, IsOp, d

\* rms_norm of the heads of q or k.
LEMMA NormDoes ==
  ASSUME NEW w, NEW s \in Regions, NEW bar \in BOOLEAN
  PROVE  LET d == rms_norm(w, s, bar)
         IN  /\ Does(d, {s}, {s}, bar)
             /\ \A c : IsMem(c) => Computed(d, c) = With(c, s, Normed(w, c[s]))
  <1> DEFINE d == rms_norm(w, s, bar)
  <1>1. IsOp(d, "rms_norm", w, {s}, {s}, bar)
    BY DEF IsOp, rms_norm, InPlace, dispatch
  <1> HIDE DEF d
  <1>2. ASSUME NEW c, IsMem(c) PROVE Computed(d, c) = With(c, s, Normed(w, c[s]))
    <2>1. Computed(d, c) = [c EXCEPT ![s] = Normed(w, c[s])]
      BY <1>1, TheOne DEF Computed, IsOp
    <2> QED BY <1>2, <2>1 DEF With, IsMem
  <1>3. Local(d)
    <2>1. ASSUME NEW c, IsMem(c)
          PROVE  IsMem(Computed(d, c)) /\ \A r \in Regions \ {s} : Computed(d, c)[r] = c[r]
      BY <1>2, <2>1 DEF With, IsMem
    <2>2. ASSUME NEW b, NEW c, IsMem(b), IsMem(c), \A r \in {s} \cup {s} : b[r] = c[r]
          PROVE  Computed(d, b)[s] = Computed(d, c)[s]
      <3>1. \A e : IsMem(e) => Computed(d, e)[s] = Normed(w, e[s])
        BY <1>2, RegionNames DEF With
      <3> QED BY <2>2, <3>1
    <2> QED BY <1>1, <2>1, <2>2 DEF Local, IsOp, Touches
  <1> QED BY <1>1, <1>2, <1>3 DEF Does, IsOp, d

\* add_bias_inplace.
LEMMA BiasDoes ==
  ASSUME NEW w, NEW s \in Regions, NEW bar \in BOOLEAN
  PROVE  LET d == add_bias_inplace(w, s, bar)
         IN  /\ Does(d, {s}, {s}, bar)
             /\ \A c : IsMem(c) => Computed(d, c) = With(c, s, Sum(c[s], w))
  <1> DEFINE d == add_bias_inplace(w, s, bar)
  <1>1. IsOp(d, "add_bias", w, {s}, {s}, bar)
    BY DEF IsOp, add_bias_inplace, InPlace, dispatch
  <1> HIDE DEF d
  <1>2. ASSUME NEW c, IsMem(c) PROVE Computed(d, c) = With(c, s, Sum(c[s], w))
    <2>1. Computed(d, c) = [c EXCEPT ![s] = Sum(c[s], w)]
      BY <1>1, TheOne DEF Computed, IsOp
    <2> QED BY <1>2, <2>1 DEF With, IsMem
  <1>3. Local(d)
    <2>1. ASSUME NEW c, IsMem(c)
          PROVE  IsMem(Computed(d, c)) /\ \A r \in Regions \ {s} : Computed(d, c)[r] = c[r]
      BY <1>2, <2>1 DEF With, IsMem
    <2>2. ASSUME NEW b, NEW c, IsMem(b), IsMem(c), \A r \in {s} \cup {s} : b[r] = c[r]
          PROVE  Computed(d, b)[s] = Computed(d, c)[s]
      <3>1. \A e : IsMem(e) => Computed(d, e)[s] = Sum(e[s], w)
        BY <1>2, RegionNames DEF With
      <3> QED BY <2>2, <3>1
    <2> QED BY <1>1, <2>1, <2>2 DEF Local, IsOp, Touches
  <1> QED BY <1>1, <1>2, <1>3 DEF Does, IsOp, d

\* rope of q or k.
LEMMA RopeDoes ==
  ASSUME NEW s \in Regions, NEW bar \in BOOLEAN
  PROVE  LET d == rope(s, bar)
         IN  /\ Does(d, {s, "pos"}, {s}, bar)
             /\ \A c : IsMem(c) => Computed(d, c) = With(c, s, <<"rope", c["pos"], c[s]>>)
  <1> DEFINE d == rope(s, bar)
  <1>1. IsOp(d, "rope", Weight("inv_freq", 0), {s, "pos"}, {s}, bar)
    BY DEF IsOp, rope, dispatch
  <1> HIDE DEF d
  <1>2. ASSUME NEW c, IsMem(c) PROVE Computed(d, c) = With(c, s, <<"rope", c["pos"], c[s]>>)
    <2>1. Computed(d, c) = [c EXCEPT ![s] = <<"rope", c["pos"], c[s]>>]
      BY <1>1, TheOne DEF Computed, IsOp
    <2> QED BY <1>2, <2>1 DEF With, IsMem
  <1>3. Local(d)
    <2>1. ASSUME NEW c, IsMem(c)
          PROVE  IsMem(Computed(d, c)) /\ \A r \in Regions \ {s} : Computed(d, c)[r] = c[r]
      BY <1>2, <2>1 DEF With, IsMem
    <2>2. ASSUME NEW b, NEW c, IsMem(b), IsMem(c), \A r \in {s, "pos"} \cup {s} : b[r] = c[r]
          PROVE  Computed(d, b)[s] = Computed(d, c)[s]
      <3>1. \A e : IsMem(e) => Computed(d, e)[s] = <<"rope", e["pos"], e[s]>>
        BY <1>2, RegionNames DEF With
      <3> QED BY <2>2, <3>1
    <2> QED BY <1>1, <2>1, <2>2 DEF Local, IsOp, Touches
  <1> QED BY <1>1, <1>2, <1>3 DEF Does, IsOp, d

\* paged_attention of one layer.
LEMMA AttendDoes ==
  ASSUME NEW l
  PROVE  LET d == paged_attention(l)
         IN  /\ Does(d, {"q", "cache", "tables"}, {"attn"}, TRUE)
             /\ \A c : IsMem(c)
                  => Computed(d, c) = With(c, "attn", <<"attention", c["q"], c["cache"][l]>>)
  <1> DEFINE d == paged_attention(l)
  <1>1. IsOp(d, "paged_attention", Weight("cache", l), {"q", "cache", "tables"}, {"attn"}, TRUE)
    BY DEF IsOp, paged_attention, dispatch, Q
  <1> HIDE DEF d
  <1>2. ASSUME NEW c, IsMem(c)
        PROVE Computed(d, c) = With(c, "attn", <<"attention", c["q"], c["cache"][l]>>)
    <2>1. Computed(d, c) = [c EXCEPT !["attn"] = <<"attention", c["q"], c["cache"][l]>>]
      BY <1>1, TheOne DEF Computed, IsOp, Weight
    <2> QED BY <1>2, <2>1 DEF With, IsMem
  <1>3. Local(d)
    <2>1. ASSUME NEW c, IsMem(c)
          PROVE  IsMem(Computed(d, c)) /\ \A r \in Regions \ {"attn"} : Computed(d, c)[r] = c[r]
      BY <1>2, <2>1 DEF With, IsMem
    <2>2. ASSUME NEW b, NEW c, IsMem(b), IsMem(c),
                 \A r \in {"q", "cache", "tables"} \cup {"attn"} : b[r] = c[r]
          PROVE  Computed(d, b)["attn"] = Computed(d, c)["attn"]
      <3>1. \A e : IsMem(e) => Computed(d, e)["attn"] = <<"attention", e["q"], e["cache"][l]>>
        BY <1>2, RegionNames DEF With
      <3> QED BY <2>2, <3>1
    <2> QED BY <1>1, <2>1, <2>2 DEF Local, IsOp, Touches
  <1> QED BY <1>1, <1>2, <1>3 DEF Does, IsOp, d

\* silu_and_mul.
LEMMA SiluDoes ==
  LET d == silu_and_mul
         IN  /\ Does(d, {"gate"}, {"mlp"}, TRUE)
             /\ \A c : IsMem(c) => Computed(d, c) = With(c, "mlp", <<"silu * up", c["gate"]>>)
  <1> DEFINE d == silu_and_mul
  <1>1. IsOp(d, "silu_and_mul", <<>>, {"gate"}, {"mlp"}, TRUE)
    BY DEF IsOp, silu_and_mul, dispatch
  <1> HIDE DEF d
  <1>2. ASSUME NEW c, IsMem(c) PROVE Computed(d, c) = With(c, "mlp", <<"silu * up", c["gate"]>>)
    <2>1. Computed(d, c) = [c EXCEPT !["mlp"] = <<"silu * up", c["gate"]>>]
      BY <1>1, TheOne DEF Computed, IsOp
    <2> QED BY <1>2, <2>1 DEF With, IsMem
  <1>3. Local(d)
    <2>1. ASSUME NEW c, IsMem(c)
          PROVE  IsMem(Computed(d, c)) /\ \A r \in Regions \ {"mlp"} : Computed(d, c)[r] = c[r]
      BY <1>2, <2>1 DEF With, IsMem
    <2>2. ASSUME NEW b, NEW c, IsMem(b), IsMem(c), \A r \in {"gate"} \cup {"mlp"} : b[r] = c[r]
          PROVE  Computed(d, b)["mlp"] = Computed(d, c)["mlp"]
      <3>1. \A e : IsMem(e) => Computed(d, e)["mlp"] = <<"silu * up", e["gate"]>>
        BY <1>2, RegionNames DEF With
      <3> QED BY <2>2, <3>1
    <2> QED BY <1>1, <2>1, <2>2 DEF Local, IsOp, Touches
  <1> QED BY <1>1, <1>2, <1>3 DEF Does, IsOp, d

\* scale_sigmoid.
LEMMA ScaleDoes ==
  LET d == scale_sigmoid
         IN  /\ Does(d, {"hidden", "shs"}, {"hidden"}, TRUE)
             /\ \A c : IsMem(c)
                  => Computed(d, c) = With(c, "hidden", <<"scaled", c["hidden"], c["shs"]>>)
  <1> DEFINE d == scale_sigmoid
  <1>1. IsOp(d, "scale_sigmoid", <<>>, {"hidden", "shs"}, {"hidden"}, TRUE)
    BY DEF IsOp, scale_sigmoid, dispatch
  <1> HIDE DEF d
  <1>2. ASSUME NEW c, IsMem(c)
        PROVE Computed(d, c) = With(c, "hidden", <<"scaled", c["hidden"], c["shs"]>>)
    <2>1. Computed(d, c) = [c EXCEPT !["hidden"] = <<"scaled", c["hidden"], c["shs"]>>]
      BY <1>1, TheOne DEF Computed, IsOp
    <2> QED BY <1>2, <2>1 DEF With, IsMem
  <1>3. Local(d)
    <2>1. ASSUME NEW c, IsMem(c)
          PROVE  IsMem(Computed(d, c)) /\ \A r \in Regions \ {"hidden"} : Computed(d, c)[r] = c[r]
      BY <1>2, <2>1 DEF With, IsMem
    <2>2. ASSUME NEW b, NEW c, IsMem(b), IsMem(c),
                 \A r \in {"hidden", "shs"} \cup {"hidden"} : b[r] = c[r]
          PROVE  Computed(d, b)["hidden"] = Computed(d, c)["hidden"]
      <3>1. \A e : IsMem(e) => Computed(d, e)["hidden"] = <<"scaled", e["hidden"], e["shs"]>>
        BY <1>2, RegionNames DEF With
      <3> QED BY <2>2, <3>1
    <2> QED BY <1>1, <2>1, <2>2 DEF Local, IsOp, Touches
  <1> QED BY <1>1, <1>2, <1>3 DEF Does, IsOp, d

\* embedding.
LEMMA EmbedDoes ==
  LET d == embedding
         IN  /\ Does(d, {"ids"}, {"hidden"}, TRUE)
             /\ \A c : IsMem(c)
                  => Computed(d, c) = With(c, "hidden", <<"rows", Weight("embed", 0), c["ids"]>>)
  <1> DEFINE d == embedding
  <1>1. IsOp(d, "embedding", Weight("embed", 0), {"ids"}, {"hidden"}, TRUE)
    BY DEF IsOp, embedding, dispatch
  <1> HIDE DEF d
  <1>2. ASSUME NEW c, IsMem(c)
        PROVE Computed(d, c) = With(c, "hidden", <<"rows", Weight("embed", 0), c["ids"]>>)
    <2>1. Computed(d, c) = [c EXCEPT !["hidden"] = <<"rows", Weight("embed", 0), c["ids"]>>]
      BY <1>1, TheOne DEF Computed, IsOp
    <2> QED BY <1>2, <2>1 DEF With, IsMem
  <1>3. Local(d)
    <2>1. ASSUME NEW c, IsMem(c)
          PROVE  IsMem(Computed(d, c)) /\ \A r \in Regions \ {"hidden"} : Computed(d, c)[r] = c[r]
      BY <1>2, <2>1 DEF With, IsMem
    <2>2. ASSUME NEW b, NEW c, IsMem(b), IsMem(c), \A r \in {"ids"} \cup {"hidden"} : b[r] = c[r]
          PROVE  Computed(d, b)["hidden"] = Computed(d, c)["hidden"]
      <3>1. \A e : IsMem(e) => Computed(d, e)["hidden"] = <<"rows", Weight("embed", 0), e["ids"]>>
        BY <1>2, RegionNames DEF With
      <3> QED BY <2>2, <3>1
    <2> QED BY <1>1, <2>1, <2>2 DEF Local, IsOp, Touches
  <1> QED BY <1>1, <1>2, <1>3 DEF Does, IsOp, d

\* gather_rows.
LEMMA GatherDoes ==
  LET d == gather_rows
         IN  /\ Does(d, {"norm", "last"}, {"selected"}, TRUE)
             /\ \A c : IsMem(c)
                  => Computed(d, c) = With(c, "selected", <<"rows", c["norm"], c["last"]>>)
  <1> DEFINE d == gather_rows
  <1>1. IsOp(d, "gather_rows", <<>>, {"norm", "last"}, {"selected"}, TRUE)
    BY DEF IsOp, gather_rows, dispatch
  <1> HIDE DEF d
  <1>2. ASSUME NEW c, IsMem(c)
        PROVE Computed(d, c) = With(c, "selected", <<"rows", c["norm"], c["last"]>>)
    <2>1. Computed(d, c) = [c EXCEPT !["selected"] = <<"rows", c["norm"], c["last"]>>]
      BY <1>1, TheOne DEF Computed, IsOp
    <2> QED BY <1>2, <2>1 DEF With, IsMem
  <1>3. Local(d)
    <2>1. ASSUME NEW c, IsMem(c)
          PROVE  IsMem(Computed(d, c)) /\ \A r \in Regions \ {"selected"} : Computed(d, c)[r] = c[r]
      BY <1>2, <2>1 DEF With, IsMem
    <2>2. ASSUME NEW b, NEW c, IsMem(b), IsMem(c),
                 \A r \in {"norm", "last"} \cup {"selected"} : b[r] = c[r]
          PROVE  Computed(d, b)["selected"] = Computed(d, c)["selected"]
      <3>1. \A e : IsMem(e) => Computed(d, e)["selected"] = <<"rows", e["norm"], e["last"]>>
        BY <1>2, RegionNames DEF With
      <3> QED BY <2>2, <3>1
    <2> QED BY <1>1, <2>1, <2>2 DEF Local, IsOp, Touches
  <1> QED BY <1>1, <1>2, <1>3 DEF Does, IsOp, d

\* memset.
LEMMA MemsetDoes ==
  LET d == memset
         IN  /\ Does(d, {}, {"hidden"}, TRUE)
             /\ \A c : IsMem(c) => Computed(d, c) = With(c, "hidden", Zeros)
  <1> DEFINE d == memset
  <1>1. IsOp(d, "memset", <<>>, {}, {"hidden"}, TRUE)
    BY DEF IsOp, memset, dispatch
  <1> HIDE DEF d
  <1>2. ASSUME NEW c, IsMem(c) PROVE Computed(d, c) = With(c, "hidden", Zeros)
    <2>1. Computed(d, c) = [c EXCEPT !["hidden"] = Zeros]
      BY <1>1, TheOne DEF Computed, IsOp
    <2> QED BY <1>2, <2>1 DEF With, IsMem
  <1>3. Local(d)
    <2>1. ASSUME NEW c, IsMem(c)
          PROVE  IsMem(Computed(d, c)) /\ \A r \in Regions \ {"hidden"} : Computed(d, c)[r] = c[r]
      BY <1>2, <2>1 DEF With, IsMem
    <2>2. ASSUME NEW b, NEW c, IsMem(b), IsMem(c), \A r \in {} \cup {"hidden"} : b[r] = c[r]
          PROVE  Computed(d, b)["hidden"] = Computed(d, c)["hidden"]
      <3>1. \A e : IsMem(e) => Computed(d, e)["hidden"] = Zeros
        BY <1>2, RegionNames DEF With
      <3> QED BY <2>2, <3>1
    <2> QED BY <1>1, <2>1, <2>2 DEF Local, IsOp, Touches
  <1> QED BY <1>1, <1>2, <1>3 DEF Does, IsOp, d

\* moe_ffn of one chunk.
LEMMA ExpertsDo ==
  ASSUME NEW l, NEW k
  PROVE  LET d == moe_ffn(l, k)
         IN  /\ Does(d, {"norm", "idx", "score", "slot_gu", "slot_dn", "slot_of", "hidden"},
                  {"hidden"}, TRUE)
             /\ \A c : IsMem(c)
                  => Computed(d, c)
                    = With(c, "hidden",
                      AddRows(c["hidden"], Experts(Weight("experts", l), c["norm"], c["idx"], k),
                        k))
  <1> DEFINE d == moe_ffn(l, k)
  <1>1. IsOp(d, "moe_ffn", Weight("experts", l),
          {"norm", "idx", "score", "slot_gu", "slot_dn", "slot_of", "hidden"}, {"hidden"}, TRUE)
            /\ d.chunk = k
    BY DEF IsOp, moe_ffn, dispatch
  <1> HIDE DEF d
  <1>2. ASSUME NEW c, IsMem(c)
        PROVE Computed(d, c)
                = With(c, "hidden",
                  AddRows(c["hidden"], Experts(Weight("experts", l), c["norm"], c["idx"], k), k))
    <2>1. Computed(d, c)
            = [c EXCEPT !["hidden"]
              = AddRows(c["hidden"], Experts(Weight("experts", l), c["norm"], c["idx"], k), k)]
      BY <1>1, TheOne DEF Computed, IsOp
    <2> QED BY <1>2, <2>1 DEF With, IsMem
  <1>3. Local(d)
    <2>1. ASSUME NEW c, IsMem(c)
          PROVE  IsMem(Computed(d, c)) /\ \A r \in Regions \ {"hidden"} : Computed(d, c)[r] = c[r]
      BY <1>2, <2>1 DEF With, IsMem
    <2>2. ASSUME NEW b, NEW c, IsMem(b), IsMem(c),
                 \A r \in {"norm", "idx", "score", "slot_gu", "slot_dn", "slot_of", "hidden"}
                   \cup {"hidden"} : b[r] = c[r]
          PROVE  Computed(d, b)["hidden"] = Computed(d, c)["hidden"]
      <3>1. \A e : IsMem(e)
              => Computed(d, e)["hidden"]
                = AddRows(e["hidden"], Experts(Weight("experts", l), e["norm"], e["idx"], k), k)
        BY <1>2, RegionNames DEF With
      <3> QED BY <2>2, <3>1
    <2> QED BY <1>1, <2>1, <2>2 DEF Local, IsOp, Touches
  <1> QED BY <1>1, <1>2, <1>3 DEF Does, IsOp, d

\* add_buf.
LEMMA AddDoes ==
  LET d == add_buf
         IN  /\ Does(d, {"hidden", "exp"}, {"hidden"}, TRUE)
             /\ \A c : IsMem(c)
                  => Computed(d, c) = With(c, "hidden", PlusExperts(c["hidden"], c["exp"]))
  <1> DEFINE d == add_buf
  <1>1. IsOp(d, "add_buf", <<>>, {"hidden", "exp"}, {"hidden"}, TRUE)
    BY DEF IsOp, add_buf, dispatch
  <1> HIDE DEF d
  <1>2. ASSUME NEW c, IsMem(c)
        PROVE Computed(d, c) = With(c, "hidden", PlusExperts(c["hidden"], c["exp"]))
    <2>1. Computed(d, c) = [c EXCEPT !["hidden"] = PlusExperts(c["hidden"], c["exp"])]
      BY <1>1, TheOne DEF Computed, IsOp
    <2> QED BY <1>2, <2>1 DEF With, IsMem
  <1>3. Local(d)
    <2>1. ASSUME NEW c, IsMem(c)
          PROVE  IsMem(Computed(d, c)) /\ \A r \in Regions \ {"hidden"} : Computed(d, c)[r] = c[r]
      BY <1>2, <2>1 DEF With, IsMem
    <2>2. ASSUME NEW b, NEW c, IsMem(b), IsMem(c),
                 \A r \in {"hidden", "exp"} \cup {"hidden"} : b[r] = c[r]
          PROVE  Computed(d, b)["hidden"] = Computed(d, c)["hidden"]
      <3>1. \A e : IsMem(e) => Computed(d, e)["hidden"] = PlusExperts(e["hidden"], e["exp"])
        BY <1>2, RegionNames DEF With
      <3> QED BY <2>2, <3>1
    <2> QED BY <1>1, <2>1, <2>2 DEF Local, IsOp, Touches
  <1> QED BY <1>1, <1>2, <1>3 DEF Does, IsOp, d

\* rms_norm_add.
LEMMA AddNormDoes ==
  ASSUME NEW w
  PROVE  LET d == rms_norm_add(w)
         IN  /\ Does(d, {"hidden", "residual"}, {"residual", "norm"}, TRUE)
             /\ \A c : IsMem(c) =>
                  Computed(d, c)
                    = With(With(c, "residual", Sum(c["residual"], c["hidden"])), "norm",
                      Normed(w, Sum(c["residual"], c["hidden"])))
  <1> DEFINE d == rms_norm_add(w)
  <1>1. IsOp(d, "rms_norm_add", w, {"hidden", "residual"}, {"residual", "norm"}, TRUE)
    BY DEF IsOp, rms_norm_add, dispatch
  <1> HIDE DEF d
  <1>2. ASSUME NEW c, IsMem(c)
        PROVE  Computed(d, c)
                 = With(With(c, "residual", Sum(c["residual"], c["hidden"])), "norm",
                   Normed(w, Sum(c["residual"], c["hidden"])))
    <2> DEFINE v == Sum(c["residual"], c["hidden"])
               w2 == Normed(w, Sum(c["residual"], c["hidden"]))
               e == [c EXCEPT !["residual"] = v]
               f == [e EXCEPT !["norm"] = w2]
    <2>1. Computed(d, c) = f
      BY <1>1 DEF Computed, IsOp
    <2> HIDE DEF v, w2
    <2>2. e = With(c, "residual", v)
      BY <1>2 DEF With, IsMem
    <2> HIDE DEF e
    <2>3. f = With(e, "norm", w2)
      BY <2>2 DEF With
    <2> QED BY <2>1, <2>2, <2>3 DEF v, w2
  <1>3. Local(d)
    <2>1. ASSUME NEW c, IsMem(c)
          PROVE  IsMem(Computed(d, c))
                   /\ \A r \in Regions \ {"residual", "norm"} : Computed(d, c)[r] = c[r]
      BY <1>2, <2>1 DEF With, IsMem
    <2>2. ASSUME NEW b, NEW c, IsMem(b), IsMem(c),
                 \A r \in {"hidden", "residual"} \cup {"residual", "norm"} : b[r] = c[r]
          PROVE  Computed(d, b)["residual"] = Computed(d, c)["residual"]
                   /\ Computed(d, b)["norm"] = Computed(d, c)["norm"]
      BY <1>2, <2>2, RegionNames DEF With
    <2> QED BY <1>1, <2>1, <2>2 DEF Local, IsOp, Touches
  <1> QED BY <1>1, <1>2, <1>3 DEF Does, IsOp, d

\* moe_route.
LEMMA RouteDoes ==
  LET d == moe_route
         IN  /\ Does(d, {"route"}, {"idx", "score"}, TRUE)
             /\ \A c : IsMem(c) =>
                  Computed(d, c) = With(With(c, "idx", TopK(c["route"])), "score", TopK(c["route"]))
  <1> DEFINE d == moe_route
  <1>1. IsOp(d, "moe_route", <<>>, {"route"}, {"idx", "score"}, TRUE)
    BY DEF IsOp, moe_route, dispatch
  <1> HIDE DEF d
  <1>2. ASSUME NEW c, IsMem(c)
        PROVE  Computed(d, c) = With(With(c, "idx", TopK(c["route"])), "score", TopK(c["route"]))
    <2> DEFINE v == TopK(c["route"])
               w2 == TopK(c["route"])
               e == [c EXCEPT !["idx"] = v]
               f == [e EXCEPT !["score"] = w2]
    <2>1. Computed(d, c) = f
      BY <1>1 DEF Computed, IsOp
    <2> HIDE DEF v, w2
    <2>2. e = With(c, "idx", v)
      BY <1>2 DEF With, IsMem
    <2> HIDE DEF e
    <2>3. f = With(e, "score", w2)
      BY <2>2 DEF With
    <2> QED BY <2>1, <2>2, <2>3 DEF v, w2
  <1>3. Local(d)
    <2>1. ASSUME NEW c, IsMem(c)
          PROVE  IsMem(Computed(d, c))
                   /\ \A r \in Regions \ {"idx", "score"} : Computed(d, c)[r] = c[r]
      BY <1>2, <2>1 DEF With, IsMem
    <2>2. ASSUME NEW b, NEW c, IsMem(b), IsMem(c),
                 \A r \in {"route"} \cup {"idx", "score"} : b[r] = c[r]
          PROVE  Computed(d, b)["idx"] = Computed(d, c)["idx"]
                   /\ Computed(d, b)["score"] = Computed(d, c)["score"]
      BY <1>2, <2>2, RegionNames DEF With
    <2> QED BY <1>1, <2>1, <2>2 DEF Local, IsOp, Touches
  <1> QED BY <1>1, <1>2, <1>3 DEF Does, IsOp, d

\* store_kv of one layer.
LEMMA StoreDoes ==
  ASSUME NEW l
  PROVE  LET d == store_kv(l)
         IN  /\ Does(d, {"k", "v", "slots"}, {"cache"}, TRUE)
             /\ \A c : IsMem(c)
                  => Computed(d, c)
                    = With(c, "cache", [c["cache"] EXCEPT ![l] = <<c["k"], c["v"]>>])
  <1> DEFINE d == store_kv(l)
  <1>1. IsOp(d, "store_kv", Weight("cache", l), {"k", "v", "slots"}, {"cache"}, TRUE)
    BY DEF IsOp, store_kv, dispatch, K, V
  <1> HIDE DEF d
  <1>2. ASSUME NEW c, IsMem(c)
        PROVE Computed(d, c) = With(c, "cache", [c["cache"] EXCEPT ![l] = <<c["k"], c["v"]>>])
    <2>1. Computed(d, c) = [c EXCEPT !["cache"] = [c["cache"] EXCEPT ![l] = <<c["k"], c["v"]>>]]
      BY <1>1, TheOne DEF Computed, IsOp, Weight
    <2> QED BY <1>2, <2>1 DEF With, IsMem
  <1>3. Local(d)
    <2>1. ASSUME NEW c, IsMem(c)
          PROVE  IsMem(Computed(d, c)) /\ \A r \in Regions \ {"cache"} : Computed(d, c)[r] = c[r]
      BY <1>2, <2>1 DEF With, IsMem
    <2>2. ASSUME NEW b, NEW c, IsMem(b), IsMem(c),
                 \A r \in {"k", "v", "slots"} \cup {"cache"} : b[r] = c[r]
          PROVE  Computed(d, b)["cache"] = Computed(d, c)["cache"]
      <3> DEFINE G(x, y, z) == [x EXCEPT ![l] = <<y, z>>]
      <3>1. \A e : IsMem(e) => Computed(d, e)["cache"] = G(e["cache"], e["k"], e["v"])
        BY <1>2, RegionNames DEF With
      <3>2. b["cache"] = c["cache"] /\ b["k"] = c["k"] /\ b["v"] = c["v"]
        BY <2>2
      <3> HIDE DEF G
      <3> QED BY <2>2, <3>1, <3>2
    <2> QED BY <1>1, <2>1, <2>2 DEF Local, IsOp, Touches
  <1> QED BY <1>1, <1>2, <1>3 DEF Does, IsOp, d

\* moe_route_ffn of one chunk.
LEMMA FusedDoes ==
  ASSUME NEW l, NEW k
  PROVE  LET d == moe_route_ffn(l, k)
             R == {"norm", "route", "slot_gu", "slot_dn", "slot_of"}
         IN  /\ Does(d, R, {"idx", "score", "exp"}, TRUE)
             /\ \A c : IsMem(c) =>
                  Computed(d, c) =
                    With(With(With(c, "idx", TopK(c["route"])), "score", TopK(c["route"])),
                         "exp", c["exp"] \cup Experts(Weight("experts", l), c["norm"],
                                                      TopK(c["route"]), k))
  <1> DEFINE d == moe_route_ffn(l, k)
             R == {"norm", "route", "slot_gu", "slot_dn", "slot_of"}
             E(c) == c["exp"] \cup Experts(Weight("experts", l), c["norm"], TopK(c["route"]), k)
             F(c) == With(With(With(c, "idx", TopK(c["route"])), "score", TopK(c["route"])),
                          "exp", E(c))
  <1>1. IsOp(d, "moe_route_ffn", Weight("experts", l), R, {"idx", "score", "exp"}, TRUE)
          /\ d.chunk = k
    BY DEF IsOp, moe_route_ffn, dispatch
  <1> HIDE DEF d
  <1>2. ASSUME NEW c, IsMem(c) PROVE Computed(d, c) = F(c)
    <2> DEFINE t == TopK(c["route"])
               x == E(c)
               e == [c EXCEPT !["idx"] = t]
               f == [e EXCEPT !["score"] = t]
               g == [f EXCEPT !["exp"] = x]
    <2>1. f["exp"] = c["exp"] => Computed(d, c) = g
      BY <1>1 DEF Computed, IsOp
    <2> HIDE DEF t, x
    <2>2. e = With(c, "idx", t)
      BY <1>2 DEF With, IsMem
    <2> HIDE DEF e
    <2>3. f = With(e, "score", t) /\ f["exp"] = c["exp"]
      BY <2>2, RegionNames DEF With
    <2> HIDE DEF f
    <2>4. g = With(f, "exp", x)
      BY <2>3 DEF With
    <2> QED BY <2>1, <2>2, <2>3, <2>4 DEF t, x
  <1> HIDE DEF E
  <1>3. Local(d)
    <2>1. ASSUME NEW c, IsMem(c)
          PROVE  /\ IsMem(Computed(d, c))
                 /\ \A r \in Regions \ {"idx", "score", "exp"} : Computed(d, c)[r] = c[r]
      BY <1>2, <2>1 DEF With, IsMem
    <2>2. ASSUME NEW b, NEW c, IsMem(b), IsMem(c),
                 \A r \in R \cup {"idx", "score", "exp"} : b[r] = c[r]
          PROVE  \A r \in {"idx", "score", "exp"} : Computed(d, b)[r] = Computed(d, c)[r]
      <3>1. E(b) = E(c) /\ b["route"] = c["route"]
        BY <2>2 DEF E
      <3>2. ASSUME NEW e, IsMem(e)
            PROVE  /\ Computed(d, e)["idx"] = TopK(e["route"])
                   /\ Computed(d, e)["score"] = TopK(e["route"]) /\ Computed(d, e)["exp"] = E(e)
        BY <1>2, <3>2, RegionNames DEF With
      <3> QED BY <2>2, <3>1, <3>2
    <2> QED BY <1>1, <2>1, <2>2 DEF Local, IsOp, Touches
  <1> QED BY <1>1, <1>2, <1>3 DEF Does, IsOp, d, E

-----------------------------------------------------------------------------
(***************************************************************************)
(* Programs, from their first call on.                                     *)
(***************************************************************************)
LEMMA ConsIsSeq ==
  ASSUME NEW a, NEW q, IsSeq(q)
  PROVE  IsSeq(<<a>> \o q)
  <1>1. PICK S : q \in Seq(S)
    BY DEF IsSeq
  <1>2. q \in Seq(S \cup {a}) /\ <<a>> \in Seq(S \cup {a})
    BY <1>1
  <1>3. <<a>> \o q \in Seq(S \cup {a})
    BY <1>2
  <1> QED BY <1>3 DEF IsSeq

LEMMA JoinIsSeq ==
  ASSUME NEW p, NEW q, IsSeq(p), IsSeq(q)
  PROVE  IsSeq(p \o q)
  BY SeqConcat DEF IsSeq

LEMMA Joins ==
  ASSUME NEW p, NEW q, NEW r, IsSeq(p), IsSeq(q), IsSeq(r)
  PROVE  (p \o q) \o r = p \o (q \o r)
  <1>1. PICK S : p \in Seq(S) /\ q \in Seq(S) /\ p \o q \in Seq(S)
    BY SeqConcat
  <1>2. PICK T : r \in Seq(T)
    BY DEF IsSeq
  <1> DEFINE U == S \cup T
  <1>3. p \in Seq(U) /\ q \in Seq(U) /\ r \in Seq(U)
    BY <1>1, <1>2
  <1> HIDE DEF U
  <1> QED BY <1>3

\* The same, opaque to the provers.
Join(p, q) == p \o q

LEMMA JoinTwo ==
  ASSUME NEW p, NEW r, IsSeq(p), IsSeq(r)
  PROVE  IsSeq(Join(p, r))
  BY JoinIsSeq DEF Join

LEMMA JoinsTwo ==
  ASSUME NEW p, NEW r, NEW q, IsSeq(p), IsSeq(r), IsSeq(q)
  PROVE  Join(Join(p, r), q) = Join(p, Join(r, q))
  <1>1. (p \o r) \o q = p \o (r \o q)
    BY Joins
  <1> QED BY <1>1, Zenon DEF Join

LEMMA Unroll ==
  ASSUME NEW p, IsSeq(p), p # <<>>, NEW q, IsSeq(q)
  PROVE  p \o q = <<Head(p)>> \o (Tail(p) \o q) /\ IsSeq(Tail(p) \o q)
  <1>1. PICK S : p \in Seq(S) /\ q \in Seq(S)
    BY SeqConcat
  <1>2. p \o q = <<Head(p)>> \o (Tail(p) \o q)
    BY <1>1
  <1>3. Tail(p) \o q \in Seq(S)
    BY <1>1
  <1> QED BY <1>2, <1>3 DEF IsSeq

LEMMA LiteralIsSeq ==
  /\ IsSeq(<<>>) /\ \A a : IsSeq(<<a>>) /\ \A b : IsSeq(<<a, b>>) /\ \A c : IsSeq(<<a, b, c>>)
       /\ \A d : IsSeq(<<a, b, c, d>>) /\ \A e : IsSeq(<<a, b, c, d, e>>)
  <1>1. \A a, b, c, d, e :
          /\ <<>> \in Seq({}) /\ <<a>> \in Seq({a}) /\ <<a, b>> \in Seq({a, b})
          /\ <<a, b, c>> \in Seq({a, b, c}) /\ <<a, b, c, d>> \in Seq({a, b, c, d})
          /\ <<a, b, c, d, e>> \in Seq({a, b, c, d, e})
    OBVIOUS
  <1> QED BY <1>1 DEF IsSeq

LEMMA Cons2 ==
  ASSUME NEW a, NEW b, NEW q, IsSeq(q)
  PROVE  /\ <<a, b>> \o q = <<a>> \o (<<b>> \o q)
         /\ IsSeq(<<b>> \o q)
  <1> DEFINE p == <<a, b>>
  <1>1. p # <<>> /\ Head(p) = a /\ Tail(p) = <<b>>
    OBVIOUS
  <1>2. IsSeq(p)
    BY LiteralIsSeq
  <1> HIDE DEF p
  <1>3. p \o q = <<Head(p)>> \o (Tail(p) \o q) /\ IsSeq(Tail(p) \o q)
    BY <1>1, <1>2, Unroll
  <1>4. p \o q = <<a>> \o (<<b>> \o q) /\ IsSeq(<<b>> \o q)
    BY <1>1, <1>3, Zenon
  <1> QED BY <1>4, Zenon DEF p

LEMMA Cons3 ==
  ASSUME NEW a, NEW b, NEW c, NEW q, IsSeq(q)
  PROVE  /\ <<a, b, c>> \o q = <<a>> \o (<<b, c>> \o q)
         /\ IsSeq(<<b, c>> \o q)
  <1> DEFINE p == <<a, b, c>>
  <1>1. p # <<>> /\ Head(p) = a /\ Tail(p) = <<b, c>>
    OBVIOUS
  <1>2. IsSeq(p)
    BY LiteralIsSeq
  <1> HIDE DEF p
  <1>3. p \o q = <<Head(p)>> \o (Tail(p) \o q) /\ IsSeq(Tail(p) \o q)
    BY <1>1, <1>2, Unroll
  <1>4. p \o q = <<a>> \o (<<b, c>> \o q) /\ IsSeq(<<b, c>> \o q)
    BY <1>1, <1>3, Zenon
  <1> QED BY <1>4, Zenon DEF p

LEMMA Cons4 ==
  ASSUME NEW a, NEW b, NEW c, NEW d, NEW q, IsSeq(q)
  PROVE  /\ <<a, b, c, d>> \o q = <<a>> \o (<<b, c, d>> \o q)
         /\ IsSeq(<<b, c, d>> \o q)
  <1> DEFINE p == <<a, b, c, d>>
  <1>1. p # <<>> /\ Head(p) = a /\ Tail(p) = <<b, c, d>>
    OBVIOUS
  <1>2. IsSeq(p)
    BY LiteralIsSeq
  <1> HIDE DEF p
  <1>3. p \o q = <<Head(p)>> \o (Tail(p) \o q) /\ IsSeq(Tail(p) \o q)
    BY <1>1, <1>2, Unroll
  <1>4. p \o q = <<a>> \o (<<b, c, d>> \o q) /\ IsSeq(<<b, c, d>> \o q)
    BY <1>1, <1>3, Zenon
  <1> QED BY <1>4, Zenon DEF p

LEMMA Cons5 ==
  ASSUME NEW a, NEW b, NEW c, NEW d, NEW e, NEW q, IsSeq(q)
  PROVE  /\ <<a, b, c, d, e>> \o q = <<a>> \o (<<b, c, d, e>> \o q)
         /\ IsSeq(<<b, c, d, e>> \o q)
  <1> DEFINE p == <<a, b, c, d, e>>
  <1>1. p # <<>> /\ Head(p) = a /\ Tail(p) = <<b, c, d, e>>
    OBVIOUS
  <1>2. IsSeq(p)
    BY LiteralIsSeq
  <1> HIDE DEF p
  <1>3. p \o q = <<Head(p)>> \o (Tail(p) \o q) /\ IsSeq(Tail(p) \o q)
    BY <1>1, <1>2, Unroll
  <1>4. p \o q = <<a>> \o (<<b, c, d, e>> \o q) /\ IsSeq(<<b, c, d, e>> \o q)
    BY <1>1, <1>3, Zenon
  <1> QED BY <1>4, Zenon DEF p

LEMMA NilFirst ==
  ASSUME NEW q, IsSeq(q)
  PROVE  <<>> \o q = q
  <1>1. PICK S : q \in Seq(S)
    BY DEF IsSeq
  <1> QED BY <1>1

-----------------------------------------------------------------------------
(***************************************************************************)
(* What makes a program safe, by its first call.                           *)
(***************************************************************************)
\* What is queued when dispatches that touch no expert have been made.
Level(m) == IF Hip(m) THEN {} ELSE Plain
LevelOf(m, bs, R) == IF Hip(m) THEN {} ELSE IF bs \cup R \subseteq Plain THEN Plain ELSE Regions

\* The regions of the dispatches since the last barrier.
Open(m, bar, S) == IF bar \/ Hip(m) THEN {} ELSE S

LEMMA DispatchCall ==
  ASSUME NEW m, NEW d, NEW R, NEW W, NEW bar, Does(d, R, W, bar), W # {},
         NEW al, R \cup W \subseteq al, al \subseteq Regions, NEW w, NEW bs, NEW oR, NEW oW,
         W \cap (oR \cup oW) = {}, R \cap oW = {}, NEW q, IsSeq(q),
         NEW cs, cs = LevelOf(m, bs, R \cup W),
         NEW nR, nR = Open(m, bar, oR \cup R), NEW nW, nW = Open(m, bar, oW \cup W),
         Safe(m, q, HostState(al, Computed(d, w), cs, nR, nW, FALSE))
  PROVE  Safe(m, <<d>> \o q, HostState(al, w, bs, oR, oW, FALSE))
  <1> DEFINE a == HostState(al, w, bs, oR, oW, FALSE)
             b == HostState(al, Computed(d, w), cs, nR, nW, FALSE)
  <1>1. /\ d.call = "dispatch" /\ d.reads = R /\ d.writes = W /\ d.barrier = bar
        /\ Local(d) /\ Touches(d) = R \cup W
    BY DEF Does, Touches
  <1>2. /\ a.alive = al /\ a.want = w /\ a.busy = bs /\ a.openR = oR /\ a.openW = oW /\ ~ a.copying
    BY DEF HostState
  <1> HIDE DEF a
  <1>3. Legal(m, d, a)
    BY <1>1, <1>2 DEF Legal
  <1>4. After(m, d, a) = b
    BY <1>1, <1>2 DEF After, AfterDispatch, LevelOf, Open
  <1> QED BY <1>1, <1>3, <1>4, SafeCall DEF a

\* The first after a barrier.
LEMMA FirstDispatch ==
  ASSUME NEW m, NEW d, NEW R, NEW W, NEW bar, Does(d, R, W, bar), W # {},
         NEW al, R \cup W \subseteq al, al \subseteq Regions, NEW w, NEW bs, NEW q, IsSeq(q),
         NEW cs, cs = LevelOf(m, bs, R \cup W),
         NEW nR, nR = Open(m, bar, R), NEW nW, nW = Open(m, bar, W),
         Safe(m, q, HostState(al, Computed(d, w), cs, nR, nW, FALSE))
  PROVE  Safe(m, <<d>> \o q, St(al, w, bs))
  <1>1. W \cap ({} \cup {}) = {} /\ R \cap {} = {}
    OBVIOUS
  <1>2. nR = Open(m, bar, {} \cup R) /\ nW = Open(m, bar, {} \cup W)
    OBVIOUS
  <1>3. Safe(m, <<d>> \o q, HostState(al, w, bs, {}, {}, FALSE))
    BY <1>1, <1>2, DispatchCall
  <1> QED BY <1>3 DEF St

\* With a barrier before and after it.
LEMMA OneDispatch ==
  ASSUME NEW m, NEW d, NEW R, NEW W, Does(d, R, W, TRUE), W # {},
         NEW al, R \cup W \subseteq al, al \subseteq Regions, NEW w, NEW bs, NEW q, IsSeq(q),
         NEW cs, cs = LevelOf(m, bs, R \cup W), Safe(m, q, St(al, Computed(d, w), cs))
  PROVE  Safe(m, <<d>> \o q, St(al, w, bs))
  <1>1. {} = Open(m, TRUE, R) /\ {} = Open(m, TRUE, W)
    BY DEF Open
  <1>2. Safe(m, q, HostState(al, Computed(d, w), cs, {}, {}, FALSE))
    BY DEF St
  <1> QED BY <1>1, <1>2, FirstDispatch

\* The last before a barrier.
LEMMA LastDispatch ==
  ASSUME NEW m, NEW d, NEW R, NEW W, Does(d, R, W, TRUE), W # {},
         NEW al, R \cup W \subseteq al, al \subseteq Regions, NEW w, NEW bs, NEW oR, NEW oW,
         W \cap (oR \cup oW) = {}, R \cap oW = {}, NEW q, IsSeq(q),
         NEW cs, cs = LevelOf(m, bs, R \cup W), Safe(m, q, St(al, Computed(d, w), cs))
  PROVE  Safe(m, <<d>> \o q, HostState(al, w, bs, oR, oW, FALSE))
  <1>1. {} = Open(m, TRUE, oR \cup R) /\ {} = Open(m, TRUE, oW \cup W)
    BY DEF Open
  <1>2. Safe(m, q, HostState(al, Computed(d, w), cs, {}, {}, FALSE))
    BY DEF St
  <1> QED BY <1>1, <1>2, DispatchCall

LEMMA PlainLevel ==
  ASSUME NEW m, NEW bs \in {{}, Level(m)}, NEW R, R \subseteq Plain
  PROVE  Level(m) = LevelOf(m, bs, R)
  BY DEF Level, LevelOf

\* Two and three that no barrier separates.
LEMMA TwoDispatches ==
  ASSUME NEW m, NEW d, NEW R, NEW W, NEW bar, Does(d, R, W, bar), W # {},
         NEW e, NEW S, NEW T, Does(e, S, T, TRUE), T # {},
         NEW al, R \cup W \cup S \cup T \subseteq al, al \subseteq Regions,
         R \cup W \cup S \cup T \subseteq Plain,
         W \cap (S \cup T) = {}, T \cap (R \cup W) = {},
         NEW w, NEW bs \in {{}, Level(m)}, NEW q, IsSeq(q),
         Safe(m, q, St(al, Computed(e, Computed(d, w)), Level(m)))
  PROVE  Safe(m, <<d, e>> \o q, St(al, w, bs))
  <1>1. PICK oR, oW : oR = Open(m, bar, R) /\ oW = Open(m, bar, W)
    OBVIOUS
  <1>2. /\ R \cup W \subseteq al /\ S \cup T \subseteq al
        /\ T \cap (oR \cup oW) = {} /\ S \cap oW = {}
    BY <1>1 DEF Open
  <1>3. Level(m) = LevelOf(m, bs, R \cup W) /\ Level(m) = LevelOf(m, Level(m), S \cup T)
    <2>1. R \cup W \subseteq Plain /\ S \cup T \subseteq Plain
      OBVIOUS
    <2> QED BY <2>1, PlainLevel
  <1>4. Safe(m, <<e>> \o q, HostState(al, Computed(d, w), Level(m), oR, oW, FALSE))
    BY <1>2, <1>3, LastDispatch
  <1>5. Safe(m, <<d>> \o (<<e>> \o q), St(al, w, bs))
    BY <1>1, <1>2, <1>3, <1>4, ConsIsSeq, FirstDispatch
  <1>6. <<d, e>> \o q = <<d>> \o (<<e>> \o q)
    BY Cons2
  <1> QED BY <1>5, <1>6, Zenon

LEMMA ThreeDispatches ==
  ASSUME NEW m, NEW c, NEW P, NEW U, NEW bar1, Does(c, P, U, bar1), U # {},
         NEW d, NEW R, NEW W, NEW bar2, Does(d, R, W, bar2), W # {},
         NEW e, NEW S, NEW T, Does(e, S, T, TRUE), T # {},
         NEW al, P \cup U \cup R \cup W \cup S \cup T \subseteq al, al \subseteq Regions,
         P \cup U \cup R \cup W \cup S \cup T \subseteq Plain,
         U \cap (R \cup W \cup S \cup T) = {}, W \cap (P \cup U \cup S \cup T) = {},
         T \cap (P \cup U \cup R \cup W) = {},
         NEW w, NEW bs \in {{}, Level(m)}, NEW q, IsSeq(q),
         Safe(m, q, St(al, Computed(e, Computed(d, Computed(c, w))), Level(m)))
  PROVE  Safe(m, <<c, d, e>> \o q, St(al, w, bs))
  <1>1. PICK oR, oW, nR, nW :
          /\ oR = Open(m, bar1, P) /\ oW = Open(m, bar1, U)
          /\ nR = Open(m, bar2, oR \cup R) /\ nW = Open(m, bar2, oW \cup W)
    OBVIOUS
  <1>2. /\ P \cup U \subseteq al /\ R \cup W \subseteq al /\ S \cup T \subseteq al
        /\ W \cap (oR \cup oW) = {} /\ R \cap oW = {}
        /\ T \cap (nR \cup nW) = {} /\ S \cap nW = {}
    BY <1>1 DEF Open
  <1>3. /\ Level(m) = LevelOf(m, bs, P \cup U) /\ Level(m) = LevelOf(m, Level(m), R \cup W)
        /\ Level(m) = LevelOf(m, Level(m), S \cup T)
    <2>1. P \cup U \subseteq Plain /\ R \cup W \subseteq Plain /\ S \cup T \subseteq Plain
      OBVIOUS
    <2> QED BY <2>1, PlainLevel
  <1> DEFINE x == Computed(c, w)
             y == Computed(d, x)
             r == <<e>> \o q
             s == <<d>> \o r
  <1>4. Safe(m, r, HostState(al, y, Level(m), nR, nW, FALSE))
    BY <1>2, <1>3, LastDispatch
  <1>5. IsSeq(r) /\ IsSeq(s)
    BY ConsIsSeq
  <1> HIDE DEF r
  <1>6. Safe(m, s, HostState(al, x, Level(m), oR, oW, FALSE))
    BY <1>1, <1>2, <1>3, <1>4, <1>5, DispatchCall
  <1> HIDE DEF s
  <1>7. Safe(m, <<c>> \o s, St(al, w, bs))
    BY <1>1, <1>2, <1>3, <1>5, <1>6, FirstDispatch
  <1>8. <<c, d, e>> \o q = <<c>> \o (<<d, e>> \o q)
    BY Cons3
  <1>9. <<d, e>> \o q = <<d>> \o (<<e>> \o q)
    BY Cons2
  <1> QED BY <1>7, <1>8, <1>9, Zenon DEF r, s

LEMMA SubmitCall ==
  ASSUME NEW m, NEW al, NEW w, NEW bs, NEW q, IsSeq(q), Safe(m, q, St(al, w, {}))
  PROVE  Safe(m, <<submit_wait>> \o q, St(al, w, bs))
  <1>1. submit_wait.call = "submit"
    BY DEF submit_wait
  <1> HIDE DEF submit_wait
  <1>2. Legal(m, submit_wait, St(al, w, bs))
    BY <1>1 DEF Legal, St, HostState
  <1>3. After(m, submit_wait, St(al, w, bs)) = St(al, w, {})
    BY <1>1 DEF After, St, HostState
  <1> QED BY <1>1, <1>2, <1>3, SafeCall

LEMMA UploadCall ==
  ASSUME NEW m, NEW al, NEW w, NEW bs, NEW cp, NEW r \in Regions \ bs, NEW v,
         NEW q, IsSeq(q), Safe(m, q, St(al, With(w, r, v), bs))
  PROVE  Safe(m, <<upload(r, v)>> \o q, HostState(al, w, bs, {}, {}, cp))
  <1> DEFINE c == upload(r, v)
             a == HostState(al, w, bs, {}, {}, cp)
  <1>1. c.call = "upload" /\ c.to = r /\ c.data = v
    BY DEF upload
  <1> HIDE DEF c
  <1>2. Legal(m, c, a)
    BY <1>1 DEF Legal, HostState
  <1>3. After(m, c, a) = St(al, With(w, r, v), bs)
    BY <1>1 DEF After, St, HostState
  <1> QED BY <1>1, <1>2, <1>3, SafeCall DEF c

LEMMA AsyncCall ==
  ASSUME NEW m, ~ Hip(m), NEW al, NEW w, NEW bs, NEW cp, NEW r \in Regions \ bs, NEW v,
         NEW q, IsSeq(q), Safe(m, q, HostState(al, With(w, r, v), bs, {}, {}, TRUE))
  PROVE  Safe(m, <<upload_at_async(r, v)>> \o q, HostState(al, w, bs, {}, {}, cp))
  <1> DEFINE c == upload_at_async(r, v)
             a == HostState(al, w, bs, {}, {}, cp)
  <1>1. c.call = "async" /\ c.to = r /\ c.data = v
    BY DEF upload_at_async
  <1> HIDE DEF c
  <1>2. Legal(m, c, a)
    BY <1>1 DEF Legal, HostState
  <1>3. After(m, c, a) = HostState(al, With(w, r, v), bs, {}, {}, TRUE)
    BY <1>1 DEF After, HostState
  <1> QED BY <1>1, <1>2, <1>3, SafeCall DEF c

LEMMA DownloadCall ==
  ASSUME NEW m, NEW al, NEW w, NEW r \in Regions, r = "logits" => w["logits"] = Reference(m),
         NEW q, IsSeq(q), Safe(m, q, St(al, w, {}))
  PROVE  Safe(m, <<download(r)>> \o q, St(al, w, {}))
  <1> DEFINE c == download(r)
             a == St(al, w, {})
  <1>1. c.call = "download" /\ c.from = r
    BY DEF download
  <1> HIDE DEF c
  <1>2. Legal(m, c, a)
    BY <1>1 DEF Legal, St, HostState
  <1>3. After(m, c, a) = a
    BY <1>1 DEF After
  <1> QED BY <1>1, <1>2, <1>3, SafeCall DEF c

LEMMA AllocCall ==
  ASSUME NEW m, NEW al, NEW w, NEW bs, NEW set, set \subseteq Regions, set \cap al = {},
         NEW q, IsSeq(q), Safe(m, q, St(al \cup set, Filled(m, w, set), bs))
  PROVE  Safe(m, <<allocate(set)>> \o q, St(al, w, bs))
  <1> DEFINE c == allocate(set)
             a == St(al, w, bs)
  <1>1. c.call = "alloc" /\ c.set = set
    BY DEF allocate
  <1> HIDE DEF c
  <1>2. Legal(m, c, a)
    BY <1>1 DEF Legal, St, HostState
  <1>3. After(m, c, a) = St(al \cup set, Filled(m, w, set), bs)
    BY <1>1 DEF After, St, HostState
  <1> QED BY <1>1, <1>2, <1>3, SafeCall DEF c

LEMMA FreeCall ==
  ASSUME NEW m, NEW al, NEW w, NEW set, NEW q, IsSeq(q), Safe(m, q, St(al \ set, w, {}))
  PROVE  Safe(m, <<release(set)>> \o q, St(al, w, {}))
  <1> DEFINE c == release(set)
             a == St(al, w, {})
  <1>1. c.call = "free" /\ c.set = set
    BY DEF release
  <1> HIDE DEF c
  <1>2. Legal(m, c, a)
    BY <1>1 DEF Legal, St, HostState
  <1>3. After(m, c, a) = St(al \ set, w, {})
    BY <1>1 DEF After, St, HostState
  <1> QED BY <1>1, <1>2, <1>3, SafeCall DEF c

-----------------------------------------------------------------------------
(***************************************************************************)
(* The parts of a layer.  Each lemma says: the part is safe in front of q  *)
(* if q is safe from every memory that the part may leave.                 *)
(***************************************************************************)
Same(c, w, S) == IsMem(c) /\ \A r \in Regions \ S : c[r] = w[r]

\* The buffers of a pass, between two layers.
Base == ModelBuffers \cup InputBuffers \cup PassBuffers

Holds(al) == Base \subseteq al /\ al \subseteq Regions

LEMMA BaseNames ==
  /\ Base = {"hidden", "residual", "norm", "attn", "gate", "mlp", "q", "k", "v", "ids", "pos",
             "slots", "tables", "last", "cache", "slot_gu", "slot_dn", "slot_of"}
  /\ Base \subseteq Regions
  /\ {"hidden", "residual", "norm", "attn", "gate", "mlp", "q", "k", "v", "ids", "pos", "slots",
      "tables", "last", "cache", "route", "idx", "score", "shs", "exp", "selected", "logits"}
       \subseteq Plain
  <1>1. Base = {"hidden", "residual", "norm", "attn", "gate", "mlp", "q", "k", "v", "ids", "pos",
             "slots", "tables", "last", "cache", "slot_gu", "slot_dn", "slot_of"}
    BY DEF Base, ModelBuffers, InputBuffers, PassBuffers, Slices, Q, K, V
  <1> QED BY <1>1, RegionNames DEF Plain

LEMMA PlainDispatch ==
  ASSUME NEW m, NEW d, NEW R, NEW W, Does(d, R, W, TRUE), W # {},
         NEW al, R \cup W \subseteq al, R \cup W \subseteq Plain, al \subseteq Regions,
         NEW w, NEW bs \in {{}, Level(m)}, NEW q, IsSeq(q),
         NEW c, c = Computed(d, w), Safe(m, q, St(al, c, Level(m)))
  PROVE  Safe(m, <<d>> \o q, St(al, w, bs))
  <1>1. Level(m) = LevelOf(m, bs, R \cup W)
    BY PlainLevel
  <1> QED BY <1>1, OneDispatch

\* A product of one region goes to another.
IsMatmul(d, w, x, y, bar) ==
  /\ Does(d, {x}, {y}, bar)
  /\ \A c : IsMem(c) => Computed(d, c) = With(c, y, Product(w, c[x]))

LEMMA AMatmul ==
  ASSUME NEW w, NEW x \in Regions, NEW y \in Regions
  PROVE  /\ IsMatmul(matmul(w, x, y), w, x, y, TRUE)
         /\ \A bar \in BOOLEAN : IsMatmul(matmulSlice(w, x, y, bar), w, x, y, bar)
  BY MatmulDoes, MatmulWhole DEF IsMatmul

\* q, k and v of the normed rows.
LEMMA ProjectSafe ==
  ASSUME NEW m, NEW l, NEW b1, NEW b2, NEW d1, NEW d2, NEW d3,
         IsMatmul(d1, Weight(Q, l), "norm", "q", b1), IsMatmul(d2, Weight(K, l), "norm", "k", b2),
         IsMatmul(d3, Weight(V, l), "norm", "v", TRUE),
         NEW al, Holds(al), NEW w, IsMem(w), NEW bs \in {{}, Level(m)}, NEW q, IsSeq(q),
         \A c : /\ Same(c, w, {"q", "k", "v"}) /\ c["q"] = Product(Weight(Q, l), w["norm"])
                /\ c["k"] = Product(Weight(K, l), w["norm"])
                /\ c["v"] = Product(Weight(V, l), w["norm"])
                => Safe(m, q, St(al, c, Level(m)))
  PROVE  Safe(m, <<d1, d2, d3>> \o q, St(al, w, bs))
  <1>1. PICK x, y, z : /\ x = With(w, "q", Product(Weight(Q, l), w["norm"]))
                       /\ y = With(x, "k", Product(Weight(K, l), x["norm"]))
                       /\ z = With(y, "v", Product(Weight(V, l), y["norm"]))
    OBVIOUS
  <1>2. IsMem(x) /\ IsMem(y) /\ IsMem(z)
    BY <1>1, WithIs
  <1>3. x = Computed(d1, w) /\ y = Computed(d2, x) /\ z = Computed(d3, y)
    BY <1>1, <1>2 DEF IsMatmul
  <1>4. /\ Same(z, w, {"q", "k", "v"}) /\ z["q"] = Product(Weight(Q, l), w["norm"])
        /\ z["k"] = Product(Weight(K, l), w["norm"]) /\ z["v"] = Product(Weight(V, l), w["norm"])
    BY <1>1, <1>2, RegionNames DEF With, Same
  <1>5. Safe(m, q, St(al, Computed(d3, Computed(d2, Computed(d1, w))), Level(m)))
    BY <1>3, <1>4
  <1>6. /\ Does(d1, {"norm"}, {"q"}, b1) /\ Does(d2, {"norm"}, {"k"}, b2)
        /\ Does(d3, {"norm"}, {"v"}, TRUE)
    BY DEF IsMatmul
  <1>7. /\ {"norm"} \cup {"q"} \cup {"norm"} \cup {"k"} \cup {"norm"} \cup {"v"} \subseteq al
        /\ {"norm"} \cup {"q"} \cup {"norm"} \cup {"k"} \cup {"norm"} \cup {"v"} \subseteq Plain
        /\ al \subseteq Regions
    BY BaseNames DEF Holds
  <1>8. /\ {"q"} \cap ({"norm"} \cup {"k"} \cup {"norm"} \cup {"v"}) = {}
        /\ {"k"} \cap ({"norm"} \cup {"q"} \cup {"norm"} \cup {"v"}) = {}
        /\ {"v"} \cap ({"norm"} \cup {"q"} \cup {"norm"} \cup {"k"}) = {}
        /\ {"q"} # {} /\ {"k"} # {} /\ {"v"} # {}
    OBVIOUS
  <1> QED BY <1>5, <1>6, <1>7, <1>8, ThreeDispatches

LEMMA BiasesSafe ==
  ASSUME NEW m, NEW l, NEW al, Holds(al), NEW w, IsMem(w), NEW bs \in {{}, Level(m)},
         NEW q, IsSeq(q),
         \A c : /\ Same(c, w, {"q", "k", "v"}) /\ c["q"] = Sum(w["q"], Weight("q_bias", l))
                /\ c["k"] = Sum(w["k"], Weight("k_bias", l))
                /\ c["v"] = Sum(w["v"], Weight("v_bias", l))
                => Safe(m, q, St(al, c, Level(m)))
  PROVE  Safe(m, addBiases(l) \o q, St(al, w, bs))
  <1>1. PICK x, y, z : /\ x = With(w, "q", Sum(w["q"], Weight("q_bias", l)))
                       /\ y = With(x, "k", Sum(x["k"], Weight("k_bias", l)))
                       /\ z = With(y, "v", Sum(y["v"], Weight("v_bias", l)))
    OBVIOUS
  <1>2. IsMem(x) /\ IsMem(y) /\ IsMem(z)
    BY <1>1, WithIs
  <1>3. PICK d1, d2, d3 : /\ d1 = add_bias_inplace(Weight("q_bias", l), Q, FALSE)
                          /\ d2 = add_bias_inplace(Weight("k_bias", l), K, FALSE)
                          /\ d3 = add_bias_inplace(Weight("v_bias", l), V, TRUE)
    OBVIOUS
  <1>4. /\ Does(d1, {"q"}, {"q"}, FALSE) /\ Does(d2, {"k"}, {"k"}, FALSE)
        /\ Does(d3, {"v"}, {"v"}, TRUE)
        /\ x = Computed(d1, w) /\ y = Computed(d2, x) /\ z = Computed(d3, y)
    BY <1>1, <1>2, <1>3, BiasDoes, RegionNames DEF Q, K, V
  <1>5. /\ Same(z, w, {"q", "k", "v"}) /\ z["q"] = Sum(w["q"], Weight("q_bias", l))
        /\ z["k"] = Sum(w["k"], Weight("k_bias", l)) /\ z["v"] = Sum(w["v"], Weight("v_bias", l))
    BY <1>1, <1>2, RegionNames DEF With, Same
  <1>6. Safe(m, q, St(al, Computed(d3, Computed(d2, Computed(d1, w))), Level(m)))
    BY <1>4, <1>5
  <1>7. /\ {"q"} \cup {"q"} \cup {"k"} \cup {"k"} \cup {"v"} \cup {"v"} \subseteq al
        /\ {"q"} \cup {"q"} \cup {"k"} \cup {"k"} \cup {"v"} \cup {"v"} \subseteq Plain
        /\ al \subseteq Regions
    BY BaseNames DEF Holds
  <1>8. /\ {"q"} \cap ({"k"} \cup {"k"} \cup {"v"} \cup {"v"}) = {}
        /\ {"k"} \cap ({"q"} \cup {"q"} \cup {"v"} \cup {"v"}) = {}
        /\ {"v"} \cap ({"q"} \cup {"q"} \cup {"k"} \cup {"k"}) = {}
        /\ {"q"} # {} /\ {"k"} # {} /\ {"v"} # {}
    OBVIOUS
  <1>9. Safe(m, <<d1, d2, d3>> \o q, St(al, w, bs))
    BY <1>4, <1>6, <1>7, <1>8, ThreeDispatches
  <1> QED BY <1>3, <1>9 DEF addBiases

LEMMA HeadsSafe ==
  ASSUME NEW m, NEW l, NEW al, Holds(al), NEW w, IsMem(w), NEW bs \in {{}, Level(m)},
         NEW q, IsSeq(q),
         \A c : /\ Same(c, w, {"q", "k"}) /\ c["q"] = Normed(Weight("q_norm", l), w["q"])
                /\ c["k"] = Normed(Weight("k_norm", l), w["k"])
                => Safe(m, q, St(al, c, Level(m)))
  PROVE  Safe(m, normHeads(l) \o q, St(al, w, bs))
  <1>1. PICK x, y : /\ x = With(w, "q", Normed(Weight("q_norm", l), w["q"]))
                    /\ y = With(x, "k", Normed(Weight("k_norm", l), x["k"]))
    OBVIOUS
  <1>2. IsMem(x) /\ IsMem(y)
    BY <1>1, WithIs
  <1>3. PICK d1, d2 : /\ d1 = rms_norm(Weight("q_norm", l), Q, FALSE)
                      /\ d2 = rms_norm(Weight("k_norm", l), K, TRUE)
    OBVIOUS
  <1>4. /\ Does(d1, {"q"}, {"q"}, FALSE) /\ Does(d2, {"k"}, {"k"}, TRUE)
        /\ x = Computed(d1, w) /\ y = Computed(d2, x)
    <2>1. d1 = rms_norm(Weight("q_norm", l), "q", FALSE)
            /\ d2 = rms_norm(Weight("k_norm", l), "k", TRUE)
      BY <1>3 DEF Q, K
    <2>2. "q" \in Regions /\ "k" \in Regions
      BY RegionNames
    <2>3. Does(d1, {"q"}, {"q"}, FALSE) /\ x = Computed(d1, w)
      BY <1>1, <2>1, <2>2, NormDoes
    <2>4. Does(d2, {"k"}, {"k"}, TRUE) /\ y = Computed(d2, x)
      BY <1>1, <1>2, <2>1, <2>2, NormDoes
    <2> QED BY <2>3, <2>4
  <1>5. /\ Same(y, w, {"q", "k"}) /\ y["q"] = Normed(Weight("q_norm", l), w["q"])
        /\ y["k"] = Normed(Weight("k_norm", l), w["k"])
    BY <1>1, <1>2, RegionNames DEF With, Same
  <1>6. Safe(m, q, St(al, Computed(d2, Computed(d1, w)), Level(m)))
    BY <1>4, <1>5
  <1>7. /\ {"q"} \cup {"q"} \cup {"k"} \cup {"k"} \subseteq al
        /\ {"q"} \cup {"q"} \cup {"k"} \cup {"k"} \subseteq Plain /\ al \subseteq Regions
        /\ {"q"} \cap ({"k"} \cup {"k"}) = {} /\ {"k"} \cap ({"q"} \cup {"q"}) = {}
        /\ {"q"} # {} /\ {"k"} # {}
    BY BaseNames DEF Holds
  <1>8. Safe(m, <<d1, d2>> \o q, St(al, w, bs))
    BY <1>4, <1>6, <1>7, TwoDispatches
  <1> QED BY <1>3, <1>8 DEF normHeads

LEMMA RopeSafe ==
  ASSUME NEW m, NEW bar \in BOOLEAN, NEW al, Holds(al), NEW w, IsMem(w),
         NEW bs \in {{}, Level(m)}, NEW q, IsSeq(q),
         \A c : /\ Same(c, w, {"q", "k"}) /\ c["q"] = <<"rope", w["pos"], w["q"]>>
                /\ c["k"] = <<"rope", w["pos"], w["k"]>>
                => Safe(m, q, St(al, c, Level(m)))
  PROVE  Safe(m, <<rope(Q, bar), rope(K, TRUE)>> \o q, St(al, w, bs))
  <1>1. PICK x, y : /\ x = With(w, "q", <<"rope", w["pos"], w["q"]>>)
                    /\ y = With(x, "k", <<"rope", x["pos"], x["k"]>>)
    OBVIOUS
  <1>2. IsMem(x) /\ IsMem(y)
    BY <1>1, WithIs
  <1>3. PICK d1, d2 : d1 = rope(Q, bar) /\ d2 = rope(K, TRUE)
    OBVIOUS
  <1>4. /\ Does(d1, {"q", "pos"}, {"q"}, bar) /\ Does(d2, {"k", "pos"}, {"k"}, TRUE)
        /\ x = Computed(d1, w) /\ y = Computed(d2, x)
    BY <1>1, <1>2, <1>3, RopeDoes, RegionNames DEF Q, K
  <1>5. /\ Same(y, w, {"q", "k"}) /\ y["q"] = <<"rope", w["pos"], w["q"]>>
        /\ y["k"] = <<"rope", w["pos"], w["k"]>>
    <2>1. x["pos"] = w["pos"] /\ x["k"] = w["k"] /\ x["q"] = <<"rope", w["pos"], w["q"]>>
      BY <1>1, RegionNames DEF With
    <2>2. y["q"] = x["q"] /\ y["k"] = <<"rope", x["pos"], x["k"]>>
      BY <1>1, RegionNames DEF With
    <2>3. Same(y, w, {"q", "k"})
      BY <1>1, <1>2, RegionNames DEF With, Same
    <2> QED BY <2>1, <2>2, <2>3
  <1>6. Safe(m, q, St(al, Computed(d2, Computed(d1, w)), Level(m)))
    BY <1>4, <1>5
  <1>7. /\ {"q", "pos"} \cup {"q"} \cup {"k", "pos"} \cup {"k"} \subseteq al
        /\ {"q", "pos"} \cup {"q"} \cup {"k", "pos"} \cup {"k"} \subseteq Plain
        /\ al \subseteq Regions
        /\ {"q"} \cap ({"k", "pos"} \cup {"k"}) = {} /\ {"k"} \cap ({"q", "pos"} \cup {"q"}) = {}
        /\ {"q"} # {} /\ {"k"} # {}
    BY BaseNames DEF Holds
  <1>8. Safe(m, <<d1, d2>> \o q, St(al, w, bs))
    BY <1>4, <1>6, <1>7, TwoDispatches
  <1> QED BY <1>3, <1>8

CacheOK(m, w) == w["cache"] = [l \in 1 .. m.layers |-> w["cache"][l]]

\* The rows attend to the cache that has just taken their k and v.
LEMMA AttendSafe ==
  ASSUME NEW m, NEW l \in 1 .. m.layers, NEW al, Holds(al), NEW w, IsMem(w), CacheOK(m, w),
         NEW bs \in {{}, Level(m)}, NEW q, IsSeq(q),
         \A c : /\ Same(c, w, {"cache", "attn", "hidden"}) /\ CacheOK(m, c)
                /\ c["hidden"] = Product(Weight("o", l),
                                         <<"attention", w["q"], <<w["k"], w["v"]>>>>)
                => Safe(m, q, St(al, c, Level(m)))
  PROVE  Safe(m, <<store_kv(l), paged_attention(l), matmul(Weight("o", l), "attn", "hidden")>> \o q,
              St(al, w, bs))
  <1>1. PICK kv, x, at, y, z :
          /\ kv = [w["cache"] EXCEPT ![l] = <<w["k"], w["v"]>>]
          /\ x = With(w, "cache", kv)
          /\ at = <<"attention", x["q"], x["cache"][l]>>
          /\ y = With(x, "attn", at)
          /\ z = With(y, "hidden", Product(Weight("o", l), y["attn"]))
    OBVIOUS
  <1>2. IsMem(x) /\ IsMem(y) /\ IsMem(z)
    BY <1>1, WithIs
  <1>3. PICK d1, d2, d3 : /\ d1 = store_kv(l) /\ d2 = paged_attention(l)
                          /\ d3 = matmul(Weight("o", l), "attn", "hidden")
    OBVIOUS
  <1>4. Does(d1, {"k", "v", "slots"}, {"cache"}, TRUE) /\ x = Computed(d1, w)
    BY <1>1, <1>3, StoreDoes
  <1>5. Does(d2, {"q", "cache", "tables"}, {"attn"}, TRUE) /\ y = Computed(d2, x)
    BY <1>1, <1>2, <1>3, AttendDoes
  <1>6. Does(d3, {"attn"}, {"hidden"}, TRUE) /\ z = Computed(d3, y)
    <2>1. "attn" \in Regions /\ "hidden" \in Regions
      BY RegionNames
    <2>2. IsMatmul(d3, Weight("o", l), "attn", "hidden", TRUE)
      BY <1>3, <2>1, AMatmul
    <2> QED BY <1>1, <1>2, <2>2 DEF IsMatmul
  <1>7. kv[l] = <<w["k"], w["v"]>> /\ kv = [i \in 1 .. m.layers |-> kv[i]]
    <2>1. w["cache"] = [i \in 1 .. m.layers |-> w["cache"][i]]
      BY DEF CacheOK
    <2> QED BY <1>1, <2>1
  <1>8. /\ Same(z, w, {"cache", "attn", "hidden"}) /\ z["cache"] = kv
        /\ z["hidden"] = Product(Weight("o", l), <<"attention", w["q"], <<w["k"], w["v"]>>>>)
    <2>1. x["q"] = w["q"] /\ x["cache"] = kv
      BY <1>1, RegionNames DEF With
    <2>2. at = <<"attention", w["q"], <<w["k"], w["v"]>>>>
      BY <1>1, <1>7, <2>1
    <2>3. y["attn"] = at /\ y["cache"] = kv
      BY <1>1, <2>1, RegionNames DEF With
    <2>4. z["hidden"] = Product(Weight("o", l), at) /\ z["cache"] = kv
      BY <1>1, <2>3, RegionNames DEF With
    <2>5. Same(z, w, {"cache", "attn", "hidden"})
      BY <1>1, <1>2, RegionNames DEF With, Same
    <2> QED BY <2>2, <2>4, <2>5
  <1>9. CacheOK(m, z)
    BY <1>7, <1>8 DEF CacheOK
  <1>10. Safe(m, q, St(al, z, Level(m)))
    BY <1>8, <1>9
  <1>11. Safe(m, <<d3>> \o q, St(al, y, Level(m)))
    <2>1. /\ {"attn"} \cup {"hidden"} \subseteq al /\ {"attn"} \cup {"hidden"} \subseteq Plain
          /\ al \subseteq Regions /\ {"hidden"} # {}
      BY BaseNames DEF Holds
    <2> QED BY <1>6, <1>10, <2>1, PlainDispatch
  <1>12. Safe(m, <<d2>> \o (<<d3>> \o q), St(al, x, Level(m)))
    <2>1. /\ {"q", "cache", "tables"} \cup {"attn"} \subseteq al
          /\ {"q", "cache", "tables"} \cup {"attn"} \subseteq Plain
          /\ al \subseteq Regions /\ {"attn"} # {} /\ IsSeq(<<d3>> \o q)
      BY BaseNames, ConsIsSeq DEF Holds
    <2> QED BY <1>5, <1>11, <2>1, PlainDispatch
  <1>13. Safe(m, <<d1>> \o (<<d2>> \o (<<d3>> \o q)), St(al, w, bs))
    <2>1. /\ {"k", "v", "slots"} \cup {"cache"} \subseteq al
          /\ {"k", "v", "slots"} \cup {"cache"} \subseteq Plain
          /\ al \subseteq Regions /\ {"cache"} # {} /\ IsSeq(<<d2>> \o (<<d3>> \o q))
      BY BaseNames, ConsIsSeq DEF Holds
    <2> QED BY <1>4, <1>12, <2>1, PlainDispatch
  <1>14. <<d1, d2, d3>> \o q = <<d1>> \o (<<d2, d3>> \o q)
    BY Cons3
  <1>15. <<d2, d3>> \o q = <<d2>> \o (<<d3>> \o q)
    BY Cons2
  <1> QED BY <1>3, <1>13, <1>14, <1>15, Zenon

\* A feed-forward block on the normed rows.
LEMMA MlpSafe ==
  ASSUME NEW m, NEW gu, NEW dn, NEW al, Holds(al), NEW w, IsMem(w),
         NEW bs \in {{}, Level(m)}, NEW q, IsSeq(q),
         \A c : /\ Same(c, w, {"gate", "mlp", "hidden"})
                /\ c["hidden"] = ReferenceMlp(gu, dn, w["norm"])
                => Safe(m, q, St(al, c, Level(m)))
  PROVE  Safe(m, mlp(gu, dn) \o q, St(al, w, bs))
  <1>1. PICK x, y, z : /\ x = With(w, "gate", Product(gu, w["norm"]))
                       /\ y = With(x, "mlp", <<"silu * up", x["gate"]>>)
                       /\ z = With(y, "hidden", Product(dn, y["mlp"]))
    OBVIOUS
  <1>2. IsMem(x) /\ IsMem(y) /\ IsMem(z)
    BY <1>1, WithIs
  <1>3. PICK d1, d2, d3 : /\ d1 = matmul(gu, "norm", "gate") /\ d2 = silu_and_mul
                          /\ d3 = matmul(dn, "mlp", "hidden")
    OBVIOUS
  <1>4. Does(d1, {"norm"}, {"gate"}, TRUE) /\ x = Computed(d1, w)
    <2>1. "norm" \in Regions /\ "gate" \in Regions
      BY RegionNames
    <2>2. IsMatmul(d1, gu, "norm", "gate", TRUE)
      BY <1>3, <2>1, AMatmul
    <2> QED BY <1>1, <2>2 DEF IsMatmul
  <1>5. Does(d2, {"gate"}, {"mlp"}, TRUE) /\ y = Computed(d2, x)
    BY <1>1, <1>2, <1>3, SiluDoes
  <1>6. Does(d3, {"mlp"}, {"hidden"}, TRUE) /\ z = Computed(d3, y)
    <2>1. "mlp" \in Regions /\ "hidden" \in Regions
      BY RegionNames
    <2>2. IsMatmul(d3, dn, "mlp", "hidden", TRUE)
      BY <1>3, <2>1, AMatmul
    <2> QED BY <1>1, <1>2, <2>2 DEF IsMatmul
  <1>7. Same(z, w, {"gate", "mlp", "hidden"}) /\ z["hidden"] = ReferenceMlp(gu, dn, w["norm"])
    <2>1. x["gate"] = Product(gu, w["norm"])
      BY <1>1, RegionNames DEF With
    <2>2. y["mlp"] = <<"silu * up", x["gate"]>>
      BY <1>1, RegionNames DEF With
    <2>3. z["hidden"] = Product(dn, y["mlp"])
      BY <1>1, RegionNames DEF With
    <2>4. Same(z, w, {"gate", "mlp", "hidden"})
      BY <1>1, <1>2, RegionNames DEF With, Same
    <2> QED BY <2>1, <2>2, <2>3, <2>4 DEF ReferenceMlp
  <1>8. Safe(m, q, St(al, z, Level(m)))
    BY <1>7
  <1>9. Safe(m, <<d3>> \o q, St(al, y, Level(m)))
    <2>1. /\ {"mlp"} \cup {"hidden"} \subseteq al /\ {"mlp"} \cup {"hidden"} \subseteq Plain
          /\ al \subseteq Regions /\ {"hidden"} # {}
      BY BaseNames DEF Holds
    <2> QED BY <1>6, <1>8, <2>1, PlainDispatch
  <1>10. Safe(m, <<d2>> \o (<<d3>> \o q), St(al, x, Level(m)))
    <2>1. /\ {"gate"} \cup {"mlp"} \subseteq al /\ {"gate"} \cup {"mlp"} \subseteq Plain
          /\ al \subseteq Regions /\ {"mlp"} # {} /\ IsSeq(<<d3>> \o q)
      BY BaseNames, ConsIsSeq DEF Holds
    <2> QED BY <1>5, <1>9, <2>1, PlainDispatch
  <1>11. Safe(m, <<d1>> \o (<<d2>> \o (<<d3>> \o q)), St(al, w, bs))
    <2>1. /\ {"norm"} \cup {"gate"} \subseteq al /\ {"norm"} \cup {"gate"} \subseteq Plain
          /\ al \subseteq Regions /\ {"gate"} # {} /\ IsSeq(<<d2>> \o (<<d3>> \o q))
      BY BaseNames, ConsIsSeq DEF Holds
    <2> QED BY <1>4, <1>10, <2>1, PlainDispatch
  <1>12. <<d1, d2, d3>> \o q = <<d1>> \o (<<d2, d3>> \o q)
    BY Cons3
  <1>13. <<d2, d3>> \o q = <<d2>> \o (<<d3>> \o q)
    BY Cons2
  <1> QED BY <1>3, <1>11, <1>12, <1>13, Zenon DEF mlp

LEMMA AddNormSafe ==
  ASSUME NEW m, NEW n, NEW al, Holds(al), NEW w, IsMem(w), NEW bs \in {{}, Level(m)},
         NEW q, IsSeq(q),
         \A c : /\ Same(c, w, {"residual", "norm"})
                /\ c["residual"] = Sum(w["residual"], w["hidden"])
                /\ c["norm"] = Normed(n, Sum(w["residual"], w["hidden"]))
                => Safe(m, q, St(al, c, Level(m)))
  PROVE  Safe(m, <<rms_norm_add(n)>> \o q, St(al, w, bs))
  <1>1. PICK x, y : /\ x = With(w, "residual", Sum(w["residual"], w["hidden"]))
                    /\ y = With(x, "norm", Normed(n, Sum(w["residual"], w["hidden"])))
    OBVIOUS
  <1>2. IsMem(x) /\ IsMem(y)
    BY <1>1, WithIs
  <1>3. /\ Does(rms_norm_add(n), {"hidden", "residual"}, {"residual", "norm"}, TRUE)
        /\ y = Computed(rms_norm_add(n), w)
    BY <1>1, AddNormDoes
  <1>4. /\ Same(y, w, {"residual", "norm"}) /\ y["residual"] = Sum(w["residual"], w["hidden"])
        /\ y["norm"] = Normed(n, Sum(w["residual"], w["hidden"]))
    BY <1>1, <1>2, RegionNames DEF With, Same
  <1>5. Safe(m, q, St(al, y, Level(m)))
    BY <1>4
  <1>6. /\ {"hidden", "residual"} \cup {"residual", "norm"} \subseteq al
        /\ {"hidden", "residual"} \cup {"residual", "norm"} \subseteq Plain
        /\ al \subseteq Regions /\ {"residual", "norm"} # {}
    BY BaseNames DEF Holds
  <1> QED BY <1>3, <1>5, <1>6, PlainDispatch

-----------------------------------------------------------------------------
(***************************************************************************)
(* Attention.                                                              *)
(***************************************************************************)
Projected(l, norm, x) == Product(Weight(x, l), norm)
Biased(m, l, norm, x) ==
  IF m.bias THEN Sum(Projected(l, norm, x), Weight(BiasOf[x], l)) ELSE Projected(l, norm, x)
NormedHead(m, l, norm, x) ==
  IF m.norms THEN Normed(Weight(NormOf[x], l), Biased(m, l, norm, x)) ELSE Biased(m, l, norm, x)
Roped(m, l, norm, x) == <<"rope", Input("pos"), NormedHead(m, l, norm, x)>>

LEMMA ReferenceAttends ==
  ASSUME NEW m, NEW l, NEW norm
  PROVE  ReferenceAttention(m, l, norm) =
           Product(Weight("o", l), <<"attention", Roped(m, l, norm, "q"),
                                     <<Roped(m, l, norm, "k"), Biased(m, l, norm, "v")>>>>)
  BY DEF ReferenceAttention, Roped, NormedHead, Biased, Projected, Q, K, V

LEMMA AttentionPartsSafe ==
  ASSUME NEW m \in ModelType, NEW l \in 1 .. m.layers, NEW b1, NEW b2, NEW d1, NEW d2, NEW d3,
         IsMatmul(d1, Weight(Q, l), "norm", "q", b1), IsMatmul(d2, Weight(K, l), "norm", "k", b2),
         IsMatmul(d3, Weight(V, l), "norm", "v", TRUE), NEW bar \in BOOLEAN,
         NEW al, Holds(al), NEW w, IsMem(w), CacheOK(m, w), w["pos"] = Input("pos"),
         NEW bs \in {{}, Level(m)}, NEW q, IsSeq(q),
         \A c : /\ Same(c, w, {"q", "k", "v", "cache", "attn", "hidden"}) /\ CacheOK(m, c)
                /\ c["hidden"] = ReferenceAttention(m, l, w["norm"])
                => Safe(m, q, St(al, c, Level(m)))
  PROVE  Safe(m, <<d1, d2, d3>> \o (If(m.bias, addBiases(l)) \o (If(m.norms, normHeads(l)) \o
                   (<<rope(Q, bar), rope(K, TRUE)>> \o
                      (<<store_kv(l), paged_attention(l), matmul(Weight("o", l), "attn", "hidden")>>
                        \o q)))), St(al, w, bs))
  <1> DEFINE n == w["norm"]
             q4 == <<store_kv(l), paged_attention(l), matmul(Weight("o", l), "attn", "hidden")>>
               \o q
             q3 == <<rope(Q, bar), rope(K, TRUE)>> \o q4
             q2 == If(m.norms, normHeads(l)) \o q3
             q1 == If(m.bias, addBiases(l)) \o q2
             P(c) == Same(c, w, {"q", "k", "v"})
  <1>1. m.bias \in BOOLEAN /\ m.norms \in BOOLEAN /\ Level(m) \in {{}, Level(m)}
    BY DEF ModelType
  <1>2. IsSeq(q4) /\ IsSeq(q3) /\ IsSeq(q2) /\ IsSeq(q1)
    <2>1. IsSeq(q4)
      BY LiteralIsSeq, JoinIsSeq
    <2>2. IsSeq(q3)
      BY <2>1, LiteralIsSeq, JoinIsSeq
    <2>3. IsSeq(normHeads(l)) /\ IsSeq(addBiases(l))
      BY LiteralIsSeq DEF normHeads, addBiases
    <2>4. IsSeq(If(m.norms, normHeads(l))) /\ IsSeq(If(m.bias, addBiases(l)))
      BY <2>3, LiteralIsSeq DEF If
    <2>5. IsSeq(q2)
      BY <2>2, <2>4, JoinIsSeq
    <2> QED BY <2>1, <2>2, <2>4, <2>5, JoinIsSeq
  <1> HIDE DEF n, q4, q3, q2, q1
  <1>3. q2 = (IF m.norms THEN normHeads(l) \o q3 ELSE q3)
    BY <1>1, <1>2, NilFirst DEF If, q2
  <1>4. q1 = (IF m.bias THEN addBiases(l) \o q2 ELSE q2)
    BY <1>1, <1>2, NilFirst DEF If, q1
  <1>5. ASSUME NEW c, P(c), c["q"] = Roped(m, l, n, "q"), c["k"] = Roped(m, l, n, "k"),
               c["v"] = Biased(m, l, n, "v")
        PROVE  Safe(m, q4, St(al, c, Level(m)))
    <2>1. IsMem(c) /\ CacheOK(m, c)
      BY <1>5, RegionNames DEF Same, CacheOK
    <2>2. ASSUME NEW e, Same(e, c, {"cache", "attn", "hidden"}), CacheOK(m, e),
                 e["hidden"] = Product(Weight("o", l), <<"attention", c["q"], <<c["k"], c["v"]>>>>)
          PROVE  Safe(m, q, St(al, e, Level(m)))
      <3>1. e["hidden"] = ReferenceAttention(m, l, w["norm"])
        BY <1>5, <2>2, ReferenceAttends DEF n
      <3>2. Same(e, w, {"q", "k", "v", "cache", "attn", "hidden"})
        BY <1>5, <2>2 DEF Same
      <3> QED BY <2>2, <3>1, <3>2
    <2> QED BY <1>1, <2>1, <2>2, AttendSafe DEF q4
  <1>6. ASSUME NEW c, P(c), c["q"] = NormedHead(m, l, n, "q"), c["k"] = NormedHead(m, l, n, "k"),
               c["v"] = Biased(m, l, n, "v")
        PROVE  Safe(m, q3, St(al, c, Level(m)))
    <2>1. IsMem(c) /\ c["pos"] = Input("pos")
      BY <1>6, RegionNames DEF Same
    <2>2. ASSUME NEW e, Same(e, c, {"q", "k"}), e["q"] = <<"rope", c["pos"], c["q"]>>,
                 e["k"] = <<"rope", c["pos"], c["k"]>>
          PROVE  Safe(m, q4, St(al, e, Level(m)))
      <3>1. e["q"] = Roped(m, l, n, "q") /\ e["k"] = Roped(m, l, n, "k")
        BY <1>6, <2>1, <2>2 DEF Roped
      <3>2. P(e) /\ e["v"] = Biased(m, l, n, "v")
        BY <1>6, <2>2, RegionNames DEF Same
      <3> QED BY <1>5, <3>1, <3>2
    <2> QED BY <1>1, <1>2, <2>1, <2>2, RopeSafe DEF q3
  <1>7. ASSUME NEW c, P(c), c["q"] = Biased(m, l, n, "q"), c["k"] = Biased(m, l, n, "k"),
               c["v"] = Biased(m, l, n, "v")
        PROVE  Safe(m, q2, St(al, c, Level(m)))
    <2>1. IsMem(c)
      BY <1>7 DEF Same
    <2>2. CASE m.norms
      <3>1. ASSUME NEW e, Same(e, c, {"q", "k"}), e["q"] = Normed(Weight("q_norm", l), c["q"]),
                   e["k"] = Normed(Weight("k_norm", l), c["k"])
            PROVE  Safe(m, q3, St(al, e, Level(m)))
        <4>1. NormOf["q"] = "q_norm" /\ NormOf["k"] = "k_norm"
          BY DEF NormOf
        <4>2. e["q"] = NormedHead(m, l, n, "q") /\ e["k"] = NormedHead(m, l, n, "k")
          BY <1>7, <2>2, <3>1, <4>1 DEF NormedHead
        <4>3. P(e) /\ e["v"] = Biased(m, l, n, "v")
          BY <1>7, <3>1, RegionNames DEF Same
        <4> QED BY <1>6, <4>2, <4>3
      <3> QED BY <1>1, <1>2, <1>3, <2>1, <2>2, <3>1, HeadsSafe
    <2>3. CASE ~ m.norms
      <3>1. c["q"] = NormedHead(m, l, n, "q") /\ c["k"] = NormedHead(m, l, n, "k")
        BY <1>7, <2>3 DEF NormedHead
      <3> QED BY <1>3, <1>6, <1>7, <2>3, <3>1
    <2> QED BY <1>1, <2>2, <2>3
  <1>8. ASSUME NEW c, P(c), c["q"] = Projected(l, n, "q"), c["k"] = Projected(l, n, "k"),
               c["v"] = Projected(l, n, "v")
        PROVE  Safe(m, q1, St(al, c, Level(m)))
    <2>1. IsMem(c)
      BY <1>8 DEF Same
    <2>2. CASE m.bias
      <3>1. ASSUME NEW e, Same(e, c, {"q", "k", "v"}), e["q"] = Sum(c["q"], Weight("q_bias", l)),
                   e["k"] = Sum(c["k"], Weight("k_bias", l)),
                   e["v"] = Sum(c["v"], Weight("v_bias", l))
            PROVE  Safe(m, q2, St(al, e, Level(m)))
        <4>1. BiasOf["q"] = "q_bias" /\ BiasOf["k"] = "k_bias" /\ BiasOf["v"] = "v_bias"
          BY DEF BiasOf
        <4>2. /\ e["q"] = Biased(m, l, n, "q") /\ e["k"] = Biased(m, l, n, "k")
              /\ e["v"] = Biased(m, l, n, "v")
          BY <1>8, <2>2, <3>1, <4>1 DEF Biased
        <4>3. P(e)
          BY <1>8, <3>1 DEF Same
        <4> QED BY <1>7, <4>2, <4>3
      <3> QED BY <1>1, <1>2, <1>4, <2>1, <2>2, <3>1, BiasesSafe
    <2>3. CASE ~ m.bias
      <3>1. /\ c["q"] = Biased(m, l, n, "q") /\ c["k"] = Biased(m, l, n, "k")
            /\ c["v"] = Biased(m, l, n, "v")
        BY <1>8, <2>3 DEF Biased
      <3> QED BY <1>4, <1>7, <1>8, <2>3, <3>1
    <2> QED BY <1>1, <2>2, <2>3
  <1>9. ASSUME NEW c, P(c), c["q"] = Product(Weight(Q, l), w["norm"]),
               c["k"] = Product(Weight(K, l), w["norm"]), c["v"] = Product(Weight(V, l), w["norm"])
        PROVE  Safe(m, q1, St(al, c, Level(m)))
    BY <1>8, <1>9 DEF Projected, n, Q, K, V
  <1>10. Safe(m, <<d1, d2, d3>> \o q1, St(al, w, bs))
    BY <1>2, <1>9, ProjectSafe
  <1> QED BY <1>10 DEF q1, q2, q3, q4

\* The order in which the parts stand in the program.
LEMMA AttentionUnrolled ==
  ASSUME NEW A, IsSeq(A), NEW B, IsSeq(B), NEW C, IsSeq(C), NEW r1, NEW r2, NEW s, NEW p, NEW o,
         NEW q, IsSeq(q)
  PROVE  /\ (A \o B \o C \o <<r1, r2, s, p, o>>) \o q
              = A \o (B \o (C \o (<<r1, r2>> \o (<<s, p, o>> \o q))))
         /\ IsSeq(A \o B \o C \o <<r1, r2, s, p, o>>)
  <1>1. PICK D, x, AB, ABC : /\ D = <<r1, r2, s, p, o>> /\ x = <<s, p, o>> \o q
                             /\ AB = A \o B /\ ABC = AB \o C
    OBVIOUS
  <1>2. IsSeq(D) /\ IsSeq(x) /\ IsSeq(AB) /\ IsSeq(ABC)
    <2>1. IsSeq(D)
      BY <1>1, LiteralIsSeq
    <2>2. IsSeq(x)
      BY <1>1, LiteralIsSeq, JoinIsSeq
    <2>3. IsSeq(AB)
      BY <1>1, JoinIsSeq
    <2> QED BY <1>1, <2>1, <2>2, <2>3, JoinIsSeq
  <1>3. D \o q = <<r1, r2>> \o x
    <2>1. <<r1, r2, s, p, o>> \o q = <<r1>> \o (<<r2, s, p, o>> \o q)
      BY Cons5
    <2>2. <<r2, s, p, o>> \o q = <<r2>> \o (<<s, p, o>> \o q)
      BY Cons4
    <2>3. <<r1, r2>> \o x = <<r1>> \o (<<r2>> \o x)
      BY <1>2, Cons2
    <2> QED BY <1>1, <2>1, <2>2, <2>3, Zenon
  <1>4. PICK y, z : y = D \o q /\ z = C \o y
    OBVIOUS
  <1>5. IsSeq(y) /\ IsSeq(z)
    <2>1. IsSeq(y)
      BY <1>2, <1>4, JoinIsSeq
    <2> QED BY <1>4, <2>1, JoinIsSeq
  <1>6. (ABC \o D) \o q = ABC \o y
    <2>1. Join(Join(ABC, D), q) = Join(ABC, Join(D, q))
      BY <1>2, JoinsTwo
    <2> QED BY <2>1, <1>4, Zenon DEF Join
  <1>7. ABC \o y = AB \o z
    <2>1. Join(Join(AB, C), y) = Join(AB, Join(C, y))
      BY <1>2, <1>5, JoinsTwo
    <2> QED BY <2>1, <1>1, <1>4, Zenon DEF Join
  <1>8. AB \o z = A \o (B \o z)
    <2>1. Join(Join(A, B), z) = Join(A, Join(B, z))
      BY <1>5, JoinsTwo
    <2> QED BY <2>1, <1>1, Zenon DEF Join
  <1>9. IsSeq(ABC \o D)
    BY <1>2, JoinIsSeq
  <1> QED BY <1>1, <1>3, <1>4, <1>6, <1>7, <1>8, <1>9, Zenon

LEMMA PartsAreSeqs ==
  ASSUME NEW m, NEW l
  PROVE  IsSeq(If(m.bias, addBiases(l))) /\ IsSeq(If(m.norms, normHeads(l)))
  <1>1. IsSeq(addBiases(l)) /\ IsSeq(normHeads(l))
    BY LiteralIsSeq DEF addBiases, normHeads
  <1> QED BY <1>1, LiteralIsSeq DEF If

\* VulkanModel and Qwen3Model run the same attention.
LEMMA AttentionSafe ==
  ASSUME NEW m \in ModelType, NEW l \in 1 .. m.layers,
         NEW al, Holds(al), NEW w, IsMem(w), CacheOK(m, w), w["pos"] = Input("pos"),
         NEW bs \in {{}, Level(m)}, NEW q, IsSeq(q),
         \A c : /\ Same(c, w, {"q", "k", "v", "cache", "attn", "hidden"}) /\ CacheOK(m, c)
                /\ c["hidden"] = ReferenceAttention(m, l, w["norm"])
                => Safe(m, q, St(al, c, Level(m)))
  PROVE  /\ Safe(m, attention(m, l) \o q, St(al, w, bs)) /\ IsSeq(attention(m, l))
         /\ Safe(m, hip_attention(m, l) \o q, St(al, w, bs)) /\ IsSeq(hip_attention(m, l))
  <1>1. PICK B, C : B = If(m.bias, addBiases(l)) /\ C = If(m.norms, normHeads(l))
    OBVIOUS
  <1>2. IsSeq(B) /\ IsSeq(C)
    BY <1>1, PartsAreSeqs
  <1>3. PICK s, p, o : s = store_kv(l) /\ p = paged_attention(l)
          /\ o = matmul(Weight("o", l), "attn", "hidden")
    OBVIOUS
  <1>4. "norm" \in Regions /\ "q" \in Regions /\ "k" \in Regions /\ "v" \in Regions
    BY RegionNames
  <1>5. Safe(m, attention(m, l) \o q, St(al, w, bs)) /\ IsSeq(attention(m, l))
    <2>1. PICK d1, d2, d3, r1, r2 :
            /\ d1 = matmulSlice(Weight(Q, l), "norm", Q, FALSE)
            /\ d2 = matmulSlice(Weight(K, l), "norm", K, FALSE)
            /\ d3 = matmulSlice(Weight(V, l), "norm", V, TRUE)
            /\ r1 = rope(Q, FALSE) /\ r2 = rope(K, TRUE)
      OBVIOUS
    <2>2. /\ IsMatmul(d1, Weight(Q, l), "norm", "q", FALSE)
          /\ IsMatmul(d2, Weight(K, l), "norm", "k", FALSE)
          /\ IsMatmul(d3, Weight(V, l), "norm", "v", TRUE)
      BY <1>4, <2>1, AMatmul DEF Q, K, V
    <2>3. Safe(m, <<d1, d2, d3>> \o (B \o (C \o (<<r1, r2>> \o (<<s, p, o>> \o q)))), St(al, w, bs))
      BY <1>1, <1>3, <2>1, <2>2, AttentionPartsSafe
    <2>4. attention(m, l) = <<d1, d2, d3>> \o B \o C \o <<r1, r2, s, p, o>>
      BY <1>1, <1>3, <2>1, Zenon DEF attention, project
    <2>5. IsSeq(<<d1, d2, d3>>)
      BY LiteralIsSeq
    <2>6. /\ (<<d1, d2, d3>> \o B \o C \o <<r1, r2, s, p, o>>) \o q
               = <<d1, d2, d3>> \o (B \o (C \o (<<r1, r2>> \o (<<s, p, o>> \o q))))
          /\ IsSeq(<<d1, d2, d3>> \o B \o C \o <<r1, r2, s, p, o>>)
      BY <1>2, <2>5, AttentionUnrolled, Zenon
    <2> QED BY <2>3, <2>4, <2>6, Zenon
  <1>6. Safe(m, hip_attention(m, l) \o q, St(al, w, bs)) /\ IsSeq(hip_attention(m, l))
    <2>1. PICK d1, d2, d3, r1, r2 :
            /\ d1 = matmul(Weight(Q, l), "norm", Q)
            /\ d2 = matmul(Weight(K, l), "norm", K)
            /\ d3 = matmul(Weight(V, l), "norm", V)
            /\ r1 = rope(Q, TRUE) /\ r2 = rope(K, TRUE)
      OBVIOUS
    <2>2. /\ IsMatmul(d1, Weight(Q, l), "norm", "q", TRUE)
          /\ IsMatmul(d2, Weight(K, l), "norm", "k", TRUE)
          /\ IsMatmul(d3, Weight(V, l), "norm", "v", TRUE)
      BY <1>4, <2>1, AMatmul DEF Q, K, V
    <2>3. Safe(m, <<d1, d2, d3>> \o (B \o (C \o (<<r1, r2>> \o (<<s, p, o>> \o q)))), St(al, w, bs))
      BY <1>1, <1>3, <2>1, <2>2, AttentionPartsSafe
    <2>4. [i \in 1 .. 3 |-> matmul(Weight(<<Q, K, V>>[i], l), "norm", <<Q, K, V>>[i])]
            = <<d1, d2, d3>>
      <3> DEFINE f == [i \in 1 .. 3 |-> matmul(Weight(<<Q, K, V>>[i], l), "norm", <<Q, K, V>>[i])]
      <3>1. <<Q, K, V>>[1] = Q /\ <<Q, K, V>>[2] = K /\ <<Q, K, V>>[3] = V
        OBVIOUS
      <3>2. f[1] = d1 /\ f[2] = d2 /\ f[3] = d3
        BY <2>1, <3>1
      <3>3. f = [i \in 1 .. 3 |-> f[i]]
        OBVIOUS
      <3> HIDE DEF f
      <3>4. f = [i \in 1 .. 3 |-> <<d1, d2, d3>>[i]]
        BY <3>2, <3>3
      <3>5. <<d1, d2, d3>> = [i \in 1 .. 3 |-> <<d1, d2, d3>>[i]]
        OBVIOUS
      <3> QED BY <3>4, <3>5 DEF f
    <2>5. hip_attention(m, l) = <<d1, d2, d3>> \o B \o C \o <<r1, r2, s, p, o>>
      BY <1>1, <1>3, <2>1, <2>4, Zenon DEF hip_attention
    <2>6. IsSeq(<<d1, d2, d3>>)
      BY LiteralIsSeq
    <2>7. /\ (<<d1, d2, d3>> \o B \o C \o <<r1, r2, s, p, o>>) \o q
               = <<d1, d2, d3>> \o (B \o (C \o (<<r1, r2>> \o (<<s, p, o>> \o q))))
          /\ IsSeq(<<d1, d2, d3>> \o B \o C \o <<r1, r2, s, p, o>>)
      BY <1>2, <2>6, AttentionUnrolled, Zenon
    <2> QED BY <2>3, <2>5, <2>7, Zenon
  <1> QED BY <1>5, <1>6

LEMMA AttentionIsSeq ==
  ASSUME NEW m, NEW l
  PROVE  IsSeq(attention(m, l)) /\ IsSeq(hip_attention(m, l))
  <1>1. PICK A, B, C, D, E, F :
          /\ A = project(l) /\ B = If(m.bias, addBiases(l)) /\ C = If(m.norms, normHeads(l))
          /\ D = <<rope(Q, FALSE), rope(K, TRUE), store_kv(l), paged_attention(l),
                   matmul(Weight("o", l), "attn", "hidden")>>
          /\ E = [i \in 1 .. 3 |-> matmul(Weight(<<Q, K, V>>[i], l), "norm", <<Q, K, V>>[i])]
          /\ F = <<rope(Q, TRUE), rope(K, TRUE), store_kv(l), paged_attention(l),
                   matmul(Weight("o", l), "attn", "hidden")>>
    OBVIOUS
  <1>2. IsSeq(B) /\ IsSeq(C)
    BY <1>1, PartsAreSeqs
  <1>3. IsSeq(A) /\ IsSeq(D) /\ IsSeq(F)
    BY <1>1, LiteralIsSeq DEF project
  <1>4. IsSeq(E)
    <2>1. E = [i \in 1 .. 3 |-> E[i]]
      BY <1>1
    <2> QED BY <2>1, SeqMade
  <1>5. ASSUME NEW x, NEW y, IsSeq(x), IsSeq(y)
        PROVE  IsSeq(((x \o B) \o C) \o y)
    <2>1. IsSeq(x \o B)
      BY <1>2, <1>5, JoinIsSeq
    <2>2. IsSeq((x \o B) \o C)
      BY <1>2, <2>1, JoinIsSeq
    <2> QED BY <1>5, <2>2, JoinIsSeq
  <1>6. attention(m, l) = ((A \o B) \o C) \o D /\ hip_attention(m, l) = ((E \o B) \o C) \o F
    BY <1>1, Zenon DEF attention, hip_attention
  <1>7. IsSeq(((A \o B) \o C) \o D) /\ IsSeq(((E \o B) \o C) \o F)
    BY <1>3, <1>4, <1>5, Zenon
  <1> QED BY <1>6, <1>7, Zenon

-----------------------------------------------------------------------------
(***************************************************************************)
(* A layer with experts.                                                   *)
(***************************************************************************)
LEMMA Unroll2 ==
  ASSUME NEW d1, NEW d2, NEW q, IsSeq(q)
  PROVE  <<d1, d2>> \o q = <<d1>> \o (<<d2>> \o q)
  <1>1. IsSeq(q)
    OBVIOUS
  <1> QED BY <1>1, Cons2

LEMMA Unroll3 ==
  ASSUME NEW d1, NEW d2, NEW d3, NEW q, IsSeq(q)
  PROVE  <<d1, d2, d3>> \o q = <<d1>> \o (<<d2>> \o (<<d3>> \o q))
  <1>1. <<d1, d2, d3>> \o q = <<d1>> \o (<<d2, d3>> \o q)
    BY Cons3
  <1>2. <<d2, d3>> \o q = <<d2>> \o (<<d3>> \o q)
    BY Unroll2
  <1> QED BY <1>1, <1>2, Zenon

LEMMA Unroll4 ==
  ASSUME NEW d1, NEW d2, NEW d3, NEW d4, NEW q, IsSeq(q)
  PROVE  <<d1, d2, d3, d4>> \o q = <<d1>> \o (<<d2>> \o (<<d3>> \o (<<d4>> \o q)))
  <1>1. <<d1, d2, d3, d4>> \o q = <<d1>> \o (<<d2, d3, d4>> \o q)
    BY Cons4
  <1>2. <<d2, d3, d4>> \o q = <<d2>> \o (<<d3, d4>> \o q)
    BY Cons3
  <1>3. <<d3, d4>> \o q = <<d3>> \o (<<d4>> \o q)
    BY Unroll2
  <1> QED BY <1>1, <1>2, <1>3, Zenon

\* The same with names for what the provers would take apart.
Two(a, b) == <<a, b>>
Three(a, b, c) == <<a, b, c>>
Four(a, b, c, d) == <<a, b, c, d>>

LEMMA Unrolled ==
  ASSUME NEW q, IsSeq(q)
  PROVE  /\ \A a : IsSeq(Cons(a, q))
         /\ \A a, b : Join(Two(a, b), q) = Cons(a, Cons(b, q))
         /\ \A a, b, c : Join(Three(a, b, c), q) = Cons(a, Cons(b, Cons(c, q)))
         /\ \A a, b, c, d : Join(Four(a, b, c, d), q) = Cons(a, Cons(b, Cons(c, Cons(d, q))))
  <1>1. ASSUME NEW a PROVE IsSeq(Cons(a, q))
    BY ConsIsSeq DEF Cons
  <1>2. ASSUME NEW a, NEW b PROVE Join(Two(a, b), q) = Cons(a, Cons(b, q))
    <2>1. <<a, b>> \o q = <<a>> \o (<<b>> \o q)
      BY Unroll2
    <2> QED BY <2>1, Zenon DEF Cons, Join, Two
  <1>3. ASSUME NEW a, NEW b, NEW c
        PROVE  Join(Three(a, b, c), q) = Cons(a, Cons(b, Cons(c, q)))
    <2>1. <<a, b, c>> \o q = <<a>> \o (<<b>> \o (<<c>> \o q))
      <3>1. <<a, b, c>> \o q = <<a>> \o (<<b, c>> \o q)
        BY Cons3
      <3>2. <<b, c>> \o q = <<b>> \o (<<c>> \o q)
        BY Unroll2
      <3> QED BY <3>1, <3>2, Zenon
    <2> QED BY <2>1, Zenon DEF Cons, Join, Three
  <1>4. ASSUME NEW a, NEW b, NEW c, NEW d
        PROVE  Join(Four(a, b, c, d), q) = Cons(a, Cons(b, Cons(c, Cons(d, q))))
    <2>1. <<a, b, c, d>> \o q = <<a>> \o (<<b>> \o (<<c>> \o (<<d>> \o q)))
      <3>1. IsSeq(q)
        OBVIOUS
      <3> QED BY <3>1, Unroll4
    <2> QED BY <2>1, Zenon DEF Cons, Join, Four
  <1> QED BY <1>1, <1>2, <1>3, <1>4

LEMMA JoinsThree ==
  ASSUME NEW p, NEW r, NEW s, NEW q, IsSeq(p), IsSeq(r), IsSeq(s), IsSeq(q)
  PROVE  /\ Join(Join(p, r), q) = Join(p, Join(r, q))
         /\ Join(Join(Join(p, r), s), q) = Join(p, Join(r, Join(s, q)))
         /\ IsSeq(Join(p, r))
  <1>1. ASSUME NEW a, NEW b, NEW c, IsSeq(a), IsSeq(b), IsSeq(c)
        PROVE  Join(Join(a, b), c) = Join(a, Join(b, c)) /\ IsSeq(Join(a, b))
    BY <1>1, JoinTwo, JoinsTwo
  <1> QED BY <1>1

LEMMA JoinsFour ==
  ASSUME NEW a, NEW b, NEW c, NEW d, NEW q, IsSeq(a), IsSeq(b), IsSeq(c), IsSeq(d), IsSeq(q)
  PROVE  Join(Join(Join(Join(a, b), c), d), q) = Join(a, Join(b, Join(c, Join(d, q))))
  <1>1. PICK u, r : u = Join(Join(a, b), c) /\ r = Join(d, q)
    OBVIOUS
  <1>2. IsSeq(u) /\ IsSeq(r)
    BY <1>1, JoinTwo
  <1>3. Join(Join(u, d), q) = Join(u, r)
    BY <1>1, <1>2, JoinsTwo
  <1>4. Join(Join(Join(a, b), c), r) = Join(a, Join(b, Join(c, r)))
    BY <1>2, JoinsThree
  <1> QED BY <1>1, <1>3, <1>4

\* The buffers while a layer routes its rows.
Routing == Base \cup {"route", "idx", "score"}

LEMMA RoutingNames ==
  /\ Holds(Routing) /\ {"route", "idx", "score"} \subseteq Routing
  /\ {"route", "idx", "score"} \cap Base = {} /\ {"shs"} \cap Routing = {}
  /\ Routing \ {"route", "idx", "score"} = Base
  /\ \A al \in {Routing, Routing \cup {"shs"}} :
       /\ Holds(al) /\ {"route", "idx", "score"} \subseteq al
       /\ {"exp"} \cap al = {} /\ Holds(al \cup {"exp"})
       /\ al \ ExpertBuffers = Base /\ (al \cup {"exp"}) \ ExpertBuffers = Base
  <1>1. Routing = {"hidden", "residual", "norm", "attn", "gate", "mlp", "q", "k", "v", "ids", "pos",
                   "slots", "tables", "last", "cache", "slot_gu", "slot_dn", "slot_of",
                   "route", "idx", "score"}
    BY BaseNames DEF Routing
  <1>2. Routing \subseteq Regions /\ Base \subseteq Routing
    BY BaseNames, RegionNames DEF Routing
  <1>3. {"shs"} \cap Routing = {} /\ {"route", "idx", "score"} \cap Base = {}
        /\ {"exp"} \cap Routing = {} /\ Routing \ {"route", "idx", "score"} = Base
    BY <1>1, BaseNames
  <1>4. /\ Routing \ ExpertBuffers = Base /\ (Routing \cup {"exp"}) \ ExpertBuffers = Base
        /\ (Routing \cup {"shs"}) \ ExpertBuffers = Base
        /\ ((Routing \cup {"shs"}) \cup {"exp"}) \ ExpertBuffers = Base
    BY <1>1, BaseNames DEF ExpertBuffers
  <1>5. {"shs", "exp", "route", "idx", "score"} \subseteq Regions
    BY RegionNames
  <1>6. {"route", "idx", "score"} \subseteq Routing
    BY DEF Routing
  <1> QED BY <1>2, <1>3, <1>4, <1>5, <1>6 DEF Holds

LEMMA RouterSafe ==
  ASSUME NEW m, NEW l, NEW w, IsMem(w), NEW bs \in {{}, Level(m)}, NEW q, IsSeq(q),
         \A c : /\ Same(c, w, {"route", "idx", "score"})
                /\ c["route"] = Product(Weight("router", l), w["norm"])
                => Safe(m, q, St(Routing, c, Level(m)))
  PROVE  Safe(m, <<allocate({"route", "idx", "score"})>> \o
                   (<<matmul(Weight("router", l), "norm", "route")>> \o q), St(Base, w, bs))
  <1>1. PICK x, y : /\ x = Filled(m, w, {"route", "idx", "score"})
                    /\ y = With(x, "route", Product(Weight("router", l), x["norm"]))
    OBVIOUS
  <1>2. IsMem(x) /\ IsMem(y) /\ Same(x, w, {"route", "idx", "score"})
    BY <1>1, WithIs DEF IsMem, Filled, Same
  <1>3. PICK d : d = matmul(Weight("router", l), "norm", "route")
    OBVIOUS
  <1>4. Does(d, {"norm"}, {"route"}, TRUE) /\ y = Computed(d, x)
    <2>1. "norm" \in Regions /\ "route" \in Regions
      BY RegionNames
    <2>2. IsMatmul(d, Weight("router", l), "norm", "route", TRUE)
      BY <1>3, <2>1, AMatmul
    <2> QED BY <1>1, <1>2, <2>2 DEF IsMatmul
  <1>5. /\ Same(y, w, {"route", "idx", "score"})
        /\ y["route"] = Product(Weight("router", l), w["norm"])
    BY <1>1, <1>2, RegionNames DEF With, Same
  <1>6. Safe(m, q, St(Routing, y, Level(m)))
    BY <1>5
  <1>7. Safe(m, <<d>> \o q, St(Routing, x, bs))
    <2>1. /\ {"norm"} \cup {"route"} \subseteq Routing /\ {"norm"} \cup {"route"} \subseteq Plain
          /\ Routing \subseteq Regions /\ {"route"} # {}
      BY BaseNames, RoutingNames DEF Holds
    <2> QED BY <1>4, <1>6, <2>1, PlainDispatch
  <1>8. Safe(m, <<allocate({"route", "idx", "score"})>> \o (<<d>> \o q), St(Base, w, bs))
    <2>1. {"route", "idx", "score"} \subseteq Regions /\ {"route", "idx", "score"} \cap Base = {}
      BY RegionNames, RoutingNames
    <2>2. Safe(m, <<d>> \o q,
            St(Base \cup {"route", "idx", "score"}, Filled(m, w, {"route", "idx", "score"}), bs))
      BY <1>1, <1>7 DEF Routing
    <2> QED BY <2>1, <2>2, ConsIsSeq, AllocCall
  <1> QED BY <1>3, <1>8

\* moe_route alone.
LEMMA RouteSafe ==
  ASSUME NEW m, NEW al, Holds(al), {"route", "idx", "score"} \subseteq al,
         NEW w, IsMem(w), NEW bs \in {{}, Level(m)}, NEW q, IsSeq(q),
         \A c : Same(c, w, {"idx", "score"}) /\ c["idx"] = TopK(w["route"])
                => Safe(m, q, St(al, c, Level(m)))
  PROVE  Safe(m, <<moe_route>> \o q, St(al, w, bs))
  <1>1. PICK x, y : /\ x = With(w, "idx", TopK(w["route"]))
                    /\ y = With(x, "score", TopK(w["route"]))
    OBVIOUS
  <1>2. IsMem(x) /\ IsMem(y)
    BY <1>1, WithIs
  <1>3. Does(moe_route, {"route"}, {"idx", "score"}, TRUE) /\ y = Computed(moe_route, w)
    BY <1>1, RouteDoes
  <1>4. Same(y, w, {"idx", "score"}) /\ y["idx"] = TopK(w["route"])
    BY <1>1, <1>2, RegionNames DEF With, Same
  <1>5. Safe(m, q, St(al, y, Level(m)))
    BY <1>4
  <1>6. /\ {"route"} \cup {"idx", "score"} \subseteq al
        /\ {"route"} \cup {"idx", "score"} \subseteq Plain
        /\ al \subseteq Regions /\ {"idx", "score"} # {}
    BY BaseNames DEF Holds
  <1> QED BY <1>3, <1>5, <1>6, PlainDispatch

\* The gate of the shared expert.
LEMMA GateSafe ==
  ASSUME NEW m, NEW l, NEW w, IsMem(w), NEW bs \in {{}, Level(m)}, NEW q, IsSeq(q),
         \A c : /\ Same(c, w, {"hidden", "shs"})
                /\ c["hidden"] = <<"scaled", w["hidden"], Product(Weight("sh_gate", l), w["norm"])>>
                => Safe(m, q, St(Routing \cup {"shs"}, c, Level(m)))
  PROVE  Safe(m, <<allocate({"shs"})>> \o (<<matmul(Weight("sh_gate", l), "norm", "shs")>> \o
                   (<<scale_sigmoid>> \o q)), St(Routing, w, bs))
  <1>1. PICK x, y, z : /\ x = Filled(m, w, {"shs"})
                       /\ y = With(x, "shs", Product(Weight("sh_gate", l), x["norm"]))
                       /\ z = With(y, "hidden", <<"scaled", y["hidden"], y["shs"]>>)
    OBVIOUS
  <1>2. IsMem(x) /\ IsMem(y) /\ IsMem(z) /\ Same(x, w, {"shs"})
    BY <1>1, WithIs DEF IsMem, Filled, Same
  <1>3. PICK d, al : d = matmul(Weight("sh_gate", l), "norm", "shs") /\ al = Routing \cup {"shs"}
    OBVIOUS
  <1>4. Does(d, {"norm"}, {"shs"}, TRUE) /\ y = Computed(d, x)
    <2>1. "norm" \in Regions /\ "shs" \in Regions
      BY RegionNames
    <2>2. IsMatmul(d, Weight("sh_gate", l), "norm", "shs", TRUE)
      BY <1>3, <2>1, AMatmul
    <2> QED BY <1>1, <1>2, <2>2 DEF IsMatmul
  <1>5. Does(scale_sigmoid, {"hidden", "shs"}, {"hidden"}, TRUE) /\ z = Computed(scale_sigmoid, y)
    BY <1>1, <1>2, ScaleDoes
  <1>6. /\ Same(z, w, {"hidden", "shs"})
        /\ z["hidden"] = <<"scaled", w["hidden"], Product(Weight("sh_gate", l), w["norm"])>>
    <2>1. y["shs"] = Product(Weight("sh_gate", l), x["norm"]) /\ y["hidden"] = x["hidden"]
      BY <1>1, RegionNames DEF With
    <2>2. x["norm"] = w["norm"] /\ x["hidden"] = w["hidden"]
      BY <1>2, RegionNames DEF Same
    <2>3. z["hidden"] = <<"scaled", y["hidden"], y["shs"]>>
      BY <1>1, RegionNames DEF With
    <2>4. Same(z, w, {"hidden", "shs"})
      BY <1>1, <1>2, RegionNames DEF With, Same
    <2> QED BY <2>1, <2>2, <2>3, <2>4
  <1>7. Safe(m, q, St(al, z, Level(m)))
    BY <1>3, <1>6
  <1>8. Holds(al) /\ "shs" \in al
    BY <1>3, RoutingNames
  <1>9. Safe(m, <<scale_sigmoid>> \o q, St(al, y, Level(m)))
    <2>1. /\ {"hidden", "shs"} \cup {"hidden"} \subseteq al
          /\ {"hidden", "shs"} \cup {"hidden"} \subseteq Plain
          /\ al \subseteq Regions /\ {"hidden"} # {}
      BY <1>8, BaseNames DEF Holds
    <2> QED BY <1>5, <1>7, <2>1, PlainDispatch
  <1>10. Safe(m, <<d>> \o (<<scale_sigmoid>> \o q), St(al, x, bs))
    <2>1. /\ {"norm"} \cup {"shs"} \subseteq al /\ {"norm"} \cup {"shs"} \subseteq Plain
          /\ al \subseteq Regions /\ {"shs"} # {} /\ IsSeq(<<scale_sigmoid>> \o q)
      BY <1>8, BaseNames, ConsIsSeq DEF Holds
    <2> QED BY <1>4, <1>9, <2>1, PlainDispatch
  <1>11. PICK r : r = <<d>> \o (<<scale_sigmoid>> \o q)
    OBVIOUS
  <1>12. IsSeq(r)
    BY <1>11, ConsIsSeq
  <1>13. Safe(m, <<allocate({"shs"})>> \o r, St(Routing, w, bs))
    <2>1. {"shs"} \subseteq Regions /\ {"shs"} \cap Routing = {}
      BY RegionNames, RoutingNames
    <2>2. Safe(m, r, St(Routing \cup {"shs"}, Filled(m, w, {"shs"}), bs))
      BY <1>1, <1>3, <1>10, <1>11
    <2> QED BY <1>12, <2>1, <2>2, AllocCall
  <1> QED BY <1>3, <1>11, <1>13

\* What the shared expert adds, and what the experts of the first k chunks do.
Shared(m, l, norm) ==
  LET shared == ReferenceMlp(Weight("sh_gu", l), Weight("sh_dn", l), norm)
  IN  IF m.gate THEN <<"scaled", shared, Product(Weight("sh_gate", l), norm)>> ELSE shared

Chosen(l, norm) == TopK(Product(Weight("router", l), norm))
Added(l, norm, k) == UNION {Experts(Weight("experts", l), norm, Chosen(l, norm), c) : c \in 1 .. k}

LEMMA ReferenceAdds ==
  ASSUME NEW m, NEW l, NEW norm
  PROVE  ReferenceSparse(m, l, norm) =
           PlusExperts(IF m.shared THEN Shared(m, l, norm) ELSE Zeros, Added(l, norm, m.chunks))
  BY DEF ReferenceSparse, Shared, Chosen, Added

LEMMA SharedParts ==
  ASSUME NEW m, NEW l, NEW q, IsSeq(q)
  PROVE  LET p == mlp(Weight("sh_gu", l), Weight("sh_dn", l))
             a == allocate({"shs"})
             b == matmul(Weight("sh_gate", l), "norm", "shs")
             d == release({"shs"})
         IN  /\ IsSeq(sharedExpert(m, l)) /\ IsSeq(hip_shared(m, l))
             /\ m.gate =>
                  /\ Join(sharedExpert(m, l), q) = Join(p, Cons(a, Cons(b, Cons(scale_sigmoid, q))))
                  /\ Join(hip_shared(m, l), q)
                       = Join(p, Cons(a, Cons(b, Cons(scale_sigmoid, Cons(d, q)))))
             /\ ~ m.gate => Join(sharedExpert(m, l), q) = Join(p, q)
                            /\ Join(hip_shared(m, l), q) = Join(p, q)
  <1>1. PICK a, b, c, d, p : /\ a = allocate({"shs"})
                             /\ b = matmul(Weight("sh_gate", l), "norm", "shs")
                             /\ c = scale_sigmoid /\ d = release({"shs"})
                             /\ p = mlp(Weight("sh_gu", l), Weight("sh_dn", l))
    OBVIOUS
  <1>2. PICK s, t : s = Three(a, b, c) /\ t = Four(a, b, c, d)
    OBVIOUS
  <1>3. IsSeq(p) /\ IsSeq(s) /\ IsSeq(t) /\ IsSeq(<<>>)
    BY <1>1, <1>2, LiteralIsSeq DEF mlp, Three, Four
  <1>4. ASSUME NEW u, IsSeq(u)
        PROVE  Join(Join(p, u), q) = Join(p, Join(u, q)) /\ IsSeq(Join(p, u))
    <2>1. IsSeq(p) /\ IsSeq(u) /\ IsSeq(q)
      BY <1>3, <1>4
    <2> QED BY <2>1, JoinTwo, JoinsTwo
  <1>5. CASE m.gate
    <2>1. sharedExpert(m, l) = Join(p, s) /\ hip_shared(m, l) = Join(p, t)
      BY <1>1, <1>2, <1>5, Zenon DEF sharedExpert, hip_shared, If, Join, Three, Four
    <2>2. /\ Join(s, q) = Cons(a, Cons(b, Cons(c, q)))
          /\ Join(t, q) = Cons(a, Cons(b, Cons(c, Cons(d, q))))
      BY <1>2, Unrolled
    <2> QED BY <1>1, <1>3, <1>4, <1>5, <2>1, <2>2
  <1>6. CASE ~ m.gate
    <2>1. sharedExpert(m, l) = Join(p, <<>>) /\ hip_shared(m, l) = Join(p, <<>>)
      BY <1>1, <1>6, Zenon DEF sharedExpert, hip_shared, If, Join
    <2>2. Join(<<>>, q) = q
      BY NilFirst DEF Join
    <2> QED BY <1>1, <1>3, <1>4, <1>6, <2>1, <2>2
  <1> QED BY <1>5, <1>6

LEMMA SharedSafe ==
  ASSUME NEW m, NEW l, NEW w, IsMem(w), NEW bs \in {{}, Level(m)}, NEW q, IsSeq(q),
         \A c : \A al \in {Routing, Routing \cup {"shs"}} :
           /\ Same(c, w, {"gate", "mlp", "hidden", "shs"})
           /\ c["hidden"] = Shared(m, l, w["norm"])
           => Safe(m, q, St(al, c, Level(m)))
  PROVE  Safe(m, sharedExpert(m, l) \o q, St(Routing, w, bs))
  <1>1. Holds(Routing)
    BY RoutingNames
  <1>2. PICK gu, dn : gu = Weight("sh_gu", l) /\ dn = Weight("sh_dn", l)
    OBVIOUS
  <1>3. CASE m.gate
    <2>1. PICK r : r = <<allocate({"shs"})>> \o (<<matmul(Weight("sh_gate", l), "norm", "shs")>> \o
                          (<<scale_sigmoid>> \o q))
      OBVIOUS
    <2>2. IsSeq(r)
      <3>1. IsSeq(<<scale_sigmoid>> \o q)
        BY ConsIsSeq
      <3>2. IsSeq(<<matmul(Weight("sh_gate", l), "norm", "shs")>> \o (<<scale_sigmoid>> \o q))
        BY <3>1, ConsIsSeq
      <3> QED BY <2>1, <3>2, ConsIsSeq
    <2>3. ASSUME NEW c, Same(c, w, {"gate", "mlp", "hidden"}),
                 c["hidden"] = ReferenceMlp(gu, dn, w["norm"])
          PROVE  Safe(m, r, St(Routing, c, Level(m)))
      <3>1. IsMem(c) /\ c["norm"] = w["norm"]
        BY <2>3, RegionNames DEF Same
      <3>2. ASSUME NEW e, Same(e, c, {"hidden", "shs"}),
                   e["hidden"] = <<"scaled", c["hidden"], Product(Weight("sh_gate", l), c["norm"])>>
            PROVE  Safe(m, q, St(Routing \cup {"shs"}, e, Level(m)))
        <4>1. e["hidden"] = Shared(m, l, w["norm"])
          BY <1>2, <1>3, <2>3, <3>1, <3>2 DEF Shared
        <4>2. Same(e, w, {"gate", "mlp", "hidden", "shs"})
          BY <2>3, <3>2 DEF Same
        <4> QED BY <4>1, <4>2
      <3> QED BY <2>1, <3>1, <3>2, GateSafe
    <2>4. Safe(m, mlp(gu, dn) \o r, St(Routing, w, bs))
      BY <1>1, <2>2, <2>3, MlpSafe
    <2>5. r = Cons(allocate({"shs"}), Cons(matmul(Weight("sh_gate", l), "norm", "shs"),
                                           Cons(scale_sigmoid, q)))
      BY <2>1, Zenon DEF Cons
    <2>6. Join(sharedExpert(m, l), q) = Join(mlp(gu, dn), r)
      BY <1>2, <1>3, <2>5, SharedParts
    <2> QED BY <2>4, <2>6, Zenon DEF Join
  <1>4. CASE ~ m.gate
    <2>1. ASSUME NEW c, Same(c, w, {"gate", "mlp", "hidden"}),
                 c["hidden"] = ReferenceMlp(gu, dn, w["norm"])
          PROVE  Safe(m, q, St(Routing, c, Level(m)))
      <3>1. c["hidden"] = Shared(m, l, w["norm"])
        BY <1>2, <1>4, <2>1 DEF Shared
      <3>2. Same(c, w, {"gate", "mlp", "hidden", "shs"})
        BY <2>1 DEF Same
      <3> QED BY <3>1, <3>2
    <2>2. Safe(m, mlp(gu, dn) \o q, St(Routing, w, bs))
      BY <1>1, <2>1, MlpSafe
    <2>3. Join(sharedExpert(m, l), q) = Join(mlp(gu, dn), q)
      BY <1>2, <1>4, SharedParts
    <2> QED BY <2>2, <2>3, Zenon DEF Join
  <1> QED BY <1>3, <1>4

LEMMA HipSharedSafe ==
  ASSUME NEW m, Hip(m), NEW l, NEW w, IsMem(w), NEW bs \in {{}, Level(m)}, NEW q, IsSeq(q),
         \A c : /\ Same(c, w, {"gate", "mlp", "hidden", "shs"})
                /\ c["hidden"] = Shared(m, l, w["norm"])
                => Safe(m, q, St(Routing, c, Level(m)))
  PROVE  Safe(m, hip_shared(m, l) \o q, St(Routing, w, bs))
  <1>1. Holds(Routing)
    BY RoutingNames
  <1>2. PICK gu, dn : gu = Weight("sh_gu", l) /\ dn = Weight("sh_dn", l)
    OBVIOUS
  <1>3. CASE m.gate
    <2>1. PICK r, s : /\ s = <<release({"shs"})>> \o q
                      /\ r = <<allocate({"shs"})>>
                           \o (<<matmul(Weight("sh_gate", l), "norm", "shs")>> \o
                               (<<scale_sigmoid>> \o s))
      OBVIOUS
    <2>2. IsSeq(s) /\ IsSeq(r)
      <3>1. IsSeq(s)
        BY <2>1, ConsIsSeq
      <3>2. IsSeq(<<scale_sigmoid>> \o s)
        BY <3>1, ConsIsSeq
      <3>3. IsSeq(<<matmul(Weight("sh_gate", l), "norm", "shs")>> \o (<<scale_sigmoid>> \o s))
        BY <3>2, ConsIsSeq
      <3> QED BY <2>1, <3>1, <3>3, ConsIsSeq
    <2>3. ASSUME NEW c, Same(c, w, {"gate", "mlp", "hidden"}),
                 c["hidden"] = ReferenceMlp(gu, dn, w["norm"])
          PROVE  Safe(m, r, St(Routing, c, Level(m)))
      <3>1. IsMem(c) /\ c["norm"] = w["norm"]
        BY <2>3, RegionNames DEF Same
      <3>2. ASSUME NEW e, Same(e, c, {"hidden", "shs"}),
                   e["hidden"] = <<"scaled", c["hidden"], Product(Weight("sh_gate", l), c["norm"])>>
            PROVE  Safe(m, s, St(Routing \cup {"shs"}, e, Level(m)))
        <4>1. e["hidden"] = Shared(m, l, w["norm"])
          BY <1>2, <1>3, <2>3, <3>1, <3>2 DEF Shared
        <4>2. Same(e, w, {"gate", "mlp", "hidden", "shs"})
          BY <2>3, <3>2 DEF Same
        <4>3. Safe(m, q, St(Routing, e, {}))
          BY <4>1, <4>2 DEF Level
        <4>4. (Routing \cup {"shs"}) \ {"shs"} = Routing
          BY RoutingNames
        <4>5. Safe(m, <<release({"shs"})>> \o q, St(Routing \cup {"shs"}, e, {}))
          BY <4>3, <4>4, FreeCall
        <4> QED BY <2>1, <4>5 DEF Level
      <3> QED BY <2>1, <2>2, <3>1, <3>2, GateSafe
    <2>4. Safe(m, mlp(gu, dn) \o r, St(Routing, w, bs))
      BY <1>1, <2>2, <2>3, MlpSafe
    <2>5. r = Cons(allocate({"shs"}), Cons(matmul(Weight("sh_gate", l), "norm", "shs"),
                                           Cons(scale_sigmoid, Cons(release({"shs"}), q))))
      BY <2>1, Zenon DEF Cons
    <2>6. Join(hip_shared(m, l), q) = Join(mlp(gu, dn), r)
      BY <1>2, <1>3, <2>5, SharedParts
    <2> QED BY <2>4, <2>6, Zenon DEF Join
  <1>4. CASE ~ m.gate
    <2>1. ASSUME NEW c, Same(c, w, {"gate", "mlp", "hidden"}),
                 c["hidden"] = ReferenceMlp(gu, dn, w["norm"])
          PROVE  Safe(m, q, St(Routing, c, Level(m)))
      <3>1. c["hidden"] = Shared(m, l, w["norm"])
        BY <1>2, <1>4, <2>1 DEF Shared
      <3>2. Same(c, w, {"gate", "mlp", "hidden", "shs"})
        BY <2>1 DEF Same
      <3> QED BY <3>1, <3>2
    <2>2. Safe(m, mlp(gu, dn) \o q, St(Routing, w, bs))
      BY <1>1, <2>1, MlpSafe
    <2>3. Join(hip_shared(m, l), q) = Join(mlp(gu, dn), q)
      BY <1>2, <1>4, SharedParts
    <2> QED BY <2>2, <2>3, Zenon DEF Join
  <1> QED BY <1>3, <1>4

\* Experts are placed in slots that nothing queued may touch.
LEMMA PlaceSafe ==
  ASSUME NEW m, NEW l, NEW k, NEW al, NEW w, IsMem(w), NEW bs, bs \subseteq Plain,
         NEW q, IsSeq(q),
         \A c : Same(c, w, {"slot_gu", "slot_dn", "slot_of"}) => Safe(m, q, St(al, c, bs))
  PROVE  /\ ~ Hip(m) => Safe(m, moe_place(l, k) \o q, St(al, w, bs))
         /\ Safe(m, hip_moe_place(l, k) \o q, St(al, w, bs))
  <1>1. PICK v, x, y, z : /\ v = <<l, k>> /\ x = With(w, "slot_gu", v)
                          /\ y = With(x, "slot_dn", v) /\ z = With(y, "slot_of", v)
    OBVIOUS
  <1>2. /\ "slot_gu" \in Regions \ bs /\ "slot_dn" \in Regions \ bs
        /\ "slot_of" \in Regions \ bs
    BY RegionNames DEF Plain
  <1>3. Same(z, w, {"slot_gu", "slot_dn", "slot_of"})
    <2>1. IsMem(z)
      BY <1>1, WithIs
    <2> QED BY <1>1, <2>1 DEF With, Same
  <1>4. Safe(m, q, St(al, z, bs))
    BY <1>3
  <1>5. \A cp : Safe(m, <<upload("slot_of", v)>> \o q, HostState(al, y, bs, {}, {}, cp))
    BY <1>1, <1>2, <1>4, UploadCall
  <1>6. PICK r, s, t, u, e : /\ r = <<upload("slot_of", v)>> \o q
                             /\ s = <<upload_at_async("slot_dn", v)>> \o r
                             /\ t = <<upload_at_async("slot_gu", v)>> \o s
                             /\ u = <<upload("slot_dn", v)>> \o r
                             /\ e = <<upload("slot_gu", v)>> \o u
    OBVIOUS
  <1>7. IsSeq(r) /\ IsSeq(s) /\ IsSeq(u)
    <2>1. IsSeq(r)
      BY <1>6, ConsIsSeq
    <2> QED BY <1>6, <2>1, ConsIsSeq
  <1>8. ASSUME ~ Hip(m)
        PROVE  Safe(m, t, St(al, w, bs))
    <2>1. Safe(m, r, HostState(al, With(x, "slot_dn", v), bs, {}, {}, TRUE))
      BY <1>1, <1>5, <1>6
    <2>2. Safe(m, s, HostState(al, x, bs, {}, {}, TRUE))
      BY <1>2, <1>6, <1>7, <1>8, <2>1, AsyncCall
    <2>3. Safe(m, s, HostState(al, With(w, "slot_gu", v), bs, {}, {}, TRUE))
      BY <1>1, <2>2
    <2>4. Safe(m, t, HostState(al, w, bs, {}, {}, FALSE))
      BY <1>2, <1>6, <1>7, <1>8, <2>3, AsyncCall
    <2> QED BY <2>4 DEF St
  <1>9. Safe(m, e, St(al, w, bs))
    <2>1. Safe(m, r, St(al, With(x, "slot_dn", v), bs))
      BY <1>1, <1>5, <1>6 DEF St
    <2>2. Safe(m, u, HostState(al, x, bs, {}, {}, FALSE))
      BY <1>2, <1>6, <1>7, <2>1, UploadCall
    <2>3. Safe(m, u, St(al, With(w, "slot_gu", v), bs))
      BY <1>1, <2>2 DEF St
    <2>4. Safe(m, e, HostState(al, w, bs, {}, {}, FALSE))
      BY <1>2, <1>6, <1>7, <2>3, UploadCall
    <2> QED BY <2>4 DEF St
  <1>10. moe_place(l, k) \o q = t /\ hip_moe_place(l, k) \o q = e
    <2>1. PICK a, b, c, d, f : /\ a = upload_at_async("slot_gu", v)
                               /\ b = upload_at_async("slot_dn", v)
                               /\ c = upload("slot_of", v) /\ d = upload("slot_gu", v)
                               /\ f = upload("slot_dn", v)
      OBVIOUS
    <2>2. moe_place(l, k) = <<a, b, c>> /\ hip_moe_place(l, k) = <<d, f, c>>
      BY <1>1, <2>1, Zenon DEF moe_place, hip_moe_place
    <2>3. /\ Join(Three(a, b, c), q) = Cons(a, Cons(b, Cons(c, q)))
          /\ Join(Three(d, f, c), q) = Cons(d, Cons(f, Cons(c, q)))
      BY Unrolled
    <2> QED BY <1>6, <2>1, <2>2, <2>3, Zenon DEF Join, Three, Cons
  <1> QED BY <1>8, <1>9, <1>10

\* What is queued when a dispatch may read the slots.
Full(m) == IF Hip(m) THEN {} ELSE Regions

SlotRegions == {"slot_gu", "slot_dn", "slot_of"}

LEMMA FullLevel ==
  ASSUME NEW m, NEW bs, NEW R, "slot_gu" \in R
  PROVE  Full(m) = LevelOf(m, bs, R)
  BY DEF Full, LevelOf, Plain

LEMMA SlotNames ==
  /\ SlotRegions \subseteq Base /\ {} \subseteq Plain /\ \A m : Level(m) \subseteq Plain
  /\ \A m : Hip(m) => Level(m) = {} /\ Full(m) = {}
  BY BaseNames DEF SlotRegions, Level, Full

\* One run of the kernel that routes and computes.
LEMMA FusedOnce ==
  ASSUME NEW m, NEW l, NEW k, NEW al, Holds(al), {"route", "idx", "score", "exp"} \subseteq al,
         NEW w, IsMem(w), NEW bs, NEW q, IsSeq(q),
         \A c : /\ Same(c, w, {"idx", "score", "exp"})
                /\ c["exp"] = w["exp"]
                     \cup Experts(Weight("experts", l), w["norm"], TopK(w["route"]), k)
                => Safe(m, q, St(al, c, Full(m)))
  PROVE  Safe(m, <<moe_route_ffn(l, k)>> \o q, St(al, w, bs))
  <1>1. PICK e, x, y, z :
          /\ e = w["exp"] \cup Experts(Weight("experts", l), w["norm"], TopK(w["route"]), k)
          /\ x = With(w, "idx", TopK(w["route"])) /\ y = With(x, "score", TopK(w["route"]))
          /\ z = With(y, "exp", e)
    OBVIOUS
  <1>2. PICK d, R : d = moe_route_ffn(l, k)
          /\ R = {"norm", "route", "slot_gu", "slot_dn", "slot_of"}
    OBVIOUS
  <1>3. Does(d, R, {"idx", "score", "exp"}, TRUE) /\ z = Computed(d, w)
    BY <1>1, <1>2, FusedDoes
  <1>4. Same(z, w, {"idx", "score", "exp"}) /\ z["exp"] = e
    <2>1. IsMem(z)
      BY <1>1, WithIs
    <2> QED BY <1>1, <2>1, RegionNames DEF With, Same
  <1>5. Safe(m, q, St(al, z, Full(m)))
    BY <1>1, <1>4
  <1>6. R \cup {"idx", "score", "exp"} \subseteq al /\ al \subseteq Regions
    BY <1>2, BaseNames DEF Holds
  <1>7. Full(m) = LevelOf(m, bs, R \cup {"idx", "score", "exp"})
    BY <1>2, FullLevel
  <1>8. {"idx", "score", "exp"} # {}
    OBVIOUS
  <1>9. Safe(m, <<d>> \o q, St(al, w, bs))
    BY <1>3, <1>5, <1>6, <1>7, <1>8, OneDispatch
  <1> QED BY <1>2, <1>9

\* A miss may send it a second time: the same experts are added to the same rows.
LEMMA FusedSafe ==
  ASSUME NEW m, ~ Hip(m), NEW l, NEW k, NEW al, Holds(al),
         {"route", "idx", "score", "exp"} \subseteq al,
         NEW w, IsMem(w), NEW bs, NEW q, IsSeq(q),
         \A c, b : /\ Same(c, w, {"idx", "score", "exp"} \cup SlotRegions)
                   /\ c["exp"] = w["exp"] \cup Experts(Weight("experts", l), w["norm"],
                                                       TopK(w["route"]), k)
                   => Safe(m, q, St(al, c, b))
  PROVE  Safe(m, fusedChunk(l, k) \o q, St(al, w, bs))
  <1>1. PICK d, e, calls : /\ d = moe_route_ffn(l, k)
                           /\ e = Experts(Weight("experts", l), w["norm"], TopK(w["route"]), k)
                           /\ calls = moe_place(l, k) \o <<d>>
    OBVIOUS
  <1>2. PICK r, s : r = <<onMiss(calls)>> \o q /\ s = If(k = 1, <<download("idx")>>) \o r
    OBVIOUS
  <1>3. IsSeq(r) /\ IsSeq(s)
    <2>1. IsSeq(r)
      BY <1>2, ConsIsSeq
    <2>2. IsSeq(If(k = 1, <<download("idx")>>))
      BY LiteralIsSeq DEF If
    <2> QED BY <1>2, <2>1, <2>2, JoinIsSeq
  <1>4. ASSUME NEW c, Same(c, w, {"idx", "score", "exp"}), c["exp"] = w["exp"] \cup e
        PROVE  Safe(m, r, St(al, c, {}))
    <2>1. Safe(m, q, St(al, c, {}))
      <3>1. Same(c, w, {"idx", "score", "exp"} \cup SlotRegions)
        BY <1>4 DEF Same
      <3> QED BY <1>1, <1>4, <3>1
    <2>2. ASSUME NEW f, Same(f, c, {"slot_gu", "slot_dn", "slot_of"})
          PROVE  Safe(m, <<d>> \o q, St(al, f, {}))
      <3>1. IsMem(f) /\ f["exp"] = w["exp"] \cup e /\ f["norm"] = w["norm"]
              /\ f["route"] = w["route"]
        BY <1>4, <2>2, RegionNames DEF Same
      <3>2. ASSUME NEW g, Same(g, f, {"idx", "score", "exp"}),
                   g["exp"] = f["exp"]
                     \cup Experts(Weight("experts", l), f["norm"], TopK(f["route"]), k)
            PROVE  Safe(m, q, St(al, g, Full(m)))
        <4>1. g["exp"] = w["exp"] \cup e
          BY <1>1, <3>1, <3>2
        <4>2. Same(g, w, {"idx", "score", "exp"} \cup SlotRegions)
          BY <1>4, <2>2, <3>2 DEF Same, SlotRegions
        <4> QED BY <1>1, <4>1, <4>2
      <3> QED BY <1>1, <3>1, <3>2, FusedOnce
    <2>3. Safe(m, moe_place(l, k) \o (<<d>> \o q), St(al, c, {}))
      <3>1. IsMem(c) /\ IsSeq(<<d>> \o q) /\ {} \subseteq Plain
        BY <1>4, ConsIsSeq DEF Same
      <3> QED BY <2>2, <3>1, PlaceSafe
    <2>4. calls \o q = moe_place(l, k) \o (<<d>> \o q)
      <3>1. IsSeq(moe_place(l, k)) /\ IsSeq(<<d>>) /\ IsSeq(q)
        BY LiteralIsSeq DEF moe_place
      <3>2. Join(Join(moe_place(l, k), <<d>>), q) = Join(moe_place(l, k), Join(<<d>>, q))
        BY <3>1, JoinsTwo
      <3> QED BY <1>1, <3>2, Zenon DEF Join
    <2>5. Safe(m, calls \o q, St(al, c, {}))
      BY <2>3, <2>4, Zenon
    <2> QED BY <1>2, <2>1, <2>5, SafeMiss
  <1>5. ASSUME NEW c, Same(c, w, {"idx", "score", "exp"}), c["exp"] = w["exp"] \cup e
        PROVE  Safe(m, <<submit_wait>> \o s, St(al, c, Full(m)))
    <2>1. Safe(m, s, St(al, c, {}))
      <3>1. Safe(m, r, St(al, c, {}))
        BY <1>4, <1>5
      <3>2. CASE k = 1
        <4>1. Safe(m, <<download("idx")>> \o r, St(al, c, {}))
          <5>1. "idx" \in Regions /\ "idx" # "logits"
            BY RegionNames
          <5> QED BY <1>3, <3>1, <5>1, DownloadCall
        <4>2. s = <<download("idx")>> \o r
          BY <1>2, <3>2, Zenon DEF If
        <4> QED BY <4>1, <4>2, Zenon
      <3>3. CASE k # 1
        <4>1. s = <<>> \o r
          BY <1>2, <3>3, Zenon DEF If
        <4>2. <<>> \o r = r
          BY <1>3, NilFirst
        <4> QED BY <3>1, <4>1, <4>2, Zenon
      <3> QED BY <3>2, <3>3
    <2> QED BY <1>3, <2>1, SubmitCall
  <1>6. Safe(m, <<d>> \o (<<submit_wait>> \o s), St(al, w, bs))
    <2>1. IsSeq(<<submit_wait>> \o s)
      BY <1>3, ConsIsSeq
    <2> QED BY <1>1, <1>5, <2>1, FusedOnce
  <1>7. fusedChunk(l, k) \o q = <<d>> \o (<<submit_wait>> \o s)
    <2>1. PICK A, B, C : A = Two(d, submit_wait) /\ B = If(k = 1, <<download("idx")>>)
            /\ C = <<onMiss(calls)>>
      OBVIOUS
    <2>2. IsSeq(A) /\ IsSeq(B) /\ IsSeq(C) /\ IsSeq(q)
      BY <2>1, LiteralIsSeq DEF If, Two
    <2>3. fusedChunk(l, k) = Join(Join(A, B), C)
      BY <1>1, <2>1, Zenon DEF fusedChunk, Join, Two
    <2>4. Join(Join(Join(A, B), C), q) = Join(A, Join(B, Join(C, q)))
      BY <2>2, JoinsThree
    <2>5. Join(C, q) = r /\ Join(B, r) = s
      BY <1>2, <2>1, Zenon DEF Join
    <2>6. Join(A, s) = Cons(d, Cons(submit_wait, s))
      BY <1>3, <2>1, Unrolled
    <2>7. Join(fusedChunk(l, k), q) = Cons(d, Cons(submit_wait, s))
      BY <2>3, <2>4, <2>5, <2>6
    <2> QED BY <2>7, Zenon DEF Join, Cons
  <1> QED BY <1>6, <1>7, Zenon

LEMMA FusedIsSeq ==
  ASSUME NEW l, NEW k
  PROVE  IsSeq(fusedChunk(l, k)) /\ IsSeq(routedChunk(l, k)) /\ IsSeq(hip_chunk(l, k))
  <1>1. PICK A, B, C : /\ A = <<moe_route_ffn(l, k), submit_wait>>
                       /\ B = If(k = 1, <<download("idx")>>)
                       /\ C = <<onMiss(moe_place(l, k) \o <<moe_route_ffn(l, k)>>)>>
    OBVIOUS
  <1>2. IsSeq(A) /\ IsSeq(B) /\ IsSeq(C)
    BY <1>1, LiteralIsSeq DEF If
  <1>3. IsSeq((A \o B) \o C)
    <2>1. IsSeq(A \o B)
      BY <1>2, JoinIsSeq
    <2> QED BY <1>2, <2>1, JoinIsSeq
  <1>4. fusedChunk(l, k) = (A \o B) \o C
    BY <1>1, Zenon DEF fusedChunk
  <1>5. IsSeq(routedChunk(l, k)) /\ IsSeq(hip_chunk(l, k))
    BY LiteralIsSeq DEF routedChunk, hip_chunk
  <1>6. IsSeq(fusedChunk(l, k))
    BY <1>3, <1>4, Zenon
  <1> QED BY <1>5, <1>6

\* moe_ffn alone.
LEMMA ExpertsOnce ==
  ASSUME NEW m, NEW l, NEW k, NEW al, Holds(al), {"route", "idx", "score"} \subseteq al,
         NEW w, IsMem(w), NEW bs, NEW q, IsSeq(q),
         \A c : /\ Same(c, w, {"hidden"})
                /\ c["hidden"] = AddRows(w["hidden"],
                     Experts(Weight("experts", l), w["norm"], w["idx"], k), k)
                => Safe(m, q, St(al, c, Full(m)))
  PROVE  Safe(m, <<moe_ffn(l, k)>> \o q, St(al, w, bs))
  <1>1. PICK h, z : /\ h = AddRows(w["hidden"],
                         Experts(Weight("experts", l), w["norm"], w["idx"], k), k)
                    /\ z = With(w, "hidden", h)
    OBVIOUS
  <1>2. PICK d, R : /\ d = moe_ffn(l, k)
                    /\ R = {"norm", "idx", "score", "slot_gu", "slot_dn", "slot_of", "hidden"}
    OBVIOUS
  <1>3. Does(d, R, {"hidden"}, TRUE) /\ z = Computed(d, w)
    BY <1>1, <1>2, ExpertsDo
  <1>4. Same(z, w, {"hidden"}) /\ z["hidden"] = h
    <2>1. IsMem(z)
      BY <1>1, WithIs
    <2> QED BY <1>1, <2>1, RegionNames DEF With, Same
  <1>5. Safe(m, q, St(al, z, Full(m)))
    BY <1>1, <1>4
  <1>6. R \cup {"hidden"} \subseteq al /\ al \subseteq Regions
    BY <1>2, BaseNames DEF Holds
  <1>7. Full(m) = LevelOf(m, bs, R \cup {"hidden"})
    BY <1>2, FullLevel
  <1>8. {"hidden"} # {}
    OBVIOUS
  <1>9. Safe(m, <<d>> \o q, St(al, w, bs))
    BY <1>3, <1>5, <1>6, <1>7, <1>8, OneDispatch
  <1> QED BY <1>2, <1>9

\* The experts of a chunk, placed first where they are not.
LEMMA ChunkSafe ==
  ASSUME NEW m, NEW l, NEW k, NEW j, NEW al, Holds(al), {"route", "idx", "score"} \subseteq al,
         NEW w, IsMem(w), NEW bs, bs \subseteq Plain, NEW q, IsSeq(q),
         \A c : /\ Same(c, w, {"hidden"} \cup SlotRegions)
                /\ c["hidden"] = AddRows(w["hidden"],
                     Experts(Weight("experts", l), w["norm"], w["idx"], k), k)
                => Safe(m, q, St(al, c, Full(m)))
  PROVE  /\ ~ Hip(m) => Safe(m, <<onMiss(moe_place(l, j))>> \o (<<moe_ffn(l, k)>> \o q),
              St(al, w, bs))
         /\ Safe(m, <<onMiss(hip_moe_place(l, j))>> \o (<<moe_ffn(l, k)>> \o q), St(al, w, bs))
  <1>1. PICK r : r = <<moe_ffn(l, k)>> \o q
    OBVIOUS
  <1>2. IsSeq(r)
    BY <1>1, ConsIsSeq
  <1>3. ASSUME NEW c, Same(c, w, SlotRegions)
        PROVE  Safe(m, r, St(al, c, bs))
    <2>1. /\ IsMem(c) /\ c["norm"] = w["norm"] /\ c["idx"] = w["idx"] /\ c["hidden"] = w["hidden"]
      BY <1>3, RegionNames DEF Same, SlotRegions
    <2>2. ASSUME NEW e, Same(e, c, {"hidden"}),
                 e["hidden"] = AddRows(c["hidden"],
                   Experts(Weight("experts", l), c["norm"], c["idx"], k), k)
          PROVE  Safe(m, q, St(al, e, Full(m)))
      <3>1. Same(e, w, {"hidden"} \cup SlotRegions)
        BY <1>3, <2>2 DEF Same
      <3> QED BY <2>1, <2>2, <3>1
    <2> QED BY <1>1, <2>1, <2>2, ExpertsOnce
  <1>4. Safe(m, r, St(al, w, bs))
    <2>1. Same(w, w, SlotRegions)
      BY DEF Same
    <2> QED BY <1>3, <2>1
  <1>5. /\ ~ Hip(m) => Safe(m, moe_place(l, j) \o r, St(al, w, bs))
        /\ Safe(m, hip_moe_place(l, j) \o r, St(al, w, bs))
    BY <1>2, <1>3, PlaceSafe DEF SlotRegions
  <1>6. /\ ~ Hip(m) => Safe(m, <<onMiss(moe_place(l, j))>> \o r, St(al, w, bs))
        /\ Safe(m, <<onMiss(hip_moe_place(l, j))>> \o r, St(al, w, bs))
    BY <1>2, <1>4, <1>5, SafeMiss
  <1> QED BY <1>1, <1>6

-----------------------------------------------------------------------------
(***************************************************************************)
(* Loops.                                                                  *)
(***************************************************************************)
Times(C, k) == FlattenSeq([i \in 1 .. k |-> C[i]])

LEMMA TimesNext ==
  ASSUME NEW n \in Nat, NEW C, \A i \in 1 .. n : IsSeq(C[i])
  PROVE  /\ Times(C, 0) = <<>>
         /\ \A k \in 0 .. n : IsSeq(Times(C, k))
         /\ \A k \in 1 .. n : Times(C, k) = Join(Times(C, k - 1), C[k])
  <1> DEFINE S == UNION {{C[i][j] : j \in 1 .. Len(C[i])} : i \in 1 .. n}
  <1>1. ASSUME NEW i \in 1 .. n
        PROVE  C[i] \in Seq(S)
    <2>1. Len(C[i]) \in Nat /\ C[i] = [j \in 1 .. Len(C[i]) |-> C[i][j]]
      BY SeqLen
    <2>2. \A j \in 1 .. Len(C[i]) : C[i][j] \in S
      OBVIOUS
    <2> HIDE DEF S
    <2>3. C[i] \in [1 .. Len(C[i]) -> S]
      BY <2>1, <2>2
    <2> QED BY <2>1, <2>3, SeqDef
  <1> HIDE DEF S
  <1> DEFINE f(k) == [i \in 1 .. k |-> C[i]]
  <1>2. ASSUME NEW k \in 0 .. n
        PROVE  f(k) \in Seq(Seq(S)) /\ Len(f(k)) = k
    <2>1. k \in Nat /\ f(k) \in [1 .. k -> Seq(S)]
      BY <1>1
    <2>2. f(k) \in Seq(Seq(S))
      BY <2>1, SeqDef
    <2>3. DOMAIN f(k) = 1 .. k
      OBVIOUS
    <2> HIDE DEF f
    <2> QED BY <2>1, <2>2, <2>3, LenProperties
  <1>3. Times(C, 0) = <<>>
    <2>1. f(0) = <<>>
      <3>1. 0 \in 0 .. n
        OBVIOUS
      <3>2. f(0) \in Seq(Seq(S)) /\ Len(f(0)) = 0
        BY <1>2, <3>1
      <3> HIDE DEF f
      <3> QED BY <3>2, EmptySeq
    <2> HIDE DEF f
    <2>2. Times(C, 0) = FlattenSeq(f(0))
      BY DEF Times, f
    <2>3. Len(<<>>) = 0
      OBVIOUS
    <2>4. FlattenSeq(<<>>) = <<>>
      BY <2>3 DEF FlattenSeq
    <2> QED BY <2>1, <2>2, <2>4
  <1>4. ASSUME NEW k \in 0 .. n
        PROVE  IsSeq(Times(C, k))
    <2> HIDE DEF f
    <2>1. FlattenSeq(f(k)) \in Seq(S)
      BY <1>2, FlattenType
    <2>2. Times(C, k) = FlattenSeq(f(k))
      BY DEF Times, f
    <2> QED BY <2>1, <2>2 DEF IsSeq
  <1>5. ASSUME NEW k \in 1 .. n
        PROVE  Times(C, k) = Join(Times(C, k - 1), C[k])
    <2>1. k - 1 \in 0 .. n /\ k \in 0 .. n
      OBVIOUS
    <2>2. f(k) = Append(f(k - 1), C[k])
      <3>1. PICK g, x : g = f(k - 1) /\ x = C[k]
        OBVIOUS
      <3>2. g \in Seq(Seq(S)) /\ Len(g) = k - 1 /\ x \in Seq(S)
        BY <1>1, <1>2, <2>1, <3>1
      <3>3. /\ Append(g, x) \in Seq(Seq(S)) /\ Len(Append(g, x)) = (k - 1) + 1
            /\ (\A i \in 1 .. Len(g) : Append(g, x)[i] = g[i]) /\ Append(g, x)[(k - 1) + 1] = x
        BY <3>2, AppendProperties
      <3>4. \A i \in 1 .. k : f(k)[i] = Append(g, x)[i]
        <4>1. (k - 1) + 1 = k
          OBVIOUS
        <4>2. \A i \in 1 .. k - 1 : g[i] = C[i]
          BY <3>1
        <4> QED BY <3>1, <3>2, <3>3, <4>1, <4>2
      <3>5. f(k) = [i \in 1 .. k |-> f(k)[i]]
        OBVIOUS
      <3>6. Append(g, x) = [i \in 1 .. k |-> Append(g, x)[i]]
        <4>1. (k - 1) + 1 = k
          OBVIOUS
        <4>2. IsSeq(Append(g, x))
          BY <3>3 DEF IsSeq
        <4> QED BY <3>3, <4>1, <4>2, SeqLen
      <3> HIDE DEF f
      <3> QED BY <3>1, <3>4, <3>5, <3>6
    <2> HIDE DEF f
    <2>3. FlattenSeq(Append(f(k - 1), C[k])) = FlattenSeq(f(k - 1)) \o C[k]
      BY <1>1, <1>2, <2>1, FlattenAppend
    <2>4. Times(C, k) = FlattenSeq(f(k)) /\ Times(C, k - 1) = FlattenSeq(f(k - 1))
      BY DEF Times, f
    <2> QED BY <2>2, <2>3, <2>4, Zenon DEF Join
  <1> QED BY <1>3, <1>4, <1>5

\* What is left after k chunks of a memory w.
ChunksLeave(m, l, w, k, c, b) ==
  IF Hip(m)
  THEN /\ b = {} /\ Same(c, w, {"hidden"} \cup SlotRegions)
       /\ c["hidden"] = IF k = 0 THEN w["hidden"]
            ELSE PlusExperts(w["hidden"], Added(l, w["norm"], k))
  ELSE /\ Same(c, w, {"idx", "score", "exp"} \cup SlotRegions)
       /\ c["exp"] = Added(l, w["norm"], k)

\* The calls of the first k chunks are safe in front of whatever is safe after them.
ChunksUpTo(m, l, al, w, C, k) ==
  \A r : IsSeq(r) /\ (\A c, b : ChunksLeave(m, l, w, k, c, b) => Safe(m, r, St(al, c, b)))
           => \A c, b : ChunksLeave(m, l, w, 0, c, b) => Safe(m, Join(Times(C, k), r), St(al, c, b))

LEMMA ChunksSafe ==
  ASSUME NEW m, NEW l, NEW al, NEW w, NEW n \in Nat, NEW C, \A i \in 1 .. n : IsSeq(C[i]),
         \A k \in 1 .. n : \A r :
           IsSeq(r) /\ (\A c, b : ChunksLeave(m, l, w, k, c, b) => Safe(m, r, St(al, c, b)))
             => \A c, b : ChunksLeave(m, l, w, k - 1, c, b) => Safe(m, Join(C[k], r), St(al, c, b))
  PROVE  ChunksUpTo(m, l, al, w, C, n)
  <1> DEFINE bad == {k \in Nat : k <= n /\ ~ ChunksUpTo(m, l, al, w, C, k)}
  <1>1. SUFFICES ASSUME bad # {} PROVE FALSE
    OBVIOUS
  <1>2. PICK k \in bad : \A j \in bad : k <= j
    <2>1. bad \in SUBSET Nat
      OBVIOUS
    <2> HIDE DEF bad
    <2> QED BY <1>1, <2>1, LeastExists
  <1>3. ChunksUpTo(m, l, al, w, C, 0)
    <2>1. \A r : IsSeq(r) => Join(Times(C, 0), r) = r
      BY TimesNext, NilFirst DEF Join
    <2> QED BY <2>1 DEF ChunksUpTo
  <1>4. k \in 1 .. n /\ ChunksUpTo(m, l, al, w, C, k - 1)
    BY <1>2, <1>3
  <1>5. ChunksUpTo(m, l, al, w, C, k)
    <2>1. SUFFICES ASSUME NEW r, IsSeq(r),
                          \A c, b : ChunksLeave(m, l, w, k, c, b) => Safe(m, r, St(al, c, b)),
                          NEW c, NEW b, ChunksLeave(m, l, w, 0, c, b)
                   PROVE  Safe(m, Join(Times(C, k), r), St(al, c, b))
      BY DEF ChunksUpTo
    <2>2. PICK s : s = Join(C[k], r)
      OBVIOUS
    <2>3. IsSeq(C[k]) /\ IsSeq(Times(C, k - 1)) /\ Times(C, k) = Join(Times(C, k - 1), C[k])
      BY <1>4, TimesNext
    <2>4. IsSeq(s) /\ Join(Times(C, k), r) = Join(Times(C, k - 1), s)
      BY <2>1, <2>2, <2>3, JoinTwo, JoinsTwo
    <2>5. \A e, f : ChunksLeave(m, l, w, k - 1, e, f) => Safe(m, s, St(al, e, f))
      BY <1>4, <2>1, <2>2
    <2>6. Safe(m, Join(Times(C, k - 1), s), St(al, c, b))
      BY <1>4, <2>1, <2>4, <2>5 DEF ChunksUpTo
    <2> QED BY <2>4, <2>6
  <1> QED BY <1>2, <1>5

LEMMA AddedNext ==
  ASSUME NEW l, NEW norm
  PROVE  /\ Added(l, norm, 0) = {}
         /\ \A k \in Nat \ {0} : Added(l, norm, k) =
              Added(l, norm, k - 1) \cup Experts(Weight("experts", l), norm, Chosen(l, norm), k)
  <1> DEFINE E(c) == Experts(Weight("experts", l), norm, Chosen(l, norm), c)
  <1>1. \A k : Added(l, norm, k) = UNION {E(c) : c \in 1 .. k}
    BY DEF Added
  <1> HIDE DEF E
  <1>2. UNION {E(c) : c \in 1 .. 0} = {}
    OBVIOUS
  <1>3. ASSUME NEW k \in Nat \ {0}
        PROVE  UNION {E(c) : c \in 1 .. k} = (UNION {E(c) : c \in 1 .. k - 1}) \cup E(k)
    <2>1. 1 .. k = (1 .. k - 1) \cup {k}
      OBVIOUS
    <2> QED BY <2>1
  <1>4. \A k \in Nat \ {0} : Added(l, norm, k) = Added(l, norm, k - 1) \cup E(k)
    BY <1>1, <1>3
  <1> QED BY <1>1, <1>2, <1>4 DEF E

LEMMA PlusParts ==
  ASSUME NEW x, NEW e
  PROVE  PlusExperts(x, e)[2] = x /\ PlusExperts(x, e)[3] = e
  <1>1. PICK a, t : a = "+ experts" /\ t = <<a, x, e>>
    OBVIOUS
  <1>2. t[2] = x /\ t[3] = e
    BY <1>1
  <1> QED BY <1>1, <1>2, Zenon DEF PlusExperts

\* The chunks of VulkanModel, when one kernel routes and computes.
LEMMA FusedChunksSafe ==
  ASSUME NEW m, ~ Hip(m), NEW l, NEW n \in Nat, NEW al, Holds(al),
         {"route", "idx", "score", "exp"} \subseteq al,
         NEW w, IsMem(w), w["exp"] = {}, w["route"] = Product(Weight("router", l), w["norm"]),
         NEW bs, NEW q, IsSeq(q),
         \A c, b : ChunksLeave(m, l, w, n, c, b) => Safe(m, q, St(al, c, b)),
         NEW C, C = [i \in 1 .. n |-> fusedChunk(l, i)]
  PROVE  Safe(m, Join(Times(C, n), q), St(al, w, bs)) /\ IsSeq(Times(C, n))
  <1>2. \A i \in 1 .. n : IsSeq(C[i]) /\ C[i] = fusedChunk(l, i)
    BY FusedIsSeq
  <1>3. ASSUME NEW k \in 1 .. n, NEW r, IsSeq(r),
               \A c, b : ChunksLeave(m, l, w, k, c, b) => Safe(m, r, St(al, c, b)),
               NEW c, NEW b, ChunksLeave(m, l, w, k - 1, c, b)
        PROVE  Safe(m, Join(C[k], r), St(al, c, b))
    <2>1. /\ Same(c, w, {"idx", "score", "exp"} \cup SlotRegions)
          /\ c["exp"] = Added(l, w["norm"], k - 1)
      BY <1>3 DEF ChunksLeave
    <2>2. IsMem(c) /\ c["norm"] = w["norm"] /\ c["route"] = w["route"]
      BY <2>1, RegionNames DEF Same, SlotRegions
    <2>3. ASSUME NEW e, NEW f, Same(e, c, {"idx", "score", "exp"} \cup SlotRegions),
                 e["exp"] = c["exp"]
                   \cup Experts(Weight("experts", l), c["norm"], TopK(c["route"]), k)
          PROVE  Safe(m, r, St(al, e, f))
      <3>1. e["exp"] = Added(l, w["norm"], k)
        <4>1. k \in Nat \ {0} /\ TopK(c["route"]) = Chosen(l, w["norm"])
          BY <2>2 DEF Chosen
        <4> QED BY <2>1, <2>2, <2>3, <4>1, AddedNext
      <3>2. Same(e, w, {"idx", "score", "exp"} \cup SlotRegions)
        BY <2>1, <2>3 DEF Same
      <3> QED BY <1>3, <3>1, <3>2 DEF ChunksLeave
    <2>4. Safe(m, fusedChunk(l, k) \o r, St(al, c, b))
      BY <1>3, <2>2, <2>3, FusedSafe
    <2> QED BY <1>2, <2>4 DEF Join
  <1>4. ChunksUpTo(m, l, al, w, C, n)
    BY <1>2, <1>3, ChunksSafe
  <1>5. ChunksLeave(m, l, w, 0, w, bs)
    BY AddedNext DEF ChunksLeave, Same
  <1>6. Safe(m, Join(Times(C, n), q), St(al, w, bs))
    BY <1>4, <1>5 DEF ChunksUpTo
  <1>8. IsSeq(Times(C, n))
    <2>1. n \in 0 .. n
      OBVIOUS
    <2> QED BY <1>2, <2>1, TimesNext
  <1> QED BY <1>6, <1>8

\* The chunks of Qwen3Model.
LEMMA HipChunksSafe ==
  ASSUME NEW m, Hip(m), NEW l, NEW n \in Nat, NEW al, Holds(al),
         {"route", "idx", "score"} \subseteq al,
         NEW w, IsMem(w), w["idx"] = Chosen(l, w["norm"]), NEW q, IsSeq(q),
         \A c, b : ChunksLeave(m, l, w, n, c, b) => Safe(m, q, St(al, c, b)),
         NEW C, C = [i \in 1 .. n |-> hip_chunk(l, i)]
  PROVE  Safe(m, Join(Times(C, n), q), St(al, w, {})) /\ IsSeq(Times(C, n))
  <1>2. \A i \in 1 .. n : IsSeq(C[i]) /\ C[i] = hip_chunk(l, i)
    BY FusedIsSeq
  <1>3. ASSUME NEW k \in 1 .. n, NEW r, IsSeq(r),
               \A c, b : ChunksLeave(m, l, w, k, c, b) => Safe(m, r, St(al, c, b)),
               NEW c, NEW b, ChunksLeave(m, l, w, k - 1, c, b)
        PROVE  Safe(m, Join(C[k], r), St(al, c, b))
    <2>1. /\ b = {} /\ Same(c, w, {"hidden"} \cup SlotRegions)
          /\ c["hidden"] = IF k - 1 = 0 THEN w["hidden"]
                           ELSE PlusExperts(w["hidden"], Added(l, w["norm"], k - 1))
      BY <1>3 DEF ChunksLeave
    <2>2. IsMem(c) /\ c["norm"] = w["norm"] /\ c["idx"] = w["idx"]
      BY <2>1, RegionNames DEF Same, SlotRegions
    <2>3. AddRows(c["hidden"], Experts(Weight("experts", l), c["norm"], c["idx"], k), k)
            = PlusExperts(w["hidden"], Added(l, w["norm"], k))
      <3>1. PICK e : e = Experts(Weight("experts", l), c["norm"], c["idx"], k)
        OBVIOUS
      <3>2. Added(l, w["norm"], k) = Added(l, w["norm"], k - 1) \cup e
        BY <2>2, <3>1, AddedNext
      <3>3. CASE k = 1
        <4>1. Added(l, w["norm"], k) = e
          BY <3>2, <3>3, AddedNext
        <4>2. c["hidden"] = w["hidden"]
          BY <2>1, <3>3
        <4> QED BY <3>1, <3>3, <4>1, <4>2 DEF AddRows
      <3>4. CASE k # 1
        <4>1. c["hidden"] = PlusExperts(w["hidden"], Added(l, w["norm"], k - 1))
          BY <2>1, <3>4
        <4>2. c["hidden"][2] = w["hidden"] /\ c["hidden"][3] = Added(l, w["norm"], k - 1)
          BY <4>1, PlusParts
        <4> QED BY <3>1, <3>2, <3>4, <4>2 DEF AddRows
      <3> QED BY <3>3, <3>4
    <2>4. ASSUME NEW e, Same(e, c, {"hidden"} \cup SlotRegions),
                 e["hidden"] = AddRows(c["hidden"],
                   Experts(Weight("experts", l), c["norm"], c["idx"], k), k)
          PROVE  Safe(m, r, St(al, e, Full(m)))
      <3>1. Same(e, w, {"hidden"} \cup SlotRegions)
        BY <2>1, <2>4 DEF Same
      <3>2. e["hidden"] = IF k = 0 THEN w["hidden"]
              ELSE PlusExperts(w["hidden"], Added(l, w["norm"], k))
        BY <2>3, <2>4
      <3>3. ChunksLeave(m, l, w, k, e, Full(m))
        BY <3>1, <3>2, SlotNames DEF ChunksLeave
      <3> QED BY <1>3, <3>3
    <2>5. Safe(m, <<onMiss(hip_moe_place(l, k))>> \o (<<moe_ffn(l, k)>> \o r), St(al, c, {}))
      BY <1>3, <2>2, <2>4, SlotNames, ChunkSafe
    <2>6. Join(C[k], r) = Cons(onMiss(hip_moe_place(l, k)), Cons(moe_ffn(l, k), r))
      <3>1. hip_chunk(l, k) = Two(onMiss(hip_moe_place(l, k)), moe_ffn(l, k))
        BY DEF hip_chunk, Two
      <3> QED BY <1>2, <1>3, <3>1, Unrolled
    <2>7. Safe(m, Cons(onMiss(hip_moe_place(l, k)), Cons(moe_ffn(l, k), r)), St(al, c, {}))
      BY <2>5, Zenon DEF Cons
    <2> QED BY <2>1, <2>6, <2>7
  <1>4. ChunksUpTo(m, l, al, w, C, n)
    BY <1>2, <1>3, ChunksSafe
  <1>5. ChunksLeave(m, l, w, 0, w, {})
    BY DEF ChunksLeave, Same
  <1>6. Safe(m, Join(Times(C, n), q), St(al, w, {}))
    BY <1>4, <1>5 DEF ChunksUpTo
  <1>8. IsSeq(Times(C, n))
    <2>1. n \in 0 .. n
      OBVIOUS
    <2> QED BY <1>2, <2>1, TimesNext
  <1> QED BY <1>6, <1>8

\* What a layer with experts may change.
SparseRegions ==
  {"route", "idx", "score", "gate", "mlp", "hidden", "shs", "exp"} \cup SlotRegions

LEMMA JoinsFive ==
  ASSUME NEW a, NEW b, NEW c, NEW d, NEW e, NEW q,
         IsSeq(a), IsSeq(b), IsSeq(c), IsSeq(d), IsSeq(e), IsSeq(q)
  PROVE  /\ Join(Join(Join(Join(Join(a, b), c), d), e), q)
              = Join(a, Join(b, Join(c, Join(d, Join(e, q)))))
         /\ Join(Join(Join(Join(a, b), c), d), q) = Join(a, Join(b, Join(c, Join(d, q))))
         /\ IsSeq(Join(Join(Join(Join(a, b), c), d), e)) /\ IsSeq(Join(Join(Join(a, b), c), d))
  <1>1. PICK u, v, x : u = Join(a, b) /\ v = Join(u, c) /\ x = Join(v, d)
    OBVIOUS
  <1>2. IsSeq(u) /\ IsSeq(v) /\ IsSeq(x) /\ IsSeq(Join(x, e))
    BY <1>1, JoinTwo
  <1>3. IsSeq(Join(e, q)) /\ IsSeq(Join(d, q)) /\ IsSeq(Join(d, Join(e, q)))
    BY JoinTwo
  <1>4. Join(Join(x, e), q) = Join(x, Join(e, q))
    BY <1>2, JoinsTwo
  <1>5. \A r : IsSeq(r) => Join(x, r) = Join(v, Join(d, r)) /\ IsSeq(Join(d, r))
    BY <1>1, <1>2, JoinTwo, JoinsTwo
  <1>6. ASSUME NEW r, IsSeq(r)
        PROVE  Join(v, r) = Join(a, Join(b, Join(c, r)))
    <2>1. Join(Join(Join(a, b), c), r) = Join(a, Join(b, Join(c, r)))
      BY <1>6, JoinsThree
    <2> QED BY <1>1, <2>1
  <1>7. Join(Join(x, e), q) = Join(a, Join(b, Join(c, Join(d, Join(e, q)))))
    BY <1>3, <1>4, <1>5, <1>6
  <1>8. Join(x, q) = Join(a, Join(b, Join(c, Join(d, q))))
    BY <1>3, <1>5, <1>6
  <1> QED BY <1>1, <1>2, <1>7, <1>8

LEMMA EndSafe ==
  ASSUME NEW m, NEW al, al \ ExpertBuffers = Base, NEW w, NEW bs, NEW q, IsSeq(q),
         Safe(m, q, St(Base, w, {}))
  PROVE  Safe(m, Join(endOfLayer, q), St(al, w, bs)) /\ IsSeq(endOfLayer)
  <1>1. Safe(m, <<release(ExpertBuffers)>> \o q, St(al, w, {}))
    BY FreeCall
  <1>2. Safe(m, <<submit_wait>> \o (<<release(ExpertBuffers)>> \o q), St(al, w, bs))
    BY <1>1, ConsIsSeq, SubmitCall
  <1>3. endOfLayer = Two(submit_wait, release(ExpertBuffers))
    BY DEF endOfLayer, Two
  <1>4. Join(endOfLayer, q) = Cons(submit_wait, Cons(release(ExpertBuffers), q))
    BY <1>3, Unrolled
  <1>5. Safe(m, Cons(submit_wait, Cons(release(ExpertBuffers), q)), St(al, w, bs))
    BY <1>2, Zenon DEF Cons
  <1>6. IsSeq(endOfLayer)
    BY LiteralIsSeq DEF endOfLayer
  <1> QED BY <1>4, <1>5, <1>6

LEMMA AddSafe ==
  ASSUME NEW m, NEW al, Holds(al), "exp" \in al, NEW w, IsMem(w), NEW bs, NEW q, IsSeq(q),
         \A c, b : /\ Same(c, w, {"hidden"}) /\ c["hidden"] = PlusExperts(w["hidden"], w["exp"])
                   => Safe(m, q, St(al, c, b))
  PROVE  Safe(m, <<add_buf>> \o q, St(al, w, bs))
  <1>1. PICK z : z = With(w, "hidden", PlusExperts(w["hidden"], w["exp"]))
    OBVIOUS
  <1>2. Does(add_buf, {"hidden", "exp"}, {"hidden"}, TRUE) /\ z = Computed(add_buf, w)
    BY <1>1, AddDoes
  <1>3. Same(z, w, {"hidden"}) /\ z["hidden"] = PlusExperts(w["hidden"], w["exp"])
    <2>1. IsMem(z)
      BY <1>1, WithIs
    <2> QED BY <1>1, <2>1, RegionNames DEF With, Same
  <1>4. \A b : Safe(m, q, St(al, z, b))
    BY <1>3
  <1>5. {"hidden", "exp"} \cup {"hidden"} \subseteq al /\ al \subseteq Regions /\ {"hidden"} # {}
    BY BaseNames DEF Holds
  <1>6. PICK cs : cs = LevelOf(m, bs, {"hidden", "exp"} \cup {"hidden"})
    OBVIOUS
  <1>7. Safe(m, q, St(al, Computed(add_buf, w), cs))
    BY <1>2, <1>4
  <1> QED BY <1>2, <1>5, <1>6, <1>7, OneDispatch

LEMMA FusedExpertsSafe ==
  ASSUME NEW m \in ModelType, ~ Hip(m), m.ffn = "fused", NEW l,
         NEW al \in {Routing, Routing \cup {"shs"}},
         NEW w, IsMem(w), w["route"] = Product(Weight("router", l), w["norm"]),
         NEW bs, NEW q, IsSeq(q),
         \A c, b : /\ Same(c, w, {"idx", "score", "exp", "hidden"} \cup SlotRegions)
                   /\ c["hidden"] = PlusExperts(w["hidden"], Added(l, w["norm"], m.chunks))
                   => Safe(m, q, St(al \cup {"exp"}, c, b))
  PROVE  Safe(m, Join(expertsOf(m, l), q), St(al, w, bs)) /\ IsSeq(expertsOf(m, l))
  <1>1. PICK C, F, ae, n : /\ C = [i \in 1 .. m.chunks |-> fusedChunk(l, i)]
                           /\ F = Times(C, m.chunks) /\ ae = al \cup {"exp"} /\ n = m.chunks
    OBVIOUS
  <1>2. n \in Nat /\ Holds(ae) /\ {"route", "idx", "score", "exp"} \subseteq ae
          /\ {"exp"} \cap al = {}
    BY <1>1, RoutingNames DEF ModelType
  <1>3. PICK r : r = <<add_buf>> \o q
    OBVIOUS
  <1>4. IsSeq(r)
    BY <1>3, ConsIsSeq
  <1>5. PICK x : x = Filled(m, w, {"exp"})
    OBVIOUS
  <1>6. Same(x, w, {"exp"}) /\ x["exp"] = {}
    <2>1. Same(x, w, {"exp"}) /\ x["exp"] = Blank(m, "exp")
      BY <1>5, RegionNames DEF Filled, Same, IsMem
    <2>2. Blank(m, "exp") = {}
      BY DEF Blank
    <2> QED BY <2>1, <2>2
  <1>7. IsMem(x) /\ x["norm"] = w["norm"] /\ x["route"] = w["route"] /\ x["hidden"] = w["hidden"]
    BY <1>6, RegionNames DEF Same
  <1>8. ASSUME NEW c, NEW b, ChunksLeave(m, l, x, n, c, b)
        PROVE  Safe(m, r, St(ae, c, b))
    <2>1. Same(c, x, {"idx", "score", "exp"} \cup SlotRegions) /\ c["exp"] = Added(l, x["norm"], n)
      BY <1>8 DEF ChunksLeave
    <2>2. IsMem(c) /\ c["hidden"] = x["hidden"]
      BY <2>1, RegionNames DEF Same, SlotRegions
    <2>3. ASSUME NEW e, NEW f, Same(e, c, {"hidden"}),
                 e["hidden"] = PlusExperts(c["hidden"], c["exp"])
          PROVE  Safe(m, q, St(ae, e, f))
      <3>1. e["hidden"] = PlusExperts(w["hidden"], Added(l, w["norm"], m.chunks))
        BY <1>1, <1>7, <2>1, <2>2, <2>3
      <3>2. Same(e, w, {"idx", "score", "exp", "hidden"} \cup SlotRegions)
        BY <1>6, <2>1, <2>3 DEF Same
      <3> QED BY <1>1, <3>1, <3>2
    <2> QED BY <1>2, <1>3, <2>2, <2>3, AddSafe
  <1>9. \A c, b : ChunksLeave(m, l, x, n, c, b) => Safe(m, r, St(ae, c, b))
    BY <1>8
  <1>10. C = [i \in 1 .. n |-> fusedChunk(l, i)]
    BY <1>1
  <1>11. Safe(m, Join(F, r), St(ae, x, bs)) /\ IsSeq(F)
    <2>1. Safe(m, Join(Times(C, n), r), St(ae, x, bs)) /\ IsSeq(Times(C, n))
      BY <1>2, <1>4, <1>6, <1>7, <1>9, <1>10, FusedChunksSafe
    <2> QED BY <1>1, <2>1
  <1>12. IsSeq(Join(F, r))
    BY <1>4, <1>11, JoinTwo
  <1>13. Safe(m, <<allocate({"exp"})>> \o Join(F, r), St(al, w, bs))
    <2>1. {"exp"} \subseteq Regions /\ {"exp"} \cap al = {}
      BY <1>2, RegionNames
    <2>2. Safe(m, Join(F, r), St(al \cup {"exp"}, Filled(m, w, {"exp"}), bs))
      BY <1>1, <1>5, <1>11
    <2> QED BY <1>12, <2>1, <2>2, AllocCall
  <1>14. PICK A, B : A = <<allocate({"exp"})>> /\ B = <<add_buf>>
    OBVIOUS
  <1>15. IsSeq(A) /\ IsSeq(B)
    BY <1>14, LiteralIsSeq
  <1>16. expertsOf(m, l) = Join(Join(A, F), B)
    <2>1. F = FlattenSeq([i \in 1 .. m.chunks |-> fusedChunk(l, i)])
      <3>1. [i \in 1 .. m.chunks |-> fusedChunk(l, i)] = [i \in 1 .. m.chunks |-> C[i]]
        BY <1>1
      <3> QED BY <1>1, <3>1, Zenon DEF Times
    <2>2. ForEach(m.chunks, LAMBDA c : fusedChunk(l, c))
            = FlattenSeq([i \in 1 .. m.chunks |-> fusedChunk(l, i)])
      BY Zenon DEF ForEach
    <2>3. expertsOf(m, l)
            = <<allocate({"exp"})>> \o ForEach(m.chunks, LAMBDA c : fusedChunk(l, c)) \o <<add_buf>>
      BY Zenon DEF expertsOf
    <2> QED BY <1>14, <2>1, <2>2, <2>3, Zenon DEF Join
  <1>17. Join(Join(Join(A, F), B), q) = Join(A, Join(F, Join(B, q))) /\ IsSeq(Join(Join(A, F), B))
    BY <1>11, <1>15, JoinTwo, JoinsThree
  <1>18. Join(B, q) = r /\ Safe(m, Join(A, Join(F, r)), St(al, w, bs))
    BY <1>3, <1>13, <1>14, Zenon DEF Join
  <1> QED BY <1>16, <1>17, <1>18

\* The first chunk is the only one.
LEMMA RoutedExpertsSafe ==
  ASSUME NEW m \in ModelType, ~ Hip(m), m.ffn = "routed", m.chunks = 1, NEW l,
         NEW al \in {Routing, Routing \cup {"shs"}},
         NEW w, IsMem(w), w["idx"] = Chosen(l, w["norm"]),
         NEW bs \in {{}, Level(m)}, NEW q, IsSeq(q),
         \A c, b : /\ Same(c, w, {"hidden"} \cup SlotRegions)
                   /\ c["hidden"] = PlusExperts(w["hidden"], Added(l, w["norm"], m.chunks))
                   => Safe(m, q, St(al, c, b))
  PROVE  Safe(m, Join(expertsOf(m, l), q), St(al, w, bs)) /\ IsSeq(expertsOf(m, l))
  <1>1. PICK C, a, d : /\ C = [i \in 1 .. 1 |-> routedChunk(l, i)]
                       /\ a = onMiss(moe_place(l, 1)) /\ d = moe_ffn(l, 1)
    OBVIOUS
  <1>2. \A i \in 1 .. 1 : IsSeq(C[i]) /\ C[i] = routedChunk(l, i)
    BY <1>1, FusedIsSeq
  <1>3. expertsOf(m, l) = Times(C, 1)
    <2>1. expertsOf(m, l) = ForEach(m.chunks, LAMBDA c : routedChunk(l, c))
      <3>1. m.ffn # "fused"
        OBVIOUS
      <3> QED BY <3>1, Zenon DEF expertsOf
    <2>2. [i \in 1 .. 1 |-> routedChunk(l, i)] = [i \in 1 .. 1 |-> C[i]]
      BY <1>1
    <2>3. ForEach(m.chunks, LAMBDA c : routedChunk(l, c))
            = FlattenSeq([i \in 1 .. 1 |-> routedChunk(l, i)])
      BY Zenon DEF ForEach
    <2> QED BY <2>1, <2>2, <2>3, Zenon DEF Times
  <1>4. Times(C, 1) = Two(a, d)
    <2>1. 1 \in 1 .. 1 /\ 1 \in Nat /\ 1 - 1 = 0
      OBVIOUS
    <2>2. Times(C, 1) = Join(<<>>, C[1]) /\ IsSeq(C[1])
      <3>1. Times(C, 0) = <<>> /\ Times(C, 1) = Join(Times(C, 1 - 1), C[1])
        BY <1>2, <2>1, TimesNext
      <3>2. Times(C, 1) = Join(Times(C, 0), C[1])
        BY <2>1, <3>1
      <3>3. Times(C, 1) = Join(<<>>, C[1])
        BY <3>1, <3>2, Zenon
      <3> QED BY <1>2, <2>1, <3>3
    <2>3. Join(<<>>, C[1]) = C[1]
      BY <2>2, NilFirst DEF Join
    <2>4. C[1] = <<a, d>>
      BY <1>1, <1>2, <2>1 DEF routedChunk
    <2> QED BY <2>2, <2>3, <2>4, Zenon DEF Two
  <1>5. Holds(al) /\ {"route", "idx", "score"} \subseteq al /\ bs \subseteq Plain
    BY RoutingNames, SlotNames
  <1>6. ASSUME NEW c, Same(c, w, {"hidden"} \cup SlotRegions),
               c["hidden"] = AddRows(w["hidden"],
                 Experts(Weight("experts", l), w["norm"], w["idx"], 1), 1)
        PROVE  Safe(m, q, St(al, c, Full(m)))
    <2>1. Added(l, w["norm"], 1) = Experts(Weight("experts", l), w["norm"], w["idx"], 1)
      <3>1. 1 \in Nat \ {0} /\ 1 - 1 = 0
        OBVIOUS
      <3>2. Added(l, w["norm"], 1) = Added(l, w["norm"], 0)
              \cup Experts(Weight("experts", l), w["norm"], Chosen(l, w["norm"]), 1)
        BY <3>1, AddedNext
      <3>3. Added(l, w["norm"], 0) = {}
        BY AddedNext
      <3> QED BY <3>2, <3>3
    <2>2. c["hidden"] = PlusExperts(w["hidden"], Added(l, w["norm"], 1))
      BY <1>6, <2>1 DEF AddRows
    <2> QED BY <1>6, <2>2
  <1>7. Safe(m, <<a>> \o (<<d>> \o q), St(al, w, bs))
    BY <1>1, <1>5, <1>6, ChunkSafe
  <1>8. Safe(m, Cons(a, Cons(d, q)), St(al, w, bs))
    BY <1>7, Zenon DEF Cons
  <1>9. Join(expertsOf(m, l), q) = Cons(a, Cons(d, q))
    BY <1>3, <1>4, Unrolled
  <1>10. IsSeq(expertsOf(m, l))
    <2>1. IsSeq(<<a, d>>)
      BY LiteralIsSeq
    <2> QED BY <1>3, <1>4, <2>1, Zenon DEF Two
  <1> QED BY <1>8, <1>9, <1>10

\* A layer with experts on Vulkan: with one kernel for both, or with two.
LEMMA FusedLayerSafe ==
  ASSUME NEW m \in ModelType, ~ Hip(m), m.ffn = "fused", m.shared, NEW l,
         NEW w, IsMem(w), NEW bs \in {{}, Level(m)}, NEW q, IsSeq(q),
         \A c : /\ Same(c, w, SparseRegions)
                /\ c["hidden"] = ReferenceSparse(m, l, w["norm"])
                => Safe(m, q, St(Base, c, {}))
  PROVE  Safe(m, Cons(allocate({"route", "idx", "score"}),
                   Cons(matmul(Weight("router", l), "norm", "route"),
                     Join(sharedExpert(m, l), Join(expertsOf(m, l), Join(endOfLayer, q))))),
              St(Base, w, bs))
         /\ IsSeq(expertsOf(m, l))
  <1>1. PICK s5, s4, s3 : /\ s5 = Join(endOfLayer, q) /\ s4 = Join(expertsOf(m, l), s5)
                          /\ s3 = Join(sharedExpert(m, l), s4)
    OBVIOUS
  <1>2. IsSeq(s5)
    BY <1>1, JoinTwo, LiteralIsSeq DEF endOfLayer
  <1>3. ASSUME NEW al \in {Routing, Routing \cup {"shs"}}, NEW c, NEW b,
               Same(c, w, SparseRegions), c["hidden"] = ReferenceSparse(m, l, w["norm"])
        PROVE  Safe(m, s5, St(al \cup {"exp"}, c, b))
    <2>1. (al \cup {"exp"}) \ ExpertBuffers = Base
      BY RoutingNames
    <2>2. Safe(m, q, St(Base, c, {}))
      BY <1>3
    <2> QED BY <1>1, <2>1, <2>2, EndSafe
  <1>4. ASSUME NEW al \in {Routing, Routing \cup {"shs"}}, NEW c, NEW b,
               Same(c, w, {"route", "idx", "score", "gate", "mlp", "hidden", "shs"}),
               c["route"] = Product(Weight("router", l), w["norm"]),
               c["hidden"] = Shared(m, l, w["norm"])
        PROVE  Safe(m, s4, St(al, c, b)) /\ IsSeq(expertsOf(m, l))
    <2>1. IsMem(c) /\ c["norm"] = w["norm"]
      BY <1>4, RegionNames DEF Same
    <2>2. ASSUME NEW e, NEW f, Same(e, c, {"idx", "score", "exp", "hidden"} \cup SlotRegions),
                 e["hidden"] = PlusExperts(c["hidden"], Added(l, c["norm"], m.chunks))
          PROVE  Safe(m, s5, St(al \cup {"exp"}, e, f))
      <3>1. e["hidden"] = ReferenceSparse(m, l, w["norm"])
        BY <1>4, <2>1, <2>2, ReferenceAdds
      <3>2. Same(e, w, SparseRegions)
        BY <1>4, <2>2 DEF Same, SparseRegions
      <3> QED BY <1>3, <3>1, <3>2
    <2> QED BY <1>1, <1>2, <1>4, <2>1, <2>2, FusedExpertsSafe
  <1>5. IsSeq(expertsOf(m, l))
    <2>1. PICK c, h, p : /\ h = Shared(m, l, w["norm"])
                         /\ p = Product(Weight("router", l), w["norm"])
                         /\ c = With(With(w, "route", p), "hidden", h)
      OBVIOUS
    <2>2. Same(c, w, {"route", "idx", "score", "gate", "mlp", "hidden", "shs"}) /\ c["route"] = p
          /\ c["hidden"] = h
      <3>1. IsMem(c)
        BY <2>1, WithIs
      <3> QED BY <2>1, <3>1, RegionNames DEF Same, With
    <2> QED BY <1>4, <2>1, <2>2
  <1>6. IsSeq(s4) /\ IsSeq(s3)
    <2>1. IsSeq(s4)
      BY <1>1, <1>2, <1>5, JoinTwo
    <2>2. IsSeq(sharedExpert(m, l))
      BY <1>2, SharedParts
    <2> QED BY <1>1, <2>1, <2>2, JoinTwo
  <1>7. ASSUME NEW c, Same(c, w, {"route", "idx", "score"}),
               c["route"] = Product(Weight("router", l), w["norm"])
        PROVE  Safe(m, s3, St(Routing, c, Level(m)))
    <2>1. IsMem(c) /\ c["norm"] = w["norm"]
      BY <1>7, RegionNames DEF Same
    <2>2. ASSUME NEW e, NEW al \in {Routing, Routing \cup {"shs"}},
                 Same(e, c, {"gate", "mlp", "hidden", "shs"}), e["hidden"] = Shared(m, l, c["norm"])
          PROVE  Safe(m, s4, St(al, e, Level(m)))
      <3>1. Same(e, w, {"route", "idx", "score", "gate", "mlp", "hidden", "shs"})
            /\ e["route"] = c["route"]
        BY <1>7, <2>2, RegionNames DEF Same
      <3> QED BY <1>4, <1>7, <2>1, <2>2, <3>1
    <2>3. Safe(m, sharedExpert(m, l) \o s4, St(Routing, c, Level(m)))
      BY <1>6, <2>1, <2>2, SharedSafe
    <2> QED BY <1>1, <2>3, Zenon DEF Join
  <1>8. Safe(m, <<allocate({"route", "idx", "score"})>> \o
                   (<<matmul(Weight("router", l), "norm", "route")>> \o s3), St(Base, w, bs))
    BY <1>6, <1>7, RouterSafe
  <1>9. Safe(m, Cons(allocate({"route", "idx", "score"}),
                  Cons(matmul(Weight("router", l), "norm", "route"), s3)), St(Base, w, bs))
    BY <1>8, Zenon DEF Cons
  <1> QED BY <1>1, <1>5, <1>9

LEMMA RoutedLayerSafe ==
  ASSUME NEW m \in ModelType, ~ Hip(m), m.ffn = "routed", m.chunks = 1, NEW l,
         NEW w, IsMem(w), NEW bs \in {{}, Level(m)}, NEW q, IsSeq(q),
         \A c : /\ Same(c, w, SparseRegions)
                /\ c["hidden"] = ReferenceSparse(m, l, w["norm"])
                => Safe(m, q, St(Base, c, {})),
         NEW D, D = IF m.shared THEN sharedExpert(m, l) ELSE <<upload("hidden", Zeros)>>
  PROVE  Safe(m, Cons(allocate({"route", "idx", "score"}),
                   Cons(matmul(Weight("router", l), "norm", "route"),
                     Join(readRouting,
                       Join(D, Join(expertsOf(m, l), Join(endOfLayer, q)))))),
              St(Base, w, bs))
         /\ IsSeq(expertsOf(m, l))
  <1>1. PICK s5, s4, s3, s2, n :
          /\ s5 = Join(endOfLayer, q) /\ s4 = Join(expertsOf(m, l), s5)
          /\ s3 = Join(D, s4) /\ s2 = Join(readRouting, s3) /\ n = w["norm"]
    OBVIOUS
  <1>2. IsSeq(s5)
    BY <1>1, JoinTwo, LiteralIsSeq DEF endOfLayer
  <1>3. ASSUME NEW al \in {Routing, Routing \cup {"shs"}}, NEW c, NEW b,
               Same(c, w, SparseRegions), c["hidden"] = ReferenceSparse(m, l, n)
        PROVE  Safe(m, s5, St(al, c, b))
    <2>1. al \ ExpertBuffers = Base
      BY RoutingNames
    <2>2. Safe(m, q, St(Base, c, {}))
      BY <1>1, <1>3
    <2> QED BY <1>1, <2>1, <2>2, EndSafe
  <1>4. ASSUME NEW al \in {Routing, Routing \cup {"shs"}}, NEW c, NEW b \in {{}, Level(m)},
               Same(c, w, {"route", "idx", "score", "gate", "mlp", "hidden", "shs"}),
               c["idx"] = Chosen(l, n),
               c["hidden"] = IF m.shared THEN Shared(m, l, n) ELSE Zeros
        PROVE  Safe(m, s4, St(al, c, b)) /\ IsSeq(expertsOf(m, l))
    <2>1. IsMem(c) /\ c["norm"] = n
      BY <1>1, <1>4, RegionNames DEF Same
    <2>2. ASSUME NEW e, NEW f, Same(e, c, {"hidden"} \cup SlotRegions),
                 e["hidden"] = PlusExperts(c["hidden"], Added(l, c["norm"], m.chunks))
          PROVE  Safe(m, s5, St(al, e, f))
      <3>1. e["hidden"] = ReferenceSparse(m, l, n)
        BY <1>4, <2>1, <2>2, ReferenceAdds
      <3>2. Same(e, w, SparseRegions)
        BY <1>4, <2>2 DEF Same, SparseRegions
      <3> QED BY <1>3, <3>1, <3>2
    <2> QED BY <1>1, <1>2, <1>4, <2>1, <2>2, RoutedExpertsSafe
  <1>5. IsSeq(expertsOf(m, l))
    <2>1. PICK c, h, p : /\ h = IF m.shared THEN Shared(m, l, n) ELSE Zeros
                         /\ p = Chosen(l, n) /\ c = With(With(w, "idx", p), "hidden", h)
      OBVIOUS
    <2>2. Same(c, w, {"route", "idx", "score", "gate", "mlp", "hidden", "shs"}) /\ c["idx"] = p
          /\ c["hidden"] = h
      <3>1. IsMem(c)
        BY <2>1, WithIs
      <3> QED BY <2>1, <3>1, RegionNames DEF Same, With
    <2> QED BY <1>4, <2>1, <2>2
  <1>6. IsSeq(s4) /\ IsSeq(s3) /\ IsSeq(s2)
    <2>1. IsSeq(s4)
      BY <1>1, <1>2, <1>5, JoinTwo
    <2>2. IsSeq(D)
      <3>1. IsSeq(sharedExpert(m, l)) /\ IsSeq(<<upload("hidden", Zeros)>>)
        BY <1>2, SharedParts, LiteralIsSeq
      <3> QED BY <3>1
    <2>3. IsSeq(s3)
      BY <1>1, <2>1, <2>2, JoinTwo
    <2>4. IsSeq(readRouting)
      BY LiteralIsSeq DEF readRouting
    <2> QED BY <1>1, <2>1, <2>3, <2>4, JoinTwo
  \* After the routing has been read.
  <1>7. ASSUME NEW c, Same(c, w, {"route", "idx", "score"}), c["idx"] = Chosen(l, n)
        PROVE  Safe(m, s3, St(Routing, c, {}))
    <2>1. IsMem(c) /\ c["norm"] = n
      BY <1>1, <1>7, RegionNames DEF Same
    <2>2. CASE m.shared
      <3>1. ASSUME NEW e, NEW al \in {Routing, Routing \cup {"shs"}},
                   Same(e, c, {"gate", "mlp", "hidden", "shs"}),
                   e["hidden"] = Shared(m, l, c["norm"])
            PROVE  Safe(m, s4, St(al, e, Level(m)))
        <4>1. Same(e, w, {"route", "idx", "score", "gate", "mlp", "hidden", "shs"})
              /\ e["idx"] = c["idx"]
          BY <1>7, <3>1, RegionNames DEF Same
        <4> QED BY <1>4, <1>7, <2>1, <2>2, <3>1, <4>1
      <3>2. Safe(m, sharedExpert(m, l) \o s4, St(Routing, c, {}))
        BY <1>6, <2>1, <3>1, SharedSafe
      <3>3. D = sharedExpert(m, l)
        BY <2>2
      <3> QED BY <1>1, <3>2, <3>3, Zenon DEF Join
    <2>3. CASE ~ m.shared
      <3>1. PICK e : e = With(c, "hidden", Zeros)
        OBVIOUS
      <3>2. /\ Same(e, w, {"route", "idx", "score", "gate", "mlp", "hidden", "shs"})
            /\ e["idx"] = c["idx"] /\ e["hidden"] = Zeros
        <4>1. IsMem(e)
          BY <3>1, WithIs
        <4> QED BY <1>7, <3>1, <4>1, RegionNames DEF Same, With
      <3>3. Safe(m, s4, St(Routing, e, {}))
        BY <1>4, <1>7, <2>3, <3>2
      <3>4. Safe(m, <<upload("hidden", Zeros)>> \o s4, St(Routing, c, {}))
        <4>1. "hidden" \in Regions \ {}
          BY RegionNames
        <4>2. Safe(m, s4, St(Routing, With(c, "hidden", Zeros), {}))
          BY <3>1, <3>3
        <4>3. Safe(m, <<upload("hidden", Zeros)>> \o s4, HostState(Routing, c, {}, {}, {}, FALSE))
          BY <1>6, <4>1, <4>2, UploadCall
        <4> QED BY <4>3 DEF St
      <3>5. D = <<upload("hidden", Zeros)>>
        BY <2>3
      <3> QED BY <1>1, <3>4, <3>5, Zenon DEF Join
    <2> QED BY <2>2, <2>3
  <1>8. ASSUME NEW c, Same(c, w, {"route", "idx", "score"}),
               c["route"] = Product(Weight("router", l), w["norm"])
        PROVE  Safe(m, s2, St(Routing, c, Level(m)))
    <2>1. IsMem(c) /\ Holds(Routing) /\ {"route", "idx", "score"} \subseteq Routing
      BY <1>8, RoutingNames DEF Same
    <2>2. PICK t, u : u = Cons(download("idx"), s3) /\ t = Cons(submit_wait, u)
      OBVIOUS
    <2>3. IsSeq(u) /\ IsSeq(t)
      <3>1. IsSeq(u)
        BY <1>6, <2>2, Unrolled
      <3> QED BY <2>2, <3>1, Unrolled
    <2>4. ASSUME NEW e, Same(e, c, {"idx", "score"}), e["idx"] = TopK(c["route"])
          PROVE  Safe(m, t, St(Routing, e, Level(m)))
      <3>1. Same(e, w, {"route", "idx", "score"}) /\ e["idx"] = Chosen(l, n)
        BY <1>1, <1>8, <2>4 DEF Same, Chosen
      <3>2. Safe(m, s3, St(Routing, e, {}))
        BY <1>7, <3>1
      <3>3. Safe(m, <<download("idx")>> \o s3, St(Routing, e, {}))
        <4>1. "idx" \in Regions /\ "idx" # "logits"
          BY RegionNames
        <4> QED BY <1>6, <3>2, <4>1, DownloadCall
      <3>4. Safe(m, u, St(Routing, e, {}))
        BY <2>2, <3>3, Zenon DEF Cons
      <3>5. Safe(m, <<submit_wait>> \o u, St(Routing, e, Level(m)))
        BY <2>3, <3>4, SubmitCall
      <3> QED BY <2>2, <3>5, Zenon DEF Cons
    <2>5. Safe(m, <<moe_route>> \o t, St(Routing, c, Level(m)))
      BY <2>1, <2>3, <2>4, RouteSafe
    <2>6. s2 = Cons(moe_route, t)
      <3>1. readRouting = Three(moe_route, submit_wait, download("idx"))
        BY DEF readRouting, Three
      <3> QED BY <1>1, <1>6, <2>2, <3>1, Unrolled
    <2>7. Safe(m, Cons(moe_route, t), St(Routing, c, Level(m)))
      BY <2>5, Zenon DEF Cons
    <2> QED BY <2>6, <2>7
  <1>9. Safe(m, <<allocate({"route", "idx", "score"})>> \o
                   (<<matmul(Weight("router", l), "norm", "route")>> \o s2), St(Base, w, bs))
    BY <1>6, <1>8, RouterSafe
  <1>10. Safe(m, Cons(allocate({"route", "idx", "score"}),
                  Cons(matmul(Weight("router", l), "norm", "route"), s2)), St(Base, w, bs))
    BY <1>9, Zenon DEF Cons
  <1> QED BY <1>1, <1>5, <1>10

\* The feed-forward part of a layer, the attention, the layer: programs that compute
\* what the reference computes, in front of any program that goes on from there.
ReferenceFfn(m, l, norm) ==
  IF m.ffn = "dense" THEN ReferenceMlp(Weight("gate_up", l), Weight("down", l), norm)
                     ELSE ReferenceSparse(m, l, norm)

FeedsForward(m, l, p) ==
  /\ IsSeq(p)
  /\ \A w, q : \A bs \in {{}, Level(m)} :
       /\ IsMem(w) /\ IsSeq(q)
       /\ \A c : \A b \in {{}, Level(m)} :
            Same(c, w, SparseRegions) /\ c["hidden"] = ReferenceFfn(m, l, w["norm"])
              => Safe(m, q, St(Base, c, b))
       => Safe(m, Join(p, q), St(Base, w, bs))

AttentionRegions == {"q", "k", "v", "cache", "attn", "hidden"}

Attends(m, l, p) ==
  /\ IsSeq(p)
  /\ \A w, q : \A bs \in {{}, Level(m)} :
       /\ IsMem(w) /\ CacheOK(m, w) /\ w["pos"] = Input("pos") /\ IsSeq(q)
       /\ \A c : /\ Same(c, w, AttentionRegions) /\ CacheOK(m, c)
                 /\ c["hidden"] = ReferenceAttention(m, l, w["norm"])
                 => Safe(m, q, St(Base, c, Level(m)))
       => Safe(m, Join(p, q), St(Base, w, bs))

\* Between two layers, s is what the reference holds.
Between(m, s, c) ==
  /\ IsMem(c) /\ CacheOK(m, c) /\ \A r \in InputBuffers : c[r] = Input(r)
  /\ c["residual"] = s.residual /\ c["hidden"] = s.hidden

RunsLayer(m, l, p) ==
  /\ IsSeq(p)
  /\ \A s, w, q : \A bs \in {{}, Level(m)} :
       /\ Between(m, s, w) /\ IsSeq(q)
       /\ \A c : \A b \in {{}, Level(m)} :
            Between(m, ReferenceLayer(m, l, s), c) => Safe(m, q, St(Base, c, b))
       => Safe(m, Join(p, q), St(Base, w, bs))

LEMMA BaseHolds == Holds(Base)
  BY BaseNames DEF Holds

LEMMA AttentionAttends ==
  ASSUME NEW m \in ModelType, NEW l \in 1 .. m.layers
  PROVE  Attends(m, l, attention(m, l)) /\ Attends(m, l, hip_attention(m, l))
  <1>1. ASSUME NEW w, NEW q, NEW bs \in {{}, Level(m)},
               IsMem(w), CacheOK(m, w), w["pos"] = Input("pos"), IsSeq(q),
               \A c : /\ Same(c, w, AttentionRegions) /\ CacheOK(m, c)
                      /\ c["hidden"] = ReferenceAttention(m, l, w["norm"])
                      => Safe(m, q, St(Base, c, Level(m)))
        PROVE  /\ Safe(m, Join(attention(m, l), q), St(Base, w, bs)) /\ IsSeq(attention(m, l))
               /\ Safe(m, Join(hip_attention(m, l), q), St(Base, w, bs))
               /\ IsSeq(hip_attention(m, l))
    <2>1. \A c : /\ Same(c, w, {"q", "k", "v", "cache", "attn", "hidden"}) /\ CacheOK(m, c)
                 /\ c["hidden"] = ReferenceAttention(m, l, w["norm"])
                 => Safe(m, q, St(Base, c, Level(m)))
      BY <1>1 DEF AttentionRegions
    <2>2. /\ Safe(m, attention(m, l) \o q, St(Base, w, bs)) /\ IsSeq(attention(m, l))
          /\ Safe(m, hip_attention(m, l) \o q, St(Base, w, bs)) /\ IsSeq(hip_attention(m, l))
      BY <1>1, <2>1, BaseHolds, AttentionSafe
    <2> QED BY <2>2, Zenon DEF Join
  <1>2. IsSeq(attention(m, l)) /\ IsSeq(hip_attention(m, l))
    BY AttentionIsSeq
  <1> QED BY <1>1, <1>2 DEF Attends

LEMMA LayerRuns ==
  ASSUME NEW m \in ModelType, NEW l \in 1 .. m.layers,
         NEW p, Attends(m, l, p), NEW f, FeedsForward(m, l, f),
         NEW a, a = rms_norm_add(Weight("input_ln", l)), NEW b,
         b = rms_norm_add(Weight("post_ln", l))
  PROVE  RunsLayer(m, l, Join(Join(Join(<<a>>, p), <<b>>), f))
  <1>1. PICK A, B : A = <<a>> /\ B = <<b>>
    OBVIOUS
  <1>2. IsSeq(A) /\ IsSeq(B) /\ IsSeq(p) /\ IsSeq(f)
    BY <1>1, LiteralIsSeq DEF Attends, FeedsForward
  <1>3. IsSeq(Join(Join(Join(A, p), B), f))
    BY <1>2, JoinTwo
  <1>4. SUFFICES ASSUME NEW s, NEW w, NEW q, NEW bs \in {{}, Level(m)}, Between(m, s, w), IsSeq(q),
                        \A c : \A d \in {{}, Level(m)} :
                          Between(m, ReferenceLayer(m, l, s), c) => Safe(m, q, St(Base, c, d))
                 PROVE  Safe(m, Join(Join(Join(Join(A, p), B), f), q), St(Base, w, bs))
    BY <1>1, <1>3 DEF RunsLayer
  <1>5. PICK s4, s3, s2 : s4 = Join(f, q) /\ s3 = Join(B, s4) /\ s2 = Join(p, s3)
    OBVIOUS
  <1>6. IsSeq(s4) /\ IsSeq(s3) /\ IsSeq(s2)
    BY <1>2, <1>4, <1>5, JoinTwo
  <1>7. PICK before, n1, at, after, n2 :
          /\ before = Sum(s.residual, s.hidden) /\ n1 = Normed(Weight("input_ln", l), before)
          /\ at = ReferenceAttention(m, l, n1) /\ after = Sum(before, at)
          /\ n2 = Normed(Weight("post_ln", l), after)
    OBVIOUS
  <1>8. ReferenceLayer(m, l, s).residual = after
          /\ ReferenceLayer(m, l, s).hidden = ReferenceFfn(m, l, n2)
    BY <1>7 DEF ReferenceLayer, ReferenceFfn
  <1>9. IsMem(w) /\ CacheOK(m, w) /\ \A r \in InputBuffers : w[r] = Input(r)
    BY <1>4 DEF Between
  <1>10. InputBuffers = {"ids", "pos", "slots", "tables", "last"} /\ InputBuffers \subseteq Regions
    BY RegionNames DEF InputBuffers
  <1>11. ASSUME NEW c, IsMem(c), CacheOK(m, c), \A r \in InputBuffers : c[r] = Input(r),
                c["residual"] = after, c["norm"] = n2
         PROVE  Safe(m, s4, St(Base, c, Level(m)))
    <2>1. ASSUME NEW e, NEW d \in {{}, Level(m)}, Same(e, c, SparseRegions),
                 e["hidden"] = ReferenceFfn(m, l, c["norm"])
          PROVE  Safe(m, q, St(Base, e, d))
      <3>1. IsMem(e) /\ e["residual"] = c["residual"] /\ e["cache"] = c["cache"]
        BY <2>1, RegionNames DEF Same, SparseRegions, SlotRegions
      <3>2. \A r \in InputBuffers : e[r] = Input(r)
        BY <1>10, <1>11, <2>1 DEF Same, SparseRegions, SlotRegions
      <3>3. Between(m, ReferenceLayer(m, l, s), e)
        BY <1>8, <1>11, <2>1, <3>1, <3>2 DEF Between, CacheOK
      <3> QED BY <1>4, <3>3
    <2> QED BY <1>4, <1>5, <1>11, <2>1 DEF FeedsForward
  <1>12. ASSUME NEW c, IsMem(c), CacheOK(m, c), \A r \in InputBuffers : c[r] = Input(r),
                c["residual"] = before, c["hidden"] = at
         PROVE  Safe(m, s3, St(Base, c, Level(m)))
    <2>1. ASSUME NEW e, Same(e, c, {"residual", "norm"}),
                 e["residual"] = Sum(c["residual"], c["hidden"]),
                 e["norm"] = Normed(Weight("post_ln", l), Sum(c["residual"], c["hidden"]))
          PROVE  Safe(m, s4, St(Base, e, Level(m)))
      <3>1. IsMem(e) /\ e["cache"] = c["cache"] /\ \A r \in InputBuffers : e[r] = Input(r)
        BY <1>10, <1>12, <2>1, RegionNames DEF Same
      <3>2. e["residual"] = after /\ e["norm"] = n2
        BY <1>7, <1>12, <2>1
      <3>3. CacheOK(m, e)
        BY <1>12, <3>1 DEF CacheOK
      <3> QED BY <1>11, <3>1, <3>2, <3>3
    <2>2. Safe(m, <<rms_norm_add(Weight("post_ln", l))>> \o s4, St(Base, c, Level(m)))
      BY <1>6, <1>12, <2>1, BaseHolds, AddNormSafe
    <2>3. s3 = <<rms_norm_add(Weight("post_ln", l))>> \o s4
      BY <1>1, <1>5, Zenon DEF Join
    <2> QED BY <2>2, <2>3, Zenon
  <1>13. ASSUME NEW c, IsMem(c), CacheOK(m, c), \A r \in InputBuffers : c[r] = Input(r),
                c["residual"] = before, c["norm"] = n1
         PROVE  Safe(m, s2, St(Base, c, Level(m)))
    <2>1. ASSUME NEW e, Same(e, c, AttentionRegions), CacheOK(m, e),
                 e["hidden"] = ReferenceAttention(m, l, c["norm"])
          PROVE  Safe(m, s3, St(Base, e, Level(m)))
      <3>1. IsMem(e) /\ e["residual"] = before /\ \A r \in InputBuffers : e[r] = Input(r)
        BY <1>10, <1>13, <2>1, RegionNames DEF Same, AttentionRegions
      <3>2. e["hidden"] = at
        BY <1>7, <1>13, <2>1
      <3> QED BY <1>12, <2>1, <3>1, <3>2
    <2>2. c["pos"] = Input("pos")
      BY <1>10, <1>13
    <2> QED BY <1>5, <1>6, <1>13, <2>1, <2>2 DEF Attends
  <1>14. ASSUME NEW e, Same(e, w, {"residual", "norm"}),
                e["residual"] = Sum(w["residual"], w["hidden"]),
                e["norm"] = Normed(Weight("input_ln", l), Sum(w["residual"], w["hidden"]))
         PROVE  Safe(m, s2, St(Base, e, Level(m)))
    <2>1. w["residual"] = s.residual /\ w["hidden"] = s.hidden
      BY <1>4 DEF Between
    <2>2. IsMem(e) /\ e["cache"] = w["cache"] /\ \A r \in InputBuffers : e[r] = Input(r)
      BY <1>9, <1>10, <1>14, RegionNames DEF Same
    <2>3. e["residual"] = before /\ e["norm"] = n1
      BY <1>7, <1>14, <2>1
    <2>4. CacheOK(m, e)
      BY <1>9, <2>2 DEF CacheOK
    <2> QED BY <1>13, <2>2, <2>3, <2>4
  <1>15. Safe(m, <<rms_norm_add(Weight("input_ln", l))>> \o s2, St(Base, w, bs))
    BY <1>6, <1>9, <1>14, BaseHolds, AddNormSafe
  <1>16. Join(A, s2) = <<rms_norm_add(Weight("input_ln", l))>> \o s2
    BY <1>1, Zenon DEF Join
  <1>17. Join(Join(Join(Join(A, p), B), f), q) = Join(A, s2)
    BY <1>2, <1>4, <1>5, JoinsFour
  <1> QED BY <1>15, <1>16, <1>17, Zenon

-----------------------------------------------------------------------------
(***************************************************************************)
(* The feed-forward parts.                                                 *)
(***************************************************************************)
LEMMA DenseFeeds ==
  ASSUME NEW m, m.ffn = "dense", NEW l
  PROVE  FeedsForward(m, l, mlp(Weight("gate_up", l), Weight("down", l)))
  <1>1. PICK gu, dn : gu = Weight("gate_up", l) /\ dn = Weight("down", l)
    OBVIOUS
  <1>2. IsSeq(mlp(gu, dn))
    BY LiteralIsSeq DEF mlp
  <1>3. ASSUME NEW w, NEW q, NEW bs \in {{}, Level(m)}, IsMem(w), IsSeq(q),
               \A c : \A b \in {{}, Level(m)} :
                 Same(c, w, SparseRegions) /\ c["hidden"] = ReferenceFfn(m, l, w["norm"])
                   => Safe(m, q, St(Base, c, b))
        PROVE  Safe(m, Join(mlp(gu, dn), q), St(Base, w, bs))
    <2>1. ASSUME NEW c, Same(c, w, {"gate", "mlp", "hidden"}),
                 c["hidden"] = ReferenceMlp(gu, dn, w["norm"])
          PROVE  Safe(m, q, St(Base, c, Level(m)))
      <3>1. Same(c, w, SparseRegions)
        BY <2>1 DEF Same, SparseRegions
      <3>2. c["hidden"] = ReferenceFfn(m, l, w["norm"])
        BY <1>1, <2>1 DEF ReferenceFfn
      <3> QED BY <1>3, <3>1, <3>2
    <2>2. Safe(m, mlp(gu, dn) \o q, St(Base, w, bs))
      BY <1>3, <2>1, BaseHolds, MlpSafe
    <2> QED BY <2>2, Zenon DEF Join
  <1> QED BY <1>1, <1>2, <1>3 DEF FeedsForward

LEMMA ExpertsAreSeq ==
  ASSUME NEW m \in ModelType, NEW l
  PROVE  IsSeq(expertsOf(m, l))
  <1>1. PICK n : n = m.chunks /\ n \in Nat
    BY DEF ModelType
  <1>2. n \in 0 .. n
    BY <1>1
  <1>3. CASE m.ffn = "fused"
    <2>1. PICK C : C = [i \in 1 .. n |-> fusedChunk(l, i)]
      OBVIOUS
    <2>2. IsSeq(Times(C, n))
      <3>1. \A i \in 1 .. n : IsSeq(C[i])
        BY <2>1, FusedIsSeq
      <3> QED BY <1>1, <1>2, <3>1, TimesNext
    <2>3. PICK A, B : A = <<allocate({"exp"})>> /\ B = <<add_buf>>
      OBVIOUS
    <2>4. IsSeq(Join(Join(A, Times(C, n)), B))
      <3>1. IsSeq(A) /\ IsSeq(B)
        BY <2>3, LiteralIsSeq
      <3>2. IsSeq(Join(A, Times(C, n)))
        BY <2>2, <3>1, JoinTwo
      <3> QED BY <3>1, <3>2, JoinTwo
    <2>5. expertsOf(m, l) = Join(Join(A, Times(C, n)), B)
      <3>1. Times(C, n) = FlattenSeq([i \in 1 .. m.chunks |-> fusedChunk(l, i)])
        <4>1. [i \in 1 .. m.chunks |-> fusedChunk(l, i)] = [i \in 1 .. n |-> C[i]]
          BY <1>1, <2>1
        <4> QED BY <4>1, Zenon DEF Times
      <3>2. ForEach(m.chunks, LAMBDA c : fusedChunk(l, c))
              = FlattenSeq([i \in 1 .. m.chunks |-> fusedChunk(l, i)])
        BY Zenon DEF ForEach
      <3>3. expertsOf(m, l)
              = <<allocate({"exp"})>> \o ForEach(m.chunks, LAMBDA c : fusedChunk(l, c))
                \o <<add_buf>>
        BY <1>3, Zenon DEF expertsOf
      <3> QED BY <2>3, <3>1, <3>2, <3>3, Zenon DEF Join
    <2> QED BY <2>4, <2>5
  <1>4. CASE m.ffn # "fused"
    <2>1. PICK C : C = [i \in 1 .. n |-> routedChunk(l, i)]
      OBVIOUS
    <2>2. IsSeq(Times(C, n))
      <3>1. \A i \in 1 .. n : IsSeq(C[i])
        BY <2>1, FusedIsSeq
      <3> QED BY <1>1, <1>2, <3>1, TimesNext
    <2>3. expertsOf(m, l) = Times(C, n)
      <3>1. Times(C, n) = FlattenSeq([i \in 1 .. m.chunks |-> routedChunk(l, i)])
        <4>1. [i \in 1 .. m.chunks |-> routedChunk(l, i)] = [i \in 1 .. n |-> C[i]]
          BY <1>1, <2>1
        <4> QED BY <4>1, Zenon DEF Times
      <3>2. ForEach(m.chunks, LAMBDA c : routedChunk(l, c))
              = FlattenSeq([i \in 1 .. m.chunks |-> routedChunk(l, i)])
        BY Zenon DEF ForEach
      <3>3. expertsOf(m, l) = ForEach(m.chunks, LAMBDA c : routedChunk(l, c))
        BY <1>4, Zenon DEF expertsOf
      <3> QED BY <3>1, <3>2, <3>3, Zenon
    <2> QED BY <2>2, <2>3
  <1> QED BY <1>3, <1>4

LEMMA SparseParts ==
  ASSUME NEW m \in ModelType, NEW l, NEW q, IsSeq(q), NEW B, B = If(m.ffn = "routed", readRouting),
         NEW D, D = IF m.shared THEN sharedExpert(m, l) ELSE <<upload("hidden", Zeros)>>
  PROVE  /\ IsSeq(sparse(m, l))
         /\ Join(sparse(m, l), q)
              = Cons(allocate({"route", "idx", "score"}),
                  Cons(matmul(Weight("router", l), "norm", "route"),
                    Join(B, Join(D, Join(expertsOf(m, l), Join(endOfLayer, q))))))
  <1>1. PICK a, b, E, F : /\ a = allocate({"route", "idx", "score"})
                          /\ b = matmul(Weight("router", l), "norm", "route")
                          /\ E = expertsOf(m, l) /\ F = endOfLayer
    OBVIOUS
  <1>2. PICK A : A = Two(a, b)
    OBVIOUS
  <1>3. IsSeq(A) /\ IsSeq(B) /\ IsSeq(D) /\ IsSeq(E) /\ IsSeq(F)
    <2>1. IsSeq(A)
      BY <1>2, LiteralIsSeq DEF Two
    <2>2. IsSeq(B)
      BY LiteralIsSeq DEF If, readRouting
    <2>3. IsSeq(D)
      BY SharedParts, LiteralIsSeq
    <2>4. IsSeq(E)
      BY <1>1, ExpertsAreSeq
    <2>5. IsSeq(F)
      BY <1>1, LiteralIsSeq DEF endOfLayer
    <2> QED BY <2>1, <2>2, <2>3, <2>4, <2>5
  <1>4. sparse(m, l) = Join(Join(Join(Join(A, B), D), E), F)
    BY <1>1, <1>2, Zenon DEF sparse, Join, Two
  <1>5. /\ Join(Join(Join(Join(Join(A, B), D), E), F), q)
             = Join(A, Join(B, Join(D, Join(E, Join(F, q)))))
        /\ IsSeq(Join(Join(Join(Join(A, B), D), E), F))
    BY <1>3, JoinsFive
  <1>6. PICK r : r = Join(B, Join(D, Join(E, Join(F, q))))
    OBVIOUS
  <1>7. IsSeq(r)
    <2>1. IsSeq(Join(F, q))
      BY <1>3, JoinTwo
    <2>2. IsSeq(Join(E, Join(F, q)))
      BY <1>3, <2>1, JoinTwo
    <2>3. IsSeq(Join(D, Join(E, Join(F, q))))
      BY <1>3, <2>2, JoinTwo
    <2> QED BY <1>3, <1>6, <2>3, JoinTwo
  <1>8. Join(A, r) = Cons(a, Cons(b, r))
    BY <1>2, <1>7, Unrolled
  <1> QED BY <1>1, <1>4, <1>5, <1>6, <1>8

LEMMA SparseFeeds ==
  ASSUME NEW m \in ModelType, Sound(m), ~ Hip(m), m.ffn # "dense", NEW l
  PROVE  FeedsForward(m, l, sparse(m, l))
  <1>1. PICK B, D : /\ B = If(m.ffn = "routed", readRouting)
                    /\ D = IF m.shared THEN sharedExpert(m, l) ELSE <<upload("hidden", Zeros)>>
    OBVIOUS
  <1>2. IsSeq(sparse(m, l))
    BY <1>1, LiteralIsSeq, SparseParts
  <1>3. ASSUME NEW w, NEW q, NEW bs \in {{}, Level(m)}, IsMem(w), IsSeq(q),
               \A c : \A b \in {{}, Level(m)} :
                 Same(c, w, SparseRegions) /\ c["hidden"] = ReferenceFfn(m, l, w["norm"])
                   => Safe(m, q, St(Base, c, b))
        PROVE  Safe(m, Join(sparse(m, l), q), St(Base, w, bs))
    <2>1. \A c : /\ Same(c, w, SparseRegions)
                 /\ c["hidden"] = ReferenceSparse(m, l, w["norm"])
                 => Safe(m, q, St(Base, c, {}))
      BY <1>3 DEF ReferenceFfn
    <2>2. Join(sparse(m, l), q)
              = Cons(allocate({"route", "idx", "score"}),
                  Cons(matmul(Weight("router", l), "norm", "route"),
                    Join(B, Join(D, Join(expertsOf(m, l), Join(endOfLayer, q))))))
      BY <1>1, <1>3, SparseParts
    <2>3. CASE m.ffn = "fused" /\ m.shared
      <3>1. PICK r : r = Join(D, Join(expertsOf(m, l), Join(endOfLayer, q)))
        OBVIOUS
      <3>2. IsSeq(r)
        <4>1. IsSeq(Join(endOfLayer, q))
          BY <1>3, LiteralIsSeq, JoinTwo DEF endOfLayer
        <4>2. IsSeq(Join(expertsOf(m, l), Join(endOfLayer, q)))
          BY <4>1, ExpertsAreSeq, JoinTwo
        <4>3. IsSeq(D)
          BY <1>1, <2>3, <1>3, SharedParts
        <4> QED BY <3>1, <4>2, <4>3, JoinTwo
      <3>3. Join(B, r) = r
        <4>1. B = <<>>
          BY <1>1, <2>3 DEF If
        <4>2. <<>> \o r = r
          BY <3>2, NilFirst
        <4> QED BY <4>1, <4>2, Zenon DEF Join
      <3>4. D = sharedExpert(m, l)
        BY <1>1, <2>3
      <3>5. Safe(m, Cons(allocate({"route", "idx", "score"}),
                      Cons(matmul(Weight("router", l), "norm", "route"),
                        Join(sharedExpert(m, l), Join(expertsOf(m, l), Join(endOfLayer, q))))),
                 St(Base, w, bs))
        BY <1>3, <2>1, <2>3, FusedLayerSafe
      <3> QED BY <2>2, <3>1, <3>3, <3>4, <3>5
    <2>4. CASE m.ffn = "routed" /\ m.chunks = 1
      <3>1. B = readRouting
        BY <1>1, <2>4 DEF If
      <3>2. Safe(m, Cons(allocate({"route", "idx", "score"}),
                      Cons(matmul(Weight("router", l), "norm", "route"),
                        Join(readRouting,
                          Join(D, Join(expertsOf(m, l), Join(endOfLayer, q)))))),
                 St(Base, w, bs))
        BY <1>1, <1>3, <2>1, <2>4, RoutedLayerSafe
      <3> QED BY <2>2, <3>1, <3>2
    <2> QED BY <2>3, <2>4 DEF Sound, Hip
  <1> QED BY <1>2, <1>3 DEF FeedsForward

\* The rows of Qwen3Model are zeroed in the stream when nothing is shared.
LEMMA HipZeroSafe ==
  ASSUME NEW m, Hip(m), NEW w, IsMem(w), NEW q, IsSeq(q),
         \A c : Same(c, w, {"hidden"}) /\ c["hidden"] = Zeros => Safe(m, q, St(Routing, c, {}))
  PROVE  Safe(m, <<memset>> \o q, St(Routing, w, {}))
  <1>1. PICK z : z = With(w, "hidden", Zeros)
    OBVIOUS
  <1>2. Does(memset, {}, {"hidden"}, TRUE) /\ z = Computed(memset, w)
    BY <1>1, MemsetDoes
  <1>3. Same(z, w, {"hidden"}) /\ z["hidden"] = Zeros
    <2>1. IsMem(z)
      BY <1>1, WithIs
    <2> QED BY <1>1, <2>1, RegionNames DEF With, Same
  <1>4. Safe(m, q, St(Routing, z, Level(m)))
    BY <1>3 DEF Level
  <1>5. /\ {} \cup {"hidden"} \subseteq Routing /\ {} \cup {"hidden"} \subseteq Plain
        /\ Routing \subseteq Regions /\ {"hidden"} # {} /\ {} \in {{}, Level(m)}
    BY BaseNames, RoutingNames DEF Holds
  <1> QED BY <1>2, <1>4, <1>5, PlainDispatch

\* The chunks and the end of the layer, with what the shared expert has left.
LEMMA HipExpertsSafe ==
  ASSUME NEW m \in ModelType, Hip(m), NEW l, NEW w, IsMem(w), NEW q, IsSeq(q),
         \A c : Same(c, w, SparseRegions) /\ c["hidden"] = ReferenceSparse(m, l, w["norm"])
                => Safe(m, q, St(Base, c, {})),
         NEW C, C = [i \in 1 .. m.chunks |-> hip_chunk(l, i)],
         NEW c, Same(c, w, SparseRegions), c["idx"] = Chosen(l, w["norm"]),
         c["hidden"] = IF m.shared THEN Shared(m, l, w["norm"]) ELSE Zeros
  PROVE  Safe(m, Join(Times(C, m.chunks), Join(<<release({"route", "idx", "score"})>>, q)),
              St(Routing, c, {}))
  <1>1. PICK r, n : r = Join(<<release({"route", "idx", "score"})>>, q) /\ n = m.chunks
    OBVIOUS
  <1>2. n \in Nat /\ n # 0 /\ C = [i \in 1 .. n |-> hip_chunk(l, i)]
    BY <1>1 DEF ModelType
  <1>3. IsSeq(r)
    BY <1>1, LiteralIsSeq, JoinTwo
  <1>4. IsMem(c) /\ c["norm"] = w["norm"] /\ c["idx"] = Chosen(l, c["norm"])
    BY RegionNames DEF Same, SparseRegions, SlotRegions
  <1>5. ASSUME NEW e, NEW b, ChunksLeave(m, l, c, n, e, b)
        PROVE  Safe(m, r, St(Routing, e, b))
    <2>1. /\ b = {} /\ Same(e, c, {"hidden"} \cup SlotRegions)
          /\ e["hidden"] = PlusExperts(c["hidden"], Added(l, c["norm"], n))
      BY <1>2, <1>5 DEF ChunksLeave
    <2>2. e["hidden"] = ReferenceSparse(m, l, w["norm"])
      <3>1. e["hidden"] = PlusExperts(IF m.shared THEN Shared(m, l, w["norm"]) ELSE Zeros,
                                      Added(l, w["norm"], m.chunks))
        BY <1>1, <1>4, <2>1
      <3> QED BY <3>1, ReferenceAdds
    <2>3. Same(e, w, SparseRegions)
      BY <2>1 DEF Same, SparseRegions
    <2>4. Safe(m, q, St(Base, e, {}))
      BY <2>2, <2>3
    <2>5. Routing \ {"route", "idx", "score"} = Base
      BY RoutingNames
    <2>6. Safe(m, <<release({"route", "idx", "score"})>> \o q, St(Routing, e, {}))
      BY <2>4, <2>5, FreeCall
    <2> QED BY <1>1, <2>1, <2>6, Zenon DEF Join
  <1>6. \A e, b : ChunksLeave(m, l, c, n, e, b) => Safe(m, r, St(Routing, e, b))
    BY <1>5
  <1>7. Holds(Routing) /\ {"route", "idx", "score"} \subseteq Routing
    BY RoutingNames
  <1>8. Safe(m, Join(Times(C, n), r), St(Routing, c, {}))
    BY <1>2, <1>3, <1>4, <1>6, <1>7, HipChunksSafe
  <1> QED BY <1>1, <1>8

\* The parts of hip_sparse.
HipMiddle(m, l) == IF m.shared THEN hip_shared(m, l) ELSE <<memset>>
HipChunks(m, l) == Times([i \in 1 .. m.chunks |-> hip_chunk(l, i)], m.chunks)
HipEnd == <<release({"route", "idx", "score"})>>

LEMMA HipSparseParts ==
  ASSUME NEW m \in ModelType, NEW l, NEW q, IsSeq(q)
  PROVE  /\ IsSeq(hip_sparse(m, l)) /\ IsSeq(HipMiddle(m, l)) /\ IsSeq(HipChunks(m, l))
         /\ IsSeq(HipEnd)
         /\ Join(hip_sparse(m, l), q)
              = Cons(allocate({"route", "idx", "score"}),
                  Cons(matmul(Weight("router", l), "norm", "route"),
                    Cons(moe_route, Cons(download("idx"),
                      Join(HipMiddle(m, l), Join(HipChunks(m, l), Join(HipEnd, q)))))))
  <1>c. PICK C, D : /\ C = [i \in 1 .. m.chunks |-> hip_chunk(l, i)]
                    /\ D = IF m.shared THEN hip_shared(m, l) ELSE <<memset>>
    OBVIOUS
  <1>d. D = HipMiddle(m, l) /\ Times(C, m.chunks) = HipChunks(m, l)
    BY <1>c DEF HipMiddle, HipChunks
  <1>1. PICK a, b, c, d, T, F : /\ a = allocate({"route", "idx", "score"})
                                /\ b = matmul(Weight("router", l), "norm", "route")
                                /\ c = moe_route /\ d = download("idx")
                                /\ T = Times(C, m.chunks) /\ F = HipEnd
    OBVIOUS
  <1>2. PICK A : A = Four(a, b, c, d)
    OBVIOUS
  <1>3. IsSeq(A) /\ IsSeq(D) /\ IsSeq(T) /\ IsSeq(F)
    <2>1. IsSeq(A)
      BY <1>2, LiteralIsSeq DEF Four
    <2>2. IsSeq(D)
      BY <1>c, SharedParts, LiteralIsSeq
    <2>3. IsSeq(T)
      <3>1. PICK n : n = m.chunks /\ n \in Nat
        BY DEF ModelType
      <3>2. n \in 0 .. n /\ \A i \in 1 .. n : IsSeq(C[i])
        BY <1>c, <3>1, FusedIsSeq
      <3> QED BY <1>1, <3>1, <3>2, TimesNext
    <2>4. IsSeq(F)
      BY <1>1, LiteralIsSeq DEF HipEnd
    <2> QED BY <2>1, <2>2, <2>3, <2>4
  <1>4. hip_sparse(m, l) = Join(Join(Join(A, D), T), F)
    <2>1. T = FlattenSeq([i \in 1 .. m.chunks |-> hip_chunk(l, i)])
      <3>1. [i \in 1 .. m.chunks |-> hip_chunk(l, i)] = [i \in 1 .. m.chunks |-> C[i]]
        BY <1>c
      <3> QED BY <1>1, <3>1, Zenon DEF Times
    <2>2. ForEach(m.chunks, LAMBDA i : hip_chunk(l, i))
            = FlattenSeq([i \in 1 .. m.chunks |-> hip_chunk(l, i)])
      BY Zenon DEF ForEach
    <2>3. hip_sparse(m, l)
            = <<a, b, c, d>> \o D \o ForEach(m.chunks, LAMBDA i : hip_chunk(l, i)) \o F
      BY <1>1, <1>c, Zenon DEF hip_sparse, HipEnd
    <2> QED BY <1>2, <2>1, <2>2, <2>3, Zenon DEF Join, Four
  <1>5. /\ Join(Join(Join(Join(A, D), T), F), q) = Join(A, Join(D, Join(T, Join(F, q))))
        /\ IsSeq(Join(Join(Join(A, D), T), F))
    <2>1. IsSeq(Join(A, D))
      BY <1>3, JoinTwo
    <2>2. IsSeq(Join(Join(A, D), T))
      BY <1>3, <2>1, JoinTwo
    <2> QED BY <1>3, <2>2, JoinTwo, JoinsFour
  <1>6. PICK r : r = Join(D, Join(T, Join(F, q)))
    OBVIOUS
  <1>7. IsSeq(r)
    <2>1. IsSeq(Join(F, q))
      BY <1>3, JoinTwo
    <2>2. IsSeq(Join(T, Join(F, q)))
      BY <1>3, <2>1, JoinTwo
    <2> QED BY <1>3, <1>6, <2>2, JoinTwo
  <1>8. Join(A, r) = Cons(a, Cons(b, Cons(c, Cons(d, r))))
    BY <1>2, <1>7, Unrolled
  <1> QED BY <1>1, <1>3, <1>4, <1>5, <1>6, <1>8, <1>d

LEMMA HipSparseFeeds ==
  ASSUME NEW m \in ModelType, Hip(m), m.ffn # "dense", NEW l
  PROVE  FeedsForward(m, l, hip_sparse(m, l))
  <1>2. IsSeq(hip_sparse(m, l))
    BY LiteralIsSeq, HipSparseParts
  <1>3. ASSUME NEW w, NEW q, NEW bs \in {{}, Level(m)}, IsMem(w), IsSeq(q),
               \A c : \A b \in {{}, Level(m)} :
                 Same(c, w, SparseRegions) /\ c["hidden"] = ReferenceFfn(m, l, w["norm"])
                   => Safe(m, q, St(Base, c, b))
        PROVE  Safe(m, Join(hip_sparse(m, l), q), St(Base, w, bs))
    <2>1. \A c : /\ Same(c, w, SparseRegions)
                 /\ c["hidden"] = ReferenceSparse(m, l, w["norm"])
                 => Safe(m, q, St(Base, c, {}))
      BY <1>3 DEF ReferenceFfn
    <2>2. PICK s6, s5, s4, s3, s2, n :
            /\ s6 = Join(HipEnd, q) /\ s5 = Join(HipChunks(m, l), s6)
            /\ s4 = Join(HipMiddle(m, l), s5)
            /\ s3 = Cons(download("idx"), s4) /\ s2 = Cons(moe_route, s3) /\ n = w["norm"]
      OBVIOUS
    <2>3. /\ IsSeq(HipMiddle(m, l)) /\ IsSeq(HipChunks(m, l)) /\ IsSeq(HipEnd)
          /\ Join(hip_sparse(m, l), q)
              = Cons(allocate({"route", "idx", "score"}),
                  Cons(matmul(Weight("router", l), "norm", "route"), s2))
      BY <1>3, <2>2, HipSparseParts
    <2>4. IsSeq(s5) /\ IsSeq(s4) /\ IsSeq(s3) /\ IsSeq(s2)
      <3>1. IsSeq(s6)
        BY <1>3, <2>2, <2>3, JoinTwo
      <3>2. IsSeq(s5)
        BY <2>2, <2>3, <3>1, JoinTwo
      <3>3. IsSeq(s4)
        BY <2>2, <2>3, <3>2, JoinTwo
      <3>4. IsSeq(s3)
        BY <2>2, <3>3, Unrolled
      <3> QED BY <2>2, <3>2, <3>3, <3>4, Unrolled
    <2>5. ASSUME NEW c, Same(c, w, SparseRegions), c["idx"] = Chosen(l, n),
                 c["hidden"] = IF m.shared THEN Shared(m, l, n) ELSE Zeros
          PROVE  Safe(m, s5, St(Routing, c, {}))
      <3>1. c["idx"] = Chosen(l, w["norm"])
            /\ c["hidden"] = IF m.shared THEN Shared(m, l, w["norm"]) ELSE Zeros
        BY <2>2, <2>5
      <3>2. PICK C : C = [i \in 1 .. m.chunks |-> hip_chunk(l, i)]
        OBVIOUS
      <3>3. Safe(m, Join(Times(C, m.chunks), Join(<<release({"route", "idx", "score"})>>, q)),
                 St(Routing, c, {}))
        BY <1>3, <2>1, <2>5, <3>1, <3>2, HipExpertsSafe
      <3>4. s5 = Join(Times(C, m.chunks), Join(<<release({"route", "idx", "score"})>>, q))
        BY <2>2, <3>2, Zenon DEF HipChunks, HipEnd
      <3> QED BY <3>3, <3>4
    <2>6. ASSUME NEW c, Same(c, w, {"route", "idx", "score"}), c["idx"] = Chosen(l, n)
          PROVE  Safe(m, s4, St(Routing, c, {}))
      <3>1. IsMem(c) /\ c["norm"] = n
        BY <2>2, <2>6, RegionNames DEF Same
      <3>2. ASSUME NEW e, Same(e, c, {"gate", "mlp", "hidden", "shs"}),
                   e["hidden"] = IF m.shared THEN Shared(m, l, n) ELSE Zeros
            PROVE  Safe(m, s5, St(Routing, e, {}))
        <4>1. Same(e, w, SparseRegions) /\ e["idx"] = c["idx"]
          BY <2>6, <3>2, RegionNames DEF Same, SparseRegions
        <4> QED BY <2>5, <2>6, <3>2, <4>1
      <3>3. CASE m.shared
        <4>1. \A e : /\ Same(e, c, {"gate", "mlp", "hidden", "shs"})
                     /\ e["hidden"] = Shared(m, l, c["norm"])
                     => Safe(m, s5, St(Routing, e, Level(m)))
          BY <3>1, <3>2, <3>3 DEF Level
        <4>2. {} \in {{}, Level(m)}
          OBVIOUS
        <4>3. Safe(m, hip_shared(m, l) \o s5, St(Routing, c, {}))
          BY <2>4, <3>1, <4>1, <4>2, HipSharedSafe
        <4>4. HipMiddle(m, l) = hip_shared(m, l)
          BY <3>3 DEF HipMiddle
        <4> QED BY <2>2, <4>3, <4>4, Zenon DEF Join
      <3>4. CASE ~ m.shared
        <4>1. ASSUME NEW e, Same(e, c, {"hidden"}), e["hidden"] = Zeros
              PROVE  Safe(m, s5, St(Routing, e, {}))
          <5>1. Same(e, c, {"gate", "mlp", "hidden", "shs"})
            BY <4>1 DEF Same
          <5> QED BY <3>2, <3>4, <4>1, <5>1
        <4>2. Safe(m, <<memset>> \o s5, St(Routing, c, {}))
          BY <2>4, <3>1, <4>1, HipZeroSafe
        <4>3. HipMiddle(m, l) = <<memset>>
          BY <3>4 DEF HipMiddle
        <4> QED BY <2>2, <4>2, <4>3, Zenon DEF Join
      <3> QED BY <3>3, <3>4
    <2>7. ASSUME NEW c, Same(c, w, {"route", "idx", "score"}),
                 c["route"] = Product(Weight("router", l), w["norm"])
          PROVE  Safe(m, s2, St(Routing, c, Level(m)))
      <3>1. IsMem(c) /\ Holds(Routing) /\ {"route", "idx", "score"} \subseteq Routing
        BY <2>7, RoutingNames DEF Same
      <3>2. ASSUME NEW e, Same(e, c, {"idx", "score"}), e["idx"] = TopK(c["route"])
            PROVE  Safe(m, s3, St(Routing, e, Level(m)))
        <4>1. Same(e, w, {"route", "idx", "score"}) /\ e["idx"] = Chosen(l, n)
          BY <2>2, <2>7, <3>2 DEF Same, Chosen
        <4>2. Safe(m, s4, St(Routing, e, {}))
          BY <2>6, <4>1
        <4>3. "idx" \in Regions /\ "idx" # "logits"
          BY RegionNames
        <4>4. Safe(m, <<download("idx")>> \o s4, St(Routing, e, {}))
          BY <2>4, <4>2, <4>3, DownloadCall
        <4>5. Level(m) = {}
          BY DEF Level
        <4> QED BY <2>2, <4>4, <4>5, Zenon DEF Cons
      <3>3. Safe(m, <<moe_route>> \o s3, St(Routing, c, Level(m)))
        BY <2>4, <3>1, <3>2, RouteSafe
      <3> QED BY <2>2, <3>3, Zenon DEF Cons
    <2>8. Safe(m, <<allocate({"route", "idx", "score"})>> \o
                     (<<matmul(Weight("router", l), "norm", "route")>> \o s2), St(Base, w, bs))
      BY <1>3, <2>4, <2>7, RouterSafe
    <2>9. Safe(m, Cons(allocate({"route", "idx", "score"}),
                    Cons(matmul(Weight("router", l), "norm", "route"), s2)), St(Base, w, bs))
      BY <2>8, Zenon DEF Cons
    <2> QED BY <2>3, <2>9
  <1> QED BY <1>2, <1>3 DEF FeedsForward

-----------------------------------------------------------------------------
(***************************************************************************)
(* The layers, and what the reference holds after each of them.  FoldLeft  *)
(* recurs over subsets of the layers; g is that recursion up to layer k.   *)
(***************************************************************************)
Embedded == [residual |-> Zeros, hidden |-> <<"rows", Weight("embed", 0), Input("ids")>>]

Iterates(g, m, ls, k) ==
  g = [s \in SUBSET (1 .. k) |->
         IF s = {} THEN Embedded ELSE ReferenceLayer(m, ls[Max(s)], g[s \ {Max(s)}])]

Logits(s) ==
  Product(Weight("lm_head", 0),
          <<"rows", Normed(Weight("final_norm", 0), Sum(s.residual, s.hidden)), Input("last")>>)

LEMMA ReferenceUnfolds ==
  ASSUME NEW m, NEW ls, ls = [l \in 1 .. m.layers |-> l], DOMAIN ls = 1 .. m.layers
  PROVE  Reference(m) = Logits((CHOOSE g : Iterates(g, m, ls, m.layers))[1 .. m.layers])
  BY DEF Reference, Logits, Embedded, FoldLeft, MapThenFoldSet, Iterates

LEMMA IterateNext ==
  ASSUME NEW m, NEW ls, NEW k \in Nat, NEW g, Iterates(g, m, ls, k)
  PROVE  \E h : Iterates(h, m, ls, k + 1)
  <1> DEFINE h == [s \in SUBSET (1 .. k + 1) |->
                     IF k + 1 \in s THEN ReferenceLayer(m, ls[k + 1], g[s \ {k + 1}]) ELSE g[s]]
  <1>1. SUFFICES ASSUME NEW s \in SUBSET (1 .. k + 1)
                 PROVE  h[s] = IF s = {} THEN Embedded
                               ELSE ReferenceLayer(m, ls[Max(s)], h[s \ {Max(s)}])
    <2>1. h = [s \in SUBSET (1 .. k + 1) |->
                 IF s = {} THEN Embedded ELSE ReferenceLayer(m, ls[Max(s)], h[s \ {Max(s)}])]
      BY <1>1
    <2> QED BY <2>1 DEF Iterates
  <1>2. \A t \in SUBSET (1 .. k + 1) : k + 1 \notin t => t \in SUBSET (1 .. k) /\ h[t] = g[t]
    OBVIOUS
  <1>3. CASE k + 1 \in s
    <2>1. Max(s) = k + 1
      BY <1>3, GreatestOfInterval
    <2>2. h[s \ {k + 1}] = g[s \ {k + 1}]
      BY <1>2
    <2>3. h[s] = ReferenceLayer(m, ls[k + 1], g[s \ {k + 1}])
      BY <1>3
    <2> QED BY <1>3, <2>1, <2>2, <2>3
  <1>4. CASE k + 1 \notin s
    <2>1. s \in SUBSET (1 .. k) /\ h[s] = g[s]
      BY <1>2, <1>4
    <2>2. h[s \ {Max(s)}] = g[s \ {Max(s)}]
      BY <1>2, <1>4
    <2>3. g[s] = IF s = {} THEN Embedded ELSE ReferenceLayer(m, ls[Max(s)], g[s \ {Max(s)}])
      BY <2>1 DEF Iterates
    <2> QED BY <2>1, <2>2, <2>3
  <1> QED BY <1>3, <1>4

LEMMA IterateExists ==
  ASSUME NEW m, NEW ls, NEW n \in Nat
  PROVE  \E g : Iterates(g, m, ls, n)
  <1> DEFINE missing == {k \in Nat : ~ \E g : Iterates(g, m, ls, k)}
  <1>1. SUFFICES ASSUME missing # {} PROVE FALSE
    OBVIOUS
  <1>2. PICK k \in missing : \A j \in missing : k <= j
    BY <1>1, LeastExists
  <1>3. \E g : Iterates(g, m, ls, 0)
    <2> DEFINE g == [s \in SUBSET (1 .. 0) |-> Embedded]
    <2>1. \A s \in SUBSET (1 .. 0) : s = {}
      OBVIOUS
    <2>2. Iterates(g, m, ls, 0)
      BY <2>1 DEF Iterates
    <2> QED BY <2>2
  <1>4. k # 0 /\ k - 1 \in Nat /\ k - 1 \notin missing /\ (k - 1) + 1 = k
    BY <1>2, <1>3
  <1>5. \E g : Iterates(g, m, ls, k - 1)
    BY <1>4
  <1> QED BY <1>2, <1>4, <1>5, IterateNext

\* st[l] is what the reference holds after l layers.
Passes(m, st) ==
  /\ st[0] = Embedded
  /\ \A l \in 1 .. m.layers : st[l] = ReferenceLayer(m, l, st[l - 1])
  /\ Reference(m) = Logits(st[m.layers])

LEMMA ReferencePasses ==
  ASSUME NEW m \in ModelType
  PROVE  \E st : Passes(m, st)
  <1>1. PICK n, ls : n = m.layers /\ n \in Nat /\ ls = [l \in 1 .. m.layers |-> l]
    BY DEF ModelType
  <1>2. DOMAIN ls = 1 .. n /\ \A l \in 1 .. n : ls[l] = l
    BY <1>1
  <1>3. PICK g : Iterates(g, m, ls, n) /\ Reference(m) = Logits(g[1 .. n])
    BY <1>1, <1>2, IterateExists, ReferenceUnfolds
  <1> DEFINE st == [i \in 0 .. n |-> g[1 .. i]]
  <1>4. \A s \in SUBSET (1 .. n) :
          g[s] = IF s = {} THEN Embedded ELSE ReferenceLayer(m, ls[Max(s)], g[s \ {Max(s)}])
    BY <1>3 DEF Iterates
  <1>5. st[0] = Embedded
    <2>1. g[{}] = Embedded
      BY <1>4
    <2>2. 1 .. 0 = {}
      OBVIOUS
    <2> QED BY <1>1, <2>1, <2>2
  <1>6. ASSUME NEW i \in 1 .. n PROVE st[i] = ReferenceLayer(m, i, st[i - 1])
    <2>1. Max(1 .. i) = i
      BY <1>1, GreatestOfInterval
    <2>2. (1 .. i) \ {i} = 1 .. i - 1
      BY <1>1
    <2>3. 1 .. i \in SUBSET (1 .. n) /\ 1 .. i # {}
      BY <1>1
    <2>4. g[1 .. i] = ReferenceLayer(m, i, g[1 .. i - 1])
      BY <1>2, <1>4, <2>1, <2>2, <2>3
    <2> QED BY <1>1, <2>4
  <1>7. Reference(m) = Logits(st[n])
    BY <1>1, <1>3
  <1> HIDE DEF st
  <1> QED BY <1>1, <1>5, <1>6, <1>7 DEF Passes

\* A layer of either backend.
Layer(m, l) == IF Hip(m) THEN hip_layer(m, l) ELSE layer(m, l)

LEMMA EveryLayerRuns ==
  ASSUME NEW m \in ModelType, Sound(m), NEW l \in 1 .. m.layers
  PROVE  RunsLayer(m, l, Layer(m, l))
  <1>1. PICK a, b : a = rms_norm_add(Weight("input_ln", l))
          /\ b = rms_norm_add(Weight("post_ln", l))
    OBVIOUS
  <1>2. CASE Hip(m)
    <2>1. PICK f : f = IF m.ffn = "dense" THEN mlp(Weight("gate_up", l), Weight("down", l))
                       ELSE hip_sparse(m, l)
      OBVIOUS
    <2>2. FeedsForward(m, l, f)
      BY <1>2, <2>1, DenseFeeds, HipSparseFeeds
    <2>3. RunsLayer(m, l, Join(Join(Join(<<a>>, hip_attention(m, l)), <<b>>), f))
      BY <1>1, <2>2, AttentionAttends, LayerRuns
    <2>4. hip_layer(m, l) = Join(Join(Join(<<a>>, hip_attention(m, l)), <<b>>), f)
      BY <1>1, <2>1, Zenon DEF hip_layer, Join
    <2> QED BY <1>2, <2>3, <2>4 DEF Layer
  <1>3. CASE ~ Hip(m)
    <2>1. PICK f : f = IF m.ffn = "dense" THEN mlp(Weight("gate_up", l), Weight("down", l))
                       ELSE sparse(m, l)
      OBVIOUS
    <2>2. FeedsForward(m, l, f)
      BY <1>3, <2>1, DenseFeeds, SparseFeeds
    <2>3. RunsLayer(m, l, Join(Join(Join(<<a>>, attention(m, l)), <<b>>), f))
      BY <1>1, <2>2, AttentionAttends, LayerRuns
    <2>4. layer(m, l) = Join(Join(Join(<<a>>, attention(m, l)), <<b>>), f)
      BY <1>1, <2>1, Zenon DEF layer, Join
    <2> QED BY <1>3, <2>3, <2>4 DEF Layer
  <1> QED BY <1>2, <1>3

\* The first k layers are safe in front of whatever is safe after them.
LayersUpTo(m, st, C, k) ==
  \A r : IsSeq(r)
    /\ (\A c : \A b \in {{}, Level(m)} : Between(m, st[k], c) => Safe(m, r, St(Base, c, b)))
           => \A c : \A b \in {{}, Level(m)} :
                Between(m, st[0], c) => Safe(m, Join(Times(C, k), r), St(Base, c, b))

LEMMA LayersSafe ==
  ASSUME NEW m, NEW st, NEW n \in Nat, NEW C, \A l \in 1 .. n : RunsLayer(m, l, C[l]),
         \A l \in 1 .. n : st[l] = ReferenceLayer(m, l, st[l - 1])
  PROVE  LayersUpTo(m, st, C, n) /\ IsSeq(Times(C, n))
  <1> DEFINE bad == {k \in Nat : k <= n /\ ~ LayersUpTo(m, st, C, k)}
  <1>s. \A i \in 1 .. n : IsSeq(C[i])
    BY DEF RunsLayer
  <1>q. IsSeq(Times(C, n))
    <2>1. n \in 0 .. n
      OBVIOUS
    <2> QED BY <1>s, <2>1, TimesNext
  <1>1. SUFFICES ASSUME bad # {} PROVE FALSE
    BY <1>q
  <1>2. PICK k \in bad : \A j \in bad : k <= j
    <2>1. bad \in SUBSET Nat
      OBVIOUS
    <2> HIDE DEF bad
    <2> QED BY <1>1, <2>1, LeastExists
  <1>3. LayersUpTo(m, st, C, 0)
    <2>1. \A r : IsSeq(r) => Join(Times(C, 0), r) = r
      BY <1>s, TimesNext, NilFirst DEF Join
    <2> QED BY <2>1 DEF LayersUpTo
  <1>4. k \in 1 .. n /\ LayersUpTo(m, st, C, k - 1)
    BY <1>2, <1>3
  <1>5. LayersUpTo(m, st, C, k)
    <2>1. SUFFICES ASSUME NEW r, IsSeq(r),
                          \A c : \A b \in {{}, Level(m)} :
                            Between(m, st[k], c) => Safe(m, r, St(Base, c, b)),
                          NEW c, NEW b \in {{}, Level(m)}, Between(m, st[0], c)
                   PROVE  Safe(m, Join(Times(C, k), r), St(Base, c, b))
      BY DEF LayersUpTo
    <2>2. PICK s : s = Join(C[k], r)
      OBVIOUS
    <2>3. IsSeq(C[k]) /\ IsSeq(Times(C, k - 1)) /\ Times(C, k) = Join(Times(C, k - 1), C[k])
      BY <1>s, <1>4, TimesNext
    <2>4. IsSeq(s) /\ Join(Times(C, k), r) = Join(Times(C, k - 1), s)
      BY <2>1, <2>2, <2>3, JoinTwo, JoinsTwo
    <2>5. \A e : \A f \in {{}, Level(m)} : Between(m, st[k - 1], e) => Safe(m, s, St(Base, e, f))
      <3>1. RunsLayer(m, k, C[k]) /\ st[k] = ReferenceLayer(m, k, st[k - 1])
        BY <1>4
      <3> QED BY <2>1, <2>2, <3>1 DEF RunsLayer
    <2>6. Safe(m, Join(Times(C, k - 1), s), St(Base, c, b))
      BY <1>4, <2>1, <2>4, <2>5 DEF LayersUpTo
    <2> QED BY <2>4, <2>6
  <1> QED BY <1>2, <1>5

-----------------------------------------------------------------------------
(***************************************************************************)
(* The end of a pass.                                                      *)
(***************************************************************************)
LEMMA JoinNil ==
  ASSUME NEW p, IsSeq(p)
  PROVE  Join(p, <<>>) = p
  <1>1. PICK S : p \in Seq(S)
    BY DEF IsSeq
  <1>2. p \o <<>> = p
    BY <1>1
  <1> QED BY <1>2, Zenon DEF Join

LEMMA FourThree ==
  ASSUME NEW a, NEW b, NEW c, NEW d, NEW e, NEW f, NEW g
  PROVE  <<a, b, c, d, e, f, g>> = Join(Four(a, b, c, d), Three(e, f, g))
  BY DEF Join, Four, Three

LEMMA SevenCalls ==
  ASSUME NEW a, NEW b, NEW c, NEW d, NEW e, NEW f, NEW g,
         NEW p, p = <<a, b, c, d, e, f, g>>
  PROVE  /\ p = Cons(a, Cons(b, Cons(c, Cons(d, Cons(e, Cons(f, Cons(g, <<>>)))))))
         /\ IsSeq(p)
  <1>1. PICK q, r : q = Three(e, f, g) /\ r = Four(a, b, c, d)
    OBVIOUS
  <1>2. IsSeq(q) /\ IsSeq(r) /\ IsSeq(<<>>)
    BY <1>1, LiteralIsSeq DEF Three, Four
  <1>3. p = Join(r, q)
    BY <1>1, FourThree
  <1>4. Join(r, q) = Cons(a, Cons(b, Cons(c, Cons(d, q))))
    BY <1>1, <1>2, Unrolled
  <1>5. q = Cons(e, Cons(f, Cons(g, <<>>)))
    <2>1. q = Join(q, <<>>)
      BY <1>2, JoinNil
    <2>2. Join(Three(e, f, g), <<>>) = Cons(e, Cons(f, Cons(g, <<>>)))
      BY <1>2, Unrolled
    <2> QED BY <1>1, <2>1, <2>2
  <1>6. IsSeq(Join(r, q))
    BY <1>2, JoinTwo
  <1> QED BY <1>3, <1>4, <1>5, <1>6

\* What a buffer does not hold, a call that allocates it does not change.
LEMMA FillSafe ==
  ASSUME NEW m, NEW al, NEW w, IsMem(w), NEW bs, NEW set, set \subseteq Regions, set \cap al = {},
         NEW q, IsSeq(q),
         \A c : Same(c, w, set) => Safe(m, q, St(al \cup set, c, bs))
  PROVE  Safe(m, Cons(allocate(set), q), St(al, w, bs))
  <1>1. PICK x : x = Filled(m, w, set)
    OBVIOUS
  <1>2. Same(x, w, set)
    BY <1>1 DEF IsMem, Filled, Same
  <1>3. Safe(m, q, St(al \cup set, Filled(m, w, set), bs))
    BY <1>1, <1>2
  <1>4. Safe(m, <<allocate(set)>> \o q, St(al, w, bs))
    BY <1>3, AllocCall
  <1> QED BY <1>4, Zenon DEF Cons

LEMMA GatherSafe ==
  ASSUME NEW m, NEW al, Holds(al), "selected" \in al, NEW w, IsMem(w), NEW bs \in {{}, Level(m)},
         NEW q, IsSeq(q),
         \A c : Same(c, w, {"selected"}) /\ c["selected"] = <<"rows", w["norm"], w["last"]>>
                => Safe(m, q, St(al, c, Level(m)))
  PROVE  Safe(m, Cons(gather_rows, q), St(al, w, bs))
  <1>1. PICK z : z = With(w, "selected", <<"rows", w["norm"], w["last"]>>)
    OBVIOUS
  <1>2. Does(gather_rows, {"norm", "last"}, {"selected"}, TRUE) /\ z = Computed(gather_rows, w)
    BY <1>1, GatherDoes
  <1>3. Same(z, w, {"selected"}) /\ z["selected"] = <<"rows", w["norm"], w["last"]>>
    <2>1. IsMem(z)
      BY <1>1, WithIs
    <2> QED BY <1>1, <2>1, RegionNames DEF With, Same
  <1>4. Safe(m, q, St(al, z, Level(m)))
    BY <1>3
  <1>5. /\ {"norm", "last"} \cup {"selected"} \subseteq al
        /\ {"norm", "last"} \cup {"selected"} \subseteq Plain
        /\ al \subseteq Regions /\ {"selected"} # {}
    BY BaseNames DEF Holds
  <1>6. Safe(m, <<gather_rows>> \o q, St(al, w, bs))
    BY <1>2, <1>4, <1>5, PlainDispatch
  <1> QED BY <1>6, Zenon DEF Cons

LEMMA HeadSafe ==
  ASSUME NEW m, NEW al, Holds(al), {"selected", "logits"} \subseteq al, NEW w, IsMem(w),
         NEW bs \in {{}, Level(m)}, NEW q, IsSeq(q),
         \A c : Same(c, w, {"logits"}) /\ c["logits"] = Product(Weight("lm_head", 0), w["selected"])
                => Safe(m, q, St(al, c, Level(m)))
  PROVE  Safe(m, Cons(matmul(Weight("lm_head", 0), "selected", "logits"), q), St(al, w, bs))
  <1>1. PICK d, z : /\ d = matmul(Weight("lm_head", 0), "selected", "logits")
                    /\ z = With(w, "logits", Product(Weight("lm_head", 0), w["selected"]))
    OBVIOUS
  <1>2. Does(d, {"selected"}, {"logits"}, TRUE) /\ z = Computed(d, w)
    <2>1. "selected" \in Regions /\ "logits" \in Regions
      BY RegionNames
    <2>2. IsMatmul(d, Weight("lm_head", 0), "selected", "logits", TRUE)
      BY <1>1, <2>1, AMatmul
    <2> QED BY <1>1, <2>2 DEF IsMatmul
  <1>3. Same(z, w, {"logits"}) /\ z["logits"] = Product(Weight("lm_head", 0), w["selected"])
    <2>1. IsMem(z)
      BY <1>1, WithIs
    <2> QED BY <1>1, <2>1, RegionNames DEF With, Same
  <1>4. Safe(m, q, St(al, z, Level(m)))
    BY <1>3
  <1>5. /\ {"selected"} \cup {"logits"} \subseteq al /\ {"selected"} \cup {"logits"} \subseteq Plain
        /\ al \subseteq Regions /\ {"logits"} # {}
    BY BaseNames DEF Holds
  <1>6. Safe(m, <<d>> \o q, St(al, w, bs))
    BY <1>2, <1>4, <1>5, PlainDispatch
  <1> QED BY <1>1, <1>6, Zenon DEF Cons

\* The logits are read back and the buffers of the pass are freed.
PassEnd == release(InputBuffers \cup PassBuffers \cup TailBuffers)
Whole == Base \cup TailBuffers

LEMMA WholeNames ==
  /\ Holds(Whole) /\ {"selected", "logits"} \subseteq Whole
  /\ TailBuffers \subseteq Regions /\ TailBuffers \cap Base = {}
  /\ Whole = (Base \cup {"selected"}) \cup {"logits"}
  /\ Holds(Base \cup {"selected"}) /\ {"selected"} \cap Base = {}
  /\ {"logits"} \cap (Base \cup {"selected"}) = {} /\ {"selected"} \subseteq Regions
  /\ {"logits"} \subseteq Regions
  /\ Whole \ (InputBuffers \cup PassBuffers \cup TailBuffers) = ModelBuffers
  <1>1. TailBuffers = {"selected", "logits"}
    BY DEF TailBuffers
  <1>2. Base = {"hidden", "residual", "norm", "attn", "gate", "mlp", "q", "k", "v", "ids", "pos",
                "slots", "tables", "last", "cache", "slot_gu", "slot_dn", "slot_of"}
        /\ Base \subseteq Regions /\ {"selected", "logits"} \subseteq Regions
    BY BaseNames, RegionNames
  <1>3. Whole \ (InputBuffers \cup PassBuffers \cup TailBuffers) = ModelBuffers
    <2>1. \A x \in ModelBuffers : x \notin InputBuffers /\ x \notin PassBuffers
            /\ x \notin TailBuffers
      BY DEF ModelBuffers, InputBuffers, PassBuffers, TailBuffers, Slices, Q, K, V
    <2> QED BY <2>1 DEF Whole, Base
  <1> QED BY <1>1, <1>2, <1>3 DEF Holds, Whole

LEMMA PassEnds ==
  ASSUME NEW m, NEW c, IsMem(c), CacheOK(m, c), c["logits"] = Reference(m)
  PROVE  Safe(m, Cons(download("logits"), Cons(PassEnd, <<>>)), St(Whole, c, {}))
  <1>1. PICK S : S = InputBuffers \cup PassBuffers \cup TailBuffers
    OBVIOUS
  <1>2. St(Whole \ S, c, {}).want = c /\ Whole \ S = ModelBuffers
    BY <1>1, WholeNames DEF St, HostState
  <1>3. Safe(m, <<>>, St(Whole \ S, c, {}))
    BY <1>2, SafeEnd DEF Final, CacheOK
  <1>4. IsSeq(<<>>) /\ IsSeq(Cons(PassEnd, <<>>))
    BY LiteralIsSeq, Unrolled
  <1>5. Safe(m, <<release(S)>> \o <<>>, St(Whole, c, {}))
    BY <1>3, <1>4, FreeCall
  <1>6. Safe(m, Cons(PassEnd, <<>>), St(Whole, c, {}))
    BY <1>1, <1>5, Zenon DEF Cons, PassEnd
  <1>7. "logits" \in Regions
    BY RegionNames
  <1>8. Safe(m, <<download("logits")>> \o Cons(PassEnd, <<>>), St(Whole, c, {}))
    BY <1>4, <1>6, <1>7, DownloadCall
  <1> QED BY <1>8, Zenon DEF Cons

HipTail ==
  <<rms_norm_add(Weight("final_norm", 0)), allocate({"selected"}), gather_rows,
    allocate({"logits"}), matmul(Weight("lm_head", 0), "selected", "logits"),
    download("logits"), PassEnd>>

PassTail(m) == IF Hip(m) THEN HipTail ELSE tail

\* From what the reference holds after the last layer.
LEMMA TailSafe ==
  ASSUME NEW m, NEW s, Reference(m) = Logits(s), NEW w, Between(m, s, w),
         NEW bs \in {{}, Level(m)}
  PROVE  Safe(m, PassTail(m), St(Base, w, bs)) /\ IsSeq(PassTail(m))
  <1>1. PICK n, sum, last : /\ sum = Sum(s.residual, s.hidden)
                            /\ n = Normed(Weight("final_norm", 0), sum)
                            /\ last = <<"rows", n, Input("last")>>
    OBVIOUS
  <1>2. Reference(m) = Product(Weight("lm_head", 0), last)
    BY <1>1 DEF Logits
  <1>3. IsMem(w) /\ CacheOK(m, w) /\ w["last"] = Input("last")
        /\ Sum(w["residual"], w["hidden"]) = sum
    BY <1>1 DEF Between, InputBuffers
  <1>4. PICK e : e = Cons(download("logits"), Cons(PassEnd, <<>>))
    OBVIOUS
  <1>5. IsSeq(e)
    <2>1. IsSeq(Cons(PassEnd, <<>>))
      BY LiteralIsSeq, Unrolled
    <2> QED BY <1>4, <2>1, Unrolled
  \* The memory when the rows have been gathered, wherever they are.
  <1>6. ASSUME NEW c, Same(c, w, {"residual", "norm", "selected", "logits"}),
               c["norm"] = n, NEW d, Same(d, c, {"selected"}),
               d["selected"] = <<"rows", c["norm"], c["last"]>>
        PROVE  Same(d, w, {"residual", "norm", "selected", "logits"}) /\ d["selected"] = last
    <2>1. c["last"] = w["last"]
      BY <1>6, RegionNames DEF Same
    <2> QED BY <1>1, <1>3, <1>6, <2>1 DEF Same
  <1>7. ASSUME NEW c, Same(c, w, {"residual", "norm", "selected", "logits"}), c["selected"] = last,
               NEW d, Same(d, c, {"logits"}),
               d["logits"] = Product(Weight("lm_head", 0), c["selected"])
        PROVE  Safe(m, e, St(Whole, d, {}))
    <2>1. Same(d, w, {"residual", "norm", "selected", "logits"}) /\ d["logits"] = Reference(m)
      BY <1>2, <1>7 DEF Same
    <2>2. IsMem(d) /\ d["cache"] = w["cache"]
      BY <2>1, RegionNames DEF Same
    <2>3. CacheOK(m, d)
      BY <1>3, <2>2 DEF CacheOK
    <2> QED BY <1>4, <2>1, <2>2, <2>3, PassEnds
  <1>8. PICK mm : mm = Cons(matmul(Weight("lm_head", 0), "selected", "logits"), e)
    OBVIOUS
  <1>9. IsSeq(mm)
    BY <1>5, <1>8, Unrolled
  <1>10. ASSUME NEW c, Same(c, w, {"residual", "norm"}), c["norm"] = n
         PROVE  Same(c, w, {"residual", "norm", "selected", "logits"}) /\ IsMem(c)
    BY <1>10 DEF Same
  <1>11. CASE Hip(m)
    <2>1. Level(m) = {}
      BY <1>11 DEF Level
    <2>2. PICK t4, t3, t2, t1 :
            /\ t4 = Cons(allocate({"logits"}), mm) /\ t3 = Cons(gather_rows, t4)
            /\ t2 = Cons(allocate({"selected"}), t3)
            /\ t1 = Cons(rms_norm_add(Weight("final_norm", 0)), t2)
      OBVIOUS
    <2>3. IsSeq(t4) /\ IsSeq(t3) /\ IsSeq(t2)
      <3>1. IsSeq(t4)
        BY <1>9, <2>2, Unrolled
      <3>2. IsSeq(t3)
        BY <2>2, <3>1, Unrolled
      <3> QED BY <2>2, <3>1, <3>2, Unrolled
    <2>4. HipTail = t1 /\ IsSeq(HipTail)
      BY <1>4, <1>8, <2>2, SevenCalls DEF HipTail
    <2>5. ASSUME NEW c, Same(c, w, {"residual", "norm", "selected", "logits"}), c["selected"] = last
          PROVE  Safe(m, mm, St(Whole, c, {}))
      <3>1. \A d : Same(d, c, {"logits"})
              /\ d["logits"] = Product(Weight("lm_head", 0), c["selected"])
                   => Safe(m, e, St(Whole, d, Level(m)))
        BY <1>7, <2>1, <2>5
      <3>2. IsMem(c) /\ {} \in {{}, Level(m)}
        BY <2>5 DEF Same
      <3> QED BY <1>5, <1>8, <3>1, <3>2, WholeNames, HeadSafe
    <2>6. ASSUME NEW c, Same(c, w, {"residual", "norm", "selected", "logits"}), c["selected"] = last
          PROVE  Safe(m, t4, St(Base \cup {"selected"}, c, {}))
      <3>1. ASSUME NEW d, Same(d, c, {"logits"})
            PROVE  Safe(m, mm, St((Base \cup {"selected"}) \cup {"logits"}, d, {}))
        <4>1. Same(d, w, {"residual", "norm", "selected", "logits"}) /\ d["selected"] = last
          BY <2>6, <3>1, RegionNames DEF Same
        <4>2. Safe(m, mm, St(Whole, d, {}))
          BY <2>5, <4>1
        <4> QED BY <4>2, WholeNames
      <3>2. IsMem(c) /\ {"logits"} \subseteq Regions
              /\ {"logits"} \cap (Base \cup {"selected"}) = {}
        BY <2>6, WholeNames DEF Same
      <3>3. Safe(m, Cons(allocate({"logits"}), mm), St(Base \cup {"selected"}, c, {}))
        BY <1>9, <3>1, <3>2, FillSafe
      <3> QED BY <2>2, <3>3
    <2>7. ASSUME NEW c, Same(c, w, {"residual", "norm", "selected", "logits"}), c["norm"] = n
          PROVE  Safe(m, t3, St(Base \cup {"selected"}, c, {}))
      <3>1. \A d : Same(d, c, {"selected"}) /\ d["selected"] = <<"rows", c["norm"], c["last"]>>
                   => Safe(m, t4, St(Base \cup {"selected"}, d, Level(m)))
        BY <1>6, <2>1, <2>6, <2>7
      <3>2. IsMem(c) /\ {} \in {{}, Level(m)} /\ "selected" \in Base \cup {"selected"}
        BY <2>7 DEF Same
      <3>3. Safe(m, Cons(gather_rows, t4), St(Base \cup {"selected"}, c, {}))
        BY <2>3, <3>1, <3>2, WholeNames, GatherSafe
      <3> QED BY <2>2, <3>3
    <2>8. ASSUME NEW c, Same(c, w, {"residual", "norm"}), c["norm"] = n
          PROVE  Safe(m, t2, St(Base, c, Level(m)))
      <3>1. ASSUME NEW d, Same(d, c, {"selected"})
            PROVE  Safe(m, t3, St(Base \cup {"selected"}, d, {}))
        <4>1. Same(d, w, {"residual", "norm", "selected", "logits"}) /\ d["norm"] = n
          BY <2>8, <3>1, RegionNames DEF Same
        <4> QED BY <2>7, <4>1
      <3>2. IsMem(c) /\ {"selected"} \subseteq Regions /\ {"selected"} \cap Base = {}
        BY <2>8, WholeNames DEF Same
      <3>3. Safe(m, Cons(allocate({"selected"}), t3), St(Base, c, {}))
        BY <2>3, <3>1, <3>2, FillSafe
      <3> QED BY <2>1, <2>2, <3>3
    <2>9. \A c : /\ Same(c, w, {"residual", "norm"})
                 /\ c["residual"] = Sum(w["residual"], w["hidden"])
                 /\ c["norm"] = Normed(Weight("final_norm", 0), Sum(w["residual"], w["hidden"]))
                 => Safe(m, t2, St(Base, c, Level(m)))
      BY <1>1, <1>3, <2>8
    <2>10. Safe(m, <<rms_norm_add(Weight("final_norm", 0))>> \o t2, St(Base, w, bs))
      BY <1>3, <2>3, <2>9, BaseHolds, AddNormSafe
    <2>11. Safe(m, t1, St(Base, w, bs))
      BY <2>2, <2>10, Zenon DEF Cons
    <2> QED BY <1>11, <2>4, <2>11 DEF PassTail
  <1>12. CASE ~ Hip(m)
    <2>2. PICK t5, t4, t3, t2, t1 :
            /\ t5 = Cons(submit_wait, e)
            /\ t4 = Cons(matmul(Weight("lm_head", 0), "selected", "logits"), t5)
            /\ t3 = Cons(gather_rows, t4) /\ t2 = Cons(allocate(TailBuffers), t3)
            /\ t1 = Cons(rms_norm_add(Weight("final_norm", 0)), t2)
      OBVIOUS
    <2>3. IsSeq(t5) /\ IsSeq(t4) /\ IsSeq(t3) /\ IsSeq(t2)
      <3>1. IsSeq(t5)
        BY <1>5, <2>2, Unrolled
      <3>2. IsSeq(t4)
        BY <2>2, <3>1, Unrolled
      <3>3. IsSeq(t3)
        BY <2>2, <3>2, Unrolled
      <3> QED BY <2>2, <3>1, <3>2, <3>3, Unrolled
    <2>4. tail = t1 /\ IsSeq(tail)
      <3>1. PICK a, b, c, d, f, g :
              /\ a = rms_norm_add(Weight("final_norm", 0)) /\ b = allocate(TailBuffers)
              /\ c = gather_rows /\ d = matmul(Weight("lm_head", 0), "selected", "logits")
              /\ f = submit_wait /\ g = download("logits")
        OBVIOUS
      <3>2. tail = <<a, b, c, d, f, g, PassEnd>>
        BY <3>1, Zenon DEF tail, PassEnd
      <3>3. /\ tail = Cons(a, Cons(b, Cons(c, Cons(d, Cons(f, Cons(g, Cons(PassEnd, <<>>)))))))
            /\ IsSeq(tail)
        BY <3>2, SevenCalls
      <3> QED BY <1>4, <2>2, <3>1, <3>3
    <2>5. ASSUME NEW c, Same(c, w, {"residual", "norm", "selected", "logits"}), c["selected"] = last
          PROVE  Safe(m, t4, St(Whole, c, Level(m)))
      <3>1. ASSUME NEW d, Same(d, c, {"logits"}),
                   d["logits"] = Product(Weight("lm_head", 0), c["selected"])
            PROVE  Safe(m, t5, St(Whole, d, Level(m)))
        <4>1. Safe(m, e, St(Whole, d, {}))
          BY <1>7, <2>5, <3>1
        <4>2. Safe(m, <<submit_wait>> \o e, St(Whole, d, Level(m)))
          BY <1>5, <4>1, SubmitCall
        <4> QED BY <2>2, <4>2, Zenon DEF Cons
      <3>2. IsMem(c) /\ Holds(Whole) /\ {"selected", "logits"} \subseteq Whole
            /\ Level(m) \in {{}, Level(m)}
        BY <2>5, WholeNames DEF Same
      <3>3. Safe(m, Cons(matmul(Weight("lm_head", 0), "selected", "logits"), t5),
                 St(Whole, c, Level(m)))
        BY <2>3, <3>1, <3>2, HeadSafe
      <3> QED BY <2>2, <3>3
    <2>7. ASSUME NEW c, Same(c, w, {"residual", "norm", "selected", "logits"}), c["norm"] = n
          PROVE  Safe(m, t3, St(Whole, c, Level(m)))
      <3>1. \A d : Same(d, c, {"selected"}) /\ d["selected"] = <<"rows", c["norm"], c["last"]>>
                   => Safe(m, t4, St(Whole, d, Level(m)))
        BY <1>6, <2>5, <2>7
      <3>2. IsMem(c) /\ "selected" \in Whole
        BY <2>7, WholeNames DEF Same
      <3>3. Safe(m, Cons(gather_rows, t4), St(Whole, c, Level(m)))
        BY <2>3, <3>1, <3>2, WholeNames, GatherSafe
      <3> QED BY <2>2, <3>3
    <2>8. ASSUME NEW c, Same(c, w, {"residual", "norm"}), c["norm"] = n
          PROVE  Safe(m, t2, St(Base, c, Level(m)))
      <3>1. ASSUME NEW d, Same(d, c, TailBuffers)
            PROVE  Safe(m, t3, St(Base \cup TailBuffers, d, Level(m)))
        <4>1. Same(d, w, {"residual", "norm", "selected", "logits"}) /\ d["norm"] = n
          BY <2>8, <3>1, RegionNames DEF Same, TailBuffers
        <4> QED BY <2>7, <4>1 DEF Whole
      <3>2. IsMem(c) /\ TailBuffers \subseteq Regions /\ TailBuffers \cap Base = {}
        BY <2>8, WholeNames DEF Same
      <3>3. Safe(m, Cons(allocate(TailBuffers), t3), St(Base, c, Level(m)))
        BY <2>3, <3>1, <3>2, FillSafe
      <3> QED BY <2>2, <3>3
    <2>9. \A c : /\ Same(c, w, {"residual", "norm"})
                 /\ c["residual"] = Sum(w["residual"], w["hidden"])
                 /\ c["norm"] = Normed(Weight("final_norm", 0), Sum(w["residual"], w["hidden"]))
                 => Safe(m, t2, St(Base, c, Level(m)))
      BY <1>1, <1>3, <2>8
    <2>10. Safe(m, <<rms_norm_add(Weight("final_norm", 0))>> \o t2, St(Base, w, bs))
      BY <1>3, <2>3, <2>9, BaseHolds, AddNormSafe
    <2>11. Safe(m, t1, St(Base, w, bs))
      BY <2>2, <2>10, Zenon DEF Cons
    <2> QED BY <1>12, <2>4, <2>11 DEF PassTail
  <1> QED BY <1>11, <1>12

-----------------------------------------------------------------------------
(***************************************************************************)
(* The start of a pass, and the whole of it.                               *)
(***************************************************************************)
LEMMA MakeSafe ==
  ASSUME NEW m, NEW r \in Regions, NEW al, r \notin al, NEW w, IsMem(w), NEW q, IsSeq(q),
         \A c : Same(c, w, {r}) /\ c[r] = Input(r) => Safe(m, q, St(al \cup {r}, c, {}))
  PROVE  /\ Safe(m, Join(make(r), q), St(al, w, {}))
         /\ Safe(m, Join(hip_input(r), q), St(al, w, {}))
         /\ IsSeq(make(r)) /\ IsSeq(hip_input(r))
  <1>1. PICK s, t, u : /\ s = Cons(submit_wait, q) /\ t = Cons(upload(r, Input(r)), s)
                       /\ u = Cons(upload(r, Input(r)), q)
    OBVIOUS
  <1>2. IsSeq(s) /\ IsSeq(t) /\ IsSeq(u)
    <2>1. IsSeq(s)
      BY <1>1, Unrolled
    <2> QED BY <1>1, <2>1, Unrolled
  <1>3. ASSUME NEW c, Same(c, w, {r})
        PROVE  Safe(m, t, St(al \cup {r}, c, {})) /\ Safe(m, u, St(al \cup {r}, c, {}))
    <2>1. PICK z : z = With(c, r, Input(r))
      OBVIOUS
    <2>2. Same(z, w, {r}) /\ z[r] = Input(r)
      <3>1. IsMem(z)
        BY <2>1, WithIs
      <3> QED BY <1>3, <2>1, <3>1 DEF With, Same
    <2>3. Safe(m, q, St(al \cup {r}, z, {}))
      BY <2>2
    <2>4. Safe(m, <<submit_wait>> \o q, St(al \cup {r}, z, {}))
      BY <2>3, SubmitCall
    <2>5. Safe(m, s, St(al \cup {r}, z, {}))
      BY <1>1, <2>4, Zenon DEF Cons
    <2>6. r \in Regions \ {}
      OBVIOUS
    <2>7. Safe(m, <<upload(r, Input(r))>> \o s, HostState(al \cup {r}, c, {}, {}, {}, FALSE))
      BY <1>2, <2>1, <2>5, <2>6, UploadCall
    <2>8. Safe(m, <<upload(r, Input(r))>> \o q, HostState(al \cup {r}, c, {}, {}, {}, FALSE))
      BY <2>1, <2>3, <2>6, UploadCall
    <2> QED BY <1>1, <2>7, <2>8, Zenon DEF Cons, St
  <1>4. {r} \subseteq Regions /\ {r} \cap al = {}
    OBVIOUS
  <1>5. /\ Safe(m, Cons(allocate({r}), t), St(al, w, {}))
        /\ Safe(m, Cons(allocate({r}), u), St(al, w, {}))
    BY <1>2, <1>3, <1>4, FillSafe
  <1>6. make(r) = Three(allocate({r}), upload(r, Input(r)), submit_wait)
        /\ hip_input(r) = Two(allocate({r}), upload(r, Input(r)))
    BY Zenon DEF make, hip_input, Three, Two
  <1>7. /\ Join(make(r), q) = Cons(allocate({r}), t)
        /\ Join(hip_input(r), q) = Cons(allocate({r}), u)
    BY <1>1, <1>6, Unrolled
  <1>8. IsSeq(make(r)) /\ IsSeq(hip_input(r))
    BY LiteralIsSeq DEF make, hip_input
  <1> QED BY <1>5, <1>7, <1>8

LEMMA TimesFive ==
  ASSUME NEW a, NEW b, NEW c, NEW d, NEW e, IsSeq(a), IsSeq(b), IsSeq(c), IsSeq(d), IsSeq(e),
         NEW p, p = <<a, b, c, d, e>>, NEW q, IsSeq(q)
  PROVE  Join(FlattenSeq(p), q) = Join(a, Join(b, Join(c, Join(d, Join(e, q)))))
         /\ IsSeq(FlattenSeq(p))
  <1>1. p[1] = a /\ p[2] = b /\ p[3] = c /\ p[4] = d /\ p[5] = e
        /\ p = [i \in 1 .. 5 |-> p[i]]
    OBVIOUS
  <1>2. \A i \in 1 .. 5 : IsSeq(p[i])
    BY <1>1
  <1>3. PICK n : n = 5
    OBVIOUS
  <1>4. n \in Nat /\ n \in 0 .. n /\ \A i \in 1 .. n : IsSeq(p[i])
    BY <1>2, <1>3
  <1>5. /\ Times(p, 0) = <<>> /\ IsSeq(Times(p, n))
        /\ \A k \in 1 .. n : Times(p, k) = Join(Times(p, k - 1), p[k])
    BY <1>4, TimesNext
  <1>6. /\ Times(p, 1) = Join(<<>>, a) /\ Times(p, 2) = Join(Times(p, 1), b)
        /\ Times(p, 3) = Join(Times(p, 2), c) /\ Times(p, 4) = Join(Times(p, 3), d)
        /\ Times(p, 5) = Join(Times(p, 4), e)
    <2>1. 1 \in 1 .. n /\ 2 \in 1 .. n /\ 3 \in 1 .. n /\ 4 \in 1 .. n /\ 5 \in 1 .. n
      BY <1>3
    <2>2. Times(p, 1) = Join(Times(p, 0), p[1])
      <3>1. 1 - 1 = 0
        OBVIOUS
      <3>2. Times(p, 1) = Join(Times(p, 1 - 1), p[1])
        BY <1>5, <2>1, Zenon
      <3> QED BY <3>1, <3>2, Zenon
    <2>3. \A k \in 1 .. 4 : Times(p, k + 1) = Join(Times(p, k), p[k + 1])
      <3>1. ASSUME NEW k \in 1 .. 4 PROVE Times(p, k + 1) = Join(Times(p, k), p[k + 1])
        <4>1. PICK j : j = k + 1 /\ j \in 1 .. n /\ j - 1 = k
          BY <1>3
        <4> QED BY <1>5, <4>1
      <3> QED BY <3>1
    <2>4. /\ Times(p, 2) = Join(Times(p, 1), p[2]) /\ Times(p, 3) = Join(Times(p, 2), p[3])
          /\ Times(p, 4) = Join(Times(p, 3), p[4]) /\ Times(p, 5) = Join(Times(p, 4), p[5])
      <3>1. 1 + 1 = 2 /\ 2 + 1 = 3 /\ 3 + 1 = 4 /\ 4 + 1 = 5
            /\ 1 \in 1 .. 4 /\ 2 \in 1 .. 4 /\ 3 \in 1 .. 4 /\ 4 \in 1 .. 4
        OBVIOUS
      <3> QED BY <2>3, <3>1
    <2> QED BY <1>1, <1>5, <2>2, <2>4, Zenon
  <1>7. Join(<<>>, a) = a
    BY NilFirst, Zenon DEF Join
  <1>8. FlattenSeq(p) = Times(p, 5)
    BY <1>1, Zenon DEF Times
  <1>9. FlattenSeq(p) = Join(Join(Join(Join(a, b), c), d), e)
    BY <1>6, <1>7, <1>8
  <1>10. Join(Join(Join(Join(Join(a, b), c), d), e), q)
           = Join(a, Join(b, Join(c, Join(d, Join(e, q)))))
    BY JoinsFive
  <1> QED BY <1>3, <1>5, <1>8, <1>9, <1>10

\* The five inputs.
Give(m, r) == IF Hip(m) THEN hip_input(r) ELSE make(r)

Inputs(m) ==
  IF Hip(m)
  THEN FlattenSeq(<<hip_input("ids"), hip_input("pos"), hip_input("slots"), hip_input("tables"),
                    hip_input("last")>>)
  ELSE FlattenSeq(<<make("ids"), make("pos"), make("slots"), make("tables"), make("last")>>)

\* S is what has been given so far.
Given(w, S, c) == Same(c, w, S) /\ \A r \in S : c[r] = Input(r)

LEMMA GiveSafe ==
  ASSUME NEW m, NEW w, NEW S, S \subseteq Regions, S \cap ModelBuffers = {},
         NEW r \in Regions, r \notin S, r \notin ModelBuffers, NEW q, IsSeq(q),
         \A c : Given(w, S \cup {r}, c) => Safe(m, q, St(ModelBuffers \cup (S \cup {r}), c, {}))
  PROVE  /\ \A c : Given(w, S, c) => Safe(m, Join(Give(m, r), q), St(ModelBuffers \cup S, c, {}))
         /\ IsSeq(Give(m, r))
  <1>1. ASSUME NEW c, Given(w, S, c)
        PROVE  Safe(m, Join(Give(m, r), q), St(ModelBuffers \cup S, c, {}))
    <2>1. IsMem(c) /\ r \notin ModelBuffers \cup S
      BY <1>1 DEF Given, Same
    <2>2. ASSUME NEW e, Same(e, c, {r}), e[r] = Input(r)
          PROVE  Safe(m, q, St((ModelBuffers \cup S) \cup {r}, e, {}))
      <3>1. Given(w, S \cup {r}, e)
        BY <1>1, <2>2 DEF Given, Same
      <3>2. ModelBuffers \cup (S \cup {r}) = (ModelBuffers \cup S) \cup {r}
        OBVIOUS
      <3> QED BY <3>1, <3>2
    <2> QED BY <2>1, <2>2, MakeSafe DEF Give
  <1>2. IsSeq(Give(m, r))
    BY LiteralIsSeq DEF Give, make, hip_input
  <1> QED BY <1>1, <1>2

LEMMA InputsSafe ==
  ASSUME NEW m, NEW w, IsMem(w), NEW q, IsSeq(q),
         \A c : Given(w, InputBuffers, c) => Safe(m, q, St(ModelBuffers \cup InputBuffers, c, {}))
  PROVE  Safe(m, Join(Inputs(m), q), St(ModelBuffers, w, {})) /\ IsSeq(Inputs(m))
  <1>1. PICK a, b, c, d, e : /\ a = Give(m, "ids") /\ b = Give(m, "pos") /\ c = Give(m, "slots")
                             /\ d = Give(m, "tables") /\ e = Give(m, "last")
    OBVIOUS
  <1>2. IsSeq(a) /\ IsSeq(b) /\ IsSeq(c) /\ IsSeq(d) /\ IsSeq(e)
    BY <1>1, LiteralIsSeq DEF Give, make, hip_input
  <1>3. Inputs(m) = FlattenSeq(<<a, b, c, d, e>>)
    <2>1. CASE Hip(m)
      BY <1>1, <2>1, Zenon DEF Inputs, Give
    <2>2. CASE ~ Hip(m)
      BY <1>1, <2>2, Zenon DEF Inputs, Give
    <2> QED BY <2>1, <2>2
  <1>4. PICK q5, q4, q3, q2, q1 : /\ q5 = Join(e, q) /\ q4 = Join(d, q5) /\ q3 = Join(c, q4)
                                  /\ q2 = Join(b, q3) /\ q1 = Join(a, q2)
    OBVIOUS
  <1>5. IsSeq(q5) /\ IsSeq(q4) /\ IsSeq(q3) /\ IsSeq(q2)
    <2>1. IsSeq(q5)
      BY <1>2, <1>4, JoinTwo
    <2>2. IsSeq(q4)
      BY <1>2, <1>4, <2>1, JoinTwo
    <2>3. IsSeq(q3)
      BY <1>2, <1>4, <2>2, JoinTwo
    <2> QED BY <1>2, <1>4, <2>1, <2>2, <2>3, JoinTwo
  <1>6. Join(Inputs(m), q) = q1 /\ IsSeq(Inputs(m))
    <2>1. PICK p : p = <<a, b, c, d, e>>
      OBVIOUS
    <2>2. /\ Join(FlattenSeq(p), q) = Join(a, Join(b, Join(c, Join(d, Join(e, q)))))
          /\ IsSeq(FlattenSeq(p))
      BY <1>2, <2>1, TimesFive
    <2> QED BY <1>3, <1>4, <2>1, <2>2
  <1>7. PICK S0, S1, S2, S3, S4 :
          /\ S0 = {} /\ S1 = {"ids"} /\ S2 = {"ids", "pos"} /\ S3 = {"ids", "pos", "slots"}
          /\ S4 = {"ids", "pos", "slots", "tables"}
    OBVIOUS
  <1>8. /\ S1 = S0 \cup {"ids"} /\ S2 = S1 \cup {"pos"} /\ S3 = S2 \cup {"slots"}
        /\ S4 = S3 \cup {"tables"} /\ InputBuffers = S4 \cup {"last"}
        /\ "ids" \notin S0 /\ "pos" \notin S1 /\ "slots" \notin S2 /\ "tables" \notin S3
        /\ "last" \notin S4
    BY <1>7 DEF InputBuffers
  <1>9. /\ {"ids", "pos", "slots", "tables", "last"} \cap ModelBuffers = {}
        /\ {"ids", "pos", "slots", "tables", "last"} \subseteq Regions
    BY RegionNames DEF ModelBuffers
  <1>10. \A f : Given(w, S4, f) => Safe(m, q5, St(ModelBuffers \cup S4, f, {}))
    <2>1. S4 \subseteq Regions /\ S4 \cap ModelBuffers = {} /\ "last" \notin ModelBuffers
          /\ "last" \in Regions
      BY <1>7, <1>9
    <2> QED BY <1>1, <1>4, <1>8, <2>1, GiveSafe
  <1>11. \A f : Given(w, S3, f) => Safe(m, q4, St(ModelBuffers \cup S3, f, {}))
    <2>1. S3 \subseteq Regions /\ S3 \cap ModelBuffers = {} /\ "tables" \notin ModelBuffers
          /\ "tables" \in Regions
      BY <1>7, <1>9
    <2> QED BY <1>1, <1>4, <1>5, <1>8, <1>10, <2>1, GiveSafe
  <1>12. \A f : Given(w, S2, f) => Safe(m, q3, St(ModelBuffers \cup S2, f, {}))
    <2>1. S2 \subseteq Regions /\ S2 \cap ModelBuffers = {} /\ "slots" \notin ModelBuffers
          /\ "slots" \in Regions
      BY <1>7, <1>9
    <2> QED BY <1>1, <1>4, <1>5, <1>8, <1>11, <2>1, GiveSafe
  <1>13. \A f : Given(w, S1, f) => Safe(m, q2, St(ModelBuffers \cup S1, f, {}))
    <2>1. S1 \subseteq Regions /\ S1 \cap ModelBuffers = {} /\ "pos" \notin ModelBuffers
          /\ "pos" \in Regions
      BY <1>7, <1>9
    <2> QED BY <1>1, <1>4, <1>5, <1>8, <1>12, <2>1, GiveSafe
  <1>14. \A f : Given(w, S0, f) => Safe(m, q1, St(ModelBuffers \cup S0, f, {}))
    <2>1. S0 \subseteq Regions /\ S0 \cap ModelBuffers = {} /\ "ids" \notin ModelBuffers
          /\ "ids" \in Regions
      BY <1>7, <1>9
    <2> QED BY <1>1, <1>4, <1>5, <1>8, <1>13, <2>1, GiveSafe
  <1>15. Given(w, S0, w) /\ ModelBuffers \cup S0 = ModelBuffers
    BY <1>7 DEF Given, Same
  <1> QED BY <1>6, <1>14, <1>15

\* The embedding; on Vulkan the residual is zeroed by an upload, on HIP by its allocation.
LEMMA EmbedSafe ==
  ASSUME NEW m, NEW w, IsMem(w), NEW bs \in {{}, Level(m)}, NEW q, IsSeq(q),
         \A c : Same(c, w, {"hidden"}) /\ c["hidden"] = <<"rows", Weight("embed", 0), w["ids"]>>
                => Safe(m, q, St(Base, c, Level(m)))
  PROVE  Safe(m, Cons(embedding, q), St(Base, w, bs))
  <1>1. PICK z : z = With(w, "hidden", <<"rows", Weight("embed", 0), w["ids"]>>)
    OBVIOUS
  <1>2. Does(embedding, {"ids"}, {"hidden"}, TRUE) /\ z = Computed(embedding, w)
    BY <1>1, EmbedDoes
  <1>3. Same(z, w, {"hidden"}) /\ z["hidden"] = <<"rows", Weight("embed", 0), w["ids"]>>
    <2>1. IsMem(z)
      BY <1>1, WithIs
    <2> QED BY <1>1, <2>1, RegionNames DEF With, Same
  <1>4. Safe(m, q, St(Base, z, Level(m)))
    BY <1>3
  <1>5. /\ {"ids"} \cup {"hidden"} \subseteq Base /\ {"ids"} \cup {"hidden"} \subseteq Plain
        /\ Base \subseteq Regions /\ {"hidden"} # {}
    BY BaseNames
  <1>6. Safe(m, <<embedding>> \o q, St(Base, w, bs))
    BY <1>2, <1>4, <1>5, PlainDispatch
  <1> QED BY <1>6, Zenon DEF Cons

Opening(m) ==
  IF Hip(m) THEN <<allocate(PassBuffers), embedding>>
            ELSE <<allocate(PassBuffers), upload("residual", Zeros), embedding>>

LEMMA OpeningSafe ==
  ASSUME NEW m, NEW w, Given(w, InputBuffers, w), CacheOK(m, w), NEW q, IsSeq(q),
         \A c : Between(m, Embedded, c) => Safe(m, q, St(Base, c, Level(m)))
  PROVE  Safe(m, Join(Opening(m), q), St(ModelBuffers \cup InputBuffers, w, {}))
           /\ IsSeq(Opening(m))
  <1>1. PICK x, al : x = Filled(m, w, PassBuffers) /\ al = ModelBuffers \cup InputBuffers
    OBVIOUS
  <1>2. PassBuffers = {"hidden", "residual", "norm", "attn", "gate", "mlp", "q", "k", "v"}
    BY DEF PassBuffers, Slices, Q, K, V
  <1>3. /\ PassBuffers \subseteq Regions /\ PassBuffers \cap al = {} /\ al \cup PassBuffers = Base
    BY <1>1, <1>2, RegionNames DEF ModelBuffers, InputBuffers, Base
  <1>4. Same(x, w, PassBuffers) /\ IsMem(w) /\ IsMem(x)
    BY <1>1 DEF Given, Same, Filled, IsMem
  <1>5. \A r \in InputBuffers : w[r] = Input(r)
    BY DEF Given
  <1>6. ASSUME NEW c, Same(c, w, PassBuffers), c["residual"] = Zeros
        PROVE  Safe(m, Cons(embedding, q), St(Base, c, {}))
    <2>1. ASSUME NEW e, Same(e, c, {"hidden"}),
                 e["hidden"] = <<"rows", Weight("embed", 0), c["ids"]>>
          PROVE  Safe(m, q, St(Base, e, Level(m)))
      <3>1. \A r \in InputBuffers : e[r] = Input(r) /\ c[r] = Input(r)
        BY <1>2, <1>5, <1>6, <2>1, RegionNames DEF Same, InputBuffers
      <3>2. IsMem(e) /\ e["cache"] = w["cache"] /\ e["residual"] = Zeros
        BY <1>2, <1>6, <2>1, RegionNames DEF Same
      <3>3. c["ids"] = Input("ids")
        BY <3>1 DEF InputBuffers
      <3>4. CacheOK(m, e)
        BY <3>2 DEF CacheOK
      <3>5. Embedded.residual = Zeros
            /\ Embedded.hidden = <<"rows", Weight("embed", 0), Input("ids")>>
        BY DEF Embedded
      <3>6. Between(m, Embedded, e)
        BY <2>1, <3>1, <3>2, <3>3, <3>4, <3>5 DEF Between
      <3> QED BY <3>6
    <2>2. IsMem(c) /\ {} \in {{}, Level(m)}
      BY <1>6 DEF Same
    <2> QED BY <2>1, <2>2, EmbedSafe
  <1>7. PICK s, t : s = Cons(embedding, q) /\ t = Cons(upload("residual", Zeros), s)
    OBVIOUS
  <1>8. IsSeq(s) /\ IsSeq(t)
    <2>1. IsSeq(s)
      BY <1>7, Unrolled
    <2> QED BY <1>7, <2>1, Unrolled
  <1>9. CASE Hip(m)
    <2>1. x["residual"] = Zeros
      <3>1. x["residual"] = Blank(m, "residual")
        BY <1>1, <1>2, RegionNames DEF Filled
      <3>2. Blank(m, "residual") = Zeros
        BY <1>9 DEF Blank, Hip
      <3> QED BY <3>1, <3>2
    <2>2. Safe(m, s, St(al \cup PassBuffers, Filled(m, w, PassBuffers), {}))
      BY <1>1, <1>3, <1>4, <1>6, <1>7, <2>1
    <2>3. Safe(m, <<allocate(PassBuffers)>> \o s, St(al, w, {}))
      BY <1>3, <1>8, <2>2, AllocCall
    <2>4. Opening(m) = Two(allocate(PassBuffers), embedding)
      BY <1>9, Zenon DEF Opening, Two
    <2>5. Join(Opening(m), q) = Cons(allocate(PassBuffers), s)
      BY <1>7, <2>4, Unrolled
    <2>6. Safe(m, Cons(allocate(PassBuffers), s), St(al, w, {}))
      BY <2>3, Zenon DEF Cons
    <2>7. IsSeq(Opening(m))
      BY <2>4, LiteralIsSeq DEF Two
    <2> QED BY <1>1, <2>5, <2>6, <2>7
  <1>10. CASE ~ Hip(m)
    <2>1. PICK y : y = With(x, "residual", Zeros)
      OBVIOUS
    <2>2. Same(y, w, PassBuffers) /\ y["residual"] = Zeros
      <3>1. IsMem(y)
        BY <2>1, WithIs
      <3> QED BY <1>2, <1>4, <2>1, <3>1, RegionNames DEF Same, With
    <2>3. Safe(m, s, St(Base, y, {}))
      BY <1>6, <1>7, <2>2
    <2>4. "residual" \in Regions \ {}
      BY RegionNames
    <2>5. Safe(m, <<upload("residual", Zeros)>> \o s, HostState(Base, x, {}, {}, {}, FALSE))
      BY <1>8, <2>1, <2>3, <2>4, UploadCall
    <2>6. Safe(m, t, St(al \cup PassBuffers, Filled(m, w, PassBuffers), {}))
      BY <1>1, <1>3, <1>7, <2>5, Zenon DEF Cons, St
    <2>7. Safe(m, <<allocate(PassBuffers)>> \o t, St(al, w, {}))
      BY <1>3, <1>8, <2>6, AllocCall
    <2>8. Opening(m) = Three(allocate(PassBuffers), upload("residual", Zeros), embedding)
      BY <1>10, Zenon DEF Opening, Three
    <2>9. Join(Opening(m), q) = Cons(allocate(PassBuffers), t)
      BY <1>7, <2>8, Unrolled
    <2>10. Safe(m, Cons(allocate(PassBuffers), t), St(al, w, {}))
      BY <2>7, Zenon DEF Cons
    <2>11. IsSeq(Opening(m))
      BY <2>8, LiteralIsSeq DEF Three
    <2> QED BY <1>1, <2>9, <2>10, <2>11
  <1> QED BY <1>9, <1>10

\* Every call of forward_logits is legal, from wherever the pass before it has ended.
LEMMA PassSafe ==
  ASSUME NEW m \in ModelType, Sound(m), NEW a, Final(m, a)
  PROVE  Safe(m, forward_logits(m), a)
  <1>1. PICK st : Passes(m, st)
    BY ReferencePasses
  <1>2. PICK n, C : n = m.layers /\ n \in Nat /\ C = [l \in 1 .. n |-> Layer(m, l)]
    BY DEF ModelType
  <1>3. LayersUpTo(m, st, C, n) /\ IsSeq(Times(C, n))
    <2>1. \A l \in 1 .. n : RunsLayer(m, l, C[l])
      BY <1>2, EveryLayerRuns
    <2>2. \A l \in 1 .. n : st[l] = ReferenceLayer(m, l, st[l - 1])
      BY <1>1, <1>2 DEF Passes
    <2> QED BY <1>2, <2>1, <2>2, LayersSafe
  <1>4. PICK A, B, L, T : /\ A = Inputs(m) /\ B = Opening(m) /\ L = Times(C, n) /\ T = PassTail(m)
    OBVIOUS
  <1>5. PICK w : w = a.want
    OBVIOUS
  <1>6. a = St(ModelBuffers, w, {}) /\ IsMem(w) /\ CacheOK(m, w)
    BY <1>5 DEF Final, CacheOK
  <1>7. IsSeq(A) /\ IsSeq(B) /\ IsSeq(L) /\ IsSeq(T)
    <2>1. IsSeq(A)
      BY <1>4, LiteralIsSeq, TimesFive DEF Inputs, make, hip_input
    <2>2. IsSeq(B)
      BY <1>4, LiteralIsSeq DEF Opening
    <2>3. IsSeq(T)
      BY <1>4, LiteralIsSeq, SevenCalls DEF PassTail, HipTail, tail
    <2> QED BY <1>3, <1>4, <2>1, <2>2, <2>3
  <1>8. PICK q2, q1 : q2 = Join(L, T) /\ q1 = Join(B, q2)
    OBVIOUS
  <1>9. IsSeq(q2) /\ IsSeq(q1)
    <2>1. IsSeq(q2)
      BY <1>7, <1>8, JoinTwo
    <2> QED BY <1>7, <1>8, <2>1, JoinTwo
  <1>10. ASSUME NEW c, NEW b \in {{}, Level(m)}, Between(m, st[n], c)
         PROVE  Safe(m, T, St(Base, c, b))
    <2>1. Reference(m) = Logits(st[n])
      BY <1>1, <1>2 DEF Passes
    <2> QED BY <1>4, <1>10, <2>1, TailSafe
  <1>11. \A c : Between(m, Embedded, c) => Safe(m, q2, St(Base, c, Level(m)))
    <2>1. st[0] = Embedded
      BY <1>1 DEF Passes
    <2> QED BY <1>3, <1>4, <1>7, <1>8, <1>10, <2>1 DEF LayersUpTo
  <1>12. ASSUME NEW c, Given(w, InputBuffers, c)
         PROVE  Safe(m, q1, St(ModelBuffers \cup InputBuffers, c, {}))
    <2>1. Given(c, InputBuffers, c) /\ CacheOK(m, c)
      <3>1. "cache" \in Regions \ InputBuffers
        BY RegionNames DEF InputBuffers
      <3>2. c["cache"] = w["cache"]
        BY <1>12, <3>1 DEF Given, Same
      <3> QED BY <1>6, <1>12, <3>2 DEF Given, Same, CacheOK
    <2> QED BY <1>4, <1>8, <1>9, <1>11, <2>1, OpeningSafe
  <1>13. Safe(m, Join(A, q1), a)
    BY <1>4, <1>6, <1>9, <1>12, InputsSafe
  <1>14. Join(A, q1) = Join(Join(Join(A, B), L), T)
    <2>1. Join(Join(Join(A, B), L), T) = Join(A, Join(B, Join(L, T)))
      BY <1>7, JoinsThree
    <2> QED BY <1>8, <2>1
  <1>15. forward_logits(m) = Join(Join(Join(A, B), L), T)
    <2>1. CASE Hip(m)
      <3>1. L = FlattenSeq([l \in 1 .. m.layers |-> hip_layer(m, l)])
        <4>1. [l \in 1 .. m.layers |-> hip_layer(m, l)] = [l \in 1 .. n |-> C[l]]
          BY <1>2, <2>1 DEF Layer
        <4> QED BY <1>4, <4>1, Zenon DEF Times
      <3>2. ForEach(m.layers, LAMBDA l : hip_layer(m, l))
              = FlattenSeq([l \in 1 .. m.layers |-> hip_layer(m, l)])
        BY Zenon DEF ForEach
      <3>3. T = HipTail /\ B = <<allocate(PassBuffers), embedding>>
            /\ A = FlattenSeq(<<hip_input("ids"), hip_input("pos"), hip_input("slots"),
                                hip_input("tables"), hip_input("last")>>)
        BY <1>4, <2>1, Zenon DEF PassTail, Opening, Inputs
      <3>4. hip_forward_logits(m) = A \o B \o ForEach(m.layers, LAMBDA l : hip_layer(m, l)) \o T
        BY <3>3, Zenon DEF hip_forward_logits, HipTail, PassEnd
      <3>5. forward_logits(m) = hip_forward_logits(m)
        BY <2>1 DEF forward_logits, Hip
      <3> QED BY <3>1, <3>2, <3>4, <3>5, Zenon DEF Join
    <2>2. CASE ~ Hip(m)
      <3>1. L = FlattenSeq([l \in 1 .. m.layers |-> layer(m, l)])
        <4>1. [l \in 1 .. m.layers |-> layer(m, l)] = [l \in 1 .. n |-> C[l]]
          BY <1>2, <2>2 DEF Layer
        <4> QED BY <1>4, <4>1, Zenon DEF Times
      <3>2. ForEach(m.layers, LAMBDA l : layer(m, l))
              = FlattenSeq([l \in 1 .. m.layers |-> layer(m, l)])
        BY Zenon DEF ForEach
      <3>3. T = tail /\ B = <<allocate(PassBuffers), upload("residual", Zeros), embedding>>
            /\ A = FlattenSeq(<<make("ids"), make("pos"), make("slots"), make("tables"),
                                make("last")>>)
        BY <1>4, <2>2, Zenon DEF PassTail, Opening, Inputs
      <3>4. vulkan_forward_logits(m) = A \o B \o ForEach(m.layers, LAMBDA l : layer(m, l)) \o T
        BY <3>3, Zenon DEF vulkan_forward_logits
      <3>5. forward_logits(m) = vulkan_forward_logits(m)
        BY <2>2 DEF forward_logits, Hip
      <3> QED BY <3>1, <3>2, <3>4, <3>5, Zenon DEF Join
    <2> QED BY <2>1, <2>2
  <1> QED BY <1>13, <1>14, <1>15

-----------------------------------------------------------------------------
(***************************************************************************)
(* The specification, for models that forward_logits computes right.       *)
(***************************************************************************)

LEMMA InitKeeps ==
  ASSUME Init
  PROVE  QueueInv
  <1>1. PICK a : a = St(ModelBuffers, want, {})
    OBVIOUS
  <1>2. /\ model \in Models /\ program = <<>> /\ batch = <<>> /\ ~ submitted /\ copies = <<>>
        /\ mem = [r \in Regions |-> Blank(model, r)] /\ want = mem /\ alive = ModelBuffers
    BY DEF Init
  <1>3. a.want = want /\ a.alive = alive /\ ~ a.copying
    BY <1>1, <1>2 DEF St, HostState
  <1>4. IsMem(mem) /\ IsMem(want)
    BY <1>2 DEF IsMem
  <1>5. ModelBuffers \subseteq Regions /\ "cache" \in Regions
    BY RegionNames DEF Regions, ModelBuffers
  <1>6. want["cache"] = [l \in 1 .. model.layers |-> Unset]
    <2>1. want["cache"] = Blank(model, "cache")
      BY <1>2, <1>5
    <2> QED BY <2>1 DEF Blank
  <1>7. Final(model, a)
    BY <1>1, <1>2, <1>3, <1>4, <1>6 DEF Final
  <1>8. Matches(a)
    BY <1>2, <1>3, EmptyQueue DEF Matches, QueueEmpty
  <1>9. Safe(model, program, a)
    BY <1>2, <1>7, SafeEnd
  <1>10. /\ QueueOf(batch, alive) /\ Within(batch, Regions) /\ Targets(<<>>) = {}
         /\ CopiesOK(<<>>, staged, want) /\ Patched(mem, {}, want) = mem
    BY <1>2, <1>4, <1>5, EmptyQueue, NoCopies
  <1>11. Explained(batch, mem, want)
    BY <1>2, <1>4, ExplainNothing
  <1> QED BY <1>2, <1>4, <1>5, <1>8, <1>9, <1>10, <1>11 DEF QueueInv

LEMMA BeginKeeps ==
  ASSUME SoundModels, QueueInv, BeginForward
  PROVE  QueueInv'
  <1>1. PICK a : Matches(a) /\ Safe(model, program, a)
    BY DEF QueueInv
  <1>2. /\ program = <<>> /\ program' = forward_logits(model)
        /\ UNCHANGED <<model, batch, submitted, copies, staged, mem, want, alive>>
    BY DEF BeginForward
  <1>3. Final(model, a)
    BY <1>1, <1>2, SafeUnfolds
  <1>4. model \in ModelType /\ Sound(model)
    BY ModelAssumption DEF QueueInv, SoundModels
  <1>5. Safe(model, program', a)
    BY <1>2, <1>3, <1>4, PassSafe
  <1>6. Matches(a)'
    BY <1>1, <1>2 DEF Matches, InOrder, QueueEmpty
  <1> QED BY <1>2, <1>5, <1>6 DEF QueueInv, InOrder

LEMMA StutterKeeps ==
  ASSUME QueueInv, UNCHANGED vars
  PROVE  QueueInv'
  <1>1. PICK a : Matches(a) /\ Safe(model, program, a)
    BY DEF QueueInv
  <1>2. UNCHANGED <<model, program, batch, submitted, copies, staged, mem, want, alive>>
    BY DEF vars
  <1>3. Matches(a)'
    BY <1>1, <1>2 DEF Matches, InOrder, QueueEmpty
  <1> QED BY <1>1, <1>2, <1>3 DEF QueueInv, InOrder

LEMMA StepKeeps ==
  ASSUME SoundModels, QueueInv, [Next]_vars
  PROVE  QueueInv'
  <1>1. CASE BeginForward
    BY <1>1, BeginKeeps
  <1>2. CASE Record
    BY <1>2, RecordKeeps
  <1>3. CASE SubmitNothing
    BY <1>3, SubmitNothingKeeps
  <1>4. CASE Submit
    BY <1>4, SubmitKeeps
  <1>5. CASE Complete
    BY <1>5, CompleteKeeps
  <1>6. CASE Upload
    BY <1>6, UploadKeeps
  <1>7. CASE UploadAsync
    BY <1>7, UploadAsyncKeeps
  <1>8. CASE Download
    BY <1>8, DownloadKeeps
  <1>9. CASE Alloc
    BY <1>9, AllocKeeps
  <1>10. CASE Free
    BY <1>10, FreeKeeps
  <1>11. CASE Miss
    BY <1>11, MissKeeps
  <1>12. CASE \E d \in Ready : Execute(d)
    BY <1>12, ExecuteKeeps
  <1>13. CASE Transfer
    BY <1>13, TransferKeeps
  <1>14. CASE UNCHANGED vars
    BY <1>14, StutterKeeps
  <1> QED BY <1>1, <1>2, <1>3, <1>4, <1>5, <1>6, <1>7, <1>8, <1>9, <1>10, <1>11, <1>12, <1>13,
             <1>14 DEF Next

\* The queues and the host, at every moment: what is queued makes of memory what the
\* calls so far are meant to, and the calls that are left are legal.
THEOREM QueuesAndHost ==
  ASSUME SoundModels
  PROVE  Spec => []QueueInv
  <1>1. Init => QueueInv
    BY InitKeeps
  <1>2. QueueInv /\ [Next]_vars => QueueInv'
    BY StepKeeps
  <1> QED BY <1>1, <1>2, PTL DEF Spec

-----------------------------------------------------------------------------
(***************************************************************************)
(* What the invariant says of the properties.                              *)
(***************************************************************************)
LEMMA InvOrder ==
  ASSUME QueueInv
  PROVE  ProgramOrder
  <1>1. ASSUME NEW d \in Ready, NEW r \in d.cmd.reads
        PROVE  mem[r] = d.expects[r]
    <2>1. batch # <<>> /\ d \in batch[1] /\ copies = <<>>
      BY <1>1 DEF Ready, QueueInv
    <2>2. Explained(batch, mem, want) /\ IsSeq(batch)
      BY <2>1, NoCopies DEF QueueInv, QueueOf
    <2> QED BY <1>1, <2>1, <2>2, ReadyFindsExpected
  <1>2. batch = <<>> /\ copies = <<>> => mem = want
    BY MemoryIsWanted DEF QueueEmpty
  <1> QED BY <1>1, <1>2 DEF ProgramOrder

\* When a download starts nothing is queued.
LEMMA DownloadSettled ==
  ASSUME QueueInv, NEW S, Downloads(S)
  PROVE  mem = want /\ (Next1.from = "logits" => want["logits"] = Reference(model))
  <1>1. PICK a : Matches(a) /\ Safe(model, program, a)
    BY DEF QueueInv
  <1>2. program # <<>> /\ Next1 = Head(program) /\ Next1.call = "download" /\ Settled /\ ~ submitted
    BY DEF Downloads, Next1
  <1>3. Legal(model, Next1, a)
    BY <1>1, <1>2, SafeUnfolds
  <1>4. /\ ~ a.copying /\ a.busy = {}
        /\ Next1.from = "logits" => a.want["logits"] = Reference(model)
    BY <1>2, <1>3 DEF Legal
  <1>5. copies = <<>> /\ QueueEmpty /\ a.want = want
    BY <1>1, <1>2, <1>4 DEF Matches, Settled
  <1>6. mem = want
    BY <1>5, MemoryIsWanted
  <1> QED BY <1>4, <1>5, <1>6

LEMMA InvFreed ==
  ASSUME QueueInv
  PROVE  NothingFreedInUse
  <1>1. IsSeq(batch) /\ Within(batch, alive) /\ CopiesOK(copies, staged, want) /\ IsSeq(copies)
    BY DEF QueueInv, QueueOf, CopiesOK
  <1>2. DOMAIN batch = 1 .. Len(batch) /\ DOMAIN copies = 1 .. Len(copies)
    BY <1>1, SeqLen
  <1>3. \A g \in DOMAIN batch : \A d \in batch[g] : d.cmd.reads \cup d.cmd.writes \subseteq alive
    BY <1>1, <1>2 DEF Within, Touches
  <1>4. \A c \in DOMAIN copies : copies[c].id \in staged
    BY <1>1, <1>2 DEF CopiesOK
  <1> QED BY <1>3, <1>4 DEF NothingFreedInUse

\* Barriers where they are needed: in every order that the queue may choose each
\* dispatch finds what the calls before it leave (dispatch_bound, dispatch_nb).
THEOREM InProgramOrder ==
  ASSUME SoundModels
  PROVE  Spec => []ProgramOrder
  <1>1. QueueInv => ProgramOrder
    BY InvOrder
  <1> QED BY <1>1, QueuesAndHost, PTL

\* Whatever forward_logits reads back, the routing of a layer or the logits, is
\* final: nothing that is still queued changes it.
THEOREM ReadsBackSettled ==
  ASSUME SoundModels
  PROVE  Spec => []HostReadsSettled
  <1>1. QueueInv => HostReadsSettled
    BY DownloadSettled DEF HostReadsSettled
  <1> QED BY <1>1, QueuesAndHost, PTL

\* A forward pass of any number of layers and of chunks, on either backend, returns
\* the logits of the reference decoder.
THEOREM ReturnsReference ==
  ASSUME SoundModels
  PROVE  Spec => []LogitsRight
  <1>1. ASSUME QueueInv, Downloads({"logits"})
        PROVE  mem["logits"] = Reference(model)
    <2>1. Next1.from = "logits"
      BY <1>1 DEF Downloads
    <2> QED BY <1>1, <2>1, DownloadSettled
  <1>2. QueueInv => LogitsRight
    BY <1>1 DEF LogitsRight
  <1> QED BY <1>2, QueuesAndHost, PTL

\* A buffer outlives the dispatches that are bound to it, a staging buffer its copy
\* (release of the experts' buffers after a layer, xfer_drain).
THEOREM OutlivesItsUse ==
  ASSUME SoundModels
  PROVE  Spec => []NothingFreedInUse
  <1>1. QueueInv => NothingFreedInUse
    BY InvFreed
  <1> QED BY <1>1, QueuesAndHost, PTL
=============================================================================

----------------------------- MODULE QueueProofs -----------------------------
(***************************************************************************)
(* Lemmas about the operations the scheduler applies to its deques and to  *)
(* the batch: pop_front, pop_back, push_front, push_back, insert of a      *)
(* whole batch, and erase of one element.  A queue without duplicates is   *)
(* described by its range.                                                 *)
(***************************************************************************)
EXTENDS Integers, SequencesExt, SequenceTheorems, WellFoundedInduction, TLAPS

LEMMA RangeMembers ==
  ASSUME NEW S, NEW q \in Seq(S)
  PROVE  /\ DOMAIN q = 1..Len(q) /\ Len(q) \in Nat
         /\ \A x : x \in Range(q) <=> \E i \in 1..Len(q) : q[i] = x
         /\ \A i \in 1..Len(q) : q[i] \in S
         /\ Range(q) \subseteq S
         /\ q = <<>> <=> Range(q) = {}
  <1>1. DOMAIN q = 1..Len(q) /\ Len(q) \in Nat
    BY LenProperties
  <1>2. Range(q) = {q[i] : i \in 1..Len(q)}
    BY RangeEquality
  <1>3. \A i \in 1..Len(q) : q[i] \in S
    BY ElementOfSeq
  <1>4. q = <<>> <=> Len(q) = 0
    BY EmptySeq
  <1>5. \A x : x \in Range(q) <=> \E i \in 1..Len(q) : q[i] = x
    BY <1>2
  <1>6. Range(q) \subseteq S
    BY <1>2, <1>3
  <1>7. Len(q) = 0 <=> Range(q) = {}
    <2>1. ASSUME Len(q) # 0 PROVE q[1] \in Range(q)
      BY <2>1, <1>1, <1>2
    <2>2. ASSUME Len(q) = 0, NEW x \in Range(q) PROVE FALSE
      BY <2>2, <1>5
    <2> QED BY <2>1, <2>2
  <1> QED BY <1>1, <1>3, <1>4, <1>5, <1>6, <1>7

LEMMA QueueAppend ==
  ASSUME NEW S, NEW q \in Seq(S), NEW x \in S
  PROVE  /\ Append(q, x) \in Seq(S)
         /\ Range(Append(q, x)) = Range(q) \cup {x}
         /\ IsInjective(q) /\ x \notin Range(q) => IsInjective(Append(q, x))
  <1> DEFINE r == Append(q, x)
  <1>1. r \in Seq(S) /\ Len(r) = Len(q) + 1
        /\ (\A i \in 1..Len(q) : r[i] = q[i]) /\ r[Len(q) + 1] = x
    BY AppendProperties
  <1> HIDE DEF r
  <1>2. Range(r) = Range(q) \cup {x}
    <2>1. \A y : y \in Range(r) <=> y \in Range(q) \cup {x}
      BY <1>1, RangeMembers
    <2> QED BY <2>1
  <1>3. IsInjective(q) /\ x \notin Range(q) => IsInjective(r)
    BY <1>1, RangeMembers DEF IsInjective
  <1> QED BY <1>1, <1>2, <1>3 DEF r

LEMMA QueueTail ==
  ASSUME NEW S, NEW q \in Seq(S), q # <<>>, IsInjective(q)
  PROVE  /\ Head(q) \in Range(q) /\ Head(q) \in S
         /\ Tail(q) \in Seq(S)
         /\ Range(Tail(q)) = Range(q) \ {Head(q)}
         /\ IsInjective(Tail(q))
  <1> DEFINE r == Tail(q)
             h == Head(q)
  <1>1. r \in Seq(S) /\ Len(r) = Len(q) - 1 /\ \A i \in 1..Len(r) : r[i] = q[i + 1]
    BY HeadTailProperties
  <1>2. h = q[1]
    OBVIOUS
  <1>3. Len(q) \in Nat \ {0}
    BY LenProperties, EmptySeq
  <1>4. Len(r) \in Nat
    BY <1>1, <1>3
  <1> HIDE DEF r, h
  <1>5. h \in Range(q) /\ h \in S
    BY <1>2, <1>3, RangeMembers
  <1>6. \A i, j \in 1..Len(q) : q[i] = q[j] => i = j
    BY RangeMembers DEF IsInjective
  <1>7. ASSUME NEW y PROVE y \in Range(r) <=> y \in Range(q) \ {h}
    <2>1. ASSUME y \in Range(r) PROVE y \in Range(q) \ {h}
      <3>1. PICK i \in 1..Len(r) : r[i] = y
        BY <1>1, <2>1, RangeMembers
      <3>2. y = q[i + 1] /\ i + 1 \in 1..Len(q) /\ i + 1 # 1
        BY <3>1, <1>1, <1>3
      <3>3. y # h
        BY <3>2, <1>2, <1>3, <1>6
      <3> QED BY <3>2, <3>3, RangeMembers
    <2>2. ASSUME y \in Range(q) \ {h} PROVE y \in Range(r)
      <3>1. PICK i \in 1..Len(q) : q[i] = y
        BY <2>2, RangeMembers
      <3>2. i # 1
        BY <3>1, <2>2, <1>2
      <3>3. i - 1 \in 1..Len(r) /\ r[i - 1] = q[i - 1 + 1] /\ i - 1 + 1 = i
        BY <3>1, <3>2, <1>1, <1>3
      <3> QED BY <3>1, <3>3, <1>1, RangeMembers
    <2> QED BY <2>1, <2>2
  <1>8. IsInjective(r)
    <2>1. ASSUME NEW i \in 1..Len(r), NEW j \in 1..Len(r), r[i] = r[j] PROVE i = j
      <3>1. q[i + 1] = q[j + 1] /\ i + 1 \in 1..Len(q) /\ j + 1 \in 1..Len(q)
        BY <2>1, <1>1, <1>3
      <3>2. i + 1 = j + 1
        BY <3>1, <1>6
      <3> QED BY <3>2
    <2>2. DOMAIN r = 1..Len(r)
      BY <1>1, LenProperties
    <2> QED BY <2>1, <2>2 DEF IsInjective
  <1> QED BY <1>1, <1>5, <1>7, <1>8 DEF r, h

LEMMA QueueConcat ==
  ASSUME NEW S, NEW p \in Seq(S), NEW q \in Seq(S)
  PROVE  /\ p \o q \in Seq(S)
         /\ Range(p \o q) = Range(p) \cup Range(q)
         /\ IsInjective(p) /\ IsInjective(q) /\ Range(p) \cap Range(q) = {} => IsInjective(p \o q)
  <1> DEFINE r == p \o q
  <1>1. /\ r \in Seq(S) /\ Len(r) = Len(p) + Len(q)
        /\ \A i \in 1..Len(p) + Len(q) : r[i] = IF i <= Len(p) THEN p[i] ELSE q[i - Len(p)]
    BY ConcatProperties
  <1>2. Range(r) = Range(p) \cup Range(q)
    BY RangeConcatenation
  <1> HIDE DEF r
  <1>3. Len(p) \in Nat /\ Len(q) \in Nat
    BY LenProperties
  <1>4. ASSUME IsInjective(p), IsInjective(q), Range(p) \cap Range(q) = {}
        PROVE  IsInjective(r)
    <2>1. /\ \A i, j \in 1..Len(p) : p[i] = p[j] => i = j
          /\ \A i, j \in 1..Len(q) : q[i] = q[j] => i = j
      BY <1>4, LenProperties DEF IsInjective
    <2>0. ASSUME NEW i \in 1..Len(p), NEW j \in 1..Len(q) PROVE p[i] # q[j]
      <3>1. p[i] \in Range(p) /\ q[j] \in Range(q)
        BY RangeMembers
      <3> QED BY <3>1, <1>4
    <2>2. ASSUME NEW i \in 1..Len(r), NEW j \in 1..Len(r), r[i] = r[j] PROVE i = j
      <3>1. CASE i <= Len(p) /\ j <= Len(p)
        BY <3>1, <2>1, <2>2, <1>1, <1>3
      <3>2. CASE i <= Len(p) /\ ~ (j <= Len(p))
        <4>1. i \in 1..Len(p) /\ j - Len(p) \in 1..Len(q) /\ p[i] = q[j - Len(p)]
          BY <3>2, <2>2, <1>1, <1>3
        <4> QED BY <4>1, <2>0, <2>2
      <3>3. CASE ~ (i <= Len(p)) /\ j <= Len(p)
        <4>1. j \in 1..Len(p) /\ i - Len(p) \in 1..Len(q) /\ p[j] = q[i - Len(p)]
          BY <3>3, <2>2, <1>1, <1>3
        <4> QED BY <4>1, <2>0, <2>2
      <3>4. CASE ~ (i <= Len(p)) /\ ~ (j <= Len(p))
        <4>1. /\ i - Len(p) \in 1..Len(q) /\ j - Len(p) \in 1..Len(q)
              /\ q[i - Len(p)] = q[j - Len(p)]
          BY <3>4, <2>2, <1>1, <1>3
        <4>2. i - Len(p) = j - Len(p)
          BY <4>1, <2>1
        <4> QED BY <4>2, <1>3
      <3> QED BY <3>1, <3>2, <3>3, <3>4
    <2>3. DOMAIN r = 1..Len(r)
      BY <1>1, LenProperties
    <2> QED BY <2>2, <2>3 DEF IsInjective
  <1> QED BY <1>1, <1>2, <1>4 DEF r

LEMMA QueuePush ==
  ASSUME NEW S, NEW q \in Seq(S), NEW x \in S
  PROVE  /\ <<x>> \o q \in Seq(S)
         /\ Range(<<x>> \o q) = {x} \cup Range(q)
         /\ IsInjective(q) /\ x \notin Range(q) => IsInjective(<<x>> \o q)
  <1> DEFINE u == <<x>>
  <1>1. u \in Seq(S) /\ Len(u) = 1 /\ u[1] = x
    OBVIOUS
  <1> HIDE DEF u
  <1>2. Range(u) = {x}
    <2>1. \A y : y \in Range(u) <=> \E i \in 1..1 : u[i] = y
      BY <1>1, RangeMembers
    <2> QED BY <2>1, <1>1
  <1>3. IsInjective(u)
    BY <1>1, LenProperties DEF IsInjective
  <1>4. /\ u \o q \in Seq(S)
        /\ Range(u \o q) = Range(u) \cup Range(q)
        /\ IsInjective(q) /\ Range(u) \cap Range(q) = {} => IsInjective(u \o q)
    BY <1>1, <1>3, QueueConcat
  <1> QED BY <1>2, <1>4 DEF u

\* Removing position k, in either of the ways the code does.
LEMMA QueueRemoveAt ==
  ASSUME NEW S, NEW q \in Seq(S), IsInjective(q), NEW k \in 1..Len(q)
  PROVE  /\ RemoveAt(q, k) \in Seq(S)
         /\ Range(RemoveAt(q, k)) = Range(q) \ {q[k]}
         /\ IsInjective(RemoveAt(q, k))
  <1> DEFINE p == SubSeq(q, 1, k - 1)
             r == SubSeq(q, k + 1, Len(q))
  <1>1. Len(q) \in Nat /\ k \in Nat /\ k >= 1 /\ k <= Len(q)
        /\ \A i \in 1..Len(q) : q[i] \in S
    BY RangeMembers
  <1>2. /\ p \in Seq(S) /\ Len(p) = k - 1
        /\ \A i \in 1..k - 1 : p[i] = q[i]
    <2>1. \A i \in 1..k - 1 : q[i] \in S
      BY <1>1
    <2>2. /\ p \in Seq(S) /\ Len(p) = IF 1 <= k - 1 THEN (k - 1) - 1 + 1 ELSE 0
          /\ \A i \in 1..(k - 1) - 1 + 1 : p[i] = q[1 + i - 1]
      BY <2>1, <1>1, SubSeqProperties
    <2> HIDE DEF p
    <2> QED BY <2>2, <1>1
  <1>3. /\ r \in Seq(S) /\ Len(r) = Len(q) - k
        /\ \A i \in 1..Len(q) - k : r[i] = q[k + i]
    <2>1. \A i \in k + 1..Len(q) : q[i] \in S
      BY <1>1
    <2>2. /\ r \in Seq(S) /\ Len(r) = IF k + 1 <= Len(q) THEN Len(q) - (k + 1) + 1 ELSE 0
          /\ \A i \in 1..Len(q) - (k + 1) + 1 : r[i] = q[(k + 1) + i - 1]
      BY <2>1, <1>1, SubSeqProperties
    <2> HIDE DEF r
    <2>3. Len(r) = Len(q) - k /\ Len(q) - (k + 1) + 1 = Len(q) - k
      BY <2>2, <1>1
    <2>4. ASSUME NEW i \in 1..Len(q) - k PROVE r[i] = q[k + i]
      <3>1. (k + 1) + i - 1 = k + i
        BY <1>1
      <3> QED BY <3>1, <2>2, <2>3
    <2> QED BY <2>2, <2>3, <2>4
  <1>4. RemoveAt(q, k) = p \o r
    BY DEF RemoveAt
  <1> HIDE DEF p, r
  <1>5. \A i, j \in 1..Len(q) : q[i] = q[j] => i = j
    BY RangeMembers DEF IsInjective
  <1>6. IsInjective(p)
    <2>1. \A i, j \in 1..Len(p) : p[i] = p[j] => i = j
      BY <1>1, <1>2, <1>5
    <2> QED BY <2>1, <1>2, LenProperties DEF IsInjective
  <1>7. IsInjective(r)
    <2>1. ASSUME NEW i \in 1..Len(r), NEW j \in 1..Len(r), r[i] = r[j] PROVE i = j
      <3>1. q[k + i] = q[k + j] /\ k + i \in 1..Len(q) /\ k + j \in 1..Len(q)
        BY <2>1, <1>1, <1>3
      <3>2. k + i = k + j
        BY <3>1, <1>5
      <3> QED BY <3>2, <1>1
    <2> QED BY <2>1, <1>3, LenProperties DEF IsInjective
  <1>8. \A x : x \in Range(p) <=> \E i \in 1..k - 1 : q[i] = x
    BY <1>2, RangeMembers
  <1>9. ASSUME NEW x PROVE x \in Range(r) <=> \E j \in k + 1..Len(q) : q[j] = x
    <2>1. ASSUME x \in Range(r) PROVE \E j \in k + 1..Len(q) : q[j] = x
      <3>1. PICK i \in 1..Len(q) - k : r[i] = x
        BY <2>1, <1>3, RangeMembers
      <3>2. q[k + i] = x /\ k + i \in k + 1..Len(q)
        BY <3>1, <1>1, <1>3
      <3> QED BY <3>2
    <2>2. ASSUME NEW j \in k + 1..Len(q), q[j] = x PROVE x \in Range(r)
      <3>1. j - k \in 1..Len(q) - k /\ k + (j - k) = j
        BY <1>1
      <3>2. r[j - k] = x
        BY <3>1, <2>2, <1>3
      <3> QED BY <3>1, <3>2, <1>3, RangeMembers
    <2> QED BY <2>1, <2>2
  <1>10. Range(p) \cap Range(r) = {}
    <2>1. ASSUME NEW x, x \in Range(p), x \in Range(r) PROVE FALSE
      <3>1. PICK i \in 1..k - 1 : q[i] = x
        BY <2>1, <1>8
      <3>2. PICK j \in k + 1..Len(q) : q[j] = x
        BY <2>1, <1>9
      <3> QED BY <3>1, <3>2, <1>1, <1>5
    <2> QED BY <2>1
  <1>11. ASSUME NEW x PROVE x \in Range(p) \cup Range(r) <=> x \in Range(q) \ {q[k]}
    <2>1. x \in Range(q) <=> \E i \in 1..Len(q) : q[i] = x
      BY RangeMembers
    <2>2. ASSUME x \in Range(p) \cup Range(r) PROVE x \in Range(q) \ {q[k]}
      <3>1. PICK i \in 1..Len(q) : q[i] = x /\ i # k
        BY <2>2, <1>1, <1>8, <1>9
      <3> QED BY <3>1, <2>1, <1>1, <1>5
    <2>3. ASSUME x \in Range(q) \ {q[k]} PROVE x \in Range(p) \cup Range(r)
      <3>1. PICK i \in 1..Len(q) : q[i] = x
        BY <2>3, <2>1
      <3>2. i \in 1..k - 1 \/ i \in k + 1..Len(q)
        BY <3>1, <2>3, <1>1
      <3> QED BY <3>1, <3>2, <1>8, <1>9
    <2> QED BY <2>2, <2>3
  <1>12. Range(p \o r) = Range(q) \ {q[k]}
    <2>1. Range(p \o r) = Range(p) \cup Range(r)
      BY <1>2, <1>3, QueueConcat
    <2> QED BY <2>1, <1>11
  <1> QED BY <1>2, <1>3, <1>4, <1>6, <1>7, <1>10, <1>12, QueueConcat

LEMMA QueueFront ==
  ASSUME NEW S, NEW q \in Seq(S), q # <<>>, IsInjective(q)
  PROVE  /\ Last(q) \in Range(q) /\ Last(q) \in S
         /\ Front(q) \in Seq(S)
         /\ Range(Front(q)) = Range(q) \ {Last(q)}
         /\ IsInjective(Front(q))
  <1>1. Len(q) \in Nat \ {0} /\ Len(q) \in 1..Len(q)
    BY LenProperties, EmptySeq
  <1>2. SubSeq(q, Len(q) + 1, Len(q)) = <<>>
    BY <1>1
  <1>3. Front(q) \in Seq(S)
    <2>1. \A i \in 1..Len(q) - 1 : q[i] \in S
      BY <1>1, ElementOfSeq
    <2> QED BY <2>1, <1>1, SubSeqProperties DEF Front
  <1>4. RemoveAt(q, Len(q)) = Front(q)
    BY <1>2, <1>3, ConcatEmptySeq DEF RemoveAt, Front
  <1> QED BY <1>1, <1>4, QueueRemoveAt, RangeMembers DEF Last

\* A non-empty set of numbers has a least element.
LEMMA LeastExists ==
  ASSUME NEW I \in SUBSET Nat, I # {}
  PROVE  \E m \in I : \A y \in I : m <= y
  <1>1. \E m \in I : \A y \in I : ~ (<<y, m>> \in OpToRel(<, Nat))
    BY NatLessThanWellFounded, WFMin
  <1>2. \A y, m \in I : <<y, m>> \in OpToRel(<, Nat) <=> y < m
    BY DEF OpToRel
  <1>3. \A y, m \in I : ~ (y < m) => m <= y
    OBVIOUS
  <1> QED BY <1>1, <1>2, <1>3

\* Max of an interval of indices, as the folds over sequences use it.
LEMMA GreatestOfInterval ==
  ASSUME NEW i \in Nat \ {0}, NEW s \in SUBSET (1 .. i), i \in s
  PROVE  Max(s) = i
  <1>1. \A y \in s : i >= y
    OBVIOUS
  <1>2. \A x \in s : (\A y \in s : x >= y) => x = i
    OBVIOUS
  <1> QED BY <1>1, <1>2 DEF Max

LEMMA QueueRemoveFirst ==
  ASSUME NEW S, NEW q \in Seq(S), IsInjective(q), NEW x \in Range(q)
  PROVE  /\ RemoveFirst(q, x) \in Seq(S)
         /\ Range(RemoveFirst(q, x)) = Range(q) \ {x}
         /\ IsInjective(RemoveFirst(q, x))
  <1> DEFINE I == {i \in 1..Len(q) : q[i] = x}
             k == CHOOSE m \in I : \A y \in I : m <= y
  <1>1. I # {} /\ I \in SUBSET Nat
    BY RangeMembers
  <1>2. k \in I
    BY <1>1, LeastExists
  <1>3. RemoveFirst(q, x) = RemoveAt(q, k)
    BY <1>1 DEF RemoveFirst, SelectInSeq, Min
  <1> HIDE DEF k
  <1> QED BY <1>2, <1>3, QueueRemoveAt

-----------------------------------------------------------------------------
(***************************************************************************)
(* FlattenSeq recurs over the indices; g is that recursion up to index n.  *)
(***************************************************************************)
Flattens(g, s, n) == g = [i \in 1 .. n |-> IF i = 1 THEN s[i] ELSE g[i - 1] \o s[i]]

LEMMA FlattensNext ==
  ASSUME NEW s, NEW k \in Nat, NEW g, Flattens(g, s, k)
  PROVE  \E h : Flattens(h, s, k + 1)
  <1> DEFINE h == [i \in 1 .. k + 1 |->
                     IF i = k + 1 THEN (IF i = 1 THEN s[i] ELSE g[k] \o s[i]) ELSE g[i]]
  <1>1. SUFFICES ASSUME NEW i \in 1 .. k + 1
                 PROVE  h[i] = IF i = 1 THEN s[i] ELSE h[i - 1] \o s[i]
    <2>1. h = [i \in 1 .. k + 1 |-> IF i = 1 THEN s[i] ELSE h[i - 1] \o s[i]]
      BY <1>1
    <2> QED BY <2>1 DEF Flattens
  <1>2. CASE i = k + 1
    <2>1. i = 1 \/ h[i - 1] = g[k]
      BY <1>2
    <2> QED BY <1>2, <2>1
  <1>3. CASE i # k + 1
    <2>1. i \in 1 .. k /\ h[i] = g[i] /\ (i = 1 \/ h[i - 1] = g[i - 1])
      BY <1>3
    <2>2. g[i] = IF i = 1 THEN s[i] ELSE g[i - 1] \o s[i]
      BY <2>1 DEF Flattens
    <2> QED BY <2>1, <2>2
  <1> QED BY <1>2, <1>3

LEMMA FlattensExists ==
  ASSUME NEW s, NEW n \in Nat
  PROVE  \E g : Flattens(g, s, n)
  <1> DEFINE missing == {k \in Nat : ~ \E g : Flattens(g, s, k)}
  <1>1. SUFFICES ASSUME missing # {} PROVE FALSE
    OBVIOUS
  <1>2. PICK k \in missing : \A j \in missing : k <= j
    BY <1>1, LeastExists
  <1>3. \E g : Flattens(g, s, 0)
    <2> DEFINE g == [i \in 1 .. 0 |-> s]
    <2>1. Flattens(g, s, 0)
      BY DEF Flattens
    <2> QED BY <2>1
  <1>4. k # 0 /\ k - 1 \in Nat /\ k - 1 \notin missing /\ (k - 1) + 1 = k
    BY <1>2, <1>3
  <1>5. \E g : Flattens(g, s, k - 1)
    BY <1>4
  <1> QED BY <1>2, <1>4, <1>5, FlattensNext

\* The recursion over two sequences that begin alike begins alike.
LEMMA FlattensAlike ==
  ASSUME NEW g, NEW s, NEW n, NEW h, NEW t, NEW m, Flattens(g, s, n), Flattens(h, t, m),
         n \in Nat, m \in Nat, n <= m, \A i \in 1 .. n : s[i] = t[i]
  PROVE  \A k \in 1 .. n : g[k] = h[k]
  <1>1. \A i \in 1 .. n : g[i] = IF i = 1 THEN s[i] ELSE g[i - 1] \o s[i]
    BY DEF Flattens
  <1>2. \A i \in 1 .. n : h[i] = IF i = 1 THEN t[i] ELSE h[i - 1] \o t[i]
    <2>1. \A i \in 1 .. m : h[i] = IF i = 1 THEN t[i] ELSE h[i - 1] \o t[i]
      BY DEF Flattens
    <2>2. \A i \in 1 .. n : i \in 1 .. m
      OBVIOUS
    <2> QED BY <2>1, <2>2
  <1> DEFINE differ == {i \in 1 .. n : g[i] # h[i]}
  <1>3. SUFFICES ASSUME differ # {} PROVE FALSE
    OBVIOUS
  <1>4. PICK i \in differ : \A j \in differ : i <= j
    <2>1. differ \in SUBSET Nat
      OBVIOUS
    <2> HIDE DEF differ
    <2> QED BY <1>3, <2>1, LeastExists
  <1>5. i = 1 \/ g[i - 1] = h[i - 1]
    BY <1>4
  <1> QED BY <1>1, <1>2, <1>4, <1>5

\* FlattenSeq is concatenation, one sequence after the other.
LEMMA FlattenUnfolds ==
  ASSUME NEW S, NEW s \in Seq(Seq(S)), s # <<>>
  PROVE  \E g : Flattens(g, s, Len(s)) /\ FlattenSeq(s) = g[Len(s)]
  <1>1. Len(s) \in Nat \ {0}
    BY EmptySeq
  <1>2. FlattenSeq(s) = (CHOOSE g : Flattens(g, s, Len(s)))[Len(s)]
    BY <1>1 DEF FlattenSeq, Flattens
  <1> QED BY <1>1, <1>2, FlattensExists

LEMMA FlattenType ==
  ASSUME NEW S, NEW s \in Seq(Seq(S))
  PROVE  FlattenSeq(s) \in Seq(S)
  <1>1. CASE s = <<>>
    <2>1. Len(s) = 0
      BY <1>1, EmptySeq
    <2> QED BY <1>1, <2>1, EmptySeq DEF FlattenSeq
  <1>2. CASE s # <<>>
    <2>1. PICK g : Flattens(g, s, Len(s)) /\ FlattenSeq(s) = g[Len(s)]
      BY <1>2, FlattenUnfolds
    <2>2. Len(s) \in Nat \ {0} /\ \A i \in 1 .. Len(s) : s[i] \in Seq(S)
      BY <1>2, EmptySeq, ElementOfSeq
    <2>3. \A i \in 1 .. Len(s) : g[i] = IF i = 1 THEN s[i] ELSE g[i - 1] \o s[i]
      BY <2>1 DEF Flattens
    <2> DEFINE odd == {i \in 1 .. Len(s) : g[i] \notin Seq(S)}
    <2>4. SUFFICES ASSUME odd # {} PROVE FALSE
      BY <2>1, <2>2
    <2>5. PICK i \in odd : \A j \in odd : i <= j
      <3>1. odd \in SUBSET Nat
        BY <2>2
      <3> HIDE DEF odd
      <3> QED BY <2>4, <3>1, LeastExists
    <2>6. i = 1 \/ g[i - 1] \in Seq(S)
      BY <2>2, <2>5
    <2>7. g[i] \in Seq(S)
      <3>1. i \in 1 .. Len(s) /\ s[i] \in Seq(S)
        BY <2>2, <2>5
      <3>2. CASE i = 1
        BY <2>3, <3>1, <3>2
      <3>3. CASE i # 1
        BY <2>3, <2>6, <3>1, <3>3, ConcatProperties
      <3> QED BY <3>2, <3>3
    <2> QED BY <2>5, <2>7
  <1> QED BY <1>1, <1>2

LEMMA FlattenAppend ==
  ASSUME NEW S, NEW s \in Seq(Seq(S)), NEW x \in Seq(S)
  PROVE  FlattenSeq(Append(s, x)) = FlattenSeq(s) \o x
  <1> DEFINE t == Append(s, x)
             n == Len(s)
  <1>1. /\ t \in Seq(Seq(S)) /\ t # <<>> /\ Len(t) = n + 1 /\ t[n + 1] = x
        /\ \A i \in 1 .. n : t[i] = s[i]
    BY AppendProperties
  <1>2. n \in Nat
    BY LenProperties
  <1> HIDE DEF t, n
  <1>3. PICK h : Flattens(h, t, n + 1) /\ FlattenSeq(t) = h[n + 1]
    BY <1>1, FlattenUnfolds
  <1>4. h[n + 1] = IF n = 0 THEN x ELSE h[n] \o x
    <2>1. \A i \in 1 .. n + 1 : h[i] = IF i = 1 THEN t[i] ELSE h[i - 1] \o t[i]
      BY <1>3 DEF Flattens
    <2>2. n + 1 \in 1 .. n + 1 /\ (n + 1) - 1 = n /\ (n + 1 = 1 <=> n = 0)
      BY <1>2
    <2> QED BY <1>1, <2>1, <2>2
  <1>5. CASE s = <<>>
    <2>1. n = 0 /\ FlattenSeq(s) = <<>>
      BY <1>5, EmptySeq DEF FlattenSeq, n
    <2> QED BY <1>3, <1>4, <2>1, ConcatEmptySeq DEF t
  <1>6. CASE s # <<>>
    <2>1. n \in Nat \ {0}
      BY <1>6, EmptySeq DEF n
    <2>2. PICK g : Flattens(g, s, n) /\ FlattenSeq(s) = g[n]
      BY <1>6, FlattenUnfolds DEF n
    <2>3. g[n] = h[n]
      <3>1. n + 1 \in Nat /\ n <= n + 1 /\ n \in 1 .. n /\ \A i \in 1 .. n : s[i] = t[i]
        BY <1>1, <2>1
      <3>2. PICK m \in Nat : m = n + 1
        BY <3>1
      <3>3. n \in Nat /\ n <= m /\ Flattens(g, s, n) /\ Flattens(h, t, m)
        BY <1>2, <1>3, <2>2, <3>1, <3>2
      <3>4. \A k \in 1 .. n : g[k] = h[k]
        BY <3>1, <3>3, FlattensAlike
      <3> QED BY <3>1, <3>4
    <2> QED BY <1>3, <1>4, <2>1, <2>2, <2>3 DEF t
  <1> QED BY <1>5, <1>6

(***************************************************************************)
(* Division.                                                               *)
(***************************************************************************)
\* Division with remainder.
LEMMA DivFacts ==
  ASSUME NEW a \in Nat, NEW d \in Nat \ {0}
  PROVE  /\ a \div d \in Nat
         /\ (a \div d) * d <= a
         /\ a < (a \div d) * d + d
         /\ a % d = a - (a \div d) * d
  OBVIOUS

LEMMA MulMono ==
  ASSUME NEW a \in Int, NEW b \in Int, NEW d \in Nat, a <= b
  PROVE  a * d <= b * d
  OBVIOUS

LEMMA MulCancel ==
  ASSUME NEW a \in Int, NEW b \in Int, NEW d \in Nat \ {0}, a * d < b * d + d
  PROVE  a <= b
  <1>1. SUFFICES ASSUME a > b PROVE FALSE
    OBVIOUS
  <1>2. (b + 1) * d <= a * d
    BY <1>1, MulMono
  <1>3. (b + 1) * d = b * d + d
    OBVIOUS
  <1> QED BY <1>2, <1>3

\* Number p is p % d in block p \div d, and in no other.
LEMMA SplitPosition ==
  ASSUME NEW p \in Nat, NEW d \in Nat \ {0}
  PROVE  /\ p \div d \in Nat /\ p % d \in 0..d - 1
         /\ p = (p \div d) * d + (p % d)
  <1>1. p \div d \in Nat /\ (p \div d) * d <= p /\ p < (p \div d) * d + d
        /\ p % d = p - (p \div d) * d
    BY DivFacts
  <1> DEFINE q == (p \div d) * d
  <1>2. q \in Nat
    BY <1>1
  <1> HIDE DEF q
  <1> QED BY <1>1, <1>2 DEF q

LEMMA JoinPosition ==
  ASSUME NEW k \in Nat, NEW o \in Nat, NEW d \in Nat \ {0}, o < d
  PROVE  /\ k * d + o \in Nat
         /\ (k * d + o) \div d = k
         /\ (k * d + o) % d = o
  <1> DEFINE p == k * d + o
             j == p \div d
  <1>1. p \in Nat /\ k * d \in Nat
    OBVIOUS
  <1>2. j \in Nat /\ j * d <= p /\ p < j * d + d /\ p % d = p - j * d
    BY <1>1, DivFacts
  <1>3. j * d \in Nat
    BY <1>2
  <1>4. j * d < k * d + d /\ k * d < j * d + d
    <2> DEFINE a == j * d
               b == k * d
    <2>1. a <= b + o /\ b + o < a + d /\ a \in Nat /\ b \in Nat
      BY <1>1, <1>2, <1>3
    <2> HIDE DEF a, b, j
    <2>2. a < b + d /\ b < a + d
      BY <2>1
    <2> QED BY <2>2 DEF a, b
  <1> HIDE DEF j, p
  <1>5. j <= k /\ k <= j
    BY <1>2, <1>4, MulCancel
  <1>6. j = k
    BY <1>2, <1>5
  <1>7. p % d = o
    <2> DEFINE b == k * d
    <2>1. p = b + o /\ p % d = p - b /\ b \in Nat
      BY <1>1, <1>2, <1>6 DEF p
    <2> HIDE DEF b
    <2> QED BY <2>1
  <1> QED BY <1>1, <1>6, <1>7 DEF j, p

(***************************************************************************)
(* Folds over the indices of a sequence.                                   *)
(***************************************************************************)
LEMMA MaxInside ==
  ASSUME NEW n \in Nat, NEW u \in SUBSET (1 .. n), u # {}
  PROVE  Max(u) \in u
  <1> DEFINE gaps == {d \in Nat : n - d \in u}
  <1>1. gaps # {}
    <2>1. PICK x \in u : TRUE
      OBVIOUS
    <2>2. n - x \in Nat /\ n - (n - x) = x
      OBVIOUS
    <2> QED BY <2>1, <2>2
  <1>2. gaps \in SUBSET Nat
    OBVIOUS
  <1>3. PICK d \in gaps : \A e \in gaps : d <= e
    <2> HIDE DEF gaps
    <2> QED BY <1>1, <1>2, LeastExists
  <1>4. ASSUME NEW y \in u
        PROVE  n - d >= y
    <2>1. n - y \in Nat /\ n - (n - y) = y
      OBVIOUS
    <2>2. n - y \in gaps
      BY <2>1
    <2>3. d <= n - y /\ d \in Nat /\ y \in Nat
      BY <1>3, <2>2
    <2> QED BY <2>3
  <1>5. n - d \in u
    BY <1>3
  <1> QED BY <1>4, <1>5 DEF Max

\* The first i of n indices are the first i - 1 and i.
LEMMA FirstIndices ==
  ASSUME NEW n \in Nat, NEW i \in 1 .. n
  PROVE  /\ 1 .. i \in SUBSET (1 .. n) /\ 1 .. i # {}
         /\ Max(1 .. i) = i
         /\ (1 .. i) \ {i} = 1 .. i - 1
         /\ i \in 0 .. n /\ i - 1 \in 0 .. n
  <1>1. 1 .. i \in SUBSET (1 .. i) /\ i \in 1 .. i /\ i \in Nat \ {0}
    OBVIOUS
  <1>2. Max(1 .. i) = i
    BY <1>1, GreatestOfInterval
  <1>3. 1 .. i \in SUBSET (1 .. n)
    OBVIOUS
  <1>4. (1 .. i) \ {i} = 1 .. i - 1
    OBVIOUS
  <1>5. i \in 0 .. n /\ i - 1 \in 0 .. n
    OBVIOUS
  <1> QED BY <1>1, <1>2, <1>3, <1>4, <1>5

(***************************************************************************)
(* FoldLeft recurs over sets of indices; with an operation that stays in T *)
(* such a recursion exists.                                                *)
(***************************************************************************)
Folding(h, F, base, n) ==
  \A u \in SUBSET (1 .. n) :
    h[u] = IF u = {} THEN base ELSE F[<<Max(u), h[u \ {Max(u)}]>>]

Folds(T, F, base, n) == \E h \in [SUBSET (1 .. n) -> T] : Folding(h, F, base, n)

LEMMA FoldingNext ==
  ASSUME NEW n \in Nat, NEW T, NEW base \in T, NEW F \in [(1 .. n) \X T -> T],
         NEW k \in Nat, k + 1 <= n, Folds(T, F, base, k)
  PROVE  Folds(T, F, base, k + 1)
  <1>0. PICK g \in [SUBSET (1 .. k) -> T] : Folding(g, F, base, k)
    BY DEF Folds
  <1> DEFINE h == [u \in SUBSET (1 .. k + 1) |->
                     IF k + 1 \in u THEN F[<<k + 1, g[u \ {k + 1}]>>] ELSE g[u]]
  <1>1. \A u \in SUBSET (1 .. k + 1) : k + 1 \notin u => u \in SUBSET (1 .. k) /\ h[u] = g[u]
    OBVIOUS
  <1>2. \A u \in SUBSET (1 .. k + 1) : u \ {k + 1} \in SUBSET (1 .. k)
    OBVIOUS
  <1>3. h \in [SUBSET (1 .. k + 1) -> T]
    <2>1. SUFFICES ASSUME NEW u \in SUBSET (1 .. k + 1)
                   PROVE  (IF k + 1 \in u THEN F[<<k + 1, g[u \ {k + 1}]>>] ELSE g[u]) \in T
      OBVIOUS
    <2>2. CASE k + 1 \in u
      <3>1. g[u \ {k + 1}] \in T /\ k + 1 \in 1 .. n
        BY <1>2
      <3> QED BY <2>2, <3>1
    <2>3. CASE k + 1 \notin u
      BY <1>1, <2>3
    <2> QED BY <2>2, <2>3
  <1>4. ASSUME NEW u \in SUBSET (1 .. k + 1)
        PROVE  h[u] = IF u = {} THEN base ELSE F[<<Max(u), h[u \ {Max(u)}]>>]
    <2>1. CASE k + 1 \in u
      <3>1. Max(u) = k + 1
        BY <2>1, GreatestOfInterval
      <3>2. u \ {k + 1} \in SUBSET (1 .. k + 1) /\ k + 1 \notin u \ {k + 1}
        OBVIOUS
      <3>3. h[u \ {k + 1}] = g[u \ {k + 1}]
        BY <1>1, <3>2
      <3>4. h[u] = F[<<k + 1, g[u \ {k + 1}]>>]
        BY <2>1
      <3> QED BY <2>1, <3>1, <3>3, <3>4
    <2>2. CASE k + 1 \notin u
      <3>1. u \in SUBSET (1 .. k) /\ h[u] = g[u]
        BY <1>1, <2>2
      <3>2. h[u \ {Max(u)}] = g[u \ {Max(u)}]
        <4>1. u \ {Max(u)} \in SUBSET (1 .. k + 1) /\ k + 1 \notin u \ {Max(u)}
          BY <2>2
        <4> QED BY <1>1, <4>1
      <3>3. g[u] = IF u = {} THEN base ELSE F[<<Max(u), g[u \ {Max(u)}]>>]
        BY <1>0, <3>1 DEF Folding
      <3> QED BY <3>1, <3>2, <3>3
    <2> QED BY <2>1, <2>2
  <1> HIDE DEF h
  <1>5. Folding(h, F, base, k + 1)
    BY <1>4 DEF Folding
  <1> QED BY <1>3, <1>5 DEF Folds

LEMMA FoldingExists ==
  ASSUME NEW n \in Nat, NEW T, NEW base \in T, NEW F \in [(1 .. n) \X T -> T]
  PROVE  Folds(T, F, base, n)
  <1> DEFINE missing == {k \in 0 .. n : ~ Folds(T, F, base, k)}
  <1>1. SUFFICES ASSUME missing # {} PROVE FALSE
    OBVIOUS
  <1>2. PICK k \in missing : \A j \in missing : k <= j
    <2>1. missing \in SUBSET Nat
      OBVIOUS
    <2> HIDE DEF missing
    <2> QED BY <1>1, <2>1, LeastExists
  <1>3. Folds(T, F, base, 0)
    <2> DEFINE h == [u \in SUBSET (1 .. 0) |-> base]
    <2>1. \A u \in SUBSET (1 .. 0) : u = {}
      OBVIOUS
    <2>2. Folding(h, F, base, 0) /\ h \in [SUBSET (1 .. 0) -> T]
      BY <2>1 DEF Folding
    <2> HIDE DEF h
    <2> QED BY <2>2 DEF Folds
  <1>4. k # 0 /\ k - 1 \in Nat /\ (k - 1) + 1 = k /\ k <= n
    BY <1>2, <1>3
  <1>5. Folds(T, F, base, k - 1)
    BY <1>2, <1>4
  <1>6. PICK j \in Nat : j = k - 1 /\ j + 1 = k
    BY <1>4
  <1>7. Folds(T, F, base, j + 1)
    BY <1>4, <1>5, <1>6, FoldingNext
  <1> QED BY <1>2, <1>6, <1>7
=============================================================================

------------------------- MODULE VulkanFrontProofs -------------------------
(***************************************************************************)
(* Conversations over the KV cache, for any number of clients, turns and   *)
(* tokens and any block size: FrontInv is inductive, and from it follow    *)
(* where pos is and what the row of every sample saw.                      *)
(***************************************************************************)
EXTENDS VulkanFront, QueueProofs

-----------------------------------------------------------------------------
(***************************************************************************)
(* forward_logits stores one row after the other.                          *)
(***************************************************************************)
Row(c, tokens, first, blocks, i) == StoreRow(c, blocks, first + i - 1, tokens[i])

Iterates(g, cache, tokens, first, blocks, idx, k) ==
  g = [s \in SUBSET (1 .. k) |->
         IF s = {} THEN cache ELSE Row(g[s \ {Max(s)}], tokens, first, blocks, idx[Max(s)])]

LEMMA ForwardUnfolds ==
  ASSUME NEW cache, NEW tokens, NEW first, NEW blocks, NEW n \in Nat, DOMAIN tokens = 1 .. n,
         NEW idx, idx = [i \in 1 .. n |-> i]
  PROVE  forward_logits(cache, tokens, first, blocks)
           = (CHOOSE g : Iterates(g, cache, tokens, first, blocks, idx, n))[1 .. n]
  BY DEF forward_logits, FoldLeft, MapThenFoldSet, Iterates, Row

LEMMA IterateNext ==
  ASSUME NEW cache, NEW tokens, NEW first, NEW blocks, NEW idx, NEW k \in Nat,
         NEW g, Iterates(g, cache, tokens, first, blocks, idx, k)
  PROVE  \E h : Iterates(h, cache, tokens, first, blocks, idx, k + 1)
  <1> DEFINE row(c, i) == Row(c, tokens, first, blocks, idx[i])
             h == [s \in SUBSET (1 .. k + 1) |->
                     IF k + 1 \in s THEN row(g[s \ {k + 1}], k + 1) ELSE g[s]]
  <1>1. SUFFICES ASSUME NEW s \in SUBSET (1 .. k + 1)
                 PROVE  h[s] = IF s = {} THEN cache ELSE row(h[s \ {Max(s)}], Max(s))
    <2>1. h = [s \in SUBSET (1 .. k + 1) |->
                 IF s = {} THEN cache ELSE row(h[s \ {Max(s)}], Max(s))]
      BY <1>1
    <2> QED BY <2>1 DEF Iterates
  <1>2. \A t \in SUBSET (1 .. k + 1) : k + 1 \notin t => t \in SUBSET (1 .. k) /\ h[t] = g[t]
    OBVIOUS
  <1>3. CASE k + 1 \in s
    <2>1. Max(s) = k + 1
      BY <1>3, GreatestOfInterval
    <2>2. h[s \ {k + 1}] = g[s \ {k + 1}]
      BY <1>2
    <2>3. h[s] = row(g[s \ {k + 1}], k + 1)
      BY <1>3
    <2> QED BY <1>3, <2>1, <2>2, <2>3
  <1>4. CASE k + 1 \notin s
    <2>1. s \in SUBSET (1 .. k) /\ h[s] = g[s]
      BY <1>2, <1>4
    <2>2. h[s \ {Max(s)}] = g[s \ {Max(s)}]
      BY <1>2, <1>4
    <2>3. g[s] = IF s = {} THEN cache ELSE row(g[s \ {Max(s)}], Max(s))
      BY <2>1 DEF Iterates
    <2> QED BY <2>1, <2>2, <2>3
  <1> QED BY <1>3, <1>4

LEMMA IterateExists ==
  ASSUME NEW cache, NEW tokens, NEW first, NEW blocks, NEW idx, NEW n \in Nat
  PROVE  \E g : Iterates(g, cache, tokens, first, blocks, idx, n)
  <1> DEFINE has(k) == \E g : Iterates(g, cache, tokens, first, blocks, idx, k)
             missing == {k \in Nat : ~ has(k)}
  <1>1. SUFFICES ASSUME missing # {} PROVE FALSE
    OBVIOUS
  <1>2. PICK k \in missing : \A j \in missing : k <= j
    BY <1>1, LeastExists
  <1>3. has(0)
    <2> DEFINE g == [s \in SUBSET (1 .. 0) |-> cache]
    <2>1. \A s \in SUBSET (1 .. 0) : s = {}
      OBVIOUS
    <2>2. Iterates(g, cache, tokens, first, blocks, idx, 0)
      BY <2>1 DEF Iterates
    <2> QED BY <2>2
  <1>4. k # 0 /\ k - 1 \in Nat /\ k - 1 \notin missing /\ (k - 1) + 1 = k
    BY <1>2, <1>3
  <1>5. has(k - 1)
    BY <1>4
  <1>6. has((k - 1) + 1)
    BY <1>4, <1>5, IterateNext
  <1> QED BY <1>2, <1>4, <1>6

\* r[i] is the cache after the first i rows.
Runs(r, cache, tokens, first, blocks, n) ==
  /\ r[0] = cache
  /\ \A i \in 1 .. n : r[i] = StoreRow(r[i - 1], blocks, first + i - 1, tokens[i])
  /\ forward_logits(cache, tokens, first, blocks) = r[n]

LEMMA ForwardRuns ==
  ASSUME NEW cache, NEW tokens, NEW first, NEW blocks, NEW n \in Nat, DOMAIN tokens = 1 .. n
  PROVE  \E r : Runs(r, cache, tokens, first, blocks, n)
  <1>1. PICK idx : idx = [i \in 1 .. n |-> i]
    OBVIOUS
  <1>2. PICK g : /\ Iterates(g, cache, tokens, first, blocks, idx, n)
                 /\ forward_logits(cache, tokens, first, blocks) = g[1 .. n]
    <2> DEFINE g == CHOOSE g : Iterates(g, cache, tokens, first, blocks, idx, n)
    <2>1. Iterates(g, cache, tokens, first, blocks, idx, n)
      BY IterateExists
    <2>2. forward_logits(cache, tokens, first, blocks) = g[1 .. n]
      BY <1>1, ForwardUnfolds
    <2> HIDE DEF g
    <2> QED BY <2>1, <2>2
  <1> DEFINE r == [i \in 0 .. n |-> g[1 .. i]]
  <1>3. \A s \in SUBSET (1 .. n) :
          g[s] = IF s = {} THEN cache ELSE Row(g[s \ {Max(s)}], tokens, first, blocks, idx[Max(s)])
    BY <1>2 DEF Iterates
  <1>4. r[0] = cache
    <2>1. g[{}] = cache
      BY <1>3
    <2>2. 1 .. 0 = {}
      OBVIOUS
    <2> QED BY <2>1, <2>2
  <1>5. ASSUME NEW i \in 1 .. n PROVE r[i] = Row(r[i - 1], tokens, first, blocks, i)
    <2>1. Max(1 .. i) = i /\ idx[i] = i
      BY <1>1, GreatestOfInterval
    <2>2. (1 .. i) \ {i} = 1 .. i - 1
      OBVIOUS
    <2>3. 1 .. i \in SUBSET (1 .. n) /\ 1 .. i # {}
      OBVIOUS
    <2>4. g[1 .. i] = Row(g[1 .. i - 1], tokens, first, blocks, i)
      BY <1>3, <2>1, <2>2, <2>3
    <2> QED BY <2>4
  <1>6. forward_logits(cache, tokens, first, blocks) = r[n]
    BY <1>2
  <1> HIDE DEF r
  <1> QED BY <1>4, <1>5, <1>6 DEF Runs, Row

LEMMA SlotBounds == BlockSize \in Nat \ {0} /\ NumSlots \in Nat
  BY KvTurnAssumption

\* The entries before slot s are those of w, and the table has their blocks.
FindsBefore(w, c, blocks, s) ==
  /\ DOMAIN c = Slots
  /\ \A p \in 0 .. s - 1 : c[p] = SubSeq(w, 1, p + 1) /\ p \div BlockSize \in blocks

\* A row that finds the entries before it stores the entry of its own prefix.
LEMMA StoreRight ==
  ASSUME NEW S, NEW w \in Seq(S), NEW s \in Slots, s < Len(w), NEW c, NEW blocks,
         FindsBefore(w, c, blocks, s)
  PROVE  StoreRow(c, blocks, s, w[s + 1]) = [c EXCEPT ![s] = SubSeq(w, 1, s + 1)]
  <1> DEFINE e == [i \in 1 .. s |-> Last(Found(c, blocks, i - 1))]
  <1>1. s \in Nat /\ Len(w) \in Nat /\ s + 1 \in 1 .. Len(w) /\ \A i \in 1 .. Len(w) : w[i] \in S
    <2>1. Len(w) \in Nat /\ \A i \in 1 .. Len(w) : w[i] \in S
      BY LenProperties, ElementOfSeq
    <2>2. s \in Nat
      BY SlotBounds DEF Slots
    <2> QED BY <2>1, <2>2
  <1>2. ASSUME NEW i \in 1 .. s PROVE Last(Found(c, blocks, i - 1)) = w[i]
    <2>1. i - 1 \in 0 .. s - 1 /\ (i - 1) + 1 = i
      BY <1>1
    <2>2. Found(c, blocks, i - 1) = SubSeq(w, 1, i)
      BY <2>1 DEF Found, FindsBefore
    <2>3. \A j \in 1 .. i : w[j] \in S
      BY <1>1
    <2>4. Len(SubSeq(w, 1, i)) = i /\ SubSeq(w, 1, i)[i] = w[i]
      BY <1>1, <2>3, SubSeqProperties
    <2> QED BY <2>2, <2>4 DEF Last
  <1>3. e = [i \in 1 .. s |-> w[i]]
    BY <1>2
  <1>4. SubSeq(w, 1, s) = [i \in 1 .. s |-> w[i]]
    <2>1. \A i \in 1 .. s : w[i] \in S
      BY <1>1
    <2>2. /\ SubSeq(w, 1, s) \in Seq(S) /\ Len(SubSeq(w, 1, s)) = s
          /\ \A i \in 1 .. s : SubSeq(w, 1, s)[i] = w[i]
      BY <1>1, <2>1, SubSeqProperties
    <2>3. SubSeq(w, 1, s) \in [1 .. s -> S]
      BY <2>2, LenProperties
    <2> QED BY <2>2, <2>3
  <1>5. SubSeq(w, 1, s + 1) = SubSeq(w, 1, s) \o <<w[s + 1]>>
    <2>1. SubSeq(w, 1, s + 1) = SubSeq(w, 1, (s + 1) - 1) \o <<w[s + 1]>>
      BY <1>1, SubSeqRecursiveSecond
    <2> QED BY <1>1, <2>1
  <1> QED BY <1>3, <1>4, <1>5 DEF StoreRow

\* The cache has the first n tokens of w.
Has(cache, w, n) == \A p \in 0 .. n - 1 : cache[p] = SubSeq(w, 1, p + 1)

\* The tokens end w, the cache holds what comes before them, and the table has it all.
Continues(w, tokens, first, cache, blocks) ==
  /\ DOMAIN cache = Slots
  /\ first + Len(tokens) = Len(w) /\ Len(w) <= NumSlots
  /\ \A i \in 1 .. Len(tokens) : tokens[i] = w[first + i]
  /\ Has(cache, w, first)
  /\ \A p \in 0 .. Len(w) - 1 : p \div BlockSize \in blocks

LEMMA ForwardStores ==
  ASSUME NEW S, NEW w \in Seq(S), NEW tokens \in Seq(S), NEW first \in Nat, NEW cache, NEW blocks,
         Continues(w, tokens, first, cache, blocks)
  PROVE  Has(forward_logits(cache, tokens, first, blocks), w, Len(w))
  <1> USE DEF Has
  <1>0. /\ DOMAIN cache = Slots
        /\ first + Len(tokens) = Len(w) /\ Len(w) <= NumSlots
        /\ \A i \in 1 .. Len(tokens) : tokens[i] = w[first + i]
        /\ \A p \in 0 .. first - 1 : cache[p] = SubSeq(w, 1, p + 1)
        /\ \A p \in 0 .. Len(w) - 1 : p \div BlockSize \in blocks
    BY DEF Continues
  <1>1. PICK n \in Nat : n = Len(tokens) /\ DOMAIN tokens = 1 .. n /\ Len(w) \in Nat
    BY LenProperties
  <1>2. PICK r : Runs(r, cache, tokens, first, blocks, n)
    BY <1>1, ForwardRuns
  <1> DEFINE good(k) == /\ DOMAIN r[k] = Slots
                        /\ \A p \in 0 .. first + k - 1 : r[k][p] = SubSeq(w, 1, p + 1)
             odd == {k \in 0 .. n : ~ good(k)}
  <1>3. good(0)
    <2>1. r[0] = cache
      BY <1>2 DEF Runs
    <2> QED BY <1>0, <2>1
  <1>4. ASSUME NEW k \in 1 .. n, good(k - 1) PROVE good(k)
    <2> DEFINE s == first + k - 1
    <2>1. /\ s \in Nat /\ s < Len(w) /\ s \in Slots /\ s + 1 = first + k
          /\ first + (k - 1) - 1 = s - 1 /\ first + k - 1 = s
      <3>1. PICK m \in Nat : m = Len(w) /\ first + n = m /\ m <= NumSlots
        BY <1>0, <1>1
      <3>2. s \in 0 .. m - 1 /\ s + 1 = first + k
        BY <3>1
      <3> HIDE DEF s
      <3>3. s \in Slots
        BY <3>1, <3>2, SlotBounds DEF Slots
      <3>4. s \in Nat /\ s < Len(w)
        BY <3>1, <3>2
      <3> QED BY <3>2, <3>3, <3>4
    <2>2. r[k] = StoreRow(r[k - 1], blocks, s, w[s + 1])
      <3>1. r[k] = StoreRow(r[k - 1], blocks, s, tokens[k])
        BY <1>2 DEF Runs
      <3>2. tokens[k] = w[first + k]
        BY <1>0, <1>1
      <3> QED BY <2>1, <3>1, <3>2
    <2> HIDE DEF s
    <2>3. \A p \in 0 .. s - 1 : r[k - 1][p] = SubSeq(w, 1, p + 1) /\ p \div BlockSize \in blocks
      <3>1. \A p \in 0 .. s - 1 : p \in 0 .. Len(w) - 1
        BY <2>1
      <3> QED BY <1>0, <1>4, <2>1, <3>1
    <2>4. DOMAIN r[k - 1] = Slots
      BY <1>4
    <2>5. FindsBefore(w, r[k - 1], blocks, s)
      BY <2>3, <2>4 DEF FindsBefore
    <2>6. r[k] = [r[k - 1] EXCEPT ![s] = SubSeq(w, 1, s + 1)]
      <3>1. w \in Seq(S) /\ s \in Slots /\ s < Len(w)
        BY <2>1
      <3>2. PICK c : c = r[k - 1]
        OBVIOUS
      <3>3. FindsBefore(w, c, blocks, s)
        BY <2>5, <3>2
      <3>4. StoreRow(c, blocks, s, w[s + 1]) = [c EXCEPT ![s] = SubSeq(w, 1, s + 1)]
        BY <3>1, <3>3, StoreRight
      <3> QED BY <2>2, <3>2, <3>4
    <2>7. ASSUME NEW p \in 0 .. s PROVE r[k][p] = SubSeq(w, 1, p + 1)
      <3>1. p = s \/ p \in 0 .. s - 1
        BY <2>1
      <3>2. p \in Slots
        <4>1. PICK m \in Nat : m = NumSlots
          BY SlotBounds
        <4>2. s \in 0 .. m - 1
          BY <2>1, <4>1 DEF Slots
        <4>3. p \in 0 .. m - 1
          BY <2>1, <4>2
        <4> QED BY <4>1, <4>3 DEF Slots
      <3> QED BY <2>3, <2>4, <2>6, <3>1, <3>2
    <2> QED BY <2>1, <2>4, <2>6, <2>7
  <1> HIDE DEF good
  <1>5. odd = {}
    <2>1. SUFFICES ASSUME odd # {} PROVE FALSE
      OBVIOUS
    <2>2. PICK k \in odd : \A j \in odd : k <= j
      <3>1. odd \in SUBSET Nat
        BY <1>1
      <3> HIDE DEF odd
      <3> QED BY <2>1, <3>1, LeastExists
    <2>3. k # 0
      BY <1>3, <2>2
    <2>4. k \in 1 .. n /\ k - 1 \in 0 .. n /\ k - 1 \notin odd
      BY <1>1, <2>2, <2>3
    <2>5. good(k - 1)
      BY <2>4
    <2> QED BY <1>4, <2>2, <2>4, <2>5
  <1>6. good(n)
    BY <1>1, <1>5
  <1>7. forward_logits(cache, tokens, first, blocks) = r[n] /\ first + n = Len(w)
    BY <1>0, <1>1, <1>2 DEF Runs
  <1> QED BY <1>6, <1>7 DEF good

\* The cache keeps its slots, whatever is fed.
LEMMA ForwardDomain ==
  ASSUME NEW cache, NEW tokens, NEW first, NEW blocks, NEW n \in Nat,
         DOMAIN tokens = 1 .. n, DOMAIN cache = Slots
  PROVE  DOMAIN forward_logits(cache, tokens, first, blocks) = Slots
  <1>1. PICK r : Runs(r, cache, tokens, first, blocks, n)
    BY ForwardRuns
  <1> DEFINE odd == {k \in 0 .. n : DOMAIN r[k] # Slots}
  <1>2. SUFFICES ASSUME odd # {} PROVE FALSE
    BY <1>1 DEF Runs
  <1>3. PICK k \in odd : \A j \in odd : k <= j
    <2>1. odd \in SUBSET Nat
      OBVIOUS
    <2> HIDE DEF odd
    <2> QED BY <1>2, <2>1, LeastExists
  <1>4. k # 0
    BY <1>1, <1>3 DEF Runs
  <1>5. k \in 1 .. n /\ DOMAIN r[k - 1] = Slots
    BY <1>3, <1>4
  <1>6. r[k] = StoreRow(r[k - 1], blocks, first + k - 1, tokens[k])
    BY <1>1, <1>5 DEF Runs
  <1> QED BY <1>3, <1>5, <1>6 DEF StoreRow

\* The tokens of a conversation, joined.
LEMMA TokensAssociative ==
  \A u, v, w \in Seq(Tokens) : (u \o v) \o w = u \o (v \o w)
  BY ConcatAssociative, SMTT(30)

LEMMA TokensAppend == \A u \in Seq(Tokens), x \in Tokens : Append(u, x) = u \o <<x>>
  BY AppendIsConcat, SMTT(30)

-----------------------------------------------------------------------------
(***************************************************************************)
(* What was fed of a conversation, turn by turn.                           *)
(***************************************************************************)
\* A reply that is not empty: everything but its last token, and that token.
LEMMA FrontLast ==
  ASSUME NEW S, NEW q \in Seq(S), q # <<>>
  PROVE  /\ Front(q) \in Seq(S) /\ Len(Front(q)) = Len(q) - 1
         /\ Last(q) \in S /\ Append(Front(q), Last(q)) = q
  <1>1. Len(q) \in Nat \ {0} /\ \A i \in 1 .. Len(q) : q[i] \in S
    BY EmptySeq, ElementOfSeq
  <1>2. \A i \in 1 .. Len(q) - 1 : q[i] \in S
    BY <1>1
  <1>3. Front(q) \in Seq(S) /\ Len(Front(q)) = Len(q) - 1
    <2>1. PICK n \in Nat : n = Len(q) - 1
      BY <1>1
    <2>2. \A i \in 1 .. n : q[i] \in S
      BY <1>2, <2>1
    <2>3. SubSeq(q, 1, n) \in Seq(S) /\ Len(SubSeq(q, 1, n)) = n
      BY <2>2, SubSeqProperties
    <2> QED BY <2>1, <2>3 DEF Front
  <1>4. Last(q) \in S
    BY <1>1 DEF Last
  <1>5. SubSeq(q, 1, Len(q)) = SubSeq(q, 1, Len(q) - 1) \o <<q[Len(q)]>>
    BY <1>1, SubSeqRecursiveSecond
  <1>6. SubSeq(q, 1, Len(q)) = q
    BY SubSeqFull
  <1>7. Append(Front(q), Last(q)) = Front(q) \o <<Last(q)>>
    BY <1>3, <1>4, AppendIsConcat
  <1> QED BY <1>3, <1>4, <1>5, <1>6, <1>7 DEF Front, Last

LEMMA FrontOfAppend ==
  ASSUME NEW S, NEW q \in Seq(S), NEW x \in S
  PROVE  Front(Append(q, x)) = q /\ Last(Append(q, x)) = x
  <1>1. Append(q, x) \in Seq(S) /\ Append(q, x) # <<>>
    BY AppendProperties
  <1>2. /\ Front(Append(q, x)) \in Seq(S) /\ Last(Append(q, x)) \in S
        /\ Append(Front(Append(q, x)), Last(Append(q, x))) = Append(q, x)
    BY <1>1, FrontLast
  <1> QED BY <1>2, AppendInjective

LEMMA KeptType ==
  ASSUME NEW turn \in Turns
  PROVE  /\ Kept(turn) \in Seq(Tokens)
         /\ turn.prompt \in Seq(Tokens) /\ turn.reply \in Seq(Tokens) /\ turn.reply # <<>>
         /\ Len(Kept(turn)) = Len(turn.prompt) + Len(turn.reply) - 1
  <1>1. turn.prompt \in Seq(Tokens) /\ turn.reply \in Seq(Tokens) /\ turn.reply # <<>>
    BY DEF Turns
  <1>2. Front(turn.reply) \in Seq(Tokens) /\ Len(Front(turn.reply)) = Len(turn.reply) - 1
    BY <1>1, FrontLast
  <1>3. Len(turn.prompt) \in Nat /\ Len(turn.reply) \in Nat
    BY <1>1, LenProperties
  <1>4. PICK f \in Seq(Tokens) : f = Front(turn.reply)
    BY <1>2
  <1>5. turn.prompt \o f \in Seq(Tokens) /\ Len(turn.prompt \o f) = Len(turn.prompt) + Len(f)
    BY <1>1, ConcatProperties
  <1> QED BY <1>1, <1>2, <1>3, <1>4, <1>5 DEF Kept

\* What the cache keeps of these turns.
KeptOf(turns, n) == FlattenSeq([i \in 1 .. n |-> Kept(turns[i])])

LEMMA KeptSeq ==
  ASSUME NEW turns \in Seq(Turns), NEW n \in Nat, n <= Len(turns)
  PROVE  /\ [i \in 1 .. n |-> Kept(turns[i])] \in Seq(Seq(Tokens))
         /\ KeptOf(turns, n) \in Seq(Tokens)
  <1>1. \A i \in 1 .. n : turns[i] \in Turns
    BY LenProperties, ElementOfSeq
  <1>2. \A i \in 1 .. n : Kept(turns[i]) \in Seq(Tokens)
    BY <1>1, KeptType
  <1>3. [i \in 1 .. n |-> Kept(turns[i])] \in Seq(Seq(Tokens))
    BY <1>2, SeqDef
  <1> QED BY <1>3, FlattenType DEF KeptOf

LEMMA KeptNext ==
  ASSUME NEW turns \in Seq(Turns), NEW n \in Nat, n < Len(turns)
  PROVE  KeptOf(turns, n + 1) = KeptOf(turns, n) \o Kept(turns[n + 1])
  <1> DEFINE a == [i \in 1 .. n |-> Kept(turns[i])]
             b == [i \in 1 .. n + 1 |-> Kept(turns[i])]
             x == Kept(turns[n + 1])
  <1>1. Len(turns) \in Nat /\ n <= Len(turns) /\ n + 1 <= Len(turns) /\ n + 1 \in 1 .. Len(turns)
    BY LenProperties
  <1>2. a \in Seq(Seq(Tokens)) /\ b \in Seq(Seq(Tokens))
    BY <1>1, KeptSeq
  <1>3. x \in Seq(Tokens)
    BY <1>1, ElementOfSeq, KeptType
  <1>4. Len(a) = n /\ Len(b) = n + 1 /\ b[n + 1] = x /\ \A i \in 1 .. n : b[i] = a[i]
    BY <1>2, LenProperties
  <1> HIDE DEF a, b, x
  <1>5. Append(a, x) = b
    <2>1. /\ Append(a, x) \in Seq(Seq(Tokens)) /\ Len(Append(a, x)) = n + 1
          /\ (\A i \in 1 .. n : Append(a, x)[i] = a[i]) /\ Append(a, x)[n + 1] = x
      BY <1>2, <1>3, <1>4, AppendProperties
    <2>2. \A i \in 1 .. n + 1 : Append(a, x)[i] = b[i]
      BY <1>4, <2>1
    <2> QED BY <1>2, <1>4, <2>1, <2>2, SeqEqual
  <1>6. FlattenSeq(Append(a, x)) = FlattenSeq(a) \o x
    BY <1>2, <1>3, FlattenAppend
  <1> QED BY <1>5, <1>6 DEF KeptOf, a, b, x

\* What was fed, where the last turn began and whether that was in the first block.
FedOf(turns) == KeptOf(turns, Len(turns))

BaseOf(turns) == Len(KeptOf(turns, Len(turns) - 1))

BeganEarly(turns) == turns = <<>> \/ BaseOf(turns) < BlockSize

\* The earlier turns and all but the last token of the current one.
LEMMA FedIs ==
  ASSUME NEW turns \in Seq(Turns), turns # <<>>
  PROVE  LET last == turns[Len(turns)]
         IN  /\ Len(turns) \in Nat \ {0} /\ last \in Turns
             /\ KeptOf(turns, Len(turns) - 1) \in Seq(Tokens) /\ FedOf(turns) \in Seq(Tokens)
             /\ BaseOf(turns) \in Nat
             /\ FedOf(turns) = KeptOf(turns, Len(turns) - 1) \o Kept(last)
             /\ Len(FedOf(turns)) = BaseOf(turns) + Len(last.prompt) + Len(last.reply) - 1
             /\ BaseOf(turns) <= Len(FedOf(turns))
  <1> DEFINE last == turns[Len(turns)]
  <1>1. Len(turns) \in Nat \ {0}
    BY EmptySeq
  <1>2. last \in Turns
    BY <1>1, ElementOfSeq
  <1>3. PICK n \in Nat : n + 1 = Len(turns) /\ n = Len(turns) - 1
    BY <1>1
  <1>4. PICK e : e = KeptOf(turns, n) /\ FedOf(turns) = KeptOf(turns, n + 1) /\ BaseOf(turns) = Len(e)
    BY <1>3 DEF BaseOf, FedOf
  <1>5. e \in Seq(Tokens) /\ FedOf(turns) = e \o Kept(last)
    <2>1. n <= Len(turns) /\ n < Len(turns)
      BY <1>3
    <2>2. KeptOf(turns, n) \in Seq(Tokens)
      BY <2>1, KeptSeq
    <2>3. KeptOf(turns, n + 1) = KeptOf(turns, n) \o Kept(turns[n + 1])
      BY <2>1, KeptNext
    <2> QED BY <1>3, <1>4, <2>2, <2>3
  <1>6. /\ Kept(last) \in Seq(Tokens) /\ Len(Kept(last)) = Len(last.prompt) + Len(last.reply) - 1
        /\ last.prompt \in Seq(Tokens) /\ last.reply \in Seq(Tokens) /\ last.reply # <<>>
    BY <1>2, KeptType
  <1> HIDE DEF last
  <1>7. /\ FedOf(turns) \in Seq(Tokens) /\ Len(FedOf(turns)) = BaseOf(turns) + Len(Kept(last))
        /\ BaseOf(turns) \in Nat
    BY <1>4, <1>5, <1>6, ConcatProperties, LenProperties
  <1>8. Len(Kept(last)) \in Nat /\ Len(last.prompt) \in Nat /\ Len(last.reply) \in Nat
    BY <1>6, LenProperties
  <1>9. /\ Len(FedOf(turns)) = BaseOf(turns) + Len(last.prompt) + Len(last.reply) - 1
        /\ BaseOf(turns) <= Len(FedOf(turns))
    <2>1. PICK x, k, y, z \in Nat : /\ x = BaseOf(turns) /\ k = Len(Kept(last))
                                   /\ y = Len(last.prompt) /\ z = Len(last.reply)
      BY <1>7, <1>8
    <2>2. k = y + z - 1 /\ Len(FedOf(turns)) = x + k
      BY <1>6, <1>7, <2>1
    <2>3. Len(FedOf(turns)) = x + y + z - 1 /\ x <= Len(FedOf(turns))
      BY <2>2
    <2> QED BY <2>1, <2>3
  <1> QED BY <1>1, <1>2, <1>3, <1>4, <1>5, <1>7, <1>9 DEF last

\* The same of a client.
LEMMA ClientFed ==
  ASSUME NEW c, Len(told[c]) \in Nat
  PROVE  /\ Fed(c) = FedOf(told[c])
         /\ Earlier(c) = KeptOf(told[c], Len(told[c]) - 1)
         /\ Base(c) = BaseOf(told[c])
         /\ Early(c) <=> BeganEarly(told[c])
  BY DEF Fed, FedOf, Earlier, KeptOf, Base, BaseOf, Early, BeganEarly

\* The row that was sampled: behind what was fed, and with the last token when the
\* turn was stopped.
LEMMA ConversationIs ==
  ASSUME NEW c, told[c] \in Seq(Turns), told[c] # <<>>
  PROVE  LET last == told[c][Len(told[c])]
         IN  Conversation(c) = IF phase[c] = "stopped" THEN Append(Fed(c), Last(last.reply))
                                                       ELSE Fed(c)
  <1> DEFINE last == told[c][Len(told[c])]
             p == last.prompt
             q == last.reply
             f == Front(q)
             e == Earlier(c)
  <1>1. /\ last \in Turns /\ e \in Seq(Tokens) /\ Fed(c) = e \o (p \o f)
    BY FedIs, ClientFed, LenProperties DEF Kept
  <1>2. p \in Seq(Tokens) /\ q \in Seq(Tokens) /\ q # <<>>
    BY <1>1, KeptType
  <1>3. f \in Seq(Tokens) /\ Last(q) \in Tokens /\ Append(f, Last(q)) = q
    BY <1>2, FrontLast
  <1>4. Conversation(c) = (e \o p) \o (IF phase[c] = "stopped" THEN q ELSE f)
    BY DEF Conversation
  <1> HIDE DEF last, p, q, f, e
  <1>5. (e \o p) \o f = e \o (p \o f) /\ (e \o p) \o f \in Seq(Tokens) /\ e \o p \in Seq(Tokens)
    BY <1>1, <1>2, <1>3, TokensAssociative, ConcatProperties
  <1>6. Append((e \o p) \o f, Last(q)) = (e \o p) \o q
    <2>1. <<Last(q)>> \in Seq(Tokens)
      BY <1>3
    <2>2. Append((e \o p) \o f, Last(q)) = ((e \o p) \o f) \o <<Last(q)>>
      BY <1>3, <1>5, AppendIsConcat
    <2>3. ((e \o p) \o f) \o <<Last(q)>> = (e \o p) \o (f \o <<Last(q)>>)
      <3>1. PICK o \in Seq(Tokens) : o = <<Last(q)>>
        BY <2>1
      <3>2. PICK d \in Seq(Tokens) : d = e \o p
        BY <1>5
      <3>3. (d \o f) \o o = d \o (f \o o)
        BY <1>3, TokensAssociative, Zenon
      <3> QED BY <3>1, <3>2, <3>3, Zenon
    <2>4. f \o <<Last(q)>> = q
      BY <1>3, AppendIsConcat
    <2> QED BY <2>2, <2>3, <2>4
  <1>7. Conversation(c) = IF phase[c] = "stopped" THEN Append(Fed(c), Last(q)) ELSE Fed(c)
    BY <1>1, <1>4, <1>5, <1>6
  <1> QED BY <1>7 DEF last, q

\* A turn begins with this prompt and this token.
Asked(new, turns, p, t) == new = Append(turns, [prompt |-> p, reply |-> <<t>>])

\* A new turn was fed but for its first token.
LEMMA AskedTurn ==
  ASSUME NEW turns \in Seq(Turns), NEW p \in Seq(Tokens), NEW t \in Tokens,
         NEW new, Asked(new, turns, p, t)
  PROVE  /\ new \in Seq(Turns) /\ new # <<>> /\ Len(new) = Len(turns) + 1
         /\ new[Len(new)] = [prompt |-> p, reply |-> <<t>>]
         /\ FedOf(turns) \in Seq(Tokens)
         /\ BaseOf(new) = Len(FedOf(turns))
         /\ FedOf(new) = FedOf(turns) \o p
  <1>1. PICK n \in Nat : n = Len(turns)
    BY LenProperties
  <1>2. PICK turn : turn = [prompt |-> p, reply |-> <<t>>]
    OBVIOUS
  <1>3. turn \in Turns /\ Front(turn.reply) = <<>>
    <2>1. <<t>> \in Seq(Tokens) /\ <<t>> # <<>>
      OBVIOUS
    <2>2. turn \in Turns
      BY <1>2, <2>1 DEF Turns
    <2>3. <<>> \in Seq(Tokens) /\ Append(<<>>, t) = <<t>>
      OBVIOUS
    <2>4. Front(Append(<<>>, t)) = <<>>
      BY <2>3, FrontOfAppend
    <2> QED BY <1>2, <2>2, <2>3, <2>4
  <1>4. /\ new \in Seq(Turns) /\ new # <<>> /\ Len(new) = n + 1 /\ new[n + 1] = turn
        /\ \A i \in 1 .. n : new[i] = turns[i]
    <2>1. new = Append(turns, turn)
      BY <1>2 DEF Asked
    <2> QED BY <1>1, <1>3, <2>1, AppendProperties
  <1>5. KeptOf(new, n) = FedOf(turns) /\ FedOf(turns) \in Seq(Tokens)
    <2>1. [i \in 1 .. n |-> Kept(new[i])] = [i \in 1 .. n |-> Kept(turns[i])]
      BY <1>4
    <2>2. KeptOf(turns, n) \in Seq(Tokens)
      BY <1>1, KeptSeq
    <2> QED BY <1>1, <2>1, <2>2 DEF KeptOf, FedOf
  <1>6. Kept(turn) = p
    <2>1. p \o <<>> = p
      BY ConcatEmptySeq
    <2> QED BY <1>2, <1>3, <2>1 DEF Kept
  <1>7. KeptOf(new, n + 1) = KeptOf(new, n) \o Kept(new[n + 1])
    <2>1. n < Len(new)
      BY <1>4
    <2> QED BY <1>4, <2>1, KeptNext
  <1>8. BaseOf(new) = Len(KeptOf(new, n)) /\ FedOf(new) = KeptOf(new, n + 1)
    <2>1. Len(new) - 1 = n
      BY <1>4
    <2> QED BY <1>4, <2>1 DEF BaseOf, FedOf
  <1> QED BY <1>1, <1>2, <1>4, <1>5, <1>6, <1>7, <1>8

\* The reply of the last turn grows by these tokens.
Grows(new, turns, more) == new = [turns EXCEPT ![Len(turns)].reply = @ \o more]

\* A reply that grows moves the end of its turn, and nothing else.
LEMMA GrownReply ==
  ASSUME NEW turns \in Seq(Turns), turns # <<>>, NEW more \in Seq(Tokens),
         NEW new, Grows(new, turns, more)
  PROVE  LET last == turns[Len(turns)]
         IN  /\ new \in Seq(Turns) /\ new # <<>> /\ Len(new) = Len(turns)
             /\ new[Len(turns)] = [prompt |-> last.prompt, reply |-> last.reply \o more]
             /\ KeptOf(new, Len(turns) - 1) = KeptOf(turns, Len(turns) - 1)
  <1> DEFINE last == turns[Len(turns)]
  <1>1. PICK n \in Nat \ {0} : n = Len(turns)
    BY EmptySeq
  <1>2. last \in Turns
    BY <1>1, ElementOfSeq
  <1>3. PICK p, q \in Seq(Tokens) : last = [prompt |-> p, reply |-> q] /\ q # <<>>
    BY <1>2 DEF Turns
  <1>4. PICK r \in Seq(Tokens) : r = q \o more /\ r # <<>>
    <2>1. q \o more \in Seq(Tokens) /\ Len(q \o more) = Len(q) + Len(more)
      BY <1>3, ConcatProperties
    <2>2. Len(q) \in Nat \ {0} /\ Len(more) \in Nat
      BY <1>3, EmptySeq, LenProperties
    <2>3. Len(q \o more) # 0
      BY <2>1, <2>2
    <2> QED BY <2>1, <2>3, EmptySeq
  <1>5. PICK turn : turn = [prompt |-> p, reply |-> r]
    OBVIOUS
  <1>6. turn \in Turns
    BY <1>4, <1>5 DEF Turns
  <1>7. new = [turns EXCEPT ![n] = turn]
    <2>1. PICK old : old = turns[n] /\ old = [prompt |-> p, reply |-> q]
      BY <1>1, <1>3
    <2>2. [old EXCEPT !.reply = q \o more] = [prompt |-> p, reply |-> r]
      <3>1. \A x : [[prompt |-> p, reply |-> q] EXCEPT !.reply = x] = [prompt |-> p, reply |-> x]
        OBVIOUS
      <3> QED BY <1>4, <2>1, <3>1, Zenon
    <2>3. old.reply = q
      BY <2>1
    <2>4. [turns[n] EXCEPT !.reply = turns[n].reply \o more] = turn
      BY <1>5, <2>1, <2>2, <2>3, Zenon
    <2>5. new = [turns EXCEPT ![n] = [turns[n] EXCEPT !.reply = turns[n].reply \o more]]
      BY <1>1 DEF Grows
    <2> QED BY <2>4, <2>5, Zenon
  <1>8. new \in Seq(Turns) /\ Len(new) = n /\ new[n] = turn /\ \A i \in 1 .. n - 1 : new[i] = turns[i]
    <2>1. new \in Seq(Turns) /\ Len(new) = Len(turns)
      <3>1. n \in 1 .. Len(turns)
        BY <1>1
      <3>2. [turns EXCEPT ![n] = turn] \in Seq(Turns) /\ Len([turns EXCEPT ![n] = turn]) = Len(turns)
        BY <1>6, <3>1, ExceptSeq
      <3> QED BY <1>7, <3>2
    <2>2. n \in DOMAIN turns /\ \A i \in 1 .. n - 1 : i \in DOMAIN turns /\ i # n
      BY <1>1, LenProperties
    <2> QED BY <1>1, <1>7, <2>1, <2>2
  <1>9. new # <<>>
    BY <1>1, <1>8, EmptySeq
  <1>10. KeptOf(new, n - 1) = KeptOf(turns, n - 1)
    <2>1. [i \in 1 .. n - 1 |-> Kept(new[i])] = [i \in 1 .. n - 1 |-> Kept(turns[i])]
      BY <1>8
    <2> QED BY <2>1 DEF KeptOf
  <1> QED BY <1>1, <1>3, <1>4, <1>5, <1>8, <1>9, <1>10

LEMMA FedGrows ==
  ASSUME NEW turns \in Seq(Turns), turns # <<>>, NEW more \in Seq(Tokens),
         NEW new, Grows(new, turns, more)
  PROVE  /\ new \in Seq(Turns) /\ new # <<>> /\ Len(new) = Len(turns)
         /\ new[Len(new)].reply = turns[Len(turns)].reply \o more
         /\ BaseOf(new) = BaseOf(turns)
         /\ Len(FedOf(new)) = Len(FedOf(turns)) + Len(more)
  <1> DEFINE last == turns[Len(turns)]
             grown == new[Len(new)]
  <1>1. /\ new \in Seq(Turns) /\ new # <<>> /\ Len(new) = Len(turns)
        /\ grown = [prompt |-> last.prompt, reply |-> last.reply \o more]
        /\ KeptOf(new, Len(turns) - 1) = KeptOf(turns, Len(turns) - 1)
    BY GrownReply
  <1>2. /\ Len(FedOf(turns)) = BaseOf(turns) + Len(last.prompt) + Len(last.reply) - 1
        /\ BaseOf(turns) \in Nat /\ last \in Turns
    BY FedIs
  <1>3. Len(FedOf(new)) = BaseOf(new) + Len(grown.prompt) + Len(grown.reply) - 1
    BY <1>1, FedIs
  <1> HIDE DEF last, grown
  <1>4. grown.prompt = last.prompt /\ grown.reply = last.reply \o more
    BY <1>1
  <1>5. last.prompt \in Seq(Tokens) /\ last.reply \in Seq(Tokens)
    BY <1>2, KeptType
  <1>6. Len(last.reply \o more) = Len(last.reply) + Len(more)
    BY <1>5, ConcatProperties
  <1>7. Len(last.prompt) \in Nat /\ Len(last.reply) \in Nat /\ Len(more) \in Nat
    BY <1>5, LenProperties
  <1>8. BaseOf(new) = BaseOf(turns)
    BY <1>1 DEF BaseOf
  <1>9. Len(FedOf(new)) = Len(FedOf(turns)) + Len(more)
    <2>1. PICK x, y, z, m \in Nat : /\ x = BaseOf(turns) /\ y = Len(last.prompt)
                                   /\ z = Len(last.reply) /\ m = Len(more)
      BY <1>2, <1>7
    <2>2. Len(FedOf(turns)) = x + y + z - 1
      BY <1>2, <2>1
    <2>3. Len(FedOf(new)) = x + y + (z + m) - 1
      BY <1>3, <1>4, <1>6, <1>8, <2>1
    <2>4. x + y + (z + m) - 1 = (x + y + z - 1) + m
      OBVIOUS
    <2> QED BY <2>1, <2>2, <2>3, <2>4, Zenon
  <1> QED BY <1>1, <1>4, <1>8, <1>9 DEF last, grown

\* With one more token, the one before it has been fed.
LEMMA FedNext ==
  ASSUME NEW turns \in Seq(Turns), turns # <<>>, NEW t \in Tokens,
         NEW new, Grows(new, turns, <<t>>)
  PROVE  /\ FedOf(new) = Append(FedOf(turns), Last(turns[Len(turns)].reply))
         /\ Last(new[Len(new)].reply) = t
  <1> DEFINE last == turns[Len(turns)]
             grown == new[Len(new)]
  <1>1. PICK more \in Seq(Tokens) : more = <<t>>
    <2>1. <<t>> \in Seq(Tokens)
      OBVIOUS
    <2> QED BY <2>1, Zenon
  <1>2. /\ new \in Seq(Turns) /\ new # <<>> /\ Len(new) = Len(turns)
        /\ grown = [prompt |-> last.prompt, reply |-> last.reply \o more]
        /\ KeptOf(new, Len(turns) - 1) = KeptOf(turns, Len(turns) - 1)
    <2>1. Grows(new, turns, more)
      BY <1>1, Zenon
    <2> QED BY <2>1, GrownReply
  <1>3. PICK e \in Seq(Tokens) : /\ e = KeptOf(turns, Len(turns) - 1)
                                 /\ FedOf(turns) = e \o Kept(last) /\ last \in Turns
    BY FedIs
  <1>4. FedOf(new) = e \o Kept(grown)
    <2>1. FedOf(new) = KeptOf(new, Len(new) - 1) \o Kept(grown)
      BY <1>2, FedIs
    <2> QED BY <1>2, <1>3, <2>1
  <1> HIDE DEF last, grown
  <1>5. PICK p, q \in Seq(Tokens) : p = last.prompt /\ q = last.reply /\ q # <<>>
    BY <1>3, KeptType
  <1>6. q \o more = Append(q, t)
    BY <1>1, AppendIsConcat
  <1>7. Front(q \o more) = q /\ Last(q \o more) = t
    BY <1>6, FrontOfAppend
  <1>8. PICK f \in Seq(Tokens) : f = Front(q) /\ Last(q) \in Tokens /\ Append(f, Last(q)) = q
    BY <1>5, FrontLast
  <1>9. Kept(last) = p \o f /\ Kept(grown) = p \o q /\ grown.reply = q \o more
    BY <1>2, <1>5, <1>7, <1>8 DEF Kept
  <1>10. e \o (p \o q) = Append(e \o (p \o f), Last(q))
    <2>1. PICK x \in Tokens : x = Last(q)
      BY <1>8
    <2>2. PICK o \in Seq(Tokens) : o = <<x>>
      <3>1. <<x>> \in Seq(Tokens)
        OBVIOUS
      <3> QED BY <3>1, Zenon
    <2>3. q = f \o o
      BY <1>8, <2>1, <2>2, AppendIsConcat
    <2>4. (p \o f) \o o = p \o (f \o o)
      BY TokensAssociative, Zenon
    <2>5. PICK d \in Seq(Tokens) : d = p \o f
      BY ConcatProperties
    <2>6. (e \o d) \o o = e \o (d \o o)
      BY TokensAssociative, SMTT(30)
    <2>7. PICK r \in Seq(Tokens) : r = e \o d
      BY ConcatProperties
    <2>8. Append(r, x) = r \o <<x>>
      BY TokensAppend
    <2> QED BY <2>1, <2>2, <2>3, <2>4, <2>5, <2>6, <2>7, <2>8, Zenon
  <1> QED BY <1>3, <1>4, <1>5, <1>7, <1>9, <1>10 DEF last, grown

-----------------------------------------------------------------------------
(***************************************************************************)
(* The invariant of one client, over values: who generates, how far the    *)
(* conversation was fed, the room that is left, what the cache holds of it *)
(* and where its last row was.                                             *)
(***************************************************************************)
Generates(ph) == ph \in {"decode", "reply", "stopped"}

Counted(ph, o, ps, turns) ==
  /\ ps = Len(FedOf(turns))
  /\ Generates(ph) => turns # <<>> /\ o # <<>> /\ Last(o) = Last(turns[Len(turns)].reply)

Roomy(ph, o, ps) ==
  ph = "decode" => Len(o) < MaxTokens /\ ps + MaxTokens - Len(o) <= NumSlots

Saw(cache, ph, o, ps, turns, row) ==
  /\ row.slot = IF ph = "stopped" THEN ps ELSE ps - 1
  /\ BlocksOf(0, row.slot) \subseteq row.blocks
  /\ ph = "stopped" => cache[ps] = Append(FedOf(turns), Last(o))

Fine(owner, cache, ph, o, ps, turns, row) ==
  /\ Roomy(ph, o, ps)
  /\ owner /\ BeganEarly(turns) => Has(cache, FedOf(turns), ps)
  /\ Generates(ph) /\ BeganEarly(turns) => Saw(cache, ph, o, ps, turns, row)

RowAt(row, slot, blocks) == row.slot = slot /\ row.blocks = blocks

LEMMA PrefixOfConcat ==
  ASSUME NEW S, NEW a \in Seq(S), NEW b \in Seq(S), NEW k \in Nat, k <= Len(a)
  PROVE  SubSeq(a \o b, 1, k) = SubSeq(a, 1, k)
  <1>1. PICK w \in Seq(S) : /\ w = a \o b /\ Len(w) = Len(a) + Len(b)
                            /\ \A i \in 1 .. Len(a) : w[i] = a[i]
    <2>1. \A i \in 1 .. Len(a) : i \in 1 .. Len(a) + Len(b) /\ i <= Len(a)
      BY LenProperties
    <2>2. \A i \in 1 .. Len(a) : (a \o b)[i] = a[i]
      BY <2>1, ConcatProperties
    <2> QED BY <2>2, ConcatProperties, Zenon
  <1>2. Len(a) \in Nat /\ Len(b) \in Nat
    BY LenProperties
  <1>3. \A i \in 1 .. k : i \in 1 .. Len(a) /\ i \in 1 .. Len(w)
    BY <1>1, <1>2
  <1>4. \A i \in 1 .. k : a[i] \in S /\ w[i] \in S /\ w[i] = a[i]
    BY <1>1, <1>3, ElementOfSeq
  <1>5. /\ SubSeq(a, 1, k) \in Seq(S) /\ Len(SubSeq(a, 1, k)) = k
        /\ \A i \in 1 .. k : SubSeq(a, 1, k)[i] = a[i]
    BY <1>4, SubSeqProperties
  <1>6. /\ SubSeq(w, 1, k) \in Seq(S) /\ Len(SubSeq(w, 1, k)) = k
        /\ \A i \in 1 .. k : SubSeq(w, 1, k)[i] = w[i]
    BY <1>4, SubSeqProperties
  <1>7. SubSeq(w, 1, k) = SubSeq(a, 1, k)
    <2>1. \A i \in 1 .. k : SubSeq(w, 1, k)[i] = SubSeq(a, 1, k)[i]
      BY <1>4, <1>5, <1>6
    <2> QED BY <1>5, <1>6, <2>1, SeqEqual
  <1> QED BY <1>1, <1>7

\* A prefill from the first block covers every slot up to its last.
LEMMA FirstBlock ==
  ASSUME NEW base \in Nat, base < BlockSize, NEW n \in Nat \ {0}
  PROVE  BlocksOf(0, base + n - 1) = PrefillBlocks(base, n)
  <1>1. ASSUME NEW q \in 0 .. base + n - 1
        PROVE  \E s \in base .. base + n - 1 : q \div BlockSize = s \div BlockSize
    <2>1. CASE q >= base
      BY <2>1
    <2>2. CASE q < base
      <3>1. q \div BlockSize = 0 /\ base \div BlockSize = 0
        <4>1. PICK b \in Nat \ {0} : b = BlockSize
          BY SlotBounds
        <4>2. q \in 0 .. b - 1 /\ base \in 0 .. b - 1
          BY <2>2, <4>1
        <4>3. \A x \in 0 .. b - 1 : x \div b = 0
          BY <4>1
        <4> QED BY <4>1, <4>2, <4>3
      <3>2. base \in base .. base + n - 1
        OBVIOUS
      <3> QED BY <3>1, <3>2
    <2> QED BY <2>1, <2>2
  <1>2. \A s \in base .. base + n - 1 : s \in 0 .. base + n - 1
    OBVIOUS
  <1> QED BY <1>1, <1>2 DEF BlocksOf, PrefillBlocks

\* A turn that begins in the first block behind what the cache holds.
LEMMA BeginsFine ==
  ASSUME NEW owner, NEW cache, DOMAIN cache = Slots, NEW base \in Nat,
         NEW turns \in Seq(Turns), base = Len(FedOf(turns)),
         NEW history \in Seq(Tokens), NEW p \in Seq(Tokens), p # <<>>, NEW t \in Tokens,
         NEW ph, ph = "decode" => Len(Append(history, t)) < MaxTokens, ph # "stopped",
         Fits(base, p), BeganEarly(turns) => Has(cache, FedOf(turns), base),
         NEW new, Asked(new, turns, p, t),
         NEW row, RowAt(row, base + Len(p) - 1, PrefillBlocks(base, Len(p)))
  PROVE  Fine(owner, forward_logits(cache, p, base, PrefillBlocks(base, Len(p))),
              ph, Append(history, t), base + Len(p), new, row)
  <1>1. PICK n \in Nat \ {0} : n = Len(p)
    BY EmptySeq
  <1>2. PICK f \in Seq(Tokens) : f = FedOf(turns) /\ Len(f) = base
    BY AskedTurn
  <1>3. PICK w \in Seq(Tokens) : w = f \o p /\ FedOf(new) = w /\ Len(w) = base + n
    <2>1. FedOf(new) = f \o p
      BY <1>2, AskedTurn
    <2>2. f \o p \in Seq(Tokens) /\ Len(f \o p) = base + n
      BY <1>1, <1>2, ConcatProperties
    <2> QED BY <2>1, <2>2, Zenon
  <1>4. BeganEarly(new) => base < BlockSize /\ BeganEarly(turns)
    <2>1. BaseOf(new) = base /\ new # <<>>
      BY AskedTurn
    <2>2. turns # <<>> => BaseOf(turns) \in Nat /\ BaseOf(turns) <= base
      BY FedIs
    <2> QED BY <2>1, <2>2, SlotBounds DEF BeganEarly
  <1>5. base + n + MaxTokens + DraftK <= NumSlots /\ MaxTokens \in Nat /\ DraftK \in Nat
    BY <1>1, FrontAssumption DEF Fits
  <1>6. Roomy(ph, Append(history, t), base + Len(p))
    <2>1. PICK k \in Nat : k = Len(Append(history, t))
      BY AppendProperties, LenProperties
    <2>2. Len(Append(history, t)) = Len(history) + 1 /\ Len(history) \in Nat
      BY AppendProperties, LenProperties
    <2> QED BY <1>1, <1>5, <2>1, <2>2, SlotBounds DEF Roomy
  <1> DEFINE blocks == PrefillBlocks(base, n)
             d == forward_logits(cache, p, base, blocks)
  <1>7. ASSUME BeganEarly(new) PROVE Has(d, w, base + n) /\ BlocksOf(0, base + n - 1) = blocks
    <2>1. BlocksOf(0, base + n - 1) = blocks
      BY <1>4, <1>7, FirstBlock
    <2>2. \A q \in 0 .. Len(w) - 1 : q \div BlockSize \in blocks
      BY <1>3, <2>1 DEF BlocksOf
    <2>3. \A i \in 1 .. Len(p) : p[i] = w[base + i]
      <3>1. \A i \in 1 .. n : base + i \in 1 .. base + n /\ ~ (base + i <= base) /\ (base + i) - base = i
        OBVIOUS
      <3>2. \A i \in 1 .. base + n : w[i] = IF i <= base THEN f[i] ELSE p[i - base]
        BY <1>1, <1>2, <1>3, ConcatProperties
      <3> QED BY <1>1, <3>1, <3>2
    <2>4. \A q \in 0 .. base - 1 : cache[q] = SubSeq(w, 1, q + 1)
      <3>1. SUFFICES ASSUME NEW q \in 0 .. base - 1 PROVE cache[q] = SubSeq(w, 1, q + 1)
        OBVIOUS
      <3>2. cache[q] = SubSeq(f, 1, q + 1)
        BY <1>2, <1>4, <1>7 DEF Has
      <3>3. q + 1 \in Nat /\ q + 1 <= Len(f)
        BY <1>2
      <3>4. SubSeq(f \o p, 1, q + 1) = SubSeq(f, 1, q + 1)
        BY <3>3, PrefixOfConcat
      <3> QED BY <1>3, <3>2, <3>4
    <2>5. base + Len(p) = Len(w) /\ Len(w) <= NumSlots
      BY <1>1, <1>3, <1>5, SlotBounds
    <2> HIDE DEF blocks
    <2>6. Continues(w, p, base, cache, blocks)
      BY <2>2, <2>3, <2>4, <2>5 DEF Continues, Has
    <2>7. Has(d, w, Len(w))
      BY <2>6, ForwardStores
    <2> QED BY <1>3, <2>1, <2>7
  <1>8. BeganEarly(new) => Saw(d, ph, Append(history, t), base + n, new, row)
    <2>1. row.slot = base + n - 1 /\ row.blocks = blocks
      BY <1>1 DEF RowAt
    <2> HIDE DEF blocks, d
    <2> QED BY <1>7, <2>1 DEF Saw
  <1>9. d = forward_logits(cache, p, base, PrefillBlocks(base, Len(p)))
    BY <1>1
  <1> HIDE DEF d, blocks
  <1> QED BY <1>1, <1>3, <1>6, <1>7, <1>8, <1>9 DEF Fine

\* Feeding x behind f, which the cache holds.
FeedsOne(d, cache, f, x, tokens) ==
  /\ DOMAIN cache = Slots /\ Len(f) < NumSlots /\ Has(cache, f, Len(f))
  /\ Len(tokens) = 1 /\ tokens[1] = x
  /\ d = forward_logits(cache, tokens, Len(f), DecodeBlocks(Len(f)))

HasOne(d, f, x) ==
  LET w == Append(f, x)
  IN  w \in Seq(Tokens) /\ Has(d, w, Len(f) + 1) /\ d[Len(f)] = w

LEMMA FedOne ==
  ASSUME NEW cache, NEW f \in Seq(Tokens), NEW x \in Tokens, NEW tokens \in Seq(Tokens), NEW d,
         FeedsOne(d, cache, f, x, tokens)
  PROVE  HasOne(d, f, x)
  <1> DEFINE w == Append(f, x)
  <1>0. PICK ps \in Nat : /\ ps = Len(f) /\ ps < NumSlots /\ Has(cache, f, ps)
                          /\ DOMAIN cache = Slots /\ Len(tokens) = 1 /\ tokens[1] = x
                          /\ d = forward_logits(cache, tokens, ps, DecodeBlocks(ps))
    BY LenProperties DEF FeedsOne
  <1>1. w \in Seq(Tokens) /\ Len(w) = ps + 1 /\ w[ps + 1] = x
    BY <1>0, AppendProperties
  <1>2. Has(cache, w, ps)
    <2>1. SUFFICES ASSUME NEW q \in 0 .. ps - 1 PROVE cache[q] = SubSeq(w, 1, q + 1)
      BY DEF Has
    <2>2. cache[q] = SubSeq(f, 1, q + 1)
      BY <1>0 DEF Has
    <2>3. PICK o \in Seq(Tokens) : o = <<x>>
      <3>1. <<x>> \in Seq(Tokens)
        OBVIOUS
      <3> QED BY <3>1, Zenon
    <2>4. w = f \o o
      BY <2>3, AppendIsConcat
    <2>5. q + 1 \in Nat /\ q + 1 <= Len(f)
      BY <1>0
    <2>6. SubSeq(f \o o, 1, q + 1) = SubSeq(f, 1, q + 1)
      BY <2>5, PrefixOfConcat
    <2> QED BY <2>2, <2>4, <2>6
  <1>3. Continues(w, tokens, ps, cache, DecodeBlocks(ps))
    <2>1. \A q \in 0 .. Len(w) - 1 : q \div BlockSize \in DecodeBlocks(ps)
      BY <1>1 DEF DecodeBlocks, BlocksOf
    <2>2. \A i \in 1 .. Len(tokens) : tokens[i] = w[ps + i]
      BY <1>0, <1>1
    <2>3. ps + Len(tokens) = Len(w) /\ Len(w) <= NumSlots
      BY <1>0, <1>1, SlotBounds
    <2> QED BY <1>0, <1>2, <2>1, <2>2, <2>3 DEF Continues
  <1>4. Has(d, w, ps + 1)
    BY <1>0, <1>1, <1>3, ForwardStores
  <1>5. SubSeq(w, 1, ps + 1) = w
    BY <1>1, SubSeqFull
  <1> HIDE DEF w
  <1>6. w \in Seq(Tokens) /\ Has(d, w, Len(f) + 1) /\ d[Len(f)] = w
    <2>1. ps = Len(f) /\ ps \in 0 .. (ps + 1) - 1 /\ w \in Seq(Tokens)
      BY <1>0, <1>1
    <2>2. d[ps] = SubSeq(w, 1, ps + 1)
      BY <1>4, <2>1 DEF Has
    <2> QED BY <1>4, <1>5, <2>1, <2>2
  <1> QED BY <1>6 DEF HasOne, w

\* The last token of o was fed at slot ps.
Decoded(d, cache, o, ps) == d = forward_logits(cache, <<Last(o)>>, ps, DecodeBlocks(ps))

\* A decode that emits, and one that stops.
LEMMA DecodesFine ==
  ASSUME NEW owner, NEW cache, DOMAIN cache = Slots, NEW ps \in Nat,
         NEW turns \in Seq(Turns), NEW o \in Seq(Tokens), Counted("decode", o, ps, turns),
         Roomy("decode", o, ps), BeganEarly(turns) => Has(cache, FedOf(turns), ps),
         NEW d, Decoded(d, cache, o, ps),
         NEW row, RowAt(row, ps, DecodeBlocks(ps))
  PROVE  /\ Fine(owner, d, "stopped", o, ps, turns, row)
         /\ \A t \in Tokens : \A new, ph :
              /\ Grows(new, turns, <<t>>)
              /\ ph \in {"decode", "reply"} /\ (ph = "decode" => Len(Append(o, t)) < MaxTokens)
              => Fine(owner, d, ph, Append(o, t), ps + 1, new, row)
  <1>1. turns # <<>> /\ o # <<>> /\ Last(o) = Last(turns[Len(turns)].reply) /\ ps = Len(FedOf(turns))
    BY DEF Counted, Generates
  <1>2. PICK f \in Seq(Tokens) : f = FedOf(turns)
    BY <1>1, FedIs
  <1>3. PICK x \in Tokens : x = Last(o)
    BY <1>1, FrontLast
  <1>4. PICK n \in Nat : /\ n = Len(o) /\ n < MaxTokens /\ ps + MaxTokens - n <= NumSlots
                         /\ ps < NumSlots /\ MaxTokens \in Nat
    <2>1. Len(o) \in Nat /\ MaxTokens \in Nat /\ NumSlots \in Nat
      BY LenProperties, FrontAssumption, SlotBounds
    <2>2. Len(o) < MaxTokens /\ ps + MaxTokens - Len(o) <= NumSlots
      BY DEF Roomy
    <2> QED BY <2>1, <2>2
  <1>5. PICK w : w = Append(f, x)
    OBVIOUS
  <1>6. ASSUME BeganEarly(turns) PROVE w \in Seq(Tokens) /\ Has(d, w, ps + 1) /\ d[ps] = w
    <2>1. PICK tokens \in Seq(Tokens) : tokens = <<x>> /\ Len(tokens) = 1 /\ tokens[1] = x
      <3>1. <<x>> \in Seq(Tokens) /\ Len(<<x>>) = 1 /\ <<x>>[1] = x
        OBVIOUS
      <3> QED BY <3>1, Zenon
    <2>2. d = forward_logits(cache, tokens, ps, DecodeBlocks(ps))
      BY <1>3, <2>1, Zenon DEF Decoded
    <2>3. Has(cache, f, ps) /\ ps = Len(f)
      BY <1>1, <1>2, <1>6
    <2>4. Len(tokens) = 1 /\ tokens[1] = x
      BY <2>1
    <2>5. FeedsOne(d, cache, f, x, tokens)
      BY <1>4, <2>2, <2>3, <2>4 DEF FeedsOne
    <2>6. HasOne(d, f, x)
      BY <2>5, FedOne
    <2> QED BY <1>5, <2>3, <2>6, Zenon DEF HasOne
  <1>7. /\ row.slot = ps /\ BlocksOf(0, row.slot) \subseteq row.blocks
    BY DEF RowAt, DecodeBlocks
  <1>8. Fine(owner, d, "stopped", o, ps, turns, row)
    <2>1. ASSUME BeganEarly(turns) PROVE Has(d, f, ps)
      <3>1. SUFFICES ASSUME NEW q \in 0 .. ps - 1 PROVE d[q] = SubSeq(f, 1, q + 1)
        BY DEF Has
      <3>2. d[q] = SubSeq(w, 1, q + 1)
        <4>1. q \in 0 .. (ps + 1) - 1
          OBVIOUS
        <4> QED BY <1>6, <2>1, <4>1 DEF Has
      <3>3. PICK s \in Seq(Tokens) : s = <<x>>
        <4>1. <<x>> \in Seq(Tokens)
          OBVIOUS
        <4> QED BY <4>1, Zenon
      <3>4. w = f \o s
        BY <1>5, <3>3, AppendIsConcat
      <3>5. q + 1 \in Nat /\ q + 1 <= Len(f)
        BY <1>1, <1>2
      <3>6. SubSeq(f \o s, 1, q + 1) = SubSeq(f, 1, q + 1)
        BY <3>5, PrefixOfConcat
      <3> QED BY <3>2, <3>4, <3>6
    <2>2. ASSUME BeganEarly(turns) PROVE Saw(d, "stopped", o, ps, turns, row)
      BY <1>2, <1>3, <1>5, <1>6, <1>7, <2>2 DEF Saw
    <2> QED BY <1>2, <2>1, <2>2 DEF Fine, Roomy
  <1>9. ASSUME NEW t \in Tokens, NEW new, NEW ph, Grows(new, turns, <<t>>),
               ph \in {"decode", "reply"}, ph = "decode" => Len(Append(o, t)) < MaxTokens
        PROVE  Fine(owner, d, ph, Append(o, t), ps + 1, new, row)
    <2>1. FedOf(new) = w
      BY <1>1, <1>2, <1>3, <1>5, <1>9, FedNext
    <2>2. new # <<>> /\ BaseOf(new) = BaseOf(turns)
      <3>1. PICK more \in Seq(Tokens) : more = <<t>>
        <4>1. <<t>> \in Seq(Tokens)
          OBVIOUS
        <4> QED BY <4>1, Zenon
      <3>2. Grows(new, turns, more)
        BY <1>9, <3>1, Zenon
      <3> QED BY <1>1, <3>2, FedGrows
    <2>3. BeganEarly(new) <=> BeganEarly(turns)
      BY <1>1, <2>2 DEF BeganEarly
    <2>4. Roomy(ph, Append(o, t), ps + 1)
      <3>1. Len(Append(o, t)) = n + 1
        BY <1>4, AppendProperties
      <3> QED BY <1>4, <1>9, <3>1, SlotBounds DEF Roomy
    <2>5. ASSUME BeganEarly(new) PROVE Has(d, w, ps + 1) /\ Saw(d, ph, Append(o, t), ps + 1, new, row)
      BY <1>6, <1>7, <1>9, <2>3, <2>5 DEF Saw
    <2> QED BY <2>1, <2>4, <2>5 DEF Fine
  <1> QED BY <1>8, <1>9

-----------------------------------------------------------------------------
(***************************************************************************)
(* The invariant, client by client.                                        *)
(***************************************************************************)
EachFine ==
  \A c \in Everyone :
    /\ Counted(phase[c], out[c], pos[c], told[c])
    /\ ~ drafting => Fine(Owner(c), kv, phase[c], out[c], pos[c], told[c], sampled[c])

LEMMA FrontInvIs ==
  FrontTypeOK => (FedInv /\ RoomInv /\ CacheInv /\ SampledInv <=> EachFine)
  <1> SUFFICES ASSUME FrontTypeOK
               PROVE  FedInv /\ RoomInv /\ CacheInv /\ SampledInv <=> EachFine
    OBVIOUS
  <1>1. ASSUME NEW c \in Everyone
        PROVE  /\ Fed(c) = FedOf(told[c]) /\ (Early(c) <=> BeganEarly(told[c]))
               /\ Generating(c) <=> Generates(phase[c])
               /\ told[c] \in Seq(Turns) /\ out[c] \in Seq(Tokens) /\ pos[c] \in Nat
    <2>1. told[c] \in Seq(Turns) /\ out[c] \in Seq(Tokens) /\ pos[c] \in Nat
      BY DEF FrontTypeOK
    <2> QED BY <2>1, ClientFed, LenProperties DEF Generating, Generates
  <1>2. ASSUME NEW c \in Everyone, pos[c] = Len(FedOf(told[c])), told[c] # <<>>, out[c] # <<>>,
               Last(out[c]) = Last(told[c][Len(told[c])].reply)
        PROVE  /\ Len(Conversation(c)) - 1 = IF phase[c] = "stopped" THEN pos[c] ELSE pos[c] - 1
               /\ phase[c] = "stopped" => Conversation(c) = Append(FedOf(told[c]), Last(out[c]))
    <2>1. PICK f \in Seq(Tokens) : f = FedOf(told[c])
      BY <1>1, <1>2, FedIs
    <2>2. PICK x \in Tokens : x = Last(out[c])
      BY <1>1, <1>2, FrontLast
    <2>3. Conversation(c) = IF phase[c] = "stopped" THEN Append(f, x) ELSE f
      BY <1>1, <1>2, <2>1, <2>2, ConversationIs
    <2>4. Len(Append(f, x)) = Len(f) + 1 /\ Len(f) \in Nat
      BY AppendProperties, LenProperties
    <2>5. Len(Append(f, x)) - 1 = Len(f)
      BY <2>4
    <2> QED BY <1>2, <2>1, <2>2, <2>3, <2>5
  <1> DEFINE counted(c) == Counted(phase[c], out[c], pos[c], told[c])
  <1>3. FedInv <=> \A c \in Everyone : counted(c)
    BY <1>1 DEF FedInv, Counted
  <1>4. RoomInv <=> \A c \in Everyone : ~ drafting => Roomy(phase[c], out[c], pos[c])
    BY DEF RoomInv, Roomy
  <1>5. CacheInv <=> \A c \in Everyone : ~ drafting =>
                       (Owner(c) /\ BeganEarly(told[c]) => Has(kv, FedOf(told[c]), pos[c]))
    BY <1>1 DEF CacheInv, Holds, Has
  <1>6. ASSUME NEW c \in Everyone, counted(c), Generating(c)
        PROVE  (/\ sampled[c].slot = Len(Conversation(c)) - 1
                /\ BlocksOf(0, sampled[c].slot) \subseteq sampled[c].blocks
                /\ phase[c] = "stopped" => kv[pos[c]] = Conversation(c))
               <=> Saw(kv, phase[c], out[c], pos[c], told[c], sampled[c])
    BY <1>1, <1>2, <1>6 DEF Saw, Counted
  <1>7. ASSUME \A c \in Everyone : counted(c)
        PROVE  SampledInv <=> \A c \in Everyone : ~ drafting =>
                 (Generates(phase[c]) /\ BeganEarly(told[c]) =>
                    Saw(kv, phase[c], out[c], pos[c], told[c], sampled[c]))
    BY <1>1, <1>6, <1>7 DEF SampledInv
  <1>8. EachFine <=> /\ \A c \in Everyone : counted(c)
                     /\ \A c \in Everyone : ~ drafting => Roomy(phase[c], out[c], pos[c])
                     /\ \A c \in Everyone : ~ drafting =>
                          (Owner(c) /\ BeganEarly(told[c]) => Has(kv, FedOf(told[c]), pos[c]))
                     /\ \A c \in Everyone : ~ drafting =>
                          (Generates(phase[c]) /\ BeganEarly(told[c]) =>
                             Saw(kv, phase[c], out[c], pos[c], told[c], sampled[c]))
    BY DEF EachFine, Fine
  <1> HIDE DEF counted
  <1> QED BY <1>3, <1>4, <1>5, <1>7, <1>8

Core == FrontTypeOK /\ LockInv /\ EachFine

LEMMA CoreIs == Core <=> FrontInv
  BY FrontInvIs DEF Core, FrontInv

\* Nobody else generates or owns the cache.
Alone(c) == \A d \in Everyone \ {c} : ~ Generating(d) /\ ~ Owner(d)

LEMMA WhoIsAlone ==
  ASSUME FrontTypeOK, LockInv, NEW c \in Everyone,
         Generating(c) \/ (c = Console /\ mode # "server") \/ (mode = "server" /\ srv_mu = {})
  PROVE  Alone(c)
  <1>1. SUFFICES ASSUME NEW d \in Everyone \ {c} PROVE ~ Generating(d) /\ ~ Owner(d)
    BY DEF Alone
  <1>2. CASE mode = "server"
    <2>1. Generating(d) <=> srv_mu = {d}
      BY <1>2 DEF LockInv
    <2>2. srv_mu = {} \/ srv_mu = {c}
      BY <1>2 DEF LockInv
    <2> QED BY <1>2, <2>1, <2>2 DEF Owner
  <1>3. CASE mode # "server"
    <2>1. \A e \in Clients : ~ Generating(e)
      BY <1>3 DEF LockInv, Generating
    <2>2. c = Console
      BY <1>3, <2>1 DEF Everyone
    <2>3. d \in Clients
      BY <2>2 DEF Everyone
    <2> QED BY <2>1, <2>2, <2>3 DEF Owner
  <1> QED BY <1>2, <1>3

\* A step of c leaves the others as they were.
Spares(c) ==
  /\ mode' = mode /\ drafting' = drafting
  /\ \A d \in Everyone \ {c} : /\ phase'[d] = phase[d] /\ out'[d] = out[d] /\ pos'[d] = pos[d]
                               /\ told'[d] = told[d] /\ sampled'[d] = sampled[d]

LEMMA OthersFine ==
  ASSUME EachFine, NEW c, Spares(c), kv' = kv \/ Alone(c),
         Counted(phase'[c], out'[c], pos'[c], told'[c]),
         ~ drafting => Fine(Owner(c)', kv', phase'[c], out'[c], pos'[c], told'[c], sampled'[c])
  PROVE  EachFine'
  <1>1. SUFFICES ASSUME NEW d \in Everyone
                 PROVE  /\ Counted(phase'[d], out'[d], pos'[d], told'[d])
                        /\ ~ drafting => Fine(Owner(d)', kv', phase'[d], out'[d], pos'[d],
                                              told'[d], sampled'[d])
    BY DEF EachFine, Spares
  <1>2. CASE d = c
    BY <1>2
  <1>3. CASE d # c
    <2>1. /\ phase'[d] = phase[d] /\ out'[d] = out[d] /\ pos'[d] = pos[d]
          /\ told'[d] = told[d] /\ sampled'[d] = sampled[d] /\ mode' = mode
      BY <1>3 DEF Spares
    <2>2. /\ Counted(phase[d], out[d], pos[d], told[d])
          /\ ~ drafting => Fine(Owner(d), kv, phase[d], out[d], pos[d], told[d], sampled[d])
      BY DEF EachFine
    <2>3. Owner(d)' <=> Owner(d)
      BY <2>1 DEF Owner, Generating
    <2>4. CASE kv' = kv
      BY <2>1, <2>2, <2>3, <2>4 DEF Fine
    <2>5. CASE Alone(c)
      <3>1. ~ Generates(phase[d]) /\ ~ Owner(d)
        BY <1>3, <2>5 DEF Alone, Generating, Generates
      <3>2. phase[d] # "decode"
        BY <3>1 DEF Generates
      <3> QED BY <2>1, <2>2, <2>3, <3>1, <3>2 DEF Fine, Roomy
    <2> QED BY <2>4, <2>5
  <1> QED BY <1>2, <1>3

-----------------------------------------------------------------------------
(***************************************************************************)
(* The steps that use the cache.                                           *)
(***************************************************************************)
ValuesOK ==
  /\ phase \in [Everyone -> Phases]
  /\ out \in [Everyone -> Seq(Tokens)]
  /\ pos \in [Everyone -> Nat]
  /\ told \in [Everyone -> Seq(Turns)]
  /\ DOMAIN sampled = Everyone
  /\ DOMAIN kv = Slots

LEMMA TypeIs ==
  FrontTypeOK <=> /\ mode \in {"repl", "bench", "server"} /\ drafting \in BOOLEAN
                  /\ DOMAIN request = Everyone
                  /\ \A c \in Everyone : phase[c] = "chat" => request[c] \in Prompts
                  /\ ValuesOK
  BY DEF FrontTypeOK, ValuesOK

\* The first token behind a prompt, at slot base behind these turns and this output.
Begins(c, p, t, cache, base, history, turns, ph) ==
  /\ Prefill(c, p, forward_logits(cache, p, base, PrefillBlocks(base, Len(p))),
             base, history, turns, t)
  /\ Fits(base, p)
  /\ Goto(c, ph) /\ ph \in {"decode", "reply"}
  /\ ph = "decode" => Len(Append(history, t)) < MaxTokens
  /\ UNCHANGED <<mode, drafting>>

\* What the prefill of a turn starts from.
Behind(cache, base, turns) ==
  /\ DOMAIN cache = Slots /\ base = Len(FedOf(turns))
  /\ ~ drafting /\ BeganEarly(turns) => Has(cache, FedOf(turns), base)

LEMMA BeginTurn ==
  ASSUME FrontTypeOK, EachFine, NEW c \in Everyone, NEW p \in Prompts, NEW t \in Tokens,
         NEW cache, NEW base \in Nat, NEW history \in Seq(Tokens), NEW turns \in Seq(Turns), NEW ph,
         Alone(c), Behind(cache, base, turns), Begins(c, p, t, cache, base, history, turns, ph)
  PROVE  EachFine' /\ ValuesOK'
  <1>1. p \in Seq(Tokens) /\ p # <<>>
    BY FrontAssumption
  <1>2. PICK n \in Nat : n = Len(p)
    BY <1>1, LenProperties
  <1>3. PICK o \in Seq(Tokens) : o = Append(history, t) /\ o # <<>> /\ Last(o) = t
    <2>1. Append(history, t) \in Seq(Tokens) /\ Append(history, t) # <<>>
      BY AppendProperties
    <2>2. Last(Append(history, t)) = t
      BY FrontOfAppend
    <2> QED BY <2>1, <2>2, Zenon
  <1>4. PICK new : Asked(new, turns, p, t)
    BY DEF Asked
  <1>5. /\ new \in Seq(Turns) /\ new # <<>>
        /\ new[Len(new)] = [prompt |-> p, reply |-> <<t>>]
        /\ FedOf(turns) \in Seq(Tokens) /\ FedOf(new) = FedOf(turns) \o p
    BY <1>1, <1>4, AskedTurn
  <1>6. Last(new[Len(new)].reply) = t /\ Len(FedOf(new)) = base + n
    <2>1. Last(<<t>>) = t
      BY DEF Last
    <2>2. Len(FedOf(turns) \o p) = Len(FedOf(turns)) + Len(p)
      BY <1>1, <1>5, ConcatProperties
    <2> QED BY <1>2, <1>5, <2>1, <2>2 DEF Behind
  <1>7. PICK row : row = [slot |-> base + n - 1, blocks |-> PrefillBlocks(base, n)]
    OBVIOUS
  <1>8. RowAt(row, base + n - 1, PrefillBlocks(base, n))
    BY <1>7 DEF RowAt
  <1>9. PICK d : d = forward_logits(cache, p, base, PrefillBlocks(base, n))
    OBVIOUS
  <1>10. /\ kv' = d /\ out' = [out EXCEPT ![c] = o] /\ pos' = [pos EXCEPT ![c] = base + n]
         /\ told' = [told EXCEPT ![c] = new] /\ sampled' = [sampled EXCEPT ![c] = row]
         /\ phase' = [phase EXCEPT ![c] = ph]
         /\ mode' = mode /\ drafting' = drafting
    BY <1>2, <1>3, <1>4, <1>7, <1>9, Zenon DEF Begins, Prefill, Goto, Asked
  <1>11. ph \in {"decode", "reply"} /\ (ph = "decode" => Len(o) < MaxTokens) /\ Fits(base, p)
    BY <1>3 DEF Begins
  <1>12. DOMAIN d = Slots
    <2>1. DOMAIN p = 1 .. n
      BY <1>1, <1>2, LenProperties
    <2> QED BY <1>2, <1>9, <2>1, ForwardDomain DEF Behind
  <1>13. ValuesOK'
    <2>1. base + n \in Nat /\ ph \in Phases
      BY <1>11 DEF Phases
    <2>2. /\ phase \in [Everyone -> Phases] /\ out \in [Everyone -> Seq(Tokens)]
          /\ pos \in [Everyone -> Nat] /\ told \in [Everyone -> Seq(Turns)]
          /\ DOMAIN sampled = Everyone
      BY DEF FrontTypeOK
    <2>3. /\ phase' \in [Everyone -> Phases] /\ out' \in [Everyone -> Seq(Tokens)]
          /\ pos' \in [Everyone -> Nat] /\ told' \in [Everyone -> Seq(Turns)]
          /\ DOMAIN sampled' = Everyone
      BY <1>5, <1>10, <2>1, <2>2
    <2> QED BY <1>10, <1>12, <2>3 DEF ValuesOK
  <1>14. /\ phase'[c] = ph /\ out'[c] = o /\ pos'[c] = base + n /\ told'[c] = new
         /\ sampled'[c] = row
    BY <1>10 DEF FrontTypeOK
  <1>15. Spares(c)
    BY <1>10 DEF Spares, FrontTypeOK
  <1>16. Counted(ph, o, base + n, new)
    BY <1>3, <1>5, <1>6 DEF Counted
  <1>17. ASSUME ~ drafting, NEW owner PROVE Fine(owner, d, ph, o, base + n, new, row)
    <2>1. DOMAIN cache = Slots /\ base = Len(FedOf(turns))
      BY DEF Behind
    <2>2. BeganEarly(turns) => Has(cache, FedOf(turns), base)
      BY <1>17 DEF Behind
    <2>3. ph = "decode" => Len(Append(history, t)) < MaxTokens
      BY <1>3, <1>11
    <2>4. RowAt(row, base + Len(p) - 1, PrefillBlocks(base, Len(p)))
      BY <1>2, <1>8
    <2>5. ph # "stopped" /\ Fits(base, p)
      BY <1>11
    <2>6. Fine(owner, forward_logits(cache, p, base, PrefillBlocks(base, Len(p))),
               ph, Append(history, t), base + Len(p), new, row)
      BY <1>1, <1>4, <2>1, <2>2, <2>3, <2>4, <2>5, BeginsFine
    <2> QED BY <1>2, <1>3, <1>9, <2>6
  <1>18. kv' = d
    BY <1>10
  <1>19. ~ drafting => Fine(Owner(c)', kv', phase'[c], out'[c], pos'[c], told'[c], sampled'[c])
    BY <1>14, <1>17, <1>18
  <1>20. EachFine'
    BY <1>14, <1>15, <1>16, <1>19, OthersFine
  <1> QED BY <1>13, <1>20

\* Whoever decodes has asked, has a token, and knows what the cache holds of it.
LEMMA Decoding ==
  ASSUME FrontTypeOK, LockInv, EachFine, NEW c \in Everyone, phase[c] = "decode"
  PROVE  /\ told[c] \in Seq(Turns) /\ told[c] # <<>> /\ out[c] \in Seq(Tokens) /\ out[c] # <<>>
         /\ pos[c] \in Nat /\ pos[c] = Len(FedOf(told[c]))
         /\ Last(out[c]) = Last(told[c][Len(told[c])].reply) /\ Last(out[c]) \in Tokens
         /\ Counted("decode", out[c], pos[c], told[c])
         /\ Alone(c) /\ Generating(c)
         /\ ~ drafting => Roomy("decode", out[c], pos[c])
         /\ ~ drafting /\ BeganEarly(told[c]) => Has(kv, FedOf(told[c]), pos[c])
  <1>1. told[c] \in Seq(Turns) /\ out[c] \in Seq(Tokens) /\ pos[c] \in Nat
    BY DEF FrontTypeOK
  <1>2. Counted("decode", out[c], pos[c], told[c])
    BY DEF EachFine
  <1>3. /\ pos[c] = Len(FedOf(told[c])) /\ told[c] # <<>> /\ out[c] # <<>>
        /\ Last(out[c]) = Last(told[c][Len(told[c])].reply)
    BY <1>2 DEF Counted, Generates
  <1>4. Last(out[c]) \in Tokens
    BY <1>1, <1>3, FrontLast
  <1>5. Generating(c) /\ Alone(c)
    BY WhoIsAlone DEF Generating
  <1>6. Owner(c)
    <2>1. mode # "server" => c = Console
      BY DEF LockInv, Everyone
    <2> QED BY <1>5, <2>1 DEF Owner, FrontTypeOK, LockInv
  <1>7. ~ drafting => Fine(TRUE, kv, "decode", out[c], pos[c], told[c], sampled[c])
    BY <1>6 DEF EachFine
  <1> QED BY <1>1, <1>2, <1>3, <1>4, <1>5, <1>7 DEF Fine

LEMMA DecodeStep ==
  ASSUME FrontTypeOK, LockInv, EachFine, NEW c \in Everyone, NEW t \in Tokens, Decode(c, t)
  PROVE  EachFine' /\ ValuesOK'
  <1>1. /\ phase[c] = "decode" /\ mode' = mode /\ drafting' = drafting
        /\ kv' = forward_logits(kv, <<Last(out[c])>>, pos[c], DecodeBlocks(pos[c]))
        /\ sampled' = [sampled EXCEPT ![c] = [slot |-> pos[c], blocks |-> DecodeBlocks(pos[c])]]
    BY DEF Decode, DecodeSlot
  <1>2. PICK o \in Seq(Tokens), turns \in Seq(Turns), ps \in Nat :
          /\ o = out[c] /\ turns = told[c] /\ ps = pos[c] /\ turns # <<>> /\ o # <<>>
          /\ ps = Len(FedOf(turns))
          /\ Counted("decode", o, ps, turns)
          /\ ~ drafting => Roomy("decode", o, ps)
          /\ ~ drafting /\ BeganEarly(turns) => Has(kv, FedOf(turns), ps)
          /\ Last(o) \in Tokens /\ Last(o) = Last(turns[Len(turns)].reply)
    BY <1>1, Decoding
  <1>3. PICK row : row = [slot |-> ps, blocks |-> DecodeBlocks(ps)]
    OBVIOUS
  <1>4. RowAt(row, ps, DecodeBlocks(ps))
    BY <1>3 DEF RowAt
  <1>5. PICK d : d = kv'
    OBVIOUS
  <1>6. Decoded(d, kv, o, ps) /\ sampled' = [sampled EXCEPT ![c] = row]
    BY <1>1, <1>2, <1>3, <1>5, Zenon DEF Decoded
  <1>7. DOMAIN d = Slots
    <2>1. PICK tokens : tokens = <<Last(o)>> /\ DOMAIN tokens = 1 .. 1
      <3>1. DOMAIN <<Last(o)>> = 1 .. 1
        OBVIOUS
      <3> QED BY <3>1, Zenon
    <2>2. d = forward_logits(kv, tokens, ps, DecodeBlocks(ps))
      BY <1>6, <2>1, Zenon DEF Decoded
    <2>3. DOMAIN kv = Slots /\ 1 \in Nat
      BY DEF FrontTypeOK
    <2> QED BY <2>1, <2>2, <2>3, ForwardDomain
  <1>8. /\ phase \in [Everyone -> Phases] /\ out \in [Everyone -> Seq(Tokens)]
        /\ pos \in [Everyone -> Nat] /\ told \in [Everyone -> Seq(Turns)]
        /\ DOMAIN sampled = Everyone /\ DOMAIN kv = Slots
    BY DEF FrontTypeOK
  <1>9. sampled'[c] = row /\ DOMAIN sampled' = Everyone /\ DOMAIN kv' = Slots
        /\ \A e \in Everyone \ {c} : sampled'[e] = sampled[e]
    BY <1>5, <1>6, <1>7, <1>8
  <1>10. Alone(c)
    BY <1>1, Decoding
  <1>11. CASE t = EOS
    <2>1. phase' = [phase EXCEPT ![c] = "stopped"] /\ out' = out /\ pos' = pos /\ told' = told
      BY <1>11 DEF Decode, Goto, AfterEos
    <2>2. /\ phase'[c] = "stopped" /\ out'[c] = o /\ pos'[c] = ps /\ told'[c] = turns
          /\ phase' \in [Everyone -> Phases]
      BY <1>2, <1>8, <2>1 DEF Phases
    <2>3. Spares(c)
      BY <1>1, <1>8, <1>9, <2>1 DEF Spares
    <2>4. Counted("stopped", o, ps, turns)
      BY <1>2 DEF Counted, Generates
    <2>5. ASSUME ~ drafting, NEW owner PROVE Fine(owner, d, "stopped", o, ps, turns, row)
      BY <1>2, <1>4, <1>6, <1>8, <2>5, DecodesFine
    <2>6. ~ drafting => Fine(Owner(c)', kv', phase'[c], out'[c], pos'[c], told'[c], sampled'[c])
      BY <1>5, <1>9, <2>2, <2>5
    <2>7. EachFine'
      BY <1>10, <2>2, <2>3, <2>4, <2>6, OthersFine
    <2> QED BY <1>8, <1>9, <2>1, <2>2, <2>7 DEF ValuesOK
  <1>12. CASE t # EOS
    <2>1. PICK more \in Seq(Tokens) : more = <<t>>
      <3>1. <<t>> \in Seq(Tokens)
        OBVIOUS
      <3> QED BY <3>1, Zenon
    <2>2. PICK new : Grows(new, turns, more)
      BY DEF Grows
    <2>3. /\ new \in Seq(Turns) /\ new # <<>> /\ Len(FedOf(new)) = ps + 1
          /\ Last(new[Len(new)].reply) = t
      <3>1. Len(more) = 1
        BY <2>1
      <3>2. new \in Seq(Turns) /\ new # <<>> /\ Len(FedOf(new)) = Len(FedOf(turns)) + Len(more)
        BY <1>2, <2>2, FedGrows
      <3>3. Grows(new, turns, <<t>>)
        BY <2>1, <2>2, Zenon
      <3>4. Last(new[Len(new)].reply) = t
        BY <1>2, <3>3, FedNext
      <3> QED BY <1>2, <3>1, <3>2, <3>4
    <2>4. PICK o2 \in Seq(Tokens) : o2 = Append(o, t) /\ o2 # <<>> /\ Last(o2) = t
      <3>1. Append(o, t) \in Seq(Tokens) /\ Append(o, t) # <<>>
        BY AppendProperties
      <3>2. Last(Append(o, t)) = t
        BY FrontOfAppend
      <3> QED BY <3>1, <3>2, Zenon
    <2>5. told' = [told EXCEPT ![c] = new]
      <3>1. told' = [told EXCEPT ![c] = [told[c] EXCEPT ![Len(told[c])].reply = @ \o <<t>>]]
        BY <1>12 DEF Decode, Told
      <3>2. new = [told[c] EXCEPT ![Len(told[c])].reply = @ \o <<t>>]
        BY <1>2, <2>1, <2>2, Zenon DEF Grows
      <3> QED BY <3>1, <3>2, Zenon
    <2>6. PICK ph : /\ phase' = [phase EXCEPT ![c] = ph] /\ ph \in {"decode", "reply"}
                    /\ ph = "decode" => Len(out'[c]) < MaxTokens
      BY <1>12 DEF Decode, Goto
    <2>7. out' = [out EXCEPT ![c] = o2] /\ pos' = [pos EXCEPT ![c] = ps + 1]
      BY <1>2, <1>12, <2>4 DEF Decode
    <2>8. /\ phase'[c] = ph /\ out'[c] = o2 /\ pos'[c] = ps + 1 /\ told'[c] = new
          /\ phase' \in [Everyone -> Phases] /\ out' \in [Everyone -> Seq(Tokens)]
          /\ pos' \in [Everyone -> Nat] /\ told' \in [Everyone -> Seq(Turns)]
      BY <1>8, <2>3, <2>5, <2>6, <2>7 DEF Phases
    <2>9. Spares(c)
      BY <1>1, <1>8, <1>9, <2>5, <2>6, <2>7 DEF Spares
    <2>10. Counted(ph, o2, ps + 1, new)
      BY <2>3, <2>4 DEF Counted
    <2>11. ASSUME ~ drafting, NEW owner PROVE Fine(owner, d, ph, o2, ps + 1, new, row)
      <3>1. Grows(new, turns, <<t>>)
        BY <2>1, <2>2, Zenon
      <3>2. \A u \in Tokens : \A n, q :
              /\ Grows(n, turns, <<u>>)
              /\ q \in {"decode", "reply"} /\ (q = "decode" => Len(Append(o, u)) < MaxTokens)
              => Fine(owner, d, q, Append(o, u), ps + 1, n, row)
        BY <1>2, <1>4, <1>6, <1>8, <2>11, DecodesFine
      <3>3. ph \in {"decode", "reply"} /\ (ph = "decode" => Len(Append(o, t)) < MaxTokens)
        BY <2>4, <2>6, <2>8
      <3> QED BY <2>4, <3>1, <3>2, <3>3, Zenon
    <2>12. ~ drafting => Fine(Owner(c)', kv', phase'[c], out'[c], pos'[c], told'[c], sampled'[c])
      BY <1>5, <1>9, <2>8, <2>11
    <2>13. EachFine'
      BY <1>10, <2>8, <2>9, <2>10, <2>12, OthersFine
    <2> QED BY <1>9, <2>8, <2>13 DEF ValuesOK
  <1> QED BY <1>11, <1>12

-----------------------------------------------------------------------------
(***************************************************************************)
(* The n-gram index offers tokens.                                         *)
(***************************************************************************)
LEMMA BuildType ==
  ASSUME NEW S, NEW tokens \in Seq(S), NEW n \in Nat
  PROVE  \A g \in DOMAIN build(tokens, n) : build(tokens, n)[g] \in S
  <1> DEFINE starts == IF n < 2 THEN {} ELSE 1 .. Len(tokens) - n + 1
             Gram(i) == SubSeq(tokens, i, i + n - 2)
             at(g) == {i \in starts : Gram(i) = g}
             FirstAt(g) == CHOOSE i \in starts : Gram(i) = g /\ \A j \in starts : Gram(j) = g => i <= j
  <1>1. build(tokens, n) = [g \in {Gram(i) : i \in starts} |-> tokens[FirstAt(g) + n - 1]]
    BY DEF build
  <1>2. Len(tokens) \in Nat /\ \A i \in 1 .. Len(tokens) : tokens[i] \in S
    BY LenProperties, ElementOfSeq
  <1>3. starts \in SUBSET Nat /\ \A i \in starts : i + n - 1 \in 1 .. Len(tokens)
    BY <1>2
  <1> HIDE DEF starts, Gram
  <1>4. SUFFICES ASSUME NEW g \in {Gram(i) : i \in starts} PROVE tokens[FirstAt(g) + n - 1] \in S
    BY <1>1
  <1>5. PICK i \in at(g) : \A j \in at(g) : i <= j
    <2>1. at(g) # {} /\ at(g) \in SUBSET Nat
      BY <1>3
    <2> HIDE DEF at
    <2> QED BY <2>1, LeastExists
  <1>6. FirstAt(g) \in starts
    <2>1. i \in starts /\ Gram(i) = g /\ \A j \in starts : Gram(j) = g => i <= j
      BY <1>5
    <2> HIDE DEF at
    <2> QED BY <2>1
  <1> HIDE DEF FirstAt
  <1> QED BY <1>2, <1>3, <1>6

LEMMA SuggestType ==
  ASSUME NEW S, NEW recent \in Seq(S), NEW n \in Nat, NEW table,
         \A g \in DOMAIN table : table[g] \in S
  PROVE  suggest(table, n, recent) \in Seq(S)
  <1> DEFINE Suffix(len) == SubSeq(recent, Len(recent) - len + 2, Len(recent))
             hits == {len \in 2 .. n : Len(recent) >= len - 1 /\ Suffix(len) \in DOMAIN table}
             best == CHOOSE len \in hits : \A l \in hits : l <= len
  <1>1. suggest(table, n, recent) = IF hits = {} THEN <<>> ELSE Append(Suffix(best), table[Suffix(best)])
    BY DEF suggest
  <1>2. Len(recent) \in Nat /\ \A i \in 1 .. Len(recent) : recent[i] \in S
    BY LenProperties, ElementOfSeq
  <1>3. hits \in SUBSET (2 .. n) /\ \A len \in hits : Suffix(len) \in Seq(S) /\ Suffix(len) \in DOMAIN table
    <2>1. SUFFICES ASSUME NEW len \in hits PROVE Suffix(len) \in Seq(S)
      OBVIOUS
    <2>2. len \in 2 .. n /\ Len(recent) >= len - 1
      OBVIOUS
    <2>3. PICK a \in Int : a = Len(recent) - len + 2 /\ a >= 1
      BY <1>2, <2>2
    <2>4. \A i \in a .. Len(recent) : recent[i] \in S
      BY <1>2, <2>3
    <2>5. SubSeq(recent, a, Len(recent)) \in Seq(S)
      BY <1>2, <2>4, SubSeqProperties
    <2> QED BY <2>3, <2>5
  <1> HIDE DEF Suffix, hits
  <1>4. ASSUME hits # {} PROVE best \in hits
    <2> DEFINE below == {n - l : l \in hits}
    <2>1. below # {} /\ below \in SUBSET Nat
      <3>1. \A l \in 2 .. n : n - l \in Nat
        OBVIOUS
      <3>2. \A l \in hits : n - l \in Nat
        BY <1>3, <3>1
      <3> QED BY <1>4, <3>2
    <2>2. PICK k \in below : \A j \in below : k <= j
      <3> HIDE DEF below
      <3> QED BY <2>1, LeastExists
    <2>3. PICK l \in hits : k = n - l
      BY <2>2
    <2>4. \A m \in hits : m <= l
      <3>1. SUFFICES ASSUME NEW m \in hits PROVE m <= l
        OBVIOUS
      <3>2. n - l <= n - m
        BY <2>2, <2>3
      <3>3. m \in 2 .. n /\ l \in 2 .. n
        BY <1>3
      <3> QED BY <3>2, <3>3
    <2> QED BY <2>4
  <1> HIDE DEF best
  <1>5. CASE hits = {}
    BY <1>1, <1>5
  <1>6. CASE hits # {}
    <2>1. Suffix(best) \in Seq(S) /\ table[Suffix(best)] \in S
      BY <1>3, <1>4, <1>6
    <2> QED BY <1>1, <1>6, <2>1, AppendProperties
  <1> QED BY <1>5, <1>6

LEMMA TailType ==
  ASSUME NEW S, NEW o \in Seq(S), NEW n \in Nat
  PROVE  TailOf(o, n) \in Seq(S)
  <1>1. Len(o) \in Nat /\ \A i \in 1 .. Len(o) : o[i] \in S
    BY LenProperties, ElementOfSeq
  <1>2. PICK a \in Int : a = Len(o) - (IF n - 1 < Len(o) THEN n - 1 ELSE Len(o)) + 1 /\ a >= 1
    <2>1. PICK m \in Nat : m = Len(o)
      BY <1>1
    <2>2. CASE n - 1 < m
      <3>1. m - (n - 1) + 1 \in Int /\ m - (n - 1) + 1 >= 1
        BY <2>2
      <3> QED BY <2>1, <2>2, <3>1
    <2>3. CASE ~ (n - 1 < m)
      <3>1. m - m + 1 = 1
        OBVIOUS
      <3> QED BY <2>1, <2>3, <3>1
    <2> QED BY <2>2, <2>3
  <1>3. \A i \in a .. Len(o) : o[i] \in S
    BY <1>1, <1>2
  <1>4. SubSeq(o, a, Len(o)) \in Seq(S)
    BY <1>1, <1>3, SubSeqProperties
  <1> QED BY <1>2, <1>4 DEF TailOf

\* A draft is a sequence of tokens, and only a program that drafts has one.
LEMMA DraftType ==
  ASSUME FrontTypeOK, NEW c \in Everyone
  PROVE  Draft(c) \in Seq(Tokens) /\ (Draft(c) # <<>> => drafting)
  <1> DEFINE d == suggest(succ, DraftN, TailOf(out[c], DraftN))
             k == IF DraftK < Len(d) THEN DraftK ELSE Len(d)
  <1>1. out[c] \in Seq(Tokens) /\ DraftN \in Nat /\ DraftK \in Nat /\ Corpus \in Seq(Tokens)
    BY FrontAssumption DEF FrontTypeOK
  <1>2. TailOf(out[c], DraftN) \in Seq(Tokens)
    BY <1>1, TailType
  <1>3. \A g \in DOMAIN succ : succ[g] \in Tokens
    BY <1>1, BuildType DEF succ
  <1>4. d \in Seq(Tokens)
    BY <1>1, <1>2, <1>3, SuggestType
  <1> HIDE DEF d
  <1>5. Len(d) \in Nat /\ \A i \in 1 .. Len(d) : d[i] \in Tokens
    BY <1>4, LenProperties, ElementOfSeq
  <1>6. k \in Nat /\ \A i \in 1 .. k : d[i] \in Tokens
    BY <1>1, <1>5
  <1> HIDE DEF k
  <1>7. SubSeq(d, 1, k) \in Seq(Tokens)
    BY <1>6, SubSeqProperties
  <1>8. Draft(c) = IF drafting /\ iters = 0 THEN SubSeq(d, 1, k) ELSE <<>>
    BY DEF Draft, d, k
  <1> QED BY <1>7, <1>8

LEMMA LastAlike ==
  ASSUME NEW S, NEW a \in Seq(S), NEW b \in Seq(S), NEW m \in Seq(S),
         a # <<>>, b # <<>>, Last(a) = Last(b)
  PROVE  Last(a \o m) = Last(b \o m) /\ a \o m \in Seq(S) /\ a \o m # <<>>
  <1>1. ASSUME NEW q \in Seq(S), q # <<>>
        PROVE  /\ q \o m \in Seq(S) /\ q \o m # <<>>
               /\ Last(q \o m) = IF m = <<>> THEN Last(q) ELSE Last(m)
    <2>1. PICK x, y \in Nat : x = Len(q) /\ y = Len(m) /\ x # 0
      BY <1>1, EmptySeq, LenProperties
    <2>2. /\ q \o m \in Seq(S) /\ Len(q \o m) = x + y
          /\ \A i \in 1 .. x + y : (q \o m)[i] = IF i <= x THEN q[i] ELSE m[i - x]
      BY <1>1, <2>1, ConcatProperties
    <2>3. (q \o m)[x + y] = IF x + y <= x THEN q[x + y] ELSE m[(x + y) - x]
      BY <2>1, <2>2
    <2>4. m = <<>> <=> y = 0
      BY <2>1, EmptySeq
    <2>5. (q \o m)[x + y] = IF y = 0 THEN q[x] ELSE m[y]
      BY <2>1, <2>3
    <2>6. q \o m # <<>>
      BY <2>1, <2>2, EmptySeq
    <2>7. Last(q \o m) = (q \o m)[x + y]
      BY <2>2, Zenon DEF Last
    <2>8. Last(q) = q[x] /\ Last(m) = m[y]
      BY <2>1 DEF Last
    <2> QED BY <2>2, <2>4, <2>5, <2>6, <2>7, <2>8
  <1> QED BY <1>1

LEMMA SpeculateStep ==
  ASSUME FrontTypeOK, LockInv, EachFine, NEW c \in Everyone, NEW accepted \in 0 .. DraftK,
         NEW t \in Tokens, Speculate(c, accepted, t)
  PROVE  EachFine' /\ ValuesOK'
  <1>1. PICK d \in Seq(Tokens) : d = Draft(c) /\ (d # <<>> => drafting)
    BY DraftType
  <1>2. PICK emitted, blocks, row, ph :
          /\ phase[c] = "decode" /\ Len(d) > 0 /\ accepted <= Len(d)
          /\ emitted = SubSeq(d, 1, accepted) \o (IF t = EOS THEN <<>> ELSE <<t>>)
          /\ kv' = forward_logits(kv, <<Last(out[c])>> \o d, pos[c] - 1, blocks)
          /\ sampled' = [sampled EXCEPT ![c] = row]
          /\ out' = [out EXCEPT ![c] = @ \o emitted] /\ Told(c, emitted)
          /\ pos' = [pos EXCEPT ![c] = @ + (IF t = EOS THEN accepted ELSE accepted + 1)]
          /\ phase' = [phase EXCEPT ![c] = ph] /\ ph \in {"stopped", "decode", "reply"}
          /\ mode' = mode /\ drafting' = drafting
    BY <1>1, Zenon DEF Speculate, Goto, Advanced, AfterEos
  <1>3. Len(d) \in Nat /\ accepted \in Nat /\ \A i \in 1 .. Len(d) : d[i] \in Tokens
    BY LenProperties, ElementOfSeq, FrontAssumption
  <1>4. drafting
    <2>1. d # <<>>
      BY <1>2, EmptySeq
    <2> QED BY <1>1, <2>1
  <1>5. PICK more \in Seq(Tokens) :
          more = emitted /\ Len(more) = IF t = EOS THEN accepted ELSE accepted + 1
    <2>1. \A i \in 1 .. accepted : d[i] \in Tokens
      BY <1>2, <1>3
    <2>2. PICK head \in Seq(Tokens) : head = SubSeq(d, 1, accepted) /\ Len(head) = accepted
      <3>1. /\ SubSeq(d, 1, accepted) \in Seq(Tokens)
            /\ Len(SubSeq(d, 1, accepted)) = IF 1 <= accepted THEN accepted - 1 + 1 ELSE 0
        BY <1>3, <2>1, SubSeqProperties
      <3>2. (IF 1 <= accepted THEN accepted - 1 + 1 ELSE 0) = accepted
        BY <1>3
      <3> QED BY <3>1, <3>2, Zenon
    <2>3. PICK tail \in Seq(Tokens) :
            tail = (IF t = EOS THEN <<>> ELSE <<t>>) /\ Len(tail) = (IF t = EOS THEN 0 ELSE 1)
      <3>1. <<t>> \in Seq(Tokens) /\ Len(<<t>>) = 1
        OBVIOUS
      <3>2. <<>> \in Seq(Tokens) /\ Len(<<>>) = 0
        OBVIOUS
      <3> DEFINE tail == IF t = EOS THEN <<>> ELSE <<t>>
      <3>3. t = EOS => tail = <<>>
        BY Zenon
      <3>4. t # EOS => tail = <<t>>
        BY Zenon
      <3>5. tail = IF t = EOS THEN <<>> ELSE <<t>>
        OBVIOUS
      <3> HIDE DEF tail
      <3>6. tail \in Seq(Tokens)
        BY <3>1, <3>2, <3>3, <3>4, Zenon
      <3>7. t = EOS => Len(tail) = 0
        BY <3>2, <3>3, Zenon
      <3>8. t # EOS => Len(tail) = 1
        BY <3>1, <3>4, Zenon
      <3>9. Len(tail) = IF t = EOS THEN 0 ELSE 1
        BY <3>7, <3>8
      <3> QED BY <3>5, <3>6, <3>9, Zenon
    <2>4. head \o tail \in Seq(Tokens) /\ Len(head \o tail) = Len(head) + Len(tail)
      BY ConcatProperties
    <2>5. emitted = head \o tail
      BY <1>2, <2>2, <2>3, Zenon
    <2>6. Len(head) + Len(tail) = IF t = EOS THEN accepted ELSE accepted + 1
      <3>1. accepted + 0 = accepted
        BY <1>3
      <3>2. Len(head) + Len(tail) = accepted + (IF t = EOS THEN 0 ELSE 1)
        BY <2>2, <2>3, Zenon
      <3> QED BY <3>1, <3>2
    <2> QED BY <2>4, <2>5, <2>6, Zenon
  <1>6. PICK o \in Seq(Tokens), turns \in Seq(Turns), ps \in Nat :
          /\ o = out[c] /\ turns = told[c] /\ ps = pos[c] /\ turns # <<>> /\ o # <<>>
          /\ ps = Len(FedOf(turns)) /\ Last(o) \in Tokens
          /\ Last(o) = Last(turns[Len(turns)].reply) /\ Alone(c)
    BY <1>2, Decoding
  <1>7. PICK new : Grows(new, turns, more)
    BY DEF Grows
  <1>8. /\ new \in Seq(Turns) /\ new # <<>> /\ Len(new) = Len(turns)
        /\ new[Len(new)].reply = turns[Len(turns)].reply \o more
        /\ Len(FedOf(new)) = ps + Len(more)
    <2>1. turns # <<>>
      BY <1>6
    <2>2. /\ new \in Seq(Turns) /\ new # <<>> /\ Len(new) = Len(turns)
          /\ new[Len(new)].reply = turns[Len(turns)].reply \o more
          /\ Len(FedOf(new)) = Len(FedOf(turns)) + Len(more)
      BY <1>7, <2>1, FedGrows
    <2> QED BY <1>6, <2>2, Zenon
  <1>9. Last(o \o more) = Last(new[Len(new)].reply) /\ o \o more \in Seq(Tokens) /\ o \o more # <<>>
    <2>1. turns[Len(turns)] \in Turns
      BY <1>6, FedIs
    <2>2. PICK q \in Seq(Tokens) : q = turns[Len(turns)].reply /\ q # <<>>
      BY <2>1, KeptType
    <2>3. Last(o \o more) = Last(q \o more) /\ o \o more \in Seq(Tokens) /\ o \o more # <<>>
      BY <1>6, <2>2, LastAlike
    <2> QED BY <1>8, <2>2, <2>3
  <1>10. told' = [told EXCEPT ![c] = new]
    <2>1. told' = [told EXCEPT ![c] = [told[c] EXCEPT ![Len(told[c])].reply = @ \o emitted]]
      BY <1>2 DEF Told
    <2>2. new = [told[c] EXCEPT ![Len(told[c])].reply = @ \o emitted]
      BY <1>5, <1>6, <1>7, Zenon DEF Grows
    <2> QED BY <2>1, <2>2, Zenon
  <1>11. /\ phase \in [Everyone -> Phases] /\ out \in [Everyone -> Seq(Tokens)]
         /\ pos \in [Everyone -> Nat] /\ told \in [Everyone -> Seq(Turns)]
         /\ DOMAIN sampled = Everyone /\ DOMAIN kv = Slots
    BY DEF FrontTypeOK
  <1>12. PICK o2 \in Seq(Tokens), ps2 \in Nat :
           /\ o2 = o \o more /\ ps2 = ps + Len(more)
           /\ out' = [out EXCEPT ![c] = o2] /\ pos' = [pos EXCEPT ![c] = ps2]
    <2>1. out' = [out EXCEPT ![c] = o \o more]
      BY <1>2, <1>5, <1>6, Zenon
    <2>2. pos' = [pos EXCEPT ![c] = ps + Len(more)]
      BY <1>2, <1>5, <1>6
    <2>3. ps + Len(more) \in Nat
      BY LenProperties
    <2> QED BY <1>9, <2>1, <2>2, <2>3
  <1>13. /\ phase'[c] = ph /\ out'[c] = o2 /\ pos'[c] = ps2 /\ told'[c] = new
         /\ phase' \in [Everyone -> Phases] /\ out' \in [Everyone -> Seq(Tokens)]
         /\ pos' \in [Everyone -> Nat] /\ told' \in [Everyone -> Seq(Turns)]
         /\ DOMAIN sampled' = Everyone
    <2>1. ph \in Phases
      BY <1>2 DEF Phases
    <2>2. phase'[c] = ph /\ phase' \in [Everyone -> Phases] /\ DOMAIN sampled' = Everyone
      BY <1>2, <1>11, <2>1
    <2>3. out'[c] = o2 /\ out' \in [Everyone -> Seq(Tokens)]
      BY <1>11, <1>12
    <2>4. pos'[c] = ps2 /\ pos' \in [Everyone -> Nat]
      BY <1>11, <1>12
    <2>5. told'[c] = new /\ told' \in [Everyone -> Seq(Turns)]
      BY <1>8, <1>10, <1>11
    <2> QED BY <2>2, <2>3, <2>4, <2>5
  <1>14. Spares(c)
    BY <1>2, <1>10, <1>11, <1>12 DEF Spares
  <1>15. DOMAIN kv' = Slots
    <2>1. PICK tokens \in Seq(Tokens) : tokens = <<Last(out[c])>> \o d
      <3>1. <<Last(out[c])>> \in Seq(Tokens)
        BY <1>6
      <3>2. \A one \in Seq(Tokens) : one \o d \in Seq(Tokens)
        BY ConcatProperties
      <3> QED BY <3>1, <3>2, Zenon
    <2>2. kv' = forward_logits(kv, tokens, pos[c] - 1, blocks)
      BY <1>2, <2>1, Zenon
    <2>3. Len(tokens) \in Nat /\ DOMAIN tokens = 1 .. Len(tokens)
      BY LenProperties
    <2> QED BY <1>11, <2>2, <2>3, ForwardDomain
  <1>16. Counted(ph, o2, ps2, new)
    BY <1>8, <1>9, <1>12 DEF Counted
  <1>17. EachFine'
    BY <1>4, <1>6, <1>13, <1>14, <1>16, OthersFine
  <1> QED BY <1>13, <1>15, <1>17 DEF ValuesOK

-----------------------------------------------------------------------------
(***************************************************************************)
(* Every step keeps the invariant.                                         *)
(***************************************************************************)
RequestOK ==
  /\ DOMAIN request = Everyone
  /\ \A c \in Everyone : phase[c] = "chat" => request[c] \in Prompts

Parts ==
  /\ mode \in {"repl", "bench", "server"} /\ drafting \in BOOLEAN
  /\ RequestOK /\ ValuesOK /\ LockInv /\ EachFine

LEMMA CoreParts == Core <=> Parts
  BY TypeIs DEF Core, Parts, RequestOK

LEMMA PartsKept == Parts' => Core'
  BY CoreParts, PTL

LEMMA FreshIs == DOMAIN FreshCache = Slots /\ FedOf(<<>>) = <<>> /\ BeganEarly(<<>>)
  <1>1. DOMAIN FreshCache = Slots
    BY DEF FreshCache
  <1>2. <<>> \in Seq(Turns) /\ Len(<<>>) = 0
    OBVIOUS
  <1>3. [i \in 1 .. 0 |-> Kept((<<>>)[i])] \in Seq(Seq(Tokens))
    BY <1>2, KeptSeq
  <1>4. PICK q \in Seq(Seq(Tokens)) : q = [i \in 1 .. 0 |-> Kept((<<>>)[i])]
    BY <1>3
  <1>5. Len(q) = 0
    <2>1. DOMAIN q = 1 .. 0
      BY <1>4
    <2> QED BY <2>1, LenProperties
  <1>6. FlattenSeq(q) = <<>>
    <2>1. q = <<>>
      BY <1>5, EmptySeq
    <2> QED BY <1>5, <2>1 DEF FlattenSeq
  <1> QED BY <1>1, <1>2, <1>4, <1>6 DEF FedOf, KeptOf, BeganEarly

\* A turn of the program's own loop.
LEMMA ConsoleTurn ==
  ASSUME Core, mode # "server", NEW p \in Prompts, NEW t \in Tokens,
         NEW cache, NEW base \in Nat, NEW history \in Seq(Tokens), NEW turns \in Seq(Turns), NEW ph,
         Behind(cache, base, turns), Begins(Console, p, t, cache, base, history, turns, ph),
         request' = [request EXCEPT ![Console] = p], srv_mu' = srv_mu
  PROVE  Core'
  <1>1. Console \in Everyone
    BY DEF Everyone
  <1>2. FrontTypeOK /\ LockInv /\ EachFine
    BY DEF Core
  <1>3. EachFine' /\ ValuesOK'
    BY <1>1, <1>2, WhoIsAlone, BeginTurn
  <1>4. /\ phase' = [phase EXCEPT ![Console] = ph] /\ ph # "chat"
        /\ mode' = mode /\ drafting' = drafting
    BY DEF Begins, Goto
  <1>5. /\ mode \in {"repl", "bench", "server"} /\ drafting \in BOOLEAN
        /\ DOMAIN request = Everyone /\ DOMAIN phase = Everyone
        /\ \A c \in Everyone : phase[c] = "chat" => request[c] \in Prompts
    BY <1>2 DEF FrontTypeOK
  <1>6. RequestOK'
    BY <1>1, <1>4, <1>5 DEF RequestOK
  <1>7. LockInv'
    <2>1. \A c \in Clients : phase[c] = "closed" /\ c # Console /\ c \in Everyone
      BY <1>2, FrontAssumption DEF LockInv, Everyone
    <2>2. \A c \in Clients : phase'[c] = "closed"
      BY <1>4, <1>5, <2>1
    <2> QED BY <1>4, <2>2 DEF LockInv
  <1> QED BY <1>3, <1>4, <1>5, <1>6, <1>7, PartsKept DEF Parts

\* Where a turn goes after its prefill.
AfterFirst(ph, t, o) == ph = IF t # EOS /\ Len(o) < MaxTokens THEN "decode" ELSE "reply"

LEMMA StartTurnStep ==
  ASSUME Core, mode = "repl", NEW p \in Prompts, NEW t \in Tokens, StartTurn(Console, p, t),
         request' = [request EXCEPT ![Console] = p], UNCHANGED <<mode, drafting, srv_mu>>
  PROVE  Core'
  <1>1. Console \in Everyone
    BY DEF Everyone
  <1>2. PICK base \in Nat, history \in Seq(Tokens), turns \in Seq(Turns) :
          base = pos[Console] /\ history = out[Console] /\ turns = told[Console]
    BY <1>1 DEF Core, FrontTypeOK
  <1>3. /\ Fits(base, p)
        /\ Prefill(Console, p, forward_logits(kv, p, base, PrefillBlocks(base, Len(p))),
                   base, history, turns, t)
        /\ Goto(Console, IF t # EOS /\ Len(out'[Console]) < MaxTokens THEN "decode" ELSE "reply")
    BY <1>2 DEF StartTurn
  <1>4. PICK ph : ph = IF t # EOS /\ Len(out'[Console]) < MaxTokens THEN "decode" ELSE "reply"
    OBVIOUS
  <1>5. out'[Console] = Append(history, t)
    BY <1>1, <1>3 DEF Prefill, Core, FrontTypeOK
  <1>6. Begins(Console, p, t, kv, base, history, turns, ph)
    BY <1>3, <1>4, <1>5 DEF Begins
  <1>7. Behind(kv, base, turns)
    <2>1. /\ Counted(phase[Console], history, base, turns)
          /\ ~ drafting => Fine(Owner(Console), kv, phase[Console], history, base, turns, sampled[Console])
      BY <1>1, <1>2 DEF Core, EachFine
    <2>2. Owner(Console)
      BY DEF Owner
    <2>3. DOMAIN kv = Slots
      BY DEF Core, FrontTypeOK
    <2> QED BY <2>1, <2>2, <2>3 DEF Behind, Counted, Fine
  <1> QED BY <1>6, <1>7, ConsoleTurn

LEMMA BenchRunStep ==
  ASSUME Core, NEW p \in Prompts, NEW t \in Tokens, BenchRun(Console, p, t)
  PROVE  Core'
  <1>1. PICK base \in Nat, turns \in Seq(Turns), history \in Seq(Tokens) :
          base = 0 /\ turns = <<>> /\ history = <<>>
    <2>1. <<>> \in Seq(Turns) /\ <<>> \in Seq(Tokens) /\ 0 \in Nat
      OBVIOUS
    <2> QED BY <2>1, Zenon
  <1>2. /\ mode = "bench" /\ Fits(base, p)
        /\ Prefill(Console, p, forward_logits(FreshCache, p, base, PrefillBlocks(base, Len(p))),
                   base, history, turns, t)
        /\ Goto(Console, IF t # EOS /\ 1 < MaxTokens THEN "decode" ELSE "reply")
        /\ request' = [request EXCEPT ![Console] = p] /\ srv_mu' = srv_mu
        /\ mode' = mode /\ drafting' = drafting
    BY <1>1, Zenon DEF BenchRun
  <1>3. PICK ph : ph = IF t # EOS /\ 1 < MaxTokens THEN "decode" ELSE "reply"
    OBVIOUS
  <1>4. Len(Append(history, t)) = 1
    BY <1>1
  <1>5. Begins(Console, p, t, FreshCache, base, history, turns, ph)
    <2>1. Goto(Console, ph) /\ ph \in {"decode", "reply"} /\ (ph = "decode" => Len(Append(history, t)) < MaxTokens)
      BY <1>2, <1>3, <1>4
    <2> QED BY <1>2, <2>1 DEF Begins
  <1>6. Behind(FreshCache, base, turns)
    <2>1. base = Len(FedOf(turns)) /\ DOMAIN FreshCache = Slots
      BY <1>1, FreshIs
    <2>2. Has(FreshCache, FedOf(turns), base)
      BY <1>1 DEF Has
    <2> QED BY <2>1, <2>2 DEF Behind
  <1> QED BY <1>2, <1>5, <1>6, ConsoleTurn

\* A turn that goes on leaves the lock and the requests as they are.
LEMMA GenerateStep ==
  ASSUME Core, NEW c \in Everyone, Generate(c)
  PROVE  Core'
  <1>1. FrontTypeOK /\ LockInv /\ EachFine
    BY DEF Core
  <1>2. EachFine' /\ ValuesOK'
    <2>1. PICK t \in Tokens : Decode(c, t) \/ \E accepted \in 0 .. DraftK : Speculate(c, accepted, t)
      BY DEF Generate
    <2>2. CASE Decode(c, t)
      BY <1>1, <2>2, DecodeStep
    <2>3. CASE \E accepted \in 0 .. DraftK : Speculate(c, accepted, t)
      BY <1>1, <2>3, SpeculateStep
    <2> QED BY <2>1, <2>2, <2>3
  <1>3. PICK ph : /\ phase[c] = "decode" /\ phase' = [phase EXCEPT ![c] = ph]
                  /\ ph \in {"decode", "stopped", "reply"}
                  /\ UNCHANGED <<mode, drafting, request, srv_mu>>
    BY Zenon DEF Generate, Decode, Speculate, Goto, AfterEos
  <1>4. /\ mode \in {"repl", "bench", "server"} /\ drafting \in BOOLEAN
        /\ DOMAIN request = Everyone /\ DOMAIN phase = Everyone
        /\ \A d \in Everyone : phase[d] = "chat" => request[d] \in Prompts
    BY <1>1 DEF FrontTypeOK
  <1>5. RequestOK'
    BY <1>3, <1>4 DEF RequestOK
  <1>6. LockInv'
    <2>1. \A d \in Everyone : d # c => phase'[d] = phase[d]
      BY <1>3, <1>4
    <2>2. \A d \in Everyone : Generating(d)' <=> Generating(d)
      BY <1>3, <1>4 DEF Generating
    <2>3. mode = "server" => phase'[Console] = "closed"
      BY <1>1, <1>3, <1>4 DEF LockInv, Everyone
    <2>4. mode # "server" => \A d \in Clients : phase'[d] = "closed"
      BY <1>1, <1>3, <1>4 DEF LockInv, Everyone
    <2> QED BY <1>1, <1>3, <2>2, <2>3, <2>4 DEF LockInv
  <1> QED BY <1>2, <1>3, <1>4, <1>5, <1>6, PartsKept DEF Parts

\* A request that gets the lock.
LEMMA StartChatStep ==
  ASSUME Core, NEW c \in Clients, NEW t \in Tokens, StartChat(c, t)
  PROVE  Core'
  <1>1. FrontTypeOK /\ LockInv /\ EachFine
    BY DEF Core
  <1>2. c \in Everyone /\ c # Console /\ Console \in Everyone
    BY FrontAssumption DEF Everyone
  <1>3. /\ phase[c] = "chat" /\ srv_mu = {} /\ srv_mu' = {c}
        /\ UNCHANGED <<mode, drafting, request>>
    BY DEF StartChat, Locked
  <1>4. mode = "server"
    BY <1>1, <1>3 DEF LockInv
  <1>5. PICK p \in Prompts : p = request[c]
    BY <1>1, <1>2, <1>3 DEF FrontTypeOK
  <1>6. PICK base \in Nat, turns \in Seq(Turns), history \in Seq(Tokens) :
          base = 0 /\ turns = <<>> /\ history = <<>>
    <2>1. <<>> \in Seq(Turns) /\ <<>> \in Seq(Tokens) /\ 0 \in Nat
      OBVIOUS
    <2> QED BY <2>1, Zenon
  <1>7. PICK ph : ph = IF 1 < MaxTokens THEN "decode" ELSE "reply"
    OBVIOUS
  <1>8. /\ Fits(base, p) /\ Goto(c, ph)
        /\ Prefill(c, p, forward_logits(kv, p, base, PrefillBlocks(base, Len(p))),
                   base, history, turns, t)
    BY <1>5, <1>6, <1>7, Zenon DEF StartChat
  <1>9. Len(Append(history, t)) = 1
    BY <1>6
  <1>10. ph \in {"decode", "reply"} /\ (ph = "decode" => Len(Append(history, t)) < MaxTokens)
    BY <1>7, <1>9
  <1>11. Begins(c, p, t, kv, base, history, turns, ph)
    BY <1>3, <1>8, <1>10 DEF Begins
  <1>12. Behind(kv, base, turns)
    <2>1. base = Len(FedOf(turns)) /\ DOMAIN kv = Slots
      BY <1>1, <1>6, FreshIs DEF FrontTypeOK
    <2>2. Has(kv, FedOf(turns), base)
      BY <1>6 DEF Has
    <2> QED BY <2>1, <2>2 DEF Behind
  <1>13. EachFine' /\ ValuesOK'
    <2>1. Alone(c)
      BY <1>1, <1>2, <1>3, <1>4, WhoIsAlone
    <2> QED BY <1>1, <1>2, <1>11, <1>12, <2>1, BeginTurn
  <1>14. /\ drafting \in BOOLEAN /\ DOMAIN request = Everyone /\ DOMAIN phase = Everyone
         /\ \A d \in Everyone : phase[d] = "chat" => request[d] \in Prompts
    BY <1>1 DEF FrontTypeOK
  <1>15. phase' = [phase EXCEPT ![c] = ph]
    BY <1>8 DEF Goto
  <1>16. RequestOK'
    BY <1>3, <1>10, <1>14, <1>15 DEF RequestOK
  <1>17. LockInv'
    <2>1. phase'[Console] = "closed"
      BY <1>1, <1>2, <1>4, <1>14, <1>15 DEF LockInv
    <2>2. ASSUME NEW d \in Everyone PROVE Generating(d)' <=> srv_mu' = {d}
      <3>1. CASE d = c
        BY <1>3, <1>10, <1>14, <1>15, <3>1 DEF Generating
      <3>2. CASE d # c
        <4>1. ~ Generating(d)
          BY <1>1, <1>3, <1>4 DEF LockInv
        <4>2. phase'[d] = phase[d]
          BY <1>14, <1>15, <3>2
        <4> QED BY <1>3, <3>2, <4>1, <4>2 DEF Generating
      <3> QED BY <3>1, <3>2
    <2> QED BY <1>3, <1>4, <2>1, <2>2 DEF LockInv
  <1> QED BY <1>3, <1>4, <1>13, <1>14, <1>16, <1>17, PartsKept DEF Parts

\* Steps that feed nothing: only a phase changes.
LEMMA QuietFine ==
  ASSUME FrontTypeOK, EachFine, NEW c \in Everyone, NEW ph \in Phases,
         Goto(c, ph), UNCHANGED <<mode, drafting, turnVars>>,
         ~ Generates(ph), Owner(c)' => Owner(c)
  PROVE  EachFine' /\ ValuesOK'
  <1>1. /\ phase' = [phase EXCEPT ![c] = ph] /\ DOMAIN phase = Everyone
        /\ out' = out /\ pos' = pos /\ told' = told /\ sampled' = sampled /\ kv' = kv
        /\ mode' = mode /\ drafting' = drafting
    BY DEF Goto, turnVars, FrontTypeOK
  <1>2. ValuesOK'
    BY <1>1, TypeIs DEF ValuesOK
  <1>3. Spares(c)
    BY <1>1 DEF Spares
  <1>4. Counted(ph, out[c], pos[c], told[c])
    BY DEF EachFine, Counted, Generates
  <1>5. ~ drafting => Fine(Owner(c)', kv, ph, out[c], pos[c], told[c], sampled[c])
    <2>1. SUFFICES ASSUME ~ drafting
                   PROVE  Fine(Owner(c)', kv, ph, out[c], pos[c], told[c], sampled[c])
      OBVIOUS
    <2>2. Fine(Owner(c), kv, phase[c], out[c], pos[c], told[c], sampled[c])
      BY <2>1 DEF EachFine
    <2> QED BY <2>2 DEF Fine, Roomy, Generates
  <1>6. EachFine'
    BY <1>1, <1>3, <1>4, <1>5, OthersFine
  <1> QED BY <1>2, <1>6

LEMMA PrintReplyStep ==
  ASSUME Core, PrintReply(Console)
  PROVE  Core'
  <1>1. FrontTypeOK /\ LockInv /\ EachFine
    BY DEF Core
  <1>2. /\ mode = "repl" /\ Goto(Console, "prompt")
        /\ UNCHANGED <<mode, drafting, request, srv_mu, turnVars>>
    BY DEF PrintReply
  <1>3. Console \in Everyone /\ "prompt" \in Phases /\ ~ Generates("prompt")
    BY DEF Everyone, Phases, Generates
  <1>4. EachFine' /\ ValuesOK'
    <2>1. Owner(Console)' => Owner(Console)
      BY <1>2 DEF Owner
    <2> QED BY <1>1, <1>2, <1>3, <2>1, QuietFine
  <1>5. /\ drafting \in BOOLEAN /\ DOMAIN request = Everyone /\ DOMAIN phase = Everyone
        /\ \A d \in Everyone : phase[d] = "chat" => request[d] \in Prompts
    BY <1>1 DEF FrontTypeOK
  <1>6. RequestOK'
    BY <1>2, <1>5 DEF RequestOK, Goto
  <1>7. LockInv'
    BY <1>1, <1>2, <1>5, FrontAssumption DEF LockInv, Goto, Everyone
  <1> QED BY <1>2, <1>4, <1>5, <1>6, <1>7, PartsKept DEF Parts

\* A connection changes hands without inference: nobody else notices.
LEMMA ConnectionStep ==
  ASSUME Core, mode = "server", NEW c \in Clients, NEW ph \in Phases,
         Goto(c, ph), ~ Generates(ph), UNCHANGED <<mode, drafting>>,
         UNCHANGED turnVars \/ (srv_mu = {} /\ DOMAIN kv' = Slots /\ UNCHANGED <<out, pos, told, sampled>>),
         \/ srv_mu' = srv_mu /\ ~ Generating(c)
         \/ srv_mu' = srv_mu \ {c} /\ Generating(c),
         \/ request' = request /\ ph # "chat"
         \/ \E p \in Prompts : request' = [request EXCEPT ![c] = p]
  PROVE  Core'
  <1>1. FrontTypeOK /\ LockInv /\ EachFine
    BY DEF Core
  <1>2. c \in Everyone /\ c # Console /\ Console \in Everyone
    BY FrontAssumption DEF Everyone
  <1>3. /\ drafting \in BOOLEAN /\ DOMAIN request = Everyone /\ DOMAIN phase = Everyone
        /\ \A d \in Everyone : phase[d] = "chat" => request[d] \in Prompts
    BY <1>1 DEF FrontTypeOK
  <1>4. phase' = [phase EXCEPT ![c] = ph] /\ phase'[c] = ph
    BY <1>2, <1>3 DEF Goto
  <1>5. EachFine' /\ ValuesOK'
    <2>1. ~ Owner(c)'
      BY <1>4 DEF Owner, Generating, Generates
    <2>2. CASE UNCHANGED turnVars
      BY <1>1, <1>2, <2>1, <2>2, QuietFine
    <2>3. CASE srv_mu = {} /\ DOMAIN kv' = Slots /\ UNCHANGED <<out, pos, told, sampled>>
      <3>1. Alone(c)
        BY <1>1, <1>2, <2>3, WhoIsAlone
      <3>2. Spares(c)
        BY <1>3, <1>4, <2>3 DEF Spares
      <3>3. Counted(ph, out[c], pos[c], told[c])
        BY <1>1, <1>2 DEF EachFine, Counted
      <3>4. Fine(Owner(c)', kv', ph, out[c], pos[c], told[c], sampled[c])
        BY <2>1 DEF Fine, Roomy, Generates
      <3>5. /\ phase'[c] = ph /\ out'[c] = out[c] /\ pos'[c] = pos[c] /\ told'[c] = told[c]
            /\ sampled'[c] = sampled[c]
        BY <1>4, <2>3
      <3>6. EachFine'
        BY <1>1, <3>1, <3>2, <3>3, <3>4, <3>5, OthersFine
      <3>7. ValuesOK'
        BY <1>1, <1>4, <2>3, TypeIs DEF ValuesOK
      <3> QED BY <3>6, <3>7
    <2> QED BY <2>2, <2>3
  <1>6. RequestOK'
    BY <1>2, <1>3, <1>4 DEF RequestOK
  <1>7. LockInv'
    <2>1. phase'[Console] = "closed"
      BY <1>1, <1>2, <1>3, <1>4 DEF LockInv
    <2>2. ASSUME NEW d \in Everyone PROVE Generating(d)' <=> srv_mu' = {d}
      <3>1. Generating(d) <=> srv_mu = {d}
        BY <1>1 DEF LockInv
      <3>2. Generating(c) <=> srv_mu = {c}
        BY <1>1, <1>2 DEF LockInv
      <3>3. CASE d = c
        BY <1>4, <3>2, <3>3 DEF Generating, Generates
      <3>4. CASE d # c
        <4>1. Generating(d)' <=> Generating(d)
          BY <1>3, <1>4, <3>4 DEF Generating
        <4> QED BY <3>1, <3>2, <3>4, <4>1
      <3> QED BY <3>3, <3>4
    <2> QED BY <2>1, <2>2 DEF LockInv
  <1> QED BY <1>3, <1>5, <1>6, <1>7, PartsKept DEF Parts

LEMMA ClientStep ==
  ASSUME Core, NEW c \in Clients, Accept(c) \/ Serve(c) \/ HandlerThrows(c) \/ PrefillThrows(c)
  PROVE  Core'
  <1>1. FrontTypeOK /\ LockInv /\ EachFine /\ c \in Everyone
    BY DEF Core, Everyone
  <1>2. phase[c] # "closed" => mode = "server"
    BY <1>1 DEF LockInv
  <1> USE DEF Phases
  <1>3. ~ Generates("connected") /\ ~ Generates("chat") /\ ~ Generates("embed") /\ ~ Generates("closed")
    BY DEF Generates
  <1>4. CASE Accept(c)
    BY <1>3, <1>4, ConnectionStep DEF Accept, Generating
  <1>5. CASE HandleClient(c)
    <2>1. mode = "server" /\ ~ Generating(c) /\ UNCHANGED <<mode, drafting, srv_mu, turnVars>>
      BY <1>2, <1>5 DEF HandleClient, Generating
    <2>2. CASE \E p \in Prompts : request' = [request EXCEPT ![c] = p] /\ Goto(c, "chat")
      BY <1>3, <2>1, <2>2, ConnectionStep
    <2>3. CASE Goto(c, "embed") /\ request' = request
      BY <1>3, <2>1, <2>3, ConnectionStep
    <2>4. CASE Goto(c, "closed") /\ request' = request
      BY <1>3, <2>1, <2>4, ConnectionStep
    <2> QED BY <1>5, <2>2, <2>3, <2>4 DEF HandleClient
  <1>6. CASE Embed(c)
    BY <1>2, <1>3, <1>6, ConnectionStep DEF Embed, Generating
  <1>7. CASE Respond(c)
    BY <1>3, <1>7, ConnectionStep DEF Respond, Generating
  <1>8. CASE \E t \in Tokens : StartChat(c, t)
    BY <1>8, StartChatStep
  <1>9. CASE HandlerThrows(c)
    BY <1>3, <1>9, ConnectionStep DEF HandlerThrows, Generating
  <1>10. CASE PrefillThrows(c)
    <2>1. /\ phase[c] = "chat" /\ srv_mu = {} /\ Goto(c, "closed")
          /\ UNCHANGED <<mode, drafting, request, srv_mu, out, pos, told, sampled>>
      BY <1>10 DEF PrefillThrows
    <2>2. PICK n \in 0 .. Len(request[c]) - 1 :
            kv' = forward_logits(kv, SubSeq(request[c], 1, n), 0, PrefillBlocks(0, Len(request[c])))
      BY <1>10 DEF PrefillThrows
    <2>3. DOMAIN kv' = Slots
      <3>1. PICK p \in Seq(Tokens) : p = request[c]
        BY <1>1, <2>1, FrontAssumption DEF FrontTypeOK
      <3>2. n \in Nat /\ \A i \in 1 .. n : p[i] \in Tokens
        BY <2>2, <3>1, LenProperties, ElementOfSeq
      <3>3. PICK q \in Seq(Tokens) : q = SubSeq(p, 1, n)
        <4>1. SubSeq(p, 1, n) \in Seq(Tokens)
          BY <3>2, SubSeqProperties
        <4> QED BY <4>1, Zenon
      <3>4. Len(q) \in Nat /\ DOMAIN q = 1 .. Len(q)
        BY LenProperties
      <3>5. kv' = forward_logits(kv, q, 0, PrefillBlocks(0, Len(request[c])))
        BY <2>2, <3>1, <3>3
      <3> QED BY <1>1, <3>4, <3>5, ForwardDomain DEF FrontTypeOK
    <2> QED BY <1>2, <1>3, <2>1, <2>3, ConnectionStep DEF Generating
  <1> QED BY <1>4, <1>5, <1>6, <1>7, <1>8, <1>9, <1>10 DEF Serve

LEMMA NextKeeps ==
  ASSUME Core, [Next]_vars
  PROVE  Core'
  <1>1. CASE ConsoleStep
    <2>1. ASSUME NEW p \in Prompts, NEW t \in Tokens, ReadLine(Console, p, t)
          PROVE  Core'
      BY <2>1, StartTurnStep DEF ReadLine
    <2>2. ASSUME NEW p \in Prompts, NEW t \in Tokens, CallTool(Console, p, t)
          PROVE  Core'
      BY <2>2, StartTurnStep DEF CallTool
    <2>3. ASSUME NEW p \in Prompts, NEW t \in Tokens, BenchRun(Console, p, t)
          PROVE  Core'
      BY <2>3, BenchRunStep
    <2>4. CASE PrintReply(Console)
      BY <2>4, PrintReplyStep
    <2> QED BY <1>1, <2>1, <2>2, <2>3, <2>4 DEF ConsoleStep
  <1>2. CASE \E c \in Everyone : Generate(c)
    BY <1>2, GenerateStep
  <1>3. CASE \E c \in Clients : Accept(c) \/ Serve(c) \/ HandlerThrows(c) \/ PrefillThrows(c)
    BY <1>3, ClientStep
  <1>4. CASE UNCHANGED vars
    <2>1. /\ mode' = mode /\ drafting' = drafting /\ phase' = phase /\ request' = request
          /\ out' = out /\ pos' = pos /\ told' = told /\ sampled' = sampled /\ kv' = kv
          /\ srv_mu' = srv_mu
      BY <1>4 DEF vars, turnVars
    <2>2. Parts
      BY CoreParts
    <2>3. EachFine' /\ LockInv' /\ RequestOK' /\ ValuesOK'
      BY <2>1, <2>2 DEF Parts, EachFine, LockInv, RequestOK, ValuesOK, Owner, Generating
    <2> QED BY <2>1, <2>2, <2>3, PartsKept DEF Parts
  <1> QED BY <1>1, <1>2, <1>3, <1>4 DEF Next

LEMMA InitFine ==
  ASSUME Init
  PROVE  Core
  <1>1. <<>> \in Seq(Tokens) /\ <<>> \in Seq(Turns) /\ 0 \in Nat
    OBVIOUS
  <1>2. ValuesOK
    BY <1>1, FreshIs DEF Init, ValuesOK, Phases
  <1>3. \A c \in Everyone : /\ phase[c] = IF c = Console /\ mode # "server" THEN "prompt" ELSE "closed"
                            /\ out[c] = <<>> /\ pos[c] = 0 /\ told[c] = <<>>
    BY DEF Init
  <1>4. RequestOK
    BY <1>3 DEF Init, RequestOK
  <1>5. LockInv
    BY <1>3, FrontAssumption DEF Init, LockInv, Everyone, Generating
  <1>6. EachFine
    <2>1. \A c \in Everyone : ~ Generates(phase[c]) /\ phase[c] # "decode"
      BY <1>3 DEF Generates
    <2>2. Len(FedOf(<<>>)) = 0
      BY FreshIs
    <2>3. \A c \in Everyone : Counted(phase[c], out[c], pos[c], told[c])
      BY <1>3, <2>1, <2>2 DEF Counted
    <2>4. \A c \in Everyone : Fine(Owner(c), kv, phase[c], out[c], pos[c], told[c], sampled[c])
      BY <1>3, <2>1 DEF Fine, Roomy, Has
    <2> QED BY <2>3, <2>4 DEF EachFine
  <1>7. mode \in {"repl", "bench", "server"} /\ drafting \in BOOLEAN
    BY FrontAssumption DEF Init
  <1> QED BY <1>2, <1>4, <1>5, <1>6, <1>7, CoreParts DEF Parts

-----------------------------------------------------------------------------
(***************************************************************************)
(* The results.                                                            *)
(***************************************************************************)
\* Whoever generates holds the lock, what was fed of every conversation is counted by
\* pos, a turn that decodes has room left, and the cache holds what was fed of the
\* one that may use it (main_vulkan.cpp run_turn, the server's handlers).
THEOREM FrontInvariance == Spec => []FrontInv
  <1>1. Init => Core
    BY InitFine
  <1>2. Core /\ [Next]_vars => Core'
    BY NextKeeps
  <1>3. Core => FrontInv
    BY CoreIs
  <1> QED BY <1>1, <1>2, <1>3, PTL DEF Spec

\* pos counts prompts and replies except the first token of every reply, on the
\* speculative path too.
THEOREM PosRight == Spec => []PosCountsTokens
  <1>1. FrontInv => PosCountsTokens
    <2>1. SUFFICES ASSUME FrontInv, NEW c \in Everyone, Generating(c)
                   PROVE  pos[c] = Base(c) + Len(told[c][Len(told[c])].prompt)
                                     + Len(told[c][Len(told[c])].reply) - 1
      BY DEF PosCountsTokens
    <2>2. told[c] \in Seq(Turns) /\ told[c] # <<>> /\ pos[c] = Len(Fed(c))
      BY <2>1 DEF FrontInv, FrontTypeOK, FedInv
    <2>3. Fed(c) = FedOf(told[c]) /\ Base(c) = BaseOf(told[c])
      BY <2>2, ClientFed, LenProperties
    <2> QED BY <2>2, <2>3, FedIs
  <1> QED BY <1>1, FrontInvariance, PTL

\* Without drafts the row of every sample saw the client's own conversation, whatever
\* the other connections did and whichever requests failed, in a turn that began in
\* the first block.
THEOREM SawConversation == Spec => []RowSawConversation
  <1>1. FrontInv => RowSawConversation
    <2>1. SUFFICES ASSUME FrontInv, NEW c \in Everyone, Generating(c), ~ drafting,
                          Base(c) < BlockSize
                   PROVE  LET h == Conversation(c)
                          IN  /\ sampled[c].slot = Len(h) - 1
                              /\ \A p \in 0 .. sampled[c].slot :
                                   Found(kv, sampled[c].blocks, p) = SubSeq(h, 1, p + 1)
      BY DEF RowSawConversation
    <2>2. /\ told[c] \in Seq(Turns) /\ told[c] # <<>> /\ out[c] # <<>> /\ out[c] \in Seq(Tokens)
          /\ pos[c] = Len(Fed(c)) /\ Last(out[c]) = Last(told[c][Len(told[c])].reply)
          /\ pos[c] \in Nat
      BY <2>1 DEF FrontInv, FrontTypeOK, FedInv
    <2>3. Owner(c)
      <3>1. mode # "server" => c = Console
        BY <2>1 DEF FrontInv, LockInv, Everyone, Generating
      <3> QED BY <2>1, <3>1 DEF Owner
    <2>4. Early(c)
      BY <2>1 DEF Early
    <2>5. Holds(Fed(c), pos[c])
      BY <2>1, <2>3, <2>4 DEF FrontInv, CacheInv
    <2>6. /\ sampled[c].slot = Len(Conversation(c)) - 1
          /\ BlocksOf(0, sampled[c].slot) \subseteq sampled[c].blocks
          /\ phase[c] = "stopped" => kv[pos[c]] = Conversation(c)
      BY <2>1, <2>4 DEF FrontInv, SampledInv
    <2>7. PICK f \in Seq(Tokens), x \in Tokens : f = Fed(c) /\ x = Last(out[c])
      <3>1. Fed(c) \in Seq(Tokens)
        BY <2>2, FedIs, ClientFed, LenProperties
      <3>2. Last(out[c]) \in Tokens
        BY <2>2, FrontLast
      <3> QED BY <3>1, <3>2
    <2>8. Conversation(c) = IF phase[c] = "stopped" THEN Append(f, x) ELSE f
      BY <2>2, <2>7, ConversationIs
    <2>9. SUFFICES ASSUME NEW p \in 0 .. sampled[c].slot
                   PROVE  kv[p] = SubSeq(Conversation(c), 1, p + 1)
      BY <2>6 DEF Found, BlocksOf
    <2>10. PICK n \in Nat : n = pos[c] /\ n = Len(f)
      BY <2>2, <2>7
    <2>11. \A q \in 0 .. n - 1 : kv[q] = SubSeq(f, 1, q + 1)
      BY <2>5, <2>7, <2>10 DEF Holds
    <2>12. CASE phase[c] # "stopped"
      BY <2>6, <2>8, <2>9, <2>10, <2>11, <2>12
    <2>13. CASE phase[c] = "stopped"
      <3>1. PICK h \in Seq(Tokens) : h = Append(f, x) /\ Len(h) = n + 1
        <4>1. Append(f, x) \in Seq(Tokens) /\ Len(Append(f, x)) = n + 1
          BY <2>10, AppendProperties
        <4> QED BY <4>1, Zenon
      <3>2. Conversation(c) = h /\ sampled[c].slot = n /\ kv[n] = h
        BY <2>6, <2>8, <2>10, <2>13, <3>1
      <3>3. CASE p = n
        <4>1. SubSeq(h, 1, n + 1) = h
          BY <3>1, SubSeqFull
        <4> QED BY <3>2, <3>3, <4>1
      <3>4. CASE p # n
        <4>1. p \in 0 .. n - 1 /\ p + 1 \in Nat /\ p + 1 <= Len(f)
          BY <2>9, <2>10, <3>2, <3>4
        <4>2. PICK o \in Seq(Tokens) : o = <<x>>
          <5>1. <<x>> \in Seq(Tokens)
            OBVIOUS
          <5> QED BY <5>1, Zenon
        <4>3. h = f \o o
          BY <3>1, <4>2, AppendIsConcat
        <4>4. SubSeq(f \o o, 1, p + 1) = SubSeq(f, 1, p + 1)
          BY <4>1, PrefixOfConcat
        <4> QED BY <2>11, <3>2, <4>1, <4>3, <4>4
      <3> QED BY <3>3, <3>4
    <2> QED BY <2>12, <2>13
  <1> QED BY <1>1, FrontInvariance, PTL

\* A forward in a turn that goes on has emitted a token.
THEOREM MovesOn == Spec => TurnMovesOn
  <1>1. ASSUME FrontInv, [Next]_vars
        PROVE  [\A c \in Everyone :
                  Generate(c) /\ phase'[c] = "decode" => Len(out'[c]) > Len(out[c])]_vars
    <2>1. SUFFICES ASSUME NEW c \in Everyone, Generate(c), phase'[c] = "decode"
                   PROVE  Len(out'[c]) > Len(out[c])
      OBVIOUS
    <2>2. FrontTypeOK
      BY <1>1 DEF FrontInv
    <2>3. out \in [Everyone -> Seq(Tokens)] /\ DOMAIN phase = Everyone
      BY <2>2 DEF FrontTypeOK
    <2>4. PICK o \in Seq(Tokens) : o = out[c]
      BY <2>3
    <2>5. PICK t \in Tokens : Decode(c, t) \/ \E accepted \in 0 .. DraftK : Speculate(c, accepted, t)
      BY <2>1 DEF Generate
    <2>6. CASE Decode(c, t)
      <3>1. t # EOS
        BY <2>1, <2>3, <2>6 DEF Decode, Goto, AfterEos
      <3>2. out' = [out EXCEPT ![c] = Append(o, t)]
        BY <2>4, <2>6, <3>1 DEF Decode
      <3>3. out'[c] = Append(o, t)
        BY <2>3, <3>2
      <3>4. Len(Append(o, t)) = Len(o) + 1 /\ Len(o) \in Nat
        BY AppendProperties, LenProperties
      <3>5. Len(o) + 1 > Len(o)
        BY <3>4
      <3> QED BY <2>4, <3>3, <3>4, <3>5, Zenon
    <2>7. CASE \E accepted \in 0 .. DraftK : Speculate(c, accepted, t)
      <3>1. PICK accepted \in 0 .. DraftK : Speculate(c, accepted, t)
        BY <2>7
      <3>2. t # EOS
        BY <2>1, <2>3, <3>1 DEF Speculate, Goto, AfterEos
      <3>3. PICK d \in Seq(Tokens) : d = Draft(c) /\ accepted <= Len(d)
        BY <2>2, <3>1, DraftType DEF Speculate
      <3>4. PICK head \in Seq(Tokens) : head = SubSeq(d, 1, accepted)
        <4>1. Len(d) \in Nat /\ \A i \in 1 .. Len(d) : d[i] \in Tokens
          BY LenProperties, ElementOfSeq
        <4>2. accepted \in Nat /\ \A i \in 1 .. accepted : d[i] \in Tokens
          BY <3>3, <4>1, FrontAssumption
        <4>3. SubSeq(d, 1, accepted) \in Seq(Tokens)
          BY <4>2, SubSeqProperties
        <4> QED BY <4>3, Zenon
      <3>5. PICK one \in Seq(Tokens) : one = <<t>> /\ Len(one) = 1
        <4>1. <<t>> \in Seq(Tokens) /\ Len(<<t>>) = 1
          OBVIOUS
        <4> QED BY <4>1, Zenon
      <3>6. out' = [out EXCEPT ![c] = out[c] \o (head \o one)]
        BY <3>1, <3>2, <3>3, <3>4, <3>5, Zenon DEF Speculate
      <3>7. out'[c] = o \o (head \o one)
        BY <2>3, <2>4, <3>6
      <3>8. PICK e \in Seq(Tokens) : e = head \o one /\ Len(e) = Len(head) + 1
        <4>1. head \o one \in Seq(Tokens) /\ Len(head \o one) = Len(head) + 1
          BY <3>5, ConcatProperties
        <4> QED BY <4>1, Zenon
      <3>9. Len(o \o e) = Len(o) + Len(e)
        BY ConcatProperties
      <3>10. PICK x, y \in Nat : x = Len(o) /\ y = Len(head)
        BY LenProperties
      <3>11. x + (y + 1) > x
        OBVIOUS
      <3> QED BY <2>4, <3>7, <3>8, <3>9, <3>10, <3>11, Zenon
    <2> QED BY <2>5, <2>6, <2>7
  <1> QED BY <1>1, FrontInvariance, PTL DEF Spec, TurnMovesOn
=============================================================================

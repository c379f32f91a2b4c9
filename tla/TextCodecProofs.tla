-------------------------- MODULE TextCodecProofs --------------------------
(***************************************************************************)
(* The best path of the unigram tokenizer is the best of all cuts.         *)
(***************************************************************************)
EXTENDS TextCodec, QueueProofs

(***************************************************************************)
(* The score of a list of tokens.                                          *)
(***************************************************************************)
Sum(ids) == FoldLeft(LAMBDA sum, id : sum + ScoreOf(id), 0, ids)

SumFolds(g, ids, n) ==
  g = [u \in SUBSET (1 .. n) |->
         IF u = {} THEN 0 ELSE g[u \ {Max(u)}] + ScoreOf(ids[Max(u)])]

LEMMA SumUnfolds ==
  ASSUME NEW ids, NEW n \in Nat, DOMAIN ids = 1 .. n
  PROVE  Sum(ids) = (CHOOSE g : SumFolds(g, ids, n))[1 .. n]
  BY DEF Sum, FoldLeft, MapThenFoldSet, SumFolds

LEMMA SumFoldsExists ==
  ASSUME NEW ids, NEW n \in Nat, \A i \in 1 .. n : ScoreOf(ids[i]) \in Int
  PROVE  \E g : SumFolds(g, ids, n)
  <1> DEFINE F == [x \in (1 .. n) \X Int |-> x[2] + ScoreOf(ids[x[1]])]
  <1>1. F \in [(1 .. n) \X Int -> Int]
    OBVIOUS
  <1>2. \A i \in 1 .. n, y \in Int : F[<<i, y>>] = y + ScoreOf(ids[i])
    OBVIOUS
  <1> HIDE DEF F
  <1>3. Folds(Int, F, 0, n)
    <2>1. 0 \in Int
      OBVIOUS
    <2> QED BY <1>1, <2>1, FoldingExists
  <1>4. PICK h \in [SUBSET (1 .. n) -> Int] : Folding(h, F, 0, n)
    BY <1>3 DEF Folds
  <1>5. ASSUME NEW u \in SUBSET (1 .. n)
        PROVE  h[u] = IF u = {} THEN 0 ELSE h[u \ {Max(u)}] + ScoreOf(ids[Max(u)])
    <2>1. h[u] = IF u = {} THEN 0 ELSE F[<<Max(u), h[u \ {Max(u)}]>>]
      BY <1>4 DEF Folding
    <2>2. CASE u # {}
      <3>1. Max(u) \in 1 .. n
        BY <2>2, MaxInside
      <3>2. h[u \ {Max(u)}] \in Int
        OBVIOUS
      <3> QED BY <1>2, <2>1, <2>2, <3>1, <3>2
    <2> QED BY <2>1, <2>2
  <1>6. h = [u \in SUBSET (1 .. n) |->
               IF u = {} THEN 0 ELSE h[u \ {Max(u)}] + ScoreOf(ids[Max(u)])]
    BY <1>5
  <1> QED BY <1>6 DEF SumFolds

LEMMA SumRuns ==
  ASSUME NEW ids, NEW n \in Nat, DOMAIN ids = 1 .. n,
         \A i \in 1 .. n : ScoreOf(ids[i]) \in Int
  PROVE  \E r : /\ r[0] = 0
                /\ \A i \in 1 .. n : r[i] = r[i - 1] + ScoreOf(ids[i])
                /\ Sum(ids) = r[n]
  <1>1. PICK g : SumFolds(g, ids, n) /\ Sum(ids) = g[1 .. n]
    BY SumUnfolds, SumFoldsExists
  <1>2. \A u \in SUBSET (1 .. n) :
          g[u] = IF u = {} THEN 0 ELSE g[u \ {Max(u)}] + ScoreOf(ids[Max(u)])
    BY <1>1 DEF SumFolds
  <1> DEFINE r == [i \in 0 .. n |-> g[1 .. i]]
  <1>3. r[0] = 0
    <2>1. 1 .. 0 = {} /\ {} \in SUBSET (1 .. n) /\ 0 \in 0 .. n
      OBVIOUS
    <2> QED BY <1>2, <2>1
  <1>4. ASSUME NEW i \in 1 .. n
        PROVE  r[i] = r[i - 1] + ScoreOf(ids[i])
    <2>1. /\ 1 .. i \in SUBSET (1 .. n) /\ 1 .. i # {}
          /\ Max(1 .. i) = i
          /\ (1 .. i) \ {i} = 1 .. i - 1 /\ i \in 0 .. n /\ i - 1 \in 0 .. n
      BY FirstIndices
    <2>2. g[1 .. i] = g[1 .. i - 1] + ScoreOf(ids[i])
      BY <1>2, <2>1
    <2> QED BY <2>1, <2>2
  <1>5. r[n] = Sum(ids)
    BY <1>1
  <1> HIDE DEF r
  <1> QED BY <1>3, <1>4, <1>5

LEMMA SumEmpty == Sum(<<>>) = 0
  <1>1. DOMAIN <<>> = 1 .. 0 /\ 0 \in Nat
    OBVIOUS
  <1>2. \E r : r[0] = 0 /\ Sum(<<>>) = r[0]
    <2>1. \A i \in 1 .. 0 : ScoreOf(<<>>[i]) \in Int
      OBVIOUS
    <2>2. PICK r : r[0] = 0 /\ Sum(<<>>) = r[0]
      BY <1>1, <2>1, SumRuns
    <2> QED BY <2>2
  <1> QED BY <1>2

LEMMA SumAppend ==
  ASSUME NEW S, \A x \in S : ScoreOf(x) \in Int, NEW ids \in Seq(S), NEW x \in S
  PROVE  /\ Sum(ids) \in Int
         /\ Sum(Append(ids, x)) = Sum(ids) + ScoreOf(x)
  <1> DEFINE n == Len(ids)
             more == Append(ids, x)
  <1>1. /\ n \in Nat /\ DOMAIN ids = 1 .. n
        /\ DOMAIN more = 1 .. n + 1 /\ more[n + 1] = x
        /\ \A i \in 1 .. n : ids[i] \in S /\ more[i] = ids[i]
        /\ \A i \in 1 .. n + 1 : more[i] \in S
    BY LenProperties, AppendProperties, ElementOfSeq
  <1> HIDE DEF n, more
  <1>2. PICK r : /\ r[0] = 0
                 /\ \A i \in 1 .. n : r[i] = r[i - 1] + ScoreOf(ids[i])
                 /\ Sum(ids) = r[n]
    BY <1>1, SumRuns
  <1>3. PICK q : /\ q[0] = 0
                 /\ \A i \in 1 .. n + 1 : q[i] = q[i - 1] + ScoreOf(more[i])
                 /\ Sum(more) = q[n + 1]
    <2>1. n + 1 \in Nat /\ \A i \in 1 .. n + 1 : ScoreOf(more[i]) \in Int
      BY <1>1
    <2> QED BY <1>1, <2>1, SumRuns
  <1> DEFINE differ == {i \in 0 .. n : r[i] # q[i] \/ r[i] \notin Int}
  <1>4. differ = {}
    <2>1. SUFFICES ASSUME differ # {} PROVE FALSE
      OBVIOUS
    <2>2. PICK i \in differ : \A j \in differ : i <= j
      <3>1. differ \in SUBSET Nat
        BY <1>1
      <3> HIDE DEF differ
      <3> QED BY <2>1, <3>1, LeastExists
    <2>3. i # 0
      BY <1>2, <1>3, <2>2
    <2>4. i \in 1 .. n /\ i \in 1 .. n + 1 /\ i - 1 \in 0 .. n /\ i - 1 < i
      BY <1>1, <2>2, <2>3
    <2>5. r[i - 1] = q[i - 1] /\ r[i - 1] \in Int
      BY <2>2, <2>4
    <2>6. r[i] = r[i - 1] + ScoreOf(ids[i]) /\ q[i] = q[i - 1] + ScoreOf(more[i])
      BY <1>2, <1>3, <2>4
    <2>7. more[i] = ids[i] /\ ScoreOf(ids[i]) \in Int
      BY <1>1, <2>4
    <2> QED BY <2>2, <2>5, <2>6, <2>7
  <1>5. n \in 0 .. n /\ n + 1 \in 1 .. n + 1 /\ (n + 1) - 1 = n
    BY <1>1
  <1>6. r[n] = q[n] /\ r[n] \in Int
    BY <1>4, <1>5
  <1>7. q[n + 1] = q[n] + ScoreOf(x)
    BY <1>1, <1>3, <1>5
  <1> QED BY <1>2, <1>3, <1>6, <1>7 DEF more
-----------------------------------------------------------------------------
(***************************************************************************)
(* What the loaders make of a file that fits.                              *)
(***************************************************************************)
Longest == 12 * MaxChars
Fits(x) == x \in Int /\ Longest * x > NEG
FileOk ==
  /\ \A p \in t.usable : Fits(t.score[p]) /\ ~ parse_byte_piece(p)
  /\ Fits(BYTE_SCORE)
Texts == Seq(0 .. 255)

(***************************************************************************)
(* The tokens between two positions, and the one that Edge chooses.        *)
(***************************************************************************)
LEMMA SubText ==
  ASSUME NEW s \in Texts, NEW i \in 0 .. Len(s), NEW p \in i + 1 .. Len(s)
  PROVE  SubSeq(s, i + 1, p) \in Texts /\ SubSeq(s, i + 1, p)[1] \in 0 .. 255
  <1>1. Len(s) \in Nat
    BY LenProperties DEF Texts
  <1>2. \A j \in i + 1 .. p : j \in 1 .. Len(s)
    BY <1>1
  <1>3. \A j \in i + 1 .. p : s[j] \in 0 .. 255
    BY <1>2, ElementOfSeq DEF Texts
  <1>4. i + 1 \in Int /\ p \in Int /\ i + 1 \in i + 1 .. p
    BY <1>1
  <1>5. /\ SubSeq(s, i + 1, p) \in Seq(0 .. 255)
        /\ \A j \in 1 .. p - (i + 1) + 1 : SubSeq(s, i + 1, p)[j] = s[(i + 1) + j - 1]
    BY <1>3, <1>4, SubSeqProperties
  <1>6. 1 \in 1 .. p - (i + 1) + 1 /\ (i + 1) + 1 - 1 = i + 1
    BY <1>1
  <1>7. SubSeq(s, i + 1, p)[1] = s[i + 1]
    BY <1>5, <1>6
  <1> QED BY <1>3, <1>4, <1>5, <1>7 DEF Texts

LEMMA BytePieceScore ==
  ASSUME NEW b
  PROVE  parse_byte_piece(BytePiece(b)) /\ ScoreOf(BytePiece(b)) = BYTE_SCORE
  BY DEF parse_byte_piece, BytePiece, ScoreOf

LEMMA PiecesAre ==
  ASSUME FileOk, NEW s \in Texts, NEW i \in 0 .. Len(s), NEW p \in i + 1 .. Len(s), NEW id
  PROVE  id \in Pieces(s, i, p) <=>
           \/ id \in t.usable /\ id = SubSeq(s, i + 1, p)
           \/ p = i + 1 /\ s[p] \in t.fallback /\ id = BytePiece(s[p])
  <1> DEFINE sub == SubSeq(s, i + 1, p)
  <1>1. \A b : sub # BytePiece(b)
    <2>1. sub[1] \in 0 .. 255
      BY SubText
    <2>2. \A b : BytePiece(b)[1] = -1
      BY DEF BytePiece, ByteMark
    <2>3. sub[1] # -1
      <3>1. \A x \in 0 .. 255 : x # -1
        OBVIOUS
      <3> HIDE DEF sub
      <3> QED BY <2>1, <3>1
    <2> HIDE DEF sub
    <2> QED BY <2>2, <2>3
  <1>2. \A b : BytePiece(b) \notin t.usable
    BY BytePieceScore DEF FileOk
  <1>3. \A b, c : BytePiece(b) = BytePiece(c) => b = c
    <2>1. \A b : BytePiece(b)[2] = b
      BY DEF BytePiece
    <2> QED BY <2>1
  <1>4. id \in Pieces(s, i, p) <=>
          /\ id \in t.usable \/ \E b \in t.fallback : id = BytePiece(b)
          /\ \/ id = sub
             \/ p = i + 1 /\ id = BytePiece(s[p])
    BY DEF Pieces
  <1> HIDE DEF sub
  <1>5. id \in Pieces(s, i, p) <=>
           \/ id \in t.usable /\ id = sub
           \/ p = i + 1 /\ s[p] \in t.fallback /\ id = BytePiece(s[p])
    BY <1>1, <1>2, <1>3, <1>4
  <1> QED BY <1>5 DEF sub

LEMMA PieceFits ==
  ASSUME FileOk, NEW s \in Texts, NEW i \in 0 .. Len(s), NEW p \in i + 1 .. Len(s),
         NEW id \in Pieces(s, i, p)
  PROVE  Fits(ScoreOf(id))
  <1>1. CASE id \in t.usable
    BY <1>1 DEF FileOk, ScoreOf
  <1>2. CASE id = BytePiece(s[p])
    BY <1>2, BytePieceScore DEF FileOk
  <1> QED BY <1>1, <1>2, PiecesAre

\* Edge chooses the best of them.
LEMMA EdgeBest ==
  ASSUME FileOk, NEW s \in Texts, NEW i \in 0 .. Len(s), NEW p \in i + 1 .. Len(s),
         NEW e, e = Edge(t, s, i, p)
  PROVE  /\ e = <<>> => Pieces(s, i, p) = {}
         /\ e # <<>> => /\ e[1].id \in Pieces(s, i, p)
                        /\ e[1].score = ScoreOf(e[1].id) /\ e[1].score \in Int
                        /\ \A id \in Pieces(s, i, p) : ScoreOf(id) <= e[1].score
  <1> DEFINE sub == SubSeq(s, i + 1, p)
             byte == p = i + 1 /\ s[p] \in t.fallback
             piece == [score |-> t.score[sub], id |-> sub]
             mark == [score |-> BYTE_SCORE, id |-> BytePiece(s[p])]
  <1>1. e = IF sub \in t.usable /\ ~ (byte /\ t.score[sub] < BYTE_SCORE) THEN <<piece>>
            ELSE IF byte THEN <<mark>> ELSE <<>>
    BY DEF Edge
  <1>2. \A id : id \in Pieces(s, i, p) <=>
                  (id \in t.usable /\ id = sub) \/ (byte /\ id = BytePiece(s[p]))
    BY PiecesAre
  <1>3. sub \in t.usable => ScoreOf(sub) = t.score[sub] /\ t.score[sub] \in Int
    BY DEF FileOk, ScoreOf, Fits
  <1>4. ScoreOf(BytePiece(s[p])) = BYTE_SCORE /\ BYTE_SCORE \in Int
    BY BytePieceScore DEF BYTE_SCORE
  <1>5. /\ <<piece>> # <<>> /\ <<piece>>[1].id = sub /\ <<piece>>[1].score = t.score[sub]
        /\ <<mark>> # <<>> /\ <<mark>>[1].id = BytePiece(s[p]) /\ <<mark>>[1].score = BYTE_SCORE
    OBVIOUS
  <1> HIDE DEF sub, byte, piece, mark
  <1>6. CASE sub \in t.usable /\ ~ (byte /\ t.score[sub] < BYTE_SCORE)
    <2>1. e # <<>> /\ e[1].id = sub /\ e[1].score = t.score[sub]
      BY <1>1, <1>5, <1>6
    <2>2. \A id \in Pieces(s, i, p) : ScoreOf(id) <= t.score[sub]
      BY <1>2, <1>3, <1>4, <1>6
    <2> QED BY <1>2, <1>3, <1>6, <2>1, <2>2
  <1>7. CASE ~ (sub \in t.usable /\ ~ (byte /\ t.score[sub] < BYTE_SCORE)) /\ byte
    <2>1. e # <<>> /\ e[1].id = BytePiece(s[p]) /\ e[1].score = BYTE_SCORE
      BY <1>1, <1>5, <1>7
    <2>2. \A id \in Pieces(s, i, p) : ScoreOf(id) <= BYTE_SCORE
      BY <1>2, <1>3, <1>4, <1>7
    <2> QED BY <1>2, <1>4, <1>7, <2>1, <2>2
  <1>8. CASE ~ (sub \in t.usable /\ ~ (byte /\ t.score[sub] < BYTE_SCORE)) /\ ~ byte
    BY <1>1, <1>2, <1>8
  <1> QED BY <1>6, <1>7, <1>8
-----------------------------------------------------------------------------
(***************************************************************************)
(* The tables that Viterbi goes through: r[k] when the first k positions   *)
(* have been left.                                                         *)
(***************************************************************************)
Relax(s, best, i) ==
  [p \in 0 .. Len(s) |->
     IF p <= i \/ best[i].score = NEG THEN best[p]
     ELSE LET e == Edge(t, s, i, p)
          IN  IF e # <<>> /\ Better(best[p].score, best[i].score + e[1].score)
              THEN [score |-> best[i].score + e[1].score, from |-> i, id |-> e[1].id]
              ELSE best[p]]
Start(s) ==
  [p \in 0 .. Len(s) |-> [score |-> IF p = 0 THEN 0 ELSE NEG, from |-> -1, id |-> <<>>]]

Ids == t.usable \cup {BytePiece(b) : b \in t.fallback} \cup {<<>>}
Entries == [score : Int, from : Int, id : Ids]
Tables(s) == [0 .. Len(s) -> Entries]

LEMMA RelaxType ==
  ASSUME FileOk, NEW s \in Texts, NEW best \in Tables(s), NEW i \in 0 .. Len(s)
  PROVE  Relax(s, best, i) \in Tables(s)
  <1>1. SUFFICES ASSUME NEW p \in 0 .. Len(s)
                 PROVE  Relax(s, best, i)[p] \in Entries
    BY DEF Relax, Tables
  <1>2. best[p] \in Entries /\ best[i] \in Entries
    BY DEF Tables
  <1>3. CASE p <= i \/ best[i].score = NEG
    BY <1>2, <1>3 DEF Relax
  <1>4. CASE ~ (p <= i \/ best[i].score = NEG)
    <2> DEFINE e == Edge(t, s, i, p)
    <2>1. Relax(s, best, i)[p] =
            IF e # <<>> /\ Better(best[p].score, best[i].score + e[1].score)
            THEN [score |-> best[i].score + e[1].score, from |-> i, id |-> e[1].id]
            ELSE best[p]
      BY <1>4 DEF Relax
    <2>2. CASE e = <<>>
      BY <1>2, <2>1, <2>2
    <2>3. CASE e # <<>>
      <3>1. p \in i + 1 .. Len(s)
        <4>1. Len(s) \in Nat
          BY LenProperties DEF Texts
        <4> QED BY <1>4, <4>1
      <3>2. e[1].id \in Ids /\ e[1].score \in Int
        <4>1. e[1].id \in Pieces(s, i, p) /\ e[1].score \in Int
          BY <2>3, <3>1, EdgeBest
        <4> QED BY <4>1 DEF Pieces, Ids
      <3> HIDE DEF e
      <3>3. best[i].score + e[1].score \in Int /\ i \in Int
        BY <1>2, <3>2 DEF Entries
      <3>4. [score |-> best[i].score + e[1].score, from |-> i, id |-> e[1].id] \in Entries
        BY <3>2, <3>3 DEF Entries
      <3> QED BY <1>2, <2>1, <3>4
    <2> QED BY <2>2, <2>3
  <1> QED BY <1>3, <1>4

LEMMA StartType ==
  ASSUME NEW s \in Texts
  PROVE  Start(s) \in Tables(s)
  <1>1. NEG \in Int
    BY DEF NEG
  <1>2. \A p \in 0 .. Len(s) :
          [score |-> IF p = 0 THEN 0 ELSE NEG, from |-> -1, id |-> <<>>] \in Entries
    BY <1>1 DEF Entries, Ids
  <1> QED BY <1>2 DEF Start, Tables

ViterbiFolds(g, s, q, n) ==
  g = [u \in SUBSET (1 .. n) |->
         IF u = {} THEN Start(s) ELSE Relax(s, g[u \ {Max(u)}], q[Max(u)])]

LEMMA ViterbiUnfolds ==
  ASSUME NEW s \in Texts, NEW n \in Nat, n = Len(s), NEW q, q = [i \in 1 .. Len(s) |-> i - 1]
  PROVE  Viterbi(t, s) = (CHOOSE g : ViterbiFolds(g, s, q, n))[1 .. n]
  <1>1. DOMAIN q = 1 .. n
    OBVIOUS
  <1> QED BY <1>1 DEF Viterbi, FoldLeft, MapThenFoldSet, ViterbiFolds, Relax, Start

LEMMA ViterbiFoldsExists ==
  ASSUME FileOk, NEW s \in Texts, NEW n \in Nat, n = Len(s),
         NEW q, q = [i \in 1 .. Len(s) |-> i - 1]
  PROVE  \E g : ViterbiFolds(g, s, q, n)
  <1> DEFINE F == [x \in (1 .. n) \X Tables(s) |-> Relax(s, x[2], q[x[1]])]
  <1>0. \A i \in 1 .. n : q[i] \in 0 .. Len(s)
    OBVIOUS
  <1>1. F \in [(1 .. n) \X Tables(s) -> Tables(s)]
    <2>1. \A x \in (1 .. n) \X Tables(s) : Relax(s, x[2], q[x[1]]) \in Tables(s)
      <3>1. SUFFICES ASSUME NEW x \in (1 .. n) \X Tables(s)
                     PROVE  Relax(s, x[2], q[x[1]]) \in Tables(s)
        OBVIOUS
      <3>2. x[2] \in Tables(s) /\ q[x[1]] \in 0 .. Len(s)
        BY <1>0
      <3> QED BY <3>2, RelaxType
    <2> QED BY <2>1
  <1>2. \A i \in 1 .. n, y \in Tables(s) : F[<<i, y>>] = Relax(s, y, q[i])
    OBVIOUS
  <1> HIDE DEF F
  <1>3. Folds(Tables(s), F, Start(s), n)
    BY <1>1, StartType, FoldingExists
  <1>4. PICK h \in [SUBSET (1 .. n) -> Tables(s)] : Folding(h, F, Start(s), n)
    BY <1>3 DEF Folds
  <1>5. ASSUME NEW u \in SUBSET (1 .. n)
        PROVE  h[u] = IF u = {} THEN Start(s) ELSE Relax(s, h[u \ {Max(u)}], q[Max(u)])
    <2>1. h[u] = IF u = {} THEN Start(s) ELSE F[<<Max(u), h[u \ {Max(u)}]>>]
      BY <1>4 DEF Folding
    <2>2. CASE u # {}
      <3>1. Max(u) \in 1 .. n
        BY <2>2, MaxInside
      <3>2. h[u \ {Max(u)}] \in Tables(s)
        OBVIOUS
      <3> QED BY <1>2, <2>1, <2>2, <3>1, <3>2
    <2> QED BY <2>1, <2>2
  <1>6. h = [u \in SUBSET (1 .. n) |->
               IF u = {} THEN Start(s) ELSE Relax(s, h[u \ {Max(u)}], q[Max(u)])]
    BY <1>5
  <1> QED BY <1>6 DEF ViterbiFolds

LEMMA ViterbiRuns ==
  ASSUME FileOk, NEW s \in Texts, NEW n \in Nat, n = Len(s)
  PROVE  \E r : /\ r[0] = Start(s)
                /\ \A i \in 1 .. n : r[i] = Relax(s, r[i - 1], i - 1)
                /\ Viterbi(t, s) = r[n]
  <1> DEFINE q == [i \in 1 .. Len(s) |-> i - 1]
  <1>0. \A i \in 1 .. n : q[i] = i - 1
    OBVIOUS
  <1>1. PICK g : ViterbiFolds(g, s, q, n) /\ Viterbi(t, s) = g[1 .. n]
    BY ViterbiUnfolds, ViterbiFoldsExists
  <1> HIDE DEF q
  <1>2. \A u \in SUBSET (1 .. n) :
          g[u] = IF u = {} THEN Start(s) ELSE Relax(s, g[u \ {Max(u)}], q[Max(u)])
    BY <1>1 DEF ViterbiFolds
  <1> DEFINE r == [i \in 0 .. n |-> g[1 .. i]]
  <1>3. r[0] = Start(s)
    <2>1. 1 .. 0 = {} /\ {} \in SUBSET (1 .. n) /\ 0 \in 0 .. n
      OBVIOUS
    <2> QED BY <1>2, <2>1
  <1>4. ASSUME NEW i \in 1 .. n
        PROVE  r[i] = Relax(s, r[i - 1], i - 1)
    <2>1. /\ 1 .. i \in SUBSET (1 .. n) /\ 1 .. i # {}
          /\ Max(1 .. i) = i
          /\ (1 .. i) \ {i} = 1 .. i - 1 /\ i \in 0 .. n /\ i - 1 \in 0 .. n
      BY FirstIndices
    <2>2. g[1 .. i] = Relax(s, g[1 .. i - 1], i - 1)
      BY <1>0, <1>2, <2>1
    <2> QED BY <2>1, <2>2
  <1>5. r[n] = Viterbi(t, s)
    BY <1>1
  <1> HIDE DEF r
  <1> QED BY <1>3, <1>4, <1>5
-----------------------------------------------------------------------------
(***************************************************************************)
(* No score comes down to NEG: the score of a position is at least its     *)
(* share of it.                                                            *)
(***************************************************************************)
LEMMA MulMonotone ==
  ASSUME NEW n \in Nat, NEW a \in Int, NEW b \in Int, a <= b
  PROVE  n * a <= n * b
  <1>1. PICK d \in Nat : b = a + d
    <2>1. b - a \in Nat /\ b = a + (b - a)
      OBVIOUS
    <2> QED BY <2>1
  <1>2. n * b = n * a + n * d /\ n * d \in Nat /\ n * a \in Int
    BY <1>1
  <1> QED BY <1>2

LEMMA ShareOfNeg ==
  ASSUME NEW n \in Nat, NEW a \in Int, NEW x \in Int, NEW i \in Nat, NEW p \in Nat,
         i < p, p <= n, n * a >= i * NEG, n * x > NEG
  PROVE  n * (a + x) >= p * NEG /\ a + x > NEG
  <1>1. n * (a + x) = n * a + n * x /\ n * a \in Int /\ n * x \in Int
    OBVIOUS
  <1>2. n * (a + x) > (i + 1) * NEG
    <2> DEFINE na == n * a
               nx == n * x
               all == n * (a + x)
    <2>1. all = na + nx /\ na \in Int /\ nx \in Int /\ na >= i * NEG /\ nx > NEG
      BY <1>1
    <2> HIDE DEF na, nx, all
    <2>2. all > (i + 1) * NEG
      BY <2>1 DEF NEG
    <2> QED BY <2>2 DEF all
  <1>3. (i + 1) * NEG >= p * NEG
    BY DEF NEG
  <1>4. n * (a + x) \in Int
    OBVIOUS
  <1>5. n * (a + x) > p * NEG
    <2> DEFINE all == n * (a + x)
    <2> HIDE DEF all
    <2>1. all \in Int /\ all > (i + 1) * NEG
      BY <1>2, <1>4 DEF all
    <2>2. all > p * NEG
      BY <1>3, <2>1 DEF NEG
    <2> QED BY <2>2 DEF all
  <1>6. ASSUME a + x <= NEG
        PROVE  FALSE
    <2>1. n * (a + x) <= n * NEG
      <3>1. a + x \in Int /\ NEG \in Int
        BY DEF NEG
      <3> QED BY <1>6, <3>1, MulMonotone
    <2>2. n * NEG <= p * NEG
      BY DEF NEG
    <2> DEFINE all == n * (a + x)
    <2>3. all \in Int /\ all <= n * NEG /\ all > p * NEG
      BY <1>4, <1>5, <2>1
    <2> HIDE DEF all
    <2> QED BY <2>2, <2>3 DEF NEG
  <1>7. a + x > NEG
    BY <1>6 DEF NEG
  <1>8. n * (a + x) >= p * NEG
    BY <1>4, <1>5 DEF NEG
  <1> QED BY <1>7, <1>8

\* What is known when the positions before k have been left.
Reached(b, p) == b[p].score # NEG
Comes(s, b, p, k) ==
  /\ b[p].from \in 0 .. p - 1 /\ b[p].from < k
  /\ Reached(b, b[p].from)
  /\ b[p].id \in Pieces(s, b[p].from, p)
  /\ b[p].score = b[b[p].from].score + ScoreOf(b[p].id)
Leaves(s, b, i) ==
  Reached(b, i) => \A p \in i + 1 .. Len(s) : \A id \in Pieces(s, i, p) :
                     Reached(b, p) /\ b[p].score >= b[i].score + ScoreOf(id)
Best(s, b, k) ==
  /\ b \in Tables(s)
  /\ b[0].score = 0
  /\ \A p \in 1 .. Len(s) : Reached(b, p) => Comes(s, b, p, k)
  /\ \A i \in 0 .. k - 1 : Leaves(s, b, i)
  /\ \A p \in 0 .. Len(s) : Reached(b, p) => Longest * b[p].score >= p * NEG

LEMMA BestStart ==
  ASSUME NEW s \in Texts, Longest \in Nat
  PROVE  Best(s, Start(s), 0)
  <1>0. Len(s) \in Nat
    BY LenProperties DEF Texts
  <1>1. \A p \in 0 .. Len(s) : Start(s)[p].score = IF p = 0 THEN 0 ELSE NEG
    BY DEF Start
  <1>2. Start(s)[0].score = 0
    BY <1>0, <1>1
  <1>3. \A p \in 0 .. Len(s) : Reached(Start(s), p) => p = 0
    BY <1>1 DEF Reached
  <1>4. \A p \in 0 .. Len(s) :
          Reached(Start(s), p) => Longest * Start(s)[p].score >= p * NEG
    <2>1. Longest * 0 >= 0 * NEG
      BY DEF NEG
    <2> QED BY <1>2, <1>3, <2>1
  <1>5. \A p \in 1 .. Len(s) : Reached(Start(s), p) => Comes(s, Start(s), p, 0)
    BY <1>3
  <1>6. \A i \in 0 .. 0 - 1 : Leaves(s, Start(s), i)
    OBVIOUS
  <1> QED BY <1>2, <1>4, <1>5, <1>6, StartType DEF Best

\* What leaving position k does to the table.
LEMMA Relaxed ==
  ASSUME FileOk, Longest \in Nat, NEW s \in Texts, Len(s) <= Longest,
         NEW k \in 0 .. Len(s), NEW b, Best(s, b, k),
         NEW c, c = Relax(s, b, k), NEW p \in 0 .. Len(s)
  PROVE  \/ c[p] = b[p] /\ (k < p /\ Reached(b, k) =>
                             \A id \in Pieces(s, k, p) :
                               Reached(b, p) /\ b[p].score >= b[k].score + ScoreOf(id))
         \/ /\ k < p /\ Reached(b, k)
            /\ c[p].from = k /\ c[p].id \in Pieces(s, k, p)
            /\ c[p].score = b[k].score + ScoreOf(c[p].id)
            /\ c[p].score > b[p].score /\ c[p].score > NEG
            /\ Longest * c[p].score >= p * NEG
            /\ \A id \in Pieces(s, k, p) : c[p].score >= b[k].score + ScoreOf(id)
  <1>0. Len(s) \in Nat
    BY LenProperties DEF Texts
  <1>1. b[p].score \in Int /\ b[k].score \in Int
    BY DEF Best, Tables, Entries
  <1>2. CASE p <= k \/ ~ Reached(b, k)
    <2>1. c[p] = b[p]
      BY <1>2 DEF Relax, Reached
    <2>2. ~ (k < p /\ Reached(b, k))
      BY <1>0, <1>2
    <2> QED BY <2>1, <2>2
  <1>3. CASE ~ (p <= k \/ ~ Reached(b, k))
    <2> DEFINE e == Edge(t, s, k, p)
    <2>1. c[p] = IF e # <<>> /\ Better(b[p].score, b[k].score + e[1].score)
                 THEN [score |-> b[k].score + e[1].score, from |-> k, id |-> e[1].id]
                 ELSE b[p]
      BY <1>3 DEF Relax, Reached
    <2>2. p \in k + 1 .. Len(s) /\ k < p /\ p \in Nat /\ k \in Nat /\ p <= Longest
      BY <1>0, <1>3
    <2>3. /\ e = <<>> => Pieces(s, k, p) = {}
          /\ e # <<>> => /\ e[1].id \in Pieces(s, k, p)
                         /\ e[1].score = ScoreOf(e[1].id) /\ e[1].score \in Int
                         /\ \A id \in Pieces(s, k, p) : ScoreOf(id) <= e[1].score
      BY <2>2, EdgeBest
    <2>4. \A id \in Pieces(s, k, p) :
            ScoreOf(id) \in Int /\ Longest * ScoreOf(id) > NEG
      BY <2>2, PieceFits DEF Fits
    <2>5. Longest * b[k].score >= k * NEG
      BY <1>3 DEF Best
    <2> HIDE DEF e
    <2>6. CASE e = <<>>
      BY <2>1, <2>3, <2>6
    <2>7. CASE e # <<>>
      <3> DEFINE new == b[k].score + e[1].score
      <3>1. Longest * new >= p * NEG /\ new > NEG
        <4>1. e[1].score \in Int /\ Longest * e[1].score > NEG
          BY <2>3, <2>4, <2>7
        <4> QED BY <1>1, <2>2, <2>5, <4>1, ShareOfNeg
      <3>2. \A id \in Pieces(s, k, p) : new >= b[k].score + ScoreOf(id)
        BY <1>1, <2>3, <2>4, <2>7
      <3>3. new \in Int
        BY <1>1, <2>3, <2>7
      <3>4. CASE new > b[p].score
        <4>1. c[p] = [score |-> new, from |-> k, id |-> e[1].id]
          BY <2>1, <2>7, <3>4 DEF Better
        <4>2. /\ c[p].score = new /\ c[p].from = k /\ c[p].id = e[1].id
              /\ new = b[k].score + ScoreOf(e[1].id)
          BY <2>3, <2>7, <4>1
        <4> HIDE DEF new
        <4>3. Reached(b, k)
          BY <1>3
        <4> QED BY <2>2, <2>3, <2>7, <3>1, <3>2, <3>4, <4>2, <4>3
      <3>5. CASE ~ (new > b[p].score)
        <4>1. c[p] = b[p]
          BY <2>1, <3>5 DEF Better
        <4> HIDE DEF new
        <4>2. b[p].score # NEG
          BY <1>1, <3>1, <3>3, <3>5 DEF NEG
        <4>3. \A id \in Pieces(s, k, p) : b[p].score >= b[k].score + ScoreOf(id)
          <5>1. ASSUME NEW id \in Pieces(s, k, p)
                PROVE  b[p].score >= b[k].score + ScoreOf(id)
            <6>1. b[k].score + ScoreOf(id) \in Int /\ new >= b[k].score + ScoreOf(id)
              BY <1>1, <2>4, <3>2
            <6> QED BY <1>1, <3>3, <3>5, <6>1
          <5> QED BY <5>1
        <4> QED BY <4>1, <4>2, <4>3 DEF Reached
      <3> QED BY <3>4, <3>5
    <2> QED BY <2>6, <2>7
  <1> QED BY <1>2, <1>3

LEMMA BestNext ==
  ASSUME FileOk, Longest \in Nat, NEW s \in Texts, Len(s) <= Longest,
         NEW k \in 0 .. Len(s), NEW b, Best(s, b, k),
         NEW c, c = Relax(s, b, k)
  PROVE  Best(s, c, k + 1)
  <1>0. Len(s) \in Nat
    BY LenProperties DEF Texts
  <1>1. c \in Tables(s)
    BY RelaxType DEF Best
  <1> DEFINE Kept_(p) == c[p] = b[p] /\ (k < p /\ Reached(b, k) =>
                             \A id \in Pieces(s, k, p) :
                               Reached(b, p) /\ b[p].score >= b[k].score + ScoreOf(id))
             New_(p) ==
               /\ k < p /\ Reached(b, k)
               /\ c[p].from = k /\ c[p].id \in Pieces(s, k, p)
               /\ c[p].score = b[k].score + ScoreOf(c[p].id)
               /\ c[p].score > b[p].score /\ c[p].score > NEG
               /\ Longest * c[p].score >= p * NEG
               /\ \A id \in Pieces(s, k, p) : c[p].score >= b[k].score + ScoreOf(id)
  <1>2. \A p \in 0 .. Len(s) : Kept_(p) \/ New_(p)
    BY Relaxed
  <1>3. \A p \in 0 .. k : p \in 0 .. Len(s) /\ c[p] = b[p]
    <2>1. \A p \in 0 .. k : p \in 0 .. Len(s) /\ ~ (k < p)
      BY <1>0
    <2> QED BY <1>2, <2>1
  <1>4. /\ b[0].score = 0
        /\ \A p \in 1 .. Len(s) : Reached(b, p) => Comes(s, b, p, k)
        /\ \A i \in 0 .. k - 1 : Leaves(s, b, i)
        /\ \A p \in 0 .. Len(s) : Reached(b, p) => Longest * b[p].score >= p * NEG
    BY DEF Best
  <1>5. \A p \in 0 .. Len(s) : c[p].score \in Int /\ b[p].score \in Int
    BY <1>1 DEF Best, Tables, Entries
  <1>6. c[0].score = 0
    BY <1>0, <1>3, <1>4
  <1>7. ASSUME NEW p \in 1 .. Len(s), Reached(c, p)
        PROVE  Comes(s, c, p, k + 1)
    <2>0. p \in 0 .. Len(s)
      BY <1>0
    <2>1. CASE Kept_(p)
      <3>1. Comes(s, b, p, k) /\ c[p] = b[p]
        BY <1>4, <1>7, <2>1 DEF Reached
      <3>2. b[p].from \in 0 .. k /\ b[p].from < k + 1
        <4>1. b[p].from \in Nat /\ b[p].from < k
          BY <3>1 DEF Comes
        <4> QED BY <1>0, <4>1
      <3>3. c[b[p].from] = b[b[p].from]
        BY <1>3, <3>2
      <3> QED BY <3>1, <3>2, <3>3 DEF Comes, Reached
    <2>2. CASE New_(p)
      <3>1. c[k] = b[k] /\ k \in 0 .. p - 1 /\ k < k + 1
        BY <1>0, <1>3, <2>2
      <3> QED BY <2>2, <3>1 DEF Comes, Reached
    <2> QED BY <1>2, <2>0, <2>1, <2>2
  <1>8. ASSUME NEW i \in 0 .. k, Reached(c, i), NEW p \in i + 1 .. Len(s),
               NEW id \in Pieces(s, i, p)
        PROVE  Reached(c, p) /\ c[p].score >= c[i].score + ScoreOf(id)
    <2>1. i \in 0 .. Len(s) /\ p \in 0 .. Len(s) /\ c[i] = b[i] /\ Reached(b, i)
      BY <1>0, <1>3, <1>8 DEF Reached
    <2>2. ScoreOf(id) \in Int
      BY <2>1, PieceFits DEF Fits
    <2>3. NEG \in Int
      BY DEF NEG
    <2>4. CASE i = k
      <3>1. k < p
        BY <1>0, <2>4
      <3>2. CASE Kept_(p)
        BY <2>1, <2>4, <3>1, <3>2 DEF Reached
      <3>3. CASE New_(p)
        BY <1>5, <2>1, <2>3, <2>4, <3>3 DEF Reached
      <3> QED BY <1>2, <2>1, <3>2, <3>3
    <2>5. CASE i # k
      <3>1. i \in 0 .. k - 1
        BY <1>0, <2>5
      <3>2. Reached(b, p) /\ b[p].score >= b[i].score + ScoreOf(id)
        BY <1>4, <2>1, <3>1 DEF Leaves
      <3>3. CASE Kept_(p)
        BY <2>1, <3>2, <3>3 DEF Reached
      <3>4. CASE New_(p)
        <4>1. /\ c[p].score \in Int /\ b[p].score \in Int /\ b[i].score + ScoreOf(id) \in Int
              /\ c[p].score > b[p].score /\ c[p].score > NEG
          BY <1>5, <2>1, <2>2, <3>4
        <4>2. c[p].score >= b[i].score + ScoreOf(id)
          BY <3>2, <4>1
        <4>3. c[p].score # NEG
          BY <2>3, <4>1
        <4> QED BY <2>1, <4>2, <4>3 DEF Reached
      <3> QED BY <1>2, <2>1, <3>3, <3>4
    <2> QED BY <2>4, <2>5
  <1>9. \A i \in 0 .. (k + 1) - 1 : Leaves(s, c, i)
    <2>1. (k + 1) - 1 = k
      BY <1>0
    <2>2. \A i \in 0 .. k : Leaves(s, c, i)
      BY <1>8 DEF Leaves
    <2> QED BY <2>1, <2>2
  <1>10. ASSUME NEW p \in 0 .. Len(s), Reached(c, p)
         PROVE  Longest * c[p].score >= p * NEG
    BY <1>2, <1>4, <1>10 DEF Reached
  <1> HIDE DEF Kept_, New_
  <1> QED BY <1>1, <1>6, <1>7, <1>9, <1>10 DEF Best

LEMMA ViterbiBest ==
  ASSUME FileOk, Longest \in Nat, NEW s \in Texts, Len(s) <= Longest
  PROVE  Best(s, Viterbi(t, s), Len(s))
  <1>1. PICK n \in Nat : n = Len(s)
    BY LenProperties DEF Texts
  <1>2. PICK r : /\ r[0] = Start(s)
                 /\ \A i \in 1 .. n : r[i] = Relax(s, r[i - 1], i - 1)
                 /\ Viterbi(t, s) = r[n]
    BY <1>1, ViterbiRuns
  <1> DEFINE odd == {k \in 0 .. n : ~ Best(s, r[k], k)}
  <1>3. SUFFICES ASSUME odd # {} PROVE FALSE
    BY <1>1, <1>2
  <1>4. PICK k \in odd : \A j \in odd : k <= j
    <2>1. odd \in SUBSET Nat
      OBVIOUS
    <2> HIDE DEF odd
    <2> QED BY <1>3, <2>1, LeastExists
  <1>5. k # 0
    BY <1>2, <1>4, BestStart
  <1>6. PICK j \in Nat : j = k - 1 /\ k = j + 1 /\ j \in 0 .. n /\ k \in 1 .. n /\ j < k
    BY <1>4, <1>5
  <1>7. Best(s, r[j], j)
    BY <1>4, <1>6
  <1>8. r[k] = Relax(s, r[j], j)
    BY <1>2, <1>6
  <1>9. Best(s, r[k], j + 1)
    BY <1>1, <1>6, <1>7, <1>8, BestNext
  <1> QED BY <1>4, <1>6, <1>9
-----------------------------------------------------------------------------
(***************************************************************************)
(* The way back from the end: g holds the tokens up to each position.      *)
(***************************************************************************)
Paths(g, b, n) ==
  g = [p \in 0 .. n |->
         IF p = 0 THEN <<>>
         ELSE IF b[p].score = NEG THEN g[p - 1]
         ELSE Append(g[b[p].from], b[p].id)]

LEMMA PathsNext ==
  ASSUME NEW b, NEW k \in Nat, NEW g, Paths(g, b, k),
         \A p \in 1 .. k + 1 : Reached(b, p) => b[p].from \in 0 .. p - 1
  PROVE  \E h : Paths(h, b, k + 1)
  <1> DEFINE h == [p \in 0 .. k + 1 |->
                     IF p = k + 1 THEN (IF b[p].score = NEG THEN g[k]
                                        ELSE Append(g[b[p].from], b[p].id))
                     ELSE g[p]]
  <1>1. \A p \in 0 .. k : h[p] = g[p]
    OBVIOUS
  <1>2. ASSUME NEW p \in 0 .. k + 1
        PROVE  h[p] = IF p = 0 THEN <<>>
                      ELSE IF b[p].score = NEG THEN h[p - 1]
                      ELSE Append(h[b[p].from], b[p].id)
    <2>1. CASE p = k + 1
      <3>1. p # 0 /\ p - 1 \in 0 .. k /\ p - 1 = k
        BY <2>1
      <3>2. h[p] = IF b[p].score = NEG THEN g[k] ELSE Append(g[b[p].from], b[p].id)
        BY <2>1
      <3>3. h[p - 1] = g[k]
        BY <1>1, <3>1
      <3>4. b[p].score # NEG => h[b[p].from] = g[b[p].from]
        <4>1. p \in 1 .. k + 1 /\ 0 .. p - 1 = 0 .. k
          BY <2>1
        <4> HIDE DEF h
        <4> QED BY <1>1, <4>1 DEF Reached
      <3> HIDE DEF h
      <3> QED BY <3>1, <3>2, <3>3, <3>4
    <2>2. CASE p # k + 1
      <3>1. p \in 0 .. k /\ h[p] = g[p]
        BY <2>2
      <3>2. g[p] = IF p = 0 THEN <<>>
                   ELSE IF b[p].score = NEG THEN g[p - 1]
                   ELSE Append(g[b[p].from], b[p].id)
        BY <3>1 DEF Paths
      <3>3. p # 0 => p - 1 \in 0 .. k /\ h[p - 1] = g[p - 1]
        BY <1>1, <3>1
      <3>4. p # 0 /\ b[p].score # NEG => h[b[p].from] = g[b[p].from]
        <4>1. p # 0 => p \in 1 .. k + 1 /\ \A j \in 0 .. p - 1 : j \in 0 .. k
          BY <3>1
        <4> HIDE DEF h
        <4> QED BY <1>1, <4>1 DEF Reached
      <3> HIDE DEF h
      <3> QED BY <3>1, <3>2, <3>3, <3>4
    <2> QED BY <2>1, <2>2
  <1>3. h = [p \in 0 .. k + 1 |->
               IF p = 0 THEN <<>>
               ELSE IF b[p].score = NEG THEN h[p - 1]
               ELSE Append(h[b[p].from], b[p].id)]
    BY <1>2
  <1> QED BY <1>3 DEF Paths

LEMMA PathsExists ==
  ASSUME NEW b, NEW n \in Nat,
         \A p \in 1 .. n : Reached(b, p) => b[p].from \in 0 .. p - 1
  PROVE  \E g : Paths(g, b, n)
  <1> DEFINE Has(k) == \E g : Paths(g, b, k)
             missing == {k \in 0 .. n : ~ Has(k)}
  <1>1. SUFFICES ASSUME missing # {} PROVE FALSE
    OBVIOUS
  <1>2. PICK k \in missing : \A j \in missing : k <= j
    <2>1. missing \in SUBSET Nat
      OBVIOUS
    <2> HIDE DEF missing
    <2> QED BY <1>1, <2>1, LeastExists
  <1>3. Has(0)
    <2> DEFINE g == [p \in 0 .. 0 |-> <<>>]
    <2>1. \A p \in 0 .. 0 : p = 0
      OBVIOUS
    <2>2. g = [p \in 0 .. 0 |->
                 IF p = 0 THEN <<>>
                 ELSE IF b[p].score = NEG THEN g[p - 1]
                 ELSE Append(g[b[p].from], b[p].id)]
      BY <2>1
    <2> HIDE DEF g
    <2> QED BY <2>2 DEF Paths
  <1>4. PICK j \in Nat : k = j + 1 /\ j \in 0 .. n /\ j < k /\ j + 1 <= n
    <2>1. k \in 0 .. n /\ k # 0
      BY <1>2, <1>3
    <2>2. k - 1 \in Nat /\ k = (k - 1) + 1 /\ k - 1 \in 0 .. n /\ k - 1 < k /\ (k - 1) + 1 <= n
      BY <2>1
    <2> QED BY <2>2
  <1>5. Has(j)
    <2> HIDE DEF Has
    <2> QED BY <1>2, <1>4
  <1>6. PICK g : Paths(g, b, j)
    BY <1>5
  <1>7. \A p \in 1 .. j + 1 : Reached(b, p) => b[p].from \in 0 .. p - 1
    <2>1. \A p \in 1 .. j + 1 : p \in 1 .. n
      BY <1>4
    <2> QED BY <2>1
  <1>8. Has(j + 1)
    BY <1>6, <1>7, PathsNext
  <1> HIDE DEF Has
  <1> QED BY <1>2, <1>4, <1>8

Tokens == t.usable \cup {BytePiece(b) : b \in t.fallback}

LEMMA TokenScores ==
  ASSUME FileOk
  PROVE  \A id \in Tokens : ScoreOf(id) \in Int
  <1>1. \A id \in t.usable : ScoreOf(id) \in Int
    BY DEF FileOk, ScoreOf, Fits
  <1>2. \A b : ScoreOf(BytePiece(b)) \in Int
    BY BytePieceScore DEF BYTE_SCORE
  <1> QED BY <1>1, <1>2 DEF Tokens

\* Backtrack finds tokens that score what the end of the text does.
LEMMA BacktrackScore ==
  ASSUME FileOk, NEW s \in Texts, NEW b, Best(s, b, Len(s)), Reached(b, Len(s))
  PROVE  Sum(Backtrack(b, Len(s))) = b[Len(s)].score
  <1>1. PICK n \in Nat : n = Len(s)
    BY LenProperties DEF Texts
  <1>2. \A p \in 1 .. n : Reached(b, p) => Comes(s, b, p, n)
    BY <1>1 DEF Best
  <1>3. \A p \in 1 .. n : Reached(b, p) => b[p].from \in 0 .. p - 1
    BY <1>2 DEF Comes
  <1>4. PICK g : Paths(g, b, n) /\ Backtrack(b, n) = g[n]
    <2>1. Backtrack(b, n) = (CHOOSE g : Paths(g, b, n))[n]
      BY DEF Backtrack, Paths
    <2> QED BY <1>3, <2>1, PathsExists
  <1>5. \A p \in 0 .. n : g[p] = IF p = 0 THEN <<>>
                                ELSE IF b[p].score = NEG THEN g[p - 1]
                                ELSE Append(g[b[p].from], b[p].id)
    BY <1>4 DEF Paths
  <1> DEFINE Right(p) == Reached(b, p) => g[p] \in Seq(Tokens) /\ Sum(g[p]) = b[p].score
             odd == {p \in 0 .. n : ~ Right(p)}
  <1>6. SUFFICES ASSUME odd # {} PROVE FALSE
    BY <1>1, <1>4
  <1>7. PICK p \in odd : \A j \in odd : p <= j
    <2>1. odd \in SUBSET Nat
      OBVIOUS
    <2> HIDE DEF odd
    <2> QED BY <1>6, <2>1, LeastExists
  <1>8. Reached(b, p) /\ ~ Right(p)
    BY <1>7
  <1>9. CASE p = 0
    <2>1. g[0] = <<>> /\ b[0].score = 0
      BY <1>5 DEF Best
    <2>2. <<>> \in Seq(Tokens)
      OBVIOUS
    <2> QED BY <1>8, <1>9, <2>1, <2>2, SumEmpty
  <1>10. CASE p # 0
    <2>1. p \in 1 .. n
      BY <1>7, <1>10
    <2> DEFINE i == b[p].from
    <2>2. /\ i \in 0 .. p - 1 /\ Reached(b, i) /\ b[p].id \in Pieces(s, i, p)
          /\ b[p].score = b[i].score + ScoreOf(b[p].id)
      BY <1>2, <1>8, <2>1 DEF Comes
    <2>3. g[p] = Append(g[i], b[p].id)
      BY <1>5, <1>7, <1>8, <1>10 DEF Reached
    <2> HIDE DEF i
    <2>4. i \in 0 .. n /\ i < p
      BY <2>1, <2>2
    <2>5. Right(i)
      <3> HIDE DEF Right
      <3>1. i \notin odd
        BY <1>7, <2>1, <2>4
      <3> QED BY <2>4, <3>1
    <2>6. g[i] \in Seq(Tokens) /\ Sum(g[i]) = b[i].score
      BY <2>2, <2>5
    <2>7. b[p].id \in Tokens
      BY <2>2 DEF Pieces, Tokens
    <2>8. g[p] \in Seq(Tokens)
      BY <2>3, <2>6, <2>7, AppendProperties
    <2>9. Sum(g[p]) = Sum(g[i]) + ScoreOf(b[p].id)
      BY <2>3, <2>6, <2>7, TokenScores, SumAppend
    <2> QED BY <1>8, <2>2, <2>6, <2>8, <2>9
  <1> QED BY <1>9, <1>10
-----------------------------------------------------------------------------
(***************************************************************************)
(* All cuts, from the end on: g holds the scores of the cuts of what is    *)
(* behind each position, from position lo on.                              *)
(***************************************************************************)
Behind(s, g, i) ==
  IF i = Len(s) THEN {0}
  ELSE UNION {UNION {{x + ScoreOf(id) : x \in g[p]} : id \in Pieces(s, i, p)} :
                p \in i + 1 .. Len(s)}
Cuts(g, s, lo) == g = [i \in lo .. Len(s) |-> Behind(s, g, i)]

\* Only what is behind the position counts.
LEMMA BehindAlike ==
  ASSUME NEW s, NEW g, NEW h, NEW i, \A p \in i + 1 .. Len(s) : h[p] = g[p]
  PROVE  Behind(s, h, i) = Behind(s, g, i)
  <1> DEFINE From(f, p) == UNION {{x + ScoreOf(id) : x \in f[p]} : id \in Pieces(s, i, p)}
  <1>1. \A p \in i + 1 .. Len(s) : From(h, p) = From(g, p)
    OBVIOUS
  <1>2. \A f : Behind(s, f, i) = IF i = Len(s) THEN {0}
                                ELSE UNION {From(f, p) : p \in i + 1 .. Len(s)}
    BY DEF Behind
  <1> HIDE DEF From
  <1>3. {From(h, p) : p \in i + 1 .. Len(s)} = {From(g, p) : p \in i + 1 .. Len(s)}
    BY <1>1
  <1> QED BY <1>2, <1>3

LEMMA CutsNext ==
  ASSUME NEW s \in Texts, NEW k \in 0 .. Len(s), NEW g, Cuts(g, s, k + 1)
  PROVE  \E h : Cuts(h, s, k)
  <1> DEFINE h == [i \in k .. Len(s) |-> IF i = k THEN Behind(s, g, k) ELSE g[i]]
  <1>0. Len(s) \in Nat
    BY LenProperties DEF Texts
  <1>1. \A i \in k + 1 .. Len(s) : i \in k .. Len(s) /\ i # k
    BY <1>0
  <1>2. \A i \in k + 1 .. Len(s) : h[i] = g[i]
    BY <1>1
  <1>3. h[k] = Behind(s, g, k)
    BY <1>0
  <1> HIDE DEF h
  <1>4. ASSUME NEW i \in k .. Len(s)
        PROVE  h[i] = Behind(s, h, i)
    <2>1. \A p \in i + 1 .. Len(s) : h[p] = g[p]
      <3>1. \A p \in i + 1 .. Len(s) : p \in k + 1 .. Len(s)
        BY <1>0
      <3> QED BY <1>2, <3>1
    <2>2. Behind(s, h, i) = Behind(s, g, i)
      BY <2>1, BehindAlike
    <2>3. CASE i = k
      BY <1>3, <2>2, <2>3
    <2>4. CASE i # k
      <3>1. i \in k + 1 .. Len(s)
        BY <1>0, <2>4
      <3>2. g[i] = Behind(s, g, i)
        BY <3>1 DEF Cuts
      <3> QED BY <1>2, <2>2, <3>1, <3>2
    <2> QED BY <2>3, <2>4
  <1>5. h = [i \in k .. Len(s) |-> h[i]]
    BY DEF h
  <1>6. h = [i \in k .. Len(s) |-> Behind(s, h, i)]
    BY <1>4, <1>5
  <1> QED BY <1>6 DEF Cuts

LEMMA CutsExists ==
  ASSUME NEW s \in Texts
  PROVE  \E g : Cuts(g, s, 0)
  <1>0. PICK n \in Nat : n = Len(s)
    BY LenProperties DEF Texts
  <1> DEFINE Has(k) == \E g : Cuts(g, s, k)
             missing == {d \in 0 .. n + 1 : ~ Has((n + 1) - d)}
  <1>1. SUFFICES ASSUME missing # {} PROVE FALSE
    <2>1. n + 1 \in 0 .. n + 1 /\ (n + 1) - (n + 1) = 0
      OBVIOUS
    <2>2. Has((n + 1) - (n + 1))
      <3> HIDE DEF Has
      <3> QED BY <1>1, <2>1
    <2> QED BY <2>1, <2>2
  <1>2. PICK d \in missing : \A e \in missing : d <= e
    <2>1. missing \in SUBSET Nat
      OBVIOUS
    <2> HIDE DEF missing
    <2> QED BY <1>1, <2>1, LeastExists
  <1>3. Has(n + 1)
    <2> DEFINE g == [i \in n + 1 .. n |-> {}]
    <2>1. n + 1 .. n = {}
      OBVIOUS
    <2>2. g = [i \in n + 1 .. Len(s) |-> Behind(s, g, i)]
      BY <1>0, <2>1
    <2> HIDE DEF g
    <2> QED BY <2>2 DEF Cuts
  <1>4. d # 0 /\ d \in 0 .. n + 1
    <2> HIDE DEF Has
    <2>1. (n + 1) - 0 = n + 1
      OBVIOUS
    <2> QED BY <1>2, <1>3, <2>1
  <1>5. PICK k \in 0 .. n : k = (n + 1) - d /\ k + 1 = (n + 1) - (d - 1)
    <2>1. (n + 1) - d \in 0 .. n /\ ((n + 1) - d) + 1 = (n + 1) - (d - 1)
      BY <1>4
    <2> QED BY <2>1
  <1>6. Has(k + 1)
    <2> HIDE DEF Has
    <2>1. d - 1 \in 0 .. n + 1 /\ d - 1 < d
      BY <1>4
    <2>2. d - 1 \notin missing
      BY <1>2, <2>1
    <2> QED BY <1>5, <2>1, <2>2
  <1>7. PICK g : Cuts(g, s, k + 1)
    BY <1>6
  <1>8. Has(k)
    BY <1>0, <1>7, CutsNext
  <1> HIDE DEF Has
  <1> QED BY <1>2, <1>5, <1>8

\* One more token in front of a cut.
LEMMA CutStep ==
  ASSUME NEW s \in Texts, NEW g, Cuts(g, s, 0), NEW i \in 0 .. Len(s), NEW x
  PROVE  x \in g[i] <=> IF i = Len(s) THEN x = 0
                        ELSE \E p \in i + 1 .. Len(s) : \E id \in Pieces(s, i, p) :
                               \E y \in g[p] : x = y + ScoreOf(id)
  <1>1. g[i] = Behind(s, g, i)
    BY DEF Cuts
  <1> QED BY <1>1 DEF Behind

\* The way to a position and a cut of what is behind it are a cut of the whole.
LEMMA WayIsCut ==
  ASSUME FileOk, NEW s \in Texts, NEW b, Best(s, b, Len(s)), NEW g, Cuts(g, s, 0)
  PROVE  \A p \in 0 .. Len(s) : \A x \in g[p] :
           Reached(b, p) /\ x \in Int => b[p].score + x \in g[0]
  <1>0. PICK n \in Nat : n = Len(s)
    BY LenProperties DEF Texts
  <1> DEFINE Right(p) == \A x \in g[p] : Reached(b, p) /\ x \in Int => b[p].score + x \in g[0]
             odd == {p \in 0 .. n : ~ Right(p)}
  <1>1. SUFFICES ASSUME odd # {} PROVE FALSE
    BY <1>0
  <1>2. PICK p \in odd : \A j \in odd : p <= j
    <2>1. odd \in SUBSET Nat
      OBVIOUS
    <2> HIDE DEF odd
    <2> QED BY <1>1, <2>1, LeastExists
  <1>3. p \in 0 .. n /\ ~ Right(p)
    BY <1>2
  <1>4. PICK x \in g[p] : Reached(b, p) /\ x \in Int /\ ~ (b[p].score + x \in g[0])
    BY <1>3
  <1>5. CASE p = 0
    <2>1. b[0].score = 0 /\ 0 + x = x
      BY <1>4 DEF Best
    <2> QED BY <1>4, <1>5, <2>1
  <1>6. CASE p # 0
    <2>1. p \in 1 .. n
      BY <1>3, <1>6
    <2> DEFINE i == b[p].from
               id == b[p].id
    <2>2. /\ i \in 0 .. p - 1 /\ Reached(b, i) /\ id \in Pieces(s, i, p)
          /\ b[p].score = b[i].score + ScoreOf(id)
      BY <1>0, <1>4, <2>1 DEF Best, Comes
    <2> HIDE DEF i, id
    <2>3. i \in 0 .. n /\ i < p /\ i # n /\ p \in i + 1 .. n
      BY <2>1, <2>2
    <2>4. ScoreOf(id) \in Int /\ b[i].score \in Int
      <3>1. Fits(ScoreOf(id))
        BY <1>0, <2>2, <2>3, PieceFits
      <3>2. b[i] \in Entries
        BY <1>0, <2>3 DEF Best, Tables
      <3> QED BY <3>1, <3>2 DEF Fits, Entries
    <2>5. x + ScoreOf(id) \in g[i] /\ x + ScoreOf(id) \in Int
      <3>1. x + ScoreOf(id) \in g[i]
        BY <1>0, <1>4, <2>2, <2>3, CutStep
      <3> QED BY <1>4, <2>4, <3>1
    <2>6. Right(i)
      <3> HIDE DEF Right
      <3>1. i \notin odd
        BY <1>2, <2>1, <2>3
      <3> QED BY <2>3, <3>1
    <2>7. b[i].score + (x + ScoreOf(id)) \in g[0]
      BY <2>2, <2>5, <2>6
    <2>8. b[i].score + (x + ScoreOf(id)) = b[p].score + x
      BY <1>4, <2>2, <2>4
    <2> QED BY <1>4, <2>7, <2>8
  <1> QED BY <1>5, <1>6

\* No cut of the whole through a position that is reached scores more than the end.
LEMMA NoBetterCut ==
  ASSUME FileOk, NEW s \in Texts, NEW b, Best(s, b, Len(s)), NEW g, Cuts(g, s, 0)
  PROVE  \A i \in 0 .. Len(s) : \A x \in g[i] :
           /\ x \in Int
           /\ Reached(b, i) => Reached(b, Len(s)) /\ b[i].score + x <= b[Len(s)].score
  <1>0. PICK n \in Nat : n = Len(s)
    BY LenProperties DEF Texts
  <1> DEFINE Right(i) == \A x \in g[i] :
                           /\ x \in Int
                           /\ Reached(b, i) => Reached(b, n) /\ b[i].score + x <= b[n].score
             odd == {d \in 0 .. n : ~ Right(n - d)}
  <1>a. \A p \in 0 .. n : b[p].score \in Int
    BY <1>0 DEF Best, Tables, Entries
  <1>1. SUFFICES ASSUME odd # {} PROVE FALSE
    <2> HIDE DEF Right
    <2>1. \A i \in 0 .. n : n - i \in 0 .. n /\ n - (n - i) = i
      OBVIOUS
    <2>2. \A i \in 0 .. n : Right(i)
      <3>1. \A d \in 0 .. n : Right(n - d)
        BY <1>1
      <3>2. \A i \in 0 .. n : Right(n - (n - i))
        BY <2>1, <3>1
      <3> QED BY <2>1, <3>2
    <2> QED BY <1>0, <2>2 DEF Right
  <1>2. PICK d \in odd : \A e \in odd : d <= e
    <2>1. odd \in SUBSET Nat
      OBVIOUS
    <2> HIDE DEF odd
    <2> QED BY <1>1, <2>1, LeastExists
  <1>3. PICK i \in 0 .. n : i = n - d /\ d = n - i /\ ~ Right(i)
    <2> HIDE DEF Right
    <2>1. d \in 0 .. n /\ ~ Right(n - d)
      BY <1>2
    <2>2. n - d \in 0 .. n /\ d = n - (n - d)
      BY <2>1
    <2> QED BY <2>1, <2>2
  <1>4. PICK x \in g[i] :
          ~ (/\ x \in Int
             /\ Reached(b, i) => Reached(b, n) /\ b[i].score + x <= b[n].score)
    BY <1>3
  <1>5. CASE i = n
    <2>1. x = 0
      BY <1>0, <1>5, CutStep
    <2>2. b[n].score \in Int
      BY <1>a
    <2>3. b[n].score + 0 <= b[n].score
      BY <2>2
    <2> QED BY <1>4, <1>5, <2>1, <2>3
  <1>6. CASE i # n
    <2>1. PICK p \in i + 1 .. n : \E id \in Pieces(s, i, p) : \E y \in g[p] : x = y + ScoreOf(id)
      BY <1>0, <1>6, CutStep
    <2>2. PICK id \in Pieces(s, i, p), y \in g[p] : x = y + ScoreOf(id)
      BY <2>1
    <2>3. p \in 0 .. n
      BY <1>3
    <2>4. Right(p)
      <3> HIDE DEF Right
      <3>1. d \in 0 .. n
        BY <1>2
      <3>2. PICK e \in 0 .. n : n - e = p /\ e < d
        <4>1. n - p \in 0 .. n /\ n - p < d /\ n - (n - p) = p
          BY <1>3
        <4> QED BY <4>1
      <3>3. e \notin odd
        BY <1>2, <3>1, <3>2
      <3> QED BY <3>2, <3>3
    <2>5. y \in Int /\ (Reached(b, p) => Reached(b, n) /\ b[p].score + y <= b[n].score)
      BY <2>2, <2>4
    <2>6. ScoreOf(id) \in Int
      BY <1>0, PieceFits DEF Fits
    <2>7. x \in Int
      BY <2>2, <2>5, <2>6
    <2>8. Reached(b, i)
      BY <1>4, <2>7
    <2>9. Leaves(s, b, i)
      <3>1. i \in 0 .. Len(s) - 1
        BY <1>0, <1>6
      <3> QED BY <3>1 DEF Best
    <2>10. Reached(b, p) /\ b[p].score >= b[i].score + ScoreOf(id)
      BY <1>0, <2>8, <2>9 DEF Leaves
    <2>11. Reached(b, n) /\ b[p].score + y <= b[n].score
      BY <2>5, <2>10
    <2>12. b[p].score \in Int /\ b[i].score \in Int /\ b[n].score \in Int
      BY <1>a, <2>3
    <2>13. b[i].score + x <= b[n].score
      <3>1. \A u, v, w, k, l \in Int : u >= v + k /\ u + l <= w => v + (l + k) <= w
        OBVIOUS
      <3> DEFINE u == b[p].score
                 v == b[i].score
                 w == b[n].score
                 k == ScoreOf(id)
      <3>2. u \in Int /\ v \in Int /\ w \in Int /\ k \in Int /\ y \in Int
        BY <2>5, <2>6, <2>12
      <3>3. u >= v + k /\ u + y <= w /\ x = y + k
        BY <2>2, <2>10, <2>11
      <3> HIDE DEF u, v, w, k, odd, Right
      <3>4. v + x <= w
        BY <3>1, <3>2, <3>3
      <3> QED BY <3>4 DEF v, w
    <2> QED BY <1>4, <2>7, <2>11, <2>13
  <1> QED BY <1>5, <1>6

\* The tokens that encode_unigram finds score as much as the best of all cuts.
LEMMA BestOfAll ==
  ASSUME FileOk, Longest \in Nat, NEW s \in Texts, Len(s) <= Longest, CutScores(s) # {}
  PROVE  Sum(Backtrack(Viterbi(t, s), Len(s))) = Max(CutScores(s))
  <1> DEFINE b == Viterbi(t, s)
  <1>0. Len(s) \in Nat /\ 0 \in 0 .. Len(s) /\ Len(s) \in 0 .. Len(s)
    BY LenProperties DEF Texts
  <1>1. Best(s, b, Len(s))
    BY ViterbiBest
  <1>2. PICK g : Cuts(g, s, 0) /\ CutScores(s) = g[0]
    <2>1. CutScores(s) = (CHOOSE g : Cuts(g, s, 0))[0]
      BY DEF CutScores, Cuts, Behind
    <2> QED BY <2>1, CutsExists
  <1> HIDE DEF b
  <1>3. b[0].score = 0 /\ Reached(b, 0)
    BY <1>1 DEF Best, Reached, NEG
  <1>4. \A x \in g[0] : x \in Int /\ Reached(b, Len(s)) /\ x <= b[Len(s)].score
    <2>1. \A x \in g[0] : /\ x \in Int
                         /\ Reached(b, Len(s)) /\ b[0].score + x <= b[Len(s)].score
      BY <1>0, <1>1, <1>2, <1>3, NoBetterCut
    <2> QED BY <1>3, <2>1
  <1>5. Reached(b, Len(s))
    BY <1>2, <1>4
  <1>6. b[Len(s)].score \in g[0]
    <2>1. 0 \in g[Len(s)]
      BY <1>0, <1>2, CutStep
    <2>2. b[Len(s)].score + 0 \in g[0]
      BY <1>0, <1>1, <1>2, <1>5, <2>1, WayIsCut
    <2>3. b[Len(s)].score \in Int
      BY <1>0, <1>1 DEF Best, Tables, Entries
    <2> QED BY <2>2, <2>3
  <1>7. Max(g[0]) = b[Len(s)].score
    <2> DEFINE best == b[Len(s)].score
    <2>1. best \in g[0] /\ \A x \in g[0] : x \in Int /\ x <= best
      BY <1>4, <1>6
    <2> HIDE DEF best
    <2>2. \A x \in g[0] : best >= x
      BY <2>1
    <2>3. \A m \in g[0] : (\A x \in g[0] : m >= x) => m = best
      BY <2>1
    <2>4. Max(g[0]) = best
      BY <2>1, <2>2, <2>3 DEF Max
    <2> QED BY <2>4 DEF best
  <1>8. Sum(Backtrack(b, Len(s))) = b[Len(s)].score
    BY <1>1, <1>5, BacktrackScore
  <1> QED BY <1>2, <1>7, <1>8 DEF b
-----------------------------------------------------------------------------
(***************************************************************************)
(* The texts that are cut: three bytes for a space.                        *)
(***************************************************************************)
LEMMA FlattenLength ==
  ASSUME NEW S, NEW q \in Seq(Seq(S)), \A i \in 1 .. Len(q) : Len(q[i]) <= 3
  PROVE  Len(FlattenSeq(q)) <= 3 * Len(q)
  <1>0. PICK n \in Nat : n = Len(q)
    BY LenProperties
  <1>1. CASE q = <<>>
    <2>1. Len(q) = 0 /\ FlattenSeq(q) = <<>>
      BY <1>1, EmptySeq DEF FlattenSeq
    <2> QED BY <1>1, <2>1
  <1>2. CASE q # <<>>
    <2>1. n # 0
      BY <1>0, <1>2, EmptySeq
    <2>2. PICK g : Flattens(g, q, n) /\ FlattenSeq(q) = g[n]
      BY <1>0, <1>2, FlattenUnfolds
    <2>3. \A i \in 1 .. n : g[i] = IF i = 1 THEN q[i] ELSE g[i - 1] \o q[i]
      BY <2>2 DEF Flattens
    <2>4. \A i \in 1 .. n : q[i] \in Seq(S) /\ Len(q[i]) <= 3 /\ Len(q[i]) \in Nat
      <3>1. \A i \in 1 .. n : q[i] \in Seq(S)
        BY <1>0, ElementOfSeq
      <3> QED BY <1>0, <3>1, LenProperties
    <2> DEFINE Right(i) == g[i] \in Seq(S) /\ Len(g[i]) \in Nat /\ Len(g[i]) <= 3 * i
               odd == {i \in 1 .. n : ~ Right(i)}
    <2>5. SUFFICES ASSUME odd # {} PROVE FALSE
      <3>1. n \in 1 .. n
        BY <2>1
      <3> QED BY <1>0, <2>2, <2>5, <3>1
    <2>6. PICK i \in odd : \A j \in odd : i <= j
      <3>1. odd \in SUBSET Nat
        OBVIOUS
      <3> HIDE DEF odd
      <3> QED BY <2>5, <3>1, LeastExists
    <2>7. i \in 1 .. n /\ ~ Right(i)
      BY <2>6
    <2>8. CASE i = 1
      BY <2>3, <2>4, <2>7, <2>8
    <2>9. CASE i # 1
      <3>1. PICK j \in 1 .. n : j = i - 1 /\ i = j + 1 /\ j < i
        <4>1. i - 1 \in 1 .. n /\ i = (i - 1) + 1 /\ i - 1 < i
          BY <2>7, <2>9
        <4> QED BY <4>1
      <3>2. Right(j)
        <4> HIDE DEF Right
        <4> QED BY <2>6, <3>1
      <3>3. g[i] = g[j] \o q[i]
        BY <2>3, <2>7, <2>9, <3>1
      <3>4. g[i] \in Seq(S) /\ Len(g[i]) = Len(g[j]) + Len(q[i])
        BY <2>4, <2>7, <3>2, <3>3, ConcatProperties
      <3>5. Len(g[i]) \in Nat /\ Len(g[i]) <= 3 * i
        <4>1. /\ Len(q[i]) \in Nat /\ Len(q[i]) <= 3 /\ Len(g[j]) \in Nat /\ Len(g[j]) <= 3 * j
              /\ j \in Nat /\ i = j + 1
          BY <2>4, <2>7, <3>1, <3>2
        <4>2. \A a, b, m \in Nat : a <= 3 * m /\ b <= 3 => a + b \in Nat /\ a + b <= 3 * (m + 1)
          OBVIOUS
        <4>3. /\ Len(g[j]) + Len(q[i]) \in Nat
              /\ Len(g[j]) + Len(q[i]) <= 3 * (j + 1)
          <5> HIDE DEF Right, odd
          <5> QED BY <4>1, <4>2
        <4>4. Len(g[i]) = Len(g[j]) + Len(q[i]) /\ i = j + 1
          BY <3>4, <4>1
        <4> HIDE DEF Right, odd
        <4> QED BY <4>3, <4>4, Zenon
      <3> QED BY <2>7, <3>4, <3>5
    <2> QED BY <2>8, <2>9
  <1> QED BY <1>1, <1>2

LEMMA SpacedText ==
  ASSUME NEW s \in Texts
  PROVE  Spaced(s) \in Texts /\ Len(Spaced(s)) <= 3 * Len(s)
  <1> DEFINE q == [i \in DOMAIN s |-> IF s[i] = Sp THEN Meta ELSE <<s[i]>>]
  <1>1. Len(s) \in Nat /\ DOMAIN s = 1 .. Len(s) /\ \A i \in 1 .. Len(s) : s[i] \in 0 .. 255
    BY LenProperties, ElementOfSeq DEF Texts
  <1>2. Meta \in Seq(0 .. 255) /\ Len(Meta) = 3
    BY DEF Meta
  <1>3. \A x \in 0 .. 255 : <<x>> \in Seq(0 .. 255) /\ Len(<<x>>) = 1
    OBVIOUS
  <1>4. \A i \in 1 .. Len(s) : q[i] \in Seq(0 .. 255) /\ Len(q[i]) <= 3
    <2>1. SUFFICES ASSUME NEW i \in 1 .. Len(s)
                   PROVE  q[i] \in Seq(0 .. 255) /\ Len(q[i]) <= 3
      OBVIOUS
    <2>2. q[i] = IF s[i] = Sp THEN Meta ELSE <<s[i]>>
      BY <1>1
    <2>3. s[i] \in 0 .. 255
      BY <1>1
    <2>4. <<s[i]>> \in Seq(0 .. 255) /\ Len(<<s[i]>>) = 1
      BY <1>3, <2>3
    <2> HIDE DEF q
    <2>5. CASE s[i] = Sp
      <3>1. q[i] = Meta
        BY <2>2, <2>5
      <3>2. Len(Meta) <= 3
        BY <1>2
      <3>3. q[i] \in Seq(0 .. 255)
        BY <1>2, <3>1, Zenon
      <3>4. Len(q[i]) <= 3
        BY <3>2, <3>1, Zenon
      <3> QED BY <3>3, <3>4
    <2>6. CASE s[i] # Sp
      <3>1. q[i] = <<s[i]>>
        BY <2>2, <2>6
      <3>2. Len(q[i]) = 1
        BY <2>4, <3>1
      <3> QED BY <2>4, <3>1, <3>2
    <2> QED BY <2>5, <2>6
  <1>5. q \in Seq(Seq(0 .. 255)) /\ Len(q) = Len(s)
    <2>1. q = [i \in 1 .. Len(s) |-> q[i]]
      BY <1>1
    <2> HIDE DEF q
    <2>2. q \in [1 .. Len(s) -> Seq(0 .. 255)]
      BY <1>4, <2>1
    <2>3. \A n \in Nat : \A S : \A f \in [1 .. n -> S] : f \in Seq(S) /\ Len(f) = n
      OBVIOUS
    <2> QED BY <1>1, <2>2, <2>3
  <1>6. Spaced(s) = FlattenSeq(q)
    BY DEF Spaced
  <1> HIDE DEF q
  <1>7. FlattenSeq(q) \in Seq(0 .. 255)
    BY <1>5, FlattenType
  <1>8. Len(FlattenSeq(q)) <= 3 * Len(q)
    BY <1>4, <1>5, FlattenLength
  <1> QED BY <1>5, <1>6, <1>7, <1>8 DEF Texts

-----------------------------------------------------------------------------
(***************************************************************************)
(* The invariant: the file fits, and the text is no longer than what has   *)
(* been typed.                                                             *)
(***************************************************************************)
TextInv ==
  /\ FileOk
  /\ text \in Texts
  /\ typed \in 0 .. MaxChars
  /\ Len(text) <= 4 * typed

LEMMA LoadFits ==
  ASSUME ScoresFit, NEW f \in Files, f.from = "json", t = load(f.of)
  PROVE  FileOk
  <1>1. /\ t.usable = {p \in DOMAIN f.of.vocab \cup f.of.added :
                         ~ parse_byte_piece(p) /\ p \notin f.of.added
                         /\ (FALSE => p \in {})}
        /\ t.score = [p \in DOMAIN f.of.vocab \cup f.of.added |->
                        IF p \in DOMAIN f.of.vocab THEN f.of.vocab[p] ELSE 0]
    BY DEF load, finalize_pieces
  <1>2. \A x \in Scores(f) \cup {BYTE_SCORE} : Fits(x)
    BY DEF ScoresFit, Fits, Longest
  <1>3. ASSUME NEW p \in t.usable
        PROVE  Fits(t.score[p]) /\ ~ parse_byte_piece(p)
    <2>1. p \in DOMAIN f.of.vocab /\ ~ parse_byte_piece(p) /\ t.score[p] = f.of.vocab[p]
      BY <1>1
    <2>2. f.of.vocab[p] \in Scores(f)
      BY <2>1 DEF Scores
    <2> QED BY <1>2, <2>1, <2>2
  <1> QED BY <1>2, <1>3 DEF FileOk

LEMMA GgufFits ==
  ASSUME ScoresFit, NEW f \in Files, f.from # "json", t = load_from_gguf(f.of)
  PROVE  FileOk
  <1>1. /\ \A p \in t.usable : p \in DOMAIN f.of.tokens /\ ~ parse_byte_piece(p)
        /\ t.score = [p \in DOMAIN f.of.tokens |-> f.of.tokens[p].score]
    BY DEF load_from_gguf, finalize_pieces
  <1>2. \A x \in Scores(f) \cup {BYTE_SCORE} : Fits(x)
    BY DEF ScoresFit, Fits, Longest
  <1>3. ASSUME NEW p \in t.usable
        PROVE  Fits(t.score[p]) /\ ~ parse_byte_piece(p)
    <2>1. p \in DOMAIN f.of.tokens /\ ~ parse_byte_piece(p) /\ t.score[p] = f.of.tokens[p].score
      BY <1>1
    <2>2. f.of.tokens[p].score \in Scores(f)
      BY <2>1 DEF Scores
    <2> QED BY <1>2, <2>1, <2>2
  <1> QED BY <1>2, <1>3 DEF FileOk

LEMMA TextInit ==
  ASSUME ScoresFit, Init
  PROVE  TextInv
  <1>1. PICK f \in Files : t = IF f.from = "json" THEN load(f.of) ELSE load_from_gguf(f.of)
    BY DEF Init
  <1>2. FileOk
    BY <1>1, LoadFits, GgufFits
  <1>3. text = <<>> /\ typed = 0 /\ MaxChars \in Nat
    BY DEF Init, ScoresFit
  <1>4. <<>> \in Texts /\ Len(<<>>) = 0
    BY DEF Texts
  <1> QED BY <1>2, <1>3, <1>4 DEF TextInv

LEMMA TextStep ==
  ASSUME ScoresFit, TextInv, [Next]_vars
  PROVE  TextInv'
  <1>1. CASE UNCHANGED vars
    BY <1>1 DEF TextInv, FileOk, vars
  <1>2. CASE Type
    <2>1. PICK c \in Characters : text' = text \o c
      BY <1>2 DEF Type
    <2>2. c \in Texts /\ Len(c) <= 4 /\ Len(c) \in Nat /\ text \in Texts /\ Len(text) \in Nat
      BY LenProperties DEF ScoresFit, Texts, TextInv
    <2>3. text' \in Texts /\ Len(text') = Len(text) + Len(c)
      BY <2>1, <2>2, ConcatProperties DEF Texts
    <2>4. typed' = typed + 1 /\ typed' \in 0 .. MaxChars /\ Len(text') <= 4 * typed'
      BY <1>2, <2>2, <2>3 DEF Type, TextInv, ScoresFit
    <2>5. FileOk'
      BY <1>2 DEF Type, TextInv, FileOk
    <2> QED BY <2>3, <2>4, <2>5 DEF TextInv
  <1> QED BY <1>1, <1>2 DEF Next

LEMMA BestCutInv ==
  ASSUME ScoresFit, TextInv
  PROVE  BestCut
  <1> DEFINE s == Spaced(text)
  <1>1. s \in Texts /\ Len(s) <= 3 * Len(text) /\ FileOk
    BY SpacedText DEF TextInv
  <1>2. Longest \in Nat /\ Len(s) <= Longest
    <2>1. Len(s) \in Nat /\ Len(text) \in Nat
      BY <1>1, LenProperties DEF Texts, TextInv
    <2>2. /\ MaxChars \in Nat /\ typed \in 0 .. MaxChars /\ Len(text) <= 4 * typed
          /\ Len(s) <= 3 * Len(text)
      BY <1>1 DEF ScoresFit, TextInv
    <2> HIDE DEF s
    <2> QED BY <2>1, <2>2 DEF Longest
  <1> HIDE DEF s
  <1>3. CutScores(s) # {} => Sum(Backtrack(Viterbi(t, s), Len(s))) = Max(CutScores(s))
    BY <1>1, <1>2, BestOfAll
  <1>4. encode_unigram(t, text) = Backtrack(Viterbi(t, s), Len(s))
    BY DEF encode_unigram, s
  <1>5. CutScores(s) # {} => Sum(encode_unigram(t, text)) = Max(CutScores(s))
    BY <1>3, <1>4
  <1> QED BY <1>5 DEF BestCut, Sum, s

(***************************************************************************)
(* encode_unigram finds the best of all cuts: Tokenizer::encode_unigram,   *)
(* for every tokenizer file with scores that fit and every text.           *)
(***************************************************************************)
THEOREM CutsBest ==
  ASSUME ScoresFit
  PROVE  Spec => []BestCut
  <1>1. Init => TextInv
    BY TextInit
  <1>2. TextInv /\ [Next]_vars => TextInv'
    BY TextStep
  <1>3. TextInv => BestCut
    BY BestCutInv
  <1> QED BY <1>1, <1>2, <1>3, PTL DEF Spec
=============================================================================

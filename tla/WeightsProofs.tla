---------------------------- MODULE WeightsProofs ----------------------------
(***************************************************************************)
(* Every product reads the rows of its own tensor: the place of a value is *)
(* followed from the file through tiles, conversion, fusing, slices and    *)
(* slots to the kernel, for matrices of any size.                          *)
(***************************************************************************)
EXTENDS Weights, QueueProofs, FiniteSetTheorems

(***************************************************************************)
(* Total adds up.                                                          *)
(***************************************************************************)
TotalFolds(g, f, n) ==
  g = [u \in SUBSET (1 .. n) |-> IF u = {} THEN 0 ELSE g[u \ {Max(u)}] + f[Max(u)]]

LEMMA TotalUnfolds ==
  ASSUME NEW f, NEW n \in Nat, DOMAIN f = 1 .. n
  PROVE  Total(f) = (CHOOSE g : TotalFolds(g, f, n))[1 .. n]
  BY DEF Total, FoldLeft, MapThenFoldSet, TotalFolds

LEMMA TotalFoldsExists ==
  ASSUME NEW n \in Nat, NEW f \in [1 .. n -> Int]
  PROVE  \E g : TotalFolds(g, f, n)
  <1> DEFINE F == [x \in (1 .. n) \X Int |-> x[2] + f[x[1]]]
  <1>1. F \in [(1 .. n) \X Int -> Int]
    OBVIOUS
  <1>2. \A i \in 1 .. n, y \in Int : F[<<i, y>>] = y + f[i]
    OBVIOUS
  <1> HIDE DEF F
  <1>3. Folds(Int, F, 0, n)
    <2>1. 0 \in Int
      OBVIOUS
    <2> QED BY <1>1, <2>1, FoldingExists
  <1>4. PICK h \in [SUBSET (1 .. n) -> Int] : Folding(h, F, 0, n)
    BY <1>3 DEF Folds
  <1>5. ASSUME NEW u \in SUBSET (1 .. n)
        PROVE  h[u] = IF u = {} THEN 0 ELSE h[u \ {Max(u)}] + f[Max(u)]
    <2>1. h[u] = IF u = {} THEN 0 ELSE F[<<Max(u), h[u \ {Max(u)}]>>]
      BY <1>4 DEF Folding
    <2>2. CASE u # {}
      <3>1. Max(u) \in 1 .. n
        BY <2>2, MaxInside
      <3>2. h[u \ {Max(u)}] \in Int
        OBVIOUS
      <3> QED BY <1>2, <2>1, <2>2, <3>1, <3>2
    <2> QED BY <2>1, <2>2
  <1>6. h = [u \in SUBSET (1 .. n) |-> IF u = {} THEN 0 ELSE h[u \ {Max(u)}] + f[Max(u)]]
    BY <1>5
  <1> QED BY <1>6 DEF TotalFolds

LEMMA TotalRuns ==
  ASSUME NEW n \in Nat, NEW f \in [1 .. n -> Int]
  PROVE  \E r : /\ r[0] = 0
                /\ \A i \in 1 .. n : r[i] = r[i - 1] + f[i]
                /\ Total(f) = r[n]
  <1>1. PICK g : TotalFolds(g, f, n) /\ Total(f) = g[1 .. n]
    BY TotalUnfolds, TotalFoldsExists
  <1>2. \A u \in SUBSET (1 .. n) : g[u] = IF u = {} THEN 0 ELSE g[u \ {Max(u)}] + f[Max(u)]
    BY <1>1 DEF TotalFolds
  <1> DEFINE r == [i \in 0 .. n |-> g[1 .. i]]
  <1>3. r[0] = 0
    <2>1. 1 .. 0 = {} /\ {} \in SUBSET (1 .. n) /\ 0 \in 0 .. n
      OBVIOUS
    <2> QED BY <1>2, <2>1
  <1>4. ASSUME NEW i \in 1 .. n
        PROVE  r[i] = r[i - 1] + f[i]
    <2>1. /\ 1 .. i \in SUBSET (1 .. n) /\ 1 .. i # {}
          /\ Max(1 .. i) = i
          /\ (1 .. i) \ {i} = 1 .. i - 1 /\ i \in 0 .. n /\ i - 1 \in 0 .. n
      BY FirstIndices
    <2>2. g[1 .. i] = g[1 .. i - 1] + f[i]
      BY <1>2, <2>1
    <2> QED BY <2>1, <2>2
  <1>5. r[n] = Total(f)
    BY <1>1
  <1> HIDE DEF r
  <1> QED BY <1>3, <1>4, <1>5

\* Two sequences with a common beginning have a common sum there.
LEMMA TotalMore ==
  ASSUME NEW n \in Nat, NEW f \in [1 .. n -> Int], NEW h \in [1 .. n + 1 -> Int],
         \A i \in 1 .. n : h[i] = f[i]
  PROVE  Total(f) \in Int /\ Total(h) = Total(f) + h[n + 1]
  <1>1. PICK r : /\ r[0] = 0
                 /\ \A i \in 1 .. n : r[i] = r[i - 1] + f[i]
                 /\ Total(f) = r[n]
    BY TotalRuns
  <1>2. PICK q : /\ q[0] = 0
                 /\ \A i \in 1 .. n + 1 : q[i] = q[i - 1] + h[i]
                 /\ Total(h) = q[n + 1]
    <2>1. n + 1 \in Nat
      OBVIOUS
    <2> QED BY <2>1, TotalRuns
  <1> DEFINE differ == {i \in 0 .. n : r[i] # q[i] \/ r[i] \notin Int}
  <1>4. differ = {}
    <2>1. SUFFICES ASSUME differ # {} PROVE FALSE
      OBVIOUS
    <2>2. PICK i \in differ : \A j \in differ : i <= j
      <3>1. differ \in SUBSET Nat
        OBVIOUS
      <3> HIDE DEF differ
      <3> QED BY <2>1, <3>1, LeastExists
    <2>3. i # 0
      BY <1>1, <1>2, <2>2
    <2>4. i \in 1 .. n /\ i \in 1 .. n + 1 /\ i - 1 \in 0 .. n /\ i - 1 < i
      BY <2>2, <2>3
    <2>5. r[i - 1] = q[i - 1] /\ r[i - 1] \in Int
      BY <2>2, <2>4
    <2>6. r[i] = r[i - 1] + f[i] /\ q[i] = q[i - 1] + f[i] /\ f[i] \in Int
      BY <1>1, <1>2, <2>4
    <2> QED BY <2>2, <2>5, <2>6
  <1>5. n \in 0 .. n /\ n + 1 \in 1 .. n + 1 /\ (n + 1) - 1 = n
    OBVIOUS
  <1>6. r[n] = q[n] /\ r[n] \in Int
    BY <1>4, <1>5
  <1>7. q[n + 1] = q[n] + h[n + 1]
    BY <1>2, <1>5
  <1> QED BY <1>1, <1>2, <1>6, <1>7

LEMMA TotalEmpty == \A f \in [1 .. 0 -> Int] : Total(f) = 0
  <1>1. SUFFICES ASSUME NEW f \in [1 .. 0 -> Int]
                 PROVE  Total(f) = 0
    OBVIOUS
  <1>2. 0 \in Nat
    OBVIOUS
  <1>3. PICK r : r[0] = 0 /\ Total(f) = r[0]
    BY <1>2, TotalRuns
  <1> QED BY <1>3

LEMMA TotalInt ==
  ASSUME NEW n \in Nat, NEW f \in [1 .. n -> Int]
  PROVE  Total(f) \in Int
  <1> DEFINE h == [i \in 1 .. n + 1 |-> IF i = n + 1 THEN 0 ELSE f[i]]
  <1>1. h \in [1 .. n + 1 -> Int] /\ \A i \in 1 .. n : h[i] = f[i]
    OBVIOUS
  <1> HIDE DEF h
  <1> QED BY <1>1, TotalMore

\* The sums of up to three numbers.
LEMMA TotalSmall ==
  /\ \A f \in [1 .. 0 -> Int] : Total(f) = 0
  /\ \A f \in [1 .. 1 -> Int] : Total(f) = f[1]
  /\ \A f \in [1 .. 2 -> Int] : Total(f) = f[1] + f[2]
  /\ \A f \in [1 .. 3 -> Int] : Total(f) = f[1] + f[2] + f[3]
  <1>1. \A f \in [1 .. 0 -> Int] : Total(f) = 0
    BY TotalEmpty
  <1>2. ASSUME NEW n \in Nat, NEW f \in [1 .. n + 1 -> Int]
        PROVE  /\ [i \in 1 .. n |-> f[i]] \in [1 .. n -> Int]
               /\ Total(f) = Total([i \in 1 .. n |-> f[i]]) + f[n + 1]
    <2> DEFINE h == [i \in 1 .. n |-> f[i]]
    <2>1. h \in [1 .. n -> Int] /\ \A i \in 1 .. n : h[i] = f[i]
      OBVIOUS
    <2> HIDE DEF h
    <2>2. Total(f) = Total(h) + f[n + 1]
      BY <2>1, TotalMore
    <2> QED BY <2>1, <2>2 DEF h
  <1>3. \A f \in [1 .. 1 -> Int] : Total(f) = f[1]
    <2>1. TAKE f \in [1 .. 1 -> Int]
    <2>2. 0 \in Nat /\ 0 + 1 = 1 /\ f[1] \in Int
      OBVIOUS
    <2>3. Total(f) = Total([i \in 1 .. 0 |-> f[i]]) + f[0 + 1]
      BY <1>2, <2>2
    <2>4. Total([i \in 1 .. 0 |-> f[i]]) = 0
      BY <1>1, <1>2, <2>2
    <2> QED BY <2>2, <2>3, <2>4
  <1>4. \A f \in [1 .. 2 -> Int] : Total(f) = f[1] + f[2]
    <2>1. TAKE f \in [1 .. 2 -> Int]
    <2> DEFINE h == [i \in 1 .. 1 |-> f[i]]
    <2>2. 1 \in Nat /\ 1 + 1 = 2 /\ h[1] = f[1]
      OBVIOUS
    <2>3. h \in [1 .. 1 -> Int] /\ Total(f) = Total(h) + f[1 + 1]
      BY <1>2, <2>2
    <2>4. Total(h) = f[1]
      BY <1>3, <2>2, <2>3
    <2> HIDE DEF h
    <2> QED BY <2>2, <2>3, <2>4
  <1>5. \A f \in [1 .. 3 -> Int] : Total(f) = f[1] + f[2] + f[3]
    <2>1. TAKE f \in [1 .. 3 -> Int]
    <2> DEFINE h == [i \in 1 .. 2 |-> f[i]]
    <2>2. 2 \in Nat /\ 2 + 1 = 3 /\ h[1] = f[1] /\ h[2] = f[2]
      OBVIOUS
    <2>3. h \in [1 .. 2 -> Int] /\ Total(f) = Total(h) + f[2 + 1]
      BY <1>2, <2>2
    <2>4. Total(h) = h[1] + h[2]
      BY <1>4, <2>3
    <2> HIDE DEF h
    <2> QED BY <2>2, <2>3, <2>4
  <1> QED BY <1>1, <1>3, <1>4, <1>5
-----------------------------------------------------------------------------
(***************************************************************************)
(* Blocks.                                                                 *)
(***************************************************************************)
LEMMA GeometryFacts ==
  ASSUME NEW dt \in Dtypes
  PROVE  /\ Vals(dt) \in {1, 32, 256} /\ Vals(dt) \in Nat \ {0}
         /\ Bytes(dt) \in Nat \ {0}
  BY DEF Dtypes, Geometry, Vals, Bytes

PackedKinds == {"Q4_0", "Q2_K", "Q4_K", "Q5_K", "Q6_K"}

\* Both engines' kernels read of every value the bits that mean it, but for Q4_K on HIP.
LEMMA KernelsAgree ==
  ASSUME NEW en \in {"hip", "vulkan"}, NEW dt \in PackedKinds,
         en = "hip" => dt \notin {"Q4_0", "Q2_K", "Q4_K"},
         NEW i \in 0 .. Vals(dt) - 1
  PROVE  Kernels[en][dt][i] = Means[dt][i]
  <1>1. dt \in Dtypes /\ Kernels[en][dt][i] = qk_w(en, dt, i) /\ Means[dt][i] = Meaning(dt, i)
    BY DEF Kernels, Means, PackedKinds, Dtypes, Geometry
  <1>2. CASE dt = "Q4_0"
    <2>1. qk_w(en, dt, i) = qk_q4_0(i) /\ Meaning(dt, i) = dequant_q4_0(i)
      BY <1>2 DEF qk_w, Meaning
    <2> QED BY <1>1, <2>1 DEF qk_q4_0, dequant_q4_0, Nibble
  <1>3. CASE dt = "Q2_K"
    <2>1. qk_w(en, dt, i) = qk_q2(i) /\ Meaning(dt, i) = dequant_q2_k(i \div 16, i % 16)
      BY <1>3 DEF qk_w, Meaning
    <2>2. i \in Nat /\ i \div 16 \in Nat /\ i % 16 \in Nat
      BY <1>1, GeometryFacts
    <2> DEFINE g == i \div 16
               j == i % 16
    <2>3. 16 + (((g \div 8) * 32) + ((g % 2) * 16) + j) = 16 + ((g \div 8) * 32) + ((g % 2) * 16) + j
      BY <2>2
    <2> QED BY <1>1, <2>1, <2>3 DEF qk_q2, dequant_q2_k
  <1>4. CASE dt = "Q4_K"
    <2>1. qk_w(en, dt, i) = qk_q4(i) /\ Meaning(dt, i) = dequant_q4_k(i \div 32, i % 32)
      BY <1>4 DEF qk_w, Meaning
    <2> QED BY <1>1, <2>1 DEF qk_q4, dequant_q4_k
  <1>5. CASE dt = "Q5_K"
    <2> DEFINE group == i \div 64
               slot == (i % 64) \div 32
               l == i % 32
    <2>1. qk_w(en, dt, i) = qk_w_q5(i) /\ Meaning(dt, i) = ref_q5_k(group, slot, l)
      BY <1>5 DEF qk_w, Meaning
    <2>2. i \in Nat
      BY <1>1, GeometryFacts
    <2>3. slot \in {0, 1} /\ group \in Nat /\ l \in Nat
      BY <2>2
    <2>4. CASE slot = 0
      <3>1. slot * 4 = 0 /\ group * 2 + slot = group * 2
        BY <2>3, <2>4
      <3> HIDE DEF group, slot, l
      <3>2. ref_q5_k(group, slot, l)
              = WithMin(0, 2, qk_scales(group * 2 + slot).s, qk_scales(group * 2 + slot).m,
                        Bits(48 + group * 32 + l, 0, 4) \o Bits(16 + l, group * 2, 1))
        BY <3>1 DEF ref_q5_k
      <3>3. qk_w_q5(i)
              = WithMin(0, 2, qk_scales(group * 2 + slot).s, qk_scales(group * 2 + slot).m,
                        Bits(48 + group * 32 + l, 0, 4) \o Bits(16 + l, group * 2, 1))
        BY <2>4 DEF qk_w_q5, group, slot, l
      <3> QED BY <1>1, <2>1, <3>2, <3>3
    <2>5. CASE slot = 1
      <3>1. slot * 4 = 4 /\ group * 2 + slot = group * 2 + 1
        BY <2>3, <2>5
      <3> HIDE DEF group, slot, l
      <3>2. ref_q5_k(group, slot, l)
              = WithMin(0, 2, qk_scales(group * 2 + slot).s, qk_scales(group * 2 + slot).m,
                        Bits(48 + group * 32 + l, 4, 4) \o Bits(16 + l, group * 2 + 1, 1))
        BY <3>1 DEF ref_q5_k
      <3>3. qk_w_q5(i)
              = WithMin(0, 2, qk_scales(group * 2 + slot).s, qk_scales(group * 2 + slot).m,
                        Bits(48 + group * 32 + l, 4, 4) \o Bits(16 + l, group * 2 + 1, 1))
        BY <2>5 DEF qk_w_q5, group, slot, l
      <3> QED BY <1>1, <2>1, <3>2, <3>3
    <2> QED BY <2>3, <2>4, <2>5
  <1>6. CASE dt = "Q6_K"
    <2> DEFINE half == i \div 128
               slot == (i % 128) \div 32
               l == i % 32
    <2>1. qk_w(en, dt, i) = qk_w_q6(i) /\ Meaning(dt, i) = dequant_q6_k(half, l, slot)
      BY <1>6 DEF qk_w, Meaning
    <2>2. i \in Nat
      BY <1>1, GeometryFacts
    <2>3. slot \in {0, 1, 2, 3} /\ half \in Nat /\ l \in Nat
      BY <2>2
    <2> DEFINE ql == half * 64
    <2>4. /\ ql + l + 0 = ql + l
          /\ slot \div 2 = (IF slot \in {0, 1} THEN 0 ELSE 1)
          /\ slot * 2 = 2 * slot
      BY <2>3
    <2> HIDE DEF half, slot, l
    <2>5. dequant_q6_k(half, l, slot)
            = Scaled(208, Bits(192 + half * 8 + (l \div 16) + 2 * slot, 0, 8), 0,
                     Bits(ql + l + (IF slot \in {1, 3} THEN 32 ELSE 0), (slot \div 2) * 4, 4)
                     \o Bits(128 + half * 32 + l, 2 * slot, 2), 32)
      BY <2>4 DEF dequant_q6_k
    <2>6. qk_w_q6(i)
            = Scaled(208, Bits(192 + half * 8 + (l \div 16) + 2 * slot, 0, 8), 0,
                     (CASE slot = 0 -> Bits(ql + l, 0, 4)
                        [] slot = 1 -> Bits(ql + l + 32, 0, 4)
                        [] slot = 2 -> Bits(ql + l, 4, 4)
                        [] slot = 3 -> Bits(ql + l + 32, 4, 4))
                     \o Bits(128 + half * 32 + l, 2 * slot, 2), 32)
      BY DEF qk_w_q6, half, slot, l
    <2>7. (CASE slot = 0 -> Bits(ql + l, 0, 4)
             [] slot = 1 -> Bits(ql + l + 32, 0, 4)
             [] slot = 2 -> Bits(ql + l, 4, 4)
             [] slot = 3 -> Bits(ql + l + 32, 4, 4))
          = Bits(ql + l + (IF slot \in {1, 3} THEN 32 ELSE 0), (slot \div 2) * 4, 4)
      <3>1. CASE slot = 0
        <4>1. (slot \div 2) * 4 = 0
          BY <2>4, <3>1
        <4> QED BY <2>4, <3>1, <4>1
      <3>2. CASE slot = 1
        <4>1. (slot \div 2) * 4 = 0
          BY <2>4, <3>2
        <4> QED BY <3>2, <4>1
      <3>3. CASE slot = 2
        <4>1. (slot \div 2) * 4 = 4
          BY <2>4, <3>3
        <4> QED BY <2>4, <3>3, <4>1
      <3>4. CASE slot = 3
        <4>1. (slot \div 2) * 4 = 4
          BY <2>4, <3>4
        <4> QED BY <3>4, <4>1
      <3> QED BY <2>3, <3>1, <3>2, <3>3, <3>4
    <2> HIDE DEF ql
    <2>8. dequant_q6_k(half, l, slot) = qk_w_q6(i)
      BY <2>5, <2>6, <2>7, Zenon
    <2> QED BY <1>1, <2>1, <2>8, Zenon
  <1> QED BY <1>2, <1>3, <1>4, <1>5, <1>6 DEF PackedKinds
-----------------------------------------------------------------------------
(***************************************************************************)
(* Numbers in mixed radix.                                                 *)
(***************************************************************************)
LEMMA BelowProduct ==
  ASSUME NEW n \in Nat, NEW m \in Nat, NEW b \in Nat, NEW c \in Nat, b < n, c < m
  PROVE  b * m + c \in Nat /\ b * m + c < n * m
  <1>1. (b + 1) * m <= n * m
    <2>1. b + 1 <= n /\ b + 1 \in Int
      OBVIOUS
    <2> QED BY <2>1, MulMono
  <1>2. (b + 1) * m = b * m + m
    OBVIOUS
  <1> DEFINE x == b * m
             y == n * m
  <1>3. x \in Nat /\ y \in Nat /\ x + m <= y
    BY <1>1, <1>2
  <1> HIDE DEF x, y
  <1>4. x + c \in Nat /\ x + c < y
    BY <1>3
  <1> QED BY <1>4 DEF x, y

LEMMA DivBelow ==
  ASSUME NEW a \in Nat, NEW n \in Nat, NEW d \in Nat \ {0}, a < n * d
  PROVE  a \div d \in Nat /\ a \div d < n
  <1> DEFINE q == a \div d
  <1>1. q \in Nat /\ q * d <= a
    BY DivFacts
  <1> HIDE DEF q
  <1>2. SUFFICES ASSUME n <= q PROVE FALSE
    BY <1>1 DEF q
  <1>3. n * d <= q * d
    BY <1>1, <1>2, MulMono
  <1> DEFINE x == n * d
             y == q * d
  <1>4. x \in Nat /\ y \in Nat /\ x <= y /\ y <= a /\ a < x
    BY <1>1, <1>3
  <1> HIDE DEF x, y
  <1> QED BY <1>4

\* A multiple of d is divided without remainder.
LEMMA DivMultiple ==
  ASSUME NEW n \in Nat, NEW d \in Nat \ {0}, n % d = 0
  PROVE  n \div d \in Nat /\ n = (n \div d) * d
  <1>1. n \div d \in Nat /\ n = (n \div d) * d + (n % d)
    BY SplitPosition
  <1> DEFINE x == (n \div d) * d
  <1>2. x \in Nat /\ n = x + 0
    BY <1>1
  <1> HIDE DEF x
  <1>3. n = x
    BY <1>2
  <1> QED BY <1>1, <1>3 DEF x

LEMMA MultipleMod ==
  ASSUME NEW k \in Nat, NEW d \in Nat \ {0}
  PROVE  (k * d) % d = 0 /\ (k * d) \div d = k
  <1>1. /\ 0 \in Nat /\ 0 < d /\ k * d + 0 = k * d
    OBVIOUS
  <1> QED BY <1>1, JoinPosition

LEMMA UpFacts ==
  ASSUME NEW a \in Nat, NEW b \in Nat \ {0}
  PROVE  Up(a, b) \in Nat /\ a <= Up(a, b) * b /\ Up(a, b) * b <= a + b - 1
  <1> DEFINE q == (a + b - 1) \div b
             x == q * b
  <1>1. a + b - 1 \in Nat
    OBVIOUS
  <1>2. q \in Nat /\ x <= a + b - 1 /\ a + b - 1 < x + b /\ x \in Nat
    <2>1. q \in Nat /\ q * b <= a + b - 1 /\ a + b - 1 < q * b + b
      BY <1>1, DivFacts
    <2> QED BY <2>1
  <1>3. Up(a, b) = q
    BY DEF Up
  <1> HIDE DEF q
  <1>4. a <= x
    <2> HIDE DEF x
    <2> QED BY <1>2
  <1> QED BY <1>2, <1>3, <1>4 DEF x

LEMMA UpUnique ==
  ASSUME NEW n \in Nat, NEW a \in Nat \ {0}, NEW x \in n .. n + a - 1, x % a = 0
  PROVE  x = Up(n, a) * a
  <1> DEFINE q == Up(n, a)
             m == x \div a
  <1>1. x \in Nat /\ m \in Nat /\ x = m * a
    <2>1. x \in Nat
      OBVIOUS
    <2> QED BY <2>1, DivMultiple
  <1>2. q \in Nat /\ n <= q * a /\ q * a <= n + a - 1
    BY UpFacts
  <1> HIDE DEF q, m
  <1> DEFINE u == q * a
             v == m * a
  <1>3. u \in Nat /\ v \in Nat /\ n <= u /\ u <= n + a - 1 /\ n <= v /\ v <= n + a - 1
    BY <1>1, <1>2
  <1>4. u < v + a /\ v < u + a
    <2> HIDE DEF u, v
    <2> QED BY <1>3
  <1>5. q <= m /\ m <= q
    BY <1>1, <1>2, <1>4, MulCancel
  <1>6. q = m
    BY <1>1, <1>2, <1>5
  <1> QED BY <1>1, <1>6 DEF q
-----------------------------------------------------------------------------
(***************************************************************************)
(* The setup, and the file.                                                *)
(***************************************************************************)
LEMMA FunctionSeq == \A n \in Nat : \A S : \A f \in [1 .. n -> S] : f \in Seq(S) /\ Len(f) = n
  OBVIOUS

LEMMA SetupFacts ==
  ASSUME Sound(setup)
  PROVE  /\ Tensors = Parts[setup.group] /\ Tensors \in 1 .. 4
         /\ setup.engine \in {"hip", "vulkan"} /\ setup.group \in DOMAIN Parts
         /\ K \in Nat \ {0}
         /\ setup.rows \in [1 .. IF setup.group = "packed" THEN 3 ELSE Tensors -> Nat \ {0}]
         /\ setup.dtypes \in [1 .. Tensors -> Dtypes]
  <1>1. WellFormed(setup)
    BY DEF Sound
  <1>2. setup.group \in DOMAIN Parts /\ Parts[setup.group] \in 1 .. 4
    BY <1>1 DEF WellFormed, Parts
  <1>3. Len(setup.dtypes) = Parts[setup.group]
    <2>1. setup.dtypes \in [1 .. Parts[setup.group] -> Dtypes]
      BY <1>1 DEF WellFormed
    <2> QED BY <1>2, <2>1, FunctionSeq
  <1> QED BY <1>1, <1>2, <1>3 DEF WellFormed, Tensors, K

LEMMA TensorFacts ==
  ASSUME Sound(setup), NEW p \in 1 .. Tensors
  PROVE  /\ Dtype(p) \in Dtypes /\ TensorRows(p) \in Nat \ {0}
         /\ Elements(p) \in Nat \ {0} /\ Elements(p) = TensorRows(p) * K
         /\ Blocks(p) \in Nat
         /\ Dtype(p) = "Q8_0" => K % 32 = 0
  <1>1. Dtype(p) \in Dtypes
    BY SetupFacts DEF Dtype
  <1>2. TensorRows(p) \in Nat \ {0}
    <2>1. CASE setup.group = "packed"
      <3>1. setup.rows \in [1 .. 3 -> Nat \ {0}]
        BY <2>1, SetupFacts
      <3>2. /\ setup.rows \in [1 .. 3 -> Int]
            /\ setup.rows[1] \in Nat \ {0} /\ setup.rows[2] \in Nat \ {0}
            /\ setup.rows[3] \in Nat \ {0}
        BY <3>1
      <3>3. Total(setup.rows) = setup.rows[1] + setup.rows[2] + setup.rows[3]
        BY <3>2, TotalSmall
      <3> QED BY <2>1, <3>2, <3>3 DEF TensorRows
    <2>2. CASE setup.group # "packed"
      BY <2>2, SetupFacts DEF TensorRows
    <2> QED BY <2>1, <2>2
  <1>3. K \in Nat \ {0} /\ Vals(Dtype(p)) \in Nat \ {0}
    BY <1>1, SetupFacts, GeometryFacts
  <1>4. Elements(p) \in Nat \ {0}
    <2>1. \A a, b \in Nat \ {0} : a * b \in Nat \ {0}
      OBVIOUS
    <2> QED BY <1>2, <1>3, <2>1 DEF Elements
  <1>5. Blocks(p) \in Nat
    <2>1. Elements(p) \in Nat
      BY <1>4
    <2> QED BY <1>3, <2>1, DivFacts DEF Blocks
  <1>6. Dtype(p) = "Q8_0" => K % 32 = 0
    <2>1. p \in DOMAIN setup.dtypes
      BY SetupFacts
    <2>2. Dtype(p) \in {setup.dtypes[x] : x \in DOMAIN setup.dtypes}
      BY <2>1 DEF Dtype
    <2> QED BY <2>2 DEF Sound, WellFormed, K
  <1> QED BY <1>1, <1>2, <1>4, <1>5, <1>6 DEF Elements

LEMMA PaddedFacts ==
  ASSUME NEW n \in Nat
  PROVE  Padded(n) \in Nat /\ Padded(n) = IF Gguf THEN Up(n, Alignment) * Alignment ELSE n
  <1>1. CASE Gguf
    <2>1. Alignment \in Nat \ {0}
      BY FileAssumption
    <2> DEFINE q == Up(n, Alignment)
               x == q * Alignment
    <2>2. q \in Nat /\ x \in n .. n + Alignment - 1 /\ x % Alignment = 0 /\ x \in Nat
      <3>1. q \in Nat /\ n <= x /\ x <= n + Alignment - 1
        BY <2>1, UpFacts
      <3>2. x % Alignment = 0
        BY <2>1, <3>1, MultipleMod
      <3>3. x \in Nat
        BY <2>1, <3>1
      <3> HIDE DEF x
      <3> QED BY <2>1, <3>1, <3>2, <3>3
    <2>3. Padded(n) = CHOOSE y \in n .. n + Alignment - 1 : y % Alignment = 0
      BY <1>1 DEF Padded
    <2>4. Padded(n) \in n .. n + Alignment - 1 /\ Padded(n) % Alignment = 0
      <3> HIDE DEF x
      <3> QED BY <2>2, <2>3
    <2>5. Padded(n) = x
      BY <2>1, <2>4, UpUnique
    <2> HIDE DEF x
    <2>6. Padded(n) \in Nat /\ Padded(n) = x
      BY <2>2, <2>5
    <2> QED BY <1>1, <2>6 DEF x
  <1>2. CASE ~Gguf
    BY <1>2 DEF Padded
  <1> QED BY <1>1, <1>2

LEMMA PlacesNat ==
  ASSUME Sound(setup), NEW p \in 1 .. Tensors
  PROVE  /\ Places(p) \in Nat
         /\ Tiled(p) => LET tr == setup.tile[1]
                            tbc == setup.tile[2]
                            n == Up(TensorRows(p), tr) * Up(K \div Vals(Dtype(p)), tbc) * tr * tbc
                        IN  n \in Nat /\ DOMAIN to_tiled_native(p) = 0 .. n - 1 /\ Places(p) = n
  <1>1. CASE ~Tiled(p)
    BY <1>1, TensorFacts DEF Places
  <1>2. CASE Tiled(p)
    <2> DEFINE tr == setup.tile[1]
               tbc == setup.tile[2]
               a == Up(TensorRows(p), tr)
               b == Up(K \div Vals(Dtype(p)), tbc)
               n == a * b * tr * tbc
    <2>1. tr \in Nat \ {0} /\ tbc \in Nat \ {0}
      BY <1>2 DEF Tiled, Sound, WellFormed
    <2>2. a \in Nat
      BY <2>1, TensorFacts, UpFacts
    <2>3. b \in Nat
      <3>1. K \in Nat /\ Vals(Dtype(p)) \in Nat \ {0}
        BY TensorFacts, SetupFacts, GeometryFacts
      <3>2. K \div Vals(Dtype(p)) \in Nat
        BY <3>1, DivFacts
      <3> QED BY <2>1, <3>2, UpFacts
    <2>4. DOMAIN to_tiled_native(p) = 0 .. n - 1
      BY DEF to_tiled_native
    <2>5. n \in Nat
      <3> HIDE DEF a, b, tr, tbc
      <3>1. \A x, y \in Nat : x * y \in Nat
        OBVIOUS
      <3>2. a * b \in Nat /\ a * b * tr \in Nat
        BY <2>1, <2>2, <2>3, <3>1
      <3> QED BY <2>1, <3>1, <3>2
    <2> HIDE DEF n
    <2>6. Cardinality(0 .. n - 1) = n
      BY <2>5, FS_Interval
    <2>7. Places(p) = n
      BY <1>2, <2>4, <2>6 DEF Places
    <2> QED BY <2>4, <2>5, <2>7 DEF n
  <1> QED BY <1>1, <1>2

\* What a loader reads at place x of a tensor is the block that the file has there.
LEMMA ReadRaw ==
  ASSUME Sound(setup), NEW p \in 1 .. Tensors, NEW x \in 0 .. Places(p) - 1
  PROVE  read_raw(p, x) = x
  <1> DEFINE size == Bytes(Dtype(p))
             f == [q \in 1 .. p - 1 |-> Padded(Places(q) * Bytes(Dtype(q)))]
  <1>1. size \in Nat \ {0} /\ Places(p) \in Nat /\ x \in Nat
    BY TensorFacts, GeometryFacts, PlacesNat
  <1>2. f \in [1 .. p - 1 -> Int]
    <2>1. SUFFICES ASSUME NEW q \in 1 .. p - 1
                   PROVE  Padded(Places(q) * Bytes(Dtype(q))) \in Int
      OBVIOUS
    <2>2. q \in 1 .. Tensors
      BY SetupFacts
    <2>3. Places(q) \in Nat /\ Bytes(Dtype(q)) \in Nat
      BY <2>2, TensorFacts, GeometryFacts, PlacesNat
    <2>4. Places(q) * Bytes(Dtype(q)) \in Nat
      BY <2>3
    <2> QED BY <2>4, PaddedFacts
  <1>3. Offset(p) \in Int
    <2>1. p - 1 \in Nat
      BY SetupFacts
    <2>2. Offset(p) = Total(f)
      BY DEF Offset
    <2> HIDE DEF f
    <2> QED BY <1>2, <2>1, <2>2, TotalInt
  <1>4. data_offset_ = Padded(HeaderBytes) /\ data_offset_ \in Nat
    <2>1. HeaderBytes \in Nat
      BY FileAssumption
    <2> QED BY <2>1, PaddedFacts DEF data_offset_, Up
  <1> DEFINE at == (data_offset_ + Offset(p) + x * size) - (Padded(HeaderBytes) + Offset(p))
  <1>5. at = x * size
    <2> DEFINE y == x * size
    <2>1. y \in Int
      BY <1>1
    <2> HIDE DEF y, size
    <2>2. (data_offset_ + Offset(p) + y) - (Padded(HeaderBytes) + Offset(p)) = y
      BY <1>3, <1>4, <2>1
    <2> QED BY <2>2 DEF y
  <1>6. at \in 0 .. Places(p) * size - 1 /\ at % size = 0 /\ at \div size = x
    <2>1. x * size + 0 \in Nat /\ x * size + 0 < Places(p) * size
      BY <1>1, BelowProduct
    <2>2. (x * size) % size = 0 /\ (x * size) \div size = x
      BY <1>1, MultipleMod
    <2> DEFINE y == x * size
               z == Places(p) * size
    <2>3. y \in Nat /\ z \in Nat /\ y < z
      BY <1>1, <2>1
    <2> HIDE DEF y, z
    <2>4. y \in 0 .. z - 1
      BY <2>3
    <2> QED BY <1>5, <2>2, <2>4 DEF y, z
  <1> HIDE DEF at
  <1>7. InFile(data_offset_ + Offset(p) + x * size, p) = at \div size
    BY <1>6 DEF InFile, at
  <1> QED BY <1>6, <1>7 DEF read_raw

-----------------------------------------------------------------------------
(***************************************************************************)
(* Tiles: de-tiling finds every block where tiling has put it.             *)
(***************************************************************************)
LEMMA Regroup ==
  ASSUME NEW x \in Nat, NEW y \in Nat, NEW z \in Nat, NEW t \in Nat
  PROVE  (x * y + z) * t = x * (y * t) + z * t
  <1>1. (x * y + z) * t = (x * y) * t + z * t
    <2> DEFINE u == x * y
    <2>1. u \in Nat
      OBVIOUS
    <2> HIDE DEF u
    <2>2. (u + z) * t = u * t + z * t
      BY <2>1
    <2> QED BY <2>2 DEF u
  <1>2. (x * y) * t = x * (y * t)
    OBVIOUS
  <1> QED BY <1>1, <1>2

TileAt(tr, tbc, ntc, lr, lbc) ==
  (((lr \div tr) * ntc + (lbc \div tbc)) * tr + (lr % tr)) * tbc + (lbc % tbc)
TileRow(tr, tbc, ntc, x) == (x \div (tr * tbc * ntc)) * tr + ((x \div tbc) % tr)
TileCol(tr, tbc, ntc, x) == ((x \div (tr * tbc)) % ntc) * tbc + (x % tbc)
Within(lr, tr, ntr) == lr \div tr < ntr
TilesHold(tr, tbc, ntr, ntc) == ntr * ntc * tr * tbc

LEMMA Tiling ==
  ASSUME NEW tr \in Nat \ {0}, NEW tbc \in Nat \ {0}, NEW ntr \in Nat, NEW ntc \in Nat \ {0},
         NEW lr \in Nat, NEW lbc \in Nat, Within(lr, tr, ntr), Within(lbc, tbc, ntc),
         NEW x, x = TileAt(tr, tbc, ntc, lr, lbc)
  PROVE  /\ x \in Nat /\ x < TilesHold(tr, tbc, ntr, ntc)
         /\ TileRow(tr, tbc, ntc, x) = lr
         /\ TileCol(tr, tbc, ntc, x) = lbc
  <1> DEFINE R == lr \div tr
             r == lr % tr
             C == lbc \div tbc
             c == lbc % tbc
             z == R * ntc + C
             y == z * tr + r
             size == tr * tbc
             low == r * tbc + c
  <1>1. /\ R \in Nat /\ r \in Nat /\ r < tr /\ lr = R * tr + r
        /\ C \in Nat /\ c \in Nat /\ c < tbc /\ lbc = C * tbc + c
    <2>1. \A o, d \in Nat : o \in 0 .. d - 1 => o \in Nat /\ o < d
      OBVIOUS
    <2>2. R \in Nat /\ r \in 0 .. tr - 1 /\ lr = R * tr + r
      BY SplitPosition
    <2>3. C \in Nat /\ c \in 0 .. tbc - 1 /\ lbc = C * tbc + c
      BY SplitPosition
    <2> HIDE DEF R, r, C, c
    <2>4. r \in Nat /\ r < tr
      BY <2>2
    <2>5. c \in Nat /\ c < tbc
      BY <2>3
    <2> QED BY <2>2, <2>3, <2>4, <2>5
  <1>2. R < ntr /\ C < ntc /\ x = y * tbc + c
    BY DEF TileAt, Within
  <1> HIDE DEF R, r, C, c
  <1>3. z \in Nat /\ z < ntr * ntc /\ z \div ntc = R /\ z % ntc = C
    BY <1>1, <1>2, BelowProduct, JoinPosition
  <1>4. y \in Nat /\ y < ntr * ntc * tr /\ y % tr = r
    <2>1. ntr * ntc \in Nat
      OBVIOUS
    <2> HIDE DEF z
    <2> QED BY <1>1, <1>3, <2>1, BelowProduct, JoinPosition
  <1>5. x \in Nat /\ x < ntr * ntc * tr * tbc /\ x \div tbc = y /\ x % tbc = c
    <2> DEFINE n == ntr * ntc * tr
    <2>1. n \in Nat
      <3>1. \A u, v \in Nat : u * v \in Nat
        OBVIOUS
      <3>2. ntr * ntc \in Nat
        BY <3>1
      <3> QED BY <3>1, <3>2
    <2>2. y \in Nat /\ y < n
      BY <1>4
    <2> HIDE DEF y, n
    <2>3. y * tbc + c \in Nat /\ y * tbc + c < n * tbc
      BY <1>1, <2>1, <2>2, BelowProduct
    <2>4. (y * tbc + c) \div tbc = y /\ (y * tbc + c) % tbc = c
      BY <1>1, <2>2, JoinPosition
    <2> QED BY <1>2, <2>3, <2>4 DEF n
  <1>6. low \in Nat /\ low < size /\ size \in Nat \ {0}
    <2>1. size \in Nat \ {0}
      OBVIOUS
    <2> QED BY <1>1, <2>1, BelowProduct
  <1>7. x = z * size + low
    <2>1. y * tbc = z * (tr * tbc) + r * tbc
      BY <1>1, <1>3, Regroup
    <2> DEFINE u == y * tbc
               v == z * size
               t == r * tbc
    <2>2. x = u + c /\ u = v + t /\ u \in Nat /\ v \in Nat /\ t \in Nat
      BY <1>1, <1>2, <1>3, <1>4, <1>6, <2>1
    <2> HIDE DEF u, v, t
    <2>3. x = v + (t + c)
      BY <1>1, <2>2
    <2> QED BY <2>3 DEF v, t
  <1>8. x \div size = z
    <2> HIDE DEF z, size, low
    <2> QED BY <1>3, <1>6, <1>7, JoinPosition
  <1>9. x \div (size * ntc) = R
    <2> DEFINE rest == C * size + low
               all == ntc * size
    <2>1. rest \in Nat /\ rest < all /\ all \in Nat \ {0}
      <3>1. \A a, b \in Nat \ {0} : a * b \in Nat \ {0}
        OBVIOUS
      <3> HIDE DEF size, low
      <3> QED BY <1>1, <1>2, <1>6, <3>1, BelowProduct
    <2>2. z * size = R * (ntc * size) + C * size
      <3> HIDE DEF size
      <3> QED BY <1>1, <1>6, Regroup
    <2>3. x = R * all + rest
      <3> DEFINE u == z * size
                 v == R * all
                 t == C * size
      <3>1. x = u + low /\ u = v + t /\ u \in Nat /\ v \in Nat /\ t \in Nat
        <4>1. \A a, b \in Nat : a * b \in Nat
          OBVIOUS
        <4> HIDE DEF z, size, low
        <4> QED BY <1>1, <1>3, <1>6, <1>7, <2>1, <2>2, <4>1
      <3> HIDE DEF u, v, t, low
      <3>2. x = v + (t + low)
        BY <1>6, <3>1
      <3> QED BY <3>2 DEF v, t
    <2>4. size * ntc = all
      <3> HIDE DEF size
      <3> QED BY <1>6
    <2> HIDE DEF rest, all
    <2>5. x \div all = R
      BY <1>1, <2>1, <2>3, JoinPosition
    <2> QED BY <2>4, <2>5
  <1> HIDE DEF z, y, low
  <1>10. (x \div (tr * tbc * ntc)) * tr + ((x \div tbc) % tr) = lr
    BY <1>1, <1>4, <1>5, <1>9
  <1>11. ((x \div (tr * tbc)) % ntc) * tbc + (x % tbc) = lbc
    BY <1>1, <1>3, <1>5, <1>8
  <1> QED BY <1>5, <1>10, <1>11 DEF TilesHold, TileRow, TileCol

LEMMA ReadTensorData ==
  ASSUME Sound(setup), NEW p \in 1 .. Tensors, Readable(p), NEW b \in 0 .. Blocks(p) - 1
  PROVE  read_tensor_data(p)[b] = b
  <1>0. b \in Nat /\ Blocks(p) \in Nat /\ b < Blocks(p)
    BY TensorFacts
  <1>1. CASE ~Tiled(p)
    <2>1. read_tensor_data(p)[b] = read_raw(p, b)
      BY <1>1 DEF read_tensor_data
    <2>2. b \in 0 .. Places(p) - 1
      BY <1>1 DEF Places
    <2> QED BY <2>1, <2>2, ReadRaw
  <1>2. CASE Tiled(p)
    <2> DEFINE tr == setup.tile[1]
               tbc == setup.tile[2]
               vals == Vals(Dtype(p))
               bpr == K \div vals
               rows == TensorRows(p)
               ntr == Up(rows, tr)
               ntc == Up(bpr, tbc)
               n == ntr * ntc * tr * tbc
               lr == b \div bpr
               lbc == b % bpr
               x == (((lr \div tr) * ntc + (lbc \div tbc)) * tr + (lr % tr)) * tbc + (lbc % tbc)
               raw == to_tiled_native(p)
    <2>1. tr \in Nat \ {0} /\ tbc \in Nat \ {0}
      BY <1>2 DEF Tiled, Sound, WellFormed
    <2>2. rows \in Nat \ {0} /\ vals \in Nat \ {0} /\ K \in Nat \ {0} /\ K % vals = 0
      BY <1>2, TensorFacts, SetupFacts, GeometryFacts DEF Tiled
    <2>3. bpr \in Nat \ {0} /\ K = bpr * vals
      <3> HIDE DEF vals
      <3>1. bpr \in Nat /\ K = bpr * vals
        BY <2>2, DivMultiple
      <3>2. 0 * vals = 0
        BY <2>2
      <3> QED BY <2>2, <3>1, <3>2
    <2>4. Blocks(p) = rows * bpr
      <3> HIDE DEF vals, bpr, rows
      <3>1. rows * K = (rows * bpr) * vals
        BY <2>2, <2>3
      <3>2. rows * bpr \in Nat
        BY <2>2, <2>3
      <3>3. ((rows * bpr) * vals) \div vals = rows * bpr
        BY <2>2, <3>2, MultipleMod
      <3>4. Elements(p) = rows * K
        BY DEF Elements, rows
      <3> QED BY <3>1, <3>3, <3>4 DEF Blocks, vals
    <2>5. n \in Nat /\ DOMAIN raw = 0 .. n - 1 /\ Places(p) = n
      BY <1>2, PlacesNat
    <2>6. lr \in Nat /\ lr < rows /\ lbc \in Nat /\ lbc < bpr /\ b = lr * bpr + lbc
      <3> HIDE DEF bpr, rows
      <3>1. lr \in Nat /\ lbc \in 0 .. bpr - 1 /\ b = lr * bpr + lbc
        BY <1>0, <2>3, SplitPosition
      <3>2. lr < rows
        BY <1>0, <2>2, <2>3, <2>4, DivBelow
      <3> QED BY <2>3, <3>1, <3>2
    <2>7. ntr \in Nat /\ rows <= ntr * tr /\ ntc \in Nat /\ bpr <= ntc * tbc
      <3> HIDE DEF tr, tbc, bpr, rows
      <3> QED BY <2>1, <2>2, <2>3, UpFacts
    <2> HIDE DEF tr, tbc, vals, bpr, rows, ntr, ntc, lr, lbc
    <2>8. Within(lr, tr, ntr) /\ Within(lbc, tbc, ntc) /\ ntc \in Nat \ {0}
      <3> DEFINE u == ntr * tr
                 v == ntc * tbc
      <3>1. u \in Nat /\ v \in Nat /\ rows <= u /\ bpr <= v
        BY <2>1, <2>7
      <3>2. lr < u /\ lbc < v
        <4> HIDE DEF u, v
        <4> QED BY <2>2, <2>3, <2>6, <3>1
      <3>3. lr \div tr < ntr /\ lbc \div tbc < ntc /\ lbc \div tbc \in Nat
        BY <2>1, <2>6, <2>7, <3>2, DivBelow
      <3> QED BY <2>7, <3>3 DEF Within
    <2>9. /\ x \in Nat /\ x < n
          /\ TileRow(tr, tbc, ntc, x) = lr
          /\ TileCol(tr, tbc, ntc, x) = lbc
      <3>1. x = TileAt(tr, tbc, ntc, lr, lbc)
        BY DEF TileAt
      <3>2. n = TilesHold(tr, tbc, ntr, ntc)
        BY DEF TilesHold
      <3>3. lr \in Nat /\ lbc \in Nat /\ ntr \in Nat
        BY <2>6, <2>7
      <3> HIDE DEF x, n
      <3> QED BY <2>1, <2>8, <3>1, <3>2, <3>3, Tiling
    <2>10. x \in 0 .. n - 1
      <3> HIDE DEF x, n
      <3> QED BY <2>5, <2>9
    <2> HIDE DEF x
    <2>11. read_raw(p, x) = x
      BY <2>5, <2>10, ReadRaw
    <2>12. raw[x] = b
      <3>1. raw[x] = LET r == (x \div (tr * tbc * ntc)) * tr + ((x \div tbc) % tr)
                         c == ((x \div (tr * tbc)) % ntc) * tbc + (x % tbc)
                     IN IF r < rows /\ c < bpr THEN r * bpr + c ELSE Pad
        BY <2>10 DEF to_tiled_native, n, tr, tbc, ntr, ntc, bpr, rows, vals
      <3>2. raw[x] = IF TileRow(tr, tbc, ntc, x) < rows /\ TileCol(tr, tbc, ntc, x) < bpr
                     THEN TileRow(tr, tbc, ntc, x) * bpr + TileCol(tr, tbc, ntc, x) ELSE Pad
        BY <3>1 DEF TileRow, TileCol
      <3> QED BY <2>6, <2>9, <3>2
    <2>13. x # Pad
      BY <2>9 DEF Pad
    <2>14. read_tensor_data(p)[b]
             = LET place == read_raw(p, x) IN IF place = Pad THEN Pad ELSE raw[place]
      BY <1>2 DEF read_tensor_data, x, lr, lbc, bpr, vals, ntc, tr, tbc
    <2> QED BY <2>11, <2>12, <2>13, <2>14
  <1> QED BY <1>1, <1>2
-----------------------------------------------------------------------------
(***************************************************************************)
(* What the host has of a tensor that is loaded.                           *)
(***************************************************************************)
Value(p, e) == <<p, e, Means[Dtype(p)][e % Vals(Dtype(p))]>>
Enc(p) == IF Dtype(p) = "BF16" THEN "BF16" ELSE "F16"
Values(p) == [x \in 1 .. Elements(p) |-> Value(p, x - 1)]
Halves(p) == [x \in 1 .. Elements(p) |-> <<Value(p, x - 1), Enc(p)>>]
Scales(p) == [b \in 1 .. Blocks(p) |-> <<p, b - 1>>]
RawBlocks(p) == [b \in 1 .. Blocks(p) |-> <<p, b - 1, Dtype(p)>>]
Whole(p) == Readable(p) /\ Elements(p) % Vals(Dtype(p)) = 0

HostQ8(p) == [None16 EXCEPT !.q8 = Values(p), !.qsc = Scales(p)]
HostU16(p) == [None16 EXCEPT !.u16 = Halves(p), !.bf16 = (Dtype(p) = "BF16")]
HostQk(p) == [None16 EXCEPT !.qk = RawBlocks(p), !.kind = Dtype(p)]

LEMMA WholeFacts ==
  ASSUME Sound(setup), NEW p \in 1 .. Tensors, Whole(p)
  PROVE  Elements(p) = Blocks(p) * Vals(Dtype(p)) /\ Blocks(p) \in Nat \ {0}
  <1> DEFINE vals == Vals(Dtype(p))
             n == Elements(p)
             m == Blocks(p)
  <1>1. n \in Nat \ {0} /\ vals \in Nat \ {0} /\ m = n \div vals /\ n % vals = 0
    BY TensorFacts, GeometryFacts DEF Whole, Blocks
  <1> HIDE DEF n, m, vals
  <1>2. m \in Nat /\ n = m * vals
    BY <1>1, DivMultiple
  <1>3. 0 * vals = 0
    BY <1>1
  <1> QED BY <1>1, <1>2, <1>3 DEF n, m, vals

LEMMA Unpacks ==
  ASSUME Sound(setup), NEW p \in 1 .. Tensors, Whole(p)
  PROVE  Unpacked(p) = Values(p)
  <1> DEFINE vals == Vals(Dtype(p))
             blk == read_tensor_data(p)
  <1>1. SUFFICES ASSUME NEW x \in 1 .. Elements(p)
                 PROVE  Element(p, blk[(x - 1) \div vals], (x - 1) % vals) = Value(p, x - 1)
    BY DEF Unpacked, Values
  <1> DEFINE e == x - 1
             q == e \div vals
             r == e % vals
  <1>2. e \in Nat /\ e < Blocks(p) * vals /\ Blocks(p) \in Nat /\ vals \in Nat \ {0}
    <2>1. Elements(p) \in Nat /\ vals \in Nat \ {0}
      BY TensorFacts, GeometryFacts
    <2> QED BY <2>1, WholeFacts
  <1>3. q \in Nat /\ q < Blocks(p) /\ e = q * vals + r
    <2> HIDE DEF e, vals
    <2> QED BY <1>2, DivBelow, SplitPosition
  <1>4. blk[q] = q
    <2>1. q \in 0 .. Blocks(p) - 1
      <3> HIDE DEF q
      <3> QED BY <1>2, <1>3
    <2> HIDE DEF q
    <2> QED BY <2>1, ReadTensorData DEF Whole
  <1>5. Element(p, blk[q], r) = <<p, e, Means[Dtype(p)][r]>>
    <2> HIDE DEF q, r, e
    <2> QED BY <1>3, <1>4 DEF Element, vals
  <1> QED BY <1>5 DEF Value

LEMMA HostForms ==
  ASSUME Sound(setup), NEW p \in 1 .. Tensors, Whole(p)
  PROVE  /\ Dtype(p) = "Q8_0" => AsQ8(p) = HostQ8(p)
         /\ AsU16(p) = HostU16(p) /\ U16(p) = Halves(p)
         /\ AsQk(p) = HostQk(p)
  <1>1. \A b \in 1 .. Blocks(p) : read_tensor_data(p)[b - 1] = b - 1
    <2>1. TAKE b \in 1 .. Blocks(p)
    <2>2. b - 1 \in 0 .. Blocks(p) - 1
      BY TensorFacts
    <2> QED BY <2>2, ReadTensorData DEF Whole
  <1>2. Planes(p).q8 = Values(p) /\ Planes(p).qsc = Scales(p)
    BY <1>1, Unpacks DEF Planes, Scales
  <1>3. U16(p) = Halves(p)
    <2>1. DOMAIN Values(p) = 1 .. Elements(p)
      BY DEF Values
    <2> QED BY <2>1, Unpacks DEF U16, Sixteen, Enc, Values, Halves
  <1>4. Raw(p) = RawBlocks(p)
    BY <1>1 DEF Raw, RawBlocks
  <1> QED BY <1>2, <1>3, <1>4 DEF AsQ8, AsU16, AsQk, HostQ8, HostU16, HostQk

LEMMA SixteenWhole ==
  ASSUME Sound(setup), NEW p \in 1 .. Tensors, Dtype(p) \in {"F16", "BF16"}
  PROVE  Whole(p)
  <1>1. Vals(Dtype(p)) = 1
    BY DEF Vals, Geometry
  <1>2. \A n \in Nat : n % 1 = 0
    OBVIOUS
  <1>3. Elements(p) % Vals(Dtype(p)) = 0 /\ K % Vals(Dtype(p)) = 0
    BY <1>1, <1>2, TensorFacts, SetupFacts
  <1> QED BY <1>3 DEF Whole, Readable, Tiled

\* A tensor is loaded in whole blocks.
LEMMA LoadsWhole ==
  ASSUME Sound(setup), NEW p \in 1 .. Tensors
  PROVE  load_q8(p) \/ load_qk(p) \/ load_u16(p) \/ mapped(p) => Whole(p)
  <1>1. ASSUME load_q8(p) PROVE Whole(p)
    <2>1. K % 32 = 0 /\ Vals(Dtype(p)) = 32 /\ Readable(p)
      BY <1>1, TensorFacts DEF load_q8, Vals, Geometry
    <2>2. Elements(p) % 32 = 0
      <3>1. K = (K \div 32) * 32 /\ K \div 32 \in Nat /\ TensorRows(p) \in Nat
        BY <2>1, SetupFacts, TensorFacts
      <3> DEFINE m == K \div 32
                 t == TensorRows(p)
      <3>2. m \in Nat /\ K = m * 32 /\ t \in Nat
        BY <3>1
      <3> HIDE DEF m
      <3>3. t * K = (t * m) * 32 /\ t * m \in Nat
        BY <3>2
      <3> HIDE DEF t
      <3>4. ((t * m) * 32) % 32 = 0
        BY <3>3, MultipleMod
      <3> QED BY <3>3, <3>4 DEF Elements, t
    <2> QED BY <2>1, <2>2 DEF Whole
  <1>2. ASSUME load_qk(p) PROVE Whole(p)
    BY <1>2 DEF load_qk, Whole
  <1>3. ASSUME load_u16(p) PROVE Whole(p)
    <2>1. CASE Dtype(p) \in {"F16", "BF16"}
      BY <2>1, SixteenWhole
    <2>2. CASE Dtype(p) \notin {"F16", "BF16"}
      BY <1>3, <2>2 DEF load_u16, Whole
    <2> QED BY <2>1, <2>2
  <1>4. ASSUME mapped(p) PROVE Whole(p)
    <2>1. Dtype(p) \in {"F16", "BF16"}
      BY <1>4, TensorFacts DEF mapped, Bytes, Geometry, Dtypes
    <2> QED BY <2>1, SixteenWhole
  <1> QED BY <1>1, <1>2, <1>3, <1>4

-----------------------------------------------------------------------------
(***************************************************************************)
(* The parts of a fused matrix, one behind the other.                      *)
(***************************************************************************)
Before(size, p) == Total([x \in 1 .. p - 1 |-> size[x]])

LEMMA BeforeNext ==
  ASSUME NEW n \in Nat, NEW size \in [1 .. n -> Nat], NEW p \in 1 .. n
  PROVE  Before(size, p) \in Int /\ Before(size, p + 1) = Before(size, p) + size[p]
  <1> DEFINE f == [x \in 1 .. p - 1 |-> size[x]]
             h == [x \in 1 .. (p + 1) - 1 |-> size[x]]
             m == p - 1
  <1>1. m \in Nat /\ m + 1 = p /\ (p + 1) - 1 = m + 1 /\ p \in Nat
    OBVIOUS
  <1>2. f \in [1 .. m -> Int]
    OBVIOUS
  <1>3. h \in [1 .. m + 1 -> Int] /\ h[m + 1] = size[p]
    <2>1. \A x \in 1 .. m + 1 : x \in 1 .. n
      BY <1>1
    <2> QED BY <1>1, <2>1
  <1>4. \A x \in 1 .. m : h[x] = f[x]
    OBVIOUS
  <1>5. Before(size, p) = Total(f) /\ Before(size, p + 1) = Total(h)
    BY DEF Before
  <1> HIDE DEF f, h, m
  <1>6. Total(f) \in Int /\ Total(h) = Total(f) + h[m + 1]
    BY <1>1, <1>2, <1>3, <1>4, TotalMore
  <1> QED BY <1>3, <1>5, <1>6

LEMMA BeforeFacts ==
  ASSUME NEW n \in Nat, NEW size \in [1 .. n -> Nat]
  PROVE  /\ Before(size, 1) = 0
         /\ \A p \in 1 .. n + 1 : Before(size, p) \in Nat
         /\ \A p \in 1 .. n : Before(size, p + 1) = Before(size, p) + size[p]
         /\ Total(size) = Before(size, n + 1)
  <1>1. Before(size, 1) = 0
    <2> DEFINE f == [x \in 1 .. 1 - 1 |-> size[x]]
    <2>1. f \in [1 .. 0 -> Int]
      OBVIOUS
    <2>2. Before(size, 1) = Total(f)
      BY DEF Before
    <2> HIDE DEF f
    <2> QED BY <2>1, <2>2, TotalEmpty
  <1>2. \A p \in 1 .. n : Before(size, p + 1) = Before(size, p) + size[p]
    BY BeforeNext
  <1> DEFINE odd == {p \in 1 .. n + 1 : Before(size, p) \notin Nat}
  <1>3. odd = {}
    <2>1. SUFFICES ASSUME odd # {} PROVE FALSE
      OBVIOUS
    <2>2. odd \in SUBSET Nat
      OBVIOUS
    <2>3. PICK p \in odd : \A q \in odd : p <= q
      <3> HIDE DEF odd
      <3> QED BY <2>1, <2>2, LeastExists
    <2>4. p # 1
      BY <1>1, <2>3
    <2> DEFINE q == p - 1
    <2>5. q \in 1 .. n /\ q \in 1 .. n + 1 /\ q < p /\ q + 1 = p
      BY <2>3, <2>4
    <2> HIDE DEF q
    <2>6. Before(size, q) \in Nat
      BY <2>3, <2>5
    <2>7. Before(size, p) = Before(size, q) + size[q] /\ size[q] \in Nat
      BY <1>2, <2>5
    <2> QED BY <2>3, <2>6, <2>7
  <1>4. Total(size) = Before(size, n + 1)
    <2>1. size = [x \in 1 .. (n + 1) - 1 |-> size[x]]
      OBVIOUS
    <2> QED BY <2>1 DEF Before
  <1> QED BY <1>1, <1>2, <1>3, <1>4

Laid(S, s, size, k) ==
  LET f == FlattenSeq([x \in 1 .. k |-> s[x]])
  IN /\ f \in Seq(S) /\ Len(f) = Before(size, k + 1)
     /\ \A p \in 1 .. k : \A j \in 1 .. size[p] :
          /\ Before(size, p) + j \in 1 .. Len(f)
          /\ f[Before(size, p) + j] = s[p][j]

LEMMA LaidNext ==
  ASSUME NEW S, NEW n \in Nat, NEW s \in [1 .. n -> Seq(S)], NEW size \in [1 .. n -> Nat],
         \A p \in 1 .. n : Len(s[p]) = size[p],
         NEW k \in 0 .. n, k < n, Laid(S, s, size, k)
  PROVE  Laid(S, s, size, k + 1)
  <1> DEFINE t == [x \in 1 .. k |-> s[x]]
             u == [x \in 1 .. k + 1 |-> s[x]]
             f == FlattenSeq(t)
             h == FlattenSeq(u)
             last == s[k + 1]
             l == Len(f)
  <1>1. k \in Nat /\ k + 1 \in 1 .. n /\ last \in Seq(S) /\ Len(last) = size[k + 1]
        /\ size[k + 1] \in Nat
    OBVIOUS
  <1>2. t \in Seq(Seq(S)) /\ u = Append(t, last)
    <2>1. \A x \in 1 .. k + 1 : x \in 1 .. n
      OBVIOUS
    <2>2. t \in [1 .. k -> Seq(S)] /\ k \in Nat
      BY <2>1
    <2>3. u \in [1 .. k + 1 -> Seq(S)] /\ k + 1 \in Nat
      BY <2>1
    <2>4. t \in Seq(Seq(S)) /\ Len(t) = k /\ u \in Seq(Seq(S)) /\ Len(u) = k + 1
      BY <2>2, <2>3, FunctionSeq
    <2> QED BY <2>4
  <1>3. f \in Seq(S) /\ l = Before(size, k + 1)
    BY DEF Laid
  <1>4. h = f \o last
    <2> HIDE DEF t, u
    <2> QED BY <1>1, <1>2, FlattenAppend
  <1> HIDE DEF t, u, f, h, last
  <1>5. h \in Seq(S) /\ Len(h) = l + Len(last) /\ l \in Nat
        /\ \A i \in 1 .. l + Len(last) : h[i] = IF i <= l THEN f[i] ELSE last[i - l]
    BY <1>1, <1>3, <1>4, ConcatProperties, LenProperties DEF l
  <1> HIDE DEF l
  <1>6. Len(h) = Before(size, (k + 1) + 1)
    BY <1>1, <1>3, <1>5, BeforeFacts
  <1>7. ASSUME NEW p \in 1 .. k + 1, NEW j \in 1 .. size[p]
        PROVE  /\ Before(size, p) + j \in 1 .. Len(h)
               /\ h[Before(size, p) + j] = s[p][j]
    <2>1. CASE p = k + 1
      <3>1. l + j \in 1 .. l + Len(last) /\ ~ (l + j <= l) /\ (l + j) - l = j
        BY <1>1, <1>5, <2>1
      <3>2. h[l + j] = last[j]
        BY <1>5, <3>1
      <3> QED BY <1>3, <1>5, <2>1, <3>1, <3>2 DEF last
    <2>2. CASE p # k + 1
      <3>1. p \in 1 .. k
        BY <2>2
      <3>2. Before(size, p) + j \in 1 .. l /\ f[Before(size, p) + j] = s[p][j]
        BY <3>1 DEF Laid, l, f, t
      <3> DEFINE i == Before(size, p) + j
      <3> HIDE DEF i
      <3>3. i \in 1 .. l + Len(last) /\ i <= l
        BY <1>1, <1>5, <3>2 DEF i
      <3> QED BY <1>5, <3>2, <3>3 DEF i
    <2> QED BY <2>1, <2>2
  <1> QED BY <1>5, <1>6, <1>7 DEF Laid, h, u

LEMMA FlattenParts ==
  ASSUME NEW S, NEW n \in Nat, NEW s \in [1 .. n -> Seq(S)], NEW size \in [1 .. n -> Nat],
         \A p \in 1 .. n : Len(s[p]) = size[p]
  PROVE  /\ FlattenSeq(s) \in Seq(S) /\ Len(FlattenSeq(s)) = Before(size, n + 1)
         /\ \A p \in 1 .. n : \A j \in 1 .. size[p] :
              /\ Before(size, p) + j \in 1 .. Len(FlattenSeq(s))
              /\ FlattenSeq(s)[Before(size, p) + j] = s[p][j]
  <1> DEFINE odd == {k \in 0 .. n : ~Laid(S, s, size, k)}
  <1>1. Laid(S, s, size, 0)
    <2> DEFINE t == [x \in 1 .. 0 |-> s[x]]
    <2>1. t = <<>> /\ 1 .. 0 = {} /\ 0 + 1 = 1
      OBVIOUS
    <2>2. FlattenSeq(t) = <<>>
      BY <2>1 DEF FlattenSeq
    <2>3. Len(FlattenSeq(t)) = Before(size, 0 + 1) /\ FlattenSeq(t) \in Seq(S)
      <3>1. Before(size, 1) = 0
        BY BeforeFacts
      <3>2. Len(<<>>) = 0 /\ <<>> \in Seq(S)
        OBVIOUS
      <3> HIDE DEF t
      <3> QED BY <2>1, <2>2, <3>1, <3>2
    <2> QED BY <2>1, <2>3 DEF Laid
  <1>2. odd = {}
    <2>1. SUFFICES ASSUME odd # {} PROVE FALSE
      OBVIOUS
    <2>2. odd \in SUBSET Nat
      OBVIOUS
    <2>3. PICK p \in odd : \A q \in odd : p <= q
      <3> HIDE DEF odd
      <3> QED BY <2>1, <2>2, LeastExists
    <2>4. p # 0
      BY <1>1, <2>3
    <2> DEFINE q == p - 1
    <2>5. q \in 0 .. n /\ q < n /\ q < p /\ q + 1 = p
      BY <2>3, <2>4
    <2> HIDE DEF q
    <2>6. Laid(S, s, size, q)
      BY <2>3, <2>5
    <2>7. Laid(S, s, size, q + 1)
      BY <2>5, <2>6, LaidNext
    <2> QED BY <2>3, <2>5, <2>7
  <1>3. Laid(S, s, size, n)
    BY <1>2
  <1>4. s = [x \in 1 .. n |-> s[x]]
    OBVIOUS
  <1> QED BY <1>3, <1>4 DEF Laid

LEMMA BeforeScaled ==
  ASSUME NEW n \in Nat, NEW size \in [1 .. n -> Nat], NEW m \in Nat, NEW big \in [1 .. n -> Nat],
         \A p \in 1 .. n : big[p] = size[p] * m
  PROVE  \A p \in 1 .. n + 1 : Before(big, p) = Before(size, p) * m
  <1> DEFINE odd == {p \in 1 .. n + 1 : Before(big, p) # Before(size, p) * m}
  <1>1. odd = {}
    <2>1. SUFFICES ASSUME odd # {} PROVE FALSE
      OBVIOUS
    <2>2. odd \in SUBSET Nat
      OBVIOUS
    <2>3. PICK p \in odd : \A q \in odd : p <= q
      <3> HIDE DEF odd
      <3> QED BY <2>1, <2>2, LeastExists
    <2>4. p # 1
      <3>1. Before(big, 1) = 0
        BY BeforeFacts
      <3>2. Before(size, 1) = 0
        BY BeforeFacts
      <3>3. 0 * m = 0
        OBVIOUS
      <3> QED BY <2>3, <3>1, <3>2, <3>3
    <2> DEFINE q == p - 1
    <2>5. q \in 1 .. n /\ q \in 1 .. n + 1 /\ q < p /\ q + 1 = p
      BY <2>3, <2>4
    <2> HIDE DEF q
    <2>6. Before(big, q) = Before(size, q) * m
      BY <2>3, <2>5
    <2>7. Before(big, p) = Before(big, q) + big[q] /\ Before(size, p) = Before(size, q) + size[q]
      BY <2>5, BeforeFacts
    <2>8. Before(size, q) \in Nat /\ size[q] \in Nat
      BY <2>5, BeforeFacts
    <2>9. \A a, b \in Nat : (a + b) * m = a * m + b * m
      OBVIOUS
    <2>10. (Before(size, q) + size[q]) * m = Before(size, q) * m + size[q] * m
      BY <2>8, <2>9
    <2>11. Before(big, p) = Before(size, p) * m
      BY <2>5, <2>6, <2>7, <2>10
    <2> QED BY <2>3, <2>11
  <1> QED BY <1>1

\* A position of the whole is in one of its parts.
LEMMA PartOf ==
  ASSUME NEW n \in Nat, NEW size \in [1 .. n -> Nat], NEW r \in Nat, r < Before(size, n + 1)
  PROVE  \E p \in 1 .. n : Before(size, p) <= r /\ r < Before(size, p) + size[p]
  <1> DEFINE later == {p \in 1 .. n + 1 : r < Before(size, p)}
  <1>1. later \in SUBSET Nat /\ n + 1 \in later
    OBVIOUS
  <1>2. PICK p \in later : \A q \in later : p <= q
    <2> HIDE DEF later
    <2> QED BY <1>1, LeastExists
  <1>3. p # 1
    BY <1>2, BeforeFacts
  <1> DEFINE q == p - 1
  <1>4. q \in 1 .. n /\ q \in 1 .. n + 1 /\ q < p /\ q + 1 = p
    BY <1>2, <1>3
  <1> HIDE DEF q
  <1>5. ~ (r < Before(size, q)) /\ r < Before(size, p)
    BY <1>2, <1>4
  <1>6. Before(size, p) = Before(size, q) + size[q] /\ Before(size, q) \in Nat
    BY <1>4, BeforeFacts
  <1>7. Before(size, q) <= r /\ r < Before(size, q) + size[q]
    BY <1>5, <1>6
  <1> QED BY <1>4, <1>7

ElementsOf == [p \in 1 .. Tensors |-> Elements(p)]
RowsOf == [p \in 1 .. Tensors |-> TensorRows(p)]
BlocksOf == [p \in 1 .. Tensors |-> Blocks(p)]

LEMMA SizesFacts ==
  ASSUME Sound(setup)
  PROVE  /\ Tensors \in Nat
         /\ ElementsOf \in [1 .. Tensors -> Nat] /\ RowsOf \in [1 .. Tensors -> Nat]
         /\ BlocksOf \in [1 .. Tensors -> Nat]
         /\ \A p \in 1 .. Tensors :
              ElementsOf[p] = RowsOf[p] * K /\ ElementsOf[p] = Elements(p)
         /\ \A p \in 1 .. Tensors + 1 : Before(ElementsOf, p) = Before(RowsOf, p) * K
  <1>1. Tensors \in Nat /\ K \in Nat
    BY SetupFacts
  <1>2. /\ ElementsOf \in [1 .. Tensors -> Nat] /\ RowsOf \in [1 .. Tensors -> Nat]
        /\ BlocksOf \in [1 .. Tensors -> Nat]
        /\ \A p \in 1 .. Tensors : ElementsOf[p] = RowsOf[p] * K
    <2>1. \A p \in 1 .. Tensors : /\ Elements(p) \in Nat /\ TensorRows(p) \in Nat
                                  /\ Blocks(p) \in Nat /\ Elements(p) = TensorRows(p) * K
      BY TensorFacts
    <2> QED BY <2>1 DEF ElementsOf, RowsOf, BlocksOf
  <1>3. \A p \in 1 .. Tensors + 1 : Before(ElementsOf, p) = Before(RowsOf, p) * K
    BY <1>1, <1>2, BeforeScaled
  <1> QED BY <1>1, <1>2, <1>3 DEF ElementsOf

\* Where a row of the whole matrix is in the file.
LEMMA StoredAt ==
  ASSUME Sound(setup), NEW r \in Nat, r < Before(RowsOf, Tensors + 1), NEW k \in 0 .. K - 1
  PROVE  \E p \in 1 .. Tensors, e \in Nat :
           /\ e < Elements(p) /\ Stored(r, k) = Value(p, e)
           /\ r * K + k = Before(ElementsOf, p) + e
           /\ Before(RowsOf, p) <= r /\ r < Before(RowsOf, p) + TensorRows(p)
  <1> DEFINE Has(x) == /\ Total([y \in 1 .. x - 1 |-> TensorRows(y)]) <= r
                       /\ r < Total([y \in 1 .. x - 1 |-> TensorRows(y)]) + TensorRows(x)
             p == CHOOSE x \in 1 .. Tensors : Has(x)
             first == Total([y \in 1 .. p - 1 |-> TensorRows(y)])
             d == r - first
             e == d * K + k
  <1>1. \A x \in 1 .. Tensors : Total([y \in 1 .. x - 1 |-> TensorRows(y)]) = Before(RowsOf, x)
    <2>1. TAKE x \in 1 .. Tensors
    <2>2. [y \in 1 .. x - 1 |-> TensorRows(y)] = [y \in 1 .. x - 1 |-> RowsOf[y]]
      <3>1. \A y \in 1 .. x - 1 : y \in 1 .. Tensors
        BY SizesFacts
      <3> QED BY <3>1 DEF RowsOf
    <2> QED BY <2>2 DEF Before
  <1>2. p \in 1 .. Tensors /\ Has(p)
    <2>1. \E x \in 1 .. Tensors : Before(RowsOf, x) <= r /\ r < Before(RowsOf, x) + RowsOf[x]
      BY SizesFacts, PartOf
    <2>2. \E x \in 1 .. Tensors : Has(x)
      BY <1>1, <2>1 DEF RowsOf
    <2> HIDE DEF Has
    <2> QED BY <2>2
  <1>3. first = Before(RowsOf, p) /\ first \in Nat
    <2>1. \A x \in 1 .. Tensors + 1 : Before(RowsOf, x) \in Nat
      BY SizesFacts, BeforeFacts
    <2>2. \A x \in 1 .. Tensors : x \in 1 .. Tensors + 1
      BY SizesFacts
    <2> HIDE DEF p
    <2> QED BY <1>1, <1>2, <2>1, <2>2
  <1>4. Stored(r, k) = Value(p, e)
    BY DEF Stored, Value
  <1>5. first <= r /\ r < first + TensorRows(p)
    BY <1>2
  <1> HIDE DEF p, first, Has
  <1>6. d \in Nat /\ d < TensorRows(p) /\ TensorRows(p) \in Nat /\ K \in Nat /\ r = first + d
    BY <1>2, <1>3, <1>5, TensorFacts, SetupFacts
  <1> HIDE DEF d
  <1>7. e \in Nat /\ e < Elements(p)
    <2>1. k \in Nat /\ k < K
      BY <1>6
    <2>2. Elements(p) = TensorRows(p) * K
      BY DEF Elements
    <2> QED BY <1>6, <2>1, <2>2, BelowProduct
  <1>8. r * K + k = Before(ElementsOf, p) + e
    <2>1. Before(ElementsOf, p) = first * K
      <3>1. p \in 1 .. Tensors + 1
        BY <1>2, SizesFacts
      <3> QED BY <1>3, <3>1, SizesFacts
    <2>2. \A a, b \in Nat : (a + b) * K = a * K + b * K /\ a * K \in Nat
      BY <1>6
    <2>3. r * K = first * K + d * K /\ first * K \in Nat /\ d * K \in Nat
      BY <1>3, <1>6, <2>2
    <2> DEFINE u == first * K
               v == d * K
    <2>4. u \in Nat /\ v \in Nat /\ k \in Nat /\ r * K = u + v
      BY <2>3
    <2> HIDE DEF u, v
    <2>5. (u + v) + k = u + (v + k)
      BY <2>4
    <2> QED BY <2>1, <2>4, <2>5 DEF u, v
  <1> HIDE DEF e
  <1> QED BY <1>2, <1>3, <1>4, <1>5, <1>7, <1>8

ArePartsOf(s, n, size) ==
  /\ s = [p \in 1 .. n |-> s[p]]
  /\ \A p \in 1 .. n : s[p] = [x \in 1 .. size[p] |-> s[p][x]]

LEMMA FlattenFunctions ==
  ASSUME NEW n \in Nat, NEW size \in [1 .. n -> Nat], NEW s, ArePartsOf(s, n, size)
  PROVE  /\ \E S : FlattenSeq(s) \in Seq(S)
         /\ Len(FlattenSeq(s)) = Before(size, n + 1)
         /\ \A p \in 1 .. n : \A j \in 1 .. size[p] :
              /\ Before(size, p) + j \in DOMAIN FlattenSeq(s)
              /\ FlattenSeq(s)[Before(size, p) + j] = s[p][j]
  <1> DEFINE S == {s[p][x] : p \in 1 .. n, x \in Nat}
  <1>1. ASSUME NEW p \in 1 .. n
        PROVE  s[p] \in Seq(S) /\ Len(s[p]) = size[p]
    <2>2. size[p] \in Nat
      OBVIOUS
    <2>3. s[p] \in [1 .. size[p] -> S]
      <3>1. \A x \in 1 .. size[p] : s[p][x] \in S
        OBVIOUS
      <3> HIDE DEF S
      <3> QED BY <3>1 DEF ArePartsOf
    <2> HIDE DEF S
    <2> QED BY <2>2, <2>3, FunctionSeq
  <1> HIDE DEF S
  <1>2. s \in [1 .. n -> Seq(S)]
    BY <1>1 DEF ArePartsOf
  <1> DEFINE f == FlattenSeq(s)
  <1>3. /\ f \in Seq(S) /\ Len(f) = Before(size, n + 1)
        /\ \A p \in 1 .. n : \A j \in 1 .. size[p] :
             /\ Before(size, p) + j \in 1 .. Len(f)
             /\ f[Before(size, p) + j] = s[p][j]
    <2>1. \A p \in 1 .. n : Len(s[p]) = size[p]
      BY <1>1
    <2>2. n \in Nat /\ size \in [1 .. n -> Nat]
      OBVIOUS
    <2> QED BY <1>2, <2>1, <2>2, FlattenParts, ZenonT(60)
  <1> HIDE DEF f
  <1>4. DOMAIN f = 1 .. Len(f)
    BY <1>3, LenProperties
  <1> QED BY <1>3, <1>4 DEF f

-----------------------------------------------------------------------------
(***************************************************************************)
(* A matrix in sixteen bits, and one in Q8_0.                              *)
(***************************************************************************)
In16(m) ==
  /\ m.f16 = FlattenSeq([p \in 1 .. Tensors |-> Halves(p)])
  /\ m.segs = <<>> /\ m.is_q8 = FALSE
  /\ m.bf16 = (\A p \in 1 .. Tensors : Dtype(p) = "BF16")
Matrix16 == In16(w)

\* Either all tensors are bfloat16 or none is.
LEMMA Uniform16 ==
  ASSUME Sound(setup), NEW p \in 1 .. Tensors
  PROVE  (Enc(p) = "BF16") = (\A q \in 1 .. Tensors : Dtype(q) = "BF16")
  <1>1. DOMAIN setup.dtypes = 1 .. Tensors
    BY SetupFacts
  <1> DEFINE bf == {q \in 1 .. Tensors : Dtype(q) = "BF16"}
  <1>2. bf = {} \/ bf = 1 .. Tensors
    BY <1>1 DEF Sound, PartlyBf16, Dtype
  <1> QED BY <1>2 DEF Enc

LEMMA Read16 ==
  ASSUME Sound(setup), Matrix16, NEW p \in 1 .. Tensors, NEW e \in Nat, e < Elements(p),
         NEW off \in Nat, NEW c \in Nat, NEW k \in Nat,
         off + c * K + k = Before(ElementsOf, p) + e
  PROVE  matmul_u16(off, c, k) = Value(p, e)
  <1> DEFINE s == [q \in 1 .. Tensors |-> Halves(q)]
             x == off + c * K + k
             j == e + 1
  <1>1. /\ Before(ElementsOf, p) + j \in DOMAIN FlattenSeq(s)
        /\ FlattenSeq(s)[Before(ElementsOf, p) + j] = s[p][j]
    <2>1. \A q \in 1 .. Tensors : s[q] = [y \in 1 .. ElementsOf[q] |-> s[q][y]]
      BY SizesFacts DEF Halves
    <2>2. ArePartsOf(s, Tensors, ElementsOf)
      BY <2>1 DEF ArePartsOf
    <2>3. j \in 1 .. ElementsOf[p]
      BY SizesFacts
    <2> HIDE DEF s, j
    <2> QED BY <2>2, <2>3, SizesFacts, FlattenFunctions
  <1>2. x + 1 = Before(ElementsOf, p) + j
    <2>1. Before(ElementsOf, p) \in Nat
      <3>1. p \in 1 .. Tensors + 1
        BY SizesFacts
      <3> QED BY <3>1, SizesFacts, BeforeFacts
    <2>2. x = Before(ElementsOf, p) + e
      OBVIOUS
    <2> HIDE DEF x
    <2> QED BY <2>1, <2>2
  <1>3. s[p][j] = <<Value(p, e), Enc(p)>>
    <2>1. j \in 1 .. Elements(p) /\ j - 1 = e
      BY SizesFacts
    <2> HIDE DEF j
    <2> QED BY <2>1 DEF Halves
  <1> HIDE DEF x, j
  <1>4. Rd(w.f16, x) = <<Value(p, e), Enc(p)>>
    BY <1>1, <1>2, <1>3 DEF Rd, Matrix16, In16, s
  <1>5. <<Value(p, e), Enc(p)>> # Misread
    BY DEF Misread
  <1>6. (Enc(p) = "BF16") = w.bf16
    BY Uniform16 DEF Matrix16, In16
  <1> QED BY <1>4, <1>5, <1>6 DEF matmul_u16, x

InQ8(m) ==
  /\ m.q8 = FlattenSeq([p \in 1 .. Tensors |-> Values(p)])
  /\ m.qsc = FlattenSeq([p \in 1 .. Tensors |-> Scales(p)])
  /\ m.segs = <<>> /\ m.is_q8 = TRUE
  /\ \A p \in 1 .. Tensors : Dtype(p) = "Q8_0" /\ Whole(p)
MatrixQ8 == InQ8(w)

LEMMA ReadQ8 ==
  ASSUME Sound(setup), MatrixQ8, NEW p \in 1 .. Tensors, NEW e \in Nat, e < Elements(p)
  PROVE  LET g == Before(ElementsOf, p) + e
         IN Product8(g, g \div 32) = Value(p, e)
  <1> DEFINE g == Before(ElementsOf, p) + e
             s == [q \in 1 .. Tensors |-> Values(q)]
             t == [q \in 1 .. Tensors |-> Scales(q)]
             j == e + 1
             b == e \div 32
             i == b + 1
  <1>0. /\ Before(ElementsOf, p) \in Nat /\ Before(BlocksOf, p) \in Nat
        /\ Before(ElementsOf, p) = Before(BlocksOf, p) * 32
    <2>1. p \in 1 .. Tensors + 1
      BY SizesFacts
    <2>2. \A q \in 1 .. Tensors : ElementsOf[q] = BlocksOf[q] * 32
      <3>1. TAKE q \in 1 .. Tensors
      <3>2. Dtype(q) = "Q8_0" /\ Whole(q)
        BY DEF MatrixQ8, InQ8
      <3>3. Vals(Dtype(q)) = 32
        BY <3>2 DEF Vals, Geometry
      <3> QED BY <3>2, <3>3, WholeFacts, SizesFacts DEF BlocksOf
    <2>3. 32 \in Nat
      OBVIOUS
    <2>4. \A q \in 1 .. Tensors + 1 : Before(ElementsOf, q) = Before(BlocksOf, q) * 32
      BY <2>2, <2>3, SizesFacts, BeforeScaled
    <2>5. Before(ElementsOf, p) \in Nat
      BY <2>1, SizesFacts, BeforeFacts
    <2>6. Before(BlocksOf, p) \in Nat
      BY <2>1, SizesFacts, BeforeFacts
    <2> QED BY <2>1, <2>4, <2>5, <2>6
  <1>1. /\ Before(ElementsOf, p) + j \in DOMAIN FlattenSeq(s)
        /\ FlattenSeq(s)[Before(ElementsOf, p) + j] = s[p][j]
    <2>1. \A q \in 1 .. Tensors : s[q] = [y \in 1 .. ElementsOf[q] |-> s[q][y]]
      BY SizesFacts DEF Values
    <2>2. ArePartsOf(s, Tensors, ElementsOf)
      BY <2>1 DEF ArePartsOf
    <2>3. j \in 1 .. ElementsOf[p]
      BY SizesFacts
    <2> HIDE DEF s, j
    <2> QED BY <2>2, <2>3, SizesFacts, FlattenFunctions
  <1>2. b \in Nat /\ b < Blocks(p) /\ g \div 32 = Before(BlocksOf, p) + b
    <2>1. Elements(p) = Blocks(p) * 32 /\ Blocks(p) \in Nat
      <3>1. Dtype(p) = "Q8_0" /\ Whole(p)
        BY DEF MatrixQ8, InQ8
      <3>2. Vals(Dtype(p)) = 32
        BY <3>1 DEF Vals, Geometry
      <3> QED BY <3>1, <3>2, WholeFacts
    <2> QED BY <1>0, <2>1
  <1>3. /\ Before(BlocksOf, p) + i \in DOMAIN FlattenSeq(t)
        /\ FlattenSeq(t)[Before(BlocksOf, p) + i] = t[p][i]
    <2>1. \A q \in 1 .. Tensors : t[q] = [y \in 1 .. BlocksOf[q] |-> t[q][y]]
      BY DEF Scales, BlocksOf
    <2>2. ArePartsOf(t, Tensors, BlocksOf)
      BY <2>1 DEF ArePartsOf
    <2>3. i \in 1 .. BlocksOf[p]
      <3> HIDE DEF b
      <3> QED BY <1>2, TensorFacts DEF BlocksOf
    <2> HIDE DEF t, i
    <2> QED BY <2>2, <2>3, SizesFacts, FlattenFunctions
  <1>4. s[p][j] = Value(p, e)
    <2>1. j \in 1 .. Elements(p) /\ j - 1 = e
      BY SizesFacts
    <2> HIDE DEF j
    <2> QED BY <2>1 DEF Values
  <1>5. t[p][i] = <<p, b>>
    <2>1. i \in 1 .. Blocks(p) /\ i - 1 = b
      <3> HIDE DEF b
      <3> QED BY <1>2, TensorFacts
    <2> HIDE DEF i
    <2> QED BY <2>1 DEF Scales
  <1>6. g + 1 = Before(ElementsOf, p) + j /\ (g \div 32) + 1 = Before(BlocksOf, p) + i
    <2>1. g + 1 = Before(ElementsOf, p) + j
      BY <1>0
    <2> HIDE DEF g, b
    <2>2. (g \div 32) + 1 = Before(BlocksOf, p) + i
      BY <1>0, <1>2
    <2> QED BY <2>1, <2>2
  <1> HIDE DEF g, i, j, s, t
  <1>7. Rd(w.q8, g) = Value(p, e)
    BY <1>1, <1>4, <1>6 DEF Rd, MatrixQ8, InQ8, s
  <1>8. Rd(w.qsc, g \div 32) = <<p, b>>
    BY <1>3, <1>5, <1>6 DEF Rd, MatrixQ8, InQ8, t
  <1>9. Value(p, e) # Misread /\ <<p, b>> # Misread
    BY DEF Misread, Value
  <1>10. <<p, b>> = <<Value(p, e)[1], Value(p, e)[2] \div 32>>
    BY DEF Value
  <1>11. Product8(g, g \div 32) = Value(p, e)
    BY <1>7, <1>8, <1>9, <1>10 DEF Product8
  <1> QED BY <1>11 DEF g

\* Every Q8_0 kernel takes a value and the scale of its block: the Vulkan
\* kernel for few rows in the first slice of a matrix only.
LEMMA Kernels8 ==
  ASSUME K \in Nat \ {0}, K % 32 = 0, NEW off \in Nat, off % 32 = 0, NEW c \in Nat, NEW k \in Nat
  PROVE  LET g == off + c * K + k
         IN /\ matmul_q8_kernel(off, c, k) = Product8(g, g \div 32)
            /\ q8_gemv_kernel(off, c, k) = Product8(g, g \div 32)
            /\ q8_tile64_dot4_kernel(off, c, k) = Product8(g, g \div 32)
            /\ off = 0 => matmul_q8_gemv(off, c, k) = Product8(g, g \div 32)
  <1> DEFINE g == off + c * K + k
             m == K \div 32
             v == off \div 32
             u == c * m
  <1>1. m \in Nat /\ K = m * 32 /\ v \in Nat /\ off = v * 32
    <2>1. 32 \in Nat \ {0} /\ K \in Nat
      OBVIOUS
    <2> QED BY <2>1, DivMultiple
  <1> HIDE DEF m, v
  <1>2. u \in Nat /\ c * K = 32 * u /\ c * K \in Nat
    BY <1>1
  <1> DEFINE x == c * K
  <1>3. x \in Nat /\ x = 32 * u /\ g = off + x + k
    BY <1>2
  <1> HIDE DEF x, u, g
  <1>4. g = 32 * v + 32 * u + k /\ g \div 32 = v + u + (k \div 32) /\ u \in Nat /\ g \in Nat
    BY <1>1, <1>2, <1>3
  <1>5. (x + k) \div 32 = u + (k \div 32)
    BY <1>2, <1>3
  <1>6. matmul_q8_kernel(off, c, k) = Product8(g, g \div 32)
    <2>1. off + x + k = g /\ v + ((x + k) \div 32) = g \div 32
      BY <1>1, <1>3, <1>4, <1>5
    <2> QED BY <2>1 DEF matmul_q8_kernel, x, v
  <1>7. q8_gemv_kernel(off, c, k) = Product8(g, g \div 32)
    <2> DEFINE i == k \div 128
               lane == (k % 128) \div 4
    <2>1. 4 * (i * 32 + lane) + (k % 4) = k
      OBVIOUS
    <2>2. i * 4 + (lane \div 8) = k \div 32
      OBVIOUS
    <2>3. 4 * (i * 32 + lane) \in Nat /\ k % 4 \in Nat /\ i * 4 \in Nat /\ lane \div 8 \in Nat
      OBVIOUS
    <2> DEFINE a == 4 * (i * 32 + lane)
               b == i * 4
               d == lane \div 8
               f == k % 4
    <2>4. a \in Nat /\ b \in Nat /\ d \in Nat /\ f \in Nat /\ a + f = k /\ b + d = k \div 32
      BY <2>1, <2>2, <2>3
    <2>5. q8_gemv_kernel(off, c, k) = Product8(off + x + a + f, v + u + b + d)
      BY DEF q8_gemv_kernel, x, u, v, m
    <2> HIDE DEF a, b, d, f, i, lane
    <2>6. off + x + a + f = g /\ v + u + b + d = g \div 32
      BY <1>1, <1>3, <1>4, <2>4
    <2> QED BY <2>5, <2>6
  <1>8. q8_tile64_dot4_kernel(off, c, k) = Product8(g, g \div 32)
    <2> DEFINE kt == k \div 16
               a == kt * 16
               f == k % 16
               d == kt \div 2
    <2>1. a \in Nat /\ f \in Nat /\ d \in Nat /\ a + f = k /\ d = k \div 32
      OBVIOUS
    <2>2. q8_tile64_dot4_kernel(off, c, k) = Product8(off + x + a + f, v + u + d)
      BY DEF q8_tile64_dot4_kernel, x, u, v, m
    <2> HIDE DEF kt, a, f, d
    <2>3. off + x + a + f = g /\ v + u + d = g \div 32
      BY <1>1, <1>3, <1>4, <2>1
    <2> QED BY <2>2, <2>3
  <1>9. ASSUME off = 0
        PROVE  matmul_q8_gemv(off, c, k) = Product8(g, g \div 32)
    <2> DEFINE y == k \div 32
               a == (x + y * 32) \div 2
               b == (k % 32) \div 2
               f == k % 2
    <2>1. y \in Nat /\ a \in Nat /\ b \in Nat /\ f \in Nat /\ 2 * (a + b) + f = x + k
      BY <1>2, <1>3
    <2>2. matmul_q8_gemv(off, c, k) = Product8(off + 2 * (a + b) + f, 2 * v + u + y)
      BY DEF matmul_q8_gemv, x, u, v, m
    <2>3. v = 0 /\ v + u + y = g \div 32
      BY <1>1, <1>4, <1>9
    <2> HIDE DEF y, a, b, f
    <2>4. off + 2 * (a + b) + f = g /\ 2 * v + u + y = g \div 32
      BY <1>1, <1>3, <1>4, <1>9, <2>1, <2>3
    <2> QED BY <2>2, <2>4
  <1> QED BY <1>6, <1>7, <1>8, <1>9 DEF g, x

LEMMA Multiply8 ==
  ASSUME Sound(setup), MatrixQ8, NEW p \in 1 .. Tensors, NEW e \in Nat, e < Elements(p),
         NEW off \in Nat, off % 32 = 0, NEW n, NEW c \in Nat, NEW k \in Nat,
         off + c * K + k = Before(ElementsOf, p) + e
  PROVE  /\ matmul_q8_kernel(off, c, k) = Value(p, e)
         /\ \/ off = 0 \/ setup.engine = "hip" \/ setup.batch > 4 \/ ~ (Up(n, 16) >= Q8GemvGroups)
            => matmul_q8(off, n, c, k) = Value(p, e)
  <1>1. K \in Nat \ {0} /\ K % 32 = 0
    <2>1. Dtype(p) = "Q8_0"
      BY DEF MatrixQ8, InQ8
    <2> QED BY <2>1, TensorFacts, SetupFacts
  <1> DEFINE g == off + c * K + k
  <1>2. Product8(g, g \div 32) = Value(p, e)
    BY ReadQ8
  <1>3. /\ matmul_q8_kernel(off, c, k) = Product8(g, g \div 32)
        /\ q8_gemv_kernel(off, c, k) = Product8(g, g \div 32)
        /\ q8_tile64_dot4_kernel(off, c, k) = Product8(g, g \div 32)
        /\ off = 0 => matmul_q8_gemv(off, c, k) = Product8(g, g \div 32)
    BY <1>1, Kernels8
  <1> HIDE DEF g
  <1>4. ASSUME setup.batch > 4 PROVE ~ (setup.batch <= 4)
    BY <1>4 DEF Sound, WellFormed
  <1> QED BY <1>2, <1>3, <1>4 DEF matmul_q8

-----------------------------------------------------------------------------
(***************************************************************************)
(* A matrix kept in blocks: where a block starts, in bytes.                *)
(***************************************************************************)
LEMMA BeforeGrows ==
  ASSUME NEW n \in Nat, NEW size \in [1 .. n -> Nat \ {0}], NEW p \in 1 .. n + 1, NEW q \in 1 .. n + 1,
         p < q
  PROVE  Before(size, p) < Before(size, q)
  <1>0. size \in [1 .. n -> Nat]
    OBVIOUS
  <1> DEFINE odd == {r \in 1 .. n + 1 : p < r /\ ~ (Before(size, p) < Before(size, r))}
  <1>1. SUFFICES ASSUME odd # {} PROVE FALSE
    OBVIOUS
  <1>2. odd \in SUBSET Nat
    OBVIOUS
  <1>3. PICK r \in odd : \A t \in odd : r <= t
    <2> HIDE DEF odd
    <2> QED BY <1>1, <1>2, LeastExists
  <1> DEFINE t == r - 1
  <1>4. t \in 1 .. n /\ t \in 1 .. n + 1 /\ t < r /\ t + 1 = r /\ p <= t
    BY <1>3
  <1> HIDE DEF t
  <1>5. Before(size, r) = Before(size, t) + size[t] /\ size[t] \in Nat \ {0}
    BY <1>0, <1>4, BeforeFacts
  <1>6. Before(size, t) \in Nat /\ Before(size, p) \in Nat
    BY <1>0, <1>4, BeforeFacts
  <1>7. p = t \/ Before(size, p) < Before(size, t)
    <2>1. t \notin odd
      BY <1>3, <1>4
    <2> QED BY <1>4, <2>1
  <1>8. Before(size, p) < Before(size, r)
    BY <1>5, <1>6, <1>7
  <1> QED BY <1>3, <1>8

LEMMA BeforeUpTo ==
  ASSUME NEW n \in Nat, NEW size \in [1 .. n -> Nat], NEW p \in 1 .. n + 1
  PROVE  Before(size, p) <= Before(size, n + 1)
  <1> DEFINE less == {r \in 1 .. n + 1 : p <= r /\ Before(size, r) < Before(size, p)}
  <1>1. \A r \in 1 .. n + 1 : Before(size, r) \in Nat
    BY BeforeFacts
  <1>2. n + 1 \in 1 .. n + 1 /\ p <= n + 1
    OBVIOUS
  <1>3. SUFFICES ASSUME less # {} PROVE FALSE
    <2>1. n + 1 \notin less => ~ (Before(size, n + 1) < Before(size, p))
      BY <1>2
    <2> HIDE DEF less
    <2> QED BY <1>1, <1>2, <2>1
  <1>4. less \in SUBSET Nat
    OBVIOUS
  <1>5. PICK r \in less : \A t \in less : r <= t
    <2> HIDE DEF less
    <2> QED BY <1>3, <1>4, LeastExists
  <1>6. r # p
    BY <1>1, <1>5
  <1> DEFINE t == r - 1
  <1>7. t \in 1 .. n /\ t \in 1 .. n + 1 /\ t < r /\ t + 1 = r /\ p <= t
    BY <1>5, <1>6
  <1> HIDE DEF t
  <1>8. ~ (Before(size, t) < Before(size, p))
    BY <1>5, <1>7
  <1>9. Before(size, r) = Before(size, t) + size[t] /\ size[t] \in Nat
    BY <1>7, BeforeFacts
  <1>10. Before(size, t) \in Nat /\ Before(size, p) \in Nat
    BY <1>1, <1>7
  <1> QED BY <1>5, <1>8, <1>9, <1>10

\* Groups of equal sizes: counts[p] things of size each[p].
Grouped(n, counts, each, sizes) ==
  /\ counts \in [1 .. n -> Nat] /\ each \in [1 .. n -> Nat]
  /\ sizes \in [1 .. Before(counts, n + 1) -> Nat]
  /\ \A p \in 1 .. n : \A j \in 1 .. counts[p] :
       /\ Before(counts, p) + j \in 1 .. Before(counts, n + 1)
       /\ sizes[Before(counts, p) + j] = each[p]

LEMMA InGroup ==
  ASSUME NEW n \in Nat, NEW counts, NEW each, NEW sizes, Grouped(n, counts, each, sizes),
         NEW p \in 1 .. n, NEW b \in 0 .. counts[p]
  PROVE  Before(sizes, Before(counts, p) + 1 + b)
           = Before(sizes, Before(counts, p) + 1) + b * each[p]
  <1> DEFINE base == Before(counts, p)
             Good(a) == Before(sizes, base + 1 + a) = Before(sizes, base + 1) + a * each[p]
             odd == {a \in 0 .. counts[p] : ~Good(a)}
  <1>1. counts \in [1 .. n -> Nat] /\ each[p] \in Nat /\ counts[p] \in Nat
    BY DEF Grouped
  <1>2. base \in Nat /\ Before(counts, n + 1) \in Nat
    BY <1>1, BeforeFacts
  <1>3. sizes \in [1 .. Before(counts, n + 1) -> Nat]
    BY DEF Grouped
  <1>4. \A a \in 1 .. counts[p] : /\ base + a \in 1 .. Before(counts, n + 1)
                                  /\ sizes[base + a] = each[p]
    BY DEF Grouped
  <1> HIDE DEF base
  <1>5. \A a \in 0 .. counts[p] : Before(sizes, base + 1 + a) \in Nat
    <2>1. TAKE a \in 0 .. counts[p]
    <2>2. base + 1 + a \in 1 .. Before(counts, n + 1) + 1
      <3>1. CASE a = 0
        <4>1. base <= Before(counts, n + 1)
          <5>1. p \in 1 .. n + 1
            OBVIOUS
          <5> QED BY <1>1, <5>1, BeforeUpTo DEF base
        <4> QED BY <1>2, <3>1, <4>1
      <3>2. CASE a # 0
        <4>1. base + a \in 1 .. Before(counts, n + 1)
          BY <1>1, <1>4, <3>2
        <4> QED BY <1>2, <4>1
      <3> QED BY <3>1, <3>2
    <2> QED BY <1>2, <1>3, <2>2, BeforeFacts
  <1>6. odd = {}
    <2>1. SUFFICES ASSUME odd # {} PROVE FALSE
      OBVIOUS
    <2>2. odd \in SUBSET Nat
      OBVIOUS
    <2>3. PICK a \in odd : \A t \in odd : a <= t
      <3> HIDE DEF odd
      <3> QED BY <2>1, <2>2, LeastExists
    <2>4. a # 0
      <3>1. base + 1 + 0 = base + 1 /\ 0 * each[p] = 0 /\ 0 \in 0 .. counts[p]
        BY <1>1, <1>2
      <3>2. Before(sizes, base + 1) \in Nat
        BY <1>5, <3>1
      <3>3. Good(0)
        BY <3>1, <3>2
      <3> HIDE DEF Good
      <3> QED BY <2>3, <3>3
    <2> DEFINE t == a - 1
    <2>5. t \in 0 .. counts[p] /\ a \in 1 .. counts[p] /\ t < a /\ t + 1 = a
      <3>1. a \in 0 .. counts[p]
        BY <2>3
      <3> QED BY <1>1, <2>4, <3>1
    <2> HIDE DEF t
    <2>6. Good(t)
      <3> HIDE DEF Good
      <3> QED BY <2>3, <2>5
    <2>7. Before(sizes, base + 1 + a) = Before(sizes, base + 1 + t) + each[p]
      <3>1. base + a \in 1 .. Before(counts, n + 1) /\ sizes[base + a] = each[p]
        BY <1>4, <2>5
      <3>2. base + 1 + a = (base + a) + 1 /\ base + 1 + t = base + a
        BY <1>2, <2>5
      <3>3. Before(sizes, (base + a) + 1) = Before(sizes, base + a) + sizes[base + a]
        BY <1>2, <1>3, <3>1, BeforeFacts
      <3> QED BY <3>1, <3>2, <3>3
    <2>8. t * each[p] + each[p] = a * each[p] /\ t * each[p] \in Nat
      <3>1. \A d \in Nat : t * d + d = (t + 1) * d /\ t * d \in Nat
        BY <2>5
      <3> QED BY <1>1, <2>5, <3>1
    <2>9. Before(sizes, base + 1) \in Nat
      <3>1. 0 \in 0 .. counts[p] /\ base + 1 + 0 = base + 1
        BY <1>1, <1>2
      <3> QED BY <1>5, <3>1
    <2>10. Good(a)
      <3> DEFINE y == t * each[p]
                 z == a * each[p]
                 h == Before(sizes, base + 1)
      <3>1. y \in Nat /\ h \in Nat /\ each[p] \in Nat /\ z = y + each[p]
        BY <1>1, <2>8, <2>9
      <3>2. Before(sizes, base + 1 + a) = (h + y) + each[p]
        BY <2>6, <2>7
      <3> HIDE DEF y, z, h
      <3>3. (h + y) + each[p] = h + z
        BY <3>1
      <3> QED BY <3>2, <3>3 DEF h, z
    <2> HIDE DEF Good
    <2> QED BY <2>3, <2>10
  <1>7. Good(b)
    <2> HIDE DEF Good
    <2> QED BY <1>6
  <1> QED BY <1>7 DEF base

LEMMA GroupStarts ==
  ASSUME NEW n \in Nat, NEW counts, NEW each, NEW sizes, Grouped(n, counts, each, sizes),
         NEW big \in [1 .. n -> Nat], \A p \in 1 .. n : big[p] = counts[p] * each[p]
  PROVE  \A p \in 1 .. n : \A b \in 0 .. counts[p] :
           Before(sizes, Before(counts, p) + 1 + b) = Before(big, p) + b * each[p]
  <1> DEFINE Good(p) == Before(sizes, Before(counts, p) + 1) = Before(big, p)
             odd == {p \in 1 .. n : ~Good(p)}
  <1>1. counts \in [1 .. n -> Nat] /\ each \in [1 .. n -> Nat]
        /\ sizes \in [1 .. Before(counts, n + 1) -> Nat] /\ Before(counts, n + 1) \in Nat
    <2>1. counts \in [1 .. n -> Nat] /\ n + 1 \in 1 .. n + 1
      BY DEF Grouped
    <2>2. Before(counts, n + 1) \in Nat
      BY <2>1, BeforeFacts
    <2> QED BY <2>2 DEF Grouped
  <1>2. odd = {}
    <2>1. SUFFICES ASSUME odd # {} PROVE FALSE
      OBVIOUS
    <2>2. odd \in SUBSET Nat
      OBVIOUS
    <2>3. PICK p \in odd : \A t \in odd : p <= t
      <3> HIDE DEF odd
      <3> QED BY <2>1, <2>2, LeastExists
    <2>4. p # 1
      <3>1. Before(counts, 1) = 0 /\ Before(big, 1) = 0
        BY <1>1, BeforeFacts
      <3>2. Before(sizes, 1) = 0
        BY <1>1, BeforeFacts
      <3>3. Good(1)
        BY <3>1, <3>2
      <3> HIDE DEF Good
      <3> QED BY <2>3, <3>3
    <2> DEFINE t == p - 1
    <2>5. t \in 1 .. n /\ p \in 1 .. n /\ t < p /\ t + 1 = p
      BY <2>3, <2>4
    <2> HIDE DEF t
    <2>6. Good(t)
      <3> HIDE DEF Good
      <3> QED BY <2>3, <2>5
    <2>7. counts[t] \in 0 .. counts[t] /\ counts[t] \in Nat
      BY <1>1, <2>5
    <2>8. Before(sizes, Before(counts, t) + 1 + counts[t])
            = Before(sizes, Before(counts, t) + 1) + counts[t] * each[t]
      BY <2>5, <2>7, InGroup
    <2>9. Before(counts, t) \in Nat /\ Before(counts, p) = Before(counts, t) + counts[t]
      <3>1. t \in 1 .. n + 1
        BY <2>5
      <3> QED BY <1>1, <2>5, <3>1, BeforeFacts
    <2>10. Before(big, p) = Before(big, t) + big[t]
      BY <2>5, BeforeFacts
    <2>11. Before(counts, t) + 1 + counts[t] = Before(counts, p) + 1
      BY <2>7, <2>9
    <2>12. big[t] = counts[t] * each[t]
      BY <2>5
    <2>13. Good(p)
      BY <2>6, <2>8, <2>10, <2>11, <2>12
    <2> HIDE DEF Good
    <2> QED BY <2>3, <2>13
  <1>3. ASSUME NEW p \in 1 .. n, NEW b \in 0 .. counts[p]
        PROVE  Before(sizes, Before(counts, p) + 1 + b) = Before(big, p) + b * each[p]
    <2>1. Before(sizes, Before(counts, p) + 1 + b)
            = Before(sizes, Before(counts, p) + 1) + b * each[p]
      BY InGroup
    <2>2. Good(p)
      BY <1>2
    <2> QED BY <2>1, <2>2
  <1> QED BY <1>3

AreSizesOf(sizes, blocks, m) ==
  /\ Len(blocks) = m /\ sizes \in [1 .. m -> Nat \ {0}]
  /\ \A x \in 1 .. m : sizes[x] = Bytes(blocks[x][3])

LEMMA AtFacts ==
  ASSUME NEW m \in Nat, NEW blocks, NEW sizes, AreSizesOf(sizes, blocks, m), NEW n \in 1 .. m
  PROVE  Before(sizes, n) \in DOMAIN At(blocks) /\ At(blocks)[Before(sizes, n)] = blocks[n]
  <1>0. /\ Len(blocks) = m /\ sizes \in [1 .. m -> Nat \ {0}]
        /\ \A x \in 1 .. m : sizes[x] = Bytes(blocks[x][3])
    BY DEF AreSizesOf
  <1>1. \A y \in 1 .. m : ByteAt(blocks, y - 1) = Before(sizes, y)
    <2>1. ASSUME NEW y \in 1 .. m
          PROVE  ByteAt(blocks, y - 1) = Before(sizes, y)
      <3>1. [x \in 1 .. y - 1 |-> Bytes(blocks[x][3])] = [x \in 1 .. y - 1 |-> sizes[x]]
        <4>1. \A x \in 1 .. y - 1 : x \in 1 .. m
          OBVIOUS
        <4> QED BY <1>0, <4>1
      <3> QED BY <3>1 DEF ByteAt, Before
    <2> QED BY <2>1
  <1> DEFINE off == Before(sizes, n)
             y == CHOOSE x \in 1 .. Len(blocks) : ByteAt(blocks, x - 1) = off
  <1>2. y \in 1 .. m /\ Before(sizes, y) = off
    <2>1. n \in 1 .. Len(blocks) /\ ByteAt(blocks, n - 1) = off
      BY <1>0, <1>1
    <2>2. y \in 1 .. Len(blocks) /\ ByteAt(blocks, y - 1) = off
      <3> HIDE DEF off
      <3> QED BY <2>1
    <2> HIDE DEF off, y
    <2> QED BY <1>0, <1>1, <2>2
  <1>3. off \in {ByteAt(blocks, x - 1) : x \in 1 .. Len(blocks)}
    BY <1>0, <1>1
  <1>4. off \in DOMAIN At(blocks) /\ At(blocks)[off] = blocks[y]
    <2> HIDE DEF off
    <2> QED BY <1>3 DEF At, y
  <1>5. y = n
    <2> HIDE DEF y
    <2>1. y \in 1 .. m + 1 /\ n \in 1 .. m + 1 /\ sizes \in [1 .. m -> Nat]
      BY <1>0, <1>2
    <2>2. off \in Nat
      BY <2>1, BeforeFacts
    <2>3. ~ (y < n)
      <3>1. ASSUME y < n PROVE Before(sizes, y) < Before(sizes, n)
        BY <1>0, <2>1, <3>1, BeforeGrows
      <3> QED BY <1>2, <2>2, <3>1
    <2>4. ~ (n < y)
      <3>1. ASSUME n < y PROVE Before(sizes, n) < Before(sizes, y)
        BY <1>0, <2>1, <3>1, BeforeGrows
      <3> QED BY <1>2, <2>2, <3>1
    <2> QED BY <2>3, <2>4, <1>2
  <1> QED BY <1>4, <1>5

BytesOf == [p \in 1 .. Tensors |-> Blocks(p) * Bytes(Dtype(p))]

InQk(m) ==
  /\ m.qk = At(FlattenSeq([p \in 1 .. Tensors |-> RawBlocks(p)]))
  /\ m.segs = [p \in 1 .. Tensors |-> [kind |-> Dtype(p), byte_off |-> Before(BytesOf, p),
                                       elem_off |-> Before(ElementsOf, p)]]
  /\ \A p \in 1 .. Tensors : /\ Whole(p) /\ Dtype(p) \in PackedKinds
                             /\ setup.engine = "hip" => Dtype(p) \notin {"Q4_0", "Q2_K", "Q4_K"}
  /\ setup.engine = "vulkan" => setup.batch > 4
  /\ setup.group \in {"single", "packed", "qkv", "gate_up"}
  /\ setup.group = "gate_up" => \A p \in 1 .. Tensors : Dtype(p) = Dtype(1)
MatrixQk == InQk(w)

\* Where block b of tensor p is in the fused stream.
LEMMA BlockAt ==
  ASSUME Sound(setup), MatrixQk, NEW p \in 1 .. Tensors, NEW b \in Nat, b < Blocks(p)
  PROVE  LET byte == Before(BytesOf, p) + b * Bytes(Dtype(p))
         IN byte \in DOMAIN w.qk /\ w.qk[byte] = <<p, b, Dtype(p)>>
  <1> DEFINE s == [q \in 1 .. Tensors |-> RawBlocks(q)]
             all == FlattenSeq(s)
             m == Before(BlocksOf, Tensors + 1)
             each == [q \in 1 .. Tensors |-> Bytes(Dtype(q))]
             sizes == [x \in 1 .. m |-> Bytes(all[x][3])]
             n == Before(BlocksOf, p) + 1 + b
  <1>1. /\ Len(all) = m
        /\ \A q \in 1 .. Tensors : \A j \in 1 .. BlocksOf[q] :
             /\ Before(BlocksOf, q) + j \in DOMAIN all
             /\ all[Before(BlocksOf, q) + j] = s[q][j]
        /\ \E S : all \in Seq(S)
    <2>1. ArePartsOf(s, Tensors, BlocksOf)
      BY DEF ArePartsOf, BlocksOf, RawBlocks
    <2>2. Tensors \in Nat /\ BlocksOf \in [1 .. Tensors -> Nat]
      BY SizesFacts
    <2> HIDE DEF s
    <2>3. \E S : all \in Seq(S)
      BY <2>1, <2>2, FlattenFunctions
    <2>4. Len(all) = m
      BY <2>1, <2>2, FlattenFunctions
    <2>5. \A q \in 1 .. Tensors : \A j \in 1 .. BlocksOf[q] :
             /\ Before(BlocksOf, q) + j \in DOMAIN all
             /\ all[Before(BlocksOf, q) + j] = s[q][j]
      BY <2>1, <2>2, FlattenFunctions
    <2> HIDE DEF all, m
    <2> QED BY <2>3, <2>4, <2>5
  <1>2. \A q \in 1 .. Tensors : \A j \in 1 .. BlocksOf[q] :
          /\ Before(BlocksOf, q) + j \in DOMAIN all
          /\ all[Before(BlocksOf, q) + j] = <<q, j - 1, Dtype(q)>>
    <2>1. \A q \in 1 .. Tensors : \A j \in 1 .. BlocksOf[q] : s[q][j] = <<q, j - 1, Dtype(q)>>
      BY DEF RawBlocks, BlocksOf
    <2> HIDE DEF s, all
    <2> QED BY <1>1, <2>1
  <1>3. DOMAIN all = 1 .. m /\ m \in Nat
    <2>1. Tensors + 1 \in 1 .. Tensors + 1
      BY SizesFacts
    <2>2. m \in Nat
      BY <2>1, SizesFacts, BeforeFacts
    <2> HIDE DEF all, m
    <2> QED BY <1>1, <2>2, LenProperties
  <1> HIDE DEF all, s, m
  <1>4. \A x \in 1 .. m : \E q \in 1 .. Tensors : all[x][3] = Dtype(q)
    <2>1. ASSUME NEW x \in 1 .. m
          PROVE  \E q \in 1 .. Tensors : all[x][3] = Dtype(q)
      <3> DEFINE r == x - 1
      <3>1. r \in Nat /\ r < m /\ x = r + 1
        BY <1>3
      <3> HIDE DEF r
      <3>2. PICK q \in 1 .. Tensors : Before(BlocksOf, q) <= r /\ r < Before(BlocksOf, q) + BlocksOf[q]
        BY <3>1, SizesFacts, PartOf DEF m
      <3> DEFINE j == r - Before(BlocksOf, q) + 1
      <3>3. j \in 1 .. BlocksOf[q] /\ Before(BlocksOf, q) + j = x
        <4>1. q \in 1 .. Tensors + 1
          BY SizesFacts
        <4>2. Before(BlocksOf, q) \in Nat /\ BlocksOf[q] \in Nat
          BY <4>1, SizesFacts, BeforeFacts
        <4> QED BY <3>1, <3>2, <4>2
      <3> HIDE DEF j
      <3>4. all[x] = <<q, j - 1, Dtype(q)>>
        BY <1>2, <3>3
      <3> QED BY <3>4
    <2> QED BY <2>1
  <1>5. sizes \in [1 .. m -> Nat \ {0}] /\ each \in [1 .. Tensors -> Nat]
    <2>1. \A q \in 1 .. Tensors : Bytes(Dtype(q)) \in Nat \ {0}
      BY TensorFacts, GeometryFacts
    <2> QED BY <1>4, <2>1
  <1>6. Grouped(Tensors, BlocksOf, each, sizes)
    <2>1. ASSUME NEW q \in 1 .. Tensors, NEW j \in 1 .. BlocksOf[q]
          PROVE  /\ Before(BlocksOf, q) + j \in 1 .. m
                 /\ sizes[Before(BlocksOf, q) + j] = each[q]
      BY <1>2, <1>3
    <2>2. sizes \in [1 .. m -> Nat]
      <3> HIDE DEF sizes
      <3> QED BY <1>5
    <2> HIDE DEF sizes, each
    <2> QED BY <1>5, <2>1, <2>2, SizesFacts DEF Grouped, m
  <1>7. Before(sizes, n) = Before(BytesOf, p) + b * each[p]
    <2>1. BytesOf \in [1 .. Tensors -> Nat]
      <3>1. \A q \in 1 .. Tensors : Blocks(q) * Bytes(Dtype(q)) \in Nat
        <4>1. \A q \in 1 .. Tensors : Blocks(q) \in Nat /\ Bytes(Dtype(q)) \in Nat
          BY TensorFacts, GeometryFacts
        <4>2. \A x, y \in Nat : x * y \in Nat
          OBVIOUS
        <4> QED BY <4>1, <4>2
      <3> QED BY <3>1 DEF BytesOf
    <2>2. \A q \in 1 .. Tensors : BytesOf[q] = BlocksOf[q] * each[q]
      BY DEF BytesOf, BlocksOf
    <2>3. b \in 0 .. BlocksOf[p]
      BY TensorFacts DEF BlocksOf
    <2>4. Tensors \in Nat
      BY SizesFacts
    <2> HIDE DEF sizes, each
    <2>5. \A q \in 1 .. Tensors : \A a \in 0 .. BlocksOf[q] :
            Before(sizes, Before(BlocksOf, q) + 1 + a) = Before(BytesOf, q) + a * each[q]
      BY <1>6, <2>1, <2>2, <2>4, GroupStarts
    <2> QED BY <2>3, <2>5
  <1>8. n = Before(BlocksOf, p) + (b + 1) /\ b + 1 \in 1 .. BlocksOf[p] /\ (b + 1) - 1 = b
    <2>1. p \in 1 .. Tensors + 1
      BY SizesFacts
    <2>2. Before(BlocksOf, p) \in Nat
      BY <2>1, SizesFacts, BeforeFacts
    <2>3. Blocks(p) \in Nat /\ BlocksOf[p] = Blocks(p)
      BY TensorFacts DEF BlocksOf
    <2> QED BY <2>2, <2>3
  <1>9. n \in 1 .. m /\ all[n] = <<p, b, Dtype(p)>>
    <2> HIDE DEF n
    <2> QED BY <1>2, <1>3, <1>8
  <1>10. AreSizesOf(sizes, all, m)
    <2>1. \A x \in 1 .. m : sizes[x] = Bytes(all[x][3])
      OBVIOUS
    <2> HIDE DEF sizes
    <2> QED BY <1>1, <1>5, <2>1 DEF AreSizesOf
  <1>11. each[p] = Bytes(Dtype(p))
    OBVIOUS
  <1> HIDE DEF sizes, each, n
  <1>12. Before(sizes, n) \in DOMAIN At(all) /\ At(all)[Before(sizes, n)] = all[n]
    BY <1>3, <1>9, <1>10, AtFacts
  <1> QED BY <1>7, <1>9, <1>11, <1>12 DEF MatrixQk, InQk, all, s

LEMMA ReadBlock ==
  ASSUME Sound(setup), MatrixQk, NEW p \in 1 .. Tensors, NEW q \in Nat, q < Blocks(p),
         NEW i \in Nat, i < Vals(Dtype(p)), NEW base, NEW b,
         base + b * Bytes(Dtype(p)) = Before(BytesOf, p) + q * Bytes(Dtype(p))
  PROVE  BlockValue(base, Dtype(p), b, i) = Value(p, q * Vals(Dtype(p)) + i)
  <1> DEFINE byte == Before(BytesOf, p) + q * Bytes(Dtype(p))
             vals == Vals(Dtype(p))
             e == q * vals + i
  <1>1. byte \in DOMAIN w.qk /\ w.qk[byte] = <<p, q, Dtype(p)>>
    BY BlockAt
  <1>2. vals \in Nat \ {0} /\ e % vals = i
    <2>1. vals \in Nat \ {0}
      BY TensorFacts, GeometryFacts
    <2> HIDE DEF vals
    <2>2. i < vals
      BY DEF vals
    <2> QED BY <2>1, <2>2, JoinPosition
  <1>3. Kernels[setup.engine][Dtype(p)][i] = Means[Dtype(p)][i]
    <2>1. Dtype(p) \in PackedKinds /\ (setup.engine = "hip" => Dtype(p) \notin {"Q4_0", "Q2_K", "Q4_K"})
      BY DEF MatrixQk, InQk
    <2>2. setup.engine \in {"hip", "vulkan"}
      BY SetupFacts
    <2>3. i \in 0 .. Vals(Dtype(p)) - 1
      BY <1>2
    <2> QED BY <2>1, <2>2, <2>3, KernelsAgree
  <1>4. BlockValue(base, Dtype(p), b, i)
          = <<p, q * vals + i, Kernels[setup.engine][Dtype(p)][i]>>
    <2>1. base + b * Bytes(Dtype(p)) = byte
      OBVIOUS
    <2> HIDE DEF byte
    <2> QED BY <1>1, <2>1 DEF BlockValue
  <1> QED BY <1>2, <1>3, <1>4 DEF Value

\* From d elements behind the start of segment s on, at distance shift of the
\* beginning of tensor p.
LEMMA ReadFrom ==
  ASSUME Sound(setup), MatrixQk, NEW s \in 1 .. Tensors, NEW p \in 1 .. Tensors, Dtype(s) = Dtype(p),
         NEW d \in Nat, d % Vals(Dtype(p)) = 0, NEW shift \in Nat, shift % Vals(Dtype(p)) = 0,
         Before(BytesOf, p)
           = Before(BytesOf, s) + (shift \div Vals(Dtype(p))) * Bytes(Dtype(p)),
         NEW e \in Nat, e < Elements(p), NEW idx \in Nat, d + idx = shift + e
  PROVE  BlockValue(Before(BytesOf, s) + (d \div Vals(Dtype(p))) * Bytes(Dtype(p)), Dtype(s),
                    idx \div Vals(Dtype(p)), idx % Vals(Dtype(p))) = Value(p, e)
  <1> DEFINE v == Vals(Dtype(p))
             size == Bytes(Dtype(p))
             D == d \div v
             H == shift \div v
             b == idx \div v
             i == idx % v
             q == e \div v
             r == e % v
             start == Before(BytesOf, s)
  <1>1. v \in Nat \ {0} /\ size \in Nat
    BY TensorFacts, GeometryFacts
  <1>2. start \in Nat
    <2>1. BytesOf \in [1 .. Tensors -> Nat]
      <3>1. \A t \in 1 .. Tensors : Blocks(t) * Bytes(Dtype(t)) \in Nat
        <4>1. \A t \in 1 .. Tensors : Blocks(t) \in Nat /\ Bytes(Dtype(t)) \in Nat
          BY TensorFacts, GeometryFacts
        <4>2. \A x, y \in Nat : x * y \in Nat
          OBVIOUS
        <4> QED BY <4>1, <4>2
      <3> QED BY <3>1 DEF BytesOf
    <2>2. s \in 1 .. Tensors + 1 /\ Tensors \in Nat
      BY SizesFacts
    <2> QED BY <2>1, <2>2, BeforeFacts
  <1>3. Elements(p) = Blocks(p) * v
    BY WholeFacts DEF MatrixQk, InQk
  <1>4. Before(BytesOf, p) = start + H * size
    OBVIOUS
  <1> HIDE DEF start
  <1>5. D \in Nat /\ d = D * v
    <2> HIDE DEF v
    <2>1. d % v = 0
      BY DEF v
    <2> QED BY <1>1, <2>1, DivMultiple
  <1>6. H \in Nat /\ shift = H * v
    <2> HIDE DEF v
    <2>1. shift % v = 0
      BY DEF v
    <2> QED BY <1>1, <2>1, DivMultiple
  <1>7. b \in Nat /\ i \in Nat /\ i < v /\ idx = b * v + i
    <2> HIDE DEF v
    <2>1. b \in Nat /\ i \in 0 .. v - 1 /\ idx = b * v + i
      BY <1>1, SplitPosition
    <2> HIDE DEF i
    <2> QED BY <1>1, <2>1
  <1>8. q \in Nat /\ q < Blocks(p) /\ r \in Nat /\ r < v /\ e = q * v + r
    <2> HIDE DEF v
    <2>1. q \in Nat /\ r \in 0 .. v - 1 /\ e = q * v + r
      BY <1>1, SplitPosition
    <2>2. q < Blocks(p)
      BY <1>1, <1>3, TensorFacts, DivBelow
    <2> HIDE DEF r
    <2> QED BY <1>1, <2>1, <2>2
  <1> HIDE DEF D, H, b, i, q, r
  <1>9. D + b = H + q /\ i = r
    <2> HIDE DEF v
    <2>1. (D + b) * v = D * v + b * v /\ (H + q) * v = H * v + q * v
      <3>1. \A x, y \in Nat : (x + y) * v = x * v + y * v
        BY <1>1
      <3> QED BY <1>5, <1>6, <1>7, <1>8, <3>1
    <2> DEFINE x == (D + b) * v
               y == (H + q) * v
               dv == D * v
               bv == b * v
               hv == H * v
               qv == q * v
    <2>2. x = dv + bv /\ y = hv + qv /\ dv \in Nat /\ bv \in Nat /\ hv \in Nat /\ qv \in Nat
      BY <1>1, <1>5, <1>6, <1>7, <1>8, <2>1
    <2>3. d = dv /\ shift = hv /\ idx = bv + i /\ e = qv + r
      BY <1>5, <1>6, <1>7, <1>8
    <2>4. x + i = y + r
      <3> HIDE DEF x, y, dv, bv, hv, qv
      <3> QED BY <1>7, <1>8, <2>2, <2>3
    <2> HIDE DEF x, y, dv, bv, hv, qv
    <2>5. ((D + b) * v + i) \div v = D + b /\ ((D + b) * v + i) % v = i
      <3>1. D + b \in Nat
        BY <1>5, <1>7
      <3>2. ASSUME NEW j \in Nat
            PROVE  (j * v + i) \div v = j /\ (j * v + i) % v = i
        BY <1>1, <1>7, JoinPosition
      <3> QED BY <3>1, <3>2, Zenon
    <2>6. ((H + q) * v + r) \div v = H + q /\ ((H + q) * v + r) % v = r
      <3>1. H + q \in Nat
        BY <1>6, <1>8
      <3>2. ASSUME NEW j \in Nat
            PROVE  (j * v + r) \div v = j /\ (j * v + r) % v = r
        BY <1>1, <1>8, JoinPosition
      <3> QED BY <3>1, <3>2, Zenon
    <2> QED BY <2>4, <2>5, <2>6 DEF x, y
  <1>10. (start + D * size) + b * size = Before(BytesOf, p) + q * size
    <2> HIDE DEF v, size
    <2>1. (D + b) * size = D * size + b * size /\ (H + q) * size = H * size + q * size
      <3>1. \A x, y \in Nat : (x + y) * size = x * size + y * size
        BY <1>1
      <3> QED BY <1>5, <1>6, <1>7, <1>8, <3>1
    <2> DEFINE ds == D * size
               bs == b * size
               hs == H * size
               qs == q * size
    <2>2. ds \in Nat /\ bs \in Nat /\ hs \in Nat /\ qs \in Nat
      BY <1>1, <1>5, <1>6, <1>7, <1>8
    <2>3. ds + bs = hs + qs
      BY <1>9, <2>1
    <2>4. Before(BytesOf, p) = start + hs
      BY <1>4
    <2> HIDE DEF ds, bs, hs, qs
    <2>5. \A u, x, y, z, t \in Nat : x + y = z + t => (u + x) + y = (u + z) + t
      OBVIOUS
    <2>6. (start + ds) + bs = (start + hs) + qs
      BY <1>2, <2>2, <2>3, <2>5
    <2>7. (start + ds) + bs = Before(BytesOf, p) + qs
      BY <2>4, <2>6
    <2> QED BY <2>7 DEF ds, bs, qs
  <1>11. BlockValue(start + D * size, Dtype(p), b, i) = Value(p, q * v + i)
    <2> DEFINE base == start + D * size
    <2>1. base + b * Bytes(Dtype(p)) = Before(BytesOf, p) + q * Bytes(Dtype(p))
      BY <1>10
    <2>2. i \in Nat /\ i < Vals(Dtype(p))
      BY <1>7
    <2> HIDE DEF base
    <2> QED BY <1>8, <2>1, <2>2, ReadBlock DEF base
  <1>12. q * v + i = e
    BY <1>8, <1>9
  <1> QED BY <1>11, <1>12 DEF start, D, b, i

LEMMA SegFacts ==
  ASSUME Sound(setup), MatrixQk, NEW s \in 1 .. Tensors, NEW d \in Nat, d < Elements(s)
  PROVE  /\ Seg(Before(ElementsOf, s) + d) = w.segs[s]
         /\ w.segs # <<>>
  <1> DEFINE off == Before(ElementsOf, s) + d
             Good(t) == /\ w.segs[t].elem_off <= off
                        /\ \A r \in DOMAIN w.segs : w.segs[r].elem_off <= off => r <= t
             t0 == CHOOSE t \in DOMAIN w.segs : Good(t)
  <1>1. /\ DOMAIN w.segs = 1 .. Tensors
        /\ \A r \in 1 .. Tensors : w.segs[r].elem_off = Before(ElementsOf, r)
    BY DEF MatrixQk, InQk
  <1>2. Tensors \in Nat /\ ElementsOf \in [1 .. Tensors -> Nat]
        /\ ElementsOf \in [1 .. Tensors -> Nat \ {0}] /\ ElementsOf[s] = Elements(s)
    BY SizesFacts, TensorFacts DEF ElementsOf
  <1>3. \A r \in 1 .. Tensors : Before(ElementsOf, r) \in Nat
    <2>1. \A r \in 1 .. Tensors : r \in 1 .. Tensors + 1
      BY <1>2
    <2> QED BY <1>2, <2>1, BeforeFacts
  <1>4. \A r \in 1 .. Tensors : Before(ElementsOf, r) <= off => r <= s
    <2>1. ASSUME NEW r \in 1 .. Tensors, r > s
          PROVE  off < Before(ElementsOf, r)
      <3>1. s + 1 \in 1 .. Tensors + 1 /\ r \in 1 .. Tensors + 1
        BY <1>2
      <3>2. Before(ElementsOf, s + 1) = Before(ElementsOf, s) + Elements(s)
        BY <1>2, BeforeFacts
      <3>3. Before(ElementsOf, s + 1) \in Nat
        BY <1>2, <3>1, BeforeFacts
      <3>4. s + 1 = r \/ s + 1 < r
        BY <1>2, <2>1
      <3>5. ASSUME s + 1 < r PROVE Before(ElementsOf, s + 1) < Before(ElementsOf, r)
        BY <1>2, <3>1, <3>5, BeforeGrows
      <3>6. Elements(s) \in Nat
        BY TensorFacts
      <3> QED BY <1>3, <3>2, <3>3, <3>4, <3>5, <3>6
    <2>2. \A r \in 1 .. Tensors : r > s \/ r <= s
      BY <1>2
    <2>3. off \in Nat
      BY <1>3
    <2> HIDE DEF off
    <2>4. \A r \in 1 .. Tensors : off < Before(ElementsOf, r) => ~ (Before(ElementsOf, r) <= off)
      BY <1>3, <2>3
    <2> QED BY <2>1, <2>2, <2>4
  <1>5. Good(s)
    <2>1. Before(ElementsOf, s) <= off
      BY <1>3
    <2> HIDE DEF off
    <2> QED BY <1>1, <1>4, <2>1
  <1>6. t0 \in 1 .. Tensors /\ Good(t0)
    <2> HIDE DEF Good
    <2> QED BY <1>1, <1>5
  <1>7. t0 = s
    <2> HIDE DEF t0, off
    <2>1. t0 <= s /\ s <= t0
      BY <1>1, <1>5, <1>6
    <2> QED BY <1>2, <1>6, <2>1
  <1>8. Seg(off) = w.segs[t0]
    BY DEF Seg
  <1>9. w.segs # <<>>
    <2>1. Len(w.segs) = Tensors /\ Tensors \in Nat \ {0}
      BY <1>1, <1>2, SetupFacts DEF MatrixQk, InQk
    <2> QED BY <2>1
  <1> QED BY <1>7, <1>8, <1>9

LEMMA SegRead ==
  ASSUME Sound(setup), MatrixQk, NEW a \in 1 .. Tensors, NEW d \in Nat, d < Elements(a),
         NEW off, off = Before(ElementsOf, a) + d, NEW n, NEW c, NEW k
  PROVE  /\ OnBoundary(off) => d % Vals(Dtype(a)) = 0
         /\ Read(off, n, c, k)
              = BlockValue(Before(BytesOf, a) + (d \div Vals(Dtype(a))) * Bytes(Dtype(a)), Dtype(a),
                           (c * K + k) \div Vals(Dtype(a)), (c * K + k) % Vals(Dtype(a)))
  <1>1. Seg(off) = w.segs[a] /\ w.segs # <<>>
    BY SegFacts
  <1>2. /\ w.segs[a].kind = Dtype(a) /\ w.segs[a].byte_off = Before(BytesOf, a)
        /\ w.segs[a].elem_off = Before(ElementsOf, a)
    BY DEF MatrixQk, InQk
  <1>3. off - Before(ElementsOf, a) = d
    <2>1. a \in 1 .. Tensors + 1
      BY SizesFacts
    <2>2. Before(ElementsOf, a) \in Nat
      BY <2>1, SizesFacts, BeforeFacts
    <2> QED BY <2>2
  <1>4. OnBoundary(off) => d % Vals(Dtype(a)) = 0
    BY <1>1, <1>2, <1>3 DEF OnBoundary
  <1> DEFINE base == Before(BytesOf, a) + (d \div Vals(Dtype(a))) * Bytes(Dtype(a))
  <1>5. Read(off, n, c, k) = matmul_qk(base, Dtype(a), n, c, k)
    BY <1>1, <1>2, <1>3 DEF Read
  <1>6. matmul_qk(base, Dtype(a), n, c, k) = matmul_qk_kernel(base, Dtype(a), c, k)
    <2>1. ~ (setup.engine = "vulkan" /\ setup.batch <= 4)
      BY DEF MatrixQk, InQk, Sound, WellFormed
    <2> HIDE DEF base
    <2> QED BY <2>1 DEF matmul_qk
  <1>7. matmul_qk_kernel(base, Dtype(a), c, k)
          = BlockValue(base, Dtype(a), (c * K + k) \div Vals(Dtype(a)), (c * K + k) % Vals(Dtype(a)))
    <2> HIDE DEF base
    <2> QED BY DEF matmul_qk_kernel
  <1> HIDE DEF base
  <1>8. Read(off, n, c, k)
          = BlockValue(base, Dtype(a), (c * K + k) \div Vals(Dtype(a)), (c * K + k) % Vals(Dtype(a)))
    BY <1>5, <1>6, <1>7
  <1> QED BY <1>4, <1>8 DEF base

-----------------------------------------------------------------------------
(***************************************************************************)
(* Slices.                                                                 *)
(***************************************************************************)
LEMMA PartUnique ==
  ASSUME NEW n \in Nat, NEW size \in [1 .. n -> Nat \ {0}], NEW r \in Nat,
         NEW p \in 1 .. n, Before(size, p) <= r, r < Before(size, p) + size[p],
         NEW q \in 1 .. n, Before(size, q) <= r, r < Before(size, q) + size[q]
  PROVE  p = q
  <1>1. size \in [1 .. n -> Nat] /\ p + 1 \in 1 .. n + 1 /\ q + 1 \in 1 .. n + 1
        /\ p \in 1 .. n + 1 /\ q \in 1 .. n + 1
    OBVIOUS
  <1>2. \A x \in 1 .. n + 1 : Before(size, x) \in Nat
    BY <1>1, BeforeFacts
  <1>3. Before(size, p + 1) = Before(size, p) + size[p]
    BY <1>1, BeforeFacts
  <1>4. Before(size, q + 1) = Before(size, q) + size[q]
    BY <1>1, BeforeFacts
  <1>5. ASSUME p < q PROVE FALSE
    <2>1. p + 1 = q \/ p + 1 < q
      BY <1>5
    <2>2. ASSUME p + 1 < q PROVE Before(size, p + 1) < Before(size, q)
      BY <1>1, <2>2, BeforeGrows
    <2> QED BY <1>1, <1>2, <1>3, <2>1, <2>2
  <1>6. ASSUME q < p PROVE FALSE
    <2>1. q + 1 = p \/ q + 1 < p
      BY <1>6
    <2>2. ASSUME q + 1 < p PROVE Before(size, q + 1) < Before(size, p)
      BY <1>1, <2>2, BeforeGrows
    <2> QED BY <1>1, <1>2, <1>4, <2>1, <2>2
  <1> QED BY <1>5, <1>6

LEMMA RowsFacts ==
  ASSUME Sound(setup)
  PROVE  /\ setup.group # "packed" => RowsOf = setup.rows
         /\ setup.group = "packed" =>
              /\ Tensors = 1 /\ TensorRows(1) = Total(setup.rows)
              /\ setup.rows \in [1 .. 3 -> Nat \ {0}]
         /\ Tensors = 1 => Before(RowsOf, 2) = TensorRows(1)
         /\ RowsOf \in [1 .. Tensors -> Nat \ {0}]
  <1>1. ASSUME setup.group # "packed" PROVE RowsOf = setup.rows
    BY <1>1, SetupFacts DEF RowsOf, TensorRows
  <1>2. ASSUME setup.group = "packed"
        PROVE  /\ Tensors = 1 /\ TensorRows(1) = Total(setup.rows)
               /\ setup.rows \in [1 .. 3 -> Nat \ {0}]
    BY <1>2, SetupFacts DEF TensorRows, Parts
  <1>3. ASSUME Tensors = 1 PROVE Before(RowsOf, 2) = TensorRows(1)
    <2>1. RowsOf \in [1 .. 1 -> Nat] /\ 1 \in Nat /\ RowsOf[1] = TensorRows(1)
      BY <1>3, SizesFacts DEF RowsOf
    <2>2. Before(RowsOf, 1) = 0 /\ Before(RowsOf, 1 + 1) = Before(RowsOf, 1) + RowsOf[1]
      <3>1. Before(RowsOf, 1) = 0
        BY <2>1, BeforeFacts
      <3>2. Before(RowsOf, 1 + 1) = Before(RowsOf, 1) + RowsOf[1]
        <4>1. 1 \in 1 .. 1
          OBVIOUS
        <4> QED BY <2>1, <4>1, BeforeFacts
      <3> QED BY <3>1, <3>2
    <2> QED BY <2>1, <2>2
  <1>4. RowsOf \in [1 .. Tensors -> Nat \ {0}]
    BY TensorFacts DEF RowsOf
  <1> QED BY <1>1, <1>2, <1>3, <1>4

LEMMA SliceFacts ==
  ASSUME Sound(setup), NEW s \in DOMAIN Slices
  PROVE  /\ Slices[s].first \in Nat /\ Slices[s].n \in Nat
         /\ setup.group \notin Expert => Slices[s].first + Slices[s].n <= Before(RowsOf, Tensors + 1)
         /\ setup.group = "qkv" =>
              s \in 1 .. Tensors /\ Slices[s].first = Before(RowsOf, s) /\ Slices[s].n = TensorRows(s)
         /\ setup.group \in {"qkv", "packed"} =>
              s \in 1 .. 3 /\ Slices[s].n = setup.rows[s] /\ (s = 1 => Slices[s].first = 0)
         /\ setup.group \notin {"qkv", "packed"} => Slices[s].first = 0
  <1> DEFINE first == Slices[s].first
             n == Slices[s].n
  <1>1. CASE setup.group \in {"qkv", "packed"}
    <2>1. s \in 1 .. 3 /\ first = Total(SubSeq(setup.rows, 1, s - 1)) /\ n = setup.rows[s]
      BY <1>1 DEF Slices
    <2>2. setup.rows \in [1 .. 3 -> Nat \ {0}] /\ setup.rows \in [1 .. 3 -> Nat]
      <3>1. setup.group # "packed" => Tensors = 3
        BY <1>1, SetupFacts DEF Parts
      <3>2. setup.rows \in [1 .. 3 -> Nat \ {0}]
        BY <3>1, SetupFacts
      <3> QED BY <3>2
    <2>3. first = Before(setup.rows, s)
      <3>1. SubSeq(setup.rows, 1, s - 1) = [i \in 1 .. s - 1 |-> setup.rows[i]]
        <4> DEFINE t == SubSeq(setup.rows, 1, s - 1)
        <4>1. setup.rows \in Seq(Nat) /\ Len(setup.rows) = 3
          BY <2>2, FunctionSeq
        <4>2. 1 \in 1 .. Len(setup.rows) + 1 /\ s - 1 \in 0 .. Len(setup.rows)
          BY <2>1, <4>1
        <4>3. \A i \in 1 .. s - 1 : setup.rows[i] \in Nat
          BY <2>1, <2>2
        <4>4. /\ t \in Seq(Nat)
              /\ Len(t) = IF 1 <= s - 1 THEN (s - 1) - 1 + 1 ELSE 0
              /\ \A i \in 1 .. (s - 1) - 1 + 1 : t[i] = setup.rows[1 + i - 1]
          BY <4>1, <4>2, <4>3, SubSeqProperties
        <4> HIDE DEF t
        <4>5. Len(t) = s - 1 /\ s - 1 \in Nat
          BY <2>1, <4>4
        <4>6. \A i \in 1 .. s - 1 : t[i] = setup.rows[i]
          <5>1. \A i \in 1 .. s - 1 : i \in 1 .. (s - 1) - 1 + 1 /\ 1 + i - 1 = i
            BY <2>1
          <5> QED BY <4>4, <5>1
        <4>7. t = [i \in 1 .. s - 1 |-> t[i]]
          BY <4>4, <4>5
        <4>8. t = [i \in 1 .. s - 1 |-> setup.rows[i]]
          BY <4>6, <4>7
        <4> QED BY <4>8 DEF t
      <3> QED BY <2>1, <3>1 DEF Before
    <2> HIDE DEF first, n
    <2>4. /\ \A x \in 1 .. 4 : Before(setup.rows, x) \in Nat
          /\ Before(setup.rows, s + 1) = first + n
          /\ Before(setup.rows, 1) = 0
          /\ Total(setup.rows) = Before(setup.rows, 4)
      <3>1. 3 \in Nat /\ 3 + 1 = 4
        OBVIOUS
      <3>2. \A x \in 1 .. 4 : Before(setup.rows, x) \in Nat
        BY <2>2, <3>1, BeforeFacts
      <3>3. Before(setup.rows, s + 1) = Before(setup.rows, s) + setup.rows[s]
        BY <2>1, <2>2, <3>1, BeforeFacts
      <3>4. Before(setup.rows, 1) = 0
        BY <2>2, <3>1, BeforeFacts
      <3>5. Total(setup.rows) = Before(setup.rows, 4)
        BY <2>2, <3>1, BeforeFacts
      <3> QED BY <2>1, <2>3, <3>2, <3>3, <3>4, <3>5
    <2>5. first \in Nat /\ n \in Nat
      BY <2>1, <2>2, <2>3, <2>4
    <2>6. first + n <= Before(setup.rows, 4)
      <3>1. s + 1 \in 1 .. 3 + 1 /\ 3 \in Nat /\ 3 + 1 = 4
        BY <2>1
      <3>2. Before(setup.rows, s + 1) <= Before(setup.rows, 3 + 1)
        BY <2>2, <3>1, BeforeUpTo
      <3> QED BY <2>4, <3>1, <3>2
    <2>7. s = 1 => first = 0
      BY <2>3, <2>4
    <2>8. CASE setup.group = "qkv"
      <3>1. RowsOf = setup.rows /\ Tensors = 3 /\ TensorRows(s) = setup.rows[s]
        BY <2>8, RowsFacts, SetupFacts DEF Parts, TensorRows
      <3> QED BY <2>1, <2>3, <2>5, <2>6, <2>7, <2>8, <3>1 DEF first, n
    <2>9. CASE setup.group = "packed"
      <3>1. Tensors = 1 /\ Before(RowsOf, 2) = Total(setup.rows)
        BY <2>9, RowsFacts
      <3>2. first + n <= Before(RowsOf, Tensors + 1)
        BY <2>4, <2>6, <3>1
      <3> QED BY <2>1, <2>5, <2>7, <2>9, <3>2 DEF first, n
    <2> QED BY <1>1, <2>8, <2>9
  <1>2. CASE setup.group \notin {"qkv", "packed"}
    <2>1. first = 0 /\ n = Total(setup.rows)
      BY <1>2 DEF Slices
    <2>2. RowsOf = setup.rows
      BY <1>2, RowsFacts
    <2>3. n = Before(RowsOf, Tensors + 1) /\ n \in Nat
      <3>1. Tensors + 1 \in 1 .. Tensors + 1
        BY SizesFacts
      <3>2. Total(RowsOf) = Before(RowsOf, Tensors + 1)
        BY SizesFacts, BeforeFacts
      <3>3. Before(RowsOf, Tensors + 1) \in Nat
        BY <3>1, SizesFacts, BeforeFacts
      <3> QED BY <2>1, <2>2, <3>2, <3>3
    <2> HIDE DEF first, n
    <2>4. first \in Nat /\ first + n <= Before(RowsOf, Tensors + 1)
      BY <2>1, <2>3
    <2> QED BY <1>2, <2>1, <2>3, <2>4 DEF first, n
  <1> QED BY <1>1, <1>2

Fits == Matrix16 \/ MatrixQ8 \/ MatrixQk

\* A slice at off is d elements behind the start of segment a.
InSegment(p, e, off, idx, a, d, shift) ==
  /\ a \in 1 .. Tensors /\ d \in Nat /\ d < Elements(a)
  /\ off = Before(ElementsOf, a) + d /\ Dtype(a) = Dtype(p)
  /\ shift \in Nat /\ shift % Vals(Dtype(p)) = 0 /\ d + idx = shift + e
  /\ Before(BytesOf, p) = Before(BytesOf, a) + (shift \div Vals(Dtype(p))) * Bytes(Dtype(p))

\* What a matrix kept in blocks reads, by group.
LEMMA ReadPacked ==
  ASSUME Sound(setup), MatrixQk, NEW s \in DOMAIN Slices, OnBoundary(Slices[s].first * K),
         NEW c \in Nat, c < Slices[s].n, NEW k \in 0 .. K - 1,
         NEW p \in 1 .. Tensors, NEW e \in Nat, e < Elements(p),
         Slices[s].first * K + c * K + k = Before(ElementsOf, p) + e,
         Before(RowsOf, p) <= Slices[s].first + c,
         Slices[s].first + c < Before(RowsOf, p) + TensorRows(p)
  PROVE  Read(Slices[s].first * K, Slices[s].n, c, k) = Value(p, e)
  <1> DEFINE first == Slices[s].first
             n == Slices[s].n
             off == first * K
             idx == c * K + k
  <1>1. first \in Nat /\ n \in Nat /\ K \in Nat \ {0}
    BY SliceFacts, SetupFacts
  <1>2. off \in Nat /\ idx \in Nat /\ off + idx = Before(ElementsOf, p) + e
    <2>1. \A x, y \in Nat : x * y \in Nat
      OBVIOUS
    <2>2. off \in Nat /\ c * K \in Nat /\ k \in Nat
      BY <1>1, <2>1
    <2> DEFINE ck == c * K
    <2>3. ck \in Nat /\ off + ck + k = Before(ElementsOf, p) + e
      BY <2>2
    <2> HIDE DEF off, ck
    <2>4. ck + k \in Nat /\ off + (ck + k) = off + ck + k
      BY <2>2, <2>3
    <2> QED BY <2>2, <2>3, <2>4 DEF ck
  <1>3. Before(ElementsOf, 1) = 0 /\ Before(BytesOf, 1) = 0 /\ Before(ElementsOf, p) \in Nat
    <2>1. p \in 1 .. Tensors + 1
      BY SizesFacts
    <2>2. BytesOf \in [1 .. Tensors -> Nat]
      <3>1. \A t \in 1 .. Tensors : Blocks(t) \in Nat /\ Bytes(Dtype(t)) \in Nat
        BY TensorFacts, GeometryFacts
      <3>2. \A x, y \in Nat : x * y \in Nat
        OBVIOUS
      <3>3. \A t \in 1 .. Tensors : Blocks(t) * Bytes(Dtype(t)) \in Nat
        BY <3>1, <3>2
      <3> QED BY <3>3 DEF BytesOf
    <2>3. Before(ElementsOf, 1) = 0
      BY SizesFacts, BeforeFacts
    <2>4. Before(BytesOf, 1) = 0
      BY <2>2, SizesFacts, BeforeFacts
    <2>5. Before(ElementsOf, p) \in Nat
      BY <2>1, SizesFacts, BeforeFacts
    <2> QED BY <2>3, <2>4, <2>5
  <1> HIDE DEF off, idx
  <1>4. ASSUME NEW a, NEW d, NEW shift, InSegment(p, e, off, idx, a, d, shift)
        PROVE  Read(first * K, n, c, k) = Value(p, e)
    <2> DEFINE v == Vals(Dtype(p))
               base == Before(BytesOf, a) + (d \div v) * Bytes(Dtype(p))
    <2>0. /\ a \in 1 .. Tensors /\ d \in Nat /\ d < Elements(a)
          /\ off = Before(ElementsOf, a) + d /\ Dtype(a) = Dtype(p)
      BY <1>4 DEF InSegment
    <2>1. d % v = 0
      BY <2>0, SegRead DEF off
    <2>2. Read(off, n, c, k) = BlockValue(base, Dtype(a), idx \div v, idx % v)
      BY <2>0, SegRead DEF idx
    <2>3. BlockValue(base, Dtype(a), idx \div v, idx % v) = Value(p, e)
      BY <1>2, <1>4, <2>0, <2>1, ReadFrom DEF InSegment
    <2> QED BY <2>2, <2>3 DEF off
  <1> DEFINE Right == Read(first * K, n, c, k) = Value(p, e)
  <1>11. \A a, d, shift : InSegment(p, e, off, idx, a, d, shift) => Right
    BY <1>4
  <1>12. Right = (Read(Slices[s].first * K, Slices[s].n, c, k) = Value(p, e))
    OBVIOUS
  <1>13. SUFFICES Right
    BY <1>12
  <1> HIDE DEF Right
  <1>5. 0 \in Nat /\ 0 % Vals(Dtype(p)) = 0 /\ 0 \div Vals(Dtype(p)) = 0
        /\ 0 * Bytes(Dtype(p)) = 0
    <2>1. Vals(Dtype(p)) \in Nat \ {0} /\ Bytes(Dtype(p)) \in Nat
      BY TensorFacts, GeometryFacts
    <2>2. \A d \in Nat \ {0} : 0 % d = 0 /\ 0 \div d = 0
      OBVIOUS
    <2> QED BY <2>1, <2>2
  <1>6. \A t \in 1 .. Tensors : Before(BytesOf, t) \in Int
    <2>1. \A t \in 1 .. Tensors : Blocks(t) \in Nat /\ Bytes(Dtype(t)) \in Nat
      BY TensorFacts, GeometryFacts
    <2>2. \A x, y \in Nat : x * y \in Nat
      OBVIOUS
    <2>3. BytesOf \in [1 .. Tensors -> Nat]
      BY <2>1, <2>2 DEF BytesOf
    <2> QED BY <2>3, SizesFacts, BeforeNext
  <1>7. CASE setup.group = "qkv"
    <2>1. s \in 1 .. Tensors /\ first = Before(RowsOf, s) /\ n = TensorRows(s)
      BY <1>7, SliceFacts
    <2>2. s = p
      <3> DEFINE r == first + c
      <3>1. /\ r \in Nat /\ Before(RowsOf, p) <= r /\ r < Before(RowsOf, p) + RowsOf[p]
            /\ Before(RowsOf, s) <= r /\ r < Before(RowsOf, s) + RowsOf[s]
        BY <1>1, <2>1 DEF RowsOf
      <3> HIDE DEF r
      <3> QED BY <2>1, <3>1, SizesFacts, RowsFacts, PartUnique
    <2>3. off = Before(ElementsOf, p)
      <3>1. p \in 1 .. Tensors + 1
        BY SizesFacts
      <3> QED BY <2>1, <2>2, <3>1, SizesFacts DEF off
    <2>4. off = Before(ElementsOf, p) + 0 /\ 0 < Elements(p) /\ 0 + idx = 0 + e
      BY <1>2, <1>3, <2>3, TensorFacts
    <2>5. Before(BytesOf, p)
            = Before(BytesOf, p) + (0 \div Vals(Dtype(p))) * Bytes(Dtype(p))
      BY <1>5, <1>6
    <2>6. InSegment(p, e, off, idx, p, 0, 0)
      BY <1>5, <2>4, <2>5 DEF InSegment
    <2> QED BY <1>11, <2>6
  <1>8. CASE Tensors = 1
    <2>1. p = 1
      BY <1>8
    <2>2. off < Elements(1)
      <3>1. first < TensorRows(1) /\ TensorRows(1) \in Nat
        <4>1. Before(RowsOf, 1) = 0
          BY SizesFacts, BeforeFacts
        <4>2. first + c < TensorRows(1) /\ TensorRows(1) \in Nat
          BY <2>1, <4>1, TensorFacts
        <4> QED BY <1>1, <4>2
      <3>2. first * K + 0 < TensorRows(1) * K
        BY <1>1, <3>1, BelowProduct
      <3> QED BY <1>2, <3>2 DEF off, Elements
    <2>3. off = Before(ElementsOf, 1) + off /\ off + idx = 0 + e
      BY <1>2, <1>3, <2>1
    <2>4. Before(BytesOf, 1)
            = Before(BytesOf, 1) + (0 \div Vals(Dtype(1))) * Bytes(Dtype(1))
      BY <1>3, <1>5, <2>1
    <2>5. 1 \in 1 .. Tensors
      BY <1>8
    <2>6. InSegment(p, e, off, idx, 1, off, 0)
      BY <1>2, <1>5, <2>1, <2>2, <2>3, <2>4, <2>5 DEF InSegment
    <2> QED BY <1>11, <2>6
  <1>9. CASE setup.group = "gate_up"
    <2>1. Tensors = 2 /\ Dtype(p) = Dtype(1) /\ p \in {1, 2}
      <3>1. Tensors = 2
        BY <1>9, SetupFacts DEF Parts
      <3> QED BY <1>9, <3>1 DEF MatrixQk, InQk
    <2>2. first = 0 /\ off = 0
      <3>1. first = 0
        BY <1>9, SliceFacts
      <3> QED BY <1>1, <3>1 DEF off
    <2>3. 0 < Elements(1) /\ off = Before(ElementsOf, 1) + 0 /\ 1 \in 1 .. Tensors
      BY <1>3, <2>1, <2>2, TensorFacts
    <2>4. CASE p = 1
      <3>1. 0 + idx = 0 + e
        BY <1>2, <1>3, <2>2, <2>4
      <3>2. Before(BytesOf, 1)
            = Before(BytesOf, 1) + (0 \div Vals(Dtype(1))) * Bytes(Dtype(1))
        BY <1>3, <1>5, <2>4
      <3>3. InSegment(p, e, off, idx, 1, 0, 0)
        BY <1>5, <2>3, <2>4, <3>1, <3>2 DEF InSegment
      <3> QED BY <1>11, <3>3
    <2>5. CASE p = 2
      <3> DEFINE shift == Elements(1)
                 v == Vals(Dtype(p))
      <3>1. shift \in Nat /\ shift % v = 0 /\ shift \div v = Blocks(1)
        BY <2>1, <2>3, TensorFacts DEF MatrixQk, InQk, Whole, Blocks
      <3>2. Before(ElementsOf, 2) = Elements(1) /\ Before(BytesOf, 2) = Blocks(1) * Bytes(Dtype(1))
        <4>1. BytesOf \in [1 .. Tensors -> Nat]
          <5>1. \A t \in 1 .. Tensors : Blocks(t) \in Nat /\ Bytes(Dtype(t)) \in Nat
            BY TensorFacts, GeometryFacts
          <5>2. \A x, y \in Nat : x * y \in Nat
            OBVIOUS
          <5> QED BY <5>1, <5>2 DEF BytesOf
        <4>2. 1 \in 1 .. Tensors
          BY <2>3
        <4>3. Before(BytesOf, 1 + 1) = Before(BytesOf, 1) + BytesOf[1] /\ BytesOf[1] \in Nat
          BY <4>1, <4>2, SizesFacts, BeforeNext
        <4>4. Before(ElementsOf, 1 + 1) = Before(ElementsOf, 1) + ElementsOf[1]
              /\ ElementsOf[1] = Elements(1)
          BY <4>2, SizesFacts, BeforeNext
        <4>5. BytesOf[1] = Blocks(1) * Bytes(Dtype(1))
          BY <4>2 DEF BytesOf
        <4>6. Before(BytesOf, 2) = BytesOf[1]
          BY <1>3, <4>3
        <4>7. Before(ElementsOf, 2) = Elements(1)
          BY <1>3, <3>1, <4>4
        <4> QED BY <4>5, <4>6, <4>7
      <3>3. 0 + idx = shift + e
        BY <1>2, <2>2, <2>5, <3>2
      <3>4. Before(BytesOf, p) = Before(BytesOf, 1) + (shift \div v) * Bytes(Dtype(p))
        <4>1. Before(BytesOf, 2) \in Int
          BY <1>6, <2>1
        <4>2. Before(BytesOf, p) = (shift \div v) * Bytes(Dtype(p))
          BY <2>1, <2>5, <3>1, <3>2
        <4> QED BY <1>3, <2>5, <4>1, <4>2
      <3> HIDE DEF shift
      <3>5. InSegment(p, e, off, idx, 1, 0, shift)
        BY <1>5, <2>1, <2>3, <3>1, <3>3, <3>4 DEF InSegment
      <3> QED BY <1>11, <3>5
    <2> QED BY <2>1, <2>4, <2>5
  <1>10. setup.group = "qkv" \/ setup.group = "gate_up" \/ Tensors = 1
    BY SetupFacts DEF MatrixQk, InQk, Parts
  <1> QED BY <1>7, <1>8, <1>9, <1>10

LEMMA MultiplyRight ==
  ASSUME Sound(setup), setup.group \notin Expert, Fits, NEW s \in DOMAIN Slices,
         OnBoundary(Slices[s].first * K),
         NEW c \in 0 .. Slices[s].n - 1, NEW k \in 0 .. K - 1
  PROVE  Read(Slices[s].first * K, Slices[s].n, c, k) = Stored(Slices[s].first + c, k)
  <1> DEFINE first == Slices[s].first
             n == Slices[s].n
             off == first * K
             r == first + c
  <1>1. /\ first \in Nat /\ n \in Nat /\ K \in Nat \ {0} /\ first + n <= Before(RowsOf, Tensors + 1)
        /\ c \in Nat /\ c < n /\ k \in Nat
    BY SliceFacts, SetupFacts
  <1>2. r \in Nat /\ r < Before(RowsOf, Tensors + 1) /\ off \in Nat
    <2>1. Before(RowsOf, Tensors + 1) \in Nat
      <3>1. Tensors + 1 \in 1 .. Tensors + 1
        BY SizesFacts
      <3> QED BY <3>1, SizesFacts, BeforeFacts
    <2>2. \A x, y \in Nat : x * y \in Nat
      OBVIOUS
    <2>3. off \in Nat
      BY <1>1, <2>2
    <2> HIDE DEF first, n
    <2> QED BY <1>1, <2>1, <2>3
  <1>3. PICK p \in 1 .. Tensors, e \in Nat :
           /\ e < Elements(p) /\ Stored(r, k) = Value(p, e)
           /\ r * K + k = Before(ElementsOf, p) + e
           /\ Before(RowsOf, p) <= r /\ r < Before(RowsOf, p) + TensorRows(p)
    <2> HIDE DEF r
    <2> QED BY <1>2, StoredAt
  <1>4. off + c * K + k = Before(ElementsOf, p) + e
    <2>1. \A x, y \in Nat : (x + y) * K = x * K + y * K
      BY <1>1
    <2>2. r * K = off + c * K
      BY <1>1, <2>1
    <2> QED BY <1>3, <2>2
  <1>5. CASE Matrix16
    <2>1. matmul_u16(off, c, k) = Value(p, e)
      <3> HIDE DEF off
      <3> QED BY <1>1, <1>2, <1>3, <1>4, <1>5, Read16
    <2>2. Read(off, n, c, k) = matmul_u16(off, c, k)
      BY <1>5 DEF Read, Matrix16, In16
    <2> QED BY <1>3, <2>1, <2>2
  <1>6. CASE MatrixQ8
    <2>1. off % 32 = 0
      <3>1. K % 32 = 0 /\ 32 \in Nat \ {0}
        BY <1>6, TensorFacts DEF MatrixQ8, InQ8
      <3> DEFINE m == K \div 32
      <3>2. m \in Nat /\ K = m * 32
        BY <1>1, <3>1, DivMultiple
      <3> HIDE DEF m
      <3>3. off = (first * m) * 32 /\ first * m \in Nat
        BY <1>1, <3>2
      <3> HIDE DEF off
      <3> QED BY <3>1, <3>3, MultipleMod
    <2>2. \/ off = 0 \/ setup.engine = "hip" \/ setup.batch > 4 \/ ~ (Up(n, 16) >= Q8GemvGroups)
      <3>1. CASE setup.group \notin {"qkv", "packed"}
        <4>1. first = 0
          BY <3>1, SliceFacts
        <4> QED BY <1>1, <4>1
      <3>2. CASE setup.group \in {"qkv", "packed"}
        <4>1. s \in 1 .. 3 /\ n = setup.rows[s] /\ (s = 1 => first = 0)
          BY <3>2, SliceFacts
        <4>2. CASE s = 1
          BY <1>1, <4>1, <4>2
        <4>3. CASE s \in 2 .. 3
          <5>1. "Q8_0" \in {setup.dtypes[x] : x \in DOMAIN setup.dtypes}
            <6>1. p \in DOMAIN setup.dtypes /\ setup.dtypes[p] = "Q8_0"
              BY <1>6, SetupFacts DEF MatrixQ8, InQ8, Dtype
            <6> QED BY <6>1
          <5>2. ~DecodeQ8(setup)
            BY DEF Sound
          <5>3. setup.engine = "vulkan" /\ setup.batch <= 4 => ~ (Up(n, 16) >= Q8GemvGroups)
            BY <3>2, <4>1, <4>3, <5>1, <5>2 DEF DecodeQ8
          <5>4. setup.engine \in {"hip", "vulkan"} /\ setup.batch \in Nat
            BY DEF Sound, WellFormed
          <5> QED BY <5>3, <5>4
        <4> QED BY <4>1, <4>2, <4>3
      <3> QED BY <3>1, <3>2
    <2>3. matmul_q8(off, n, c, k) = Value(p, e)
      <3> HIDE DEF off
      <3> QED BY <1>1, <1>2, <1>3, <1>4, <1>6, <2>1, <2>2, Multiply8
    <2>4. Read(off, n, c, k) = matmul_q8(off, n, c, k)
      BY <1>6 DEF Read, MatrixQ8, InQ8
    <2> QED BY <1>3, <2>3, <2>4
  <1>7. CASE MatrixQk
    BY <1>1, <1>3, <1>4, <1>7, ReadPacked
  <1> QED BY <1>5, <1>6, <1>7 DEF Fits

\* The embedding looks a row up as the first slice does.
LEMMA LookupRight ==
  ASSUME Sound(setup), setup.group = "single", Fits,
         NEW id \in 0 .. setup.rows[1] - 1, NEW k \in 0 .. K - 1
  PROVE  Lookup(id, k) = Stored(Slices[1].first + id, k)
  <1>1. /\ Tensors = 1 /\ Slices[1].first = 0 /\ RowsOf[1] = setup.rows[1]
        /\ TensorRows(1) = setup.rows[1]
    BY SetupFacts DEF Slices, Parts, RowsOf, TensorRows
  <1>2. id \in Nat /\ id < setup.rows[1] /\ Slices[1].first + id = id /\ k \in Nat /\ K \in Nat \ {0}
    BY <1>1, SetupFacts
  <1>3. id < Before(RowsOf, Tensors + 1)
    <2>1. Before(RowsOf, 1 + 1) = TensorRows(1)
      BY <1>1, RowsFacts
    <2> QED BY <1>1, <1>2, <2>1
  <1>4. PICK p \in 1 .. Tensors, e \in Nat :
           /\ e < Elements(p) /\ Stored(id, k) = Value(p, e)
           /\ id * K + k = Before(ElementsOf, p) + e
    BY <1>2, <1>3, StoredAt
  <1>5. p = 1
    BY <1>1
  <1>6. id * K \in Nat /\ 0 + id * K + k = Before(ElementsOf, p) + e
    <2>1. \A x, y \in Nat : x * y \in Nat
      OBVIOUS
    <2>2. id * K \in Nat
      BY <1>2, <2>1
    <2> QED BY <1>2, <1>4, <2>2
  <1> DEFINE off == 0
  <1>7. off \in Nat /\ off % 32 = 0 /\ off + id * K + k = Before(ElementsOf, p) + e
    BY <1>6
  <1>8. CASE Matrix16
    <2> HIDE DEF off
    <2>1. matmul_u16(off, id, k) = Value(p, e)
      BY <1>2, <1>4, <1>7, <1>8, Read16
    <2>2. Lookup(id, k) = matmul_u16(off, id, k)
      BY <1>8 DEF Lookup, Matrix16, In16, off
    <2> QED BY <1>2, <1>4, <2>1, <2>2
  <1>10. CASE MatrixQ8
    <2> HIDE DEF off
    <2>1. matmul_q8_kernel(off, id, k) = Value(p, e)
      <3> DEFINE g == off + id * K + k
                 b == Before(ElementsOf, p) + e
      <3>1. K \in Nat \ {0} /\ K % 32 = 0
        <4>1. Dtype(p) = "Q8_0"
          BY <1>10 DEF MatrixQ8, InQ8
        <4> QED BY <4>1, TensorFacts, SetupFacts
      <3>2. Product8(b, b \div 32) = Value(p, e)
        BY <1>4, <1>10, ReadQ8
      <3>3. matmul_q8_kernel(off, id, k) = Product8(g, g \div 32)
        BY <1>2, <1>7, <3>1, Kernels8
      <3>4. g = b
        BY <1>7
      <3> HIDE DEF g, b
      <3> QED BY <3>2, <3>3, <3>4
    <2>2. Lookup(id, k) = matmul_q8_kernel(off, id, k)
      BY <1>10 DEF Lookup, MatrixQ8, InQ8, off
    <2> QED BY <1>2, <1>4, <2>1, <2>2
  <1>9. CASE MatrixQk
    <2> DEFINE v == Vals(Dtype(1))
               idx == id * K + k
    <2>1. w.segs # <<>> /\ w.segs[1].kind = Dtype(1)
      <3>1. Elements(1) > 0 /\ 1 \in 1 .. Tensors
        BY <1>1, TensorFacts
      <3>2. w.segs # <<>>
        BY <1>6, <1>9, <3>1, SegFacts
      <3> QED BY <1>9, <3>1, <3>2 DEF MatrixQk, InQk
    <2>2. Lookup(id, k) = BlockValue(0, Dtype(1), idx \div v, idx % v)
      BY <2>1 DEF Lookup, matmul_qk_kernel
    <2>3. idx \in Nat /\ v \in Nat \ {0} /\ e < Elements(1) /\ idx = e
      <3>1. Before(ElementsOf, 1) = 0
        BY SizesFacts, BeforeFacts
      <3>2. v \in Nat \ {0} /\ e < Elements(1)
        BY <1>4, <1>5, TensorFacts, GeometryFacts
      <3>3. id * K + k = 0 + e
        BY <1>4, <1>5, <3>1
      <3> HIDE DEF v
      <3> QED BY <3>2, <3>3
    <2> HIDE DEF idx
    <2>4. Before(BytesOf, 1) = 0
      <3> DEFINE f == [x \in 1 .. 1 - 1 |-> BytesOf[x]]
      <3>1. f \in [1 .. 0 -> Int]
        OBVIOUS
      <3>2. Before(BytesOf, 1) = Total(f)
        BY DEF Before
      <3> HIDE DEF f
      <3> QED BY <3>1, <3>2, TotalEmpty
    <2>5. BlockValue(0, Dtype(1), idx \div v, idx % v) = Value(1, (idx \div v) * v + (idx % v))
      <3> DEFINE q == idx \div v
                 i == idx % v
      <3>1. q \in Nat /\ i \in 0 .. v - 1 /\ q < Blocks(1)
        <4>1. Elements(1) = Blocks(1) * v /\ Blocks(1) \in Nat
          BY <1>1, <1>9, WholeFacts DEF MatrixQk, InQk
        <4> HIDE DEF v
        <4> QED BY <2>3, <4>1, SplitPosition, DivBelow
      <3> HIDE DEF q, i
      <3>2. i \in Nat /\ i < Vals(Dtype(1))
        BY <2>3, <3>1
      <3>3. 0 + q * Bytes(Dtype(1)) = Before(BytesOf, 1) + q * Bytes(Dtype(1))
        BY <2>4
      <3>4. BlockValue(0, Dtype(1), q, i) = Value(1, q * v + i)
        BY <1>1, <1>9, <3>1, <3>2, <3>3, ReadBlock
      <3> QED BY <3>4 DEF q, i
    <2>6. (idx \div v) * v + (idx % v) = e
      <3> HIDE DEF v
      <3> QED BY <2>3, SplitPosition
    <2> QED BY <1>2, <1>4, <1>5, <2>2, <2>5, <2>6
  <1> QED BY <1>8, <1>9, <1>10 DEF Fits

-----------------------------------------------------------------------------
(***************************************************************************)
(* Loading and fusing: however the parts are kept or converted, the matrix *)
(* has one of the three forms above.                                       *)
(***************************************************************************)
\* What load_matrix_host leaves of a tensor that is taken.
HostOf(p) ==
  IF ExpertTensor(p) /\ setup.group = "exps" THEN HostQk(p)
  ELSE IF OnlyU16 \/ OfExperts THEN HostU16(p)
  ELSE IF load_q8(p) THEN HostQ8(p)
  ELSE IF load_qk(p) THEN HostQk(p)
  ELSE HostU16(p)

\* The tensors read so far, all of them in whole blocks.
HostInv ==
  \E n \in 0 .. Tensors :
    host = [p \in 1 .. n |-> HostOf(p)] /\ \A p \in 1 .. n : Loads(p)

LEMMA LoadedForms ==
  ASSUME Sound(setup), NEW p \in 1 .. Tensors, Loads(p)
  PROVE  Whole(p) /\ LoadedAs(p) = HostOf(p)
  <1>1. load_q8(p) \/ load_qk(p) \/ load_u16(p) \/ mapped(p)
    BY DEF Loads, load_exps
  <1>2. Whole(p)
    BY <1>1, LoadsWhole
  <1>3. load_q8(p) => Dtype(p) = "Q8_0"
    BY DEF load_q8
  <1> QED BY <1>2, <1>3, HostForms DEF LoadedAs, HostOf, load_matrix_host

LEMMA HostKept ==
  ASSUME Sound(setup), HostInv, Len(host) = Tensors, NEW p \in 1 .. Tensors
  PROVE  host[p] = HostOf(p) /\ Loads(p) /\ Whole(p)
  <1>1. PICK n \in 0 .. Tensors : host = [q \in 1 .. n |-> HostOf(q)] /\ \A q \in 1 .. n : Loads(q)
    BY DEF HostInv
  <1>2. Len(host) = n
    <2>1. n \in Nat
      BY SetupFacts
    <2> QED BY <1>1, <2>1
  <1> QED BY <1>1, <1>2, LoadedForms

LEMMA HostKinds ==
  ASSUME Sound(setup), HostInv, Len(host) = Tensors, setup.group \notin Expert,
         NEW p \in 1 .. Tensors
  PROVE  /\ \/ host[p] = HostQ8(p) /\ Dtype(p) = "Q8_0" /\ IsQ8(p) /\ ~IsQk(p)
            \/ host[p] = HostQk(p) /\ load_qk(p) /\ ~IsQ8(p) /\ IsQk(p) /\ ~OnlyU16
            \/ host[p] = HostU16(p) /\ ~IsQ8(p) /\ ~IsQk(p)
         /\ Values(p) # <<>> /\ Halves(p) # <<>> /\ Whole(p)
  <1>1. ~OfExperts /\ ~ExpertTensor(p)
    BY DEF OfExperts, ExpertTensor, Expert
  <1>2. \/ host[p] = HostQ8(p) /\ Dtype(p) = "Q8_0"
        \/ host[p] = HostQk(p) /\ load_qk(p) /\ ~OnlyU16
        \/ host[p] = HostU16(p)
    <2>1. load_q8(p) => Dtype(p) = "Q8_0"
      BY DEF load_q8
    <2>2. host[p] = HostOf(p)
      BY HostKept
    <2> QED BY <1>1, <2>1, <2>2 DEF HostOf
  <1>3. Values(p) # <<>> /\ Halves(p) # <<>>
    <2>1. 1 \in 1 .. Elements(p)
      BY TensorFacts
    <2>2. 1 \in DOMAIN Values(p) /\ 1 \in DOMAIN Halves(p)
      BY <2>1 DEF Values, Halves
    <2>3. 1 \notin DOMAIN <<>>
      OBVIOUS
    <2> QED BY <2>2, <2>3
  <1>4. Dtype(p) # NoKind
    BY TensorFacts DEF Dtypes, Geometry, NoKind
  <1>5. Whole(p)
    BY HostKept
  <1>6. CASE host[p] = HostQ8(p) /\ Dtype(p) = "Q8_0"
    BY <1>3, <1>5, <1>6 DEF HostQ8, None16, IsQ8, IsQk
  <1>7. CASE host[p] = HostQk(p) /\ load_qk(p) /\ ~OnlyU16
    BY <1>3, <1>4, <1>5, <1>7 DEF HostQk, None16, IsQ8, IsQk
  <1>8. CASE host[p] = HostU16(p)
    BY <1>3, <1>5, <1>8 DEF HostU16, None16, IsQ8, IsQk
  <1> QED BY <1>2, <1>6, <1>7, <1>8

LEMMA InFused8 ==
  ASSUME Sound(setup), HostInv, Len(host) = Tensors, setup.group \notin Expert, All(IsQ8)
  PROVE  InQ8(FusedQ8)
  <1>1. \A p \in 1 .. Tensors : /\ host[p] = HostQ8(p) /\ Dtype(p) = "Q8_0" /\ Whole(p)
                                /\ host[p].q8 = Values(p) /\ host[p].qsc = Scales(p)
    <2>1. TAKE p \in 1 .. Tensors
    <2>2. IsQ8(p)
      BY DEF All
    <2>3. host[p] = HostQ8(p) /\ Dtype(p) = "Q8_0" /\ Whole(p)
      BY <2>2, HostKinds
    <2> QED BY <2>3 DEF HostQ8, None16
  <1>2. Cat("q8") = FlattenSeq([p \in 1 .. Tensors |-> Values(p)])
    <2>1. [p \in 1 .. Tensors |-> host[p]["q8"]] = [p \in 1 .. Tensors |-> Values(p)]
      BY <1>1
    <2> QED BY <2>1 DEF Cat
  <1>3. Cat("qsc") = FlattenSeq([p \in 1 .. Tensors |-> Scales(p)])
    <2>1. [p \in 1 .. Tensors |-> host[p]["qsc"]] = [p \in 1 .. Tensors |-> Scales(p)]
      BY <1>1
    <2> QED BY <2>1 DEF Cat
  <1> QED BY <1>1, <1>2, <1>3 DEF InQ8, FusedQ8, Empty

LEMMA InFusedQk ==
  ASSUME Sound(setup), HostInv, Len(host) = Tensors, setup.group \notin Expert,
         ~OnlyU16, KeepQk
  PROVE  InQk(FusedQk)
  <1>1. \A p \in 1 .. Tensors : /\ host[p] = HostQk(p) /\ load_qk(p) /\ Whole(p)
                                /\ host[p].qk = RawBlocks(p) /\ host[p].kind = Dtype(p)
    <2>1. TAKE p \in 1 .. Tensors
    <2>2. IsQk(p)
      BY DEF All, KeepQk
    <2>3. host[p] = HostQk(p) /\ load_qk(p) /\ Whole(p)
      BY <2>2, HostKinds
    <2> QED BY <2>3 DEF HostQk, None16
  <1>2. Cat("qk") = FlattenSeq([p \in 1 .. Tensors |-> RawBlocks(p)])
    <2>1. [p \in 1 .. Tensors |-> host[p]["qk"]] = [p \in 1 .. Tensors |-> RawBlocks(p)]
      BY <1>1
    <2> QED BY <2>1 DEF Cat
  <1>3. \A p \in 1 .. Tensors : Segment(p) = [kind |-> Dtype(p), byte_off |-> Before(BytesOf, p),
                                              elem_off |-> Before(ElementsOf, p)]
    <2>1. TAKE p \in 1 .. Tensors
    <2>2. \A x \in 1 .. p - 1 : x \in 1 .. Tensors
      BY SetupFacts
    <2>3. [x \in 1 .. p - 1 |-> (Elements(x) \div Vals(Dtype(x))) * Bytes(Dtype(x))]
            = [x \in 1 .. p - 1 |-> BytesOf[x]]
      BY <2>2 DEF BytesOf, Blocks
    <2>4. [x \in 1 .. p - 1 |-> Elements(x)] = [x \in 1 .. p - 1 |-> ElementsOf[x]]
      BY <2>2 DEF ElementsOf
    <2> QED BY <1>1, <2>3, <2>4 DEF Segment, Before
  <1>4. \A p \in 1 .. Tensors : /\ Dtype(p) \in Native
                                /\ Dtype(p) \in {setup.dtypes[x] : x \in DOMAIN setup.dtypes}
    <2>1. TAKE p \in 1 .. Tensors
    <2>2. p \in DOMAIN setup.dtypes
      BY SetupFacts
    <2> QED BY <1>1, <2>2 DEF load_qk, Dtype
  <1>5. \A p \in 1 .. Tensors : /\ Dtype(p) \in PackedKinds
                                /\ setup.engine = "hip" => Dtype(p) \notin {"Q4_0", "Q2_K", "Q4_K"}
    <2>1. ~HipQ4K(setup)
      BY DEF Sound
    <2> QED BY <1>4, <2>1, SetupFacts DEF Native, PackedKinds, HipQ4K
  <1>6. setup.engine = "vulkan" => setup.batch > 4
    <2>1. SUFFICES ASSUME setup.engine = "vulkan" PROVE ~ (setup.batch <= 4)
      BY DEF Sound, WellFormed
    <2>2. 1 \in DOMAIN setup.dtypes /\ setup.dtypes[1] \in {"Q4_0", "Q2_K", "Q4_K", "Q5_K", "Q6_K"}
      <3>1. 1 \in 1 .. Tensors
        BY SetupFacts
      <3> QED BY <1>4, <2>1, <3>1, SetupFacts DEF Native, Dtype
    <2> QED BY <2>1, <2>2 DEF Sound, DecodeQk
  <1>7. setup.group \in {"single", "packed", "qkv", "gate_up"}
    BY SetupFacts DEF Parts, Expert, OnlyU16
  <1>8. setup.group = "gate_up" => \A p \in 1 .. Tensors : Dtype(p) = Dtype(1)
    <2>1. 1 \in 1 .. Tensors
      BY SetupFacts
    <2> QED BY <1>1, <2>1 DEF KeepQk, SameKind
  <1>9. [p \in 1 .. Tensors |-> Segment(p)]
          = [p \in 1 .. Tensors |-> [kind |-> Dtype(p), byte_off |-> Before(BytesOf, p),
                                     elem_off |-> Before(ElementsOf, p)]]
    BY <1>3
  <1>10. FusedQk.qk = At(Cat("qk")) /\ FusedQk.segs = [p \in 1 .. Tensors |-> Segment(p)]
    BY DEF FusedQk, Empty
  <1>11. \A p \in 1 .. Tensors : Whole(p)
    BY <1>1
  <1> QED BY <1>2, <1>5, <1>6, <1>7, <1>8, <1>9, <1>10, <1>11 DEF InQk

LEMMA InFusedU16 ==
  ASSUME Sound(setup), HostInv, Len(host) = Tensors, setup.group \notin Expert,
         \A p \in 1 .. Tensors : ~IsQ8(p) /\ ~IsQk(p)
  PROVE  In16(FusedU16)
  <1>1. \A p \in 1 .. Tensors : /\ host[p].u16 = Halves(p)
                                /\ host[p].bf16 = (Dtype(p) = "BF16")
    <2>1. TAKE p \in 1 .. Tensors
    <2>2. host[p] = HostU16(p)
      BY HostKinds
    <2> QED BY <2>2 DEF HostU16, None16
  <1>2. Cat("u16") = FlattenSeq([p \in 1 .. Tensors |-> Halves(p)])
    <2>1. [p \in 1 .. Tensors |-> host[p]["u16"]] = [p \in 1 .. Tensors |-> Halves(p)]
      BY <1>1
    <2> QED BY <2>1 DEF Cat
  <1>3. (\A p \in 1 .. Tensors : host[p].bf16) = (\A p \in 1 .. Tensors : Dtype(p) = "BF16")
    BY <1>1
  <1>4. /\ FusedU16.f16 = Cat("u16") /\ FusedU16.segs = <<>> /\ FusedU16.is_q8 = FALSE
        /\ FusedU16.bf16 = (\A p \in 1 .. Tensors : host[p].bf16)
    BY DEF FusedU16, Empty, All
  <1> QED BY <1>2, <1>3, <1>4 DEF In16

LEMMA FusesU16 ==
  ASSUME Sound(setup), HostInv, Len(host) = Tensors, setup.group \notin Expert, Convertible,
         NEW p \in 1 .. Tensors
  PROVE  fuse_u16(p) = Halves(p) /\ host[p].bf16 = (Dtype(p) = "BF16")
  <1>1. fuse_u16(p) # <<>>
    BY DEF Convertible, All
  <1>2. Whole(p) /\ U16(p) = Halves(p) /\ Halves(p) # <<>>
    <2>1. Whole(p) /\ Halves(p) # <<>>
      BY HostKinds
    <2> QED BY <2>1, HostForms
  <1>3. CASE host[p] = HostQ8(p) /\ Dtype(p) = "Q8_0"
    <2>1. host[p].u16 = <<>> /\ host[p].q8 = Values(p) /\ host[p].bf16 = FALSE
      BY <1>3 DEF HostQ8, None16
    <2>2. ~load_u16(p)
      BY <1>3 DEF load_u16, UpcastKinds
    <2>3. fuse_u16(p) = q8_to_u16(p)
      BY <1>1, <2>1, <2>2 DEF fuse_u16
    <2>4. q8_to_u16(p) = Halves(p)
      BY <1>3, <2>1 DEF q8_to_u16, Halves, Values, Enc
    <2> QED BY <1>3, <2>1, <2>3, <2>4
  <1>4. CASE host[p] = HostQk(p) /\ load_qk(p)
    <2>1. host[p].u16 = <<>> /\ host[p].q8 = <<>> /\ host[p].bf16 = FALSE
      BY <1>4 DEF HostQk, None16
    <2>2. q8_to_u16(p) = <<>>
      <3>1. DOMAIN <<>> = {}
        OBVIOUS
      <3>2. [x \in {} |-> <<host[p].q8[x], "F16">>] = <<>>
        OBVIOUS
      <3> QED BY <2>1, <3>1, <3>2 DEF q8_to_u16
    <2>3. fuse_u16(p) = U16(p)
      BY <1>1, <2>1, <2>2 DEF fuse_u16
    <2>4. Dtype(p) # "BF16"
      BY <1>4 DEF load_qk, Native
    <2> QED BY <1>2, <2>1, <2>3, <2>4
  <1>5. CASE host[p] = HostU16(p)
    <2>1. host[p].u16 = Halves(p) /\ host[p].bf16 = (Dtype(p) = "BF16")
      BY <1>5 DEF HostU16, None16
    <2> QED BY <1>2, <2>1 DEF fuse_u16
  <1> QED BY <1>3, <1>4, <1>5, HostKinds

LEMMA InFusedMixed ==
  ASSUME Sound(setup), HostInv, Len(host) = Tensors, setup.group \notin Expert, Convertible
  PROVE  /\ (\E p \in 1 .. Tensors : Dtype(p) # "BF16") => In16(FusedMixed)
         /\ In16([FusedMixed EXCEPT !.bf16 = All(LAMBDA p : host[p].bf16)])
  <1> DEFINE all == FlattenSeq([p \in 1 .. Tensors |-> Halves(p)])
             m == [FusedMixed EXCEPT !.bf16 = All(LAMBDA p : host[p].bf16)]
  <1>1. \A p \in 1 .. Tensors : fuse_u16(p) = Halves(p) /\ host[p].bf16 = (Dtype(p) = "BF16")
    BY FusesU16
  <1>2. [p \in 1 .. Tensors |-> fuse_u16(p)] = [p \in 1 .. Tensors |-> Halves(p)]
    BY <1>1
  <1>3. (\A p \in 1 .. Tensors : host[p].bf16) = (\A p \in 1 .. Tensors : Dtype(p) = "BF16")
    BY <1>1
  <1>4. /\ FusedMixed.f16 = all /\ FusedMixed.segs = <<>> /\ FusedMixed.is_q8 = FALSE
        /\ FusedMixed.bf16 = FALSE
    BY <1>2 DEF FusedMixed, Empty
  <1>5. /\ m.f16 = all /\ m.segs = <<>> /\ m.is_q8 = FALSE
        /\ m.bf16 = (\A p \in 1 .. Tensors : host[p].bf16)
    BY <1>2 DEF FusedMixed, Empty, All
  <1> HIDE DEF m
  <1>6. In16(m)
    BY <1>3, <1>5 DEF In16
  <1>7. (\E p \in 1 .. Tensors : Dtype(p) # "BF16") => In16(FusedMixed)
    BY <1>4 DEF In16
  <1> QED BY <1>6, <1>7 DEF m

FitsIn(m) == In16(m) \/ InQ8(m) \/ InQk(m)

LEMMA FusedFits ==
  ASSUME Sound(setup), HostInv, Len(host) = Tensors, setup.group \notin Expert, NEW m \in Fused
  PROVE  FitsIn(m)
  <1>1. CASE OnlyU16
    <2>1. m = FusedU16
      BY <1>1 DEF Fused
    <2>2. \A p \in 1 .. Tensors : ~IsQ8(p) /\ ~IsQk(p)
      <3>1. TAKE p \in 1 .. Tensors
      <3>2. host[p] = HostU16(p)
        <4>1. host[p] = HostOf(p)
          BY HostKept
        <4> QED BY <1>1, <4>1 DEF HostOf, ExpertTensor, OfExperts, OnlyU16
      <3>3. host[p].q8 = <<>> /\ host[p].kind = NoKind
        BY <3>2 DEF HostU16, None16
      <3> QED BY <3>3 DEF IsQ8, IsQk
    <2> QED BY <2>1, <2>2, InFusedU16 DEF FitsIn
  <1>2. CASE ~OnlyU16 /\ setup.engine = "hip"
    <2>1. CASE Some(IsQ8)
      <3>1. All(IsQ8) /\ m = FusedQ8
        BY <1>2, <2>1 DEF Fused
      <3> QED BY <3>1, InFused8 DEF FitsIn
    <2>2. CASE ~Some(IsQ8) /\ Some(IsQk)
      <3>1. CASE KeepQk
        <4>1. m = FusedQk
          BY <1>2, <2>2, <3>1 DEF Fused
        <4> QED BY <1>2, <3>1, <4>1, InFusedQk DEF FitsIn
      <3>2. CASE ~KeepQk
        <4>1. Convertible /\ m = FusedMixed
          BY <1>2, <2>2, <3>2 DEF Fused
        <4>2. PICK p \in 1 .. Tensors : IsQk(p)
          BY <2>2 DEF Some
        <4>3. Dtype(p) # "BF16"
          <5>1. load_qk(p)
            BY <4>2, HostKinds
          <5> QED BY <5>1 DEF load_qk, Native
        <4> QED BY <4>1, <4>3, InFusedMixed DEF FitsIn
      <3> QED BY <3>1, <3>2
    <2>3. CASE ~Some(IsQ8) /\ ~Some(IsQk)
      <3>1. m = FusedU16
        BY <1>2, <2>3 DEF Fused
      <3>2. \A p \in 1 .. Tensors : ~IsQ8(p) /\ ~IsQk(p)
        BY <2>3 DEF Some
      <3> QED BY <3>1, <3>2, InFusedU16 DEF FitsIn
    <2> QED BY <2>1, <2>2, <2>3
  <1>3. CASE ~OnlyU16 /\ setup.engine # "hip"
    <2>1. CASE All(IsQ8)
      <3>1. ~KeepQk
        <4>1. 1 \in 1 .. Tensors
          BY SetupFacts
        <4>2. IsQ8(1)
          BY <2>1, <4>1 DEF All
        <4>3. ~IsQk(1)
          BY <4>1, <4>2, HostKinds
        <4> QED BY <4>1, <4>3 DEF KeepQk, All
      <3>2. m = FusedQ8
        BY <1>3, <2>1, <3>1 DEF Fused
      <3> QED BY <2>1, <3>2, InFused8 DEF FitsIn
    <2>2. CASE ~All(IsQ8) /\ KeepQk
      <3>1. m = FusedQk
        BY <1>3, <2>2 DEF Fused
      <3> QED BY <1>3, <2>2, <3>1, InFusedQk DEF FitsIn
    <2>3. CASE ~All(IsQ8) /\ ~KeepQk
      <3>1. Convertible /\ m = [FusedMixed EXCEPT !.bf16 = All(LAMBDA p : host[p].bf16)]
        BY <1>3, <2>3 DEF Fused
      <3> QED BY <3>1, InFusedMixed DEF FitsIn
    <2> QED BY <2>1, <2>2, <2>3
  <1> QED BY <1>1, <1>2, <1>3

LEMMA LoneFits ==
  ASSUME Sound(setup), HostInv, Len(host) = Tensors, setup.group \notin Expert, Tensors = 1
  PROVE  FitsIn(load_matrix)
  <1>1. \A p \in 1 .. Tensors : p = 1
    BY SetupFacts
  <1>2. 1 \in 1 .. Tensors
    BY SetupFacts
  <1>3. CASE IsQ8(1)
    BY <1>1, <1>3, InFused8 DEF load_matrix, FitsIn, All
  <1>4. CASE ~IsQ8(1) /\ IsQk(1)
    <2>1. KeepQk
      BY <1>1, <1>4 DEF KeepQk, All, SameKind
    <2>2. ~OnlyU16
      BY <1>2, <1>4, HostKinds
    <2> QED BY <1>4, <2>1, <2>2, InFusedQk DEF load_matrix, FitsIn
  <1>5. CASE ~IsQ8(1) /\ ~IsQk(1)
    BY <1>1, <1>5, InFusedU16 DEF load_matrix, FitsIn
  <1> QED BY <1>3, <1>4, <1>5

-----------------------------------------------------------------------------
(***************************************************************************)
(* The experts.                                                            *)
(***************************************************************************)
LEMMA ExpertFacts ==
  ASSUME Sound(setup), setup.group \in Expert
  PROVE  /\ OfExperts /\ Down \in 1 .. Tensors /\ Down < Tensors
         /\ NumExperts \in Nat \ {0} /\ Inner \in Nat \ {0} /\ K \in Nat \ {0}
         /\ dn_n \in Nat \ {0} /\ dn_n = Inner * K /\ gu_n = 2 * dn_n
         /\ Elements(Down) = NumExperts * dn_n
         /\ setup.group = "stacked" => Down = 2 /\ Elements(1) = NumExperts * gu_n
         /\ setup.group # "stacked" => /\ Down = 3
                                       /\ Elements(1) = NumExperts * dn_n
                                       /\ Elements(2) = NumExperts * dn_n
  <1>1. /\ Tensors = Parts[setup.group] /\ Tensors \in 1 .. 4
        /\ setup.group = "stacked" => Tensors = 3
        /\ setup.group # "stacked" => Tensors = 4
    BY SetupFacts DEF Expert, Parts
  <1>2. Down \in 1 .. Tensors /\ Down < Tensors /\ Down + 1 = Tensors /\ Down = Parts[setup.group] - 1
    BY <1>1 DEF Down
  <1>3. /\ setup.rows \in [1 .. Tensors -> Nat \ {0}]
        /\ \A p \in 1 .. Tensors : TensorRows(p) = setup.rows[p]
        /\ K \in Nat \ {0}
    BY SetupFacts DEF Expert, TensorRows
  <1> DEFINE N == NumExperts
             r == setup.rows[Down]
             i == r \div N
  <1>4. N \in Nat \ {0} /\ r \in Nat \ {0} /\ r % N = 0
        /\ \A p \in 1 .. Down - 1 : setup.rows[p] = IF setup.group = "stacked" THEN 2 * r ELSE r
    <2>1. N \in Nat \ {0} /\ r \in Nat \ {0}
      BY <1>1, <1>2, <1>3 DEF NumExperts
    <2>2. N = setup.rows[Down + 1]
      BY <1>2 DEF NumExperts
    <2> QED BY <1>2, <2>1, <2>2 DEF Sound, WellFormed
  <1>5. i \in Nat /\ r = i * N /\ i # 0
    <2> HIDE DEF N, r
    <2>1. i \in Nat /\ r = i * N
      BY <1>4, DivMultiple
    <2>2. 0 * N = 0
      BY <1>4
    <2> HIDE DEF i
    <2> QED BY <1>4, <2>1, <2>2
  <1>6. Elements(Down) = r * K
    BY <1>2, <1>3 DEF Elements
  <1> DEFINE d == i * K
  <1>7. d \in Nat \ {0}
    <2>1. \A x, y \in Nat \ {0} : x * y \in Nat \ {0}
      OBVIOUS
    <2> HIDE DEF i
    <2> QED BY <1>3, <1>5, <2>1
  <1>8. Elements(Down) = d * N /\ d * N = N * d
    <2> HIDE DEF N, r, i
    <2>1. (i * N) * K = (i * K) * N
      BY <1>3, <1>4, <1>5
    <2> QED BY <1>4, <1>5, <1>6, <1>7, <2>1
  <1>9. dn_n = d
    <2> HIDE DEF d
    <2>1. (d * N) \div N = d
      <3> HIDE DEF N
      <3> QED BY <1>4, <1>7, MultipleMod
    <2> QED BY <1>8, <2>1 DEF dn_n
  <1>10. Inner = i
    <2> HIDE DEF i
    <2>1. (i * K) \div K = i
      BY <1>3, <1>5, MultipleMod
    <2> QED BY <1>9, <2>1 DEF Inner
  <1>11. \A p \in 1 .. Down - 1 :
           Elements(p) = IF setup.group = "stacked" THEN N * (2 * d) ELSE N * d
    <2>1. TAKE p \in 1 .. Down - 1
    <2>2. Elements(p) = setup.rows[p] * K
      <3>1. p \in 1 .. Tensors
        BY <1>1, <1>2
      <3> QED BY <1>3, <3>1 DEF Elements
    <2>3. (2 * r) * K = 2 * (r * K) /\ N * (2 * d) = 2 * (N * d)
      <3> HIDE DEF r, d, N
      <3> QED BY <1>3, <1>4, <1>7
    <2> QED BY <1>4, <1>6, <1>8, <2>2, <2>3
  <1>12. OfExperts
    BY DEF OfExperts, Expert
  <1>13. gu_n = 2 * d
    BY <1>9 DEF gu_n
  <1>14. setup.group = "stacked" => Down = 2 /\ 1 \in 1 .. Down - 1
    BY <1>1, <1>2
  <1>15. setup.group # "stacked" => Down = 3 /\ 1 \in 1 .. Down - 1 /\ 2 \in 1 .. Down - 1
    BY <1>1, <1>2
  <1> HIDE DEF d, i, r
  <1> QED BY <1>2, <1>3, <1>4, <1>5, <1>7, <1>8, <1>9, <1>10, <1>11, <1>12, <1>13, <1>14, <1>15 DEF d

LEMMA ExpertHost ==
  ASSUME Sound(setup), setup.group \in Expert, HostInv, Len(host) = Tensors, NEW p \in 1 .. Tensors
  PROVE  /\ Whole(p)
         /\ setup.group # "exps" \/ p = Tensors => host[p] = HostU16(p)
         /\ setup.group = "exps" /\ p # Tensors =>
              host[p] = HostQk(p) /\ Dtype(p) \in {"Q4_K", "Q6_K"} /\ Dtype(p) = Dtype(1)
  <1>1. host[p] = HostOf(p) /\ Loads(p) /\ Whole(p)
    BY HostKept
  <1>2. OfExperts /\ (p # Tensors => p < Tensors) /\ (p = Tensors => ~ (p < Tensors))
    BY ExpertFacts, SetupFacts
  <1> QED BY <1>1, <1>2 DEF HostOf, ExpertTensor, Loads, load_exps

\* The values of one expert in a tensor.
LEMMA PartOfExpert ==
  ASSUME Sound(setup), setup.group \in Expert, HostInv, Len(host) = Tensors,
         NEW p \in 1 .. Tensors, p < Tensors, NEW e \in 0 .. NumExperts - 1,
         NEW n \in Nat \ {0}, Elements(p) = NumExperts * n,
         setup.group = "exps" => n % Vals(Dtype(p)) = 0
  PROVE  ExpertPart(p, e, n) = [x \in 1 .. n |-> <<Value(p, e * n + (x - 1)), Enc(p)>>]
  <1>1. NumExperts \in Nat \ {0} /\ e \in Nat /\ e < NumExperts
    BY ExpertFacts
  <1>2. ASSUME NEW y \in Nat, y < n
        PROVE  e * n + y \in Nat /\ e * n + y < Elements(p)
    <2>1. e * n + y \in Nat /\ e * n + y < NumExperts * n
      BY <1>1, <1>2, BelowProduct
    <2> QED BY <2>1
  <1>3. CASE setup.group # "exps"
    <2> DEFINE h == Halves(p)
               a == e * n
               t == SubSeq(h, a + 1, a + n)
    <2>1. host[p].u16 = h
      BY <1>3, ExpertHost DEF HostU16, None16
    <2>2. (e + 1) * n = a + n /\ a \in Nat
      <3>1. \A x \in Nat : (x + 1) * n = x * n + n /\ x * n \in Nat
        OBVIOUS
      <3> QED BY <1>1, <3>1
    <2>3. ExpertPart(p, e, n) = t
      BY <1>3, <2>1, <2>2 DEF ExpertPart
    <2> DEFINE S == {h[x] : x \in 1 .. Elements(p)}
    <2>4. h \in [1 .. Elements(p) -> S] /\ Elements(p) \in Nat
      <3>1. Elements(p) \in Nat
        BY TensorFacts
      <3> QED BY <3>1 DEF Halves
    <2>5. h \in Seq(S) /\ Len(h) = Elements(p)
      <3> HIDE DEF h, S
      <3> QED BY <2>4, FunctionSeq
    <2>6. a + n <= Elements(p)
      <3>1. n - 1 \in Nat /\ n - 1 < n
        OBVIOUS
      <3>2. e * n + (n - 1) < Elements(p)
        BY <1>2, <3>1
      <3> HIDE DEF a
      <3>3. a + (n - 1) < Elements(p)
        BY <3>2 DEF a
      <3> QED BY <2>2, <2>4, <3>3
    <2>7. t = [x \in 1 .. n |-> h[a + x]]
      <3> HIDE DEF h, S, a
      <3>1. /\ a + 1 \in 1 .. Len(h) + 1 /\ a + n \in 0 .. Len(h) /\ a + 1 <= a + n
            /\ (a + n) - (a + 1) + 1 = n
        BY <2>2, <2>4, <2>5, <2>6
      <3>2. /\ t \in Seq(S) /\ Len(t) = n
            /\ \A x \in 1 .. n : t[x] = h[(a + 1) + x - 1]
        <4>1. /\ t \in Seq(S)
              /\ Len(t) = IF a + 1 <= a + n THEN (a + n) - (a + 1) + 1 ELSE 0
              /\ \A x \in 1 .. (a + n) - (a + 1) + 1 : t[x] = h[(a + 1) + x - 1]
          BY <2>5, <3>1, SubSeqProperties
        <4> HIDE DEF t
        <4> QED BY <3>1, <4>1
      <3> HIDE DEF t
      <3>3. t = [x \in 1 .. n |-> t[x]]
        BY <3>2
      <3>4. \A x \in 1 .. n : (a + 1) + x - 1 = a + x
        BY <2>2
      <3> QED BY <3>2, <3>3, <3>4
    <2>8. \A x \in 1 .. n : h[a + x] = <<Value(p, a + (x - 1)), Enc(p)>>
      <3>1. TAKE x \in 1 .. n
      <3> HIDE DEF a
      <3>2. a + x \in 1 .. Elements(p) /\ (a + x) - 1 = a + (x - 1)
        BY <2>2, <2>4, <2>6
      <3> QED BY <3>2 DEF Halves
    <2> HIDE DEF t, h
    <2> QED BY <2>3, <2>7, <2>8
  <1>4. CASE setup.group = "exps"
    <2> DEFINE v == Vals(Dtype(p))
               m == n \div v
    <2>1. host[p] = HostQk(p) /\ Dtype(p) \in {"Q4_K", "Q6_K"} /\ Whole(p)
      BY <1>4, ExpertHost
    <2>2. host[p].qk = RawBlocks(p) /\ Enc(p) = "F16"
      BY <2>1 DEF HostQk, None16, Enc
    <2>3. v \in Nat \ {0} /\ n = m * v /\ m \in Nat
      <3>1. v \in Nat \ {0} /\ n % v = 0
        BY <1>4, TensorFacts, GeometryFacts
      <3> HIDE DEF v
      <3> QED BY <3>1, DivMultiple
    <2>4. Elements(p) = Blocks(p) * v /\ Blocks(p) \in Nat
      BY <2>1, WholeFacts
    <2>5. ASSUME NEW x \in 1 .. n
          PROVE  LET y == x - 1
                     b == e * m + y \div v
                 IN /\ b + 1 \in 1 .. Blocks(p)
                    /\ Element(p, b, y % v) = Value(p, e * n + y)
      <3> DEFINE y == x - 1
                 q == y \div v
                 i == y % v
                 em == e * m
                 b == em + q
      <3>1. y \in Nat /\ y < n
        OBVIOUS
      <3>2. q \in Nat /\ i \in Nat /\ i < v /\ y = q * v + i
        <4> HIDE DEF y, v
        <4>1. q \in Nat /\ i \in 0 .. v - 1 /\ y = q * v + i
          BY <2>3, <3>1, SplitPosition
        <4> HIDE DEF q, i
        <4> QED BY <2>3, <4>1
      <3>3. em \in Nat /\ em * v = e * n
        <4>1. \A c, d \in Nat : c * d \in Nat /\ (c * d) * v = c * (d * v)
          BY <2>3
        <4> HIDE DEF v, m
        <4> QED BY <1>1, <2>3, <4>1
      <3>4. e * n + y = b * v + i /\ b \in Nat
        <4> HIDE DEF y, v, q, i, m
        <4>1. b * v = em * v + q * v
          <5>1. \A c, d \in Nat : (c + d) * v = c * v + d * v
            BY <2>3
          <5> HIDE DEF em
          <5> QED BY <3>2, <3>3, <5>1
        <4> DEFINE en == e * n
                   qv == q * v
        <4>2. en \in Nat /\ qv \in Nat
          <5>1. \A c, d \in Nat : c * d \in Nat
            OBVIOUS
          <5> QED BY <1>1, <2>3, <3>2, <5>1
        <4>3. b * v = en + qv /\ y = qv + i
          BY <3>2, <3>3, <4>1
        <4> HIDE DEF en, qv
        <4>4. en + y = b * v + i
          BY <3>2, <4>2, <4>3
        <4> HIDE DEF em
        <4> QED BY <3>2, <3>3, <4>4 DEF en
      <3> HIDE DEF b, i, y
      <3>5. (b * v + i) \div v = b /\ (b * v + i) % v = i
        <4> HIDE DEF v
        <4> QED BY <2>3, <3>2, <3>4, JoinPosition
      <3>6. b < Blocks(p)
        <4>1. e * n + y < Blocks(p) * v /\ e * n + y \in Nat
          BY <1>2, <2>4, <3>1
        <4>2. b * v + i \in Nat /\ b * v + i < Blocks(p) * v
          BY <3>4, <4>1
        <4> HIDE DEF v
        <4>3. (b * v + i) \div v < Blocks(p)
          BY <2>3, <2>4, <4>2, DivBelow
        <4> QED BY <3>5, <4>3
      <3>7. b + 1 \in 1 .. Blocks(p)
        BY <2>4, <3>4, <3>6
      <3>8. Element(p, b, i) = Value(p, e * n + y)
        BY <3>4, <3>5 DEF Element, Value
      <3> QED BY <3>7, <3>8 DEF b, y, i
    <2>6. \A x \in 1 .. n :
            LET y == x - 1
                b == host[p].qk[e * m + y \div v + 1][2]
            IN Element(p, b, y % v) = Value(p, e * n + y)
      <3>1. TAKE x \in 1 .. n
      <3> DEFINE y == x - 1
                 b == e * m + y \div v
      <3>2. b + 1 \in 1 .. Blocks(p) /\ Element(p, b, y % v) = Value(p, e * n + y)
        BY <2>5
      <3>3. b \in Int
        <4>1. e * m \in Nat
          <5>1. \A c, d \in Nat : c * d \in Nat
            OBVIOUS
          <5> HIDE DEF m
          <5> QED BY <1>1, <2>3, <5>1
        <4>2. y \div v \in Nat
          <5>1. y \in Nat
            OBVIOUS
          <5> HIDE DEF y, v
          <5> QED BY <2>3, <5>1, DivFacts
        <4> HIDE DEF y, v, m
        <4> QED BY <4>1, <4>2
      <3>4. host[p].qk[b + 1][2] = b
        <4> HIDE DEF b
        <4>1. RawBlocks(p)[b + 1] = <<p, (b + 1) - 1, Dtype(p)>>
          BY <3>2 DEF RawBlocks
        <4> QED BY <2>2, <3>3, <4>1
      <3> QED BY <3>2, <3>4
    <2>7. ExpertPart(p, e, n)
            = [x \in 1 .. n |->
                 <<Element(p, host[p].qk[e * m + (x - 1) \div v + 1][2], (x - 1) % v), "F16">>]
      BY <1>4 DEF ExpertPart
    <2> HIDE DEF v, m
    <2> QED BY <2>2, <2>6, <2>7
  <1> QED BY <1>3, <1>4

\* What is staged for an expert: place x of its gate and up rows, place x of
\* its down rows.
StagedGu(e, x) ==
  IF setup.group = "stacked" THEN <<Value(1, e * gu_n + x), Enc(1)>>
  ELSE IF x < dn_n THEN <<Value(1, e * dn_n + x), Enc(1)>>
  ELSE <<Value(2, e * dn_n + (x - dn_n)), Enc(2)>>

LEMMA StagedFacts ==
  ASSUME Sound(setup), setup.group \in Expert, HostInv, Len(host) = Tensors,
         dequant_blocks_f16, NEW e \in 0 .. NumExperts - 1
  PROVE  /\ Staged(e).expert = e
         /\ \A x \in Nat : x < gu_n => Staged(e).gu[x + 1] = StagedGu(e, x)
         /\ \A x \in Nat : x < dn_n =>
              Staged(e).dn[x + 1] = <<Value(Down, e * dn_n + x), Enc(Down)>>
  <1>1. /\ Down \in 1 .. Tensors /\ Down < Tensors
        /\ dn_n \in Nat \ {0} /\ gu_n = 2 * dn_n
        /\ Elements(Down) = NumExperts * dn_n
        /\ setup.group = "stacked" => Down = 2 /\ Elements(1) = NumExperts * gu_n
        /\ setup.group # "stacked" => /\ Down = 3
                                      /\ Elements(1) = NumExperts * dn_n
                                      /\ Elements(2) = NumExperts * dn_n
    BY ExpertFacts
  <1>2. \A p \in 1 .. Down : setup.group = "exps" => dn_n % Vals(Dtype(p)) = 0
    BY DEF dequant_blocks_f16
  <1>3. 1 \in 1 .. Tensors /\ 1 < Tensors /\ 1 \in 1 .. Down /\ gu_n \in Nat \ {0}
    BY <1>1
  <1>4. setup.group # "stacked" => 2 \in 1 .. Tensors /\ 2 < Tensors /\ 2 \in 1 .. Down
    BY <1>1
  <1>5. Staged(e).expert = e
    BY DEF Staged
  <1>6. ASSUME NEW x \in Nat, x < dn_n
        PROVE  Staged(e).dn[x + 1] = <<Value(Down, e * dn_n + x), Enc(Down)>>
    <2>1. Down \in 1 .. Down
      BY <1>1
    <2>2. ExpertPart(Down, e, dn_n)
            = [y \in 1 .. dn_n |-> <<Value(Down, e * dn_n + (y - 1)), Enc(Down)>>]
      BY <1>1, <1>2, <2>1, PartOfExpert
    <2>3. x + 1 \in 1 .. dn_n /\ (x + 1) - 1 = x
      BY <1>1, <1>6
    <2> QED BY <2>2, <2>3 DEF Staged
  <1>7. CASE setup.group = "stacked"
    <2>1. SUFFICES ASSUME NEW x \in Nat, x < gu_n
                   PROVE  Staged(e).gu[x + 1] = StagedGu(e, x)
      BY <1>5, <1>6
    <2>2. ExpertPart(1, e, gu_n)
            = [y \in 1 .. gu_n |-> <<Value(1, e * gu_n + (y - 1)), Enc(1)>>]
      BY <1>1, <1>3, <1>7, PartOfExpert
    <2>3. x + 1 \in 1 .. gu_n /\ (x + 1) - 1 = x
      BY <1>3, <2>1
    <2> QED BY <1>7, <2>2, <2>3 DEF Staged, StagedGu
  <1>8. CASE setup.group # "stacked"
    <2>1. SUFFICES ASSUME NEW x \in Nat, x < gu_n
                   PROVE  Staged(e).gu[x + 1] = StagedGu(e, x)
      BY <1>5, <1>6
    <2> DEFINE f == ExpertPart(1, e, dn_n)
               g == ExpertPart(2, e, dn_n)
    <2>2. f = [y \in 1 .. dn_n |-> <<Value(1, e * dn_n + (y - 1)), Enc(1)>>]
      BY <1>1, <1>2, <1>3, <1>8, PartOfExpert
    <2>3. g = [y \in 1 .. dn_n |-> <<Value(2, e * dn_n + (y - 1)), Enc(2)>>]
      BY <1>1, <1>2, <1>4, <1>8, PartOfExpert
    <2>4. Staged(e).gu = f \o g
      BY <1>8 DEF Staged
    <2> HIDE DEF f, g
    <2> DEFINE S == {f[y] : y \in 1 .. dn_n} \cup {g[y] : y \in 1 .. dn_n}
    <2>5. f \in [1 .. dn_n -> S] /\ g \in [1 .. dn_n -> S] /\ dn_n \in Nat
      BY <1>1, <2>2, <2>3
    <2> HIDE DEF S
    <2>6. f \in Seq(S) /\ g \in Seq(S) /\ Len(f) = dn_n /\ Len(g) = dn_n
      BY <2>5, FunctionSeq
    <2>7. \A y \in 1 .. dn_n + dn_n : (f \o g)[y] = IF y <= dn_n THEN f[y] ELSE g[y - dn_n]
      BY <2>6, ConcatProperties
    <2>8. x + 1 \in 1 .. dn_n + dn_n
      BY <1>1, <2>1
    <2>9. CASE x < dn_n
      <3>1. x + 1 \in 1 .. dn_n /\ x + 1 <= dn_n /\ (x + 1) - 1 = x
        BY <1>1, <2>9
      <3> QED BY <1>8, <2>2, <2>4, <2>7, <2>8, <2>9, <3>1 DEF StagedGu
    <2>10. CASE ~ (x < dn_n)
      <3>1. (x + 1) - dn_n \in 1 .. dn_n /\ ~ (x + 1 <= dn_n)
            /\ ((x + 1) - dn_n) - 1 = x - dn_n
        BY <1>1, <2>8, <2>10
      <3> QED BY <1>8, <2>3, <2>4, <2>7, <2>8, <2>10, <3>1 DEF StagedGu
    <2> QED BY <2>9, <2>10
  <1> QED BY <1>7, <1>8

\* The slots of a layer: each holds an expert as it was staged.
Slots(slots) ==
  \A s \in DOMAIN slots : /\ dequant_blocks_f16 /\ s \in 0 .. NumExperts - 1
                          /\ \E e \in 0 .. NumExperts - 1 : slots[s] = Staged(e)
Kept(slots) == [f16 |-> <<>>, bf16 |-> (Dtype(Tensors) = "BF16"), is_q8 |-> FALSE, q8 |-> <<>>,
                qsc |-> <<>>, qk |-> <<>>, segs |-> <<>>, slots |-> slots]
SlotInv == \E slots : Slots(slots) /\ w = Kept(slots)

LEMMA SlotFacts ==
  ASSUME Sound(setup), setup.group \in Expert, HostInv, Len(host) = Tensors, SlotInv,
         NEW e \in 0 .. NumExperts - 1, NEW s \in SlotOf(e)
  PROVE  /\ dequant_blocks_f16 /\ s \in 0 .. NumExperts - 1
         /\ s \in DOMAIN w.slots /\ w.slots[s] = Staged(e)
         /\ w.bf16 = (Dtype(Tensors) = "BF16")
  <1>1. PICK slots : Slots(slots) /\ w = Kept(slots)
    BY DEF SlotInv
  <1>2. w.slots = slots /\ w.bf16 = (Dtype(Tensors) = "BF16")
    BY <1>1 DEF Kept
  <1>3. s \in DOMAIN slots /\ slots[s].expert = e
    BY <1>2 DEF SlotOf
  <1>4. PICK y \in 0 .. NumExperts - 1 : slots[s] = Staged(y)
    BY <1>1, <1>3 DEF Slots
  <1>5. Staged(y).expert = y
    BY DEF Staged
  <1> QED BY <1>1, <1>2, <1>3, <1>4, <1>5 DEF Slots

\* The place of a slot and what is read at a place in it.
LEMMA SlotAt ==
  ASSUME Sound(setup), setup.group \in Expert, HostInv, Len(host) = Tensors, SlotInv,
         NEW e \in 0 .. NumExperts - 1, NEW s \in SlotOf(e)
  PROVE  /\ \A x \in Nat : x < gu_n =>
              SlotRead("gu", gu_n, gu_off(s) + x) = StagedGu(e, x)[1]
         /\ \A x \in Nat : x < dn_n =>
              SlotRead("dn", dn_n, s * dn_n + x) = Value(Down, e * dn_n + x)
  <1>1. /\ dequant_blocks_f16 /\ s \in 0 .. NumExperts - 1
        /\ s \in DOMAIN w.slots /\ w.slots[s] = Staged(e)
        /\ w.bf16 = (Dtype(Tensors) = "BF16")
    BY SlotFacts
  <1>2. /\ \A x \in Nat : x < gu_n => Staged(e).gu[x + 1] = StagedGu(e, x)
        /\ \A x \in Nat : x < dn_n =>
              Staged(e).dn[x + 1] = <<Value(Down, e * dn_n + x), Enc(Down)>>
    BY <1>1, StagedFacts
  <1>3. /\ dn_n \in Nat \ {0} /\ gu_n = 2 * dn_n /\ gu_n \in Nat \ {0}
        /\ NumExperts \in Nat \ {0} /\ dn_n = Inner * K /\ Inner \in Nat \ {0}
        /\ K \in Nat \ {0} /\ Down \in 1 .. Tensors /\ Tensors \in Nat /\ Down < Tensors
        /\ setup.group # "stacked" => Down = 3
    BY ExpertFacts, SetupFacts
  <1>4. s \in Nat
    BY <1>1, <1>3
  <1>5. \A p \in 1 .. Tensors : (Enc(p) = "BF16") = w.bf16
    <2>1. Tensors \in 1 .. Tensors
      BY SetupFacts
    <2>2. (Enc(Tensors) = "BF16") = (Dtype(Tensors) = "BF16")
      BY DEF Enc
    <2> QED BY <1>1, <2>1, <2>2, Uniform16
  <1>6. setup.engine = "vulkan" => s = 0
    <2>1. SUFFICES ASSUME setup.engine = "vulkan", NumExperts > 1 PROVE FALSE
      BY <1>1, <1>3
    <2>2. Tensors = Parts[setup.group] /\ setup.rows[Parts[setup.group]] > 1
      BY <2>1, SetupFacts DEF NumExperts
    <2>3. setup.group = "exps" =>
            ((setup.rows[3] * setup.hidden) \div setup.rows[4]) % Vals(setup.dtypes[1]) = 0
      <3>1. SUFFICES ASSUME setup.group = "exps"
                     PROVE  ((setup.rows[3] * setup.hidden) \div setup.rows[4])
                              % Vals(setup.dtypes[1]) = 0
        OBVIOUS
      <3>2. Tensors = 4 /\ Down = 3
        BY <1>3, <3>1, SetupFacts DEF Parts
      <3>3. dn_n = (setup.rows[3] * setup.hidden) \div setup.rows[4]
        BY <3>1, <3>2 DEF dn_n, Elements, TensorRows, NumExperts, K
      <3>4. 1 \in 1 .. Down
        BY <3>2
      <3>5. dn_n % Vals(Dtype(1)) = 0
        BY <1>1, <3>1, <3>4 DEF dequant_blocks_f16
      <3> QED BY <3>3, <3>5 DEF Dtype
    <2>4. HalfStride(setup)
      BY <2>1, <2>2, <2>3 DEF HalfStride
    <2> QED BY <2>4 DEF Sound
  <1>7. gu_off(s) = s * gu_n
    <2>1. CASE setup.engine = "hip"
      <3>1. \A a, b, c \in Nat : a * 2 * b * c = a * (2 * (b * c))
        OBVIOUS
      <3> QED BY <1>3, <1>4, <2>1, <3>1 DEF gu_off
    <2>2. CASE setup.engine = "vulkan"
      <3>1. s = 0
        BY <1>6, <2>2
      <3>2. \A b, c \in Nat : 0 * b * c = 0 /\ 0 * b = 0
        OBVIOUS
      <3> QED BY <1>3, <2>2, <3>1, <3>2 DEF gu_off
    <2> QED BY <2>1, <2>2, SetupFacts
  <1>8. ASSUME NEW x \in Nat, x < gu_n
        PROVE  SlotRead("gu", gu_n, gu_off(s) + x) = StagedGu(e, x)[1]
    <2>1. (s * gu_n + x) \div gu_n = s /\ (s * gu_n + x) % gu_n = x
      BY <1>3, <1>4, <1>8, JoinPosition
    <2>2. w.slots[s]["gu"][x + 1] = StagedGu(e, x)
      BY <1>1, <1>2, <1>8
    <2>3. (StagedGu(e, x)[2] = "BF16") = w.bf16
      <3>1. 1 \in 1 .. Tensors /\ (setup.group # "stacked" => 2 \in 1 .. Tensors)
        BY <1>3
      <3> QED BY <1>5, <3>1 DEF StagedGu
    <2> HIDE DEF StagedGu
    <2>4. SlotRead("gu", gu_n, s * gu_n + x) = StagedGu(e, x)[1]
      BY <1>1, <2>1, <2>2, <2>3 DEF SlotRead
    <2> QED BY <1>7, <2>4
  <1>9. ASSUME NEW x \in Nat, x < dn_n
        PROVE  SlotRead("dn", dn_n, s * dn_n + x) = Value(Down, e * dn_n + x)
    <2> DEFINE v == <<Value(Down, e * dn_n + x), Enc(Down)>>
    <2>1. (s * dn_n + x) \div dn_n = s /\ (s * dn_n + x) % dn_n = x
      BY <1>3, <1>4, <1>9, JoinPosition
    <2>2. w.slots[s]["dn"][x + 1] = v
      BY <1>1, <1>2, <1>9
    <2>3. (v[2] = "BF16") = w.bf16 /\ v[1] = Value(Down, e * dn_n + x)
      BY <1>3, <1>5
    <2> HIDE DEF v
    <2>4. SlotRead("dn", dn_n, s * dn_n + x) = v[1]
      BY <1>1, <2>1, <2>2, <2>3 DEF SlotRead
    <2> QED BY <2>3, <2>4
  <1> QED BY <1>8, <1>9

LEMMA ExpertRight ==
  ASSUME Sound(setup), setup.group \in Expert, HostInv, Len(host) = Tensors, SlotInv,
         NEW e \in 0 .. NumExperts - 1, NEW s \in SlotOf(e), NEW ck \in ExpertReads
  PROVE  moe_ffn_kernel(s, ck[1], ck[2]) = StoredExpert(e, ck[1], ck[2])
  <1> DEFINE c == ck[1]
             k == ck[2]
  <1>1. /\ dn_n \in Nat \ {0} /\ gu_n = 2 * dn_n /\ gu_n \in Nat \ {0}
        /\ NumExperts \in Nat \ {0} /\ dn_n = Inner * K /\ Inner \in Nat \ {0}
        /\ K \in Nat \ {0} /\ e \in Nat
        /\ setup.group = "stacked" => Down = 2
        /\ setup.group # "stacked" => Down = 3
    BY ExpertFacts
  <1>2. /\ c \in Nat /\ k \in Nat
        /\ \/ c < 2 * Inner /\ k < K
           \/ ~ (c < 2 * Inner) /\ c - 2 * Inner < K /\ k < Inner
    <2>1. \/ c \in 0 .. 2 * Inner - 1 /\ k \in 0 .. K - 1
          \/ c \in 2 * Inner .. 2 * Inner + K - 1 /\ k \in 0 .. Inner - 1
      BY DEF ExpertReads
    <2> HIDE DEF c, k
    <2> QED BY <1>1, <2>1
  <1> HIDE DEF c, k
  <1> SUFFICES moe_ffn_kernel(s, c, k) = StoredExpert(e, c, k)
    BY DEF c, k
  <1>3. s \in Nat
    BY <1>1, SlotFacts
  <1>4. \A a, b \in Nat : a * b \in Nat
    OBVIOUS
  <1>5. CASE c < 2 * Inner
    <2> DEFINE x == c * K + k
               cK == c * K
    <2>1. x \in Nat /\ x < gu_n
      <3>1. 2 * Inner \in Nat /\ K \in Nat /\ (2 * Inner) * K = 2 * (Inner * K)
        BY <1>1
      <3>2. c * K + k \in Nat /\ c * K + k < (2 * Inner) * K
        BY <1>2, <1>5, <3>1, BelowProduct
      <3> QED BY <1>1, <3>1, <3>2
    <2>2. moe_ffn_kernel(s, c, k) = SlotRead("gu", gu_n, gu_off(s) + c * K + k)
      BY <1>5 DEF moe_ffn_kernel
    <2>3. gu_off(s) + c * K + k = gu_off(s) + x
      <3>1. gu_off(s) \in Nat /\ cK \in Nat
        <4>1. s * 2 \in Nat
          BY <1>3
        <4>2. s * 2 * Inner \in Nat /\ s * Inner \in Nat
          BY <1>1, <1>3, <1>4, <4>1
        <4>3. s * 2 * Inner * K \in Nat /\ s * Inner * K \in Nat
          BY <1>1, <1>4, <4>2
        <4> QED BY <1>1, <1>2, <1>4, <4>3 DEF gu_off
      <3>2. x = cK + k
        OBVIOUS
      <3> HIDE DEF cK, x
      <3>3. gu_off(s) + cK + k = gu_off(s) + x
        BY <1>2, <3>1, <3>2
      <3> QED BY <3>3 DEF cK
    <2>4. moe_ffn_kernel(s, c, k) = StagedGu(e, x)[1]
      <3> HIDE DEF x
      <3> QED BY <2>1, <2>2, <2>3, SlotAt
    <2>5. CASE setup.group = "stacked"
      <3>1. StoredExpert(e, c, k) = Value(1, e * gu_n + c * K + k)
        <4>1. ~ (c >= 2 * Inner)
          BY <1>1, <1>2, <1>5
        <4> QED BY <1>1, <2>5, <4>1 DEF StoredExpert, Value
      <3>2. e * gu_n + c * K + k = e * gu_n + x
        <4> DEFINE eg == e * gu_n
        <4>1. eg \in Nat /\ cK \in Nat /\ x = cK + k
          BY <1>1, <1>2, <1>4
        <4> HIDE DEF cK, x, eg
        <4>2. eg + cK + k = eg + x
          BY <1>2, <4>1
        <4> QED BY <4>2 DEF cK, eg
      <3>3. StagedGu(e, x)[1] = Value(1, e * gu_n + x)
        BY <2>5 DEF StagedGu
      <3> HIDE DEF x
      <3> QED BY <2>4, <3>1, <3>2, <3>3
    <2>6. CASE setup.group # "stacked"
      <3> DEFINE ed == e * dn_n
                 j == c % Inner
                 p == IF c < Inner THEN 1 ELSE 2
      <3>1. StoredExpert(e, c, k) = Value(p, e * dn_n + j * K + k)
        <4>1. ~ (c >= 2 * Inner)
          BY <1>1, <1>2, <1>5
        <4> HIDE DEF j
        <4>2. Down # p
          BY <1>1, <2>6
        <4> HIDE DEF p
        <4>3. StoredExpert(e, c, k)
                = <<p, e * dn_n + j * K + k, Means[Dtype(p)][(e * dn_n + j * K + k) % Vals(Dtype(p))]>>
          BY <2>6, <4>1, <4>2 DEF StoredExpert, j, p
        <4> QED BY <4>3 DEF Value
      <3>2. ed \in Nat /\ cK \in Nat /\ x = cK + k
        BY <1>1, <1>2, <1>4
      <3>3. CASE c < Inner
        <4>1. x < dn_n
          <5>1. c * K + k < Inner * K
            BY <1>1, <1>2, <1>5, <3>3, BelowProduct
          <5> QED BY <1>1, <5>1
        <4>2. j = c
          <5>1. /\ 0 \in Nat /\ 0 * Inner + c = c
            BY <1>1, <1>2
          <5>2. (0 * Inner + c) % Inner = c
            BY <1>1, <1>2, <3>3, <5>1, JoinPosition
          <5> QED BY <5>1, <5>2
        <4> HIDE DEF j
        <4>3. e * dn_n + j * K + k = e * dn_n + x
          <5> HIDE DEF cK, x, ed
          <5>1. ed + cK + k = ed + x
            BY <1>2, <3>2
          <5> QED BY <4>2, <5>1 DEF cK, ed
        <4>4. StagedGu(e, x)[1] = Value(1, e * dn_n + x)
          <5> HIDE DEF x
          <5> QED BY <2>6, <4>1 DEF StagedGu
        <4> HIDE DEF x
        <4> QED BY <2>4, <3>1, <3>3, <4>3, <4>4
      <3>4. CASE ~ (c < Inner)
        <4> DEFINE d == c - Inner
                   dK == d * K
        <4>1. d \in Nat /\ d < Inner /\ c = d + Inner
          BY <1>1, <1>2, <1>5, <3>4
        <4>2. j = d
          <5>1. 1 \in Nat /\ 1 * Inner + d = c
            BY <1>1, <1>2, <4>1
          <5> HIDE DEF d
          <5>2. (1 * Inner + d) % Inner = d
            BY <1>1, <4>1, <5>1, JoinPosition
          <5> QED BY <5>1, <5>2
        <4>3. cK = dK + dn_n /\ dK \in Nat
          <5>1. \A a, b \in Nat : (a + b) * K = a * K + b * K
            BY <1>1
          <5> HIDE DEF d
          <5>2. (d + Inner) * K = d * K + Inner * K
            BY <1>1, <4>1, <5>1
          <5>3. d * K \in Nat
            BY <1>1, <1>4, <4>1
          <5> QED BY <1>1, <4>1, <5>2, <5>3
        <4> HIDE DEF j
        <4>4. e * dn_n + j * K + k = e * dn_n + (x - dn_n) /\ ~ (x < dn_n)
          <5>0. j * K = dK
            BY <4>2
          <5> HIDE DEF cK, x, ed, dK, d
          <5>1. ed + dK + k = ed + (x - dn_n) /\ ~ (x < dn_n)
            BY <1>1, <1>2, <3>2, <4>3
          <5> QED BY <5>0, <5>1 DEF ed
        <4>5. StagedGu(e, x)[1] = Value(2, e * dn_n + (x - dn_n))
          <5> HIDE DEF x
          <5> QED BY <2>6, <4>4 DEF StagedGu
        <4> HIDE DEF x, d
        <4> QED BY <2>4, <3>1, <3>4, <4>4, <4>5
      <3> QED BY <3>3, <3>4
    <2> QED BY <2>5, <2>6
  <1>6. CASE ~ (c < 2 * Inner)
    <2> DEFINE d == c - 2 * Inner
               dI == d * Inner
               x == dI + k
               sd == s * Inner * K
               ed == e * dn_n
    <2>1. d \in Nat /\ d < K /\ k < Inner
      BY <1>1, <1>2, <1>6
    <2>2. x \in Nat /\ x < dn_n /\ dI \in Nat
      <3> HIDE DEF d
      <3>1. d * Inner + k \in Nat /\ d * Inner + k < K * Inner
        BY <1>1, <1>2, <2>1, BelowProduct
      <3>2. K * Inner = Inner * K
        BY <1>1
      <3>3. dI \in Nat
        BY <1>1, <1>4, <2>1
      <3> QED BY <1>1, <3>1, <3>2, <3>3
    <2>3. sd = s * dn_n /\ sd \in Nat
      <3>1. \A a, b, g \in Nat : a * b * g = a * (b * g)
        OBVIOUS
      <3>2. sd = s * dn_n
        BY <1>1, <1>3, <3>1
      <3> QED BY <1>1, <1>3, <1>4, <3>2
    <2>4. moe_ffn_kernel(s, c, k) = SlotRead("dn", dn_n, sd + dI + k)
      BY <1>6 DEF moe_ffn_kernel
    <2>5. sd + dI + k = s * dn_n + x
      <3>1. x = dI + k
        OBVIOUS
      <3> HIDE DEF x, sd, dI
      <3>2. sd + dI + k = sd + x
        BY <1>2, <2>2, <2>3, <3>1
      <3> QED BY <2>3, <3>2
    <2>6. moe_ffn_kernel(s, c, k) = Value(Down, e * dn_n + x)
      <3> HIDE DEF x, sd, dI
      <3> QED BY <2>2, <2>4, <2>5, SlotAt
    <2>7. StoredExpert(e, c, k) = Value(Down, ed + dI + k)
      <3>1. c >= 2 * Inner
        BY <1>1, <1>2, <1>6
      <3> QED BY <3>1 DEF StoredExpert, Value
    <2>8. ed + dI + k = ed + x
      <3>1. x = dI + k /\ ed \in Nat
        BY <1>1, <1>4
      <3> HIDE DEF x, ed, dI
      <3> QED BY <1>2, <2>2, <3>1
    <2> HIDE DEF x, dI
    <2> QED BY <2>6, <2>7, <2>8
  <1> QED BY <1>5, <1>6

-----------------------------------------------------------------------------
(***************************************************************************)
(* The invariant: the host has the tensors read so far, a matrix that is   *)
(* ready has one of the three forms, the slots of a sparse layer hold      *)
(* experts as they were staged, and the last product was right.            *)
(***************************************************************************)
WeightInv ==
  /\ setup \in Setups
  /\ HostInv
  /\ phase = "ready" =>
       /\ Len(host) = Tensors
       /\ IF setup.group \in Expert THEN SlotInv ELSE Fits
  /\ ReadsItsOwnRows

\* What depends on the setup only.
LEMMA SameSetup ==
  ASSUME setup' = setup
  PROVE  /\ Tensors' = Tensors /\ K' = K /\ NumExperts' = NumExperts /\ Slices' = Slices
         /\ OfExperts' = OfExperts /\ dequant_blocks_f16' = dequant_blocks_f16
         /\ \A p : HostOf(p)' = HostOf(p) /\ Loads(p)' = Loads(p) /\ Dtype(p)' = Dtype(p)
         /\ \A r, k : Stored(r, k)' = Stored(r, k)
         /\ \A e, c, k : StoredExpert(e, c, k)' = StoredExpert(e, c, k)
  <1>1. /\ Tensors' = Tensors /\ K' = K /\ NumExperts' = NumExperts /\ OfExperts' = OfExperts
        /\ OnlyU16' = OnlyU16 /\ Gguf' = Gguf /\ Native' = Native /\ MoeSupported' = MoeSupported
        /\ \A p : Dtype(p)' = Dtype(p) /\ TensorRows(p)' = TensorRows(p)
    BY DEF Tensors, K, NumExperts, OfExperts, OnlyU16, Gguf, Native, MoeSupported, Dtype, TensorRows
  <1>2. Slices' = Slices
    BY DEF Slices
  <1>3. ASSUME NEW r, NEW k PROVE Stored(r, k)' = Stored(r, k)
    BY DEF Stored, Dtype, TensorRows, K, Tensors
  <1>4. ASSUME NEW e, NEW c, NEW k PROVE StoredExpert(e, c, k)' = StoredExpert(e, c, k)
    BY DEF StoredExpert, Inner, dn_n, gu_n, Down, NumExperts, Elements, Tensors, TensorRows, K, Dtype
  <1>5. ASSUME NEW p PROVE HostOf(p)' = HostOf(p)
    <2>1. Elements(p)' = Elements(p) /\ Blocks(p)' = Blocks(p) /\ Enc(p)' = Enc(p)
          /\ Readable(p)' = Readable(p)
      BY <1>1 DEF Elements, Blocks, Enc, Readable, Tiled
    <2>2. Values(p)' = Values(p) /\ Halves(p)' = Halves(p)
      BY DEF Values, Halves, Value, Enc, Dtype, Elements, TensorRows, K
    <2>3. Scales(p)' = Scales(p) /\ RawBlocks(p)' = RawBlocks(p)
      BY DEF Scales, RawBlocks, Blocks, Dtype, Elements, TensorRows, K
    <2>4. HostQ8(p)' = HostQ8(p) /\ HostQk(p)' = HostQk(p) /\ HostU16(p)' = HostU16(p)
      BY <1>1, <2>2, <2>3 DEF HostQ8, HostQk, HostU16
    <2>5. load_q8(p)' = load_q8(p) /\ load_qk(p)' = load_qk(p) /\ ExpertTensor(p)' = ExpertTensor(p)
      BY <1>1, <2>1 DEF load_q8, load_qk, ExpertTensor
    <2> QED BY <1>1, <2>4, <2>5 DEF HostOf
  <1>6. ASSUME NEW p PROVE Loads(p)' = Loads(p)
    BY DEF Loads, ExpertTensor, OfExperts, OnlyU16, Dtype, Tensors, load_q8, load_qk, load_u16,
           load_exps, mapped, MoeSupported, Gguf, Readable, Tiled, Native, Elements, TensorRows, K
  <1>7. dequant_blocks_f16' = dequant_blocks_f16
    BY DEF dequant_blocks_f16, Down, Tensors, dn_n, Elements, TensorRows, K, Dtype, NumExperts
  <1> QED BY <1>1, <1>2, <1>3, <1>4, <1>5, <1>6, <1>7

LEMMA SameHost ==
  ASSUME setup' = setup, host' = host, HostInv
  PROVE  HostInv' /\ \A e : Staged(e)' = Staged(e)
  <1>1. HostInv'
    BY SameSetup DEF HostInv
  <1>2. ASSUME NEW e PROVE Staged(e)' = Staged(e)
    BY DEF Staged, ExpertPart, Element, gu_n, dn_n, Down, Tensors, Elements, TensorRows, K,
           Dtype, NumExperts
  <1> QED BY <1>1, <1>2

LEMMA SameSlots ==
  ASSUME setup' = setup, host' = host, HostInv, NEW slots, Slots(slots), w' = Kept(slots)
  PROVE  SlotInv'
  <1>1. Kept(slots)' = Kept(slots)
    BY DEF Kept, Dtype, Tensors
  <1>2. NumExperts' = NumExperts /\ dequant_blocks_f16' = dequant_blocks_f16
    BY SameSetup
  <1>3. \A e : Staged(e)' = Staged(e)
    BY SameHost
  <1>4. ASSUME NEW s \in DOMAIN slots
        PROVE  /\ dequant_blocks_f16' /\ s \in 0 .. NumExperts' - 1
               /\ \E e \in 0 .. NumExperts' - 1 : slots[s] = Staged(e)'
    BY <1>2, <1>3 DEF Slots
  <1>5. Slots(slots)'
    BY <1>4 DEF Slots
  <1> QED BY <1>1, <1>5 DEF SlotInv

LEMMA NowFits ==
  ASSUME setup' = setup, FitsIn(w')
  PROVE  Fits'
  <1>1. CASE In16(w')
    <2>1. Matrix16'
      BY <1>1 DEF Matrix16, In16, Tensors, Halves, Value, Enc, Dtype, Elements, TensorRows, K
    <2> QED BY <2>1 DEF Fits
  <1>2. CASE InQ8(w')
    <2>1. MatrixQ8'
      BY <1>2 DEF MatrixQ8, InQ8, Tensors, Values, Value, Scales, Whole, Readable, Tiled, Dtype,
                  Elements, TensorRows, K, Blocks
    <2> QED BY <2>1 DEF Fits
  <1>3. CASE InQk(w')
    <2>1. /\ Tensors' = Tensors /\ BytesOf' = BytesOf /\ ElementsOf' = ElementsOf
          /\ setup'.engine = setup.engine /\ setup'.batch = setup.batch
          /\ setup'.group = setup.group
      BY DEF Tensors, BytesOf, ElementsOf, Blocks, Dtype, Elements, TensorRows, K
    <2>2. \A p : Dtype(p)' = Dtype(p) /\ Whole(p)' = Whole(p)
      BY DEF Whole, Readable, Tiled, Dtype, Elements, TensorRows, K
    <2>3. [p \in 1 .. Tensors |-> RawBlocks(p)]' = [p \in 1 .. Tensors |-> RawBlocks(p)]
      BY DEF Tensors, RawBlocks, Blocks, Dtype, Elements, TensorRows, K
    <2>4. w'.qk = At(FlattenSeq([p \in 1 .. Tensors |-> RawBlocks(p)]'))
      BY <1>3, <2>3 DEF InQk
    <2>5. w'.segs = [p \in 1 .. Tensors |-> [kind |-> Dtype(p), byte_off |-> Before(BytesOf, p),
                                             elem_off |-> Before(ElementsOf, p)]]'
      BY <1>3, <2>1, <2>2 DEF InQk
    <2>6. MatrixQk'
      BY <1>3, <2>1, <2>2, <2>4, <2>5 DEF MatrixQk, InQk
    <2> QED BY <2>6 DEF Fits
  <1> QED BY <1>1, <1>2, <1>3 DEF FitsIn

LEMMA SameRows ==
  ASSUME setup' = setup, out' = out, ReadsItsOwnRows
  PROVE  ReadsItsOwnRows'
  BY SameSetup DEF ReadsItsOwnRows

LEMMA SameMatrix ==
  ASSUME setup' = setup, host' = host, w' = w, HostInv
  PROVE  /\ SlotInv => SlotInv'
         /\ Fits => Fits'
  <1>1. Fits => FitsIn(w')
    BY DEF Fits, FitsIn, Matrix16, MatrixQ8, MatrixQk
  <1>2. ASSUME SlotInv PROVE SlotInv'
    <2>1. PICK slots : Slots(slots) /\ w = Kept(slots)
      BY <1>2 DEF SlotInv
    <2>2. w' = Kept(slots)
      BY <2>1
    <2> QED BY <2>1, <2>2, SameSlots
  <1> QED BY <1>1, <1>2, NowFits

LEMMA WeightInit ==
  ASSUME \A s \in Setups : Sound(s), Init
  PROVE  WeightInv
  <1>1. HostInv
    <2>1. Tensors \in Nat
      BY SetupFacts DEF Init
    <2>2. host = [p \in 1 .. 0 |-> HostOf(p)] /\ 0 \in 0 .. Tensors /\ 1 .. 0 = {}
      BY <2>1 DEF Init
    <2> QED BY <2>2 DEF HostInv
  <1> QED BY <1>1 DEF Init, WeightInv, ReadsItsOwnRows

LEMMA WeightStep ==
  ASSUME \A s \in Setups : Sound(s), WeightInv, [Next]_vars
  PROVE  WeightInv'
  <1>1. setup \in Setups /\ Sound(setup) /\ HostInv /\ ReadsItsOwnRows
        /\ (phase = "ready" => Len(host) = Tensors
                               /\ IF setup.group \in Expert THEN SlotInv ELSE Fits)
    BY DEF WeightInv
  <1>2. OfExperts <=> setup.group \in Expert
    BY DEF OfExperts, Expert
  <1>3. CASE LoadPart
    <2>1. setup' = setup /\ out' = out /\ phase' # "ready"
      BY <1>3 DEF LoadPart
    <2>2. HostInv'
      <3> DEFINE p == Len(host) + 1
      <3>1. CASE host' = host
        BY <1>1, <2>1, <3>1, SameHost
      <3>2. CASE Loads(p) /\ host' = Append(host, LoadedAs(p))
        <4>1. PICK n \in 0 .. Tensors :
                 host = [q \in 1 .. n |-> HostOf(q)] /\ \A q \in 1 .. n : Loads(q)
          BY <1>1 DEF HostInv
        <4>2. n \in Nat /\ Tensors \in Nat
          BY <1>1, SetupFacts
        <4>3. Len(host) = n /\ p = n + 1
          BY <4>1, <4>2
        <4>4. n < Tensors
          BY <1>3, <4>3 DEF LoadPart
        <4>5. p \in 1 .. Tensors /\ n + 1 \in 0 .. Tensors
          BY <4>2, <4>3, <4>4
        <4> HIDE DEF p
        <4>6. LoadedAs(p) = HostOf(p)
          BY <1>1, <3>2, <4>5, LoadedForms
        <4>7. host' = [q \in 1 .. n + 1 |-> HostOf(q)]
          BY <3>2, <4>1, <4>2, <4>3, <4>6
        <4>8. \A q \in 1 .. n + 1 : Loads(q)
          BY <3>2, <4>1, <4>2, <4>3
        <4> QED BY <2>1, <4>5, <4>7, <4>8, SameSetup DEF HostInv
      <3> QED BY <1>3, <3>1, <3>2 DEF LoadPart
    <2> QED BY <1>1, <2>1, <2>2, SameRows DEF WeightInv
  <1>4. CASE KeepAsRead
    <2>1. setup' = setup /\ out' = out /\ host' = host /\ Len(host) = Tensors /\ Tensors = 1
          /\ w' = load_matrix
      BY <1>4 DEF KeepAsRead
    <2>2. setup.group \notin Expert
      BY <1>1, <2>1, SetupFacts DEF Expert, Parts
    <2>3. Fits'
      BY <1>1, <2>1, <2>2, LoneFits, NowFits
    <2> QED BY <1>1, <2>1, <2>2, <2>3, SameHost, SameRows, SameSetup DEF WeightInv
  <1>5. CASE Fuse
    <2>1. setup' = setup /\ out' = out /\ host' = host /\ Len(host) = Tensors
          /\ setup.group \notin Expert
      BY <1>2, <1>5 DEF Fuse
    <2>2. phase' = "ready" => Fits'
      <3>1. SUFFICES ASSUME phase' = "ready" PROVE Fits'
        OBVIOUS
      <3>2. w' \in Fused
        BY <1>5, <3>1 DEF Fuse
      <3> QED BY <1>1, <2>1, <3>2, FusedFits, NowFits
    <2> QED BY <1>1, <2>1, <2>2, SameHost, SameRows, SameSetup DEF WeightInv
  <1>6. CASE KeepExperts
    <2>1. setup' = setup /\ out' = out /\ host' = host /\ Len(host) = Tensors
          /\ setup.group \in Expert
          /\ w' = [Empty EXCEPT !.bf16 = host[Tensors].bf16]
      BY <1>2, <1>6 DEF KeepExperts
    <2>2. SlotInv'
      <3>1. Tensors \in 1 .. Tensors
        BY <1>1, SetupFacts
      <3>2. host[Tensors] = HostU16(Tensors)
        BY <1>1, <2>1, <3>1, ExpertHost
      <3>3. host[Tensors].bf16 = (Dtype(Tensors) = "BF16")
        BY <3>2 DEF HostU16, None16
      <3>4. w' = Kept(<<>>)
        BY <2>1, <3>3 DEF Empty, Kept
      <3>5. Slots(<<>>)
        <4>1. DOMAIN <<>> = {}
          OBVIOUS
        <4> QED BY <4>1 DEF Slots
      <3> QED BY <1>1, <2>1, <3>4, <3>5, SameSlots
    <2> QED BY <1>1, <2>1, <2>2, SameHost, SameRows, SameSetup DEF WeightInv
  <1>7. ASSUME NEW e \in 0 .. NumExperts - 1, NEW slot \in 0 .. NumExperts - 1, Place(e, slot)
        PROVE  WeightInv'
    <2>1. setup' = setup /\ out' = out /\ host' = host /\ Len(host) = Tensors
          /\ setup.group \in Expert /\ SlotInv
      BY <1>1, <1>2, <1>7 DEF Place
    <2>2. phase' = "ready" => SlotInv'
      <3>1. SUFFICES ASSUME phase' = "ready" PROVE SlotInv'
        OBVIOUS
      <3>2. dequant_blocks_f16
            /\ w' = [w EXCEPT !.slots = [x \in DOMAIN @ \cup {slot} |->
                                           IF x = slot THEN Staged(e) ELSE @[x]]]
        BY <1>7, <3>1 DEF Place
      <3>3. PICK slots : Slots(slots) /\ w = Kept(slots)
        BY <2>1 DEF SlotInv
      <3>0. PICK new : new = [x \in DOMAIN slots \cup {slot} |->
                                IF x = slot THEN Staged(e) ELSE slots[x]]
        OBVIOUS
      <3>4. w' = Kept(new)
        <4>1. w.slots = slots
          BY <3>3 DEF Kept
        <4>2. w' = [w EXCEPT !.slots = new]
          BY <3>0, <3>2, <4>1
        <4> QED BY <3>3, <4>2 DEF Kept
      <3>5. Slots(new)
        <4>1. SUFFICES ASSUME NEW s \in DOMAIN new
                       PROVE  /\ s \in 0 .. NumExperts - 1
                              /\ \E y \in 0 .. NumExperts - 1 : new[s] = Staged(y)
          BY <3>2 DEF Slots
        <4>2. CASE s = slot
          BY <3>0, <4>2
        <4>3. CASE s # slot
          BY <3>0, <3>3, <4>3 DEF Slots
        <4> QED BY <4>2, <4>3
      <3> QED BY <1>1, <2>1, <3>4, <3>5, SameSlots
    <2> QED BY <1>1, <2>1, <2>2, SameHost, SameRows, SameSetup DEF WeightInv
  <1>8. ASSUME NEW e \in 0 .. NumExperts - 1, ExpertFfn(e)
        PROVE  WeightInv'
    <2>1. setup' = setup /\ host' = host /\ w' = w /\ phase' = phase /\ phase = "ready"
          /\ Len(host) = Tensors /\ setup.group \in Expert /\ SlotInv /\ OfExperts
      BY <1>1, <1>2, <1>8 DEF ExpertFfn
    <2>2. PICK s \in SlotOf(e) :
             out' = <<e, [ck \in ExpertReads |-> moe_ffn_kernel(s, ck[1], ck[2])]>>
      BY <1>8 DEF ExpertFfn
    <2>3. \A ck \in ExpertReads : moe_ffn_kernel(s, ck[1], ck[2]) = StoredExpert(e, ck[1], ck[2])
      BY <1>1, <2>1, ExpertRight
    <2>4. ReadsItsOwnRows'
      <3>1. out'[1] = e /\ out'[2] = [ck \in ExpertReads |-> moe_ffn_kernel(s, ck[1], ck[2])]
        BY <2>2
      <3>2. \A ck \in DOMAIN out'[2] : out'[2][ck] = StoredExpert(out'[1], ck[1], ck[2])
        BY <2>3, <3>1
      <3>3. OfExperts' /\ \A a, c, k : StoredExpert(a, c, k)' = StoredExpert(a, c, k)
        BY <2>1, SameSetup
      <3> QED BY <3>2, <3>3 DEF ReadsItsOwnRows
    <2> QED BY <1>1, <2>1, <2>4, SameHost, SameMatrix, SameSetup DEF WeightInv
  <1>9. ASSUME NEW s \in DOMAIN Slices, Multiply(s)
        PROVE  WeightInv'
    <2> DEFINE first == Slices[s].first
               n == Slices[s].n
               off == first * K
    <2>1. setup' = setup /\ host' = host /\ w' = w /\ phase = "ready"
          /\ Len(host) = Tensors /\ setup.group \notin Expert /\ Fits /\ ~OfExperts
      BY <1>1, <1>2, <1>9 DEF Multiply
    <2>2. CASE OnBoundary(off)
      <3>1. out' = <<s, [ck \in (0 .. n - 1) \X (0 .. K - 1) |-> Read(off, n, ck[1], ck[2])]>>
        BY <1>9, <2>2 DEF Multiply
      <3>2. \A c \in 0 .. n - 1 : \A k \in 0 .. K - 1 : Read(off, n, c, k) = Stored(first + c, k)
        BY <1>1, <2>1, <2>2, MultiplyRight
      <3> HIDE DEF off, n, first
      <3>3. out'[1] = s
            /\ \A ck \in DOMAIN out'[2] : out'[2][ck] = Stored(first + ck[1], ck[2])
        BY <3>1, <3>2
      <3>4. ReadsItsOwnRows'
        BY <2>1, <3>3, SameSetup DEF ReadsItsOwnRows, first
      <3> QED BY <1>1, <2>1, <3>4, SameHost, SameMatrix, SameSetup DEF WeightInv
    <2>3. CASE ~OnBoundary(off)
      <3>1. phase' = "refused" /\ out' = out
        BY <1>9, <2>3 DEF Multiply
      <3> QED BY <1>1, <2>1, <3>1, SameHost, SameRows, SameSetup DEF WeightInv
    <2> QED BY <2>2, <2>3
  <1>10. ASSUME NEW id \in 0 .. setup.rows[1] - 1, Embed(id)
         PROVE  WeightInv'
    <2>1. setup' = setup /\ host' = host /\ w' = w /\ phase = "ready"
          /\ Len(host) = Tensors /\ setup.group = "single" /\ setup.group \notin Expert
          /\ ~OfExperts /\ Fits
          /\ out' = <<1, [ck \in {id} \X (0 .. K - 1) |-> Lookup(id, ck[2])]>>
      BY <1>1, <1>2, <1>10 DEF Embed, Expert
    <2>2. \A k \in 0 .. K - 1 : Lookup(id, k) = Stored(Slices[1].first + id, k)
      BY <1>1, <2>1, LookupRight
    <2>3. out'[1] = 1
          /\ \A ck \in DOMAIN out'[2] : out'[2][ck] = Stored(Slices[1].first + ck[1], ck[2])
      BY <2>1, <2>2
    <2>4. ReadsItsOwnRows'
      BY <2>1, <2>3, SameSetup DEF ReadsItsOwnRows
    <2> QED BY <1>1, <2>1, <2>4, SameHost, SameMatrix, SameSetup DEF WeightInv
  <1>11. CASE UNCHANGED vars
    <2>1. setup' = setup /\ host' = host /\ w' = w /\ phase' = phase /\ out' = out
      BY <1>11 DEF vars
    <2> QED BY <1>1, <2>1, SameHost, SameMatrix, SameRows, SameSetup DEF WeightInv
  <1> QED BY <1>3, <1>4, <1>5, <1>6, <1>7, <1>8, <1>9, <1>10, <1>11 DEF Next

\* From load_matrix_host, load_weights and moe_place to the multiplications,
\* the embedding and the experts' kernels: whatever was tiled, converted, fused,
\* sliced and put into slots on the way, every product takes the rows of its own
\* tensor in the file, each value from its own bits, for tensors, tiles and
\* batches of any size.  The hypothesis leaves out the five cases in which the
\* code reads other rows.
THEOREM OwnRows ==
  ASSUME \A s \in Setups : Sound(s)
  PROVE  Spec => []ReadsItsOwnRows
  <1>1. Init => WeightInv
    BY WeightInit
  <1>2. WeightInv /\ [Next]_vars => WeightInv'
    BY WeightStep
  <1>3. WeightInv => ReadsItsOwnRows
    BY DEF WeightInv
  <1> QED BY <1>1, <1>2, <1>3, PTL DEF Spec

=============================================================================

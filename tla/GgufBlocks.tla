----------------------------- MODULE GgufBlocks -----------------------------
(***************************************************************************)
(* How the values of a quantised tensor lie in the bytes of its blocks.    *)
(* A decoder takes the number of a value in its block and says which bits  *)
(* it reads: the code of the value, the scale and the minimum of its group,*)
(* the half floats d and dmin, and the numbers it takes off the code and   *)
(* off the scale.  Bit b of byte B is 8 * B + b.  Three families read the  *)
(* same bytes: the host (dequant_*_block and the reference tool, which     *)
(* decode whole blocks in nested loops), the HIP kernels and the Vulkan    *)
(* shaders (one value per call).  The arithmetic on what was read, the     *)
(* non-linear grid of the IQ formats and the rounding are left out.        *)
(***************************************************************************)
EXTENDS Integers, Sequences

(* gguf_block_info: values and bytes of a block. *)
Geometry ==
  [F16 |-> <<1, 2>>, BF16 |-> <<1, 2>>, Q8_0 |-> <<32, 34>>, Q4_0 |-> <<32, 18>>,
   Q4_1 |-> <<32, 20>>, Q5_0 |-> <<32, 22>>, IQ4_NL |-> <<32, 18>>,
   Q2_K |-> <<256, 84>>, Q3_K |-> <<256, 110>>, Q4_K |-> <<256, 144>>,
   Q5_K |-> <<256, 176>>, Q6_K |-> <<256, 210>>, IQ4_XS |-> <<256, 136>>]
Dtypes == DOMAIN Geometry
Vals(dt) == Geometry[dt][1]
Bytes(dt) == Geometry[dt][2]

-----------------------------------------------------------------------------
None == -1

(* n bits of one byte from bit lo up, lowest first. *)
Bits(byte, lo, n) == [x \in 1 .. n |-> 8 * byte + lo + x - 1]

(* 32 codes of four bits in 16 bytes: the low nibbles hold the first half. *)
Nibble(base, i) == IF i < 16 THEN Bits(base + i, 0, 4) ELSE Bits(base + i - 16, 4, 4)

(* value = d * (scale - szero) * (q - zero) - dmin * min *)
Code(d, q, zero) ==
  [d |-> d, dm |-> None, s |-> <<>>, m |-> <<>>, q |-> q, zero |-> zero, szero |-> 0]
Scaled(d, s, szero, q, zero) == [Code(d, q, zero) EXCEPT !.s = s, !.szero = szero]
WithMin(d, dm, s, m, q) == [Scaled(d, s, 0, q, 0) EXCEPT !.dm = dm, !.m = m]

dequant_q8_0(i) == Code(0, Bits(2 + i, 0, 8), 0)
dequant_q5_0(i) == Code(0, Nibble(6, i) \o Bits(2 + (i \div 8), i % 8, 1), 16)
dequant_iq4_nl(i) == Code(0, Nibble(2, i), 0)
dequant_q4_0(i) == Code(0, Nibble(2, i), 8)
dequant_q4_1(i) == [Code(0, Nibble(4, i), 0) EXCEPT !.dm = 2]

(* A plausible slip: the high bit from the byte of the value's group. *)
dequant_q3_kHighByGroup(i) ==
  Scaled(108, Bits(96 + ((i \div 16) % 8), 0, 4), 32,
         Bits(32 + (i \div 128) * 32 + (i % 32), ((i \div 32) % 4) * 2, 2)
         \o Bits(i \div 8, i % 4, 1), 4)

dequant_q3_k(i) ==
  LET j == i \div 16
      low == IF j < 8 THEN Bits(96 + j, 0, 4) ELSE Bits(96 + j - 8, 4, 4)
      high == Bits(104 + (j % 4), 2 * (j \div 4), 2)
      q == Bits(32 + (i \div 128) * 32 + (i % 32), ((i \div 32) % 4) * 2, 2)
  IN Scaled(108, low \o high, 32, q \o Bits(i % 32, i \div 32, 1), 4)

dequant_iq4_xs(i) ==
  LET g == i \div 32
      s == Bits(4 + (g \div 2), (g % 2) * 4, 4) \o Bits(2 + (2 * g) \div 8, (2 * g) % 8, 2)
  IN Scaled(0, s, 32, Nibble(8 + g * 16, i % 32), 0)

dequant_q2_k(g, j) ==
  WithMin(80, 82, Bits(g, 0, 4), Bits(g, 4, 4),
          Bits(16 + ((g \div 8) * 32) + ((g % 2) * 16) + j, ((g \div 2) % 4) * 2, 2))

(* The six-bit scale and minimum of group j: the twelve bytes after d and  *)
(* dmin, written out alike in every decoder of Q4_K and Q5_K.              *)
qk_scales(j) ==
  IF j < 4
  THEN [s |-> Bits(4 + j, 0, 6), m |-> Bits(4 + j + 4, 0, 6)]
  ELSE [s |-> Bits(4 + j + 4, 0, 4) \o Bits(4 + j - 4, 6, 2),
        m |-> Bits(4 + j + 4, 4, 4) \o Bits(4 + j, 6, 2)]

dequant_q4_k(j, kk) ==
  WithMin(0, 2, qk_scales(j).s, qk_scales(j).m,
          Bits(16 + (j \div 2) * 32 + kk, (j % 2) * 4, 4))

(* Q5_K has no host decoder in the library: the reference tool's. *)
ref_q5_k(group, slot, l) ==
  LET j == group * 2 + slot
  IN WithMin(0, 2, qk_scales(j).s, qk_scales(j).m,
             Bits(48 + group * 32 + l, slot * 4, 4) \o Bits(16 + l, group * 2 + slot, 1))

dequant_q6_k(half, l, slot) ==
  LET ql == half * 64 + l + (IF slot \in {1, 3} THEN 32 ELSE 0)
  IN Scaled(208, Bits(192 + half * 8 + (l \div 16) + 2 * slot, 0, 8), 0,
            Bits(ql, (slot \div 2) * 4, 4) \o Bits(128 + half * 32 + l, slot * 2, 2), 32)

(* What each value of a block of dt means: the decoder the others must     *)
(* agree with.                                                             *)
Meaning(dt, i) ==
  CASE dt \in {"F16", "BF16"} -> Code(None, Bits(0, 0, 16), 0)
    [] dt = "Q8_0" -> dequant_q8_0(i)
    [] dt = "Q5_0" -> dequant_q5_0(i)
    [] dt = "IQ4_NL" -> dequant_iq4_nl(i)
    [] dt = "Q4_0" -> dequant_q4_0(i)
    [] dt = "Q4_1" -> dequant_q4_1(i)
    [] dt = "Q3_K" -> dequant_q3_k(i)
    [] dt = "IQ4_XS" -> dequant_iq4_xs(i)
    [] dt = "Q2_K" -> dequant_q2_k(i \div 16, i % 16)
    [] dt = "Q4_K" -> dequant_q4_k(i \div 32, i % 32)
    [] dt = "Q5_K" -> ref_q5_k(i \div 64, (i % 64) \div 32, i % 32)
    [] dt = "Q6_K" -> dequant_q6_k(i \div 128, i % 32, (i % 128) \div 32)

Means == [dt \in Dtypes |-> [i \in 0 .. Vals(dt) - 1 |-> Meaning(dt, i)]]

-----------------------------------------------------------------------------
(* The kernels. *)

qk_w_q4(i) ==
  LET j == i \div 32
      e == i % 32
  IN WithMin(0, 2, qk_scales(j).s, qk_scales(j).m,
             Bits(16 + j * 16 + (e % 16), IF e < 16 THEN 0 ELSE 4, 4))

qk_w_q5(i) ==
  LET group == i \div 64
      slot == (i % 64) \div 32
      l == i % 32
      j == group * 2 + slot
      q == IF slot = 0 THEN Bits(48 + group * 32 + l, 0, 4) ELSE Bits(48 + group * 32 + l, 4, 4)
      hbit == IF slot = 0 THEN Bits(16 + l, group * 2, 1) ELSE Bits(16 + l, group * 2 + 1, 1)
  IN WithMin(0, 2, qk_scales(j).s, qk_scales(j).m, q \o hbit)

qk_w_q6(i) ==
  LET half == i \div 128
      l == i % 32
      slot == (i % 128) \div 32
      ql == half * 64
      q == CASE slot = 0 -> Bits(ql + l, 0, 4)
             [] slot = 1 -> Bits(ql + l + 32, 0, 4)
             [] slot = 2 -> Bits(ql + l, 4, 4)
             [] slot = 3 -> Bits(ql + l + 32, 4, 4)
  IN Scaled(208, Bits(192 + half * 8 + (l \div 16) + 2 * slot, 0, 8), 0,
            q \o Bits(128 + half * 32 + l, 2 * slot, 2), 32)

(* The Vulkan shaders follow the host for the three formats HIP lacks or   *)
(* reads otherwise, and the HIP kernels for the rest.                      *)
qk_q4_0(i) == Code(0, IF i < 16 THEN Bits(2 + i, 0, 4) ELSE Bits(2 + i - 16, 4, 4), 8)

qk_q2(i) ==
  LET g == i \div 16
      byte == ((g \div 8) * 32) + ((g % 2) * 16) + (i % 16)
  IN WithMin(80, 82, Bits(g, 0, 4), Bits(g, 4, 4), Bits(16 + byte, ((g \div 2) % 4) * 2, 2))

qk_q4(i) ==
  LET j == i \div 32
  IN WithMin(0, 2, qk_scales(j).s, qk_scales(j).m,
             Bits(16 + (j \div 2) * 32 + (i % 32), (j % 2) * 4, 4))

(* qk_w, and the choice by kind in the shaders' main: anything unknown is  *)
(* read as Q6_K.                                                           *)
qk_w(engine, dt, i) ==
  CASE engine = "vulkan" /\ dt = "Q4_0" -> qk_q4_0(i)
    [] engine = "vulkan" /\ dt = "Q2_K" -> qk_q2(i)
    [] engine = "vulkan" /\ dt = "Q4_K" -> qk_q4(i)
    [] engine = "hip" /\ dt = "Q4_K" -> qk_w_q4(i)
    [] dt = "Q5_K" -> qk_w_q5(i)
    [] OTHER -> qk_w_q6(i)

Kernels ==
  [en \in {"hip", "vulkan"} |->
     [dt \in {"Q4_0", "Q2_K", "Q4_K", "Q5_K", "Q6_K"} |->
        [i \in 0 .. Vals(dt) - 1 |-> qk_w(en, dt, i)]]]

-----------------------------------------------------------------------------
(* All the bits a decoder reads for one value beside its own code. *)
Shared(c) ==
  {c.s[x] : x \in DOMAIN c.s} \cup {c.m[x] : x \in DOMAIN c.m}
  \cup UNION {8 * b .. 8 * b + 15 : b \in {c.d, c.dm} \ {None}}
Own(c) == {c.q[x] : x \in DOMAIN c.q}
=============================================================================

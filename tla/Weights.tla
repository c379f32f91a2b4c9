------------------------------ MODULE Weights ------------------------------
(***************************************************************************)
(* One weight of the network on its way from the model file to the         *)
(* multiplications that use it, for both engines: the loader reads the     *)
(* tensors it is made of (de-tiling them when the file is tiled), keeps or *)
(* up-converts their encoding, fuses q/k/v or gate/up into one matrix, and *)
(* every multiplication finds its slice of that matrix by an offset and    *)
(* reads it with the kernel of the encoding.  The experts of a sparse      *)
(* layer stay on the host and are copied into slots one by one.            *)
(*                                                                         *)
(* A value is abstracted to where it comes from: <<tensor, element, code>>,*)
(* the code being what was read of the block (GgufBlocks).  Anything else  *)
(* an index can hit is Misread.                                            *)
(***************************************************************************)
EXTENDS GgufBlocks, FiniteSets, SequencesExt

CONSTANT
  Setups,        \* the cases: see the record below
  Q8GemvGroups,  \* the Q8_0 decode kernel is used from so many groups of 16 columns on
  HeaderBytes,   \* the length of the file's header
  Alignment      \* general.alignment of a GGUF file

(* engine  "hip" or "vulkan"                                               *)
(* found   the kinds of file the model path stands for                     *)
(* group   "single" (o, down, embedding, head, a gate_up that is one       *)
(*         tensor), "packed" (one qkv tensor),                             *)
(*         "qkv" or "gate_up" (one tensor per part, fused by the loader),  *)
(*         "router", "shared" (gate and up of the shared expert), or the   *)
(*         experts of a layer: "stacked" (gate_up, down, router), "files"  *)
(*         and "exps" (gate, up, down, router)                             *)
(* dtypes  the encoding of each tensor in the file                         *)
(* rows    the rows of each part of the matrix; hidden: its columns; for   *)
(*         experts the tensors' elements over hidden, the router's last    *)
(* tile    <<>> or <<tile rows, tile block columns>> of a tiled GGUF file  *)
(* batch   the rows of the input the matrix is multiplied with             *)
ASSUME FileAssumption == HeaderBytes \in Nat /\ Alignment \in Nat \ {0}

ASSUME SetupsAssumption ==
  \A s \in Setups : /\ s.engine \in {"hip", "vulkan"}
                    /\ s.found \in (SUBSET {"gguf", "safetensors"}) \ {{}}
                    /\ s.group \in {"single", "packed", "qkv", "gate_up", "router", "shared",
                                    "stacked", "files", "exps"}
                    /\ {s.dtypes[p] : p \in DOMAIN s.dtypes} \subseteq Dtypes
                    /\ s.hidden \in Nat \ {0} /\ s.batch \in Nat \ {0}

VARIABLES
  setup,
  host,    \* the tensors read so far, one record each (load_matrix_host)
  w,       \* the matrix: planes f16, q8, qsc, qk, its segments, or the slots
  phase,   \* "load", "ready" or "refused" (an exception, or exit(1))
  out      \* the last product, as what each column read: <<part, reads>>

vars == <<setup, host, w, phase, out>>

-----------------------------------------------------------------------------
(* What the file holds. *)

Total(s) == FoldLeft(LAMBDA a, b : a + b, 0, s)
Tensors == Len(setup.dtypes)
K == setup.hidden
TensorRows(p) == IF setup.group = "packed" THEN Total(setup.rows)
                 ELSE setup.rows[p]
Elements(p) == TensorRows(p) * K
Dtype(p) == setup.dtypes[p]
Blocks(p) == Elements(p) \div Vals(Dtype(p))

Up(a, b) == (a + b - 1) \div b
Tiled(p) == setup.tile # <<>> /\ K % Vals(Dtype(p)) = 0

(* to_tiled_native: the block at each place of the tensor, Pad where the   *)
(* tile sticks out of it.                                                  *)
Pad == -1
to_tiled_native(p) ==
  LET tr == setup.tile[1]
      tbc == setup.tile[2]
      bpr == K \div Vals(Dtype(p))
      ntr == Up(TensorRows(p), tr)
      ntc == Up(bpr, tbc)
      place(x) == LET r == (x \div (tr * tbc * ntc)) * tr + ((x \div tbc) % tr)
                      c == ((x \div (tr * tbc)) % ntc) * tbc + (x % tbc)
                  IN IF r < TensorRows(p) /\ c < bpr THEN r * bpr + c ELSE Pad
  IN [x \in 0 .. ntr * ntc * tr * tbc - 1 |-> place(x)]

(* load_model_dir: of both kinds in a directory safetensors is taken.      *)
Gguf == "safetensors" \notin setup.found

(* The file: a header of HeaderBytes (of safetensors with the eight bytes  *)
(* of its length), then the tensors, each with its offset in the header.   *)
(* GGUF pads the header and every tensor to the alignment.                 *)
Places(p) == IF Tiled(p) THEN Cardinality(DOMAIN to_tiled_native(p)) ELSE Blocks(p)
Padded(n) == IF Gguf THEN CHOOSE x \in n .. n + Alignment - 1 : x % Alignment = 0
             ELSE n
Offset(p) == Total([x \in 1 .. p - 1 |-> Padded(Places(x) * Bytes(Dtype(x)))])
InFile(pos, p) ==
  LET at == pos - (Padded(HeaderBytes) + Offset(p))
      size == Bytes(Dtype(p))
  IN IF at \in 0 .. Places(p) * size - 1 /\ at % size = 0 THEN at \div size ELSE Pad

(* Where the loaders take the first tensor to be: add_file. *)
data_offset_ ==
  IF Gguf THEN ((HeaderBytes + Alignment - 1) \div Alignment) * Alignment
  ELSE HeaderBytes
read_raw(p, x) == InFile(data_offset_ + Offset(p) + x * Bytes(Dtype(p)), p)

(* read_tensor_data: the blocks in row-major order, the inverse of tiling. *)
read_tensor_data(p) ==
  IF ~Tiled(p) THEN [b \in 0 .. Blocks(p) - 1 |-> read_raw(p, b)]
  ELSE LET tr == setup.tile[1]
           tbc == setup.tile[2]
           bpr == K \div Vals(Dtype(p))
           ntc == Up(bpr, tbc)
           raw == to_tiled_native(p)
           block(place) == IF place = Pad THEN Pad ELSE raw[place]
           from(lr, lbc) == ((((lr \div tr) * ntc + (lbc \div tbc)) * tr + (lr % tr)) * tbc
                             + (lbc % tbc))
       IN [b \in 0 .. Blocks(p) - 1 |-> block(read_raw(p, from(b \div bpr, b % bpr)))]

(* A tiled tensor whose rows are not whole blocks is refused by the reader.*)
Readable(p) == setup.tile = <<>> \/ Tiled(p)

-----------------------------------------------------------------------------
(* The encodings the loaders keep and those they convert. *)

Native == IF setup.engine = "hip" THEN {"Q4_K", "Q5_K", "Q6_K"}
          ELSE {"Q4_0", "Q2_K", "Q4_K", "Q5_K", "Q6_K"}
UpcastKinds == {"Q5_0", "IQ4_NL", "Q3_K", "Q4_0", "Q4_1", "IQ4_XS", "Q2_K", "Q4_K", "Q6_K"}

Misread == <<"misread">>

(* Element e of tensor p as the block it is in says. *)
Element(p, b, i) == <<p, b * Vals(Dtype(p)) + i, Means[Dtype(p)][i]>>
Unpacked(p) == LET blk == read_tensor_data(p)
               IN [x \in 1 .. Elements(p) |->
                     Element(p, blk[(x - 1) \div Vals(Dtype(p))], (x - 1) % Vals(Dtype(p)))]
Sixteen(p, enc) == LET u == Unpacked(p) IN [x \in DOMAIN u |-> <<u[x], enc>>]

(* load_q8_0 and upload_q8_block: the scales and the bytes part ways. *)
Planes(p) == LET blk == read_tensor_data(p)
             IN [q8 |-> Unpacked(p), qsc |-> [b \in 1 .. Blocks(p) |-> <<p, blk[b - 1]>>]]

load_q8(p) == Gguf /\ Dtype(p) = "Q8_0" /\ Readable(p)
load_qk(p) == Gguf /\ Dtype(p) \in Native /\ Elements(p) % Vals(Dtype(p)) = 0 /\ Readable(p)
load_u16(p) ==
  Readable(p) /\ \/ Dtype(p) \in {"F16", "BF16"}
                 \/ Gguf /\ Dtype(p) \in UpcastKinds /\ Elements(p) % Vals(Dtype(p)) = 0
U16(p) == Sixteen(p, IF Dtype(p) = "BF16" THEN "BF16" ELSE "F16")

NoKind == "none"
None16 == [u16 |-> <<>>, bf16 |-> FALSE, q8 |-> <<>>, qsc |-> <<>>, qk |-> <<>>, kind |-> NoKind]
Raw(p) == LET blk == read_tensor_data(p)
          IN [b \in 1 .. Blocks(p) |-> <<p, blk[b - 1], Dtype(p)>>]

AsQ8(p) == [None16 EXCEPT !.q8 = Planes(p).q8, !.qsc = Planes(p).qsc]
AsU16(p) == [None16 EXCEPT !.u16 = U16(p), !.bf16 = (Dtype(p) = "BF16")]
AsQk(p) == [None16 EXCEPT !.qk = Raw(p), !.kind = Dtype(p)]

(* load_matrix_host: at most one of the planes is filled. *)
load_matrix_host(p) ==
  IF load_q8(p) THEN AsQ8(p)
  ELSE IF load_qk(p) THEN AsQk(p)
  ELSE AsU16(p)

(* Router and shared expert are loaded as sixteen bits.  The experts of a  *)
(* safetensors file are mapped, their bytes counted as two per element;    *)
(* those of a GGUF file stay packed, in one kind, on Vulkan only.          *)
OnlyU16 == setup.group \in {"router", "shared"}
OfExperts == setup.group \in {"stacked", "files", "exps"}
Down == Tensors - 1
NumExperts == setup.rows[Tensors]
ExpertTensor(p) == OfExperts /\ p < Tensors
mapped(p) == ~Gguf /\ Bytes(Dtype(p)) = 2
MoeSupported == setup.engine = "vulkan" \/ ~Gguf
load_exps(p) == /\ MoeSupported /\ load_qk(p)
                /\ Dtype(p) \in {"Q4_K", "Q6_K"} /\ Dtype(p) = Dtype(1)

Loads(p) ==
  IF ExpertTensor(p) THEN IF setup.group = "exps" THEN load_exps(p) ELSE mapped(p)
  ELSE IF OnlyU16 \/ OfExperts THEN MoeSupported /\ load_u16(p)
  ELSE load_q8(p) \/ load_qk(p) \/ load_u16(p)
LoadedAs(p) ==
  IF ExpertTensor(p) /\ setup.group = "exps" THEN AsQk(p)
  ELSE IF OnlyU16 \/ OfExperts THEN AsU16(p)
  ELSE load_matrix_host(p)

-----------------------------------------------------------------------------
(* Fusing. *)

Empty == [f16 |-> <<>>, bf16 |-> FALSE, is_q8 |-> FALSE, q8 |-> <<>>, qsc |-> <<>>,
          qk |-> <<>>, segs |-> <<>>, slots |-> <<>>]
Cat(field) == FlattenSeq([p \in 1 .. Tensors |-> host[p][field]])
IsQ8(p) == host[p].q8 # <<>>
IsQk(p) == host[p].kind # NoKind
All(P(_)) == \A p \in 1 .. Tensors : P(p)
Some(P(_)) == \E p \in 1 .. Tensors : P(p)
SameKind == \A p \in 1 .. Tensors : host[p].kind = host[1].kind

(* A raw plane is addressed in bytes: where each block of the fused stream *)
(* starts.                                                                 *)
ByteAt(blocks, n) == Total([x \in 1 .. n |-> Bytes(blocks[x][3])])
At(blocks) == [off \in {ByteAt(blocks, n - 1) : n \in 1 .. Len(blocks)} |->
                 blocks[CHOOSE n \in 1 .. Len(blocks) : ByteAt(blocks, n - 1) = off]]

FusedQ8 == [Empty EXCEPT !.is_q8 = TRUE, !.q8 = Cat("q8"), !.qsc = Cat("qsc")]

(* A plausible slip: v placed right behind q. *)
SegmentBehindFirst(p) ==
  [kind |-> host[p].kind,
   byte_off |-> IF p = 1 THEN 0
                ELSE (Elements(1) \div Vals(Dtype(1))) * Bytes(Dtype(1)),
   elem_off |-> Total([x \in 1 .. p - 1 |-> Elements(x)])]

(* Each part of a quantised matrix keeps its kind and where it starts, in  *)
(* bytes and in elements.                                                  *)
Segment(p) ==
  [kind |-> host[p].kind,
   byte_off |-> Total([x \in 1 .. p - 1 |-> (Elements(x) \div Vals(Dtype(x))) * Bytes(Dtype(x))]),
   elem_off |-> Total([x \in 1 .. p - 1 |-> Elements(x)])]
FusedQk == [Empty EXCEPT !.qk = At(Cat("qk")), !.segs = [p \in 1 .. Tensors |-> Segment(p)]]

FusedU16 == [Empty EXCEPT !.f16 = Cat("u16"), !.bf16 = All(LAMBDA p : host[p].bf16)]

(* fuse_u16: every part as sixteen bits, those kept in blocks read again   *)
(* and converted; the Vulkan loader converts Q8_0 too.                     *)
q8_to_u16(p) == [x \in DOMAIN host[p].q8 |-> <<host[p].q8[x], "F16">>]
fuse_u16(p) == IF host[p].u16 # <<>> THEN host[p].u16
               ELSE IF load_u16(p) THEN U16(p)
               ELSE IF setup.engine = "vulkan" THEN q8_to_u16(p) ELSE <<>>
Convertible == All(LAMBDA p : fuse_u16(p) # <<>>)
FusedMixed == [Empty EXCEPT !.f16 = FlattenSeq([p \in 1 .. Tensors |-> fuse_u16(p)])]

(* The branches of load_weights that choose how to fuse; q/k/v may mix     *)
(* K-quants, gate/up may not: one kernel call reads both.                  *)
KeepQk == All(IsQk) /\ (setup.group = "gate_up" => SameKind)

Fused ==
  IF OnlyU16 THEN {FusedU16}
  ELSE IF setup.engine = "hip"
  THEN CASE Some(IsQ8) -> IF All(IsQ8) THEN {FusedQ8} ELSE {}
         [] ~Some(IsQ8) /\ Some(IsQk) -> IF KeepQk THEN {FusedQk}
                                       ELSE IF Convertible THEN {FusedMixed} ELSE {}
         [] OTHER -> {FusedU16}
  ELSE CASE All(IsQ8) -> {FusedQ8}
         [] KeepQk -> {FusedQk}
         [] ~All(IsQ8) /\ ~KeepQk /\ Convertible ->
              {[FusedMixed EXCEPT !.bf16 = All(LAMBDA p : host[p].bf16)]}
         [] OTHER -> {}

-----------------------------------------------------------------------------
(* The kernels: what column c of a product reads for input k.              *)
(* off is the slice's first element in the matrix, n its columns.          *)

Rd(plane, x) == IF x + 1 \in DOMAIN plane THEN plane[x + 1] ELSE Misread

matmul_u16(off, c, k) ==
  LET v == Rd(w.f16, off + c * K + k)
  IN IF v = Misread \/ (v[2] = "BF16") # w.bf16 THEN Misread ELSE v[1]

(* A Q8_0 value is its byte times the scale of its block. *)
Product8(x, scale) ==
  LET v == Rd(w.q8, x)
      s == Rd(w.qsc, scale)
  IN IF v = Misread \/ s = Misread THEN Misread
     ELSE IF s = <<v[1], v[2] \div 32>> THEN v ELSE Misread

(* HIP picks the warp-per-row kernel for few rows, the INT8 tile else;     *)
(* Vulkan the cooperative kernel for few rows of a wide matrix.            *)
q8_gemv_kernel(off, c, k) ==
  LET i == k \div 128
      lane == (k % 128) \div 4
  IN Product8(off + c * K + 4 * (i * 32 + lane) + (k % 4),
              (off \div 32) + c * (K \div 32) + i * 4 + (lane \div 8))
q8_tile64_dot4_kernel(off, c, k) ==
  LET kt == k \div 16
  IN Product8(off + c * K + kt * 16 + (k % 16), (off \div 32) + c * (K \div 32) + (kt \div 2))
matmul_q8_kernel(off, c, k) ==
  Product8(off + c * K + k, (off \div 32) + ((c * K + k) \div 32))
matmul_q8_gemv(off, c, k) ==
  Product8(off + 2 * (((c * K + (k \div 32) * 32) \div 2) + ((k % 32) \div 2)) + (k % 2),
           2 * (off \div 32) + c * (K \div 32) + (k \div 32))

matmul_q8(off, n, c, k) ==
  IF setup.engine = "hip"
  THEN IF setup.batch <= 8 /\ K % 128 = 0 THEN q8_gemv_kernel(off, c, k)
       ELSE IF K % 16 = 0 /\ K >= 32 THEN q8_tile64_dot4_kernel(off, c, k)
       ELSE matmul_q8_kernel(off, c, k)
  ELSE IF setup.batch <= 4 /\ Up(n, 16) >= Q8GemvGroups THEN matmul_q8_gemv(off, c, k)
       ELSE matmul_q8_kernel(off, c, k)

(* Value i of the block b blocks after byte base, read as kind. *)
BlockValue(base, kind, b, i) ==
  LET byte == base + b * Bytes(kind)
  IN IF byte \notin DOMAIN w.qk THEN Misread
     ELSE IF w.qk[byte][3] # kind THEN Misread
     ELSE <<w.qk[byte][1], w.qk[byte][2] * Vals(kind) + i, Kernels[setup.engine][kind][i]>>

matmul_qk_kernel(base, kind, c, k) ==
  LET idx == c * K + k
  IN BlockValue(base, kind, idx \div Vals(kind), idx % Vals(kind))
(* matmul_qk_gemv walks the blocks of its row of inputs from the base. *)
matmul_qk_gemv(base, kind, c, k) == BlockValue(base, kind, k \div Vals(kind), k % Vals(kind))

matmul_qk(base, kind, n, c, k) ==
  IF setup.engine = "vulkan" /\ setup.batch <= 4 /\ K * n >= 256
  THEN matmul_qk_gemv(base, kind, c, k)
  ELSE matmul_qk_kernel(base, kind, c, k)

(* matmul_row_dispatch, VulkanBackend::matmul(VMatrix): the last segment   *)
(* that starts at or before the slice.                                     *)
Seg(off) ==
  w.segs[CHOOSE s \in DOMAIN w.segs :
           /\ w.segs[s].elem_off <= off
           /\ \A r \in DOMAIN w.segs : w.segs[r].elem_off <= off => r <= s]
OnBoundary(off) == w.segs # <<>> => (off - Seg(off).elem_off) % Vals(Seg(off).kind) = 0

Read(off, n, c, k) ==
  IF w.segs # <<>>
  THEN matmul_qk(Seg(off).byte_off
                 + ((off - Seg(off).elem_off) \div Vals(Seg(off).kind)) * Bytes(Seg(off).kind),
                 Seg(off).kind, n, c, k)
  ELSE IF w.is_q8 THEN matmul_q8(off, n, c, k)
  ELSE matmul_u16(off, c, k)

(* The embedding kernels look up one row by its number. *)
Lookup(id, k) ==
  IF w.segs # <<>> THEN matmul_qk_kernel(0, w.segs[1].kind, id, k)
  ELSE IF w.is_q8 THEN matmul_q8_kernel(0, id, k)
  ELSE matmul_u16(0, id, k)

-----------------------------------------------------------------------------
(* The experts.  A slot has the gate and up rows of one, and its down rows. *)

dn_n == Elements(Down) \div NumExperts
gu_n == 2 * dn_n
Inner == dn_n \div K

(* Expert e's n elements of tensor p, a pointer into the mapped file or    *)
(* dequantised from its blocks.                                            *)
ExpertPart(p, e, n) ==
  LET vals == Vals(Dtype(p))
      block(x) == host[p].qk[e * (n \div vals) + (x - 1) \div vals + 1][2]
  IN IF setup.group = "exps"
     THEN [x \in 1 .. n |-> <<Element(p, block(x), (x - 1) % vals), "F16">>]
     ELSE SubSeq(host[p].u16, e * n + 1, (e + 1) * n)
dequant_blocks_f16 == \A p \in 1 .. Down : setup.group = "exps" => dn_n % Vals(Dtype(p)) = 0

(* moe_place: gate before up. *)
Staged(e) ==
  [expert |-> e,
   gu |-> IF setup.group = "stacked" THEN ExpertPart(1, e, gu_n)
          ELSE ExpertPart(1, e, dn_n) \o ExpertPart(2, e, dn_n),
   dn |-> ExpertPart(Down, e, dn_n)]

SlotRead(field, size, x) ==
  IF x \div size \notin DOMAIN w.slots THEN Misread
  ELSE LET v == w.slots[x \div size][field][(x % size) + 1]
       IN IF (v[2] = "BF16") # w.bf16 THEN Misread ELSE v[1]

(* Where the kernels take the gate rows of a slot to be: the HIP kernel    *)
(* two parts on, as moe_place puts them, the shaders one part on.          *)
gu_off(slot) == IF setup.engine = "hip" THEN slot * 2 * Inner * K ELSE slot * Inner * K

(* Row c of gate, then up, then down, against input k. *)
moe_ffn_kernel(slot, c, k) ==
  IF c < 2 * Inner THEN SlotRead("gu", gu_n, gu_off(slot) + c * K + k)
  ELSE SlotRead("dn", dn_n, slot * Inner * K + (c - 2 * Inner) * Inner + k)
ExpertReads == (0 .. 2 * Inner - 1) \X (0 .. K - 1)
               \cup (2 * Inner .. 2 * Inner + K - 1) \X (0 .. Inner - 1)

-----------------------------------------------------------------------------
(* The slices the forward pass multiplies with: q, k and v apart, gate and *)
(* up in one call.                                                         *)
Slices == IF setup.group \in {"qkv", "packed"}
          THEN [p \in 1 .. 3 |-> [first |-> Total(SubSeq(setup.rows, 1, p - 1)),
                                  n |-> setup.rows[p]]]
          ELSE <<[first |-> 0, n |-> Total(setup.rows)]>>

Init == /\ setup \in Setups
        /\ host = <<>>
        /\ w = Empty
        /\ phase = "load"
        /\ out = <<>>

(* One call of load_matrix_host; a required tensor no loader takes is an   *)
(* exception.                                                              *)
LoadPart ==
  /\ phase = "load" /\ Len(host) < Tensors
  /\ LET p == Len(host) + 1
     IN IF Loads(p) THEN host' = Append(host, LoadedAs(p)) /\ phase' = phase
        ELSE host' = host /\ phase' = "refused"
  /\ UNCHANGED <<setup, w, out>>

load_matrix == IF IsQ8(1) THEN FusedQ8 ELSE IF IsQk(1) THEN FusedQk ELSE FusedU16

(* A lone tensor goes to the device as it was read. *)
KeepAsRead ==
  /\ phase = "load" /\ Len(host) = Tensors /\ Tensors = 1
  /\ w' = load_matrix
  /\ phase' = "ready"
  /\ UNCHANGED <<setup, host, out>>

Fuse ==
  /\ phase = "load" /\ Len(host) = Tensors /\ Tensors > 1 /\ ~OfExperts
  /\ IF Fused = {} THEN phase' = "refused" /\ w' = w
     ELSE phase' = "ready" /\ w' \in Fused
  /\ UNCHANGED <<setup, host, out>>

(* The experts' encoding is taken to be that of the router. *)
KeepExperts ==
  /\ phase = "load" /\ Len(host) = Tensors /\ OfExperts
  /\ w' = [Empty EXCEPT !.bf16 = host[Tensors].bf16]
  /\ phase' = "ready"
  /\ UNCHANGED <<setup, host, out>>

(* One expert into a slot, whatever was there; ExpertSlots chooses it.     *)
SlotOf(e) == {s \in DOMAIN w.slots : w.slots[s].expert = e}
Place(e, slot) ==
  /\ phase = "ready" /\ OfExperts /\ SlotOf(e) = {}
  /\ IF dequant_blocks_f16
     THEN /\ w' = [w EXCEPT !.slots = [x \in DOMAIN @ \cup {slot} |->
                                         IF x = slot THEN Staged(e) ELSE @[x]]]
          /\ phase' = phase
     ELSE phase' = "refused" /\ w' = w
  /\ UNCHANGED <<setup, host, out>>

ExpertFfn(e) ==
  /\ phase = "ready" /\ OfExperts
  /\ \E slot \in SlotOf(e) :
       out' = <<e, [ck \in ExpertReads |-> moe_ffn_kernel(slot, ck[1], ck[2])]>>
  /\ UNCHANGED <<setup, host, w, phase>>

Multiply(s) ==
  /\ phase = "ready" /\ ~OfExperts
  /\ LET off == Slices[s].first * K
         n == Slices[s].n
     IN IF OnBoundary(off)
        THEN /\ out' = <<s, [ck \in (0 .. n - 1) \X (0 .. K - 1) |-> Read(off, n, ck[1], ck[2])]>>
             /\ phase' = phase
        ELSE phase' = "refused" /\ out' = out
  /\ UNCHANGED <<setup, host, w>>

Embed(id) ==
  /\ phase = "ready" /\ setup.group = "single"
  /\ id \in 0 .. setup.rows[1] - 1
  /\ out' = <<1, [ck \in {id} \X (0 .. K - 1) |-> Lookup(id, ck[2])]>>
  /\ UNCHANGED <<setup, host, w, phase>>

Next == LoadPart \/ KeepAsRead \/ Fuse \/ KeepExperts
        \/ (\E e, slot \in 0 .. NumExperts - 1 : Place(e, slot))
        \/ (\E e \in 0 .. NumExperts - 1 : ExpertFfn(e))
        \/ (\E s \in DOMAIN Slices : Multiply(s))
        \/ (\E id \in 0 .. setup.rows[1] - 1 : Embed(id))

Spec == Init /\ [][Next]_vars

-----------------------------------------------------------------------------
(* Row r of the whole matrix in the file. *)
Stored(r, k) ==
  LET first(p) == Total([x \in 1 .. p - 1 |-> TensorRows(x)])
      p == CHOOSE x \in 1 .. Tensors : first(x) <= r /\ r < first(x) + TensorRows(x)
      e == (r - first(p)) * K + k
  IN <<p, e, Means[Dtype(p)][e % Vals(Dtype(p))]>>

(* Row c of expert e in its own tensors. *)
StoredExpert(e, c, k) ==
  LET whole == setup.group = "stacked"
      p == IF c >= 2 * Inner THEN Down ELSE IF whole \/ c < Inner THEN 1 ELSE 2
      x == CASE p = Down -> e * dn_n + (c - 2 * Inner) * Inner + k
             [] p # Down /\ whole -> e * gu_n + c * K + k
             [] p # Down /\ ~whole -> e * dn_n + (c % Inner) * K + k
  IN <<p, x, Means[Dtype(p)][x % Vals(Dtype(p))]>>

(* Whatever was tiled, converted, fused and sliced on the way, column c of *)
(* a product is the input times row c of its own tensor in the file, every *)
(* value read as its block means it; the product of an expert takes the    *)
(* rows of that expert, whichever slot it was put into and whatever was    *)
(* there before.  The loaders may refuse a file, they may not misread one  *)
(* ("fail loud, never misread", gguf.cpp:604).                             *)
ReadsItsOwnRows ==
  out # <<>> =>
    \A ck \in DOMAIN out[2] :
      out[2][ck] = IF OfExperts THEN StoredExpert(out[1], ck[1], ck[2])
                   ELSE Stored(Slices[out[1]].first + ck[1], ck[2])

(* The decoders read every bit of a block, the code bits of two values     *)
(* never overlap, and no code reads a bit of a scale: a format whose       *)
(* decoder strays is a weight that is wrong in a few of its values only.   *)
BlocksPartitioned ==
  phase = "load" /\ host = <<>> /\ Tensors = 1 =>
    LET dt == Dtype(1)
        codes == [i \in 0 .. Vals(dt) - 1 |-> Own(Means[dt][i])]
        all == UNION {codes[i] : i \in DOMAIN codes}
        shared == UNION {Shared(Means[dt][i]) : i \in DOMAIN codes}
    IN /\ all \cup shared = 0 .. 8 * Bytes(dt) - 1
       /\ all \cap shared = {}
       /\ Cardinality(all) = Vals(dt) * Cardinality(codes[0])
-----------------------------------------------------------------------------
(***************************************************************************)
(* The setups whose products read their own rows.  A file is well formed:  *)
(* a group has its tensors, a row of Q8_0 is whole blocks, and the tensors *)
(* of the experts have a part of one size for each of them.                *)
(***************************************************************************)
Parts == [single |-> 1, packed |-> 1, qkv |-> 3, gate_up |-> 2, router |-> 1, shared |-> 2,
          stacked |-> 3, files |-> 4, exps |-> 4]
Expert == {"stacked", "files", "exps"}

WellFormed(s) ==
  /\ s.engine \in {"hip", "vulkan"} /\ s.group \in DOMAIN Parts
  /\ s.dtypes \in [1 .. Parts[s.group] -> Dtypes]
  /\ s.rows \in [1 .. IF s.group = "packed" THEN 3 ELSE Parts[s.group] -> Nat \ {0}]
  /\ s.tile = <<>> \/ s.tile \in (Nat \ {0}) \X (Nat \ {0})
  /\ s.hidden \in Nat \ {0} /\ s.batch \in Nat \ {0}
  /\ "Q8_0" \in {s.dtypes[p] : p \in DOMAIN s.dtypes} => s.hidden % 32 = 0
  /\ s.group \in Expert =>
       LET down == Parts[s.group] - 1
       IN /\ s.rows[down] % s.rows[down + 1] = 0
          /\ \A p \in 1 .. down - 1 :
               s.rows[p] = IF s.group = "stacked" THEN 2 * s.rows[down] ELSE s.rows[down]

(* Five cases in which a product reads other rows than its own: the README *)
(* describes them.                                                         *)
HipQ4K(s) == s.engine = "hip" /\ "Q4_K" \in {s.dtypes[p] : p \in DOMAIN s.dtypes}
DecodeQk(s) ==
  /\ s.engine = "vulkan" /\ s.batch <= 4
  /\ \E p \in DOMAIN s.dtypes : s.dtypes[p] \in {"Q4_0", "Q2_K", "Q4_K", "Q5_K", "Q6_K"}
DecodeQ8(s) ==
  /\ s.engine = "vulkan" /\ s.batch <= 4 /\ s.group \in {"qkv", "packed"}
  /\ "Q8_0" \in {s.dtypes[p] : p \in DOMAIN s.dtypes}
  /\ \E p \in 2 .. 3 : Up(s.rows[p], 16) >= Q8GemvGroups
PartlyBf16(s) ==
  LET bf == {p \in DOMAIN s.dtypes : s.dtypes[p] = "BF16"}
  IN bf # {} /\ bf # DOMAIN s.dtypes
(* The shaders' distance between slots is half that of moe_place; experts  *)
(* that are not whole blocks are refused before it matters.                *)
HalfStride(s) ==
  /\ s.engine = "vulkan" /\ s.group \in Expert
  /\ s.rows[Parts[s.group]] > 1
  /\ s.group = "exps" =>
       ((s.rows[3] * s.hidden) \div s.rows[4]) % Vals(s.dtypes[1]) = 0

Sound(s) ==
  /\ WellFormed(s)
  /\ ~HipQ4K(s) /\ ~DecodeQk(s) /\ ~DecodeQ8(s) /\ ~PartlyBf16(s) /\ ~HalfStride(s)
=============================================================================

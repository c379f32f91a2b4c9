---------------------------- MODULE ForwardTerms ----------------------------
(***************************************************************************)
(* What the calls of a forward pass compute: the operators of              *)
(* VulkanBackend (src/vulkan_backend.cpp) and of the HIP backend           *)
(* (src/hip_ops.hip), and the reference decoder (tools/ref_top5.cpp) that  *)
(* both are compared with.                                                 *)
(*                                                                         *)
(* A region is a buffer, or a slice of the fused qkv buffer.  It holds a   *)
(* term: the expression over weights and inputs whose value it holds.      *)
(***************************************************************************)
EXTENDS Integers, Sequences, SequencesExt

(***************************************************************************)
(* A model and where it runs: how many layers; biases of q, k and v; norms *)
(* of q and k; the feed-forward part of a layer (dense; experts routed and *)
(* computed by one kernel, or by two); a shared expert, and its gate; how  *)
(* many chunks of rows the experts take; whether copies have a queue       *)
(* family of their own.                                                    *)
(***************************************************************************)
ModelType ==
  [backend : {"vulkan", "hip"}, layers : Nat \ {0}, bias : BOOLEAN, norms : BOOLEAN,
   ffn : {"dense", "fused", "routed"}, shared : BOOLEAN, gate : BOOLEAN,
   chunks : Nat \ {0}, transferFamily : BOOLEAN]

\* The slices of the qkv buffer, in the order in which they lie in it.
Q == "q"
K == "k"
V == "v"
Slices == {Q, K, V}
\* From the start of a slice to the end of the buffer.
FromSlice == [q |-> {Q, K, V}, k |-> {K, V}, v |-> {V}]
\* The bias of each of them, and the norm of the heads of q and k.
BiasOf == [q |-> "q_bias", k |-> "k_bias", v |-> "v_bias"]
NormOf == [q |-> "q_norm", k |-> "k_norm"]

\* The buffers that forward_logits holds until it returns, those of a layer, and
\* those of the model.
InputBuffers == {"ids", "pos", "slots", "tables", "last"}
PassBuffers == {"hidden", "residual", "norm", "attn", "gate", "mlp"} \cup Slices
ExpertBuffers == {"route", "idx", "score", "shs", "exp"}
TailBuffers == {"selected", "logits"}
ModelBuffers == {"cache", "slot_gu", "slot_dn", "slot_of"}
Regions == InputBuffers \cup PassBuffers \cup ExpertBuffers \cup TailBuffers \cup ModelBuffers

Zeros == <<"zeros">>
Unset == <<"unset">>
Input(region) == <<region>>

\* Memory as it is allocated: zeroed by the HIP backend, not by Vulkan.  The cache
\* has a part for each layer, the output of the experts one for each chunk.
Blank(m, region) ==
  CASE region = "cache" -> [l \in 1 .. m.layers |-> Unset]
    [] region = "exp" -> {}
    [] OTHER -> IF m.backend = "hip" THEN Zeros ELSE Unset

Weight(name, layer) == <<name, layer>>
-----------------------------------------------------------------------------
(***************************************************************************)
(* A dispatch: the operator, a weight it uses, the regions it reads and    *)
(* writes, the regions its output is bound to (a declared range, or        *)
(* everything from an offset on), and whether a barrier follows.           *)
(***************************************************************************)
dispatch(op, weight, reads, writes) ==
  [call |-> "dispatch", op |-> op, weight |-> weight, reads |-> reads, writes |-> writes,
   outs |-> writes, barrier |-> TRUE, chunk |-> 1]

\* In place on a slice of the buffer, which is bound from there to its end.
InPlace(op, weight, slice, barrier) ==
  [dispatch(op, weight, {slice}, {slice}) EXCEPT
     !.outs = FromSlice[slice], !.barrier = barrier]

matmul(w, x, y) == dispatch("matmul", w, {x}, {y})
matmulSlice(w, x, slice, barrier) == [matmul(w, x, slice) EXCEPT !.barrier = barrier]
rms_norm(w, slice, barrier) == InPlace("rms_norm", w, slice, barrier)
add_bias_inplace(w, slice, barrier) == InPlace("add_bias", w, slice, barrier)
\* rope binds the whole buffer; the offset is a constant of the shader.
rope(slice, barrier) ==
  [dispatch("rope", Weight("inv_freq", 0), {slice, "pos"}, {slice}) EXCEPT
     !.outs = Slices, !.barrier = barrier]

rms_norm_add(w) ==
  dispatch("rms_norm_add", w, {"hidden", "residual"}, {"residual", "norm"})
store_kv(l) == dispatch("store_kv", Weight("cache", l), {K, V, "slots"}, {"cache"})
paged_attention(l) ==
  dispatch("paged_attention", Weight("cache", l), {Q, "cache", "tables"}, {"attn"})
silu_and_mul == dispatch("silu_and_mul", <<>>, {"gate"}, {"mlp"})
scale_sigmoid == dispatch("scale_sigmoid", <<>>, {"hidden", "shs"}, {"hidden"})
embedding == dispatch("embedding", Weight("embed", 0), {"ids"}, {"hidden"})
gather_rows == dispatch("gather_rows", <<>>, {"norm", "last"}, {"selected"})
memset == dispatch("memset", <<>>, {}, {"hidden"})
moe_route == dispatch("moe_route", <<>>, {"route"}, {"idx", "score"})
\* The experts of the rows of chunk c, added to the rows of the output.
moe_ffn(l, c) ==
  [dispatch("moe_ffn", Weight("experts", l),
            {"norm", "idx", "score", "slot_gu", "slot_dn", "slot_of", "hidden"}, {"hidden"})
     EXCEPT !.chunk = c]
moe_route_ffn(l, c) ==
  [dispatch("moe_route_ffn", Weight("experts", l),
            {"norm", "route", "slot_gu", "slot_dn", "slot_of"}, {"idx", "score", "exp"})
     EXCEPT !.chunk = c]
add_buf == dispatch("add_buf", <<>>, {"hidden", "exp"}, {"hidden"})

\* The other calls.
submit_wait == [call |-> "submit"]
upload(region, data) == [call |-> "upload", to |-> region, data |-> data]
upload_at_async(region, data) == [call |-> "async", to |-> region, data |-> data]
download(region) == [call |-> "download", from |-> region]
allocate(buffers) == [call |-> "alloc", set |-> buffers]
release(buffers) == [call |-> "free", set |-> buffers]
\* What the host does when it has read that experts of the chunk have no slot.
onMiss(calls) == [call |-> "miss", then |-> calls]
-----------------------------------------------------------------------------
The(S) == CHOOSE x \in S : TRUE

Sum(a, b) == <<"+", a, b>>
Normed(w, x) == <<"rms_norm", w, x>>
Product(w, x) == <<"matmul", w, x>>
TopK(route) == <<"top k", route>>
\* The experts that the routing chooses for the rows of a chunk.
Experts(w, norm, chosen, c) == {<<w, norm, chosen, c>>}

PlusExperts(x, experts) == <<"+ experts", x, experts>>

\* The first chunk meets the output of the shared expert, or zeros.
AddRows(hidden, experts, c) ==
  IF c = 1 THEN PlusExperts(hidden, experts)
           ELSE PlusExperts(hidden[2], hidden[3] \cup experts)

\* The contents after the dispatch d of the contents c.
Computed(d, c) ==
  CASE d.op = "embedding" -> [c EXCEPT !.hidden = <<"rows", d.weight, c.ids>>]
    [] d.op = "matmul" -> [c EXCEPT ![The(d.writes)] = Product(d.weight, c[The(d.reads)])]
    [] d.op = "rms_norm" -> [c EXCEPT ![The(d.writes)] = Normed(d.weight, @)]
    [] d.op = "add_bias" -> [c EXCEPT ![The(d.writes)] = Sum(@, d.weight)]
    [] d.op = "rope" -> [c EXCEPT ![The(d.writes)] = <<"rope", c.pos, @>>]
    [] d.op = "rms_norm_add" ->
         LET sum == Sum(c.residual, c.hidden)
         IN  [c EXCEPT !.residual = sum, !.norm = Normed(d.weight, sum)]
    [] d.op = "store_kv" -> [c EXCEPT !.cache[d.weight[2]] = <<c.k, c.v>>]
    [] d.op = "paged_attention" ->
         [c EXCEPT !.attn = <<"attention", c.q, c.cache[d.weight[2]]>>]
    [] d.op = "silu_and_mul" -> [c EXCEPT !.mlp = <<"silu * up", c.gate>>]
    [] d.op = "scale_sigmoid" -> [c EXCEPT !.hidden = <<"scaled", c.hidden, c.shs>>]
    [] d.op = "gather_rows" -> [c EXCEPT !.selected = <<"rows", c.norm, c.last>>]
    [] d.op = "memset" -> [c EXCEPT !.hidden = Zeros]
    [] d.op = "moe_route" -> [c EXCEPT !.idx = TopK(c.route), !.score = TopK(c.route)]
    [] d.op = "moe_ffn" ->
         [c EXCEPT !.hidden = AddRows(@, Experts(d.weight, c.norm, c.idx, d.chunk), d.chunk)]
    [] d.op = "moe_route_ffn" ->
         [c EXCEPT !.idx = TopK(c.route), !.score = TopK(c.route),
                   !.exp = @ \cup Experts(d.weight, c.norm, TopK(c.route), d.chunk)]
    [] d.op = "add_buf" -> [c EXCEPT !.hidden = PlusExperts(@, c.exp)]
-----------------------------------------------------------------------------
(***************************************************************************)
(* The reference decoder, one prompt from its first token on.              *)
(***************************************************************************)
ReferenceAttention(m, l, norm) ==
  LET projected(x) == Product(Weight(x, l), norm)
      biased(x) == IF m.bias THEN Sum(projected(x), Weight(BiasOf[x], l)) ELSE projected(x)
      normed(x) == IF m.norms THEN Normed(Weight(NormOf[x], l), biased(x)) ELSE biased(x)
      roped(x) == <<"rope", Input("pos"), normed(x)>>
  IN  Product(Weight("o", l), <<"attention", roped(Q), <<roped(K), biased(V)>>>>)

ReferenceMlp(gate_up, down, norm) == Product(down, <<"silu * up", Product(gate_up, norm)>>)

ReferenceSparse(m, l, norm) ==
  LET shared == ReferenceMlp(Weight("sh_gu", l), Weight("sh_dn", l), norm)
      gated == IF m.gate THEN <<"scaled", shared, Product(Weight("sh_gate", l), norm)>> ELSE shared
      chosen == TopK(Product(Weight("router", l), norm))
  IN  PlusExperts(IF m.shared THEN gated ELSE Zeros,
          UNION {Experts(Weight("experts", l), norm, chosen, c) : c \in 1 .. m.chunks})

ReferenceLayer(m, l, s) ==
  LET before == Sum(s.residual, s.hidden)
      attn == ReferenceAttention(m, l, Normed(Weight("input_ln", l), before))
      after == Sum(before, attn)
      norm == Normed(Weight("post_ln", l), after)
  IN  [residual |-> after,
       hidden |-> IF m.ffn = "dense"
                  THEN ReferenceMlp(Weight("gate_up", l), Weight("down", l), norm)
                  ELSE ReferenceSparse(m, l, norm)]

\* The logits of the last rows.
Reference(m) ==
  LET embedded == [residual |-> Zeros, hidden |-> <<"rows", Weight("embed", 0), Input("ids")>>]
      final == FoldLeft(LAMBDA s, l : ReferenceLayer(m, l, s), embedded,
                        [l \in 1 .. m.layers |-> l])
      norm == Normed(Weight("final_norm", 0), Sum(final.residual, final.hidden))
  IN  Product(Weight("lm_head", 0), <<"rows", norm, Input("last")>>)
=============================================================================

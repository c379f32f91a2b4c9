-------------------------- MODULE ForwardPrograms --------------------------
(***************************************************************************)
(* The calls that forward_logits makes, of VulkanModel                     *)
(* (src/vulkan_model.cpp) and of Qwen3Model (src/model.cpp).               *)
(***************************************************************************)
EXTENDS ForwardTerms

If(condition, calls) == IF condition THEN calls ELSE <<>>
ForEach(n, Calls(_)) == FlattenSeq([i \in 1 .. n |-> Calls(i)])
-----------------------------------------------------------------------------
(***************************************************************************)
(* VulkanModel::forward_logits.                                            *)
(***************************************************************************)

\* VulkanBackend::make
make(region) == <<allocate({region}), upload(region, Input(region)), submit_wait>>

project(l) ==
  <<matmulSlice(Weight(Q, l), "norm", Q, FALSE), matmulSlice(Weight(K, l), "norm", K, FALSE),
    matmulSlice(Weight(V, l), "norm", V, TRUE)>>

addBiases(l) ==
  <<add_bias_inplace(Weight("q_bias", l), Q, FALSE),
    add_bias_inplace(Weight("k_bias", l), K, FALSE),
    add_bias_inplace(Weight("v_bias", l), V, TRUE)>>

normHeads(l) ==
  <<rms_norm(Weight("q_norm", l), Q, FALSE), rms_norm(Weight("k_norm", l), K, TRUE)>>

\* Mutant: the heads are normed after the rotation.
attentionNormedLate(m, l) ==
  project(l) \o If(m.bias, addBiases(l)) \o <<rope(Q, FALSE), rope(K, TRUE)>>
  \o If(m.norms, normHeads(l))
  \o <<store_kv(l), paged_attention(l), matmul(Weight("o", l), "attn", "hidden")>>

attention(m, l) ==
  project(l) \o If(m.bias, addBiases(l)) \o If(m.norms, normHeads(l))
  \o <<rope(Q, FALSE), rope(K, TRUE), store_kv(l), paged_attention(l),
       matmul(Weight("o", l), "attn", "hidden")>>

mlp(gate_up, down) ==
  <<matmul(gate_up, "norm", "gate"), silu_and_mul, matmul(down, "mlp", "hidden")>>

sharedExpert(m, l) ==
  mlp(Weight("sh_gu", l), Weight("sh_dn", l))
  \o If(m.gate, <<allocate({"shs"}), matmul(Weight("sh_gate", l), "norm", "shs"),
                  scale_sigmoid>>)

\* Mutant: the indices are read back while the dispatch is still queued.
readRoutingEarly == <<moe_route, download("idx"), submit_wait>>

\* The two-dispatch path reads the routing before it places experts.
readRouting == <<moe_route, submit_wait, download("idx")>>

\* moe_place, when an expert has to be loaded: the table after the weights.
moe_place(l, c) ==
  <<upload_at_async("slot_gu", <<l, c>>), upload_at_async("slot_dn", <<l, c>>),
    upload("slot_of", <<l, c>>)>>

\* The kernel that routes and computes runs before the host knows of a miss;
\* the indices are read once per layer.
fusedChunk(l, c) ==
  <<moe_route_ffn(l, c), submit_wait>> \o If(c = 1, <<download("idx")>>)
  \o <<onMiss(moe_place(l, c) \o <<moe_route_ffn(l, c)>>)>>

\* This kernel has no first row: every chunk is added to the rows of the first one.
routedChunk(l, c) == <<onMiss(moe_place(l, c)), moe_ffn(l, 1)>>

expertsOf(m, l) ==
  IF m.ffn = "fused"
  THEN <<allocate({"exp"})>> \o ForEach(m.chunks, LAMBDA c : fusedChunk(l, c)) \o <<add_buf>>
  ELSE ForEach(m.chunks, LAMBDA c : routedChunk(l, c))

\* Mutant: the layer ends without waiting for what it has recorded.
endOfLayerAtOnce == <<release(ExpertBuffers)>>

endOfLayer == <<submit_wait, release(ExpertBuffers)>>

sparse(m, l) ==
  <<allocate({"route", "idx", "score"}), matmul(Weight("router", l), "norm", "route")>>
  \o If(m.ffn = "routed", readRouting)
  \o (IF m.shared THEN sharedExpert(m, l) ELSE <<upload("hidden", Zeros)>>)
  \o expertsOf(m, l) \o endOfLayer

layer(m, l) ==
  <<rms_norm_add(Weight("input_ln", l))>> \o attention(m, l)
  \o <<rms_norm_add(Weight("post_ln", l))>>
  \o (IF m.ffn = "dense" THEN mlp(Weight("gate_up", l), Weight("down", l)) ELSE sparse(m, l))

tail ==
  <<rms_norm_add(Weight("final_norm", 0)), allocate(TailBuffers), gather_rows,
    matmul(Weight("lm_head", 0), "selected", "logits"), submit_wait, download("logits"),
    release(InputBuffers \cup PassBuffers \cup TailBuffers)>>

vulkan_forward_logits(m) ==
  FlattenSeq(<<make("ids"), make("pos"), make("slots"), make("tables"), make("last")>>)
  \o <<allocate(PassBuffers), upload("residual", Zeros), embedding>>
  \o ForEach(m.layers, LAMBDA l : layer(m, l)) \o tail
-----------------------------------------------------------------------------
(***************************************************************************)
(* Qwen3Model::forward_logits.  Every call goes to one stream; copies and  *)
(* frees wait for it.                                                      *)
(***************************************************************************)
hip_input(region) == <<allocate({region}), upload(region, Input(region))>>

hip_attention(m, l) ==
  [i \in 1 .. 3 |-> matmul(Weight(<<Q, K, V>>[i], l), "norm", <<Q, K, V>>[i])]
  \o If(m.bias, addBiases(l)) \o If(m.norms, normHeads(l))
  \o <<rope(Q, TRUE), rope(K, TRUE), store_kv(l), paged_attention(l),
       matmul(Weight("o", l), "attn", "hidden")>>

hip_shared(m, l) ==
  mlp(Weight("sh_gu", l), Weight("sh_dn", l))
  \o If(m.gate, <<allocate({"shs"}), matmul(Weight("sh_gate", l), "norm", "shs"),
                  scale_sigmoid, release({"shs"})>>)

hip_moe_place(l, c) ==
  <<upload("slot_gu", <<l, c>>), upload("slot_dn", <<l, c>>), upload("slot_of", <<l, c>>)>>

hip_chunk(l, c) == <<onMiss(hip_moe_place(l, c)), moe_ffn(l, c)>>

hip_sparse(m, l) ==
  <<allocate({"route", "idx", "score"}), matmul(Weight("router", l), "norm", "route"),
    moe_route, download("idx")>>
  \o (IF m.shared THEN hip_shared(m, l) ELSE <<memset>>)
  \o ForEach(m.chunks, LAMBDA c : hip_chunk(l, c)) \o <<release({"route", "idx", "score"})>>

hip_layer(m, l) ==
  <<rms_norm_add(Weight("input_ln", l))>> \o hip_attention(m, l)
  \o <<rms_norm_add(Weight("post_ln", l))>>
  \o (IF m.ffn = "dense" THEN mlp(Weight("gate_up", l), Weight("down", l)) ELSE hip_sparse(m, l))

hip_forward_logits(m) ==
  FlattenSeq(<<hip_input("ids"), hip_input("pos"), hip_input("slots"), hip_input("tables"),
               hip_input("last")>>)
  \o <<allocate(PassBuffers), embedding>>
  \o ForEach(m.layers, LAMBDA l : hip_layer(m, l))
  \o <<rms_norm_add(Weight("final_norm", 0)), allocate({"selected"}), gather_rows,
       allocate({"logits"}), matmul(Weight("lm_head", 0), "selected", "logits"),
       download("logits"), release(InputBuffers \cup PassBuffers \cup TailBuffers)>>

forward_logits(m) ==
  IF m.backend = "hip" THEN hip_forward_logits(m) ELSE vulkan_forward_logits(m)
=============================================================================

----------------------------- MODULE MC_Weights -----------------------------
(***************************************************************************)
(* Model values for Weights.  Matrices have 128 or 256 columns, so that a  *)
(* block of 256 values is one row or spans two; q has twice the rows of k. *)
(***************************************************************************)
EXTENDS Weights

S(en, gr, dts, hidden, rows, tile, batch) ==
  [engine |-> en, found |-> {"gguf"}, group |-> gr, dtypes |-> dts, hidden |-> hidden, rows |-> rows,
   tile |-> tile, batch |-> batch]

Engines == {"hip", "vulkan"}
Mixable == {"F16", "BF16", "Q8_0", "Q4_0", "Q2_K", "Q5_K", "Q6_K"}
Shapes3 == {<<256, <<2, 1, 1>>>>, <<128, <<4, 2, 2>>>>, <<128, <<2, 1, 1>>>>}

Singles ==
  {S(en, "single", <<dt>>, sh[1], <<sh[2]>>, tile, b) :
     en \in Engines, dt \in Dtypes, sh \in {<<256, 3>>, <<128, 4>>},
     tile \in {<<>>, <<2, 3>>}, b \in {1, 5, 9}}
Packed ==
  {S(en, "packed", <<dt>>, sh[1], sh[2], <<>>, b) :
     en \in Engines, dt \in {"F16", "Q8_0", "Q4_0", "Q4_K", "Q6_K"}, sh \in Shapes3, b \in {1, 5}}
Threes ==
  {S(en, "qkv", <<a, b, c>>, sh[1], sh[2], <<>>, 5) :
     en \in Engines, a \in Mixable, b \in Mixable, c \in Mixable,
     sh \in {<<256, <<2, 1, 1>>>>, <<128, <<4, 2, 2>>>>}}
Pairs ==
  {S(en, "gate_up", <<a, b>>, 256, <<2, 2>>, tile, 5) :
     en \in Engines, a \in Mixable \cup {"Q4_K"}, b \in Mixable \cup {"Q4_K"},
     tile \in {<<>>, <<3, 2>>}}
Sixteens == {"F16", "BF16"}
InSafetensors(setups) ==
  {[s EXCEPT !.found = found] :
     found \in {{"safetensors"}, {"gguf", "safetensors"}},
     s \in {t \in setups : t.tile = <<>> /\ {t.dtypes[p] : p \in DOMAIN t.dtypes} \subseteq Sixteens}}

OnlyU16Setups ==
  {S(en, "router", <<dt>>, 128, <<4>>, <<>>, 5) : en \in Engines, dt \in Dtypes} \cup
  {S(en, "shared", <<a, b>>, 256, <<2, 2>>, <<>>, 5) : en \in Engines, a, b \in Mixable}

(* Experts with 2 rows of 4 columns, or of one block each; with 1 row of   *)
(* 128 columns an expert is half a block.                                  *)
Mapped ==
  {[S(en, "stacked", <<dt, dt, dt>>, 4, <<4 * n, 2 * n, n>>, <<>>, 1) EXCEPT !.found = {"safetensors"}] :
     en \in Engines, dt \in Sixteens, n \in {1, 3}} \cup
  {[S(en, "files", <<dt, dt, dt, dt>>, 4, <<2 * n, 2 * n, 2 * n, n>>, <<>>, 1)
      EXCEPT !.found = {"safetensors"}] :
     en \in Engines, dt \in Sixteens, n \in {1, 3}}
Quantised ==
  {S(en, "exps", <<a, b, b, "F16">>, 128, <<r * n, r * n, r * n, n>>, <<>>, 1) :
     en \in Engines, a \in {"Q4_K", "Q6_K", "Q5_K"}, b \in {"Q4_K", "Q6_K"},
     r \in {1, 2}, n \in {1, 2}}

Matrices == Singles \cup Packed \cup Threes \cup Pairs \cup OnlyU16Setups
Everything == Matrices \cup InSafetensors(Matrices) \cup Mapped \cup Quantised

\* The hypothesis of the theorem of WeightsProofs; DecodeQk is the subject of MC_Decode.
SoundSetups == {s \in Everything : Sound(s)}
DecodeSetups == {s \in Everything : DecodeQk(s)}
=============================================================================

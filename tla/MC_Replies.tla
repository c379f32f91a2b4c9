----------------------------- MODULE MC_Replies -----------------------------
(***************************************************************************)
(* Consoles for TLC: one whose model thinks, two with a shape, and one     *)
(* with tools.                                                             *)
(***************************************************************************)
EXTENDS Replies

Plain == [pieces |-> {}, most |-> 0, strip |-> FALSE, shape |-> <<>>, max_iters |-> 0,
          shell |-> {}, mcp |-> {}, calls |-> {}]

\* The opening tag also in two halves, which a cut may bring together.
Thinks ==
  [Plain EXCEPT !.most = 6, !.strip = TRUE,
                !.pieces = {<<"[thin">>, <<"king]">>, OpenTag, CloseTag, <<"x">>}]

\* Objects of up to three members, one of them with a key that is not listed.
Members ==
  [Plain EXCEPT !.most = 6, !.shape = <<"a", ",", Space, "b">>,
                !.pieces = {<<"{">>, <<"}">>, <<",">>, <<Space>>, <<Quote>>,
                            Member("a", <<>>), Member("c", <<"}">>)}]
\* Strings unit by unit.
Strings ==
  [Plain EXCEPT !.most = 6, !.shape = <<"a", ",">>, !.strip = TRUE,
                !.pieces = {<<"{", Quote>>, <<Quote>>, <<Quote, ":">>, <<Space>>, <<"a">>, <<"}">>}]
\* The option is refused: nothing is constrained.
RefusedShape ==
  [Plain EXCEPT !.most = 2, !.shape = <<"a", ",", "a">>, !.pieces = {<<"{">>, <<"x">>}]

CallF == [name |-> <<"f">>, args |-> <<"{", Quote, "x", Escape, "}">>]
CallG == [name |-> <<"g">>, args |-> <<>>]

Tools ==
  [Plain EXCEPT !.most = 4, !.max_iters = 2, !.shell = {<<"f">>}, !.mcp = {<<"f">>, <<"g">>},
                !.calls = {CallF, CallG},
                !.pieces = {CallText(CallF), CallText(CallG), Fence, FenceJson,
                            <<"{">>, <<"}">>, <<Quote>>}]

Consoles == {Thinks, Members, Strings, RefusedShape, Tools}
=============================================================================

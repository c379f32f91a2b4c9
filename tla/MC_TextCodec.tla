---------------------------- MODULE MC_TextCodec ----------------------------
EXTENDS TextCodec

\* a, s, a space, a quote, <, and a letter of two bytes.
Characters_MC == {<<97>>, <<115>>, <<32>>, <<39>>, <<60>>, <<195, 169>>}

\* As code points of byte-level BPE.
Ch(b) == byte_to_codepoint[b]
Singles == {<<Ch(b)>> : b \in {97, 115, 32, 39, 60, 195, 169}}
Merges_MC == << <<(<<97>>), <<115>>>>, <<(<<Ch(32)>>), <<97, 115>>>>, <<(<<115>>), <<115>>>>,
                <<(<<97, 115>>), <<115, 115>>>>, <<(<<115>>), <<97, 115>>>>,
                <<(<<Ch(195)>>), <<Ch(169)>>>>, <<(<<115>>), <<97>>>> >>
MergedPieces == {Merges_MC[i][1] \o Merges_MC[i][2] : i \in DOMAIN Merges_MC}
Bpe(pre) ==
  [from |-> "json",
   of |-> [vocab |-> [p \in Singles \cup MergedPieces |-> 0], added |-> {<<60>>, <<60, 115>>},
           merges |-> Merges_MC, type |-> "BPE", array |-> FALSE, pre |-> pre]]

Words == {Meta, Meta \o <<97>>, <<97>>, <<115>>, <<97, 115>>, <<115, 97, 115>>, <<39, 115>>}
Score(p) == CASE p = Meta -> -4 [] Len(p) = 1 -> -5 [] p = <<97, 115>> -> -8 [] OTHER -> -11
ByteWords == {BytePiece(b) : b \in {39, 60, 195, 169}}
Unigram_MC ==
  [from |-> "json",
   of |-> [vocab |-> [p \in Words \cup ByteWords |-> Score(p)], added |-> {<<60, 115>>},
           merges |-> <<>>, type |-> "Unigram", array |-> TRUE,
           pre |-> <<[kind |-> "Metaspace"]>>]]
Llama_MC ==
  [from |-> "gguf",
   of |-> [tokens |-> [p \in Words \cup ByteWords \cup {<<60>>} |->
                         [type |-> IF p = <<60>> THEN "control"
                                   ELSE IF parse_byte_piece(p) THEN "byte"
                                   ELSE IF p = <<39, 115>> THEN "unused" ELSE "normal",
                          score |-> Score(p)]],
           names |-> {}, merges |-> <<>>, model |-> "llama", has_scores |-> TRUE,
           add_bos |-> "absent", bos |-> <<60>>]]

ByteLevel(prefix) == [kind |-> "ByteLevel", prefix |-> prefix]
Split(by, sep, classes, behavior) ==
  [kind |-> "Split", by |-> by, sep |-> sep, classes |-> classes, behavior |-> behavior]
AllClasses == {"space", "digit", "letter", "punct"}

Files_MC ==
  {Bpe(<<>>),
   Bpe(<<Split("Whitespace", 0, {}, "Isolated"), ByteLevel(TRUE)>>),
   Bpe(<<Split("regex", 0, AllClasses, "Isolated"), Split("char", 97, {}, "Isolated")>>),
   Unigram_MC, Llama_MC}
PreKinds_MC ==
  {Split("regex", 0, {"letter", "space"}, "Isolated"), Split("regex", 0, {"punct"}, "Merged"),
   ByteLevel(FALSE), [kind |-> "Whitespace"], [kind |-> "WhitespaceSplit"],
   [kind |-> "Punctuation"], [kind |-> "Digits", individual |-> FALSE],
   [kind |-> "Metaspace", replacement |-> <<>>]}

\* The hypothesis of the theorem of TextCodecProofs.
ASSUME TheoremApplies == ScoresFit
=============================================================================

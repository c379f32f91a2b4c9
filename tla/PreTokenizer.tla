---------------------------- MODULE PreTokenizer ----------------------------
(***************************************************************************)
(* How a text is cut into pieces before it is encoded: the stages of       *)
(* Tokenizer::pretokenize_raw (src/tokenizer.cpp) and the kinds of         *)
(* ptok::pre_split (include/nanovllm/pre_tokenizer.hpp).                   *)
(*                                                                         *)
(* A text is a sequence of bytes, 0 .. 255.                                *)
(***************************************************************************)
EXTENDS Integers, Sequences, SequencesExt

Sp == 32
Quote == 39
Breaks == {10, 13}

is_ascii_letter(c) == c \in (65 .. 90) \cup (97 .. 122)
is_ascii_digit(c) == c \in 48 .. 57
is_ascii_space(c) == c \in {Sp, 9} \cup Breaks
lower_cp(c) == IF c \in 65 .. 90 THEN c + 32 ELSE c

Continues(b) == b \div 64 = 2

\* The code points of a text, valid UTF-8 up to three bytes, and their bytes.
decode_utf8(s) ==
  FoldLeft(LAMBDA cps, b :
             CASE b < 128 -> Append(cps, b)
               [] b \div 32 = 6 -> Append(cps, b % 32)
               [] b \div 16 = 14 -> Append(cps, b % 16)
               [] Continues(b) -> [cps EXCEPT ![Len(cps)] = @ * 64 + (b % 64)], <<>>, s)
encode_utf8(cp) ==
  CASE cp < 128 -> <<cp>>
    [] cp \in 128 .. 2047 -> <<192 + cp \div 64, 128 + (cp % 64)>>
    [] OTHER -> <<224 + cp \div 4096, 128 + ((cp \div 64) % 64), 128 + (cp % 64)>>
Bytes(cps) == FlattenSeq([i \in DOMAIN cps |-> encode_utf8(cps[i])])

\* The first position from i on whose element is not in P, or the one after the end.
RunEnd(s, i, P(_)) ==
  CHOOSE j \in i .. Len(s) + 1 :
    (j = Len(s) + 1 \/ ~ P(s[j])) /\ \A k \in i .. j - 1 : P(s[k])

\* The loops of this file: at i a piece is found, and the next one begins at its end.
Scan(s, End(_)) ==
  FoldLeft(LAMBDA acc, i :
             IF i < acc.next THEN acc
             ELSE [next |-> End(i), out |-> Append(acc.out, SubSeq(s, i, End(i) - 1))],
           [next |-> 1, out |-> <<>>], [i \in 1 .. Len(s) |-> i]).out
-----------------------------------------------------------------------------
Contractions == {<<115>>, <<116>>, <<114, 101>>, <<118, 101>>, <<109>>, <<108, 108>>, <<100>>}

\* How many characters a contraction at i takes, 0 if there is none: 's, 'll.
Contraction(cps, i) ==
  LET tail == [k \in 1 .. Len(cps) - i |-> lower_cp(cps[i + k])]
      here == {c \in Contractions : Len(c) <= Len(tail) /\ SubSeq(tail, 1, Len(c)) = c}
  IN  IF cps[i] # Quote \/ here = {} THEN 0 ELSE 1 + Len(CHOOSE c \in here : TRUE)

\* A character takes the letters that follow it, unless it is a line break.
LettersFollow(cps, i) ==
  i < Len(cps) /\ is_ascii_letter(cps[i + 1]) /\ cps[i] \notin Breaks

DefaultEnd(cps, i) ==
  CASE Contraction(cps, i) > 0 -> i + Contraction(cps, i)
    [] Contraction(cps, i) = 0 /\ LettersFollow(cps, i) -> RunEnd(cps, i + 1, is_ascii_letter)
    [] OTHER ->
         IF is_ascii_space(cps[i]) THEN RunEnd(cps, i, is_ascii_space)
         ELSE IF is_ascii_letter(cps[i]) THEN RunEnd(cps, i + 1, is_ascii_letter)
         ELSE IF is_ascii_digit(cps[i])
              THEN LET j == RunEnd(cps, i, is_ascii_digit) IN IF j > i + 3 THEN i + 3 ELSE j
         ELSE i + 1

default_split(text) ==
  LET cps == decode_utf8(text)
      pieces == Scan(cps, LAMBDA i : DefaultEnd(cps, i))
  IN  [p \in DOMAIN pieces |-> Bytes(pieces[p])]

\* A run of separators is attached to the piece behind it.
SplitKeep(s, Sep(_)) ==
  Scan(s, LAMBDA i : LET j == RunEnd(s, i, Sep)
                         k == RunEnd(s, j, LAMBDA b : ~ Sep(b))
                     IN  IF k > j THEN k ELSE j)
split_keep_ws(s) == SplitKeep(s, is_ascii_space)
split_keep_str(s, sep) == SplitKeep(s, LAMBDA b : b = sep)
-----------------------------------------------------------------------------
\* is_space, is_digit, is_letter and is_punct of pre_tokenizer.hpp, over bytes.
Class(b) ==
  CASE is_ascii_space(b) -> "space"
    [] is_ascii_digit(b) -> "digit"
    [] is_ascii_letter(b) \/ b >= 128 -> "letter"
    [] OTHER -> "punct"
IsSpace(b) == Class(b) = "space"
RunOf(s, i) == RunEnd(s, i, LAMBDA b : Class(b) = Class(s[i]))

\* What a regular expression over classes matches, as <<first, last>>, in order.
Matches(classes, text) ==
  LET runs == Scan(text, LAMBDA i : RunOf(text, i))
      from == [r \in DOMAIN runs |-> Len(FlattenSeq(SubSeq(runs, 1, r - 1))) + 1]
      all == [r \in DOMAIN runs |-> <<from[r], from[r] + Len(runs[r]) - 1>>]
  IN  SelectSeq(all, LAMBDA m : Class(text[m[1]]) \in classes)

\* Isolated: the matches are the pieces; one of spaces is glued to the next.
Isolated(matches, text) ==
  FoldLeft(LAMBDA acc, m :
             LET tok == SubSeq(text, matches[m][1], matches[m][2])
                 spaces == \A b \in ToSet(tok) : IsSpace(b)
             IN  IF acc.skip THEN [acc EXCEPT !.skip = FALSE]
                 ELSE [skip |-> spaces,
                       out |-> Append(acc.out,
                                 IF spaces /\ m < Len(matches)
                                 THEN tok \o SubSeq(text, matches[m + 1][1], matches[m + 1][2])
                                 ELSE tok)],
           [skip |-> FALSE, out |-> <<>>], [m \in DOMAIN matches |-> m]).out

\* Mutant: what lies between the matches, without what is behind the last of them.
GapsNoTail(matches, text) ==
  SelectSeq([g \in DOMAIN matches |->
               SubSeq(text, IF g = 1 THEN 1 ELSE matches[g - 1][2] + 1, matches[g][1] - 1)],
            LAMBDA p : p # <<>>)

\* Merged, and Removed: what lies between the matches.
Gaps(matches, text) ==
  LET gap(g) == SubSeq(text, IF g = 1 THEN 1 ELSE matches[g - 1][2] + 1,
                       IF g > Len(matches) THEN Len(text) ELSE matches[g][1] - 1)
  IN  SelectSeq([g \in 1 .. Len(matches) + 1 |-> gap(g)], LAMBDA p : p # <<>>)

split_regex(classes, behavior, text) ==
  IF behavior = "Isolated" THEN Isolated(Matches(classes, text), text)
                           ELSE Gaps(Matches(classes, text), text)
-----------------------------------------------------------------------------
\* The other kinds of pre_split.
byte_level(s, add_prefix_space) ==
  LET runs == Scan(s, LAMBDA i : IF Class(s[i]) = "punct" THEN i + 1 ELSE RunOf(s, i))
      bare(r) == /\ Class(runs[r][1]) \in {"letter", "digit"}
                 /\ r = 1 \/ IsSpace(runs[r - 1][1])
  IN  [r \in DOMAIN runs |-> IF add_prefix_space /\ bare(r) THEN <<Sp>> \o runs[r] ELSE runs[r]]

\* The runs of spaces and of anything else.
Runs(s) == Scan(s, LAMBDA i : RunEnd(s, i, LAMBDA b : IsSpace(b) = IsSpace(s[i])))
whitespace(s) == SelectSeq(Runs(s), LAMBDA p : ~ IsSpace(p[1]))
\* Spaces are pieces too, but for those at the beginning.
whitespace_split(s) == Runs(SubSeq(s, RunEnd(s, 1, IsSpace), Len(s)))
punctuation(s) ==
  Scan(s, LAMBDA i : IF Class(s[i]) = "punct" THEN i + 1
                     ELSE RunEnd(s, i, LAMBDA b : Class(b) # "punct"))
digits(s, individual) ==
  Scan(s, LAMBDA i : IF Class(s[i]) = "digit" /\ ~ individual THEN RunOf(s, i) ELSE i + 1)
metaspace(s, replacement) ==
  LET words == whitespace(s)
  IN  [w \in DOMAIN words |-> IF w = 1 THEN words[w] ELSE replacement \o words[w]]

\* A Sequence: each stage cuts the pieces of the one before it.
Stages(text, stages, Cut(_, _)) ==
  FoldLeft(LAMBDA pieces, s : FlattenSeq([p \in DOMAIN pieces |-> Cut(s, pieces[p])]),
           <<text>>, stages)

pre_split(stage, s) ==
  CASE stage.kind = "Split" -> split_regex(stage.classes, stage.behavior, s)
    [] stage.kind = "ByteLevel" -> byte_level(s, stage.prefix)
    [] stage.kind = "Whitespace" -> whitespace(s)
    [] stage.kind = "WhitespaceSplit" -> whitespace_split(s)
    [] stage.kind = "Punctuation" -> punctuation(s)
    [] stage.kind = "Digits" -> digits(s, stage.individual)
    [] stage.kind = "Metaspace" -> metaspace(s, stage.replacement)
    [] OTHER -> <<s>>
-----------------------------------------------------------------------------
\* collect_pre_stages: the stages the tokenizer takes over, <<>> (the built-in split)
\* when there is one it does not know.
Known(s) ==
  \/ s.kind = "ByteLevel"
  \/ s.kind = "Split" /\ (s.by # "regex" => s.behavior # "Removed")
parse_pretokenizer(stages) == IF \A s \in ToSet(stages) : Known(s) THEN stages ELSE <<>>

Prefixed(stages, text) ==
  IF (\E s \in ToSet(stages) : s.kind = "ByteLevel" /\ s.prefix) /\ text # <<>> /\ text[1] # Sp
  THEN <<Sp>> \o text ELSE text

StageCut(stage, s) ==
  CASE stage.kind = "ByteLevel" -> <<s>>
    [] stage.kind = "Split" /\ stage.by = "Whitespace" -> split_keep_ws(s)
    [] stage.kind = "Split" /\ stage.by = "char" -> split_keep_str(s, stage.sep)
    [] stage.kind = "Split" /\ stage.by = "regex" -> pre_split(stage, s)

pretokenize_raw(stages, text) ==
  IF stages = <<>> THEN default_split(text)
  ELSE Stages(Prefixed(stages, text), stages, StageCut)
=============================================================================

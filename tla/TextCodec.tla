----------------------------- MODULE TextCodec -----------------------------
(***************************************************************************)
(* A text typed character by character under every kind of tokenizer file, *)
(* and what encoding, decoding and pre-splitting it must give at each      *)
(* length.                                                                 *)
(***************************************************************************)
EXTENDS Tokenizer

CONSTANTS
  Files,          \* model files: [from |-> "json" or "gguf", of |-> what it holds]
  Characters,     \* the characters that are typed, as sequences of bytes
  PreKinds,       \* pre-splitters a tokenizer.json may name
  MaxChars

VARIABLES t,      \* the loaded tokenizer
          text,   \* what was typed
          typed   \* in how many characters

vars == <<t, text, typed>>

Init ==
  /\ \E f \in Files : t = IF f.from = "json" THEN load(f.of) ELSE load_from_gguf(f.of)
  /\ text = <<>> /\ typed = 0

Type ==
  /\ typed < MaxChars
  /\ \E c \in Characters : text' = text \o c
  /\ typed' = typed + 1
  /\ UNCHANGED t

Next == Type
Spec == Init /\ [][Next]_vars
-----------------------------------------------------------------------------
(***************************************************************************)
(* Decoding the tokens of a text gives the text back (tokenizer.cpp:650,   *)
(* "decode(encode(x)) == x holds"), without its specials and up to a space *)
(* in front of each stretch between them: no byte is lost in splitting,    *)
(* merging, in the best path or in the fall back to bytes.  The stand-alone *)
(* unigram tokenizer gives back exactly what it could encode.              *)
(***************************************************************************)
RoundTrip ==
  LET spans == SelectSeq(Spans(t, text), LAMBDA s : s \notin t.specials)
      back == decode_tokens(t, encode_text(t, text))
      spaced(added) == FlattenSeq([i \in DOMAIN spans |->
                         IF i \in added THEN <<Sp>> \o spans[i] ELSE spans[i]])
      ids == spm_encode(t, text)
  IN  /\ \E added \in SUBSET DOMAIN spans : back = spaced(added)
      /\ (t.unigram /\ Unk \notin ToSet(ids)) => spm_decode(ids) = text

(***************************************************************************)
(* encode_unigram finds the best of all ways to cut a text into pieces:    *)
(* its score is the highest among the scores of every cut.                 *)
(***************************************************************************)
ScoreOf(id) == IF parse_byte_piece(id) THEN BYTE_SCORE ELSE t.score[id]
\* The tokens by which a cut can go from position i to position p.
Pieces(s, i, p) ==
  {id \in t.usable \cup {BytePiece(b) : b \in t.fallback} :
     \/ id = SubSeq(s, i + 1, p)
     \/ p = i + 1 /\ id = BytePiece(s[p])}
\* The scores of all cuts of what is behind position i.
CutScores(s) ==
  LET totals[i \in 0 .. Len(s)] ==
        IF i = Len(s) THEN {0}
        ELSE UNION {UNION {{x + ScoreOf(id) : x \in totals[p]} : id \in Pieces(s, i, p)} :
                      p \in i + 1 .. Len(s)}
  IN  totals[0]
BestCut ==
  LET all == CutScores(Spaced(text))
      found == encode_unigram(t, text)
  IN  (t.unigram /\ all # {}) =>
        FoldLeft(LAMBDA sum, id : sum + ScoreOf(id), 0, found) = Max(all)

(***************************************************************************)
(* Merging the pair of lowest rank again and again gives what applying     *)
(* the merges one after the other, each wherever it fits, gives: the order *)
(* of BPE training, as long as a merge stands behind those it builds on.   *)
(***************************************************************************)
ApplyEverywhere(parts, m) ==
  FoldLeft(LAMBDA out, p :
             IF out # <<>> /\ <<Last(out), p>> = m
             THEN Append(Front(out), Last(out) \o p) ELSE Append(out, p), <<>>, parts)
MergesInRankOrder ==
  LET cps == bytes_to_byte_level(text)
      parts == [i \in DOMAIN cps |-> <<cps[i]>>]
  IN  ~ t.unigram => Merged(t, parts) = FoldLeft(ApplyEverywhere, parts, t.merges)

(***************************************************************************)
(* The pre-splitters lose no text but what they are asked to lose, and     *)
(* keep its order: a regular expression keeps what it matches (Isolated)   *)
(* or what it does not (Merged), the kinds that split at spaces everything *)
(* but spaces, and the others every byte.                                  *)
(***************************************************************************)
Kept(k) ==
  CASE k.kind = "Split" ->
         SelectSeq(text, LAMBDA b : (Class(b) \in k.classes) = (k.behavior = "Isolated"))
    [] k.kind \in {"Whitespace", "Metaspace"} -> SelectSeq(text, LAMBDA b : ~ IsSpace(b))
    [] k.kind = "WhitespaceSplit" -> SubSeq(text, RunEnd(text, 1, IsSpace), Len(text))
    [] OTHER -> text
PreSplitKeeps ==
  \A k \in PreKinds :
    LET pieces == pre_split(k, text)
    IN  FlattenSeq(pieces) = Kept(k) /\ <<>> \notin ToSet(pieces)
-----------------------------------------------------------------------------
(***************************************************************************)
(* What the proofs ask of the files: a character is at most four bytes,    *)
(* and no text is so long that its score, Meta counted for every byte,     *)
(* comes down to NEG, which stands for a position that is not reached.     *)
(***************************************************************************)
Scores(f) ==
  IF f.from = "json" THEN {f.of.vocab[p] : p \in DOMAIN f.of.vocab}
                     ELSE {f.of.tokens[p].score : p \in DOMAIN f.of.tokens}
ScoresFit ==
  /\ MaxChars \in Nat
  /\ \A c \in Characters : c \in Seq(0 .. 255) /\ Len(c) <= 4
  /\ \A f \in Files : \A x \in Scores(f) \cup {BYTE_SCORE} :
       x \in Int /\ 12 * MaxChars * x > NEG
=============================================================================

----------------------------- MODULE Tokenizer -----------------------------
(***************************************************************************)
(* Tokenizer (src/tokenizer.cpp): what is loaded from tokenizer.json or    *)
(* from a GGUF file, byte-level BPE and unigram; and the stand-alone       *)
(* unigram tokenizer of include/nanovllm/spm_tokenizer.hpp.                *)
(*                                                                         *)
(* A piece is a sequence of bytes (unigram) or of the code points that     *)
(* stand for bytes (BPE).  A token is known by its piece: vocab_ and       *)
(* id_to_piece_ are inverse to each other.                                 *)
(***************************************************************************)
EXTENDS PreTokenizer, FiniteSetsExt

Meta == <<226, 150, 129>>

\* GPT-2's printable stand-in for every byte, as load() fills the table.
safe(b) == b \in (33 .. 126) \cup (161 .. 172) \cup {174, 248}
byte_to_codepoint ==
  [b \in 0 .. 255 |-> IF safe(b) THEN b ELSE 256 + Cardinality({c \in 0 .. b - 1 : ~ safe(c)})]
bytes_to_byte_level(s) == [i \in DOMAIN s |-> byte_to_codepoint[s[i]]]
byte_level_to_bytes(cps) ==
  FlattenSeq([i \in DOMAIN cps |->
    LET from == {b \in 0 .. 255 : byte_to_codepoint[b] = cps[i]}
    IN  IF from = {} THEN encode_utf8(cps[i]) ELSE <<CHOOSE b \in from : TRUE>>])

\* The piece "<0x..>" of a byte, written as one mark and the byte.
ByteMark == -1
BytePiece(b) == <<ByteMark, b>>
parse_byte_piece(p) == Len(p) = 2 /\ p[1] = ByteMark
-----------------------------------------------------------------------------
\* finalize_pieces: what Viterbi may match, and the bytes that have a piece.
finalize_pieces(t) ==
  [t EXCEPT !.usable = {p \in t.pieces : ~ parse_byte_piece(p) /\ p \notin t.specials
                                         /\ (t.typed => p \in t.normal)},
            !.fallback = {p[2] : p \in {q \in t.pieces : parse_byte_piece(q)}}]

\* load: the added tokens are the specials, and an array of pieces is a unigram model.
load(f) ==
  LET pieces == DOMAIN f.vocab \cup f.added
  IN  finalize_pieces(
        [pieces |-> pieces, specials |-> f.added,
         score |-> [p \in pieces |-> IF p \in DOMAIN f.vocab THEN f.vocab[p] ELSE 0],
         merges |-> f.merges, unigram |-> f.type = "Unigram" \/ (f.merges = <<>> /\ f.array),
         stages |-> parse_pretokenizer(f.pre), typed |-> FALSE, normal |-> {}, bos |-> <<>>,
         usable |-> {}, fallback |-> {}])

\* load_from_gguf: control and user-defined tokens, and some names, are specials.
load_from_gguf(f) ==
  finalize_pieces(
    [pieces |-> DOMAIN f.tokens,
     specials |-> {p \in DOMAIN f.tokens : f.tokens[p].type \in {"control", "user"}}
                  \cup (f.names \cap DOMAIN f.tokens),
     score |-> [p \in DOMAIN f.tokens |-> f.tokens[p].score],
     merges |-> f.merges,
     unigram |-> f.merges = <<>> /\ (f.model \in {"llama", "unigram"} \/ f.has_scores),
     stages |-> <<>>, typed |-> TRUE,
     normal |-> {p \in DOMAIN f.tokens : f.tokens[p].type = "normal"},
     bos |-> IF f.add_bos = "yes" \/ (f.add_bos = "absent" /\ f.model = "llama")
             THEN f.bos ELSE <<>>,
     usable |-> {}, fallback |-> {}])
-----------------------------------------------------------------------------
\* The neighbours that can be merged, and the rank of a merge.
Mergeable(t, parts) ==
  {i \in 1 .. Len(parts) - 1 : <<parts[i], parts[i + 1]>> \in ToSet(t.merges)}
RankAt(t, parts, i) ==
  CHOOSE r \in DOMAIN t.merges : t.merges[r] = <<parts[i], parts[i + 1]>>

MergeAt(parts, i) ==
  SubSeq(parts, 1, i - 1) \o <<parts[i] \o parts[i + 1]>> \o SubSeq(parts, i + 2, Len(parts))

\* Mutant: the leftmost pair that can be merged, whatever its rank.
MergeOnceLeft(t, parts) ==
  IF Mergeable(t, parts) = {} THEN parts ELSE MergeAt(parts, Min(Mergeable(t, parts)))

\* The pair with the lowest rank, the leftmost if there are several.
MergeOnce(t, parts) ==
  LET able == Mergeable(t, parts)
      lowest == Min({RankAt(t, parts, i) : i \in able})
  IN  IF able = {} THEN parts
      ELSE MergeAt(parts, Min({i \in able : RankAt(t, parts, i) = lowest}))

\* Every merge shortens the list.
Merged(t, parts) == FoldLeft(LAMBDA p, i : MergeOnce(t, p), parts, parts)

\* A part that is no piece is spelt in characters; those that are none are lost.
TokensOf(t, part) ==
  IF part \in t.pieces THEN <<part>>
  ELSE SelectSeq([i \in DOMAIN part |-> <<part[i]>>], LAMBDA c : c \in t.pieces)

encode_piece(t, piece) ==
  LET parts == Merged(t, [i \in DOMAIN piece |-> <<piece[i]>>])
  IN  FlattenSeq([i \in DOMAIN parts |-> TokensOf(t, parts[i])])
-----------------------------------------------------------------------------
NEG == -1000000
BYTE_SCORE == -10000

Spaced(s) == FlattenSeq([i \in DOMAIN s |-> IF s[i] = Sp THEN Meta ELSE <<s[i]>>])

\* Mutant: without bytes.
EdgeNoBytes(t, s, i, p) ==
  LET sub == SubSeq(s, i + 1, p)
  IN  IF sub \in t.usable THEN <<[score |-> t.score[sub], id |-> sub]>> ELSE <<>>

\* The token by which position i is left towards p: a piece, or a byte that scores more.
Edge(t, s, i, p) ==
  LET sub == SubSeq(s, i + 1, p)
      byte == p = i + 1 /\ s[p] \in t.fallback
  IN  IF sub \in t.usable /\ ~ (byte /\ t.score[sub] < BYTE_SCORE)
      THEN <<[score |-> t.score[sub], id |-> sub]>>
      ELSE IF byte THEN <<[score |-> BYTE_SCORE, id |-> BytePiece(s[p])]>> ELSE <<>>

\* Mutant: the first way to reach a position is kept.
BetterFirst(old, new) == old = NEG

Better(old, new) == new > old

\* best, blen and bid: how the start of the text up to each position is best cut.
Viterbi(t, s) ==
  LET relax(best, i) ==
        [p \in 0 .. Len(s) |->
           IF p <= i \/ best[i].score = NEG THEN best[p]
           ELSE LET e == Edge(t, s, i, p)
                IN  IF e # <<>> /\ Better(best[p].score, best[i].score + e[1].score)
                    THEN [score |-> best[i].score + e[1].score, from |-> i, id |-> e[1].id]
                    ELSE best[p]]
  IN  FoldLeft(relax, [p \in 0 .. Len(s) |->
                         [score |-> IF p = 0 THEN 0 ELSE NEG, from |-> -1, id |-> <<>>]],
               [i \in 1 .. Len(s) |-> i - 1])

\* From the end back; a position that is not reached is passed over.
Backtrack(best, n) ==
  LET path[p \in 0 .. n] ==
        IF p = 0 THEN <<>>
        ELSE IF best[p].score = NEG THEN path[p - 1]
        ELSE Append(path[best[p].from], best[p].id)
  IN  path[n]

encode_unigram(t, raw) == LET s == Spaced(raw) IN Backtrack(Viterbi(t, s), Len(s))
-----------------------------------------------------------------------------
At(text, i, s) == i + Len(s) - 1 <= Len(text) /\ SubSeq(text, i, i + Len(s) - 1) = s

\* The special that begins at i, the longest of them; <<>> if there is none.
SpecialAt(t, text, i) ==
  LET here == {s \in t.specials : At(text, i, s)}
  IN  IF here = {} THEN <<>> ELSE CHOOSE s \in here : \A x \in here : Len(x) <= Len(s)

\* A special, or the text up to the next one.
Spans(t, text) ==
  LET indices == [j \in DOMAIN text |-> j]
  IN  Scan(text, LAMBDA i : IF SpecialAt(t, text, i) # <<>>
                            THEN i + Len(SpecialAt(t, text, i))
                            ELSE RunEnd(indices, i, LAMBDA j : SpecialAt(t, text, j) = <<>>))

\* The first word of a span gets a space, unless (behind a special) the span ends in one.
Metaed(t, first, span, pieces) ==
  IF t.unigram /\ (first \/ Last(span) # Sp) /\ pieces # <<>> /\ pieces[1][1] # Sp
  THEN [pieces EXCEPT ![1] = <<Sp>> \o @] ELSE pieces

encode_span(t, first, span) ==
  LET pieces == Metaed(t, first, span, pretokenize_raw(t.stages, span))
      one(p) == IF t.unigram THEN encode_unigram(t, p)
                             ELSE encode_piece(t, bytes_to_byte_level(p))
  IN  FlattenSeq([i \in DOMAIN pieces |-> one(pieces[i])])

encode_text(t, text) ==
  LET spans == Spans(t, text)
      one(i) == IF spans[i] \in t.specials THEN <<spans[i]>>
                ELSE encode_span(t, i = 1, spans[i])
      ids == FlattenSeq([i \in DOMAIN spans |-> one(i)])
  IN  IF t.bos # <<>> /\ (ids = <<>> \/ ids[1] # t.bos) THEN <<t.bos>> \o ids ELSE ids

\* U+2581 back to a space.
spm_detokenize(piece) ==
  FoldLeft(LAMBDA out, b :
             IF Len(out) >= 2 /\ SubSeq(out, Len(out) - 1, Len(out)) \o <<b>> = Meta
             THEN Append(SubSeq(out, 1, Len(out) - 2), Sp) ELSE Append(out, b), <<>>, piece)

decode_token(t, p) ==
  IF p \in t.specials THEN <<>>
  ELSE IF ~ t.unigram THEN byte_level_to_bytes(p)
  ELSE IF parse_byte_piece(p) THEN <<p[2]>> ELSE spm_detokenize(p)
decode_tokens(t, ids) == FlattenSeq([i \in DOMAIN ids |-> decode_token(t, ids[i])])
-----------------------------------------------------------------------------
\* spm::encode: the whole text is one word; without a path to its end every character
\* but the spaces is unknown.
Unk == <<-2>>
spm_encode(t, text) ==
  LET s == Meta \o Spaced(text)
      best == Viterbi([t EXCEPT !.usable = t.pieces, !.fallback = {}], s)
      known == SelectSeq(decode_utf8(s), LAMBDA c : encode_utf8(c) # Meta)
  IN  IF text = <<>> THEN <<>>
      ELSE IF best[Len(s)].score # NEG THEN Backtrack(best, Len(s))
      ELSE [i \in DOMAIN known |-> Unk]

\* A piece that begins with U+2581 begins with a space, but for the first one.
spm_decode(ids) ==
  LET one(i) == IF Len(ids[i]) >= 3 /\ SubSeq(ids[i], 1, 3) = Meta
                THEN (IF i = 1 THEN <<>> ELSE <<Sp>>) \o SubSeq(ids[i], 4, Len(ids[i]))
                ELSE ids[i]
  IN  FlattenSeq([i \in DOMAIN ids |-> one(i)])
=============================================================================

------------------------------- MODULE KvTurn -------------------------------
(***************************************************************************)
(* One generation of the Vulkan command line over the KV cache             *)
(* (src/main_vulkan.cpp: prefill_logits, the decode step, the speculative  *)
(* step of run_turn) and the n-gram index it takes drafts from             *)
(* (include/nanovllm/drafter.hpp).                                         *)
(*                                                                         *)
(* A KV entry is what it was computed from: the tokens its row attended at *)
(* positions 0, 1, ..., its own last.  Slot and position are the same      *)
(* number in all of this code, and block i of the table is block i of the  *)
(* cache; what differs between the callers is which blocks the table has.  *)
(***************************************************************************)
EXTENDS Integers, Sequences, FiniteSets, SequencesExt

CONSTANTS
  BlockSize,      \* kvcache_block_size
  NumSlots,       \* bound: a conversation fits the 64 blocks of the table
  Unwritten,      \* what fresh cache memory holds
  Unmapped        \* what a row finds where its table has no block (-1)

ASSUME KvTurnAssumption ==
  /\ BlockSize \in Nat \ {0}
  /\ NumSlots \in Nat

VARIABLE kv       \* kv[s] = what the entry in slot s was computed from

Slots == 0 .. NumSlots - 1

FreshCache == [s \in Slots |-> <<Unwritten>>]

\* The blocks of a table that covers slots first .. last.
BlocksOf(first, last) == {s \div BlockSize : s \in first .. last}

\* What a row finds at slot p through a table with these blocks.
Found(cache, blocks, p) == IF p \div BlockSize \in blocks THEN cache[p] ELSE <<Unmapped>>

\* The row of token t at slot s stores its entry, computed from what it attends.
StoreRow(cache, blocks, s, t) ==
  [cache EXCEPT ![s] = [i \in 1 .. s |-> Last(Found(cache, blocks, i - 1))] \o <<t>>]

\* forward_logits on tokens at slots first, first + 1, ...: a row attends the rows
\* before it in the batch, and none after it.
forward_logits(cache, tokens, first, blocks) ==
  FoldLeft(LAMBDA c, i : StoreRow(c, blocks, first + i - 1, tokens[i]),
           cache, [i \in DOMAIN tokens |-> i])

\* prefill_logits fills the table for the new slots only.
PrefillBlocks(base, n) == BlocksOf(base, base + n - 1)

DecodeBlocks(pos) == BlocksOf(0, pos)
-----------------------------------------------------------------------------
(***************************************************************************)
(* NgramIndex: the first successor of every gram of n - 1 tokens.          *)
(***************************************************************************)
build(tokens, n) ==
  LET starts == IF n < 2 THEN {} ELSE 1 .. Len(tokens) - n + 1
      Gram(i) == SubSeq(tokens, i, i + n - 2)
      FirstAt(g) == CHOOSE i \in starts : Gram(i) = g /\ \A j \in starts : Gram(j) = g => i <= j
  IN  [g \in {Gram(i) : i \in starts} |-> tokens[FirstAt(g) + n - 1]]

\* The longest suffix of recent that has a successor, with it; <<>> when there is none.
suggest(succ, n, recent) ==
  LET Suffix(len) == SubSeq(recent, Len(recent) - len + 2, Len(recent))
      hits == {len \in 2 .. n : Len(recent) >= len - 1 /\ Suffix(len) \in DOMAIN succ}
      best == CHOOSE len \in hits : \A l \in hits : l <= len
  IN  IF hits = {} THEN <<>> ELSE Append(Suffix(best), succ[Suffix(best)])

\* The last n - 1 generated tokens, fewer when there are fewer.
TailOf(out, n) == SubSeq(out, Len(out) - (IF n - 1 < Len(out) THEN n - 1 ELSE Len(out)) + 1, Len(out))
=============================================================================

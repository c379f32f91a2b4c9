---------------------------- MODULE ModelRunner ----------------------------
(***************************************************************************)
(* src/model_runner.cpp: turns a batch into KV slots, refuses batches that *)
(* cannot be computed, and runs the model.                                 *)
(*                                                                         *)
(* kv is the content of the paged KV cache: kv[b][o] is the token prefix   *)
(* whose last key/value pair the slot holds, or Garbage.  The forward pass *)
(* computes the pair of position p from the tokens up to p and from every  *)
(* earlier pair, read through the block table: it is right exactly when    *)
(* those are.                                                              *)
(***************************************************************************)
EXTENDS Scheduler

VARIABLE kv

Offsets == 0..BlockSize - 1
Garbage == <<0>>
Prefix(s, p) == SubSeq(token_ids[s], 1, p + 1)

ModelRunnerInit == kv = [b \in Blocks |-> [o \in Offsets |-> Garbage]]

\* The block and offset of position p of s, through its block table.
Slot(s, p) == <<block_table[s][p \div BlockSize + 1], p % BlockSize>>
KVAt(s, p) == kv[block_table[s][p \div BlockSize + 1]][p % BlockSize]

First(s) == num_cached_tokens[s]
End(s) == num_cached_tokens[s] + num_scheduled_tokens[s]

\* The throws of prepare_prefill.
PrefillLegal(s) ==
  /\ num_scheduled_tokens[s] > 0
  /\ End(s) <= num_tokens(s)
  /\ HasTable(s)
  /\ Len(block_table[s]) >= CeilDiv(End(s), BlockSize)

\* The throws of prepare_decode.
DecodeLegal(s) ==
  /\ num_tokens(s) > 0
  /\ HasTable(s)
  /\ Len(block_table[s]) >= num_blocks(s)

\* Mutant: the slot behind the last token.
DecodeSlotNext(s) == <<Last(block_table[s]), last_block_num_tokens(s)>>

\* prepare_decode writes through the last entry of the table.
DecodeSlot(s) == <<Last(block_table[s]), last_block_num_tokens(s) - 1>>

\* What a row reads and writes: <<slot, prefix>> for every position computed.
ContextRight(s, first) == \A p \in 0..first - 1 : KVAt(s, p) = Prefix(s, p)

RowWrites(s) ==
  IF is_prefill
  THEN {<<Slot(s, p), IF ContextRight(s, First(s)) THEN Prefix(s, p) ELSE Garbage>> :
          p \in First(s)..End(s) - 1}
  ELSE {<<DecodeSlot(s), IF ContextRight(s, num_tokens(s) - 1)
                         THEN Prefix(s, num_tokens(s) - 1) ELSE Garbage>>}

Legal(s) == IF is_prefill THEN PrefillLegal(s) ELSE DecodeLegal(s)

\* What the batch leaves in a slot; rows that disagree leave nothing usable.
Written(b, o) ==
  LET values == {w[2] : w \in {v \in UNION {RowWrites(s) : s \in Range(scheduled)} :
                                v[1] = <<b, o>>}}
  IN IF values = {} THEN kv[b][o]
     ELSE IF Cardinality(values) = 1 THEN CHOOSE v \in values : TRUE ELSE Garbage

\* Any throw of prepare_prefill or prepare_decode.
RunThrows == phase = "run" /\ \E i \in DOMAIN scheduled : ~ Legal(scheduled[i])

RunBatch ==
  /\ phase = "run"
  /\ ~ RunThrows
  /\ kv' = [b \in Blocks |-> [o \in Offsets |-> Written(b, o)]]
  /\ phase' = "post"
  /\ UNCHANGED <<queueVars, batchVars, sequenceVars, blockVars>>

ModelRunnerTypeOK == kv \in [Blocks -> [Offsets -> Seq(Nat)]]
=============================================================================

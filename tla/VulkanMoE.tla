----------------------------- MODULE VulkanMoE -----------------------------
(***************************************************************************)
(* The sparse layers of VulkanModel::forward_logits                        *)
(* (src/vulkan_model.cpp) over the command queue of VulkanBackend          *)
(* (src/vulkan_backend.cpp), with the thread that prefetches experts.      *)
(*                                                                         *)
(*  - A dispatch is only recorded; it takes effect in submit_wait, in      *)
(*    order.  VBuf::upload takes effect at once, before everything that is *)
(*    recorded and not yet submitted.                                      *)
(*  - A row of an activation buffer is the bag of the contributions summed *)
(*    in it: the attention output, the shared expert, and each expert      *)
(*    whose weights were applied to this row.                              *)
(*  - The routing of a row is any set of TopK experts.                     *)
(***************************************************************************)
EXTENDS ExpertSlots, Sequences, Bags, SequencesExt

(***************************************************************************)
(* A loaded model and what is asked of it: one kernel routes and computes  *)
(* (use_fused); there is a shared expert; the number of sparse layers; how *)
(* many rows a forward pass may have; the experts the router chooses       *)
(* among; what fresh device memory may hold where an index is read.        *)
(***************************************************************************)
SetupType ==
  [fused : BOOLEAN, shared : BOOLEAN, depth : Layers,
   rows : SUBSET (Nat \ {0}), routed : SUBSET Experts,
   garbage : SUBSET (Experts \cup {None})]

CONSTANT Setups

ASSUME ForwardAssumption == \A m \in Setups : m \in SetupType

VARIABLES
  setup,          \* the model in use
  pc,             \* where forward_logits is
  layer,
  rows,
  logits,         \* the router's choice for each row of this layer
  dev,            \* device buffers: hidden_dev, exp_dev, idx_dev
  h_idx,          \* the host's copy of idx_dev, <<>> when not read yet
  r0,             \* first row of the current chunk
  queue,          \* dispatches recorded since the last submit_wait
  mutex,          \* prefetch_mu_: "free", "host" or "worker"
  worker          \* the prefetch task: "none", "started" or "sweeping"

forwardVars == <<setup, pc, layer, rows, logits, dev, h_idx, r0, queue>>
threadVars == <<mutex, worker>>
vars == <<poolVars, forwardVars, threadVars>>

Attn == <<"attention", 0>>
SharedExpert == <<"shared", 0>>
Expert(e) == <<"expert", e>>

RowSet == 0 .. rows - 1

Chunk == IF NumSlots \div TopK < 1 THEN 1 ELSE NumSlots \div TopK
RowCount == IF Chunk < rows - r0 THEN Chunk ELSE rows - r0

Blank(n) == [t \in 0 .. n - 1 |-> EmptyBag]
NoBuffers == [hidden |-> <<>>, exp |-> <<>>, idx |-> <<>>]
-----------------------------------------------------------------------------
(***************************************************************************)
(* The kernels.  An expert without a slot is skipped; otherwise the        *)
(* weights found in its slot are applied, whosever they are.               *)
(***************************************************************************)
Applied(experts) ==
  LET found == {e \in experts : slot_of[layer][e] # None}
      weights == {slot_gu[layer][slot_of[layer][e]] : e \in found}
  IN  [x \in {Expert(w) : w \in weights} |->
         Cardinality({e \in found : Expert(slot_gu[layer][slot_of[layer][e]]) = x})]

\* moe_ffn adds to the first rc rows: it has no first-row argument.
moe_ffn(d, rc) ==
  [d EXCEPT !.hidden = [t \in RowSet |->
     IF t < rc THEN @[t] (+) Applied(d.idx[t]) ELSE @[t]]]

\* moe_route_ffn routes and computes rows first .. first + rc - 1, and only these.
moe_route_ffn(d, first, rc) ==
  LET mine == first .. first + rc - 1
  IN  [d EXCEPT !.idx = [t \in RowSet |-> IF t \in mine THEN logits[t] ELSE @[t]],
                !.exp = [t \in RowSet |-> IF t \in mine THEN Applied(logits[t]) ELSE @[t]]]

Kernel(d, cmd) ==
  CASE cmd.op = "attention" -> [d EXCEPT !.hidden = [t \in RowSet |-> SetToBag({Attn})]]
    [] cmd.op = "shared"    -> [d EXCEPT !.hidden = [t \in RowSet |-> SetToBag({SharedExpert})]]
    [] cmd.op = "route"     -> [d EXCEPT !.idx = logits]
    [] cmd.op = "ffn"       -> moe_ffn(d, cmd.rc)
    [] cmd.op = "route_ffn" -> moe_route_ffn(d, cmd.r0, cmd.rc)
    [] cmd.op = "add"       -> [d EXCEPT !.hidden = [t \in RowSet |-> @[t] (+) d.exp[t]]]

\* submit_wait: everything recorded runs, in order, before the host goes on.
submit_wait(cmds) == FoldLeft(Kernel, dev, cmds)
-----------------------------------------------------------------------------
Init ==
  /\ PoolInit
  /\ setup \in Setups
  /\ pc = "idle" /\ layer = 0 /\ rows = 0
  /\ logits = <<>> /\ dev = NoBuffers /\ h_idx = <<>> /\ r0 = 0 /\ queue = <<>>
  /\ mutex = "free" /\ worker = "none"

BeginForward(n) ==
  /\ pc = "idle"
  /\ pc' = "layer" /\ layer' = 1 /\ rows' = n
  /\ UNCHANGED <<setup, poolVars, logits, dev, h_idx, r0, queue, threadVars>>

\* What the router may choose: any TopK experts for each row.
Routings == [RowSet -> {S \in SUBSET setup.routed : Cardinality(S) = TopK}]

\* Attention, the norm and the router are recorded; idx_dev is fresh memory.
Attention ==
  /\ pc = "layer"
  /\ queue' = Append(queue, [op |-> "attention"])
  /\ logits' \in Routings
  /\ \E junk \in setup.garbage :
       dev' = [hidden |-> IF layer = 1 THEN Blank(rows) ELSE dev.hidden,
               exp |-> Blank(rows),
               idx |-> [t \in RowSet |-> {junk}]]
  /\ pc' = IF setup.fused THEN "base" ELSE "route"
  /\ UNCHANGED <<setup, poolVars, layer, rows, h_idx, r0, threadVars>>

\* Without the fused kernel the routing is computed and read first.
ReadRouting ==
  /\ pc = "route"
  /\ dev' = submit_wait(Append(queue, [op |-> "route"]))
  /\ queue' = <<>>
  /\ h_idx' = dev'.idx
  /\ pc' = "base"
  /\ UNCHANGED <<setup, poolVars, layer, rows, logits, r0, threadVars>>

\* hidden_dev starts as the shared expert's output, or is zeroed by an upload.
Base ==
  /\ pc = "base"
  /\ IF setup.shared
     THEN queue' = Append(queue, [op |-> "shared"]) /\ UNCHANGED dev
     ELSE dev' = [dev EXCEPT !.hidden = Blank(rows)] /\ UNCHANGED queue
  /\ pc' = "chunk"
  /\ r0' = 0
  /\ UNCHANGED <<setup, poolVars, layer, rows, logits, h_idx, threadVars>>

\* The indices of the rows of the current chunk.
Sub(idx) == UNION {idx[t] : t \in r0 .. r0 + RowCount - 1}

\* Mutant: only an index out of range counts as a miss.
MissOutOfRange(sub) == \E e \in sub : e \notin Experts

\* Whether the host must place experts for the chunk.
Miss(sub) == \E e \in sub : e \notin Experts \/ ~ Resident(layer, e)

\* Optimistic launch against the resident slots; idx_dev is read once per layer.
FusedChunk ==
  /\ pc = "chunk" /\ setup.fused
  /\ r0 < rows
  /\ dev' = submit_wait(Append(queue, [op |-> "route_ffn", r0 |-> r0, rc |-> RowCount]))
  /\ queue' = <<>>
  /\ h_idx' = IF h_idx = <<>> THEN dev'.idx ELSE h_idx
  /\ IF Miss(Sub(h_idx'))
     THEN pc' = "place" /\ UNCHANGED r0
     ELSE pc' = "chunk" /\ r0' = r0 + Chunk
  /\ UNCHANGED <<setup, poolVars, layer, rows, logits, threadVars>>

UnfusedChunk ==
  /\ pc = "chunk" /\ ~ setup.fused
  /\ r0 < rows
  /\ pc' = "place"
  /\ UNCHANGED <<setup, poolVars, layer, rows, logits, dev, h_idx, r0, queue, threadVars>>

\* Mutant: moe_place does not wait for the prefetch thread.
LockedAnyway == mutex' = "host"

\* lock_guard of moe_place.
Locked == mutex = "free" /\ mutex' = "host"

EnterPlace ==
  /\ pc = "place"
  /\ Locked
  /\ BeginPlace(layer, Sub(h_idx))
  /\ UNCHANGED <<forwardVars, worker>>

PlaceExpert ==
  /\ pc = "place"
  /\ \E e \in Experts : PlaceOne(e)
  /\ UNCHANGED <<forwardVars, threadVars>>

\* The lock is released and the chunk is launched against its slots.
LeavePlace ==
  /\ pc = "place"
  /\ EndPlace
  /\ mutex' = "free"
  /\ queue' = Append(queue, IF setup.fused
                            THEN [op |-> "route_ffn", r0 |-> r0, rc |-> RowCount]
                            ELSE [op |-> "ffn", rc |-> RowCount])
  /\ pc' = "chunk"
  /\ r0' = r0 + Chunk
  /\ UNCHANGED <<setup, layer, rows, logits, dev, h_idx, worker>>

\* What is recorded after the last chunk.
LastCommands == IF setup.fused THEN <<[op |-> "add"]>> ELSE <<>>

EndChunks ==
  /\ pc = "chunk"
  /\ r0 >= rows
  /\ dev' = submit_wait(queue \o LastCommands)
  /\ queue' = <<>>
  /\ pc' = "done"
  /\ UNCHANGED <<setup, poolVars, layer, rows, logits, h_idx, r0, threadVars>>

EndLayer ==
  /\ pc = "done"
  /\ IF layer < setup.depth
     THEN pc' = "layer" /\ layer' = layer + 1 /\ UNCHANGED <<rows, dev>>
     ELSE pc' = "prefetch" /\ layer' = 0 /\ rows' = 0 /\ dev' = NoBuffers
  /\ logits' = <<>> /\ h_idx' = <<>> /\ r0' = 0
  /\ UNCHANGED <<setup, poolVars, queue, threadVars>>

\* prefetch_experts waits for the task before it starts the next one.
StartPrefetch ==
  /\ pc = "prefetch"
  /\ worker = "none"
  /\ worker' = "started"
  /\ pc' = "idle"
  /\ UNCHANGED <<setup, poolVars, layer, rows, logits, dev, h_idx, r0, queue, mutex>>

\* do_prefetch_experts holds the lock while it reads the host tables.
WorkerLock ==
  /\ worker = "started"
  /\ mutex = "free"
  /\ mutex' = "worker"
  /\ worker' = "sweeping"
  /\ UNCHANGED <<poolVars, forwardVars>>

\* Mutant: the task ends without giving the lock back.
WorkerDoneHolding ==
  /\ worker = "sweeping"
  /\ worker' = "none"
  /\ UNCHANGED <<poolVars, forwardVars, mutex>>

WorkerDone ==
  /\ worker = "sweeping"
  /\ mutex' = "free"
  /\ worker' = "none"
  /\ UNCHANGED <<poolVars, forwardVars>>

(***************************************************************************)
(* ~VulkanModel destroys the members in reverse order of declaration:      *)
(* first prefetch_mu_, then prefetch_fut_, which joins the task.           *)
(***************************************************************************)
DestroyMutex ==
  /\ pc = "idle"
  /\ pc' = "joining"
  /\ UNCHANGED <<setup, poolVars, layer, rows, logits, dev, h_idx, r0, queue, threadVars>>

JoinWorker ==
  /\ pc = "joining"
  /\ worker = "none"
  /\ pc' = "destroyed"
  /\ UNCHANGED <<setup, poolVars, layer, rows, logits, dev, h_idx, r0, queue, threadVars>>

\* One step of forward_logits after it was called.
Forward ==
  \/ Attention \/ ReadRouting \/ Base \/ FusedChunk \/ UnfusedChunk
  \/ EnterPlace \/ PlaceExpert \/ LeavePlace
  \/ EndChunks \/ EndLayer \/ StartPrefetch

Worker == WorkerLock \/ WorkerDone

Next ==
  \/ \E n \in setup.rows : BeginForward(n)
  \/ Forward
  \/ Worker
  \/ DestroyMutex \/ JoinWorker

Spec == Init /\ [][Next]_vars

\* Both threads are scheduled; nothing makes the caller call again.
FairSpec == Spec /\ WF_vars(Forward) /\ WF_vars(Worker)
-----------------------------------------------------------------------------
\* What a sparse layer computes for a row: the routed experts, each once, and
\* the shared expert if there is one (moe_ffn.comp:1).
Expected(t) ==
  SetToBag({Expert(e) : e \in logits[t]} \cup (IF setup.shared THEN {SharedExpert} ELSE {}))

\* The rows of the first chunk get exactly their experts (moe_ffn.comp:1:
\* y[t] += sum_k ...), whatever was resident before, although the slots are
\* refilled for the chunks that follow.  Without the fused kernel all chunks add
\* to the first rows, so that there the pass must fit into one.
RowsRight ==
  pc = "done" /\ (setup.fused \/ rows <= Chunk) =>
    \A t \in RowSet : t < Chunk => dev.hidden[t] = Expected(t)

\* The slot tables do not move while the prefetch task reads them.
SweepUndisturbed ==
  [][worker = "sweeping" => UNCHANGED <<h_slot_of, h_slot_exp, call>>]_vars

\* A forward pass returns: the host and the prefetch task never wait for each other.
ForwardReturns == (pc = "layer") ~> (pc = "idle")
-----------------------------------------------------------------------------
(***************************************************************************)
(* The inductive invariant: with PoolInv, who holds the mutex, and how far *)
(* the rows of the first chunk are at each point of a layer.               *)
(***************************************************************************)
InLayer == pc \in {"route", "base", "chunk", "place", "done"}

Indices == SUBSET (Experts \cup {None})

Commands ==
  [op : {"attention", "shared", "route", "add"}] \cup [op : {"ffn"}, rc : Int]
    \cup [op : {"route_ffn"}, r0 : Nat, rc : Int]

\* The host has read back the routing of this layer.
IndicesRead == pc = "place" \/ (~ setup.fused /\ pc \in {"base", "chunk"})

PassTypeOK ==
  /\ setup \in Setups
  /\ queue \in Seq(Commands)
  /\ pc = "layer" \/ InLayer => layer \in 1 .. setup.depth /\ rows \in Nat \ {0}
  /\ r0 \in Nat /\ (r0 = 0 \/ r0 >= Chunk) /\ (pc = "place" => r0 < rows)
  /\ InLayer =>
       /\ logits \in Routings
       /\ DOMAIN dev = {"hidden", "exp", "idx"}
       /\ \A t \in RowSet : dev.idx[t] \in Indices
       /\ h_idx = <<>> \/ \A t \in RowSet : h_idx[t] \in Indices
  /\ IndicesRead => \A t \in RowSet : h_idx[t] \in Indices
  /\ ~ InLayer => h_idx = <<>> /\ r0 = 0

\* Inside a call of moe_place the host holds the lock and places what the chunk asked for.
MutexInv ==
  /\ mutex = "host" <=> call # NoCall
  /\ mutex = "worker" <=> worker = "sweeping"
  /\ call # NoCall => pc = "place" /\ call.layer = layer /\ call.wanted = Sub(h_idx) \cap Experts

\* Every model with the fused kernel has a shared expert.
SharedWhenFused == \A m \in Setups : m.fused => m.shared

FirstRows == {t \in RowSet : t < Chunk}

\* The weights of the experts of these rows are where the device looks for them.
Loaded(ts) ==
  \A t \in ts : \A e \in logits[t] :
    slot_of[layer][e] # None /\ slot_gu[layer][slot_of[layer][e]] = e

Routed(t) == SetToBag({Expert(e) : e \in logits[t]})

Shared == [op |-> "shared"]
RouteFfn(first, rc) == [op |-> "route_ffn", r0 |-> first, rc |-> rc]
FirstCount == IF Chunk < rows THEN Chunk ELSE rows

ExpRight == \A t \in FirstRows : dev.exp[t] = Routed(t)
HiddenIs(bag) == \A t \in RowSet : dev.hidden[t] = bag

\* The fused kernel, a model with a shared expert: a chunk is launched until all
\* its experts are resident, and the launch that counts is submitted before
\* the slots are refilled for the next chunk.
FusedInv ==
  /\ pc = "base" => h_idx = <<>> /\ queue = <<[op |-> "attention"]>>
  /\ pc = "chunk" /\ r0 = 0 => h_idx = <<>> /\ queue = <<[op |-> "attention"], Shared>>
  /\ pc = "place" => queue = <<>> /\ HiddenIs(SetToBag({SharedExpert}))
  /\ pc = "place" /\ r0 = 0 => \A t \in FirstRows : h_idx[t] = logits[t]
  /\ pc = "place" /\ r0 > 0 => ExpRight
  /\ pc = "chunk" /\ r0 > 0 =>
       /\ HiddenIs(SetToBag({SharedExpert}))
       /\ \/ queue = <<>> /\ ExpRight
          \/ \E first, rc \in 0 .. rows :
               /\ queue = <<RouteFfn(first, rc)>>
               /\ \/ first = 0 /\ rc = FirstCount /\ Loaded(FirstRows)
                  \/ first >= Chunk /\ ExpRight

\* Two dispatches, all rows in one chunk.
TwoDispatchInv ==
  LET base == IF setup.shared THEN <<Shared>> ELSE <<>>
      blank == ~ setup.shared => HiddenIs(EmptyBag)
  IN  /\ pc = "route" => queue = <<[op |-> "attention"]>>
      /\ pc = "base" => queue = <<>> /\ dev.idx = logits /\ h_idx = logits
      /\ pc \in {"chunk", "place"} /\ r0 = 0 =>
           queue = base /\ blank /\ dev.idx = logits /\ h_idx = logits
      /\ pc = "place" => r0 = 0
      /\ pc = "chunk" /\ r0 > 0 =>
           /\ queue = Append(base, [op |-> "ffn", rc |-> rows])
           /\ blank /\ dev.idx = logits /\ Loaded(RowSet)

RowsInv ==
  /\ setup.fused /\ InLayer => pc # "route" /\ FusedInv
  /\ ~ setup.fused /\ InLayer /\ rows <= Chunk => TwoDispatchInv
  /\ ~ InLayer \/ pc = "done" => queue = <<>>

PagingInv == PoolInv /\ PassTypeOK /\ MutexInv

ForwardInv == PagingInv /\ RowsInv /\ RowsRight
=============================================================================

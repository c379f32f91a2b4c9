---------------------------- MODULE DeviceQueues ----------------------------
(***************************************************************************)
(* The device queues under a forward pass.                                 *)
(*                                                                         *)
(*  - The host walks through `program`, the calls that forward_logits      *)
(*    makes.                                                               *)
(*  - On Vulkan (src/vulkan_backend.cpp) a dispatch is recorded;           *)
(*    submit_wait hands the batch to the compute queue and waits for its   *)
(*    fence.  The queue runs the dispatches of a batch in any order that   *)
(*    the barriers between them allow.                                     *)
(*  - On HIP a dispatch goes to the one stream, which runs them in order;  *)
(*    a copy and a free wait for it.                                       *)
(***************************************************************************)
EXTENDS ForwardPrograms

CONSTANT Models

ASSUME ModelAssumption == \A m \in Models : m \in ModelType

\* The models for which VulkanModel computes what the reference does.  With the fused
\* kernel and no shared expert the rows are zeroed while the dispatches that read them
\* are still queued; two dispatches per chunk leave every chunk in the first rows, and
\* refill slots that the queued chunk still needs.
Sound(m) ==
  \/ m.backend = "hip" \/ m.ffn = "dense"
  \/ m.ffn = "fused" /\ m.shared
  \/ m.ffn = "routed" /\ m.chunks = 1

SoundModels == \A m \in Models : Sound(m)

VARIABLES
  model,
  program,     \* the calls still to be made
  clock,       \* number of the next call
  batch,       \* groups of dispatches recorded or still to run, a barrier after each
  submitted,   \* the batch is at the compute queue, the host waits
  copies,      \* copies at the transfer queue, oldest first
  staged,      \* staging buffers of async uploads, by call (g_xfer_pending)
  mem,         \* the term that each region holds
  want,        \* the term it holds when all calls take effect in order
  alive        \* the buffers that exist

vars == <<model, program, clock, batch, submitted, copies, staged, mem, want, alive>>

-----------------------------------------------------------------------------
Init ==
  /\ model \in Models
  /\ program = <<>> /\ clock = 1
  /\ batch = <<>> /\ submitted = FALSE /\ copies = <<>> /\ staged = {}
  /\ mem = [r \in Regions |-> Blank(model, r)] /\ want = mem
  /\ alive = ModelBuffers

InOrder == model.backend = "hip"

\* The group after the last barrier may be there and empty.
QueueEmpty == batch \in {<<>>, <<{}>>}

BeginForward ==
  /\ program = <<>>
  /\ program' = forward_logits(model)
  /\ clock' = 1
  /\ UNCHANGED <<model, batch, submitted, copies, staged, mem, want, alive>>

Next1 == Head(program)

\* The host makes the next call, unless it waits for a fence.
Call(name) ==
  /\ program # <<>> /\ ~ submitted
  /\ Next1.call = name
  /\ program' = Tail(program)
  /\ clock' = clock + 1
  /\ UNCHANGED model

\* Mutant: the trailing barrier is left out.
PutUnordered(groups, d) ==
  IF groups = <<>> THEN <<{d}>> ELSE [groups EXCEPT ![Len(groups)] = @ \cup {d}]

\* dispatch_bound: the last group takes the dispatch; a barrier opens a new one.
Put(groups, d) ==
  LET opened == IF groups = <<>> THEN <<{}>> ELSE groups
      put == [opened EXCEPT ![Len(opened)] = @ \cup {d}]
  IN  IF d.cmd.barrier \/ InOrder THEN Append(put, {}) ELSE put

\* Recorded with what it must read, if the calls take effect in order.
Record ==
  /\ Call("dispatch")
  /\ batch' = Put(batch, [cmd |-> Next1, id |-> clock,
                          expects |-> [r \in Next1.reads |-> want[r]]])
  /\ want' = Computed(Next1, want)
  /\ UNCHANGED <<submitted, copies, staged, mem, alive>>

\* Nothing was recorded: submit_wait returns at once.
SubmitNothing ==
  /\ Call("submit") /\ batch = <<>>
  /\ UNCHANGED <<batch, submitted, copies, staged, mem, want, alive>>

Submit ==
  /\ Call("submit") /\ batch # <<>>
  /\ submitted' = TRUE
  /\ UNCHANGED <<batch, copies, staged, mem, want, alive>>

\* The fence covers the batch and what its queue was given before; a batch that
\* waits for semaphores ends after the copies of the other queue.
FenceSignalled == QueueEmpty /\ copies = <<>>

\* xfer_drain frees the staging buffers when the fence was signalled.
Complete ==
  /\ submitted /\ FenceSignalled
  /\ submitted' = FALSE
  /\ batch' = <<>>
  /\ staged' = {}
  /\ UNCHANGED <<model, program, clock, copies, mem, want, alive>>

\* A copy that blocks: its fence waits for the copies submitted before it, on HIP
\* the stream has run dry.
Settled == copies = <<>> /\ (InOrder => QueueEmpty)

Upload ==
  /\ Call("upload") /\ Settled
  /\ mem' = [mem EXCEPT ![Next1.to] = Next1.data]
  /\ want' = [want EXCEPT ![Next1.to] = Next1.data]
  /\ UNCHANGED <<batch, submitted, copies, staged, alive>>

UploadAsync ==
  /\ Call("async")
  /\ copies' = Append(copies, [to |-> Next1.to, data |-> Next1.data, id |-> clock])
  /\ staged' = staged \cup {clock}
  /\ want' = [want EXCEPT ![Next1.to] = Next1.data]
  /\ UNCHANGED <<batch, submitted, mem, alive>>

Download ==
  /\ Call("download") /\ Settled
  /\ UNCHANGED <<batch, submitted, copies, staged, mem, want, alive>>

Fresh(contents) ==
  [r \in Regions |-> IF r \in Next1.set THEN Blank(model, r) ELSE contents[r]]

Alloc ==
  /\ Call("alloc")
  /\ alive' = alive \cup Next1.set
  /\ mem' = Fresh(mem) /\ want' = Fresh(want)
  /\ UNCHANGED <<batch, submitted, copies, staged>>

Free ==
  /\ Call("free") /\ (InOrder => QueueEmpty)
  /\ alive' = alive \ Next1.set
  /\ UNCHANGED <<batch, submitted, copies, staged, mem, want>>

\* The routing decides whether experts have to be placed.
Miss ==
  /\ program # <<>> /\ ~ submitted
  /\ Next1.call = "miss"
  /\ program' \in {Tail(program), Next1.then \o Tail(program)}
  /\ UNCHANGED <<model, clock, batch, submitted, copies, staged, mem, want, alive>>

Ready == IF (submitted \/ InOrder) /\ batch # <<>> THEN batch[1] ELSE {}

(***************************************************************************)
(* The compute queue runs any dispatch of the first group.  With a transfer *)
(* family the batch waits for the semaphores of the async uploads; without, *)
(* it follows them in the same queue, where nothing but a fence waits.     *)
(***************************************************************************)
Execute(d) ==
  /\ model.transferFamily => copies = <<>>
  /\ mem' = Computed(d.cmd, mem)
  /\ batch' = IF batch[1] = {d} THEN Tail(batch) ELSE [batch EXCEPT ![1] = @ \ {d}]
  /\ UNCHANGED <<model, program, clock, submitted, copies, staged, want, alive>>

\* The transfer queue finishes a copy.
Transfer ==
  /\ copies # <<>>
  /\ mem' = [mem EXCEPT ![Head(copies).to] = Head(copies).data]
  /\ copies' = Tail(copies)
  /\ UNCHANGED <<model, program, clock, batch, submitted, staged, want, alive>>

Next ==
  \/ BeginForward
  \/ Record \/ SubmitNothing \/ Submit \/ Complete
  \/ Upload \/ UploadAsync \/ Download \/ Alloc \/ Free \/ Miss
  \/ \E d \in Ready : Execute(d)
  \/ Transfer

Spec == Init /\ [][Next]_vars
-----------------------------------------------------------------------------
\* In whatever order the barriers let them run, the dispatches compute what they
\* would compute one after the other: each finds in the regions it reads what the
\* calls before it in program order have left there, and in the end every region
\* holds that ("runs of independent dispatches", dispatch_nb).
ProgramOrder ==
  /\ \A d \in Ready : \A r \in d.cmd.reads :
       (model.transferFamily => copies = <<>>) => mem[r] = d.expects[r]
  /\ batch = <<>> /\ copies = <<>> => mem = want

\* The host is about to read a buffer back.
Downloads(regions) ==
  program # <<>> /\ ~ submitted /\ Next1.call = "download" /\ Settled /\ Next1.from \in regions

\* What the host reads back is what the calls before it compute: nothing that
\* writes the buffer is still queued (vulkan_model.cpp, before idx_dev.download).
HostReadsSettled == Downloads(Regions) => mem[Next1.from] = want[Next1.from]

\* Both backends return, for every kind of model, the logits that the reference
\* decoder computes: the same expression over weights and inputs, in whatever order
\* the queues have run and although buffers serve one layer after the other.
LogitsRight == Downloads({"logits"}) => mem["logits"] = Reference(model)

\* No buffer is freed while a dispatch that was recorded or submitted is bound to
\* it, no staging buffer while its copy is under way.
NothingFreedInUse ==
  /\ \A g \in DOMAIN batch : \A d \in batch[g] : d.cmd.reads \cup d.cmd.writes \subseteq alive
  /\ \A c \in DOMAIN copies : copies[c].id \in staged
=============================================================================

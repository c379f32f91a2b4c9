---------------------------- MODULE ExpertSlots ----------------------------
(***************************************************************************)
(* The pool of GPU slots that holds the experts of each sparse layer of    *)
(* the Vulkan engine (src/vulkan_model.cpp: alloc_expert_slots, moe_place; *)
(* include/nanovllm/edge0/stream.h: SharedExpertCache).                    *)
(*                                                                         *)
(*  - A call of moe_place is BeginPlace, one step per expert in ascending  *)
(*    order, and EndPlace.                                                 *)
(*  - h_lru holds time stamps of which only the order is read: here they   *)
(*    are ranks, 1 for the slot used least recently.                       *)
(*  - The copies into a slot go to the transfer queue and are complete     *)
(*    when the blocking upload of slot_of at the end of the call returns;  *)
(*    the device computes only in submit_wait, never inside moe_place.     *)
(***************************************************************************)
EXTENDS Integers, FiniteSets

CONSTANTS
  NumLayers,      \* sparse layers
  NumExperts,     \* ms.E
  TopK,           \* ms.K, experts per row
  Budget          \* slots per layer that the memory budget pays for

ASSUME ExpertAssumption ==
  /\ NumLayers \in Nat \ {0}
  /\ NumExperts \in Nat \ {0}
  /\ TopK \in 1 .. NumExperts
  /\ Budget \in 0 .. NumExperts

Layers == 1 .. NumLayers
Experts == 0 .. NumExperts - 1
None == -1

\* At least K + 2 slots, never more than there are experts.
NumSlots ==
  LET atLeast == IF Budget < TopK + 2 THEN TopK + 2 ELSE Budget
  IN  IF atLeast > NumExperts THEN NumExperts ELSE atLeast

Slots == 0 .. NumSlots - 1

\* The capacity of SharedExpertCache.
CacheSlots == IF NumLayers >= 2 THEN NumSlots * NumLayers ELSE NumSlots * 2

VARIABLES
  h_slot_of,      \* per layer: expert -> slot or None, on the host
  h_slot_exp,     \* per layer: slot -> expert or None, on the host
  h_lru,          \* per layer: slot -> rank
  slot_of,        \* the device copy of h_slot_of
  slot_gu,        \* per layer: slot -> the expert whose weights are in it
  expert_cache,   \* <<layer, expert>> -> slot
  call            \* the call of moe_place in progress

poolVars == <<h_slot_of, h_slot_exp, h_lru, slot_of, slot_gu, expert_cache, call>>

NoCall == [layer |-> 0, wanted |-> {}, todo |-> {}, dirty |-> FALSE]

PoolInit ==
  /\ h_slot_of = [l \in Layers |-> [e \in Experts |-> None]]
  /\ h_slot_exp = [l \in Layers |-> [s \in Slots |-> None]]
  /\ h_lru = [l \in Layers |-> [s \in Slots |-> s + 1]]
  /\ slot_of = [l \in Layers |-> [e \in Experts |-> None]]
  /\ slot_gu = [l \in Layers |-> [s \in Slots |-> None]]
  /\ expert_cache = <<>>
  /\ call = NoCall
-----------------------------------------------------------------------------
\* Mutant: put() is not told about the expert that leaves its slot.
CacheKeep(key) == expert_cache

(***************************************************************************)
(* SharedExpertCache.  Its entries are stamped with the clocks of          *)
(* different layers, so that when it is full any entry may be the one with *)
(* the smallest stamp, the new one included.                               *)
(***************************************************************************)
CacheErase(key) ==
  [k \in DOMAIN expert_cache \ {key} |-> expert_cache[k]]

CacheInsert(cache, key, slot) ==
  [k \in DOMAIN cache \cup {key} |-> IF k = key THEN slot ELSE cache[k]]

\* put() with a slot: the caches it may leave behind.
CachePut(cache, key, slot) ==
  IF Cardinality(DOMAIN cache) >= CacheSlots
  THEN {CacheInsert([k \in DOMAIN cache \ {old} |-> cache[k]], key, slot) :
          old \in DOMAIN cache \cup {key}}
  ELSE {CacheInsert(cache, key, slot)}
-----------------------------------------------------------------------------
\* Mutant: a load does not stamp its slot.
TouchNothing(ranks, slot) == ranks

\* h_lru[slot] = ++clock: the slot becomes the most recent one.
Touch(ranks, slot) ==
  [s \in Slots |-> IF s = slot THEN NumSlots
                   ELSE IF ranks[s] > ranks[slot] THEN ranks[s] - 1
                   ELSE ranks[s]]

\* More unique experts than slots: the call throws.
PlaceThrows(idx) == Cardinality(idx) > NumSlots

\* idx is what the caller read from the device: an index out of range is skipped.
BeginPlace(l, idx) ==
  /\ call = NoCall
  /\ ~ PlaceThrows(idx)
  /\ call' = [layer |-> l, wanted |-> idx \cap Experts, todo |-> idx \cap Experts,
              dirty |-> FALSE]
  /\ UNCHANGED <<h_slot_of, h_slot_exp, h_lru, slot_of, slot_gu, expert_cache>>

Turn(e) == e \in call.todo /\ \A x \in call.todo : e <= x

Resident(l, e) == h_slot_of[l][e] # None

\* The expert is in a slot already.
PlaceHit(e) ==
  LET l == call.layer
  IN  /\ Turn(e)
      /\ Resident(l, e)
      /\ h_lru' = [h_lru EXCEPT ![l] = Touch(@, h_slot_of[l][e])]
      /\ call' = [call EXCEPT !.todo = @ \ {e}]
      /\ UNCHANGED <<h_slot_of, h_slot_exp, slot_of, slot_gu, expert_cache>>

\* The weights of e go into slot s, which holds nothing any more.
Load(e, s, cache, table) ==
  LET l == call.layer
  IN  /\ slot_gu' = [slot_gu EXCEPT ![l][s] = e]
      /\ h_slot_of' = [h_slot_of EXCEPT ![l] = [table EXCEPT ![e] = s]]
      /\ h_slot_exp' = [h_slot_exp EXCEPT ![l][s] = e]
      /\ h_lru' = [h_lru EXCEPT ![l] = Touch(@, s)]
      /\ expert_cache' \in CachePut(cache, <<l, e>>, s)
      /\ call' = [call EXCEPT !.todo = @ \ {e}, !.dirty = TRUE]
      /\ UNCHANGED slot_of

FirstEmpty(l, s) ==
  /\ h_slot_exp[l][s] = None
  /\ \A t \in Slots : t < s => h_slot_exp[l][t] # None

PlaceEmpty(e) ==
  /\ Turn(e)
  /\ ~ Resident(call.layer, e)
  /\ \E s \in Slots :
       /\ FirstEmpty(call.layer, s)
       /\ Load(e, s, expert_cache, h_slot_of[call.layer])

LeastRecent(l, s) == \A t \in Slots : h_lru[l][s] <= h_lru[l][t]

\* h_slot_of without the expert that loses its slot.
Unmapped(l, victim) == [h_slot_of[l] EXCEPT ![victim] = None]

PlaceEvict(e) ==
  LET l == call.layer
  IN  /\ Turn(e)
      /\ ~ Resident(l, e)
      /\ \A s \in Slots : h_slot_exp[l][s] # None
      /\ \E s \in Slots :
           LET victim == h_slot_exp[l][s]
           IN  /\ LeastRecent(l, s)
               /\ Load(e, s, CacheErase(<<l, victim>>), Unmapped(l, victim))

\* Mutant: the device table is only uploaded before experts were loaded.
UploadedNot == IF call.dirty
               THEN slot_of
               ELSE [slot_of EXCEPT ![call.layer] = h_slot_of[call.layer]]

\* The device table is uploaded when an expert was loaded.
Uploaded == IF call.dirty
            THEN [slot_of EXCEPT ![call.layer] = h_slot_of[call.layer]]
            ELSE slot_of

EndPlace ==
  /\ call # NoCall
  /\ call.todo = {}
  /\ slot_of' = Uploaded
  /\ call' = NoCall
  /\ UNCHANGED <<h_slot_of, h_slot_exp, h_lru, slot_gu, expert_cache>>

PlaceOne(e) == PlaceHit(e) \/ PlaceEmpty(e) \/ PlaceEvict(e)

\* A call of moe_place asks for at most NumSlots indices, valid or not.
PoolNext ==
  \/ \E l \in Layers, idx \in SUBSET (Experts \cup {None}) : BeginPlace(l, idx)
  \/ \E e \in Experts : PlaceOne(e)
  \/ EndPlace

PoolSpec == PoolInit /\ [][PoolNext]_poolVars
-----------------------------------------------------------------------------
SlotsTypeOK ==
  /\ h_slot_of \in [Layers -> [Experts -> Slots \cup {None}]]
  /\ h_slot_exp \in [Layers -> [Slots -> Experts \cup {None}]]
  /\ h_lru \in [Layers -> [Slots -> 1 .. NumSlots]]
  /\ slot_of \in [Layers -> [Experts -> Slots \cup {None}]]
  /\ slot_gu \in [Layers -> [Slots -> Experts \cup {None}]]
  /\ \A k \in DOMAIN expert_cache :
       k \in Layers \X Experts /\ expert_cache[k] \in Slots
  /\ call \in [layer : Layers \cup {0}, wanted : SUBSET Experts,
               todo : SUBSET Experts, dirty : BOOLEAN]
  /\ call.todo \subseteq call.wanted

\* The two host tables are inverse to each other: an expert is in one slot,
\* a slot holds one expert (the victim loses its entry in moe_place).
MirrorsInverse ==
  \A l \in Layers, e \in Experts, s \in Slots :
    h_slot_of[l][e] = s <=> h_slot_exp[l][s] = e

\* Between two calls of moe_place the device finds the weights of an expert
\* in the slot its table names, and finds none that was evicted.
DeviceAgrees ==
  \A l \in Layers, e \in Experts :
    call.layer # l =>
      /\ slot_of[l][e] = h_slot_of[l][e]
      /\ slot_of[l][e] # None => slot_gu[l][slot_of[l][e]] = e

\* An expert that a call has placed is not evicted by a later expert of the
\* same call: the launch that follows finds all of them ("chunking invariant").
PlacedStay ==
  \A e \in call.wanted \ call.todo : Resident(call.layer, e)

\* SharedExpertCache lists exactly the experts in the slots of all layers: its
\* own eviction never takes an entry that is still in use.
CacheMirrorsSlots ==
  /\ DOMAIN expert_cache = {k \in Layers \X Experts : Resident(k[1], k[2])}
  /\ \A k \in DOMAIN expert_cache : expert_cache[k] = h_slot_of[k[1]][k[2]]
-----------------------------------------------------------------------------
(***************************************************************************)
(* The inductive invariant: with the above, what holds inside a call.      *)
(***************************************************************************)
Placed == call.wanted \ call.todo

CallInv == call = NoCall \/ (/\ call.layer \in Layers
                             /\ Cardinality(call.wanted) <= NumSlots)

RanksDistinct ==
  \A l \in Layers : \A s, t \in Slots : h_lru[l][s] = h_lru[l][t] => s = t

\* What the call has placed was used after everything else.
PlacedRecent ==
  \A l \in Layers : l = call.layer =>
    \A e \in Placed, t \in Slots :
      h_slot_exp[l][t] \notin Placed => h_lru[l][t] < h_lru[l][h_slot_of[l][e]]

\* Only an unfinished call that has loaded something leaves the device table behind.
TablesInv ==
  \A l \in Layers :
    /\ slot_of[l] # h_slot_of[l] => call.layer = l /\ call.dirty
    /\ \A s \in Slots : h_slot_exp[l][s] # None => slot_gu[l][s] = h_slot_exp[l][s]

\* Every state of the pool; stronger than the properties above.
PoolInv ==
  /\ SlotsTypeOK
  /\ MirrorsInverse
  /\ CacheMirrorsSlots
  /\ PlacedStay
  /\ CallInv
  /\ RanksDistinct
  /\ PlacedRecent
  /\ TablesInv
=============================================================================

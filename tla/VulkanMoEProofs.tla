-------------------------- MODULE VulkanMoEProofs --------------------------
(***************************************************************************)
(* The sparse layers of a forward pass, for any number of layers, experts, *)
(* slots and rows: the slot pool, what the queue of recorded commands      *)
(* computes from it, and the prefetch thread beside it.                    *)
(***************************************************************************)
EXTENDS VulkanMoE, FiniteSetTheorems, QueueProofs, TLAPS

-----------------------------------------------------------------------------
(***************************************************************************)
(* The pool of expert slots keeps its tables in step for every number of   *)
(* layers, experts and slots: PoolInv is inductive.                        *)
(***************************************************************************)
LEMMA NumSlotsType == NumSlots \in Nat \ {0}
  BY ExpertAssumption DEF NumSlots

LEMMA ConstantsType ==
  /\ NumLayers \in Nat \ {0}
  /\ NumExperts \in Nat \ {0}
  /\ None \notin Experts /\ None \notin Slots
  /\ Experts \subseteq Int /\ Slots \subseteq Int
  /\ 0 \notin Layers
  BY ExpertAssumption, NumSlotsType DEF None, Experts, Slots, Layers

LEMMA SlotsFinite == IsFiniteSet(Slots) /\ Cardinality(Slots) = NumSlots
  <1>1. IsFiniteSet(0 .. NumSlots - 1)
        /\ Cardinality(0 .. NumSlots - 1)
             = IF 0 > NumSlots - 1 THEN 0 ELSE (NumSlots - 1) - 0 + 1
    BY NumSlotsType, FS_Interval
  <1> QED
    BY <1>1, NumSlotsType DEF Slots

LEMMA LayersFinite == IsFiniteSet(Layers) /\ Cardinality(Layers) = NumLayers
  <1>1. IsFiniteSet(1 .. NumLayers)
        /\ Cardinality(1 .. NumLayers) = IF 1 > NumLayers THEN 0 ELSE NumLayers - 1 + 1
    BY ConstantsType, FS_Interval
  <1> QED
    BY <1>1, ConstantsType DEF Layers

(***************************************************************************)
(* The cache has room while one slot of one layer is unused.               *)
(***************************************************************************)
LEMMA CacheSlotsEnough == NumLayers * NumSlots <= CacheSlots
  <1> DEFINE n == NumSlots  m == NumLayers
  <1>1. n \in Nat /\ m \in Nat \ {0}
    BY NumSlotsType, ConstantsType
  <1>2. CASE m >= 2
    <2>1. CacheSlots = n * m
      BY <1>2 DEF CacheSlots
    <2> HIDE DEF n, m
    <2>2. m * n = n * m
      BY <1>1
    <2>3. n * m \in Int
      BY <1>1
    <2> QED
      BY <2>1, <2>2, <2>3 DEF n, m
  <1>3. CASE ~ (m >= 2)
    <2>1. m = 1
      BY <1>1, <1>3
    <2>2. CacheSlots = n * 2
      BY <1>3 DEF CacheSlots
    <2> QED
      BY <1>1, <2>1, <2>2
  <1> QED
    BY <1>2, <1>3

Tables == [Layers -> [Experts -> Slots \cup {None}]]

InSlots(T) == {k \in Layers \X Experts : T[k[1]][k[2]] # None}

OneSlotEach(T) ==
  \A k \in Layers, e, f \in Experts : T[k][e] # None /\ T[k][e] = T[k][f] => e = f

Unused(T, l, s) == \A e \in Experts : T[l][e] # s

LEMMA RoomInCache ==
  ASSUME NEW T \in Tables, OneSlotEach(T),
         NEW l \in Layers, NEW s \in Slots, Unused(T, l, s)
  PROVE  /\ Cardinality(InSlots(T)) \in Nat
         /\ CacheSlots \in Nat
         /\ Cardinality(InSlots(T)) < CacheSlots
  <1> USE DEF OneSlotEach, Tables, Unused
  <1> DEFINE D == {k \in Layers \X Experts : T[k[1]][k[2]] # None}
             R == (Layers \X Slots) \ {<<l, s>>}
             g == [k \in D |-> <<k[1], T[k[1]][k[2]]>>]
  <1>1. IsFiniteSet(Layers \X Slots)
        /\ Cardinality(Layers \X Slots) = NumLayers * NumSlots
    BY SlotsFinite, LayersFinite, FS_Product
  <1>2. IsFiniteSet(R) /\ Cardinality(R) = NumLayers * NumSlots - 1
    <2>1. <<l, s>> \in Layers \X Slots
      OBVIOUS
    <2> QED
      BY <1>1, <2>1, FS_RemoveElement
  <1>3. g \in Injection(D, R)
    <2>1. ASSUME NEW k \in D PROVE g[k] \in R
      <3>1. k[1] \in Layers /\ k[2] \in Experts /\ T[k[1]][k[2]] \in Slots
        OBVIOUS
      <3>2. k[1] = l => T[k[1]][k[2]] # s
        BY <3>1
      <3> QED
        BY <3>1, <3>2
    <2>2. ASSUME NEW k \in D, NEW j \in D, g[k] = g[j] PROVE k = j
      <3>1. k = <<k[1], k[2]>> /\ j = <<j[1], j[2]>>
        OBVIOUS
      <3>2. k[1] = j[1] /\ T[k[1]][k[2]] = T[j[1]][j[2]]
        BY <2>2
      <3>3. k[2] = j[2]
        BY <3>2
      <3> QED
        BY <3>1, <3>2, <3>3
    <2> QED
      BY <2>1, <2>2 DEF Injection, IsInjective
  <1> HIDE DEF g
  <1>4. Cardinality(D) <= Cardinality(R)
    BY <1>2, <1>3, FS_Injection
  <1>5. IsFiniteSet(D)
    BY <1>2, <1>3, FS_Injection
  <1>6. Cardinality(D) \in Nat
    BY <1>5, FS_CardinalityType
  <1> DEFINE m == NumLayers * NumSlots
  <1>7. m \in Int
    BY ConstantsType, NumSlotsType
  <1>8. CacheSlots \in Nat
    BY ConstantsType, NumSlotsType DEF CacheSlots
  <1>9. Cardinality(R) = m - 1 /\ m <= CacheSlots
    BY <1>2, CacheSlotsEnough
  <1> HIDE DEF m, D, R
  <1>10. Cardinality(D) < CacheSlots
    BY <1>4, <1>6, <1>7, <1>8, <1>9
  <1> QED
    BY <1>6, <1>8, <1>10 DEF D, InSlots

LEMMA PutInserts ==
  ASSUME NEW T \in Tables, OneSlotEach(T),
         NEW l \in Layers, NEW s \in Slots, Unused(T, l, s),
         NEW cache, DOMAIN cache = InSlots(T), NEW key
  PROVE  CachePut(cache, key, s) = {CacheInsert(cache, key, s)}
  <1>1. Cardinality(InSlots(T)) \in Nat /\ CacheSlots \in Nat
        /\ Cardinality(InSlots(T)) < CacheSlots
    BY RoomInCache, Zenon
  <1> DEFINE c == Cardinality(InSlots(T))  m == CacheSlots
  <1>2. c \in Nat /\ m \in Nat /\ c < m
    BY <1>1
  <1> HIDE DEF c, m
  <1>3. ~ (c >= m)
    BY <1>2
  <1>4. ~ (Cardinality(DOMAIN cache) >= CacheSlots)
    BY <1>3 DEF c, m
  <1> QED
    BY <1>4, Zenon DEF CachePut

-----------------------------------------------------------------------------
(***************************************************************************)
(* Touch keeps the ranks distinct and within bounds, puts the slot above   *)
(* all others and keeps the order of the others.                           *)
(***************************************************************************)
LEMMA TouchRanks ==
  ASSUME NEW ranks \in [Slots -> 1 .. NumSlots], NEW s \in Slots,
         \A t, u \in Slots : ranks[t] = ranks[u] => t = u
  PROVE  /\ Touch(ranks, s) \in [Slots -> 1 .. NumSlots]
         /\ \A t, u \in Slots : Touch(ranks, s)[t] = Touch(ranks, s)[u] => t = u
         /\ \A t \in Slots : t # s => Touch(ranks, s)[t] < Touch(ranks, s)[s]
         /\ \A t, u \in Slots :
              t # s /\ u # s /\ ranks[t] < ranks[u]
                => Touch(ranks, s)[t] < Touch(ranks, s)[u]
  <1> DEFINE new == Touch(ranks, s)
  <1>1. \A t \in Slots : new[t] = IF t = s THEN NumSlots
                                  ELSE IF ranks[t] > ranks[s] THEN ranks[t] - 1
                                  ELSE ranks[t]
    BY DEF Touch
  <1>2. \A t \in Slots : ranks[t] \in Int /\ 1 <= ranks[t] /\ ranks[t] <= NumSlots
    OBVIOUS
  <1>3. NumSlots \in Int /\ NumSlots >= 1
    BY NumSlotsType
  <1>4. \A t \in Slots : t # s => ranks[t] # ranks[s]
    OBVIOUS
  <1>5. new \in [Slots -> 1 .. NumSlots]
    <2>1. \A t \in Slots : new[t] \in 1 .. NumSlots
      BY <1>1, <1>2, <1>3
    <2> QED
      BY <2>1 DEF Touch
  <1>6. \A t \in Slots : t # s => new[t] < new[s]
    BY <1>1, <1>2, <1>3, <1>4
  <1>7. \A t, u \in Slots : t # s /\ u # s /\ ranks[t] < ranks[u] => new[t] < new[u]
    BY <1>1, <1>2, <1>4
  <1> HIDE DEF new
  <1>8. \A t, u \in Slots : new[t] = new[u] => t = u
    <2> SUFFICES ASSUME NEW t \in Slots, NEW u \in Slots, t # u
                 PROVE  new[t] # new[u]
      OBVIOUS
    <2>0. new[t] \in Int /\ new[u] \in Int /\ new[s] \in Int
      BY <1>5
    <2>1. CASE t = s
      BY <2>0, <2>1, <1>6
    <2>2. CASE u = s
      BY <2>0, <2>2, <1>6
    <2>3. CASE t # s /\ u # s
      <3>1. ranks[t] < ranks[u] \/ ranks[u] < ranks[t]
        BY <1>2
      <3> QED
        BY <2>0, <2>3, <3>1, <1>7
    <2> QED
      BY <2>1, <2>2, <2>3
  <1> QED
    BY <1>5, <1>6, <1>7, <1>8 DEF new

LEMMA TouchedRanks ==
  ASSUME RanksDistinct, h_lru \in [Layers -> [Slots -> 1 .. NumSlots]],
         NEW l \in Layers, NEW s \in Slots,
         h_lru'[l] = Touch(h_lru[l], s),
         \A k \in Layers : k # l => h_lru'[k] = h_lru[k]
  PROVE  RanksDistinct'
  <1> SUFFICES ASSUME NEW k \in Layers, NEW t \in Slots, NEW u \in Slots,
                      h_lru'[k][t] = h_lru'[k][u]
               PROVE  t = u
    BY DEF RanksDistinct
  <1>1. CASE k = l
    <2>1. h_lru[l] \in [Slots -> 1 .. NumSlots]
      OBVIOUS
    <2>2. \A v, w \in Slots : h_lru[l][v] = h_lru[l][w] => v = w
      BY DEF RanksDistinct
    <2>3. \A v, w \in Slots : Touch(h_lru[l], s)[v] = Touch(h_lru[l], s)[w] => v = w
      BY <2>1, <2>2, TouchRanks
    <2> QED
      BY <1>1, <2>3
  <1>2. CASE k # l
    BY <1>2 DEF RanksDistinct
  <1> QED
    BY <1>1, <1>2

LEMMA InitInv == PoolInit => PoolInv
  <1> SUFFICES ASSUME PoolInit PROVE PoolInv
    OBVIOUS
  <1> USE ConstantsType, NumSlotsType
  <1>1. SlotsTypeOK
    <2>1. h_lru \in [Layers -> [Slots -> 1 .. NumSlots]]
      <3>1. \A s \in Slots : s + 1 \in 1 .. NumSlots
        BY DEF Slots
      <3> QED
        BY <3>1 DEF PoolInit
    <2>2. call \in [layer : Layers \cup {0}, wanted : SUBSET Experts,
                    todo : SUBSET Experts, dirty : BOOLEAN]
          /\ call.todo \subseteq call.wanted
      BY DEF PoolInit, NoCall
    <2>3. DOMAIN expert_cache = {}
      BY DEF PoolInit
    <2> QED
      BY <2>1, <2>2, <2>3 DEF PoolInit, SlotsTypeOK
  <1>2. MirrorsInverse
    BY DEF PoolInit, MirrorsInverse
  <1>3. CacheMirrorsSlots
    <2>1. DOMAIN expert_cache = {}
      BY DEF PoolInit
    <2>2. \A k \in Layers \X Experts : ~ Resident(k[1], k[2])
      BY DEF PoolInit, Resident
    <2> QED
      BY <2>1, <2>2 DEF CacheMirrorsSlots
  <1>4. Placed = {}
    BY DEF PoolInit, NoCall, Placed
  <1>5. PlacedStay /\ PlacedRecent
    BY <1>4 DEF PlacedStay, PlacedRecent, Placed
  <1>6. CallInv
    BY DEF PoolInit, CallInv
  <1>7. RanksDistinct
    <2>1. \A s, t \in Slots : s + 1 = t + 1 => s = t
      BY DEF Slots
    <2> QED
      BY <2>1 DEF PoolInit, RanksDistinct
  <1>8. TablesInv
    BY DEF PoolInit, TablesInv
  <1> QED
    BY <1>1, <1>2, <1>3, <1>5, <1>6, <1>7, <1>8 DEF PoolInv

LEMMA BeginInv ==
  ASSUME PoolInv, NEW l \in Layers, NEW idx \in SUBSET (Experts \cup {None}),
         BeginPlace(l, idx)
  PROVE  PoolInv'
  <1> USE ConstantsType
  <1>0. /\ call = NoCall /\ ~ PlaceThrows(idx)
        /\ call' = [layer |-> l, wanted |-> idx \cap Experts,
                    todo |-> idx \cap Experts, dirty |-> FALSE]
        /\ UNCHANGED <<h_slot_of, h_slot_exp, h_lru, slot_of, slot_gu, expert_cache>>
    BY DEF BeginPlace
  <1>1. SlotsTypeOK'
    <2>1. (call \in [layer : Layers \cup {0}, wanted : SUBSET Experts,
                     todo : SUBSET Experts, dirty : BOOLEAN]
           /\ call.todo \subseteq call.wanted)'
      BY <1>0
    <2> QED
      BY <1>0, <2>1 DEF PoolInv, SlotsTypeOK
  <1>2. MirrorsInverse' /\ CacheMirrorsSlots' /\ RanksDistinct'
    BY <1>0 DEF PoolInv, MirrorsInverse, CacheMirrorsSlots, RanksDistinct, Resident
  <1>3. Placed' = {}
    BY <1>0 DEF Placed
  <1>4. PlacedStay' /\ PlacedRecent'
    BY <1>3 DEF PlacedStay, PlacedRecent, Placed
  <1>5. CallInv'
    <2>1. IsFiniteSet(Experts \cup {None})
      <3>1. IsFiniteSet(Experts)
        BY FS_Interval DEF Experts
      <3> QED
        BY <3>1, FS_AddElement
    <2>2. IsFiniteSet(idx)
      BY <2>1, FS_Subset
    <2>3. Cardinality(idx \cap Experts) <= Cardinality(idx)
      BY <2>2, FS_Intersection
    <2>4. Cardinality(idx) \in Nat /\ Cardinality(idx \cap Experts) \in Nat
      BY <2>2, FS_Intersection, FS_CardinalityType
    <2>5. Cardinality(idx) <= NumSlots
      BY <1>0, <2>4, NumSlotsType DEF PlaceThrows
    <2>6. Cardinality(idx \cap Experts) <= NumSlots
      BY <2>3, <2>4, <2>5, NumSlotsType
    <2>7. call'.layer = l /\ call'.wanted = idx \cap Experts
      BY <1>0
    <2> QED
      BY <2>6, <2>7 DEF CallInv
  <1>6. TablesInv'
    <2>1. \A k \in Layers : slot_of[k] = h_slot_of[k]
      BY <1>0 DEF PoolInv, TablesInv, NoCall
    <2> QED
      BY <1>0, <2>1 DEF PoolInv, TablesInv
  <1> QED
    BY <1>1, <1>2, <1>4, <1>5, <1>6 DEF PoolInv

LEMMA EndInv ==
  ASSUME PoolInv, EndPlace
  PROVE  PoolInv'
  <1> USE ConstantsType
  <1>0. /\ call # NoCall /\ call.todo = {}
        /\ slot_of' = Uploaded
        /\ call' = NoCall
        /\ UNCHANGED <<h_slot_of, h_slot_exp, h_lru, slot_gu, expert_cache>>
    BY DEF EndPlace
  <1>1. call.layer \in Layers
    BY <1>0 DEF PoolInv, CallInv
  <1>2. /\ slot_of' \in [Layers -> [Experts -> Slots \cup {None}]]
        /\ \A k \in Layers : slot_of'[k] = h_slot_of[k]
    BY <1>0, <1>1 DEF PoolInv, SlotsTypeOK, TablesInv, Uploaded
  <1>3. SlotsTypeOK'
    <2>1. (call \in [layer : Layers \cup {0}, wanted : SUBSET Experts,
                     todo : SUBSET Experts, dirty : BOOLEAN]
           /\ call.todo \subseteq call.wanted)'
      BY <1>0 DEF NoCall
    <2> QED
      BY <1>0, <1>2, <2>1 DEF PoolInv, SlotsTypeOK
  <1>4. MirrorsInverse' /\ CacheMirrorsSlots' /\ RanksDistinct'
    BY <1>0 DEF PoolInv, MirrorsInverse, CacheMirrorsSlots, RanksDistinct, Resident
  <1>5. Placed' = {}
    BY <1>0 DEF Placed, NoCall
  <1>6. PlacedStay' /\ PlacedRecent'
    BY <1>5 DEF PlacedStay, PlacedRecent, Placed
  <1>7. CallInv'
    BY <1>0 DEF CallInv
  <1>8. TablesInv'
    BY <1>0, <1>2 DEF PoolInv, TablesInv
  <1> QED
    BY <1>3, <1>4, <1>6, <1>7, <1>8 DEF PoolInv

(***************************************************************************)
(* What the expert whose turn it is adds to the placed ones.               *)
(***************************************************************************)
LEMMA TurnFacts ==
  ASSUME PoolInv, NEW e \in Experts, Turn(e),
         call'.layer = call.layer, call'.wanted = call.wanted,
         call'.todo = call.todo \ {e}
  PROVE  /\ call # NoCall /\ call.layer \in Layers
         /\ e \in call.wanted /\ e \notin Placed
         /\ Placed \subseteq Experts
         /\ Placed' = Placed \cup {e}
         /\ Cardinality(call.wanted) <= NumSlots
  <1>1. e \in call.todo /\ call.todo \subseteq call.wanted
        /\ call.wanted \subseteq Experts
    BY DEF Turn, PoolInv, SlotsTypeOK
  <1>2. call # NoCall
    BY <1>1 DEF NoCall
  <1>3. call.layer \in Layers /\ Cardinality(call.wanted) <= NumSlots
    BY <1>2 DEF PoolInv, CallInv
  <1> QED
    BY <1>1, <1>2, <1>3 DEF Placed

LEMMA HitInv ==
  ASSUME PoolInv, NEW e \in Experts, PlaceHit(e)
  PROVE  PoolInv'
  <1> USE ConstantsType
  <1>a. PICK l \in Layers : l = call.layer
    <2>1. e \in call.todo
      BY DEF PlaceHit, Turn
    <2>2. call # NoCall
      BY <2>1 DEF NoCall
    <2> QED
      BY <2>2 DEF PoolInv, CallInv
  <1>b. PICK s \in Slots : s = h_slot_of[l][e]
    BY <1>a DEF PlaceHit, Resident, PoolInv, SlotsTypeOK
  <1>0. /\ Turn(e) /\ Resident(l, e)
        /\ h_lru' = [h_lru EXCEPT ![l] = Touch(@, s)]
        /\ call' = [call EXCEPT !.todo = @ \ {e}]
        /\ UNCHANGED <<h_slot_of, h_slot_exp, slot_of, slot_gu, expert_cache>>
    BY <1>a, <1>b DEF PlaceHit
  <1>1. call \in [layer : Layers \cup {0}, wanted : SUBSET Experts,
                  todo : SUBSET Experts, dirty : BOOLEAN]
    BY DEF PoolInv, SlotsTypeOK
  <1>2. call'.layer = l /\ call'.wanted = call.wanted
        /\ call'.todo = call.todo \ {e} /\ call'.dirty = call.dirty
        /\ call' \in [layer : Layers \cup {0}, wanted : SUBSET Experts,
                      todo : SUBSET Experts, dirty : BOOLEAN]
    BY <1>a, <1>0, <1>1
  <1>3. /\ e \in call.wanted /\ e \notin Placed
        /\ Placed \subseteq Experts
        /\ Placed' = Placed \cup {e}
        /\ Cardinality(call.wanted) <= NumSlots
    BY <1>a, <1>0, <1>2, TurnFacts
  <1>4. h_slot_exp[l][s] = e
    BY <1>b DEF PoolInv, MirrorsInverse
  <1>5. h_lru \in [Layers -> [Slots -> 1 .. NumSlots]]
        /\ h_lru[l] \in [Slots -> 1 .. NumSlots]
        /\ \A t, u \in Slots : h_lru[l][t] = h_lru[l][u] => t = u
    BY DEF PoolInv, SlotsTypeOK, RanksDistinct
  <1>6. h_lru'[l] = Touch(h_lru[l], s)
        /\ \A k \in Layers : k # l => h_lru'[k] = h_lru[k]
    BY <1>0, <1>5
  <1>6a. h_lru' \in [Layers -> [Slots -> 1 .. NumSlots]]
    <2>1. Touch(h_lru[l], s) \in [Slots -> 1 .. NumSlots]
      BY <1>5, TouchRanks
    <2> QED
      BY <1>0, <1>5, <2>1
  <1>7. SlotsTypeOK'
    <2>1. (call \in [layer : Layers \cup {0}, wanted : SUBSET Experts,
                     todo : SUBSET Experts, dirty : BOOLEAN]
           /\ call.todo \subseteq call.wanted)'
      BY <1>2 DEF PoolInv, SlotsTypeOK
    <2>2. (h_lru \in [Layers -> [Slots -> 1 .. NumSlots]])'
      BY <1>6a
    <2>3. UNCHANGED <<h_slot_of, h_slot_exp, slot_of, slot_gu, expert_cache>>
      BY <1>0
    <2> QED
      BY <2>1, <2>2, <2>3 DEF PoolInv, SlotsTypeOK
  <1>8. MirrorsInverse' /\ CacheMirrorsSlots'
    BY <1>0 DEF PoolInv, MirrorsInverse, CacheMirrorsSlots, Resident
  <1>9. PlacedStay'
    BY <1>a, <1>0, <1>2, <1>3 DEF PoolInv, PlacedStay, Placed, Resident
  <1>10. CallInv'
    BY <1>2, <1>3 DEF CallInv
  <1>11. RanksDistinct'
    BY <1>5, <1>6, TouchedRanks DEF PoolInv
  <1>12. PlacedRecent'
    <2> SUFFICES ASSUME NEW f \in Placed', NEW t \in Slots, h_slot_exp'[l][t] \notin Placed'
                 PROVE  h_lru'[l][t] < h_lru'[l][h_slot_of'[l][f]]
      BY <1>2 DEF PlacedRecent
    <2>1. h_slot_exp[l][t] \notin Placed /\ h_slot_exp[l][t] # e
      BY <1>0, <1>3
    <2>2. t # s
      BY <2>1, <1>4
    <2>3. CASE f = e
      <3>1. Touch(h_lru[l], s)[t] < Touch(h_lru[l], s)[s]
        BY <2>2, <1>5, TouchRanks
      <3>2. h_slot_of'[l][f] = s
        BY <2>3, <1>b, <1>0
      <3> QED
        BY <3>1, <3>2, <1>6
    <2>4. CASE f # e
      <3>1. f \in Placed /\ f \in Experts
        BY <2>4, <1>3
      <3>2. h_slot_of[l][f] \in Slots
        BY <3>1, <1>a DEF PoolInv, SlotsTypeOK, PlacedStay, Placed, Resident
      <3>3. h_slot_of[l][f] # s
        <4>1. h_slot_exp[l][h_slot_of[l][f]] = f
          BY <3>1, <3>2, <1>3 DEF PoolInv, MirrorsInverse
        <4> QED
          BY <4>1, <2>4, <1>4
      <3>4. h_lru[l][t] < h_lru[l][h_slot_of[l][f]]
        BY <3>1, <2>1, <1>a DEF PoolInv, PlacedRecent
      <3>5. Touch(h_lru[l], s)[t] < Touch(h_lru[l], s)[h_slot_of[l][f]]
        BY <3>2, <3>3, <3>4, <2>2, <1>4, <1>5, TouchRanks
      <3> QED
        BY <3>5, <1>0, <1>6
    <2> QED
      BY <2>3, <2>4
  <1>13. TablesInv'
    BY <1>0, <1>2 DEF PoolInv, TablesInv
  <1> QED
    BY <1>7, <1>8, <1>9, <1>10, <1>11, <1>12, <1>13 DEF PoolInv

(***************************************************************************)
(* Loading e into slot s, given the table and the cache without whatever   *)
(* was in s before: everything of PoolInv in turn.                         *)
(***************************************************************************)
Cleared(table, l, e, s) ==
  /\ table \in [Experts -> Slots \cup {None}]
  /\ table[e] = None
  /\ \A f \in Experts : table[f] # s
  /\ \A f \in Experts, t \in Slots :
       t # s => (table[f] = t <=> h_slot_exp[l][t] = f)

CacheOf(T, cache) ==
  /\ DOMAIN cache = InSlots(T)
  /\ \A k \in DOMAIN cache : cache[k] = T[k[1]][k[2]]

LEMMA LoadInv ==
  ASSUME PoolInv, NEW l \in Layers, l = call.layer,
         NEW e \in Experts, Turn(e), NEW s \in Slots,
         NEW table, Cleared(table, l, e, s),
         NEW cache, CacheOf([h_slot_of EXCEPT ![l] = table], cache),
         h_slot_exp[l][s] \notin Placed,
         Load(e, s, cache, table)
  PROVE  PoolInv'
  <1> USE ConstantsType
  <1>table. /\ table \in [Experts -> Slots \cup {None}]
            /\ table[e] = None
            /\ \A f \in Experts : table[f] # s
            /\ \A f \in Experts, t \in Slots :
                 t # s => (table[f] = t <=> h_slot_exp[l][t] = f)
    BY DEF Cleared
  <1>cache. PICK T : /\ T = [h_slot_of EXCEPT ![l] = table]
                     /\ DOMAIN cache = InSlots(T)
                     /\ \A k \in DOMAIN cache : cache[k] = T[k[1]][k[2]]
    BY DEF CacheOf
  <1> USE <1>table, <1>cache
  <1>0. /\ slot_gu' = [slot_gu EXCEPT ![l][s] = e]
        /\ h_slot_of' = [h_slot_of EXCEPT ![l] = [table EXCEPT ![e] = s]]
        /\ h_slot_exp' = [h_slot_exp EXCEPT ![l][s] = e]
        /\ h_lru' = [h_lru EXCEPT ![l] = Touch(@, s)]
        /\ expert_cache' \in CachePut(cache, <<l, e>>, s)
        /\ call' = [call EXCEPT !.todo = @ \ {e}, !.dirty = TRUE]
        /\ slot_of' = slot_of
    BY DEF Load
  <1>1. /\ h_slot_of \in [Layers -> [Experts -> Slots \cup {None}]]
        /\ h_slot_exp \in [Layers -> [Slots -> Experts \cup {None}]]
        /\ h_lru \in [Layers -> [Slots -> 1 .. NumSlots]]
        /\ slot_of \in [Layers -> [Experts -> Slots \cup {None}]]
        /\ slot_gu \in [Layers -> [Slots -> Experts \cup {None}]]
        /\ call \in [layer : Layers \cup {0}, wanted : SUBSET Experts,
                     todo : SUBSET Experts, dirty : BOOLEAN]
        /\ call.todo \subseteq call.wanted
    BY DEF PoolInv, SlotsTypeOK
  <1>2. call'.layer = l /\ call'.wanted = call.wanted
        /\ call'.todo = call.todo \ {e} /\ call'.dirty
        /\ call' \in [layer : Layers \cup {0}, wanted : SUBSET Experts,
                      todo : SUBSET Experts, dirty : BOOLEAN]
    BY <1>0, <1>1
  <1>3. /\ e \in call.wanted /\ e \notin Placed
        /\ Placed \subseteq Experts
        /\ Placed' = Placed \cup {e}
        /\ Cardinality(call.wanted) <= NumSlots
    BY <1>2, TurnFacts
  <1>4. /\ \A k \in Layers : k # l => /\ h_slot_of'[k] = h_slot_of[k]
                                     /\ h_slot_exp'[k] = h_slot_exp[k]
                                     /\ slot_gu'[k] = slot_gu[k]
                                     /\ h_lru'[k] = h_lru[k]
        /\ \A f \in Experts : h_slot_of'[l][f] = IF f = e THEN s ELSE table[f]
        /\ \A t \in Slots : h_slot_exp'[l][t] = IF t = s THEN e ELSE h_slot_exp[l][t]
        /\ \A t \in Slots : slot_gu'[l][t] = IF t = s THEN e ELSE slot_gu[l][t]
        /\ h_lru'[l] = Touch(h_lru[l], s)
    BY <1>0, <1>1
  <1>5. h_lru[l] \in [Slots -> 1 .. NumSlots]
        /\ \A t, u \in Slots : h_lru[l][t] = h_lru[l][u] => t = u
    BY <1>1 DEF PoolInv, RanksDistinct
  <1>6. \A f \in Placed : h_slot_of[l][f] \in Slots /\ h_slot_of[l][f] # s
                         /\ table[f] = h_slot_of[l][f]
    <2> SUFFICES ASSUME NEW f \in Placed
                 PROVE  h_slot_of[l][f] \in Slots /\ h_slot_of[l][f] # s
                        /\ table[f] = h_slot_of[l][f]
      OBVIOUS
    <2>1. f \in Experts
      BY <1>3
    <2>2. h_slot_of[l][f] \in Slots
      BY <2>1, <1>1 DEF PoolInv, PlacedStay, Placed, Resident
    <2>3. h_slot_exp[l][h_slot_of[l][f]] = f
      BY <2>1, <2>2 DEF PoolInv, MirrorsInverse
    <2>4. h_slot_of[l][f] # s
      BY <2>3
    <2> QED
      BY <2>1, <2>2, <2>3, <2>4
  <1>7. MirrorsInverse'
    <2> SUFFICES ASSUME NEW k \in Layers, NEW f \in Experts, NEW t \in Slots
                 PROVE  h_slot_of'[k][f] = t <=> h_slot_exp'[k][t] = f
      BY DEF MirrorsInverse
    <2>1. CASE k # l
      BY <2>1, <1>4 DEF PoolInv, MirrorsInverse
    <2>2. CASE k = l /\ t = s
      BY <2>2, <1>4
    <2>3. CASE k = l /\ t # s
      BY <2>3, <1>4
    <2> QED
      BY <2>1, <2>2, <2>3
  <1>8. expert_cache' = CacheInsert(cache, <<l, e>>, s)
    <2>1. T \in [Layers -> [Experts -> Slots \cup {None}]]
      BY <1>1
    <2>2. OneSlotEach(T)
      <3> SUFFICES ASSUME NEW k \in Layers, NEW f \in Experts, NEW g \in Experts,
                          T[k][f] # None, T[k][f] = T[k][g]
                   PROVE  f = g
        BY DEF OneSlotEach
      <3>0. T[k][f] \in Slots
        <4>1. T[k][f] \in Slots \cup {None}
          BY <2>1
        <4> QED
          BY <4>1
      <3>1. PICK t \in Slots : T[k][f] = t
        BY <3>0, Zenon
      <3>2. CASE k = l
        <4>0. T[l] = table
          BY <1>1
        <4>1. table[f] = t /\ table[g] = t /\ t # s
          BY <4>0, <3>1, <3>2
        <4>2. h_slot_exp[l][t] = f
          BY <4>1
        <4>3. h_slot_exp[l][t] = g
          BY <4>1
        <4> QED
          BY <4>2, <4>3
      <3>3. CASE k # l
        <4>1. h_slot_of[k][f] = t /\ h_slot_of[k][g] = t
          BY <3>1, <3>3, <1>1
        <4> QED
          <5>1. h_slot_exp[k][t] = f
            BY <4>1 DEF PoolInv, MirrorsInverse
          <5>2. h_slot_exp[k][t] = g
            BY <4>1 DEF PoolInv, MirrorsInverse
          <5> QED
            BY <5>1, <5>2
      <3> QED
        BY <3>2, <3>3
    <2>3. Unused(T, l, s)
      BY <1>1 DEF Unused
    <2>4. T \in Tables
      BY <2>1 DEF Tables
    <2>5. CachePut(cache, <<l, e>>, s) = {CacheInsert(cache, <<l, e>>, s)}
      BY <2>2, <2>3, <2>4, PutInserts
    <2> DEFINE put == CachePut(cache, <<l, e>>, s)  in == CacheInsert(cache, <<l, e>>, s)
    <2>6. expert_cache' \in put /\ put = {in}
      BY <1>0, <2>5
    <2> HIDE DEF put, in
    <2>7. expert_cache' = in
      BY <2>6
    <2> QED
      BY <2>7 DEF in
  <1>9. /\ DOMAIN expert_cache' = DOMAIN cache \cup {<<l, e>>}
        /\ \A k \in DOMAIN expert_cache' :
             expert_cache'[k] = IF k = <<l, e>> THEN s ELSE cache[k]
    BY <1>8 DEF CacheInsert
  <1>10. /\ DOMAIN expert_cache' = {k \in Layers \X Experts : h_slot_of'[k[1]][k[2]] # None}
         /\ \A k \in DOMAIN expert_cache' : expert_cache'[k] = h_slot_of'[k[1]][k[2]]
    <2>1. \A k \in Layers \X Experts :
            h_slot_of'[k[1]][k[2]] = IF k = <<l, e>> THEN s ELSE T[k[1]][k[2]]
      <3> SUFFICES ASSUME NEW k \in Layers, NEW f \in Experts
                   PROVE  h_slot_of'[k][f] = IF k = l /\ f = e THEN s ELSE T[k][f]
        OBVIOUS
      <3> QED
        BY <1>1, <1>4
    <2>2. s # None /\ <<l, e>> \in Layers \X Experts
      OBVIOUS
    <2>3. DOMAIN cache = {k \in Layers \X Experts : T[k[1]][k[2]] # None}
      BY DEF InSlots
    <2>4. DOMAIN expert_cache' = {k \in Layers \X Experts : h_slot_of'[k[1]][k[2]] # None}
      BY <2>1, <2>2, <2>3, <1>9
    <2>5. \A k \in DOMAIN expert_cache' : expert_cache'[k] = h_slot_of'[k[1]][k[2]]
      BY <2>1, <2>2, <2>3, <1>9
    <2> QED
      BY <2>4, <2>5
  <1>11. CacheMirrorsSlots'
    BY <1>10 DEF CacheMirrorsSlots, Resident
  <1>12. PlacedStay'
    <2> SUFFICES ASSUME NEW f \in Placed' PROVE h_slot_of'[l][f] # None
      BY <1>2 DEF PlacedStay, Placed, Resident
    <2>1. f \in Experts /\ None \notin Slots
      BY <1>3
    <2>2. CASE f = e
      BY <2>1, <2>2, <1>4
    <2>3. CASE f # e
      <3>1. h_slot_of'[l][f] = table[f]
        BY <2>1, <2>3, <1>4
      <3>2. f \in Placed
        BY <2>3, <1>3
      <3> QED
        BY <2>1, <3>1, <3>2, <1>6
    <2> QED
      BY <2>2, <2>3
  <1>13. CallInv'
    BY <1>2, <1>3 DEF CallInv
  <1>14. RanksDistinct'
    BY <1>1, <1>4, TouchedRanks DEF PoolInv
  <1>15. PlacedRecent'
    <2> SUFFICES ASSUME NEW f \in Placed', NEW t \in Slots, h_slot_exp'[l][t] \notin Placed'
                 PROVE  h_lru'[l][t] < h_lru'[l][h_slot_of'[l][f]]
      BY <1>2 DEF PlacedRecent
    <2>1. t # s /\ h_slot_exp[l][t] \notin Placed
      BY <1>3, <1>4
    <2>2. CASE f = e
      <3>1. Touch(h_lru[l], s)[t] < Touch(h_lru[l], s)[s]
        BY <2>1, <1>5, TouchRanks
      <3>2. h_slot_of'[l][f] = s
        BY <2>2, <1>4
      <3> QED
        BY <3>1, <3>2, <1>4
    <2>3. CASE f # e
      <3>1. f \in Placed /\ f \in Experts
        BY <2>3, <1>3
      <3>2. PICK u \in Slots : u = h_slot_of[l][f]
        BY <3>1, <1>6
      <3>3. u # s /\ h_slot_of'[l][f] = u
        BY <3>1, <3>2, <2>3, <1>4, <1>6
      <3>4. h_lru[l][t] < h_lru[l][u]
        BY <3>1, <3>2, <2>1 DEF PoolInv, PlacedRecent
      <3>5. Touch(h_lru[l], s)[t] < Touch(h_lru[l], s)[u]
        BY <3>3, <3>4, <2>1, <1>5, TouchRanks
      <3> QED
        BY <3>3, <3>5, <1>4
    <2> QED
      BY <2>2, <2>3
  <1>16. TablesInv'
    <2>1. ASSUME NEW k \in Layers
          PROVE  slot_of'[k] # h_slot_of'[k] => call'.layer = k /\ call'.dirty
      <3>1. CASE k = l
        BY <3>1, <1>2
      <3>2. CASE k # l
        BY <3>2, <1>0, <1>4 DEF PoolInv, TablesInv
      <3> QED
        BY <3>1, <3>2
    <2>2. ASSUME NEW k \in Layers, NEW t \in Slots, h_slot_exp'[k][t] # None
          PROVE  slot_gu'[k][t] = h_slot_exp'[k][t]
      <3>1. CASE k = l
        BY <3>1, <2>2, <1>4 DEF PoolInv, TablesInv
      <3>2. CASE k # l
        BY <3>2, <2>2, <1>4 DEF PoolInv, TablesInv
      <3> QED
        BY <3>1, <3>2
    <2> QED
      BY <2>1, <2>2 DEF TablesInv
  <1>17. SlotsTypeOK'
    <2>1. (call \in [layer : Layers \cup {0}, wanted : SUBSET Experts,
                     todo : SUBSET Experts, dirty : BOOLEAN]
           /\ call.todo \subseteq call.wanted)'
      BY <1>1, <1>2
    <2>2. h_slot_of' \in [Layers -> [Experts -> Slots \cup {None}]]
      <3>1. [table EXCEPT ![e] = s] \in [Experts -> Slots \cup {None}]
        OBVIOUS
      <3> QED
        BY <3>1, <1>0, <1>1
    <2>3. h_slot_exp' \in [Layers -> [Slots -> Experts \cup {None}]]
          /\ slot_gu' \in [Layers -> [Slots -> Experts \cup {None}]]
      BY <1>0, <1>1
    <2>4. h_lru' \in [Layers -> [Slots -> 1 .. NumSlots]]
      <3>1. Touch(h_lru[l], s) \in [Slots -> 1 .. NumSlots]
        BY <1>5, TouchRanks
      <3> QED
        BY <3>1, <1>0, <1>1
    <2>5. slot_of' \in [Layers -> [Experts -> Slots \cup {None}]]
      BY <1>0, <1>1
    <2>6. \A k \in DOMAIN expert_cache' : k \in Layers \X Experts /\ expert_cache'[k] \in Slots
      <3> SUFFICES ASSUME NEW k \in DOMAIN expert_cache'
                   PROVE  k \in Layers \X Experts /\ expert_cache'[k] \in Slots
        OBVIOUS
      <3>1. k \in Layers \X Experts /\ h_slot_of'[k[1]][k[2]] # None
            /\ expert_cache'[k] = h_slot_of'[k[1]][k[2]]
        BY <1>10
      <3>2. k[1] \in Layers /\ k[2] \in Experts
        BY <3>1
      <3>3. h_slot_of'[k[1]][k[2]] \in Slots \cup {None}
        <4>1. \A a \in Layers, b \in Experts : h_slot_of'[a][b] \in Slots \cup {None}
          BY <2>2
        <4> QED
          BY <4>1, <3>2
      <3> QED
        BY <3>1, <3>3
    <2> QED
      BY <2>1, <2>2, <2>3, <2>4, <2>5, <2>6 DEF SlotsTypeOK
  <1> QED
    BY <1>7, <1>11, <1>12, <1>13, <1>14, <1>15, <1>16, <1>17 DEF PoolInv

LEMMA TurnLayer ==
  ASSUME PoolInv, NEW e \in Experts, Turn(e)
  PROVE  /\ call.layer \in Layers
         /\ Placed \subseteq call.wanted \ {e} /\ e \in call.wanted
         /\ call.wanted \subseteq Experts /\ Cardinality(call.wanted) <= NumSlots
  <1>1. e \in call.todo /\ call.todo \subseteq call.wanted
        /\ call.wanted \subseteq Experts
    BY DEF Turn, PoolInv, SlotsTypeOK
  <1>2. call # NoCall
    BY <1>1 DEF NoCall
  <1> QED
    BY <1>1, <1>2 DEF PoolInv, CallInv, Placed

LEMMA EmptyInv ==
  ASSUME PoolInv, NEW e \in Experts, PlaceEmpty(e)
  PROVE  PoolInv'
  <1> USE ConstantsType
  <1>1. PICK l \in Layers : l = call.layer
    BY TurnLayer DEF PlaceEmpty
  <1>2. PICK s \in Slots : FirstEmpty(l, s) /\ Load(e, s, expert_cache, h_slot_of[l])
    BY <1>1 DEF PlaceEmpty
  <1>3. Turn(e) /\ h_slot_of[l][e] = None /\ h_slot_exp[l][s] = None
    BY <1>1, <1>2 DEF PlaceEmpty, Resident, FirstEmpty
  <1>4. PICK T : T = h_slot_of
    OBVIOUS
  <1>5. PICK table : table = h_slot_of[l]
    OBVIOUS
  <1>6. PICK cache : cache = expert_cache
    OBVIOUS
  <1>7. /\ h_slot_of \in [Layers -> [Experts -> Slots \cup {None}]]
        /\ table \in [Experts -> Slots \cup {None}]
        /\ T = [h_slot_of EXCEPT ![l] = table]
    BY <1>4, <1>5 DEF PoolInv, SlotsTypeOK
  <1>8. \A f \in Experts : table[f] # s
    BY <1>3, <1>5 DEF PoolInv, MirrorsInverse
  <1>9. \A f \in Experts, t \in Slots :
          t # s => (table[f] = t <=> h_slot_exp[l][t] = f)
    <2>1. \A f \in Experts, t \in Slots : h_slot_of[l][f] = t <=> h_slot_exp[l][t] = f
      BY DEF PoolInv, MirrorsInverse
    <2> QED BY <1>5, <2>1
  <1>10. DOMAIN cache = InSlots(T)
         /\ \A k \in DOMAIN cache : cache[k] = T[k[1]][k[2]]
    BY <1>4, <1>6 DEF PoolInv, CacheMirrorsSlots, Resident, InSlots
  <1>11. h_slot_exp[l][s] \notin Placed
    BY <1>3, TurnLayer
  <1>12. Load(e, s, cache, table)
    BY <1>2, <1>5, <1>6
  <1>13. Cleared(table, l, e, s)
    BY <1>3, <1>5, <1>7, <1>8, <1>9 DEF Cleared
  <1>14. CacheOf([h_slot_of EXCEPT ![l] = table], cache)
    BY <1>7, <1>10 DEF CacheOf
  <1> QED
    BY <1>1, <1>3, <1>11, <1>12, <1>13, <1>14, LoadInv, Zenon

(***************************************************************************)
(* When all slots are taken, one of them holds an expert the call has not  *)
(* placed, because there are no more wanted experts than slots.  It was    *)
(* used before all those the call has placed, so the least recently used   *)
(* slot does not hold one of those.                                        *)
(***************************************************************************)
LEMMA VictimNotPlaced ==
  ASSUME PoolInv, NEW l \in Layers, l = call.layer,
         NEW e \in Experts, Turn(e), NEW s \in Slots, LeastRecent(l, s),
         \A t \in Slots : h_slot_exp[l][t] # None
  PROVE  h_slot_exp[l][s] \notin Placed
  <1>1. PICK t \in Slots : h_slot_exp[l][t] \notin Placed
    <2> SUFFICES ASSUME \A t \in Slots : h_slot_exp[l][t] \in Placed PROVE FALSE
      OBVIOUS
    <2> DEFINE g == [t \in Slots |-> h_slot_exp[l][t]]
    <2>1. g \in Injection(Slots, Placed)
      <3>1. g \in [Slots -> Placed]
        OBVIOUS
      <3>2. ASSUME NEW t \in Slots, NEW u \in Slots, g[t] = g[u] PROVE t = u
        <4>1. PICK f \in Experts : h_slot_exp[l][t] = f /\ h_slot_exp[l][u] = f
          BY <3>2, TurnLayer
        <4>2. h_slot_of[l][f] = t /\ h_slot_of[l][f] = u
          BY <4>1 DEF PoolInv, MirrorsInverse
        <4> QED
          BY <4>2
      <3> QED
        BY <3>1, <3>2 DEF Injection, IsInjective
    <2> HIDE DEF g
    <2>2. IsFiniteSet(call.wanted)
      <3>1. IsFiniteSet(Experts)
        BY FS_Interval, ConstantsType DEF Experts
      <3> QED
        BY <3>1, TurnLayer, FS_Subset
    <2>3. IsFiniteSet(call.wanted \ {e})
          /\ Cardinality(call.wanted \ {e}) = Cardinality(call.wanted) - 1
      BY <2>2, TurnLayer, FS_RemoveElement
    <2>4. IsFiniteSet(Placed) /\ Cardinality(Placed) <= Cardinality(call.wanted \ {e})
      BY <2>3, TurnLayer, FS_Subset
    <2>5. Cardinality(Slots) <= Cardinality(Placed)
      BY <2>1, <2>4, FS_Injection
    <2>6. Cardinality(Placed) \in Nat /\ Cardinality(call.wanted) \in Nat
      BY <2>2, <2>4, FS_CardinalityType
    <2>7. Cardinality(Slots) = NumSlots /\ NumSlots \in Nat
          /\ Cardinality(call.wanted) <= NumSlots
      BY SlotsFinite, NumSlotsType, TurnLayer
    <2> QED
      BY <2>3, <2>4, <2>5, <2>6, <2>7
  <1> SUFFICES ASSUME h_slot_exp[l][s] \in Placed PROVE FALSE
    OBVIOUS
  <1>2. PICK f \in Experts : f = h_slot_exp[l][s]
    BY TurnLayer
  <1>3. h_slot_of[l][f] = s
    BY <1>2 DEF PoolInv, MirrorsInverse
  <1>4. h_lru[l][t] < h_lru[l][s]
    BY <1>1, <1>2, <1>3 DEF PoolInv, PlacedRecent
  <1>5. h_lru[l][s] <= h_lru[l][t]
    BY DEF LeastRecent
  <1>6. h_lru[l][s] \in Int /\ h_lru[l][t] \in Int
    BY NumSlotsType DEF PoolInv, SlotsTypeOK
  <1> QED
    BY <1>4, <1>5, <1>6

LEMMA EvictInv ==
  ASSUME PoolInv, NEW e \in Experts, PlaceEvict(e)
  PROVE  PoolInv'
  <1> USE ConstantsType
  <1>1. PICK l \in Layers : l = call.layer
    BY TurnLayer DEF PlaceEvict
  <1>2. /\ Turn(e) /\ h_slot_of[l][e] = None
        /\ \A t \in Slots : h_slot_exp[l][t] # None
    BY <1>1 DEF PlaceEvict, Resident
  <1>3. PICK s \in Slots :
          /\ LeastRecent(l, s)
          /\ Load(e, s, CacheErase(<<l, h_slot_exp[l][s]>>), Unmapped(l, h_slot_exp[l][s]))
    BY <1>1 DEF PlaceEvict
  <1>4. PICK victim \in Experts : victim = h_slot_exp[l][s]
    <2>1. h_slot_exp[l][s] \in Experts \cup {None}
      BY DEF PoolInv, SlotsTypeOK
    <2>2. h_slot_exp[l][s] \in Experts
      BY <1>2, <2>1
    <2> QED
      BY <2>2, Zenon
  <1>5. PICK table : table = Unmapped(l, victim)
    OBVIOUS
  <1>6. PICK cache : cache = CacheErase(<<l, victim>>)
    OBVIOUS
  <1>7. PICK T : T = [h_slot_of EXCEPT ![l] = table]
    OBVIOUS
  <1>8. /\ h_slot_of \in [Layers -> [Experts -> Slots \cup {None}]]
        /\ h_slot_of[l] \in [Experts -> Slots \cup {None}]
    BY DEF PoolInv, SlotsTypeOK
  <1>9. /\ table \in [Experts -> Slots \cup {None}]
        /\ \A f \in Experts : table[f] = IF f = victim THEN None ELSE h_slot_of[l][f]
    BY <1>5, <1>8 DEF Unmapped
  <1>10. \A f \in Experts, t \in Slots : h_slot_of[l][f] = t <=> h_slot_exp[l][t] = f
    BY DEF PoolInv, MirrorsInverse
  <1>11. \A f \in Experts : table[f] # s
    BY <1>4, <1>9, <1>10
  <1>12. \A f \in Experts, t \in Slots :
           t # s => (table[f] = t <=> h_slot_exp[l][t] = f)
    BY <1>4, <1>9, <1>10
  <1>13. table[e] = None
    BY <1>2, <1>9
  <1>14. \A k \in Layers, f \in Experts :
           T[k][f] = IF k = l /\ f = victim THEN None ELSE h_slot_of[k][f]
    BY <1>7, <1>8, <1>9
  <1>15. DOMAIN cache = InSlots(T)
         /\ \A k \in DOMAIN cache : cache[k] = T[k[1]][k[2]]
    <2>1. DOMAIN cache = DOMAIN expert_cache \ {<<l, victim>>}
          /\ \A k \in DOMAIN cache : cache[k] = expert_cache[k]
      BY <1>6 DEF CacheErase
    <2>2. DOMAIN expert_cache = {k \in Layers \X Experts : h_slot_of[k[1]][k[2]] # None}
          /\ \A k \in DOMAIN expert_cache : expert_cache[k] = h_slot_of[k[1]][k[2]]
      BY DEF PoolInv, CacheMirrorsSlots, Resident
    <2>3. \A k \in Layers \X Experts :
            T[k[1]][k[2]] = IF k = <<l, victim>> THEN None ELSE h_slot_of[k[1]][k[2]]
      <3> TAKE k \in Layers \X Experts
      <3>1. k[1] \in Layers /\ k[2] \in Experts /\ k = <<k[1], k[2]>>
        OBVIOUS
      <3>2. k = <<l, victim>> <=> k[1] = l /\ k[2] = victim
        BY <3>1
      <3> QED
        BY <3>1, <3>2, <1>14
    <2>4. DOMAIN cache = InSlots(T)
      BY <2>1, <2>2, <2>3 DEF InSlots
    <2>5. \A k \in DOMAIN cache : cache[k] = T[k[1]][k[2]]
      BY <2>1, <2>2, <2>3
    <2> QED
      BY <2>4, <2>5
  <1>16. h_slot_exp[l][s] \notin Placed
    BY <1>1, <1>2, <1>3, VictimNotPlaced
  <1>17. Load(e, s, cache, table)
    BY <1>3, <1>4, <1>5, <1>6
  <1>18. Cleared(table, l, e, s)
    BY <1>9, <1>11, <1>12, <1>13 DEF Cleared
  <1>19. CacheOf([h_slot_of EXCEPT ![l] = table], cache)
    BY <1>7, <1>15 DEF CacheOf
  <1> QED
    BY <1>1, <1>2, <1>16, <1>17, <1>18, <1>19, LoadInv, Zenon
-----------------------------------------------------------------------------
LEMMA PoolStep ==
  ASSUME PoolInv, [PoolNext]_poolVars
  PROVE  PoolInv'
  <1>1. CASE \E l \in Layers, idx \in SUBSET (Experts \cup {None}) : BeginPlace(l, idx)
    BY <1>1, BeginInv
  <1>2. CASE \E e \in Experts : PlaceOne(e)
    BY <1>2, HitInv, EmptyInv, EvictInv DEF PlaceOne
  <1>3. CASE EndPlace
    BY <1>3, EndInv
  <1>4. CASE UNCHANGED poolVars
    BY <1>4 DEF poolVars, PoolInv, SlotsTypeOK, MirrorsInverse, CacheMirrorsSlots,
                PlacedStay, CallInv, RanksDistinct, PlacedRecent, TablesInv,
                Placed, Resident
  <1> QED
    BY <1>1, <1>2, <1>3, <1>4 DEF PoolNext

\* Every state of the pool satisfies PoolInv, whatever calls moe_place gets
\* and however many layers, experts and slots there are.
THEOREM PoolInvariance == PoolSpec => []PoolInv
  <1>1. PoolInit => PoolInv
    BY InitInv
  <1>2. PoolInv /\ [PoolNext]_poolVars => PoolInv'
    BY PoolStep
  <1> QED
    BY <1>1, <1>2, PTL DEF PoolSpec

LEMMA AgreesInPool == PoolInv => DeviceAgrees
  <1> SUFFICES ASSUME PoolInv, NEW l \in Layers, NEW e \in Experts, call.layer # l
               PROVE  /\ slot_of[l][e] = h_slot_of[l][e]
                      /\ slot_of[l][e] # None => slot_gu[l][slot_of[l][e]] = e
    BY DEF DeviceAgrees
  <1>1. slot_of[l] = h_slot_of[l]
    BY DEF PoolInv, TablesInv
  <1>2. CASE h_slot_of[l][e] = None
    BY <1>1, <1>2
  <1>3. CASE h_slot_of[l][e] # None
    <2>1. PICK s \in Slots : s = h_slot_of[l][e]
      BY <1>3 DEF PoolInv, SlotsTypeOK
    <2>2. h_slot_exp[l][s] = e
      BY <2>1 DEF PoolInv, MirrorsInverse
    <2>3. slot_gu[l][s] = e
      BY <2>2, ConstantsType DEF PoolInv, TablesInv
    <2> QED
      BY <1>1, <2>1, <2>3
  <1> QED
    BY <1>2, <1>3

\* Between two calls of moe_place the device finds the weights of every
\* expert in the slot its table names, and none that was evicted.
THEOREM DeviceTableCorrect == PoolSpec => []DeviceAgrees
  BY AgreesInPool, PoolInvariance, PTL

\* A call of moe_place never evicts an expert it has placed before: the launch
\* that follows finds all of them.
THEOREM PlacedNotEvicted == PoolSpec => []PlacedStay
  <1>1. PoolInv => PlacedStay
    BY DEF PoolInv
  <1> QED
    BY <1>1, PoolInvariance, PTL

\* SharedExpertCache lists exactly the experts in the slots: it never has to
\* evict an entry by itself.
THEOREM CacheExact == PoolSpec => []CacheMirrorsSlots
  <1>1. PoolInv => CacheMirrorsSlots
    BY DEF PoolInv
  <1> QED
    BY <1>1, PoolInvariance, PTL

-----------------------------------------------------------------------------
(***************************************************************************)
(* submit_wait runs the commands one after the other.  FoldLeft recurs     *)
(* over subsets of the indices; g is that recursion up to index k.         *)
(***************************************************************************)
Iterates(g, cmds, k) ==
  g = [s \in SUBSET (1 .. k) |->
         IF s = {} THEN dev ELSE Kernel(g[s \ {Max(s)}], cmds[Max(s)])]

LEMMA SubmitUnfolds ==
  ASSUME NEW cmds, NEW n \in Nat, DOMAIN cmds = 1 .. n
  PROVE  submit_wait(cmds) = (CHOOSE g : Iterates(g, cmds, n))[1 .. n]
  BY DEF submit_wait, FoldLeft, MapThenFoldSet, Iterates

LEMMA IterateNext ==
  ASSUME NEW cmds, NEW k \in Nat, NEW g, Iterates(g, cmds, k)
  PROVE  \E h : Iterates(h, cmds, k + 1)
  <1> DEFINE h == [s \in SUBSET (1 .. k + 1) |->
                     IF k + 1 \in s THEN Kernel(g[s \ {k + 1}], cmds[k + 1]) ELSE g[s]]
  <1>1. SUFFICES ASSUME NEW s \in SUBSET (1 .. k + 1)
                 PROVE  h[s] = IF s = {} THEN dev ELSE Kernel(h[s \ {Max(s)}], cmds[Max(s)])
    <2>1. h = [s \in SUBSET (1 .. k + 1) |->
                 IF s = {} THEN dev ELSE Kernel(h[s \ {Max(s)}], cmds[Max(s)])]
      BY <1>1
    <2> QED BY <2>1 DEF Iterates
  <1>2. \A t \in SUBSET (1 .. k + 1) : k + 1 \notin t => t \in SUBSET (1 .. k) /\ h[t] = g[t]
    OBVIOUS
  <1>3. CASE k + 1 \in s
    <2>1. Max(s) = k + 1
      BY <1>3, GreatestOfInterval
    <2>2. h[s \ {k + 1}] = g[s \ {k + 1}]
      BY <1>2
    <2>3. h[s] = Kernel(g[s \ {k + 1}], cmds[k + 1])
      BY <1>3
    <2> QED BY <1>3, <2>1, <2>2, <2>3
  <1>4. CASE k + 1 \notin s
    <2>1. s \in SUBSET (1 .. k) /\ h[s] = g[s]
      BY <1>2, <1>4
    <2>2. h[s \ {Max(s)}] = g[s \ {Max(s)}]
      BY <1>2, <1>4
    <2>3. g[s] = IF s = {} THEN dev ELSE Kernel(g[s \ {Max(s)}], cmds[Max(s)])
      BY <2>1 DEF Iterates
    <2> QED BY <2>1, <2>2, <2>3
  <1> QED BY <1>3, <1>4

LEMMA IterateExists ==
  ASSUME NEW cmds, NEW n \in Nat
  PROVE  \E g : Iterates(g, cmds, n)
  <1> DEFINE missing == {k \in Nat : ~ \E g : Iterates(g, cmds, k)}
  <1>1. SUFFICES ASSUME missing # {} PROVE FALSE
    OBVIOUS
  <1>2. PICK k \in missing : \A j \in missing : k <= j
    BY <1>1, LeastExists
  <1>3. \E g : Iterates(g, cmds, 0)
    <2> DEFINE g == [s \in SUBSET (1 .. 0) |-> dev]
    <2>1. \A s \in SUBSET (1 .. 0) : s = {}
      OBVIOUS
    <2>2. Iterates(g, cmds, 0)
      BY <2>1 DEF Iterates
    <2> QED BY <2>2
  <1>4. k # 0 /\ k - 1 \in Nat /\ k - 1 \notin missing /\ (k - 1) + 1 = k
    BY <1>2, <1>3
  <1>5. \E g : Iterates(g, cmds, k - 1)
    BY <1>4
  <1> QED BY <1>2, <1>4, <1>5, IterateNext

\* r[i] is the state after the first i commands.
Runs(r, cmds, n) ==
  /\ r[0] = dev
  /\ \A i \in 1 .. n : r[i] = Kernel(r[i - 1], cmds[i])
  /\ submit_wait(cmds) = r[n]

LEMMA SubmitRuns ==
  ASSUME NEW cmds, NEW n \in Nat, DOMAIN cmds = 1 .. n
  PROVE  \E r : Runs(r, cmds, n)
  <1>1. PICK g : Iterates(g, cmds, n) /\ submit_wait(cmds) = g[1 .. n]
    BY IterateExists, SubmitUnfolds
  <1> DEFINE r == [i \in 0 .. n |-> g[1 .. i]]
  <1>2. \A s \in SUBSET (1 .. n) :
          g[s] = IF s = {} THEN dev ELSE Kernel(g[s \ {Max(s)}], cmds[Max(s)])
    BY <1>1 DEF Iterates
  <1>3. r[0] = dev
    <2>1. g[{}] = dev
      BY <1>2
    <2>2. 1 .. 0 = {}
      OBVIOUS
    <2> QED BY <2>1, <2>2
  <1>4. ASSUME NEW i \in 1 .. n PROVE r[i] = Kernel(r[i - 1], cmds[i])
    <2>1. Max(1 .. i) = i
      BY GreatestOfInterval
    <2>2. (1 .. i) \ {i} = 1 .. i - 1
      OBVIOUS
    <2>3. 1 .. i \in SUBSET (1 .. n) /\ 1 .. i # {}
      OBVIOUS
    <2>4. g[1 .. i] = Kernel(g[1 .. i - 1], cmds[i])
      BY <1>2, <2>1, <2>2, <2>3
    <2> QED BY <2>4
  <1>5. submit_wait(cmds) = r[n]
    BY <1>1
  <1> HIDE DEF r
  <1> QED BY <1>3, <1>4, <1>5 DEF Runs

LEMMA SubmitOne ==
  ASSUME NEW a
  PROVE  submit_wait(<<a>>) = Kernel(dev, a)
  <1>1. PICK cmds : cmds = <<a>>
    OBVIOUS
  <1>2. 1 \in Nat /\ DOMAIN cmds = 1 .. 1 /\ cmds[1] = a
    BY <1>1
  <1>3. PICK r : Runs(r, cmds, 1)
    BY <1>2, SubmitRuns
  <1> QED BY <1>1, <1>2, <1>3 DEF Runs

LEMMA SubmitTwo ==
  ASSUME NEW a, NEW b
  PROVE  submit_wait(<<a, b>>) = Kernel(Kernel(dev, a), b)
  <1>1. PICK cmds : cmds = <<a, b>>
    OBVIOUS
  <1>2. 2 \in Nat /\ DOMAIN cmds = 1 .. 2 /\ cmds[1] = a /\ cmds[2] = b
    BY <1>1
  <1>3. PICK r : Runs(r, cmds, 2)
    BY <1>2, SubmitRuns
  <1>4. r[1] = Kernel(dev, a)
    BY <1>2, <1>3 DEF Runs
  <1>5. r[2] = Kernel(r[1], b)
    BY <1>2, <1>3 DEF Runs
  <1> QED BY <1>1, <1>3, <1>4, <1>5 DEF Runs

LEMMA SubmitThree ==
  ASSUME NEW a, NEW b, NEW c
  PROVE  submit_wait(<<a, b, c>>) = Kernel(Kernel(Kernel(dev, a), b), c)
  <1>1. PICK cmds : cmds = <<a, b, c>>
    OBVIOUS
  <1>2. 3 \in Nat /\ DOMAIN cmds = 1 .. 3 /\ cmds[1] = a /\ cmds[2] = b /\ cmds[3] = c
    BY <1>1
  <1>3. PICK r : Runs(r, cmds, 3)
    BY <1>2, SubmitRuns
  <1>4. r[1] = Kernel(dev, a)
    BY <1>2, <1>3 DEF Runs
  <1>5. r[2] = Kernel(r[1], b)
    BY <1>2, <1>3 DEF Runs
  <1>6. r[3] = Kernel(r[2], c)
    BY <1>2, <1>3 DEF Runs
  <1> QED BY <1>1, <1>3, <1>4, <1>5, <1>6 DEF Runs

-----------------------------------------------------------------------------
(***************************************************************************)
(* The pool, the mutex and the indices: PagingInv is inductive.            *)
(***************************************************************************)
LEMMA ChunkType == Chunk \in Nat \ {0}
  <1>1. NumSlots \in Nat \ {0} /\ TopK \in Nat \ {0}
    BY NumSlotsType, ExpertAssumption
  <1>2. NumSlots \div TopK \in Int
    BY <1>1
  <1> QED BY <1>2 DEF Chunk

LEMMA SetupFacts ==
  ASSUME setup \in Setups
  PROVE  /\ setup.depth \in Nat \ {0} /\ 1 .. setup.depth \subseteq Layers
         /\ setup.rows \subseteq Nat \ {0}
         /\ setup.routed \subseteq Experts
         /\ setup.garbage \subseteq Experts \cup {None}
         /\ setup.fused \in BOOLEAN /\ setup.shared \in BOOLEAN
  <1>1. setup \in SetupType
    BY ForwardAssumption
  <1>2. NumLayers \in Nat
    BY ExpertAssumption
  <1>3. setup.depth \in 1 .. NumLayers
    BY <1>1 DEF SetupType, Layers
  <1>4. setup.depth \in Nat \ {0} /\ 1 .. setup.depth \subseteq Layers
    BY <1>2, <1>3 DEF Layers
  <1> QED BY <1>1, <1>4 DEF SetupType

\* A layer of the pass is a layer of the pool, and NoCall is not about it.
LEMMA LayerFacts ==
  ASSUME PassTypeOK, pc = "layer" \/ InLayer
  PROVE  layer \in Layers /\ layer # 0 /\ layer \in Nat /\ rows \in Nat \ {0}
  <1>1. layer \in Layers /\ rows \in Nat \ {0}
    BY SetupFacts DEF PassTypeOK
  <1> QED BY <1>1, ExpertAssumption DEF Layers

LEMMA CallFacts ==
  ASSUME layer \in Nat \ {0}, NEW idx
  PROVE  [layer |-> layer, wanted |-> idx \cap Experts, todo |-> idx \cap Experts,
          dirty |-> FALSE] # NoCall
  BY DEF NoCall

\* The rows of a chunk are rows of the pass.
LEMMA ChunkRows ==
  ASSUME rows \in Nat, r0 \in Nat, NEW t \in r0 .. r0 + RowCount - 1
  PROVE  t \in RowSet /\ (r0 = 0 => t \in FirstRows)
  <1> DEFINE c == Chunk
  <1>1. c \in Nat \ {0}
    BY ChunkType
  <1>2. RowCount = IF c < rows - r0 THEN c ELSE rows - r0
    BY DEF RowCount
  <1> HIDE DEF c
  <1>3. t \in 0 .. rows - 1 /\ t < r0 + c
    BY <1>1, <1>2
  <1> QED BY <1>1, <1>3 DEF RowSet, FirstRows, c

LEMMA FirstChunkRows ==
  ASSUME rows \in Nat, r0 = 0, NEW t \in FirstRows
  PROVE  t \in 0 .. RowCount - 1 /\ RowCount = FirstCount /\ t \in 0 .. FirstCount - 1
  <1> DEFINE c == Chunk
  <1>1. c \in Nat \ {0}
    BY ChunkType
  <1>2. RowCount = (IF c < rows THEN c ELSE rows) /\ FirstCount = (IF c < rows THEN c ELSE rows)
    BY DEF RowCount, FirstCount
  <1>3. t \in 0 .. rows - 1 /\ t < c
    BY DEF FirstRows, RowSet
  <1> HIDE DEF c
  <1> QED BY <1>1, <1>2, <1>3

LEMMA SubType ==
  ASSUME rows \in Nat, r0 \in Nat, NEW idx, \A t \in RowSet : idx[t] \in Indices
  PROVE  Sub(idx) \in SUBSET (Experts \cup {None})
  <1>1. \A t \in r0 .. r0 + RowCount - 1 : idx[t] \subseteq Experts \cup {None}
    BY ChunkRows DEF Indices
  <1> QED BY <1>1 DEF Sub

LEMMA LogitsFacts ==
  ASSUME setup \in Setups, logits \in Routings
  PROVE  /\ DOMAIN logits = RowSet
         /\ \A t \in RowSet : logits[t] \subseteq Experts /\ logits[t] \in Indices
  BY SetupFacts DEF Routings, Indices

\* Every step of the forward pass or of the thread is one of the pool, or none.
LEMMA ForwardIsPool ==
  ASSUME PassTypeOK, MutexInv, [Next]_vars
  PROVE  [PoolNext]_poolVars
  <1>1. ASSUME NEW n \in setup.rows, BeginForward(n) PROVE UNCHANGED poolVars
    BY <1>1 DEF BeginForward, poolVars
  <1>2. CASE Attention
    BY <1>2 DEF Attention, poolVars
  <1>3. CASE ReadRouting
    BY <1>3 DEF ReadRouting, poolVars
  <1>4. CASE Base
    BY <1>4 DEF Base, poolVars
  <1>5. CASE FusedChunk
    BY <1>5 DEF FusedChunk, poolVars
  <1>6. CASE UnfusedChunk
    BY <1>6 DEF UnfusedChunk, poolVars
  <1>7. CASE EnterPlace
    <2>1. layer \in Layers
      BY <1>7, LayerFacts DEF EnterPlace, InLayer
    <2>2. Sub(h_idx) \in SUBSET (Experts \cup {None})
      BY <1>7, SubType, LayerFacts DEF EnterPlace, InLayer, PassTypeOK, IndicesRead
    <2>3. BeginPlace(layer, Sub(h_idx))
      BY <1>7 DEF EnterPlace
    <2> QED BY <2>1, <2>2, <2>3 DEF PoolNext
  <1>8. CASE PlaceExpert
    BY <1>8 DEF PlaceExpert, PoolNext
  <1>9. CASE LeavePlace
    BY <1>9 DEF LeavePlace, PoolNext
  <1>10. CASE EndChunks
    BY <1>10 DEF EndChunks, poolVars
  <1>11. CASE EndLayer
    BY <1>11 DEF EndLayer, poolVars
  <1>12. CASE StartPrefetch
    BY <1>12 DEF StartPrefetch, poolVars
  <1>13. CASE Worker
    BY <1>13 DEF Worker, WorkerLock, WorkerDone, poolVars
  <1>14. CASE DestroyMutex \/ JoinWorker
    BY <1>14 DEF DestroyMutex, JoinWorker, poolVars
  <1>15. CASE UNCHANGED vars
    BY <1>15 DEF vars, poolVars
  <1> QED
    BY <1>1, <1>2, <1>3, <1>4, <1>5, <1>6, <1>7, <1>8, <1>9, <1>10, <1>11, <1>12, <1>13,
       <1>14, <1>15 DEF Next, Forward

\* What a call of moe_place leaves alone while it is in progress.
LEMMA PlaceOneFrame ==
  ASSUME PoolInv, NEW e \in Experts, PlaceOne(e), call.layer # 0
  PROVE  call' # NoCall /\ call'.layer = call.layer /\ call'.wanted = call.wanted
  <1>1. call' = [call EXCEPT !.todo = @ \ {e}]
        \/ call' = [call EXCEPT !.todo = @ \ {e}, !.dirty = TRUE]
    BY DEF PlaceOne, PlaceHit, PlaceEmpty, PlaceEvict, Load
  <1>2. call \in [layer : Layers \cup {0}, wanted : SUBSET Experts,
                  todo : SUBSET Experts, dirty : BOOLEAN]
    BY DEF PoolInv, SlotsTypeOK
  <1>3. call'.layer = call.layer /\ call'.wanted = call.wanted
    BY <1>1, <1>2
  <1> QED BY <1>3 DEF NoCall

-----------------------------------------------------------------------------
(***************************************************************************)
(* The kernels, field by field.                                            *)
(***************************************************************************)
Buffers == {"hidden", "exp", "idx"}

LEMMA KernelAttention ==
  ASSUME NEW d, DOMAIN d = Buffers
  PROVE  LET k == Kernel(d, [op |-> "attention"])
         IN  /\ DOMAIN k = Buffers /\ k.exp = d.exp /\ k.idx = d.idx
             /\ k.hidden = [t \in RowSet |-> SetToBag({Attn})]
  BY DEF Kernel, Buffers

LEMMA KernelShared ==
  ASSUME NEW d, DOMAIN d = Buffers
  PROVE  LET k == Kernel(d, Shared)
         IN  /\ DOMAIN k = Buffers /\ k.exp = d.exp /\ k.idx = d.idx
             /\ k.hidden = [t \in RowSet |-> SetToBag({SharedExpert})]
  BY DEF Kernel, Shared, Buffers

LEMMA KernelRoute ==
  ASSUME NEW d, DOMAIN d = Buffers
  PROVE  LET k == Kernel(d, [op |-> "route"])
         IN  /\ DOMAIN k = Buffers /\ k.exp = d.exp /\ k.hidden = d.hidden
             /\ k.idx = logits
  BY DEF Kernel, Buffers

LEMMA KernelRouteFfn ==
  ASSUME NEW d, DOMAIN d = Buffers, NEW first, NEW rc
  PROVE  LET k == Kernel(d, RouteFfn(first, rc))
             mine == first .. first + rc - 1
         IN  /\ DOMAIN k = Buffers /\ k.hidden = d.hidden
             /\ \A t \in RowSet :
                  /\ k.idx[t] = IF t \in mine THEN logits[t] ELSE d.idx[t]
                  /\ k.exp[t] = IF t \in mine THEN Applied(logits[t]) ELSE d.exp[t]
  BY DEF Kernel, RouteFfn, moe_route_ffn, Buffers

LEMMA KernelFfn ==
  ASSUME NEW d, DOMAIN d = Buffers, NEW rc
  PROVE  LET k == Kernel(d, [op |-> "ffn", rc |-> rc])
         IN  /\ DOMAIN k = Buffers /\ k.exp = d.exp /\ k.idx = d.idx
             /\ \A t \in RowSet :
                  k.hidden[t] = IF t < rc THEN d.hidden[t] (+) Applied(d.idx[t]) ELSE d.hidden[t]
  BY DEF Kernel, moe_ffn, Buffers

LEMMA KernelAdd ==
  ASSUME NEW d, DOMAIN d = Buffers
  PROVE  LET k == Kernel(d, [op |-> "add"])
         IN  /\ DOMAIN k = Buffers /\ k.exp = d.exp /\ k.idx = d.idx
             /\ \A t \in RowSet : k.hidden[t] = d.hidden[t] (+) d.exp[t]
  BY DEF Kernel, Buffers

LEMMA MutexStep ==
  ASSUME PoolInv, PassTypeOK, MutexInv, [Next]_vars
  PROVE  /\ mutex' = "host" <=> call' # NoCall
         /\ mutex' = "worker" <=> worker' = "sweeping"
  <1>1. ASSUME NEW n \in setup.rows, BeginForward(n) PROVE UNCHANGED <<mutex, worker, call>>
    BY <1>1 DEF BeginForward, poolVars, threadVars
  <1>2. CASE Attention \/ ReadRouting \/ Base \/ FusedChunk \/ UnfusedChunk \/ EndChunks \/ EndLayer
    BY <1>2 DEF Attention, ReadRouting, Base, FusedChunk, UnfusedChunk, EndChunks, EndLayer,
                poolVars, threadVars, MutexInv
  <1>3. CASE EnterPlace
    <2>1. layer # 0
      BY <1>3, LayerFacts DEF EnterPlace, InLayer
    <2>2. call'.layer = layer
      BY <1>3 DEF EnterPlace, BeginPlace
    <2>3. call' # NoCall
      BY <2>1, <2>2 DEF NoCall
    <2> QED BY <1>3, <2>3 DEF EnterPlace, Locked, MutexInv
  <1>4. ASSUME NEW e \in Experts, PlaceExpert, PlaceOne(e)
        PROVE  UNCHANGED <<mutex, worker>> /\ (call' # NoCall <=> call # NoCall)
    <2>1. call # NoCall
      BY <1>4 DEF PlaceOne, PlaceHit, PlaceEmpty, PlaceEvict, Turn, NoCall
    <2>2. call.layer # 0
      BY <1>4, <2>1, LayerFacts DEF MutexInv, InLayer
    <2> QED BY <1>4, <2>1, <2>2, PlaceOneFrame DEF PlaceExpert, threadVars
  <1>5. CASE LeavePlace
    BY <1>5 DEF LeavePlace, EndPlace, MutexInv
  <1>6. CASE StartPrefetch \/ Worker \/ DestroyMutex \/ JoinWorker \/ UNCHANGED vars
    BY <1>6 DEF StartPrefetch, Worker, WorkerLock, WorkerDone, DestroyMutex, JoinWorker,
                vars, poolVars, forwardVars, threadVars, MutexInv
  <1> QED
    BY <1>1, <1>2, <1>3, <1>4, <1>5, <1>6 DEF Next, Forward, PlaceExpert, MutexInv

LEMMA CallStep ==
  ASSUME PoolInv, PassTypeOK, MutexInv, [Next]_vars, call' # NoCall
  PROVE  /\ pc' = "place" /\ call'.layer = layer'
         /\ call'.wanted = Sub(h_idx)' \cap Experts
  <1> DEFINE Kept == UNCHANGED <<layer, rows, h_idx, r0>>
  <1>1. ASSUME Kept PROVE Sub(h_idx)' = Sub(h_idx) /\ layer' = layer
    BY <1>1 DEF Sub, RowCount
  <1>2. ASSUME call = NoCall, call' # NoCall PROVE EnterPlace
    BY <1>2 DEF Next, Forward, BeginForward, Attention, ReadRouting, Base, FusedChunk, UnfusedChunk,
                PlaceExpert, PlaceOne, PlaceHit, PlaceEmpty, PlaceEvict, Turn, NoCall, LeavePlace,
                EndPlace, EndChunks, EndLayer, StartPrefetch, Worker, WorkerLock, WorkerDone,
                DestroyMutex, JoinWorker, vars, poolVars
  <1>3. CASE EnterPlace
    BY <1>1, <1>3 DEF EnterPlace, BeginPlace, forwardVars
  <1>4. CASE call # NoCall
    <2>1. pc = "place" /\ call.layer = layer /\ call.wanted = Sub(h_idx) \cap Experts
      BY <1>4 DEF MutexInv
    <2>2. call.layer # 0
      BY <2>1, LayerFacts DEF InLayer
    <2>3. CASE PlaceExpert
      BY <2>1, <2>2, <2>3, <1>1, PlaceOneFrame DEF PlaceExpert, forwardVars
    <2>4. CASE Worker \/ UNCHANGED vars
      BY <2>1, <2>4, <1>1 DEF Worker, WorkerLock, WorkerDone, vars, poolVars, forwardVars
    <2>5. CASE LeavePlace
      BY <2>5 DEF LeavePlace, EndPlace
    <2> QED
      BY <1>3, <2>1, <2>3, <2>4, <2>5
         DEF Next, Forward, BeginForward, Attention, ReadRouting, Base, FusedChunk, UnfusedChunk,
             EndChunks, EndLayer, StartPrefetch, DestroyMutex, JoinWorker
  <1> QED BY <1>2, <1>3, <1>4

-----------------------------------------------------------------------------
(***************************************************************************)
(* Whatever was recorded, the device buffers keep their shape and the      *)
(* indices stay indices.                                                   *)
(***************************************************************************)
Shaped(d) == DOMAIN d = Buffers /\ \A t \in RowSet : d.idx[t] \in Indices

LEMMA KernelKeeps ==
  ASSUME setup \in Setups, logits \in Routings, NEW d, Shaped(d), NEW cmd \in Commands
  PROVE  Shaped(Kernel(d, cmd))
  <1>1. \A t \in RowSet : logits[t] \in Indices
    BY LogitsFacts
  <1>2. CASE cmd.op = "attention"
    BY <1>2 DEF Kernel, Shaped, Buffers
  <1>3. CASE cmd.op = "shared"
    BY <1>3 DEF Kernel, Shaped, Buffers
  <1>4. CASE cmd.op = "route"
    BY <1>4, <1>1 DEF Kernel, Shaped, Buffers
  <1>5. CASE cmd.op = "ffn"
    BY <1>5 DEF Kernel, moe_ffn, Shaped, Buffers
  <1>6. CASE cmd.op = "route_ffn"
    BY <1>6, <1>1 DEF Kernel, moe_route_ffn, Shaped, Buffers
  <1>7. CASE cmd.op = "add"
    BY <1>7 DEF Kernel, Shaped, Buffers
  <1> QED
    BY <1>2, <1>3, <1>4, <1>5, <1>6, <1>7 DEF Commands

LEMMA SubmitKeeps ==
  ASSUME setup \in Setups, logits \in Routings, Shaped(dev), NEW cmds \in Seq(Commands)
  PROVE  Shaped(submit_wait(cmds))
  <1>1. PICK n \in Nat : n = Len(cmds) /\ DOMAIN cmds = 1 .. n
    BY LenProperties
  <1>2. PICK r : Runs(r, cmds, n)
    BY <1>1, SubmitRuns
  <1> DEFINE broken == {k \in 0 .. n : ~ Shaped(r[k])}
  <1>3. SUFFICES ASSUME broken # {} PROVE FALSE
    BY <1>1, <1>2 DEF Runs
  <1>4. PICK k \in broken : \A j \in broken : k <= j
    <2>1. broken \in SUBSET Nat
      BY <1>1
    <2> HIDE DEF broken
    <2> QED BY <1>3, <2>1, LeastExists
  <1>5. k # 0
    BY <1>2, <1>4 DEF Runs
  <1>6. k \in 1 .. n /\ k - 1 \in 0 .. n /\ k - 1 \notin broken
    BY <1>1, <1>4, <1>5
  <1>7. Shaped(r[k - 1])
    BY <1>6
  <1>8. r[k] = Kernel(r[k - 1], cmds[k]) /\ cmds[k] \in Commands
    BY <1>1, <1>2, <1>6, ElementOfSeq DEF Runs
  <1>9. Shaped(r[k])
    BY <1>7, <1>8, KernelKeeps
  <1> QED BY <1>4, <1>9

LEMMA DevShaped ==
  ASSUME PassTypeOK, InLayer
  PROVE  setup \in Setups /\ logits \in Routings /\ Shaped(dev) /\ queue \in Seq(Commands)
         /\ rows \in Nat \ {0} /\ r0 \in Nat
  BY DEF PassTypeOK, Shaped, Buffers

LEMMA CommandTypes ==
  /\ [op |-> "attention"] \in Commands /\ Shared \in Commands
  /\ [op |-> "route"] \in Commands /\ [op |-> "add"] \in Commands
  /\ \A rc \in Int : [op |-> "ffn", rc |-> rc] \in Commands
  /\ \A first \in Nat, rc \in Int : RouteFfn(first, rc) \in Commands
  BY DEF Commands, Shared, RouteFfn

LEMMA RowCountType ==
  ASSUME rows \in Nat, r0 \in Nat
  PROVE  RowCount \in Int
  BY ChunkType DEF RowCount

\* The next chunk begins at Chunk or behind it.
LEMMA NextChunk ==
  ASSUME r0 \in Nat
  PROVE  r0 + Chunk \in Nat /\ r0 + Chunk >= Chunk
  BY ChunkType

\* What a step within a layer must keep for PassTypeOK.
LEMMA TypeWithin ==
  ASSUME PassTypeOK, InLayer, InLayer',
         UNCHANGED <<setup, layer, rows, logits>>,
         queue' \in Seq(Commands), r0' \in Nat, r0' = 0 \/ r0' >= Chunk,
         pc' = "place" => r0' < rows,
         Shaped(dev'),
         h_idx' = <<>> \/ \A t \in RowSet : h_idx'[t] \in Indices,
         IndicesRead' => \A t \in RowSet : h_idx'[t] \in Indices
  PROVE  PassTypeOK'
  <1>1. RowSet' = RowSet /\ Routings' = Routings /\ Chunk' = Chunk
    BY DEF RowSet, Routings, Chunk
  <1>2. Shaped(dev)'
    BY <1>1 DEF Shaped
  <1> QED BY <1>1, <1>2 DEF PassTypeOK, Shaped, InLayer, Buffers, Indices, Commands, IndicesRead

\* How the steps within a layer change the queue and the device.
LEMMA TypeChunk ==
  ASSUME PassTypeOK, ReadRouting \/ Base \/ FusedChunk \/ UnfusedChunk \/ LeavePlace \/ EndChunks
  PROVE  PassTypeOK'
  <1>1. InLayer /\ InLayer' /\ UNCHANGED <<setup, layer, rows, logits>>
    BY DEF ReadRouting, Base, FusedChunk, UnfusedChunk, LeavePlace, EndChunks, InLayer
  <1>2. /\ setup \in Setups /\ logits \in Routings /\ Shaped(dev) /\ queue \in Seq(Commands)
        /\ rows \in Nat \ {0} /\ r0 \in Nat /\ RowCount \in Int
    BY <1>1, DevShaped, RowCountType
  <1>3. RowSet' = RowSet
    BY <1>1 DEF RowSet
  <1>4. r0 = 0 \/ r0 >= Chunk
    BY DEF PassTypeOK
  <1>5. h_idx = <<>> \/ \A t \in RowSet : h_idx[t] \in Indices
    BY <1>1 DEF PassTypeOK
  <1>12. IndicesRead => \A t \in RowSet : h_idx[t] \in Indices
    BY DEF PassTypeOK
  <1>6. CASE ReadRouting
    <2>1. Append(queue, [op |-> "route"]) \in Seq(Commands)
      BY <1>2, CommandTypes, AppendProperties
    <2>2. Shaped(dev')
      BY <1>2, <1>6, <2>1, SubmitKeeps DEF ReadRouting
    <2>3. \A t \in RowSet : h_idx'[t] \in Indices
      BY <1>6, <2>2 DEF ReadRouting, Shaped
    <2>4. queue' \in Seq(Commands) /\ r0' = r0 /\ pc' = "base"
      BY <1>6, EmptySeq DEF ReadRouting
    <2> QED BY <1>1, <1>2, <1>4, <2>2, <2>3, <2>4, TypeWithin
  <1>7. CASE Base
    <2>1. queue' \in Seq(Commands)
      <3>1. Append(queue, Shared) \in Seq(Commands)
        BY <1>2, CommandTypes, AppendProperties
      <3> QED BY <1>2, <1>7, <3>1 DEF Base, Shared
    <2>2. Shaped(dev')
      BY <1>2, <1>7 DEF Base, Shaped, Buffers
    <2>3. r0' = 0 /\ h_idx' = h_idx /\ pc = "base" /\ pc' = "chunk"
      BY <1>7 DEF Base
    <2>4. IndicesRead' => IndicesRead
      BY <1>1, <2>3 DEF IndicesRead
    <2> QED BY <1>12, <1>1, <1>2, <1>5, <2>1, <2>2, <2>3, <2>4, TypeWithin
  <1>8. CASE FusedChunk
    <2>1. Append(queue, [op |-> "route_ffn", r0 |-> r0, rc |-> RowCount]) \in Seq(Commands)
      BY <1>2, CommandTypes, AppendProperties DEF RouteFfn
    <2>2. Shaped(dev')
      BY <1>2, <1>8, <2>1, SubmitKeeps DEF FusedChunk
    <2>3. \A t \in RowSet : h_idx'[t] \in Indices
      BY <1>5, <1>8, <2>2 DEF FusedChunk, Shaped
    <2>4. queue' \in Seq(Commands)
      BY <1>8, EmptySeq DEF FusedChunk
    <2>5. r0' \in Nat /\ (r0' = 0 \/ r0' >= Chunk) /\ (pc' = "place" => r0' < rows)
      BY <1>2, <1>4, <1>8, NextChunk DEF FusedChunk
    <2> QED BY <1>1, <1>2, <1>3, <2>2, <2>3, <2>4, <2>5, TypeWithin
  <1>9. CASE UnfusedChunk
    <2>1. queue' = queue /\ dev' = dev /\ r0' = r0 /\ h_idx' = h_idx /\ r0' < rows
      BY <1>9 DEF UnfusedChunk
    <2>2. IndicesRead
      BY <1>9 DEF UnfusedChunk, IndicesRead
    <2> QED BY <1>12, <1>1, <1>2, <1>4, <1>5, <2>1, <2>2, TypeWithin
  <1>10. CASE LeavePlace
    <2>1. queue' \in Seq(Commands)
      BY <1>2, <1>10, CommandTypes, AppendProperties DEF LeavePlace, RouteFfn
    <2>2. r0' \in Nat /\ (r0' = 0 \/ r0' >= Chunk)
      BY <1>2, <1>10, NextChunk DEF LeavePlace
    <2>3. dev' = dev /\ h_idx' = h_idx /\ pc = "place" /\ pc' = "chunk"
      BY <1>10 DEF LeavePlace
    <2>4. IndicesRead
      BY <2>3 DEF IndicesRead
    <2> QED BY <1>12, <1>1, <1>2, <1>5, <2>1, <2>2, <2>3, <2>4, TypeWithin
  <1>11. CASE EndChunks
    <2>1. queue \o LastCommands \in Seq(Commands)
      <3>1. LastCommands \in Seq(Commands)
        BY CommandTypes DEF LastCommands
      <3> QED BY <1>2, <3>1, ConcatProperties
    <2>2. Shaped(dev')
      BY <1>2, <1>11, <2>1, SubmitKeeps DEF EndChunks
    <2>3. queue' \in Seq(Commands) /\ r0' = r0 /\ h_idx' = h_idx /\ pc' = "done"
      BY <1>11, EmptySeq DEF EndChunks
    <2>4. ~ IndicesRead'
      BY <2>3 DEF IndicesRead
    <2> QED BY <1>1, <1>2, <1>4, <1>5, <2>2, <2>3, <2>4, TypeWithin
  <1> QED BY <1>6, <1>7, <1>8, <1>9, <1>10, <1>11

LEMMA TypeAttention ==
  ASSUME PassTypeOK, Attention
  PROVE  PassTypeOK'
  <1>1. /\ pc = "layer" /\ InLayer' /\ ~ InLayer
        /\ UNCHANGED <<setup, layer, rows, h_idx, r0>>
        /\ logits' \in Routings /\ queue' = Append(queue, [op |-> "attention"])
    BY DEF Attention, InLayer
  <1>2. PICK junk \in setup.garbage :
          dev' = [hidden |-> IF layer = 1 THEN Blank(rows) ELSE dev.hidden,
                  exp |-> Blank(rows), idx |-> [t \in RowSet |-> {junk}]]
    BY DEF Attention
  <1>3. {junk} \in Indices
    BY <1>2, SetupFacts DEF PassTypeOK, Indices
  <1>4. DOMAIN dev' = {"hidden", "exp", "idx"} /\ \A t \in RowSet : dev'.idx[t] \in Indices
    BY <1>2, <1>3
  <1>5. queue' \in Seq(Commands)
    BY <1>1, CommandTypes, AppendProperties DEF PassTypeOK
  <1>6. RowSet' = RowSet /\ Routings' = Routings /\ Chunk' = Chunk
    BY <1>1 DEF RowSet, Routings, Chunk
  <1>7. ~ IndicesRead'
    BY DEF Attention, IndicesRead
  <1>8. h_idx' = <<>> /\ r0' = 0
    BY <1>1 DEF PassTypeOK
  <1> QED
    BY <1>1, <1>4, <1>5, <1>6, <1>7, <1>8 DEF PassTypeOK, Commands, Indices

LEMMA TypeEndLayer ==
  ASSUME PassTypeOK, EndLayer
  PROVE  PassTypeOK'
  <1>1. InLayer /\ ~ InLayer' /\ ~ IndicesRead'
    BY DEF EndLayer, InLayer, IndicesRead
  <1>2. layer \in 1 .. setup.depth /\ rows \in Nat \ {0} /\ setup.depth \in Nat
    BY <1>1, SetupFacts DEF PassTypeOK
  <1>3. pc' = "layer" => layer' \in 1 .. setup.depth /\ rows' = rows
    BY <1>2 DEF EndLayer
  <1> QED BY <1>1, <1>2, <1>3 DEF EndLayer, PassTypeOK, Commands

LEMMA TypeStep ==
  ASSUME PoolInv, PassTypeOK, MutexInv, [Next]_vars
  PROVE  PassTypeOK'
  <1>1. ASSUME NEW n \in setup.rows, BeginForward(n) PROVE PassTypeOK'
    <2>1. ~ InLayer /\ ~ InLayer' /\ ~ IndicesRead'
      BY <1>1 DEF BeginForward, InLayer, IndicesRead
    <2>2. n \in Nat \ {0} /\ 1 \in 1 .. setup.depth
      BY SetupFacts DEF PassTypeOK
    <2> QED BY <1>1, <2>1, <2>2 DEF BeginForward, PassTypeOK, Commands
  <1>2. CASE Attention
    BY <1>2, TypeAttention
  <1>3. CASE ReadRouting \/ Base \/ FusedChunk \/ UnfusedChunk \/ LeavePlace \/ EndChunks
    BY <1>3, TypeChunk
  <1>4. CASE EnterPlace \/ PlaceExpert
    <2>1. UNCHANGED forwardVars
      BY <1>4 DEF EnterPlace, PlaceExpert
    <2> QED
      BY <2>1 DEF forwardVars, PassTypeOK, InLayer, IndicesRead, RowSet, Routings, Chunk,
                  Commands, Indices
  <1>5. CASE EndLayer
    BY <1>5, TypeEndLayer
  <1>6. CASE StartPrefetch \/ DestroyMutex \/ JoinWorker
    <2>1. ~ InLayer /\ ~ InLayer' /\ ~ IndicesRead' /\ pc' # "layer"
      BY <1>6 DEF StartPrefetch, DestroyMutex, JoinWorker, InLayer, IndicesRead
    <2> QED
      BY <1>6, <2>1 DEF StartPrefetch, DestroyMutex, JoinWorker, PassTypeOK, Commands
  <1>7. CASE Worker \/ UNCHANGED vars
    <2>1. UNCHANGED forwardVars
      BY <1>7 DEF Worker, WorkerLock, WorkerDone, vars
    <2> QED
      BY <2>1 DEF forwardVars, PassTypeOK, InLayer, IndicesRead, RowSet, Routings, Chunk,
                  Commands, Indices
  <1> QED
    BY <1>1, <1>2, <1>3, <1>4, <1>5, <1>6, <1>7 DEF Next, Forward

-----------------------------------------------------------------------------
LEMMA PagingInit == Init => PagingInv
  <1> SUFFICES ASSUME Init PROVE PagingInv
    OBVIOUS
  <1>1. PoolInv
    BY InitInv DEF Init
  <1>2. PassTypeOK
    BY EmptySeq DEF Init, PassTypeOK, InLayer, IndicesRead
  <1>3. MutexInv
    BY DEF Init, PoolInit, MutexInv
  <1> QED BY <1>1, <1>2, <1>3 DEF PagingInv

LEMMA PagingStep ==
  ASSUME PagingInv, [Next]_vars
  PROVE  PagingInv'
  <1>1. PoolInv /\ PassTypeOK /\ MutexInv
    BY DEF PagingInv
  <1>2. PoolInv'
    BY <1>1, ForwardIsPool, PoolStep
  <1>3. PassTypeOK'
    BY <1>1, TypeStep
  <1>4. MutexInv'
    <2>1. /\ mutex' = "host" <=> call' # NoCall
          /\ mutex' = "worker" <=> worker' = "sweeping"
      BY <1>1, MutexStep
    <2>2. call' # NoCall => /\ pc' = "place" /\ call'.layer = layer'
                            /\ call'.wanted = Sub(h_idx)' \cap Experts
      BY <1>1, CallStep
    <2> QED BY <2>1, <2>2 DEF MutexInv, NoCall
  <1> QED BY <1>2, <1>3, <1>4 DEF PagingInv

\* The slot pool is used by forward passes as PoolNext allows, one call at a
\* time, by the thread that holds the lock; layers, rows and indices stay in
\* range. For any number of models, layers, experts, slots and rows.
THEOREM Paging == Spec => []PagingInv
  BY PagingInit, PagingStep, PTL DEF Spec

\* In every forward pass the device finds between two calls of moe_place the
\* weights of an expert in the slot its table names, and none that was evicted.
THEOREM PassAgrees == Spec => []DeviceAgrees
  <1>1. PagingInv => DeviceAgrees
    BY AgreesInPool DEF PagingInv
  <1> QED BY <1>1, Paging, PTL

\* In no forward pass an expert is evicted by the call that placed it.
THEOREM PassKeepsPlaced == Spec => []PlacedStay
  <1>1. PagingInv => PlacedStay
    BY DEF PagingInv, PoolInv
  <1> QED BY <1>1, Paging, PTL

\* In every forward pass SharedExpertCache lists exactly what is in slots.
THEOREM PassCacheExact == Spec => []CacheMirrorsSlots
  <1>1. PagingInv => CacheMirrorsSlots
    BY DEF PagingInv, PoolInv
  <1> QED BY <1>1, Paging, PTL

\* While the prefetch task reads the host tables, no call of moe_place changes
\* them or is in progress: it holds the lock that moe_place takes.
THEOREM SweepKept == Spec => SweepUndisturbed
  <1>1. PagingInv /\ [Next]_vars
          => [worker = "sweeping" => UNCHANGED <<h_slot_of, h_slot_exp, call>>]_vars
    <2> SUFFICES ASSUME PagingInv, [Next]_vars, worker = "sweeping"
                 PROVE  UNCHANGED <<h_slot_of, h_slot_exp, call>>
      OBVIOUS
    <2>1. mutex = "worker" /\ call = NoCall
      BY DEF PagingInv, MutexInv
    <2> QED
      BY <2>1 DEF Next, Forward, BeginForward, Attention, ReadRouting, Base, FusedChunk, UnfusedChunk,
                  EnterPlace, Locked, PlaceExpert, PlaceOne, PlaceHit, PlaceEmpty, PlaceEvict, Turn,
                  NoCall, LeavePlace, EndPlace, EndChunks, EndLayer, StartPrefetch, Worker,
                  WorkerLock, WorkerDone, DestroyMutex, JoinWorker, vars, poolVars
  <1> QED BY <1>1, Paging, PTL DEF Spec, SweepUndisturbed
-----------------------------------------------------------------------------
(***************************************************************************)
(* The rows of the first chunk.                                            *)
(***************************************************************************)
LEMMA BagOfUnion ==
  ASSUME NEW A, NEW B, A \cap B = {}
  PROVE  SetToBag(A) (+) SetToBag(B) = SetToBag(A \cup B)
  <1>1. /\ SetToBag(A) = [x \in A |-> 1] /\ SetToBag(B) = [x \in B |-> 1]
        /\ SetToBag(A \cup B) = [x \in A \cup B |-> 1]
    BY DEF SetToBag
  <1>2. SetToBag(A) (+) SetToBag(B)
          = [x \in A \cup B |-> (IF x \in A THEN 1 ELSE 0) + (IF x \in B THEN 1 ELSE 0)]
    BY <1>1 DEF (+)
  <1>3. \A x \in A \cup B : (IF x \in A THEN 1 ELSE 0) + (IF x \in B THEN 1 ELSE 0) = 1
    OBVIOUS
  <1> QED BY <1>1, <1>2, <1>3

LEMMA ExpectedIs ==
  ASSUME NEW t
  PROVE  /\ setup.shared => SetToBag({SharedExpert}) (+) Routed(t) = Expected(t)
         /\ ~ setup.shared => EmptyBag (+) Routed(t) = Expected(t)
  <1> DEFINE E == {Expert(e) : e \in logits[t]}
  <1>1. SharedExpert \notin E
    BY DEF SharedExpert, Expert
  <1>2. SetToBag({SharedExpert}) (+) SetToBag(E) = SetToBag({SharedExpert} \cup E)
    BY <1>1, BagOfUnion
  <1>3. SetToBag({}) (+) SetToBag(E) = SetToBag({} \cup E)
    BY BagOfUnion
  <1>4. {SharedExpert} \cup E = E \cup {SharedExpert} /\ {} \cup E = E \cup {}
    OBVIOUS
  <1> QED BY <1>2, <1>3, <1>4 DEF Routed, Expected, EmptyBag

LEMMA AppliedRight ==
  ASSUME NEW E \in SUBSET Experts,
         \A e \in E : slot_of[layer][e] # None /\ slot_gu[layer][slot_of[layer][e]] = e
  PROVE  Applied(E) = SetToBag({Expert(e) : e \in E})
  <1>1. {e \in E : slot_of[layer][e] # None} = E
    OBVIOUS
  <1>2. {slot_gu[layer][slot_of[layer][e]] : e \in E} = E
    OBVIOUS
  <1> DEFINE who(x) == {e \in E : Expert(slot_gu[layer][slot_of[layer][e]]) = x}
  <1>3. Applied(E) = [x \in {Expert(w) : w \in E} |-> Cardinality(who(x))]
    BY <1>1, <1>2 DEF Applied
  <1>4. ASSUME NEW w \in E PROVE Cardinality(who(Expert(w))) = 1
    <2>1. who(Expert(w)) = {w}
      BY DEF Expert
    <2> QED BY <2>1, FS_Singleton
  <1> HIDE DEF who
  <1>5. \A x \in {Expert(w) : w \in E} : Cardinality(who(x)) = 1
    BY <1>4
  <1> QED BY <1>3, <1>5 DEF SetToBag

\* A launch over rows whose experts are in their slots leaves each row its experts.
LEMMA LoadedApplied ==
  ASSUME setup \in Setups, logits \in Routings,
         NEW ts \in SUBSET RowSet, Loaded(ts), NEW t \in ts
  PROVE  Applied(logits[t]) = Routed(t)
  <1>1. logits[t] \in SUBSET Experts
    BY LogitsFacts
  <1> QED BY <1>1, AppliedRight DEF Loaded, Routed

\* The invariant of a step that stays in the layer.
LEMMA RowsWithin ==
  ASSUME InLayer', pc' # "done",
         setup'.fused => pc' # "route" /\ FusedInv',
         ~ setup'.fused /\ rows' <= Chunk' => TwoDispatchInv'
  PROVE  (RowsInv /\ RowsRight)'
  BY DEF RowsInv, RowsRight, InLayer

LEMMA RowsAttention ==
  ASSUME PassTypeOK, RowsInv, Attention
  PROVE  (RowsInv /\ RowsRight)'
  <1>1. queue = <<>> /\ h_idx = <<>> /\ setup \in Setups
    BY DEF Attention, InLayer, RowsInv, PassTypeOK
  <1>2. queue' = <<[op |-> "attention"]>> /\ h_idx' = <<>> /\ setup' = setup
        /\ pc' = IF setup.fused THEN "base" ELSE "route"
    BY <1>1 DEF Attention
  <1>3. setup.fused => FusedInv'
    BY <1>2 DEF FusedInv
  <1>4. ~ setup.fused => TwoDispatchInv'
    BY <1>2 DEF TwoDispatchInv
  <1>5. InLayer' /\ pc' # "done" /\ (setup.fused => pc' # "route")
    BY <1>2 DEF InLayer
  <1> QED BY <1>2, <1>3, <1>4, <1>5, RowsWithin

LEMMA AppendIs ==
  ASSUME NEW S, NEW p \in Seq(S), NEW q \in Seq(S), NEW x \in S, Len(q) = Len(p) + 1,
         \A i \in 1 .. Len(p) : q[i] = p[i], q[Len(p) + 1] = x
  PROVE  Append(p, x) = q
  <1> DEFINE r == Append(p, x)
  <1>1. /\ r \in Seq(S) /\ Len(r) = Len(p) + 1
        /\ (\A i \in 1 .. Len(p) : r[i] = p[i]) /\ r[Len(p) + 1] = x
    BY AppendProperties
  <1> HIDE DEF r
  <1>2. \A i \in 1 .. Len(r) : r[i] = q[i]
    BY <1>1, LenProperties
  <1>3. r = q
    BY <1>1, <1>2, SeqEqual
  <1> QED BY <1>3 DEF r

LEMMA ShortQueues ==
  ASSUME NEW a, NEW b, NEW c
  PROVE  /\ Append(<<>>, a) = <<a>> /\ Append(<<a>>, b) = <<a, b>>
         /\ Append(<<a, b>>, c) = <<a, b, c>>
         /\ <<>> \o <<a>> = <<a>> /\ <<a>> \o <<b>> = <<a, b>>
         /\ <<a>> \o <<>> = <<a>> /\ <<a, b>> \o <<>> = <<a, b>>
  <1>1. Append(<<>>, a) = <<a>>
    OBVIOUS
  <1>2. Append(<<a>>, b) = <<a, b>>
    <2>1. PICK S, p, q : S = {a, b} /\ p = <<a>> /\ q = <<a, b>>
      OBVIOUS
    <2>2. /\ b \in S /\ p \in Seq(S) /\ q \in Seq(S) /\ Len(q) = Len(p) + 1
          /\ (\A i \in 1 .. Len(p) : q[i] = p[i]) /\ q[Len(p) + 1] = b
      BY <2>1
    <2>3. Append(p, b) = q
      BY <2>2, AppendIs
    <2> QED BY <2>1, <2>3, Zenon
  <1>3. Append(<<a, b>>, c) = <<a, b, c>>
    <2>1. PICK S, p, q : S = {a, b, c} /\ p = <<a, b>> /\ q = <<a, b, c>>
      OBVIOUS
    <2>2. /\ c \in S /\ p \in Seq(S) /\ q \in Seq(S) /\ Len(q) = Len(p) + 1
          /\ (\A i \in 1 .. Len(p) : q[i] = p[i]) /\ q[Len(p) + 1] = c
      BY <2>1
    <2>3. Append(p, c) = q
      BY <2>2, AppendIs
    <2> QED BY <2>1, <2>3, Zenon
  <1>4. <<>> \o <<a>> = <<a>>
    OBVIOUS
  <1>5. <<a>> \o <<b>> = <<a, b>>
    <2>1. PICK p, o, q : p = <<a>> /\ o = <<b>> /\ q = <<a, b>>
      OBVIOUS
    <2>2. /\ p \in Seq({a, b}) /\ Len(p) = 1 /\ p[1] = a
          /\ o \in Seq({a, b}) /\ Len(o) = 1 /\ o[1] = b
          /\ q \in Seq({a, b}) /\ Len(q) = 2 /\ q[1] = a /\ q[2] = b
      BY <2>1
    <2>3. PICK r : r = p \o o
      OBVIOUS
    <2>4. r \in Seq({a, b}) /\ Len(r) = 2 /\ r[1] = a /\ r[2] = b
      BY <2>2, <2>3, ConcatProperties
    <2>5. r = q
      BY <2>2, <2>4, SeqEqual
    <2> QED BY <2>1, <2>3, <2>5
  <1>6. <<a>> \o <<>> = <<a>>
    OBVIOUS
  <1>7. <<a, b>> \o <<>> = <<a, b>>
    OBVIOUS
  <1> QED BY <1>1, <1>2, <1>3, <1>4, <1>5, <1>6, <1>7

LEMMA RowsReadRouting ==
  ASSUME PassTypeOK, RowsInv, ReadRouting
  PROVE  (RowsInv /\ RowsRight)'
  <1>1. InLayer /\ InLayer' /\ pc' = "base" /\ ~ setup.fused
        /\ UNCHANGED <<setup, rows, logits>> /\ Chunk' = Chunk
    BY DEF ReadRouting, InLayer, RowsInv, Chunk
  <1>2. ASSUME rows <= Chunk PROVE TwoDispatchInv'
    <2>1. queue = <<[op |-> "attention"]>> /\ DOMAIN dev = Buffers
      BY <1>1, <1>2, DevShaped DEF RowsInv, TwoDispatchInv, ReadRouting, Shaped
    <2>2. dev' = submit_wait(<<[op |-> "attention"], [op |-> "route"]>>)
      BY <2>1, ShortQueues DEF ReadRouting
    <2>3. dev' = Kernel(Kernel(dev, [op |-> "attention"]), [op |-> "route"])
      BY <2>2, SubmitTwo
    <2>4. DOMAIN Kernel(dev, [op |-> "attention"]) = Buffers
      BY <2>1, KernelAttention
    <2>5. dev'.idx = logits
      BY <2>3, <2>4, KernelRoute
    <2> QED BY <1>1, <2>5 DEF ReadRouting, TwoDispatchInv
  <1> QED BY <1>1, <1>2, RowsWithin

LEMMA RowsBase ==
  ASSUME SharedWhenFused, PassTypeOK, RowsInv, Base
  PROVE  (RowsInv /\ RowsRight)'
  <1>1. InLayer /\ InLayer' /\ pc' = "chunk" /\ r0' = 0
        /\ UNCHANGED <<setup, rows, logits, h_idx>> /\ Chunk' = Chunk
    BY DEF Base, InLayer, Chunk
  <1>2. ASSUME setup.fused PROVE FusedInv'
    <2>1. setup.shared
      BY <1>2 DEF SharedWhenFused, PassTypeOK
    <2>2. queue = <<[op |-> "attention"]>> /\ h_idx = <<>>
      BY <1>1, <1>2 DEF RowsInv, FusedInv, Base
    <2>3. queue' = <<[op |-> "attention"], Shared>>
      BY <2>1, <2>2 DEF Base, Shared
    <2> QED BY <1>1, <2>2, <2>3 DEF FusedInv, Shared
  <1>3. ASSUME ~ setup.fused, rows <= Chunk PROVE TwoDispatchInv'
    <2>1. queue = <<>> /\ dev.idx = logits /\ h_idx = logits /\ DOMAIN dev = Buffers
      BY <1>1, <1>3, DevShaped DEF RowsInv, TwoDispatchInv, Base, Shaped
    <2>2. dev'.idx = dev.idx
      BY <2>1 DEF Base, Buffers
    <2>3. queue' = IF setup.shared THEN <<Shared>> ELSE <<>>
      BY <2>1 DEF Base, Shared
    <2>4. ~ setup.shared => HiddenIs(EmptyBag)'
      BY <1>1, <2>1 DEF Base, Buffers, HiddenIs, Blank, RowSet
    <2> QED BY <1>1, <2>1, <2>2, <2>3, <2>4 DEF TwoDispatchInv, Shared
  <1> QED BY <1>1, <1>2, <1>3, RowsWithin

LEMMA RowsUnfusedChunk ==
  ASSUME PassTypeOK, RowsInv, UnfusedChunk
  PROVE  (RowsInv /\ RowsRight)'
  <1>1. InLayer /\ InLayer' /\ pc = "chunk" /\ pc' = "place" /\ ~ setup.fused /\ r0 < rows
        /\ UNCHANGED <<setup, rows, logits, h_idx, dev, r0, queue>> /\ Chunk' = Chunk
    BY DEF UnfusedChunk, InLayer, Chunk
  <1>2. ASSUME rows <= Chunk PROVE TwoDispatchInv'
    <2>1. r0 = 0
      BY <1>1, <1>2, ChunkType, DevShaped DEF PassTypeOK
    <2>2. TwoDispatchInv
      BY <1>1, <1>2 DEF RowsInv
    <2> QED BY <1>1, <2>1, <2>2 DEF TwoDispatchInv, HiddenIs, RowSet, Shared
  <1> QED BY <1>1, <1>2, RowsWithin

LEMMA RowsPlaceSteps ==
  ASSUME PassTypeOK, RowsInv, EnterPlace \/ PlaceExpert
  PROVE  (RowsInv /\ RowsRight)'
  <1>1. InLayer /\ InLayer' /\ pc = "place"
        /\ UNCHANGED <<setup, pc, rows, logits, h_idx, dev, r0, queue>> /\ Chunk' = Chunk
    BY DEF EnterPlace, PlaceExpert, forwardVars, InLayer, Chunk
  <1>2. ASSUME setup.fused PROVE FusedInv'
    <2>1. FusedInv
      BY <1>1, <1>2 DEF RowsInv
    <2> QED BY <1>1, <2>1 DEF FusedInv, HiddenIs, ExpRight, FirstRows, RowSet, Routed
  <1>3. ASSUME ~ setup.fused, rows <= Chunk PROVE TwoDispatchInv'
    <2>1. TwoDispatchInv
      BY <1>1, <1>3 DEF RowsInv
    <2> QED BY <1>1, <2>1 DEF TwoDispatchInv, HiddenIs, RowSet, Shared
  <1> QED BY <1>1, <1>2, <1>3, RowsWithin

\* The first launch of a layer by the fused kernel.
LEMMA RowsFirstLaunch ==
  ASSUME PassTypeOK, RowsInv, FusedChunk, r0 = 0
  PROVE  /\ dev'.hidden = [t \in RowSet |-> SetToBag({SharedExpert})]
         /\ \A t \in FirstRows : dev'.exp[t] = Applied(logits[t]) /\ dev'.idx[t] = logits[t]
         /\ h_idx' = dev'.idx
  <1>1. InLayer /\ pc = "chunk" /\ setup.fused
    BY DEF FusedChunk, InLayer
  <1>2. queue = <<[op |-> "attention"], Shared>> /\ h_idx = <<>>
    BY <1>1 DEF RowsInv, FusedInv
  <1>3. DOMAIN dev = Buffers /\ rows \in Nat
    BY <1>1, DevShaped DEF Shaped
  <1> DEFINE rf == RouteFfn(0, RowCount)
             d1 == Kernel(dev, [op |-> "attention"])
             d2 == Kernel(d1, Shared)
             d3 == Kernel(d2, rf)
  <1>4. dev' = submit_wait(<<[op |-> "attention"], Shared, rf>>)
    <2>1. Append(queue, rf) = <<[op |-> "attention"], Shared, rf>>
      BY <1>2, ShortQueues
    <2> QED BY <2>1 DEF FusedChunk, RouteFfn
  <1>5. dev' = d3
    BY <1>4, SubmitThree
  <1>6. DOMAIN d1 = Buffers
    BY <1>3, KernelAttention
  <1>7. DOMAIN d2 = Buffers /\ d2.hidden = [t \in RowSet |-> SetToBag({SharedExpert})]
    BY <1>6, KernelShared
  <1>8. /\ d3.hidden = d2.hidden
        /\ \A t \in RowSet : t \in 0 .. 0 + RowCount - 1 =>
             d3.exp[t] = Applied(logits[t]) /\ d3.idx[t] = logits[t]
    BY <1>7, KernelRouteFfn
  <1> HIDE DEF d1, d2, d3, rf
  <1>9. \A t \in FirstRows : t \in RowSet /\ t \in 0 .. 0 + RowCount - 1
    BY <1>3, FirstChunkRows, RowCountType DEF FirstRows
  <1>10. h_idx' = dev'.idx
    BY <1>2 DEF FusedChunk
  <1> QED BY <1>5, <1>7, <1>8, <1>9, <1>10

\* When nothing is missing, the experts of the chunk are where the device looks.
LEMMA NoMissLoaded ==
  ASSUME PagingInv, pc = "chunk", rows \in Nat, r0 = 0,
         NEW idx, ~ Miss(Sub(idx)), \A t \in FirstRows : idx[t] = logits[t]
  PROVE  Loaded(FirstRows)
  <1> SUFFICES ASSUME NEW t \in FirstRows, NEW e \in logits[t]
               PROVE  slot_of[layer][e] # None /\ slot_gu[layer][slot_of[layer][e]] = e
    BY DEF Loaded
  <1>1. e \in idx[t] /\ t \in r0 .. r0 + RowCount - 1
    BY FirstChunkRows, RowCountType
  <1>2. e \in Sub(idx)
    BY <1>1 DEF Sub
  <1>3. e \in Experts /\ Resident(layer, e)
    BY <1>2 DEF Miss
  <1>4. call = NoCall
    BY DEF PagingInv, MutexInv
  <1>5. layer \in Layers /\ call.layer # layer
    BY <1>4, LayerFacts DEF PagingInv, InLayer, NoCall
  <1> QED BY <1>3, <1>5, AgreesInPool DEF PagingInv, DeviceAgrees, Resident

\* What a launch that is still recorded does to the rows of the first chunk.
LEMMA PendingLaunch ==
  ASSUME DOMAIN dev = Buffers, rows \in Nat, setup \in Setups, logits \in Routings,
         NEW first \in 0 .. rows, NEW rc \in 0 .. rows,
         \/ first = 0 /\ rc = FirstCount /\ Loaded(FirstRows)
         \/ first >= Chunk /\ ExpRight
  PROVE  LET d1 == Kernel(dev, RouteFfn(first, rc))
         IN  /\ DOMAIN d1 = Buffers /\ d1.hidden = dev.hidden
             /\ \A t \in FirstRows : d1.exp[t] = Routed(t)
  <1> DEFINE d1 == Kernel(dev, RouteFfn(first, rc))
  <1>1. /\ DOMAIN d1 = Buffers /\ d1.hidden = dev.hidden
        /\ \A t \in RowSet : d1.exp[t] = IF t \in first .. first + rc - 1
                                         THEN Applied(logits[t]) ELSE dev.exp[t]
    BY KernelRouteFfn
  <1> HIDE DEF d1
  <1>2. ASSUME NEW t \in FirstRows PROVE d1.exp[t] = Routed(t)
    <2>1. t \in RowSet /\ t \in Nat /\ t < Chunk
      BY DEF FirstRows, RowSet
    <2>2. CASE first = 0 /\ rc = FirstCount /\ Loaded(FirstRows)
      <3>1. t \in 0 .. FirstCount - 1
        <4>1. FirstCount = IF Chunk < rows THEN Chunk ELSE rows
          BY DEF FirstCount
        <4>2. t <= rows - 1
          BY <2>1 DEF RowSet
        <4> QED BY <2>1, <4>1, <4>2, ChunkType
      <3>2. t \in first .. first + rc - 1
        BY <2>2, <3>1
      <3>3. FirstRows \in SUBSET RowSet
        BY DEF FirstRows
      <3> QED BY <1>1, <2>1, <2>2, <3>2, <3>3, LoadedApplied
    <2>3. CASE first >= Chunk /\ ExpRight
      <3>1. t \notin first .. first + rc - 1
        BY <2>1, <2>3, ChunkType
      <3> QED BY <1>1, <2>1, <2>3, <3>1 DEF ExpRight
    <2> QED BY <2>2, <2>3
  <1> QED BY <1>1, <1>2 DEF d1

\* The later launches: what was recorded for the first chunk has run by then.
LEMMA RowsLaterLaunch ==
  ASSUME PassTypeOK, RowsInv, FusedChunk, r0 > 0
  PROVE  HiddenIs(SetToBag({SharedExpert}))' /\ ExpRight'
  <1>1. InLayer /\ pc = "chunk" /\ setup.fused /\ UNCHANGED <<rows, logits>> /\ Chunk' = Chunk
    BY DEF FusedChunk, InLayer, Chunk
  <1>2. /\ DOMAIN dev = Buffers /\ rows \in Nat /\ r0 \in Nat /\ setup \in Setups
        /\ logits \in Routings /\ r0 >= Chunk
    BY <1>1, DevShaped DEF Shaped, PassTypeOK
  <1>3. HiddenIs(SetToBag({SharedExpert}))
    BY <1>1 DEF RowsInv, FusedInv
  <1> DEFINE rf == RouteFfn(r0, RowCount)
  <1>4. dev' = submit_wait(Append(queue, rf))
    BY DEF FusedChunk, RouteFfn
  <1>5. \A t \in FirstRows : t \in RowSet /\ t \notin r0 .. r0 + RowCount - 1
    BY <1>2, ChunkType, RowCountType DEF FirstRows, RowSet
  <1>6. RowSet' = RowSet /\ FirstRows' = FirstRows /\ \A t : Routed(t)' = Routed(t)
    BY <1>1 DEF RowSet, FirstRows, Routed
  <1>7. CASE queue = <<>> /\ ExpRight
    <2>1. dev' = Kernel(dev, rf)
      BY <1>4, <1>7, ShortQueues, SubmitOne
    <2>2. /\ dev'.hidden = dev.hidden
          /\ \A t \in RowSet : t \notin r0 .. r0 + RowCount - 1 => dev'.exp[t] = dev.exp[t]
      BY <1>2, <2>1, KernelRouteFfn
    <2> QED BY <1>3, <1>5, <1>6, <1>7, <2>2 DEF HiddenIs, ExpRight
  <1>8. ASSUME NEW first \in 0 .. rows, NEW rc \in 0 .. rows, queue = <<RouteFfn(first, rc)>>,
               \/ first = 0 /\ rc = FirstCount /\ Loaded(FirstRows)
               \/ first >= Chunk /\ ExpRight
        PROVE  HiddenIs(SetToBag({SharedExpert}))' /\ ExpRight'
    <2> DEFINE d1 == Kernel(dev, RouteFfn(first, rc))
               d2 == Kernel(d1, rf)
    <2>1. dev' = d2
      <3> HIDE DEF rf
      <3>1. PICK x : x = RouteFfn(first, rc)
        OBVIOUS
      <3>2. dev' = submit_wait(<<x, rf>>)
        BY <1>4, <1>8, <3>1, ShortQueues
      <3> QED BY <3>1, <3>2, SubmitTwo
    <2>2. /\ DOMAIN d1 = Buffers /\ d1.hidden = dev.hidden
          /\ \A t \in FirstRows : d1.exp[t] = Routed(t)
      BY <1>2, <1>8, PendingLaunch
    <2>3. /\ d2.hidden = d1.hidden
          /\ \A t \in RowSet : t \notin r0 .. r0 + RowCount - 1 => d2.exp[t] = d1.exp[t]
      BY <2>2, KernelRouteFfn
    <2> HIDE DEF d1, d2, rf
    <2> QED BY <1>3, <1>5, <1>6, <2>1, <2>2, <2>3 DEF HiddenIs, ExpRight
  <1>9. /\ (queue = <<>> /\ ExpRight)
           \/ \E first, rc \in 0 .. rows :
                /\ queue = <<RouteFfn(first, rc)>>
                /\ \/ first = 0 /\ rc = FirstCount /\ Loaded(FirstRows)
                   \/ first >= Chunk /\ ExpRight
    BY <1>1 DEF RowsInv, FusedInv
  <1> QED BY <1>7, <1>8, <1>9

LEMMA RowsFusedChunk ==
  ASSUME PagingInv, PagingInv', RowsInv, FusedChunk
  PROVE  (RowsInv /\ RowsRight)'
  <1>1. /\ InLayer /\ InLayer' /\ setup.fused /\ pc = "chunk" /\ pc' \in {"chunk", "place"}
        /\ UNCHANGED <<setup, layer, rows, logits, poolVars>> /\ Chunk' = Chunk
        /\ queue' = <<>>
    BY DEF FusedChunk, InLayer, Chunk
  <1>2. rows \in Nat /\ r0 \in Nat /\ PassTypeOK /\ setup \in Setups /\ logits \in Routings
    BY <1>1, DevShaped DEF PagingInv
  <1>3. RowSet' = RowSet /\ FirstRows' = FirstRows /\ \A t : Routed(t)' = Routed(t)
    BY <1>1 DEF RowSet, FirstRows, Routed
  <1>4. CASE r0 = 0
    <2>1. /\ dev'.hidden = [t \in RowSet |-> SetToBag({SharedExpert})]
          /\ \A t \in FirstRows : dev'.exp[t] = Applied(logits[t]) /\ dev'.idx[t] = logits[t]
          /\ h_idx' = dev'.idx
      BY <1>2, <1>4, RowsFirstLaunch
    <2>2. HiddenIs(SetToBag({SharedExpert}))'
      BY <1>3, <2>1 DEF HiddenIs
    <2>3. CASE Miss(Sub(h_idx'))
      <3>1. pc' = "place" /\ r0' = 0
        BY <1>4, <2>3 DEF FusedChunk
      <3>2. FusedInv'
        BY <1>1, <1>3, <2>1, <2>2, <3>1 DEF FusedInv
      <3> QED BY <1>1, <3>1, <3>2, RowsWithin
    <2>4. CASE ~ Miss(Sub(h_idx'))
      <3>1. pc' = "chunk" /\ r0' = Chunk
        BY <1>2, <1>4, <2>4, ChunkType DEF FusedChunk
      <3>2. Loaded(FirstRows)
        BY <1>1, <1>2, <1>4, <2>1, <2>4, NoMissLoaded
      <3>3. FirstRows \in SUBSET RowSet
        BY DEF FirstRows
      <3>4. ExpRight'
        BY <1>2, <1>3, <2>1, <3>2, <3>3, LoadedApplied DEF ExpRight
      <3>5. FusedInv'
        BY <1>1, <2>2, <3>1, <3>4, ChunkType DEF FusedInv
      <3> QED BY <1>1, <3>1, <3>5, RowsWithin
    <2> QED BY <2>3, <2>4
  <1>5. CASE r0 > 0
    <2>1. HiddenIs(SetToBag({SharedExpert}))' /\ ExpRight'
      BY <1>2, <1>5, RowsLaterLaunch
    <2>2. r0' > 0
      BY <1>2, <1>5, ChunkType DEF FusedChunk
    <2>3. FusedInv'
      BY <1>1, <2>1, <2>2 DEF FusedInv
    <2> QED BY <1>1, <2>3, RowsWithin
  <1> QED BY <1>2, <1>4, <1>5

\* At the end of a call everything it was asked for is where the device looks.
LEMMA PlacedLoaded ==
  ASSUME PagingInv, PagingInv', LeavePlace,
         NEW e \in Experts, e \in Sub(h_idx)
  PROVE  slot_of'[layer][e] # None /\ slot_gu'[layer][slot_of'[layer][e]] = e
  <1>1. call # NoCall /\ call.todo = {} /\ call' = NoCall /\ UNCHANGED <<h_slot_of, slot_gu>>
    BY DEF LeavePlace, EndPlace
  <1>2. call.layer = layer /\ e \in call.wanted
    BY <1>1 DEF PagingInv, MutexInv
  <1>3. h_slot_of[layer][e] # None
    BY <1>1, <1>2 DEF PagingInv, PoolInv, PlacedStay, Resident
  <1>4. layer \in Layers /\ layer # 0
    BY LayerFacts DEF PagingInv, LeavePlace, InLayer
  <1>5. PoolInv' => DeviceAgrees'
    BY AgreesInPool, PTL
  <1>6. call'.layer # layer
    BY <1>1, <1>4 DEF NoCall
  <1>7. slot_of'[layer][e] = h_slot_of'[layer][e]
        /\ (slot_of'[layer][e] # None => slot_gu'[layer][slot_of'[layer][e]] = e)
    BY <1>4, <1>5, <1>6 DEF PagingInv, DeviceAgrees
  <1> QED BY <1>1, <1>3, <1>7

LEMMA RowsLeavePlace ==
  ASSUME PagingInv, PagingInv', RowsInv, LeavePlace
  PROVE  (RowsInv /\ RowsRight)'
  <1>1. /\ InLayer /\ InLayer' /\ pc = "place" /\ pc' = "chunk" /\ r0' = r0 + Chunk
        /\ UNCHANGED <<setup, layer, rows, logits, h_idx, dev>> /\ Chunk' = Chunk
    BY DEF LeavePlace, InLayer, Chunk
  <1>2. /\ rows \in Nat \ {0} /\ r0 \in Nat /\ PassTypeOK /\ setup \in Setups /\ logits \in Routings
        /\ (r0 = 0 \/ r0 >= Chunk) /\ r0 < rows
    BY <1>1, DevShaped DEF PagingInv, PassTypeOK
  <1>3. RowSet' = RowSet /\ FirstRows' = FirstRows /\ \A t : Routed(t)' = Routed(t)
    BY <1>1 DEF RowSet, FirstRows, Routed
  <1>4. r0' > 0 /\ r0' # 0
    BY <1>1, <1>2, ChunkType
  <1>5. ASSUME r0 = 0, \A t \in FirstRows : h_idx[t] = logits[t] PROVE Loaded(FirstRows)'
    <2>1. ASSUME NEW t \in FirstRows, NEW e \in logits[t]
          PROVE  slot_of'[layer][e] # None /\ slot_gu'[layer][slot_of'[layer][e]] = e
      <3>1. t \in RowSet
        BY DEF FirstRows
      <3>2. e \in Experts
        BY <1>2, <3>1, LogitsFacts
      <3>3. t \in r0 .. r0 + RowCount - 1
        BY <1>2, <1>5, FirstChunkRows, RowCountType
      <3>4. e \in Sub(h_idx)
        BY <1>5, <3>3 DEF Sub
      <3> QED BY <3>2, <3>4, PlacedLoaded
    <2> QED BY <1>1, <1>3, <2>1 DEF Loaded
  <1>6. ASSUME setup.fused PROVE FusedInv'
    <2>1. FusedInv
      BY <1>1, <1>6 DEF RowsInv
    <2>2. HiddenIs(SetToBag({SharedExpert}))'
      BY <1>1, <1>3, <2>1 DEF FusedInv, HiddenIs
    <2>3. queue' = <<RouteFfn(r0, RowCount)>>
      BY <1>1, <1>6, <2>1, ShortQueues DEF LeavePlace, FusedInv, RouteFfn
    <2>4. CASE r0 = 0
      <3>1. Loaded(FirstRows)'
        BY <1>1, <1>5, <2>1, <2>4 DEF FusedInv
      <3>2. RowCount = FirstCount /\ FirstCount' = FirstCount /\ FirstCount \in 0 .. rows
        BY <1>1, <1>2, <2>4, ChunkType DEF RowCount, FirstCount
      <3>3. 0 \in 0 .. rows' /\ FirstCount' \in 0 .. rows'
        BY <1>1, <1>2, <3>2
      <3>4. queue' = <<RouteFfn(0, FirstCount)>>
        BY <2>3, <2>4, <3>2
      <3>5. \E first, rc \in 0 .. rows' :
              queue' = <<RouteFfn(first, rc)>> /\ first = 0 /\ rc = FirstCount' /\ Loaded(FirstRows)'
        BY <3>1, <3>2, <3>3, <3>4
      <3> QED BY <1>1, <1>4, <2>2, <3>5 DEF FusedInv, RouteFfn
    <2>5. CASE r0 > 0
      <3>1. ExpRight'
        BY <1>1, <1>3, <2>1, <2>5 DEF FusedInv, ExpRight
      <3>2. r0 >= Chunk
        BY <1>2, <2>5
      <3>3. r0 \in 0 .. rows' /\ RowCount \in 0 .. rows'
        BY <1>1, <1>2, ChunkType DEF RowCount
      <3>4. \E first, rc \in 0 .. rows' :
              queue' = <<RouteFfn(first, rc)>> /\ first >= Chunk' /\ ExpRight'
        BY <1>1, <2>3, <3>1, <3>2, <3>3
      <3> QED BY <1>1, <1>4, <2>2, <3>4 DEF FusedInv, RouteFfn
    <2> QED BY <1>2, <2>4, <2>5
  <1>7. ASSUME ~ setup.fused, rows <= Chunk PROVE TwoDispatchInv'
    <2>1. TwoDispatchInv /\ r0 = 0
      BY <1>1, <1>7 DEF RowsInv, TwoDispatchInv
    <2> DEFINE base == IF setup.shared THEN <<Shared>> ELSE <<>>
    <2>2. queue = base /\ (~ setup.shared => HiddenIs(EmptyBag)) /\ dev.idx = logits /\ h_idx = logits
      BY <1>1, <2>1 DEF TwoDispatchInv
    <2>3. RowCount = rows
      BY <1>2, <1>7, <2>1, ChunkType DEF RowCount
    <2>4. queue' = Append(base, [op |-> "ffn", rc |-> rows])
      BY <1>7, <2>2, <2>3 DEF LeavePlace
    <2>5. FirstRows = RowSet
      BY <1>2, <1>7, ChunkType DEF FirstRows, RowSet
    <2>6. Loaded(FirstRows)'
      BY <1>5, <2>1, <2>2
    <2>7. Loaded(RowSet)'
      BY <1>3, <2>5, <2>6
    <2>8. ~ setup'.shared => HiddenIs(EmptyBag)'
      BY <1>1, <1>3, <2>2 DEF HiddenIs
    <2> QED BY <1>1, <1>4, <2>2, <2>4, <2>7, <2>8 DEF TwoDispatchInv, Shared
  <1> QED BY <1>1, <1>6, <1>7, RowsWithin

\* What runs after the last chunk of the fused kernel.
LEMMA RowsFusedEnd ==
  ASSUME SharedWhenFused, PassTypeOK, RowsInv, EndChunks, setup.fused
  PROVE  \A t \in FirstRows : dev'.hidden[t] = Expected(t)
  <1>1. InLayer /\ pc = "chunk" /\ r0 >= rows
    BY DEF EndChunks, InLayer
  <1>2. /\ DOMAIN dev = Buffers /\ rows \in Nat \ {0} /\ r0 \in Nat /\ setup \in Setups
        /\ logits \in Routings
    BY <1>1, DevShaped DEF Shaped
  <1>3. HiddenIs(SetToBag({SharedExpert})) /\ setup.shared
    BY <1>1, <1>2 DEF RowsInv, FusedInv, SharedWhenFused
  <1> DEFINE add == [op |-> "add"]
  <1>4. dev' = submit_wait(queue \o <<add>>)
    BY DEF EndChunks, LastCommands
  <1>5. ASSUME NEW d, DOMAIN d = Buffers, d.hidden = dev.hidden, dev' = Kernel(d, add),
               \A t \in FirstRows : d.exp[t] = Routed(t)
        PROVE  \A t \in FirstRows : dev'.hidden[t] = Expected(t)
    <2>1. \A t \in RowSet : dev'.hidden[t] = d.hidden[t] (+) d.exp[t]
      BY <1>5, KernelAdd
    <2>2. \A t \in FirstRows : t \in RowSet
      BY DEF FirstRows
    <2>3. \A t \in FirstRows : dev'.hidden[t] = SetToBag({SharedExpert}) (+) Routed(t)
      BY <1>3, <1>5, <2>1, <2>2 DEF HiddenIs
    <2> QED BY <1>3, <2>3, ExpectedIs
  <1>6. CASE queue = <<>> /\ ExpRight
    <2>1. dev' = Kernel(dev, add)
      BY <1>4, <1>6, ShortQueues, SubmitOne
    <2> QED BY <1>2, <1>5, <1>6, <2>1 DEF ExpRight
  <1>7. ASSUME NEW first \in 0 .. rows, NEW rc \in 0 .. rows, queue = <<RouteFfn(first, rc)>>,
               \/ first = 0 /\ rc = FirstCount /\ Loaded(FirstRows)
               \/ first >= Chunk /\ ExpRight
        PROVE  \A t \in FirstRows : dev'.hidden[t] = Expected(t)
    <2> DEFINE d1 == Kernel(dev, RouteFfn(first, rc))
    <2>1. dev' = Kernel(d1, add)
      <3> HIDE DEF add
      <3>1. PICK x : x = RouteFfn(first, rc)
        OBVIOUS
      <3>2. dev' = submit_wait(<<x, add>>)
        BY <1>4, <1>7, <3>1, ShortQueues
      <3> QED BY <3>1, <3>2, SubmitTwo
    <2>2. /\ DOMAIN d1 = Buffers /\ d1.hidden = dev.hidden
          /\ \A t \in FirstRows : d1.exp[t] = Routed(t)
      BY <1>2, <1>7, PendingLaunch
    <2> HIDE DEF d1
    <2> QED BY <1>5, <2>1, <2>2
  <1>8. r0 > 0
    BY <1>1, <1>2
  <1>9. /\ (queue = <<>> /\ ExpRight)
           \/ \E first, rc \in 0 .. rows :
                /\ queue = <<RouteFfn(first, rc)>>
                /\ \/ first = 0 /\ rc = FirstCount /\ Loaded(FirstRows)
                   \/ first >= Chunk /\ ExpRight
    BY <1>1, <1>8 DEF RowsInv, FusedInv
  <1> QED BY <1>6, <1>7, <1>9

\* What runs after the only chunk of the two dispatches.
LEMMA RowsTwoDispatchEnd ==
  ASSUME PassTypeOK, RowsInv, EndChunks, ~ setup.fused, rows <= Chunk
  PROVE  \A t \in RowSet : dev'.hidden[t] = Expected(t)
  <1>1. InLayer /\ pc = "chunk" /\ r0 >= rows
    BY DEF EndChunks, InLayer
  <1>2. /\ DOMAIN dev = Buffers /\ rows \in Nat \ {0} /\ r0 \in Nat /\ setup \in Setups
        /\ logits \in Routings
    BY <1>1, DevShaped DEF Shaped
  <1>3. r0 > 0
    BY <1>1, <1>2
  <1> DEFINE ffn == [op |-> "ffn", rc |-> rows]
  <1>4. /\ queue = Append(IF setup.shared THEN <<Shared>> ELSE <<>>, ffn)
        /\ ~ setup.shared => HiddenIs(EmptyBag)
        /\ dev.idx = logits /\ Loaded(RowSet)
    BY <1>1, <1>3 DEF RowsInv, TwoDispatchInv
  <1>5. dev' = submit_wait(queue \o <<>>)
    BY DEF EndChunks, LastCommands
  <1>6. ASSUME NEW d, DOMAIN d = Buffers, d.idx = logits, dev' = Kernel(d, ffn)
        PROVE  \A t \in RowSet : dev'.hidden[t] = d.hidden[t] (+) Routed(t)
    <2>1. \A t \in RowSet : t < rows
      BY <1>2 DEF RowSet
    <2>2. \A t \in RowSet : dev'.hidden[t] = IF t < rows THEN d.hidden[t] (+) Applied(d.idx[t])
                                             ELSE d.hidden[t]
      BY <1>6, KernelFfn
    <2>3. \A t \in RowSet : Applied(logits[t]) = Routed(t)
      BY <1>2, <1>4, LoadedApplied
    <2> QED BY <1>6, <2>1, <2>2, <2>3
  <1>7. CASE setup.shared
    <2> DEFINE d1 == Kernel(dev, Shared)
    <2>1. dev' = Kernel(d1, ffn)
      <3> HIDE DEF ffn
      <3>1. dev' = submit_wait(<<Shared, ffn>>)
        BY <1>4, <1>5, <1>7, ShortQueues
      <3> QED BY <3>1, SubmitTwo
    <2>2. DOMAIN d1 = Buffers /\ d1.idx = dev.idx
          /\ d1.hidden = [t \in RowSet |-> SetToBag({SharedExpert})]
      BY <1>2, KernelShared
    <2> HIDE DEF d1, ffn
    <2>3. \A t \in RowSet : dev'.hidden[t] = d1.hidden[t] (+) Routed(t)
      BY <1>4, <1>6, <2>1, <2>2
    <2> QED BY <1>7, <2>2, <2>3, ExpectedIs
  <1>8. CASE ~ setup.shared
    <2>1. dev' = Kernel(dev, ffn)
      <3> HIDE DEF ffn
      <3>1. dev' = submit_wait(<<ffn>>)
        BY <1>4, <1>5, <1>8, ShortQueues
      <3> QED BY <3>1, SubmitOne
    <2>2. \A t \in RowSet : dev'.hidden[t] = dev.hidden[t] (+) Routed(t)
      BY <1>2, <1>4, <1>6, <2>1
    <2> QED BY <1>4, <1>8, <2>2, ExpectedIs DEF HiddenIs
  <1> QED BY <1>7, <1>8

LEMMA RowsEndChunks ==
  ASSUME SharedWhenFused, PassTypeOK, RowsInv, EndChunks
  PROVE  (RowsInv /\ RowsRight)'
  <1>1. /\ pc' = "done" /\ queue' = <<>> /\ InLayer /\ pc = "chunk"
        /\ UNCHANGED <<setup, rows, logits>> /\ Chunk' = Chunk
    BY DEF EndChunks, InLayer, Chunk
  <1>2. RowSet' = RowSet /\ \A t : Expected(t)' = Expected(t)
    BY <1>1 DEF RowSet, Expected
  <1>3. RowsInv'
    BY <1>1 DEF RowsInv, FusedInv, TwoDispatchInv
  <1>4. RowsRight'
    BY <1>1, <1>2, RowsFusedEnd, RowsTwoDispatchEnd DEF RowsRight, FirstRows
  <1> QED BY <1>3, <1>4

\* Every other step leaves the rows alone.
LEMMA RowsStep ==
  ASSUME SharedWhenFused, ForwardInv, [Next]_vars
  PROVE  ForwardInv'
  <1>1. PagingInv /\ PassTypeOK /\ RowsInv /\ RowsRight
    BY DEF ForwardInv, PagingInv
  <1>2. PagingInv'
    BY <1>1, PagingStep
  <1>3. SUFFICES (RowsInv /\ RowsRight)'
    BY <1>2 DEF ForwardInv
  <1>4. ASSUME NEW n \in setup.rows, BeginForward(n) PROVE (RowsInv /\ RowsRight)'
    <2>1. queue = <<>>
      BY <1>1, <1>4 DEF BeginForward, RowsInv, InLayer
    <2> QED BY <1>4, <2>1 DEF BeginForward, RowsInv, RowsRight, InLayer
  <1>5. CASE EndLayer
    <2>1. queue = <<>>
      BY <1>1, <1>5 DEF EndLayer, RowsInv
    <2>2. ~ InLayer' /\ pc' # "done"
      BY <1>5 DEF EndLayer, InLayer
    <2> QED BY <1>5, <2>1, <2>2 DEF EndLayer, RowsInv, RowsRight
  <1>6. CASE StartPrefetch \/ DestroyMutex \/ JoinWorker
    <2>1. ~ InLayer /\ ~ InLayer' /\ pc' # "done" /\ queue' = queue
      BY <1>6 DEF StartPrefetch, DestroyMutex, JoinWorker, InLayer
    <2> QED BY <1>1, <2>1 DEF RowsInv, RowsRight
  <1>7. CASE Worker \/ UNCHANGED vars
    <2>1. UNCHANGED <<forwardVars, slot_of, slot_gu>>
      BY <1>7 DEF Worker, WorkerLock, WorkerDone, vars, poolVars
    <2>2. /\ InLayer' = InLayer /\ Chunk' = Chunk /\ RowSet' = RowSet
          /\ FirstRows' = FirstRows /\ FirstCount' = FirstCount
      BY <2>1 DEF forwardVars, InLayer, Chunk, RowSet, FirstRows, FirstCount
    <2>3. Loaded(FirstRows)' = Loaded(FirstRows) /\ Loaded(RowSet)' = Loaded(RowSet)
          /\ ExpRight' = ExpRight
      BY <2>1, <2>2 DEF forwardVars, Loaded, ExpRight, Routed
    <2>4. FusedInv => FusedInv'
      BY <2>1, <2>2, <2>3 DEF forwardVars, FusedInv, HiddenIs, Shared, RouteFfn
    <2>5. TwoDispatchInv => TwoDispatchInv'
      BY <2>1, <2>2, <2>3 DEF forwardVars, TwoDispatchInv, HiddenIs, Shared
    <2>6. RowsRight'
      BY <1>1, <2>1, <2>2 DEF forwardVars, RowsRight, Expected
    <2> QED BY <1>1, <2>1, <2>2, <2>4, <2>5, <2>6 DEF forwardVars, RowsInv
  <1> QED
    BY <1>1, <1>2, <1>4, <1>5, <1>6, <1>7, RowsAttention, RowsReadRouting, RowsBase,
       RowsFusedChunk, RowsUnfusedChunk, RowsPlaceSteps, RowsLeavePlace, RowsEndChunks
       DEF Next, Forward

\* What the hypothesis of the next theorem says of a model: when its layers use the fused kernel
\* they have a shared expert.  After each sparse layer the rows of the first
\* chunk hold exactly their experts and the shared expert, each once: whichever
\* experts were resident, however often the slots were refilled for later chunks,
\* and whatever was still recorded when they were.  For every number of layers,
\* experts, slots and rows; the two dispatches when the rows fit into one chunk.
THEOREM RowsOfFirstChunk ==
  ASSUME SharedWhenFused
  PROVE  Spec => []RowsRight
  <1>1. Init => ForwardInv
    BY PagingInit DEF Init, ForwardInv, RowsInv, RowsRight, InLayer
  <1>2. ForwardInv /\ [Next]_vars => ForwardInv'
    BY RowsStep
  <1>3. ForwardInv => RowsRight
    BY DEF ForwardInv
  <1> QED BY <1>1, <1>2, <1>3, PTL DEF Spec
=============================================================================

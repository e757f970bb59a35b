--------------------------- MODULE CapTable_proofs ---------------------------
(***************************************************************************)
(* What the table operations of CapTable preserve, for every table size,   *)
(* generation width and permission alphabet.                               *)
(***************************************************************************)
EXTENDS CapTable, LeastNat_proofs

(* alloc_slot() returns a free slot whenever there is one.                 *)
LEMMA FirstFreeIsFree ==
  ASSUME NEW ct, FreeSlots(ct) # {}
  PROVE  FirstFree(ct) \in FreeSlots(ct)
<1>1. FreeSlots(ct) \in SUBSET Nat
  BY MaxCapsAssumption DEF FreeSlots, Slots
<1>2. \E s \in FreeSlots(ct) : \A t \in FreeSlots(ct) : s <= t
  BY <1>1, LeastExists
<1> QED BY <1>2 DEF FirstFree

LEMMA SlotsFinite == IsFiniteSet(Slots)
  BY FS_Interval, MaxCapsAssumption DEF Slots

(* cap_ids of different slots differ, and none is CAP_ID_INVALID.          *)
LEMMA HandlesDiffer ==
  ASSUME NEW ct, NEW s \in Slots, NEW t \in Slots
  PROVE  /\ HandleOf(ct, s) # CAP_ID_INVALID
         /\ HandleOf(ct, s) = HandleOf(ct, t) => s = t
  BY MaxCapsAssumption DEF HandleOf, make_cap_id, CAP_ID_INVALID, Slots

-----------------------------------------------------------------------------
(* Allocation.                                                             *)

LEMMA MintFacts ==
  ASSUME NEW ct, NEW c, FreeSlots(ct) # {}, TableShape(ct)
  PROVE  LET f == FirstFree(ct)
             n == Mint(ct, c)
         IN  /\ f \in Slots /\ f \notin InUse(ct)
             /\ InUse(n) = InUse(ct) \cup {f}
             /\ n.cap[f] = c
             /\ \A t \in InUse(ct) : n.cap[t] = ct.cap[t]
             /\ n.generation = ct.generation
             /\ n.hwm = (IF f + 1 > ct.hwm THEN f + 1 ELSE ct.hwm)
             /\ n.active = ct.active + 1
<1>1. FirstFree(ct) \in Slots /\ FirstFree(ct) \notin InUse(ct)
  BY FirstFreeIsFree DEF FreeSlots
<1> QED BY <1>1 DEF Mint, InUse

LEMMA MintShape ==
  ASSUME NEW ct, NEW c, FreeSlots(ct) # {}, TableShape(ct)
  PROVE  TableShape(Mint(ct, c))
<1> DEFINE f == FirstFree(ct)
           n == Mint(ct, c)
<1>1. /\ f \in Slots /\ InUse(n) = InUse(ct) \cup {f}
      /\ n.generation = ct.generation
      /\ n.hwm = (IF f + 1 > ct.hwm THEN f + 1 ELSE ct.hwm)
      /\ n.active = ct.active + 1
  BY MintFacts
<1>2. n = [cap |-> n.cap, generation |-> n.generation, hwm |-> n.hwm, active |-> n.active]
  BY DEF Mint
<1>3. f + 1 \in 0 .. MaxCaps
  BY <1>1, MaxCapsAssumption DEF Slots
<1> HIDE DEF f, n
<1> QED BY <1>1, <1>2, <1>3 DEF TableShape, n

LEMMA MintBounds ==
  ASSUME NEW ct, NEW c, FreeSlots(ct) # {}, TableShape(ct), ExactBounds(ct)
  PROVE  ExactBounds(Mint(ct, c))
<1> DEFINE f == FirstFree(ct)
           n == Mint(ct, c)
<1>1. /\ f \in Slots /\ f \notin InUse(ct) /\ InUse(n) = InUse(ct) \cup {f}
      /\ n.hwm = (IF f + 1 > ct.hwm THEN f + 1 ELSE ct.hwm)
      /\ n.active = ct.active + 1
  BY MintFacts
<1> HIDE DEF f, n
<1>2. Cardinality(InUse(n)) = Cardinality(InUse(ct)) + 1
  <2>1. IsFiniteSet(InUse(ct))
    BY SlotsFinite, FS_Subset DEF TableShape
  <2> QED BY <1>1, <2>1, FS_AddElement
<1>3. ASSUME NEW s \in InUse(n) PROVE s < n.hwm
  BY <1>1, MaxCapsAssumption DEF ExactBounds, TableShape, Slots
<1> QED BY <1>1, <1>2, <1>3 DEF ExactBounds, n

(* The relations between the capabilities that were there do not change,   *)
(* and none of them is a child of the new one.                             *)
LEMMA MintKeepsChildren ==
  ASSUME NEW ct, NEW c, FreeSlots(ct) # {}, TableShape(ct), SoundDerivations(ct)
  PROVE  LET f == FirstFree(ct)
             n == Mint(ct, c)
         IN  /\ \A t, p \in InUse(ct) : IsChildOf(n, t, p) <=> IsChildOf(ct, t, p)
             /\ \A p \in InUse(ct) : IsChildOf(n, f, p) <=> c.parent = HandleOf(ct, p)
             /\ \A t \in InUse(ct) : ~ IsChildOf(n, t, f)
             /\ Derived(n) \ {f} = Derived(ct)
             /\ f \in Derived(n) <=> c.parent # CAP_ID_INVALID
<1> DEFINE f == FirstFree(ct)
           n == Mint(ct, c)
<1>1. /\ f \in Slots /\ f \notin InUse(ct) /\ InUse(n) = InUse(ct) \cup {f}
      /\ n.cap[f] = c
      /\ \A t \in InUse(ct) : n.cap[t] = ct.cap[t]
      /\ n.generation = ct.generation
  BY MintFacts
<1> HIDE DEF f, n
<1>2. \A s : HandleOf(n, s) = HandleOf(ct, s)
  BY <1>1 DEF HandleOf
<1>3. \A t, p \in InUse(ct) : IsChildOf(n, t, p) <=> IsChildOf(ct, t, p)
  BY <1>1, <1>2 DEF IsChildOf
<1>4. \A p \in InUse(ct) : IsChildOf(n, f, p) <=> c.parent = HandleOf(ct, p)
  BY <1>1, <1>2 DEF IsChildOf
<1>5. ASSUME NEW t \in InUse(ct) PROVE ~ IsChildOf(n, t, f)
  <2> SUFFICES ASSUME ct.cap[t].parent = HandleOf(ct, f) PROVE FALSE
    BY <1>1, <1>2 DEF IsChildOf
  <2>1. t \in Derived(ct)
    BY <1>1, HandlesDiffer DEF Derived
  <2>2. PICK p \in InUse(ct) : ct.cap[t].parent = HandleOf(ct, p)
    BY <2>1 DEF SoundDerivations, IsChildOf
  <2> QED BY <1>1, <2>2, HandlesDiffer DEF TableShape
<1>6. Derived(n) \ {f} = Derived(ct)
  BY <1>1 DEF Derived
<1>7. f \in Derived(n) <=> c.parent # CAP_ID_INVALID
  BY <1>1 DEF Derived
<1> QED BY <1>3, <1>4, <1>5, <1>6, <1>7 DEF f, n

(* What a new capability must satisfy for the table to stay sound: it is a *)
(* root, or no wider than the capability in use that it names as parent.   *)
Admissible(ct, c) ==
  \/ c.parent = CAP_ID_INVALID
  \/ \E p \in InUse(ct) : c.parent = HandleOf(ct, p) /\ Narrower(c, ct.cap[p])

LEMMA MintSound ==
  ASSUME NEW ct, NEW c, FreeSlots(ct) # {}, TableShape(ct), SoundDerivations(ct),
         Admissible(ct, c)
  PROVE  SoundDerivations(Mint(ct, c))
<1> DEFINE f == FirstFree(ct)
           n == Mint(ct, c)
<1>1. /\ f \in Slots /\ f \notin InUse(ct) /\ InUse(n) = InUse(ct) \cup {f}
      /\ n.cap[f] = c
      /\ \A t \in InUse(ct) : n.cap[t] = ct.cap[t]
  BY MintFacts
<1>2. /\ \A t, p \in InUse(ct) : IsChildOf(n, t, p) <=> IsChildOf(ct, t, p)
      /\ \A p \in InUse(ct) : IsChildOf(n, f, p) <=> c.parent = HandleOf(ct, p)
      /\ Derived(n) \ {f} = Derived(ct)
      /\ f \in Derived(n) <=> c.parent # CAP_ID_INVALID
  BY MintKeepsChildren
<1> HIDE DEF f, n
<1> SUFFICES ASSUME NEW s \in Derived(n)
             PROVE  \E p \in InUse(n) : IsChildOf(n, s, p) /\ Narrower(n.cap[s], n.cap[p])
  BY DEF SoundDerivations, n
<1>3. CASE s = f
  <2>1. PICK p \in InUse(ct) : c.parent = HandleOf(ct, p) /\ Narrower(c, ct.cap[p])
    BY <1>2, <1>3 DEF Admissible
  <2> QED BY <1>1, <1>2, <1>3, <2>1
<1>4. CASE s # f
  <2>1. s \in Derived(ct) /\ s \in InUse(ct)
    BY <1>2, <1>4 DEF Derived
  <2>2. PICK p \in InUse(ct) : IsChildOf(ct, s, p) /\ Narrower(ct.cap[s], ct.cap[p])
    BY <2>1 DEF SoundDerivations
  <2> QED BY <1>1, <1>2, <2>1, <2>2
<1> QED BY <1>3, <1>4

LEMMA MintAcyclic ==
  ASSUME NEW ct, NEW c, FreeSlots(ct) # {}, TableShape(ct), SoundDerivations(ct),
         NoDerivationCycle(ct), Admissible(ct, c)
  PROVE  NoDerivationCycle(Mint(ct, c))
<1> DEFINE f == FirstFree(ct)
           n == Mint(ct, c)
<1>1. /\ f \in Slots /\ f \notin InUse(ct) /\ InUse(n) = InUse(ct) \cup {f}
      /\ n.cap[f] = c /\ n.generation = ct.generation
  BY MintFacts
<1>2. /\ \A t, p \in InUse(ct) : IsChildOf(n, t, p) <=> IsChildOf(ct, t, p)
      /\ \A t \in InUse(ct) : ~ IsChildOf(n, t, f)
      /\ Derived(n) \ {f} = Derived(ct)
      /\ f \in Derived(n) <=> c.parent # CAP_ID_INVALID
  BY MintKeepsChildren
<1> HIDE DEF f, n
<1>3. f \in Derived(n) => ~ IsChildOf(n, f, f)
  <2> SUFFICES ASSUME f \in Derived(n) PROVE c.parent # HandleOf(ct, f)
    BY <1>1 DEF IsChildOf, HandleOf
  <2>1. PICK p \in InUse(ct) : c.parent = HandleOf(ct, p)
    BY <1>2 DEF Admissible
  <2> QED BY <1>1, <2>1, HandlesDiffer DEF TableShape
<1> SUFFICES ASSUME NEW S \in SUBSET Derived(n), S # {}
             PROVE  \E s \in S : \A p \in S : ~ IsChildOf(n, s, p)
  BY DEF NoDerivationCycle, n
<1>4. CASE S = {f}
  BY <1>3, <1>4
<1>5. CASE S # {f}
  <2>1. S \ {f} \in SUBSET Derived(ct) /\ S \ {f} # {}
    BY <1>2, <1>5
  <2>2. PICK s \in S \ {f} : \A p \in S \ {f} : ~ IsChildOf(ct, s, p)
    BY <2>1 DEF NoDerivationCycle
  <2>3. S \ {f} \subseteq InUse(ct)
    BY <2>1 DEF Derived
  <2> QED BY <1>2, <2>2, <2>3
<1> QED BY <1>4, <1>5

-----------------------------------------------------------------------------
(* Release.                                                                *)

LEMMA CascadeInUse ==
  ASSUME NEW ct, NEW S \in SUBSET InUse(ct)
  PROVE  Cascade(ct, S) \subseteq InUse(ct)
  BY DEF Cascade, Descendants, Derived

(* A cascade leaves no child behind.                                       *)
LEMMA CascadeHoldsChildren ==
  ASSUME NEW ct, NEW S, NEW s \in Derived(ct), NEW p \in Cascade(ct, S),
         IsChildOf(ct, s, p)
  PROVE  s \in Cascade(ct, S)
<1>1. ASSUME NEW R \in SUBSET Derived(ct), HoldsChildren(ct, S, R) PROVE s \in R
  <2>1. p \in S \cup R
    BY <1>1 DEF Cascade, Descendants
  <2> QED BY <1>1, <2>1 DEF HoldsChildren
<1> QED BY <1>1 DEF Cascade, Descendants

LEMMA FreeFacts ==
  ASSUME NEW ct, NEW F \in SUBSET InUse(ct), TableShape(ct)
  PROVE  LET n == Free(ct, F)
         IN  /\ InUse(n) = InUse(ct) \ F
             /\ \A t \in InUse(n) : n.cap[t] = ct.cap[t]
             /\ \A t \in Slots \ F : n.generation[t] = ct.generation[t]
             /\ \A t \in F : n.generation[t] = (ct.generation[t] + 1) % GenMod
             /\ n.hwm = ct.hwm
             /\ n.active = ct.active - Cardinality(F)
  BY DEF Free, InUse, TableShape

LEMMA FreeBounds ==
  ASSUME NEW ct, NEW F \in SUBSET InUse(ct), TableShape(ct), ExactBounds(ct)
  PROVE  ExactBounds(Free(ct, F))
<1> DEFINE n == Free(ct, F)
<1>1. /\ InUse(n) = InUse(ct) \ F
      /\ n.hwm = ct.hwm /\ n.active = ct.active - Cardinality(F)
  BY FreeFacts
<1>2. IsFiniteSet(InUse(ct))
  BY SlotsFinite, FS_Subset DEF TableShape
<1>3. Cardinality(InUse(ct) \ F) = Cardinality(InUse(ct)) - Cardinality(F)
  <2>1. InUse(ct) \cap F = F
    OBVIOUS
  <2> QED BY <1>2, <2>1, FS_Difference
<1> HIDE DEF n
<1> QED BY <1>1, <1>3 DEF ExactBounds, n

LEMMA FreeShape ==
  ASSUME NEW ct, NEW F \in SUBSET InUse(ct), TableShape(ct), ExactBounds(ct)
  PROVE  TableShape(Free(ct, F))
<1> DEFINE n == Free(ct, F)
<1>1. n = [cap |-> n.cap, generation |-> n.generation, hwm |-> n.hwm, active |-> n.active]
  BY DEF Free
<1>2. InUse(n) = InUse(ct) \ F /\ n.hwm = ct.hwm
  BY FreeFacts
<1>3. n.generation \in [Slots -> Generations]
  <2>1. \A g \in Generations : (g + 1) % GenMod \in Generations
    BY GenModAssumption DEF Generations
  <2>2. ct.generation \in [Slots -> Generations]
    BY DEF TableShape
  <2>3. n.generation = [t \in Slots |->
                     IF t \in F THEN (ct.generation[t] + 1) % GenMod
                                ELSE ct.generation[t]]
    BY DEF Free
  <2> HIDE DEF n
  <2> QED BY <2>1, <2>2, <2>3
<1>4. n.active \in Nat
  <2>1. ExactBounds(n)
    BY FreeBounds
  <2>2. IsFiniteSet(InUse(n))
    BY SlotsFinite, FS_Subset, <1>2 DEF TableShape
  <2> HIDE DEF n
  <2> QED BY <2>1, <2>2, FS_CardinalityType DEF ExactBounds
<1> HIDE DEF n
<1> QED BY <1>1, <1>2, <1>3, <1>4 DEF TableShape, n

(* The survivors of a cascade are related as before.                       *)
LEMMA FreeKeepsChildren ==
  ASSUME NEW ct, NEW F \in SUBSET InUse(ct), TableShape(ct)
  PROVE  LET n == Free(ct, F)
         IN  /\ \A t, p \in InUse(n) : IsChildOf(n, t, p) <=> IsChildOf(ct, t, p)
             /\ Derived(n) = Derived(ct) \ F
<1> DEFINE n == Free(ct, F)
<1>1. /\ InUse(n) = InUse(ct) \ F
      /\ \A t \in InUse(n) : n.cap[t] = ct.cap[t]
      /\ \A t \in Slots \ F : n.generation[t] = ct.generation[t]
  BY FreeFacts
<1> HIDE DEF n
<1>2. \A p \in InUse(n) : HandleOf(n, p) = HandleOf(ct, p)
  BY <1>1 DEF HandleOf, TableShape
<1>3. \A t, p \in InUse(n) : IsChildOf(n, t, p) <=> IsChildOf(ct, t, p)
  BY <1>1, <1>2 DEF IsChildOf
<1>4. Derived(n) = Derived(ct) \ F
  BY <1>1 DEF Derived
<1> QED BY <1>3, <1>4 DEF n

LEMMA FreeCascadeSound ==
  ASSUME NEW ct, NEW S \in SUBSET InUse(ct), TableShape(ct), SoundDerivations(ct)
  PROVE  SoundDerivations(Free(ct, Cascade(ct, S)))
<1> DEFINE F == Cascade(ct, S)
           n == Free(ct, F)
<1>0. F \in SUBSET InUse(ct)
  BY CascadeInUse
<1>1. /\ InUse(n) = InUse(ct) \ F
      /\ \A t \in InUse(n) : n.cap[t] = ct.cap[t]
  BY <1>0, FreeFacts
<1>2. /\ \A t, p \in InUse(n) : IsChildOf(n, t, p) <=> IsChildOf(ct, t, p)
      /\ Derived(n) = Derived(ct) \ F
  BY <1>0, FreeKeepsChildren
<1>3. \A s \in Derived(ct), p \in F : IsChildOf(ct, s, p) => s \in F
  BY CascadeHoldsChildren
<1> HIDE DEF F, n
<1> SUFFICES ASSUME NEW s \in Derived(n)
             PROVE  \E p \in InUse(n) : IsChildOf(n, s, p) /\ Narrower(n.cap[s], n.cap[p])
  BY DEF SoundDerivations, n, F
<1>4. s \in Derived(ct) /\ s \notin F /\ s \in InUse(n)
  BY <1>1, <1>2 DEF Derived
<1>5. PICK p \in InUse(ct) : IsChildOf(ct, s, p) /\ Narrower(ct.cap[s], ct.cap[p])
  BY <1>4 DEF SoundDerivations
<1>6. p \in InUse(n)
  BY <1>1, <1>3, <1>4, <1>5
<1> QED BY <1>1, <1>2, <1>4, <1>5, <1>6

LEMMA FreeAcyclic ==
  ASSUME NEW ct, NEW F \in SUBSET InUse(ct), TableShape(ct), NoDerivationCycle(ct)
  PROVE  NoDerivationCycle(Free(ct, F))
<1> DEFINE n == Free(ct, F)
<1>1. /\ \A t, p \in InUse(n) : IsChildOf(n, t, p) <=> IsChildOf(ct, t, p)
      /\ Derived(n) = Derived(ct) \ F
  BY FreeKeepsChildren
<1> HIDE DEF n
<1> SUFFICES ASSUME NEW S \in SUBSET Derived(n), S # {}
             PROVE  \E s \in S : \A p \in S : ~ IsChildOf(n, s, p)
  BY DEF NoDerivationCycle, n
<1>2. PICK s \in S : \A p \in S : ~ IsChildOf(ct, s, p)
  BY <1>1 DEF NoDerivationCycle
<1>3. S \subseteq InUse(n)
  BY DEF Derived
<1> QED BY <1>1, <1>2, <1>3

-----------------------------------------------------------------------------
(* All of it together, for the two ways a table changes.                   *)
SoundTable(ct) ==
  /\ TableShape(ct)
  /\ ExactBounds(ct)
  /\ SoundDerivations(ct)
  /\ NoDerivationCycle(ct)

(* Minting a root capability, or a child no wider than its parent, keeps   *)
(* the table sound (cap_create, cap_derive).                               *)
THEOREM MintKeepsTableSound ==
  ASSUME NEW ct, NEW c, FreeSlots(ct) # {}, SoundTable(ct), Admissible(ct, c)
  PROVE  SoundTable(Mint(ct, c))
  BY MintShape, MintBounds, MintSound, MintAcyclic DEF SoundTable

(* Freeing any set of capabilities together with all that was derived from *)
(* them keeps the table sound (cap_revoke and the two death sweeps).       *)
THEOREM RevokeKeepsTableSound ==
  ASSUME NEW ct, NEW S \in SUBSET InUse(ct), SoundTable(ct)
  PROVE  SoundTable(Free(ct, Cascade(ct, S)))
<1>1. Cascade(ct, S) \in SUBSET InUse(ct)
  BY CascadeInUse
<1> QED BY <1>1, FreeShape, FreeBounds, FreeCascadeSound, FreeAcyclic DEF SoundTable

(* The table at boot.                                                      *)
LEMMA EmptyTableSound == InUse(EmptyTable) = {} /\ SoundTable(EmptyTable)
<1>1. PICK t : t = EmptyTable
  OBVIOUS
<1>2. /\ InUse(t) = {} /\ t.generation = [s \in Slots |-> 0]
      /\ t.hwm = 0 /\ t.active = 0 /\ t.cap = [s \in {} |-> 0]
  BY <1>1 DEF EmptyTable, InUse
<1>3. TableShape(t)
  <2>1. 0 \in Generations
    BY GenModAssumption DEF Generations
  <2>2. t = [cap |-> t.cap, generation |-> t.generation, hwm |-> t.hwm, active |-> t.active]
    BY <1>1 DEF EmptyTable
  <2> QED BY <1>2, <2>1, <2>2, MaxCapsAssumption DEF TableShape
<1>4. ExactBounds(t)
  BY <1>2, FS_EmptySet DEF ExactBounds
<1>5. Derived(t) = {}
  BY <1>2 DEF Derived
<1>6. SoundDerivations(t) /\ NoDerivationCycle(t)
  BY <1>5 DEF SoundDerivations, NoDerivationCycle
<1> QED BY <1>1, <1>2, <1>3, <1>4, <1>6 DEF SoundTable
=============================================================================

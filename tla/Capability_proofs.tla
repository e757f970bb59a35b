-------------------------- MODULE Capability_proofs --------------------------
(***************************************************************************)
(* The safety of the capability API, for every number of slots, processes, *)
(* resources and generations.  CapTable_proofs shows what one mint and one *)
(* cascade preserve; here they are put together with the callers' checks   *)
(* and with the history of issued ids.                                     *)
(*                                                                         *)
(* In the second half, what capabilities on the regions of the field       *)
(* guard (Field.tla), for any regions, slots, patterns, citizens and       *)
(* energies: a region that is granted again shows nobody a predecessor's   *)
(* patterns, energies stay within bounds, and recalls are ranked.          *)
(***************************************************************************)
EXTENDS Capability, Field, CapTable_proofs, SequenceTheorems
(* Why a stale id fails: an id issued for a slot carries either an older   *)
(* generation than the slot has now, or the current one while the          *)
(* capability it was issued for is still there.                            *)
IdsOfSlotAge(t, ids) ==
  \A h \in ids, s \in Slots :
    h.id[1] = s + 1 =>
      \/ h.id[2] < t.generation[s]
      \/ h.id[2] = t.generation[s] /\ s \in InUse(t) /\ t.cap[s] = h.cap

IInv == /\ TypeOK
        /\ SoundTable(ct)
        /\ ~ wrapped => IdsOfSlotAge(ct, issued)

-----------------------------------------------------------------------------
LEMMA MintTyped ==
  ASSUME NEW c \in Capabilities, FreeSlots(ct) # {}, TypeOK
  PROVE  Mint(ct, c).cap \in [InUse(Mint(ct, c)) -> Capabilities]
<1> DEFINE f == FirstFree(ct)
           n == Mint(ct, c)
<1>1. n.cap = [t \in InUse(ct) \cup {f} |-> IF t = f THEN c ELSE ct.cap[t]]
  BY DEF Mint
<1>2. InUse(n) = InUse(ct) \cup {f}
  BY <1>1 DEF InUse
<1>3. ct.cap \in [InUse(ct) -> Capabilities]
  BY DEF TypeOK
<1> HIDE DEF f, n
<1> QED BY <1>1, <1>2, <1>3 DEF n

LEMMA FreeTyped ==
  ASSUME NEW t, NEW F, t.cap \in [InUse(t) -> Capabilities]
  PROVE  Free(t, F).cap \in [InUse(Free(t, F)) -> Capabilities]
<1>1. Free(t, F).cap = [x \in InUse(t) \ F |-> t.cap[x]]
  BY DEF Free
<1>2. InUse(Free(t, F)) = InUse(t) \ F
  BY <1>1 DEF InUse
<1> QED BY <1>1, <1>2

LEMMA MintIds ==
  ASSUME NEW t, NEW c, NEW ids, FreeSlots(t) # {}, TableShape(t), IdsOfSlotAge(t, ids)
  PROVE  IdsOfSlotAge(Mint(t, c),
                      ids \cup {[id |-> HandleOf(t, FirstFree(t)), cap |-> c]})
<1> DEFINE f == FirstFree(t)
           n == Mint(t, c)
           k == [id |-> HandleOf(t, f), cap |-> c]
<1>1. /\ f \in Slots /\ f \notin InUse(t) /\ InUse(n) = InUse(t) \cup {f}
      /\ n.cap[f] = c
      /\ \A s \in InUse(t) : n.cap[s] = t.cap[s]
      /\ n.generation = t.generation
  BY MintFacts
<1>2. k.id = <<f + 1, t.generation[f]>> /\ k.cap = c
  BY DEF HandleOf, make_cap_id
<1> HIDE DEF f, n, k
<1>3. Slots \subseteq Nat
  BY MaxCapsAssumption DEF Slots
<1> SUFFICES ASSUME NEW h \in ids \cup {k}, NEW s \in Slots, h.id[1] = s + 1
             PROVE  \/ h.id[2] < n.generation[s]
                    \/ h.id[2] = n.generation[s] /\ s \in InUse(n) /\ n.cap[s] = h.cap
  BY DEF IdsOfSlotAge, f, n, k
<1>4. CASE h \in ids
  BY <1>1, <1>4 DEF IdsOfSlotAge
<1>5. CASE h = k
  <2>1. s = f
    BY <1>1, <1>2, <1>3, <1>5
  <2> QED BY <1>1, <1>2, <1>5, <2>1
<1> QED BY <1>4, <1>5

LEMMA FreeIds ==
  ASSUME NEW t, NEW F \in SUBSET InUse(t), NEW ids, TableShape(t),
         IdsOfSlotAge(t, ids),
         \A s \in F : t.generation[s] # GenMod - 1,
         \A h \in ids : h.id[2] \in Nat
  PROVE  IdsOfSlotAge(Free(t, F), ids)
<1> DEFINE n == Free(t, F)
<1>1. /\ InUse(n) = InUse(t) \ F
      /\ \A s \in InUse(n) : n.cap[s] = t.cap[s]
      /\ \A s \in Slots \ F : n.generation[s] = t.generation[s]
      /\ \A s \in F : n.generation[s] = (t.generation[s] + 1) % GenMod
  BY FreeFacts
<1>2. \A s \in Slots : t.generation[s] \in 0 .. (GenMod - 1)
  BY DEF TableShape, Generations
<1>3. \A s \in F : n.generation[s] = t.generation[s] + 1
  <2> SUFFICES ASSUME NEW s \in F PROVE (t.generation[s] + 1) % GenMod = t.generation[s] + 1
    BY <1>1
  <2>1. t.generation[s] + 1 \in 0 .. (GenMod - 1)
    BY <1>2, GenModAssumption DEF TableShape
  <2> QED BY <2>1, GenModAssumption
<1> HIDE DEF n
<1> SUFFICES ASSUME NEW h \in ids, NEW s \in Slots, h.id[1] = s + 1
             PROVE  \/ h.id[2] < n.generation[s]
                    \/ h.id[2] = n.generation[s] /\ s \in InUse(n) /\ n.cap[s] = h.cap
  BY DEF IdsOfSlotAge, n
<1>4. \/ h.id[2] < t.generation[s]
      \/ h.id[2] = t.generation[s] /\ s \in InUse(t) /\ t.cap[s] = h.cap
  BY DEF IdsOfSlotAge
<1>5. CASE s \in F
  BY <1>2, <1>3, <1>4, <1>5
<1>6. CASE s \notin F
  BY <1>1, <1>4, <1>6
<1> QED BY <1>5, <1>6

-----------------------------------------------------------------------------
(* Every state the API reaches satisfies the inductive invariant.          *)

LEMMA InitInv == Init => IInv
<1> SUFFICES ASSUME Init PROVE IInv
  OBVIOUS
<1>1. InUse(ct) = {} /\ SoundTable(ct)
  BY EmptyTableSound DEF Init
<1>2. TypeOK
  <2>1. ct.cap \in [InUse(ct) -> Capabilities]
    BY <1>1 DEF Init, EmptyTable, InUse
  <2> QED BY <1>1, <2>1 DEF TypeOK, Init, SoundTable
<1>3. IdsOfSlotAge(ct, issued)
  BY DEF Init, IdsOfSlotAge
<1> QED BY <1>1, <1>2, <1>3 DEF IInv

(* A mint of an admissible capability, with its history.                   *)
LEMMA AllocatesInv ==
  ASSUME IInv, NEW c \in Capabilities, Admissible(ct, c), Allocates(c), ct' = Mint(ct, c)
  PROVE  IInv'
<1>1. FreeSlots(ct) # {} /\ TableShape(ct) /\ SoundTable(ct)
  BY DEF IInv, Allocates, SoundTable
<1>2. SoundTable(ct')
  BY <1>1, MintKeepsTableSound
<1>3. TypeOK'
  <2>1. ct'.cap \in [InUse(ct') -> Capabilities]
    BY <1>1, MintTyped DEF IInv
  <2>2. TableShape(ct')
    BY <1>2 DEF SoundTable
  <2>3. [id |-> HandleOf(ct, FirstFree(ct)), cap |-> c] \in [id : Handles, cap : Capabilities]
    <3>1. FirstFree(ct) \in Slots /\ ct.generation[FirstFree(ct)] \in Generations
      BY <1>1, MintFacts DEF TableShape
    <3> QED BY <3>1 DEF HandleOf, Handles
  <2> QED BY <2>1, <2>2, <2>3 DEF IInv, TypeOK, Allocates
<1>4. ~ wrapped' => IdsOfSlotAge(ct', issued')
  BY <1>1, MintIds DEF IInv, Allocates
<1> QED BY <1>2, <1>3, <1>4 DEF IInv

(* The generation half of an issued id is a number.                        *)
LEMMA IdNumbers ==
  ASSUME TypeOK, NEW h \in issued
  PROVE  h.id[2] \in Nat
<1>1. PICK s \in Slots, g \in Generations : h.id = make_cap_id(s, g)
  BY DEF TypeOK, Handles
<1> QED BY <1>1, GenModAssumption DEF make_cap_id, Generations

LEMMA CreateInv ==
  ASSUME IInv, NEW o \in Pids, NEW r \in Resources, NEW ps \in PermWords,
         NEW e \in Expirations, CapCreate(o, r, ps, e)
  PROVE  IInv'
<1> DEFINE c == Root(o, r, ps, e)
<1>1. c \in Capabilities
  BY PermWordsAssumption, ExpirationsAssumption DEF Root, Capabilities
<1>2. Admissible(ct, c)
  BY DEF Admissible, Root
<1>3. Allocates(c)
  BY DEF CapCreate
<1>4. ct' = Mint(ct, c)
  BY <1>3 DEF CapCreate, cap_create, Allocates
<1> HIDE DEF c
<1> QED BY <1>1, <1>2, <1>3, <1>4, AllocatesInv

LEMMA DeriveInv ==
  ASSUME IInv, NEW id, NEW q \in Pids, NEW o \in Pids, NEW ps \in PermWords,
         NEW e \in Expirations, CapDerive(id, q, o, ps, e)
  PROVE  IInv'
<1>1. PICK p \in resolve(ct, id) :
        /\ MayDerive(ct, p, q, ps, now)
        /\ Allocates(Child(ct, p, o, ps, e))
        /\ ct' = cap_derive(ct, p, q, o, ps, e, now)
  BY DEF CapDerive
<1> DEFINE c == Child(ct, p, o, ps, e)
<1>2. p \in InUse(ct) /\ p \in Slots /\ ct.cap[p] \in Capabilities
  BY DEF resolve, IInv, TypeOK, TableShape
<1>3. c.parent = HandleOf(ct, p) /\ HandleOf(ct, p) \in Handles
  <2>1. ct.generation[p] \in Generations
    BY <1>2 DEF IInv, TypeOK, TableShape
  <2> QED BY <1>2, <2>1 DEF Child, HandleOf, Handles
<1>4. /\ ct.cap[p].expiration \in Nat
      /\ ct.cap[p].res \in Resources
      /\ e \in Nat
  BY <1>2, ExpirationsAssumption DEF Capabilities
<1>5. /\ ClampExpiration(e, ct.cap[p].expiration) \in Nat
      /\ ct.cap[p].expiration # 0 =>
           /\ ClampExpiration(e, ct.cap[p].expiration) # 0
           /\ ClampExpiration(e, ct.cap[p].expiration) <= ct.cap[p].expiration
  BY <1>4 DEF ClampExpiration
<1>6. c \in Capabilities
  BY <1>3, <1>4, <1>5, PermWordsAssumption DEF Child, Capabilities
<1>7. Admissible(ct, c)
  <2>1. Narrower(c, ct.cap[p])
    BY <1>1, <1>5 DEF Narrower, Child, MayDerive
  <2> QED BY <1>2, <1>3, <2>1 DEF Admissible
<1>8. ct' = Mint(ct, c)
  BY <1>1 DEF cap_derive, Allocates
<1> HIDE DEF c
<1> QED BY <1>1, <1>6, <1>7, <1>8, AllocatesInv DEF c

LEMMA RevokeInv ==
  ASSUME IInv, NEW id, NEW q \in Pids, CapRevoke(id, q)
  PROVE  IInv'
<1>1. PICK s \in resolve(ct, id) :
        /\ MayRevoke(ct, s, q)
        /\ ct' = cap_revoke(ct, s, q)
        /\ Releases(Cascade(ct, {s}))
  BY DEF CapRevoke
<1> DEFINE F == Cascade(ct, {s})
<1>2. {s} \in SUBSET InUse(ct) /\ ct' = Free(ct, F)
  BY <1>1 DEF resolve, cap_revoke
<1>3. F \in SUBSET InUse(ct)
  BY <1>2, CascadeInUse
<1>4. SoundTable(ct')
  BY <1>2, RevokeKeepsTableSound DEF IInv
<1>5. TypeOK'
  <2>1. ct'.cap \in [InUse(ct') -> Capabilities]
    BY <1>2, FreeTyped DEF IInv, TypeOK
  <2>2. TableShape(ct')
    BY <1>4 DEF SoundTable
  <2> QED BY <1>1, <2>1, <2>2 DEF IInv, TypeOK, Releases
<1>6. ~ wrapped' => IdsOfSlotAge(ct', issued')
  <2> SUFFICES ASSUME ~ wrapped' PROVE IdsOfSlotAge(ct', issued')
    OBVIOUS
  <2>1. ~ wrapped /\ issued' = issued /\ \A t \in F : ct.generation[t] # GenMod - 1
    BY <1>1 DEF Releases
  <2>2. \A h \in issued : h.id[2] \in Nat
    BY IdNumbers DEF IInv
  <2>3. TableShape(ct) /\ IdsOfSlotAge(ct, issued)
    BY <2>1 DEF IInv, TypeOK
  <2> HIDE DEF F
  <2> QED BY <1>2, <1>3, <2>1, <2>2, <2>3, FreeIds
<1> QED BY <1>4, <1>5, <1>6 DEF IInv

LEMMA DiesInv ==
  ASSUME IInv, NEW pid \in Pids, ProcessDies(pid)
  PROVE  IInv'
<1> DEFINE S1 == OwnedBy(ct, {pid})
           F1 == Cascade(ct, S1)
           t1 == cap_revoke_all_for_process(ct, {pid})
           S2 == IpcNaming(t1, {pid})
           F2 == Cascade(t1, S2)
<1>1. t1 = Free(ct, F1) /\ ct' = Free(t1, F2) /\ Releases(F1 \cup F2)
  BY DEF ProcessDies, cap_revoke_all_for_process, cap_revoke_ipc_targets
<1>2. S1 \in SUBSET InUse(ct) /\ S2 \in SUBSET InUse(t1)
  BY DEF OwnedBy, IpcNaming
<1>3. F1 \in SUBSET InUse(ct) /\ F2 \in SUBSET InUse(t1)
  <2>1. F1 \in SUBSET InUse(ct)
    BY <1>2, CascadeInUse
  <2>2. F2 \in SUBSET InUse(t1)
    BY <1>2, CascadeInUse
  <2> QED BY <2>1, <2>2
<1>4. SoundTable(t1)
  <2> HIDE DEF S1, t1
  <2>1. SoundTable(Free(ct, Cascade(ct, S1)))
    BY <1>2, RevokeKeepsTableSound DEF IInv
  <2> QED BY <1>1, <2>1
<1> HIDE DEF t1
<1>5. SoundTable(ct')
  <2> HIDE DEF S2
  <2>1. SoundTable(Free(t1, Cascade(t1, S2)))
    BY <1>2, <1>4, RevokeKeepsTableSound
  <2> QED BY <1>1, <2>1
<1> HIDE DEF S1, S2, F1, F2
<1>6. TypeOK'
  <2>1. t1.cap \in [InUse(t1) -> Capabilities]
    BY <1>1, FreeTyped DEF IInv, TypeOK
  <2>2. ct'.cap \in [InUse(ct') -> Capabilities]
    BY <1>1, <2>1, FreeTyped
  <2>3. TableShape(ct')
    BY <1>5 DEF SoundTable
  <2> QED BY <1>1, <2>2, <2>3 DEF IInv, TypeOK, Releases
<1>7. ~ wrapped' => IdsOfSlotAge(ct', issued')
  <2> SUFFICES ASSUME ~ wrapped' PROVE IdsOfSlotAge(ct', issued')
    OBVIOUS
  <2>1. ~ wrapped /\ issued' = issued /\ \A t \in F1 \cup F2 : ct.generation[t] # GenMod - 1
    BY <1>1 DEF Releases
  <2>2. \A h \in issued : h.id[2] \in Nat
    BY IdNumbers DEF IInv
  <2>3. TableShape(ct) /\ IdsOfSlotAge(ct, issued)
    BY <2>1 DEF IInv, TypeOK
  <2>4. IdsOfSlotAge(t1, issued)
    BY <1>1, <1>3, <2>1, <2>2, <2>3, FreeIds
  <2>5. \A t \in F2 : t1.generation[t] # GenMod - 1
    <3>1. InUse(t1) = InUse(ct) \ F1 /\ \A t \in Slots \ F1 : t1.generation[t] = ct.generation[t]
      BY <1>1, <1>3, <2>3, FreeFacts
    <3> QED BY <1>3, <2>1, <2>3, <3>1 DEF TableShape
  <2>6. TableShape(t1)
    BY <1>4 DEF SoundTable
  <2> QED BY <1>1, <1>3, <2>1, <2>2, <2>4, <2>5, <2>6, FreeIds
<1> QED BY <1>5, <1>6, <1>7 DEF IInv

LEMMA StepInv == IInv /\ [Next]_vars => IInv'
<1> SUFFICES ASSUME IInv, [Next]_vars PROVE IInv'
  OBVIOUS
<1>1. CASE Tick
  <2>1. ct' = ct /\ mints' = mints /\ issued' = issued /\ wrapped' = wrapped
    BY <1>1 DEF Tick
  <2>2. TypeOK'
    BY <1>1, <2>1 DEF IInv, TypeOK, Tick
  <2> QED BY <2>1, <2>2 DEF IInv
<1>2. ASSUME NEW o \in Pids, NEW r \in Resources, NEW ps \in PermWords,
             NEW e \in Expirations, CapCreate(o, r, ps, e)
      PROVE  IInv'
  BY <1>2, CreateInv
<1>3. ASSUME NEW h \in issued, NEW q \in Pids, NEW o \in Pids, NEW ps \in PermWords,
             NEW e \in Expirations, CapDerive(h.id, q, o, ps, e)
      PROVE  IInv'
  BY <1>3, DeriveInv
<1>4. ASSUME NEW h \in issued, NEW q \in Pids, CapRevoke(h.id, q)
      PROVE  IInv'
  BY <1>4, RevokeInv
<1>5. ASSUME NEW p \in Pids, ProcessDies(p)
      PROVE  IInv'
  BY <1>5, DiesInv
<1>6. CASE UNCHANGED vars
  <2>1. ct' = ct /\ issued' = issued /\ wrapped' = wrapped
    BY <1>6 DEF vars
  <2>2. TypeOK'
    BY <1>6, <2>1 DEF IInv, TypeOK, vars
  <2> QED BY <2>1, <2>2 DEF IInv
<1> QED BY <1>1, <1>2, <1>3, <1>4, <1>5, <1>6 DEF Next

LEMMA AlwaysIInv == Spec => []IInv
  BY InitInv, StepInv, PTL DEF Spec

-----------------------------------------------------------------------------
(* The state of the capability system always has its type, in particular   *)
(* cap_hwm stays within the table and generations within their 16 bits.    *)
THEOREM TypeCorrect == Spec => []TypeOK
<1>1. IInv => TypeOK
  BY DEF IInv
<1> QED BY <1>1, AlwaysIInv, PTL

(* Least privilege along every derivation and no dangling child, however   *)
(* creations, derivations, revocations and deaths interleave.              *)
THEOREM LeastPrivilege == Spec => []DerivationSound
<1>1. IInv => DerivationSound
  BY DEF IInv, SoundTable, DerivationSound
<1> QED BY <1>1, AlwaysIInv, PTL

(* The recursion of revoke_children_of and the ancestor walk of cap_revoke *)
(* never meet a cycle.                                                     *)
THEOREM NoCycles == Spec => []RevocationEnds
<1>1. IInv => RevocationEnds
  BY DEF IInv, SoundTable, RevocationEnds
<1> QED BY <1>1, AlwaysIInv, PTL

(* Scanning [0, cap_hwm) misses no capability and stats.active is exact.   *)
THEOREM ScanIsComplete == Spec => []BoundsExact
<1>1. IInv => BoundsExact
  BY DEF IInv, SoundTable, BoundsExact
<1> QED BY <1>1, AlwaysIInv, PTL

(* Until a generation wraps, an id resolves only to the capability it was  *)
(* issued for.                                                             *)
THEOREM NoAliasing == Spec => []StaleIdsFail
<1>1. IInv => StaleIdsFail
  <2> SUFFICES ASSUME IInv, ~ wrapped, NEW h \in issued, NEW s \in resolve(ct, h.id)
               PROVE  ct.cap[s] = h.cap
    BY DEF StaleIdsFail
  <2>1. s \in InUse(ct) /\ s \in Slots /\ h.id = <<s + 1, ct.generation[s]>>
    BY DEF resolve, HandleOf, make_cap_id, IInv, TypeOK, TableShape
  <2>2. h.id[1] = s + 1 /\ h.id[2] = ct.generation[s] /\ ct.generation[s] \in Nat
    BY <2>1, GenModAssumption DEF IInv, TypeOK, TableShape, Generations
  <2> QED BY <2>1, <2>2 DEF IInv, IdsOfSlotAge
<1> QED BY <1>1, AlwaysIInv, PTL
(* What every check and every sweep relies on, for tables of every size.   *)
THEOREM CapabilitiesAreSound == Spec => []CapabilitiesSound
  BY LeastPrivilege, NoCycles, ScanIsComplete, PTL DEF CapabilitiesSound
-----------------------------------------------------------------------------
(* A larger set has the larger cascade, and so has a larger table: what a  *)
(* cascade frees once others are gone it would have freed before, too.     *)
LEMMA CascadeMonotone ==
  ASSUME NEW t, NEW S, NEW R, S \subseteq R
  PROVE  Cascade(t, S) \subseteq Cascade(t, R)
<1>1. \A X : HoldsChildren(t, R, X) => HoldsChildren(t, S, X)
  BY DEF HoldsChildren
<1> QED
  BY <1>1 DEF Cascade, Descendants

LEMMA CascadeAfterFree ==
  ASSUME NEW t, NEW F \in SUBSET InUse(t), TableShape(t),
         NEW S \in SUBSET InUse(Free(t, F))
  PROVE  Cascade(Free(t, F), S) \subseteq Cascade(t, S)
<1> DEFINE n == Free(t, F)
<1>1. /\ \A x, p \in InUse(n) : IsChildOf(n, x, p) <=> IsChildOf(t, x, p)
      /\ Derived(n) \subseteq Derived(t) /\ Derived(n) \subseteq InUse(n)
  BY FreeKeepsChildren DEF Derived
<1> HIDE DEF n
<1>2. S \in SUBSET InUse(n)
  BY DEF n
<1>3. ASSUME NEW X \in SUBSET Derived(t), HoldsChildren(t, S, X)
      PROVE  HoldsChildren(n, S, X \cap Derived(n))
  BY <1>1, <1>2, <1>3 DEF HoldsChildren
<1>4. Descendants(n, S) \subseteq Descendants(t, S)
  <2> SUFFICES ASSUME NEW x \in Descendants(n, S), NEW X \in SUBSET Derived(t),
                      HoldsChildren(t, S, X)
               PROVE  x \in X
    BY <1>1 DEF Descendants
  <2>1. X \cap Derived(n) \in SUBSET Derived(n)
    OBVIOUS
  <2> QED
    BY <1>3, <2>1 DEF Descendants
<1> QED
  BY <1>4 DEF Cascade, n

(* The two sweeps of a death leave nothing of the dead process and take    *)
(* nothing that does not descend from it.                                  *)
LEMMA DiesExactly ==
  ASSUME IInv, NEW pid \in Pids, ProcessDies(pid)
  PROVE  DeathStep(pid)
<1> DEFINE S1 == OwnedBy(ct, {pid})
           F1 == Cascade(ct, S1)
           t1 == cap_revoke_all_for_process(ct, {pid})
           S2 == IpcNaming(t1, {pid})
           F2 == Cascade(t1, S2)
           A  == OwnedBy(ct, {pid}) \cup IpcNaming(ct, {pid})
<1>1. t1 = Free(ct, F1) /\ ct' = Free(t1, F2)
  BY DEF ProcessDies, cap_revoke_all_for_process, cap_revoke_ipc_targets
<1>2. S1 \in SUBSET InUse(ct) /\ F1 \in SUBSET InUse(ct) /\ TableShape(ct) /\ S1 \subseteq F1
  BY CascadeInUse DEF OwnedBy, IInv, TypeOK, Cascade
<1>3. TableShape(t1)
  <2>1. ExactBounds(ct)
    BY DEF IInv, SoundTable
  <2> QED
    BY <1>1, <1>2, <2>1, FreeShape
<1>4. S2 \in SUBSET InUse(t1) /\ F2 \in SUBSET InUse(t1) /\ S2 \subseteq F2
  <2>1. S2 \in SUBSET InUse(t1)
    BY DEF IpcNaming
  <2> QED
    BY <2>1, CascadeInUse DEF Cascade
<1> HIDE DEF t1, F1, F2
<1>5. InUse(t1) = InUse(ct) \ F1 /\ \A x \in InUse(t1) : t1.cap[x] = ct.cap[x]
  BY <1>1, <1>2, FreeFacts
<1>6. InUse(ct') = InUse(t1) \ F2 /\ \A x \in InUse(ct') : ct'.cap[x] = t1.cap[x]
  BY <1>1, <1>3, <1>4, FreeFacts
<1>7. OwnedBy(ct', {pid}) = {}
  BY <1>2, <1>5, <1>6 DEF OwnedBy
<1>8. IpcNaming(ct', {pid}) = {}
  BY <1>4, <1>5, <1>6 DEF IpcNaming
<1>9. F1 \subseteq Cascade(ct, A)
  <2>1. S1 \subseteq A
    OBVIOUS
  <2> QED
    BY <2>1, CascadeMonotone DEF F1
<1>10. F2 \subseteq Cascade(ct, A)
  <2>1. S2 \subseteq A
    BY <1>5 DEF IpcNaming
  <2> HIDE DEF S2, A
  <2>2. Cascade(t1, S2) \subseteq Cascade(ct, S2)
    BY <1>1, <1>2, <1>4, CascadeAfterFree
  <2>3. Cascade(ct, S2) \subseteq Cascade(ct, A)
    BY <2>1, CascadeMonotone
  <2> QED
    BY <2>2, <2>3 DEF F2
<1> QED
  BY <1>5, <1>6, <1>7, <1>8, <1>9, <1>10 DEF DeathStep

(* A death takes exactly what it must, however the dead process's          *)
(* authority was delegated on (cap_revoke_all_for_process,                 *)
(* cap_revoke_ipc_targets).                                                *)
THEOREM DeathsAreExact == Spec => DeathIsExact
<1>1. IInv /\ [Next]_vars => [\A p \in Pids : ProcessDies(p) => DeathStep(p)]_vars
  BY DiesExactly
<1> QED
  BY <1>1, AlwaysIInv, PTL DEF Spec, DeathIsExact
-----------------------------------------------------------------------------
(* The holographic field.                                                  *)

(* A function defined by recursion along a range exists.                   *)
Iterates(g, n, S, a, T) ==
  g \in [0 .. n -> S] /\ g[0] = a /\ \A k \in 1 .. n : g[k] = T[k][g[k - 1]]
LEMMA Recursion ==
  ASSUME NEW n \in Nat, NEW S, NEW a \in S, NEW T \in [1 .. n -> [S -> S]]
  PROVE  \E g : Iterates(g, n, S, a, T)
<1> DEFINE B == {m \in 0 .. n : \E g \in [0 .. m -> S] :
                   g[0] = a /\ \A k \in 1 .. m : g[k] = T[k][g[k - 1]]}
<1>1. 0 \in B
  <2>1. PICK g : g = [k \in 0 .. 0 |-> a]
    OBVIOUS
  <2>2. g \in [0 .. 0 -> S] /\ g[0] = a
    BY <2>1
  <2>3. 0 \in 0 .. n /\ 1 .. 0 = {}
    OBVIOUS
  <2>4. \A k \in 1 .. 0 : g[k] = T[k][g[k - 1]]
    BY <2>3
  <2> QED BY <2>2, <2>3, <2>4
<1>2. ASSUME NEW i \in 1 .. n, i - 1 \in B PROVE i \in B
  <2>1. PICK g \in [0 .. i - 1 -> S] : g[0] = a /\ \A k \in 1 .. i - 1 : g[k] = T[k][g[k - 1]]
    BY <1>2
  <2>2. PICK h : h = [k \in 0 .. i |-> IF k = i THEN T[i][g[i - 1]] ELSE g[k]]
    OBVIOUS
  <2>3. g[i - 1] \in S /\ T[i][g[i - 1]] \in S
    BY <2>1
  <2>4. h \in [0 .. i -> S]
    <3>1. \A k \in 0 .. i : k # i => k \in 0 .. i - 1
      OBVIOUS
    <3> QED BY <2>1, <2>2, <2>3, <3>1
  <2>5. h[0] = a
    BY <2>1, <2>2
  <2>6. \A k \in 1 .. i : h[k] = T[k][h[k - 1]]
    <3> TAKE k \in 1 .. i
    <3>1. k \in 0 .. i /\ k - 1 \in 0 .. i /\ k - 1 # i
      OBVIOUS
    <3>2. h[k - 1] = g[k - 1]
      BY <2>2, <3>1
    <3>3. CASE k = i
      BY <2>2, <3>1, <3>2, <3>3
    <3>4. CASE k # i
      <4>1. k \in 1 .. i - 1
        BY <3>4
      <4> QED BY <2>1, <2>2, <3>1, <3>2, <3>4, <4>1
    <3> QED BY <3>3, <3>4
  <2>7. i \in 0 .. n
    OBVIOUS
  <2> QED BY <2>4, <2>5, <2>6, <2>7
<1>3. \A i \in 0 .. n : i \in B
  <2> HIDE DEF B
  <2> QED BY <1>1, <1>2, LoopInduction
<1>4. n \in B
  BY <1>3
<1> QED BY <1>4 DEF Iterates

(* The least of a set of naturals is one of them.                          *)
LEMMA FirstIs ==
  ASSUME NEW S \in SUBSET Nat, S # {}
  PROVE  First(S) \in S
BY LeastExists DEF First

(* A stretch of integers has a greatest one.                               *)
LEMMA GreatestOf ==
  ASSUME NEW a \in Nat, NEW m \in Nat, a <= m, NEW f, \A x \in a .. m : f[x] \in Int
  PROVE  \E b \in a .. m : \A x \in a .. m : f[x] <= f[b]
<1> DEFINE B == {d \in 0 .. m - a : \E b \in a .. a + d : \A x \in a .. a + d : f[x] <= f[b]}
<1>1. 0 \in B
  <2>1. a \in a .. a + 0 /\ (\A x \in a .. a + 0 : x = a) /\ 0 \in 0 .. m - a /\ f[a] \in Int
    OBVIOUS
  <2>2. \A x \in a .. a + 0 : f[x] <= f[a]
    BY <2>1
  <2> QED BY <2>1, <2>2
<1>2. ASSUME NEW i \in 1 .. m - a, i - 1 \in B PROVE i \in B
  <2>1. PICK z \in Nat : z = a + i
    OBVIOUS
  <2>2. z \in a .. m /\ a + (i - 1) = z - 1 /\ i \in 0 .. m - a
    BY <2>1
  <2>3. PICK b \in a .. z - 1 : \A x \in a .. z - 1 : f[x] <= f[b]
    BY <1>2, <2>2
  <2>4. b \in a .. z /\ z \in a .. z /\ f[b] \in Int /\ f[z] \in Int /\ b \in a .. m
    BY <2>2
  <2>5. \A x \in a .. z : x = z \/ (x \in a .. z - 1)
    BY <2>2
  <2>6. CASE f[z] <= f[b]
    <3>1. \A x \in a .. z : f[x] <= f[b]
      BY <2>3, <2>5, <2>6
    <3> QED BY <2>1, <2>2, <2>4, <3>1
  <2>7. CASE f[b] <= f[z]
    <3>1. \A x \in a .. z - 1 : f[x] \in Int
      BY <2>2
    <3>2. \A x \in a .. z : f[x] <= f[z]
      BY <2>3, <2>4, <2>5, <2>7, <3>1
    <3> QED BY <2>1, <2>2, <2>4, <3>2
  <2> QED BY <2>4, <2>6, <2>7
<1>3. \A i \in 0 .. m - a : i \in B
  <2>1. m - a \in Nat
    OBVIOUS
  <2> HIDE DEF B
  <2> QED BY <1>1, <1>2, <2>1, LoopInduction
<1>4. PICK d \in 0 .. m - a : d = m - a /\ a + d = m
  OBVIOUS
<1>5. d \in B
  BY <1>3
<1> QED BY <1>4, <1>5

(* Sums, roots, wavefronts and similarities are integers.                  *)
Sums(f, g, n) == g = [i \in 0 .. n |-> IF i = 0 THEN 0 ELSE g[i - 1] + f[i]]
LEMMA SumIsInt ==
  ASSUME NEW n \in Nat, NEW f, \A i \in 1 .. n : f[i] \in Int
  PROVE  SumOf(f, n) \in Int
<1>1. PICK T : T = [k \in 1 .. n |-> [s \in Int |-> s + f[k]]]
  OBVIOUS
<1>2. T \in [1 .. n -> [Int -> Int]]
  BY <1>1
<1>3. PICK g \in [0 .. n -> Int] : g[0] = 0 /\ \A k \in 1 .. n : g[k] = T[k][g[k - 1]]
  <2>1. PICK z, S : S = Int /\ z = 0
    OBVIOUS
  <2>2. z \in S /\ T \in [1 .. n -> [S -> S]]
    BY <1>2, <2>1
  <2>3. PICK g : Iterates(g, n, S, z, T)
    BY <2>2, Recursion
  <2> QED BY <2>1, <2>3 DEF Iterates
<1>4. \A k \in 1 .. n : g[k] = g[k - 1] + f[k]
  <2>1. \A k \in 1 .. n : k - 1 \in 0 .. n
    OBVIOUS
  <2> QED BY <1>1, <1>3, <2>1
<1>5. Sums(f, g, n)
  <2>1. \A i \in 0 .. n : g[i] = IF i = 0 THEN 0 ELSE g[i - 1] + f[i]
    <3>1. \A i \in 0 .. n : i # 0 => i \in 1 .. n
      OBVIOUS
    <3> QED BY <1>3, <1>4, <3>1
  <2> QED BY <1>3, <2>1 DEF Sums
<1>6. PICK h : h = CHOOSE u : Sums(f, u, n)
  OBVIOUS
<1>7. Sums(f, h, n)
  BY <1>5, <1>6
<1>8. SumOf(f, n) = h[n]
  BY <1>6 DEF SumOf, Sums
<1>9. \A i \in 0 .. n : h[i] = IF i = 0 THEN 0 ELSE h[i - 1] + f[i]
  BY <1>7 DEF Sums
<1> DEFINE B == {i \in 0 .. n : h[i] \in Int}
<1>10. 0 \in B
  BY <1>9
<1>11. ASSUME NEW i \in 1 .. n, i - 1 \in B PROVE i \in B
  <2>1. i \in 0 .. n /\ i # 0
    OBVIOUS
  <2>2. h[i - 1] \in Int /\ f[i] \in Int
    BY <1>11
  <2>3. h[i] = h[i - 1] + f[i]
    BY <1>9, <2>1
  <2>4. h[i] \in Int
    BY <2>2, <2>3
  <2> QED BY <2>1, <2>4
<1>12. \A i \in 0 .. n : i \in B
  <2> HIDE DEF B
  <2> QED BY <1>10, <1>11, LoopInduction
<1> QED BY <1>8, <1>12

Roots == [x : Int, root : Nat, bit : Nat]
RootStep(a) ==
  IF a.x >= a.root + a.bit
  THEN [x |-> a.x - (a.root + a.bit), root |-> a.root \div 2 + a.bit, bit |-> a.bit \div 4]
  ELSE [x |-> a.x, root |-> a.root \div 2, bit |-> a.bit \div 4]
RootSteps(x, g) ==
  g = [k \in 0 .. 14 |-> IF k = 0 THEN [x |-> x, root |-> 0, bit |-> TopBit] ELSE RootStep(g[k - 1])]
LEMMA RootStepIs == \A a \in Roots : RootStep(a) \in Roots
<1> SUFFICES ASSUME NEW a \in Roots PROVE RootStep(a) \in Roots
  OBVIOUS
<1>1. PICK x \in Int, r \in Nat, b \in Nat : x = a.x /\ r = a.root /\ b = a.bit
  BY DEF Roots
<1>2. r \div 2 \in Nat /\ b \div 4 \in Nat /\ r \div 2 + b \in Nat /\ x - (r + b) \in Int
  OBVIOUS
<1> QED BY <1>1, <1>2 DEF RootStep, Roots

LEMMA RootIsNat ==
  ASSUME NEW x \in Int
  PROVE  isqrt_u64(x) \in Nat
<1>1. PICK T : T = [k \in 1 .. 14 |-> [s \in Roots |-> RootStep(s)]]
  OBVIOUS
<1>2. T \in [1 .. 14 -> [Roots -> Roots]]
  BY <1>1, RootStepIs
<1>3. PICK a : a = [x |-> x, root |-> 0, bit |-> TopBit]
  OBVIOUS
<1>4. a \in Roots /\ 14 \in Nat
  <2>1. TopBit \in Nat
    BY SMT DEF TopBit
  <2> QED BY <1>3, <2>1 DEF Roots
<1>5. PICK g \in [0 .. 14 -> Roots] : g[0] = a /\ \A k \in 1 .. 14 : g[k] = T[k][g[k - 1]]
  <2>1. PICK n \in Nat : n = 14
    OBVIOUS
  <2>2. T \in [1 .. n -> [Roots -> Roots]]
    BY <1>2, <2>1
  <2>3. PICK g : Iterates(g, n, Roots, a, T)
    BY <1>4, <2>2, Recursion
  <2> QED BY <2>1, <2>3 DEF Iterates
<1>6. \A k \in 1 .. 14 : g[k] = RootStep(g[k - 1])
  <2>1. \A k \in 1 .. 14 : k - 1 \in 0 .. 14
    OBVIOUS
  <2> QED BY <1>1, <1>5, <2>1
<1>7. RootSteps(x, g)
  <2>1. \A i \in 0 .. 14 : g[i] = IF i = 0 THEN a ELSE RootStep(g[i - 1])
    <3>1. \A i \in 0 .. 14 : i # 0 => i \in 1 .. 14
      OBVIOUS
    <3> QED BY <1>5, <1>6, <3>1
  <2> QED BY <1>3, <1>5, <2>1 DEF RootSteps
<1>8. PICK h : h = CHOOSE u : RootSteps(x, u)
  OBVIOUS
<1>9. RootSteps(x, h)
  BY <1>7, <1>8
<1>10. isqrt_u64(x) = h[14].root
  BY <1>8 DEF isqrt_u64, RootSteps, RootStep
<1>11. \A i \in 0 .. 14 : h[i] = IF i = 0 THEN a ELSE RootStep(h[i - 1])
  BY <1>3, <1>9 DEF RootSteps
<1> DEFINE B == {i \in 0 .. 14 : h[i] \in Roots}
<1>12. 0 \in B
  BY <1>4, <1>11
<1>13. ASSUME NEW i \in 1 .. 14, i - 1 \in B PROVE i \in B
  <2>1. i \in 0 .. 14 /\ i # 0
    OBVIOUS
  <2> QED BY <1>11, <1>13, <2>1, RootStepIs
<1>14. \A i \in 0 .. 14 : i \in B
  <2> HIDE DEF B
  <2> QED BY <1>4, <1>12, <1>13, LoopInduction
<1> QED BY <1>10, <1>14 DEF Roots

LEMMA ClampIsInt ==
  ASSUME NEW x \in Int, NEW lo \in Int, NEW hi \in Int
  PROVE  Clamp(x, lo, hi) \in Int /\ (lo <= hi => Clamp(x, lo, hi) \in lo .. hi)
BY DEF Clamp

Waves(p) == Wavefronts[p] = <<>> \/ Wavefronts[p] \in [1 .. Len(p) -> Int]
LEMMA WavesAre ==
  ASSUME NEW p \in Patterns
  PROVE  Waves(p) /\ Len(p) \in Nat \ {0}
<1>1. PICK n \in Nat \ {0} : n = Len(p) /\ p \in [1 .. n -> 0 .. 255]
  <2>1. FIELD_PAT_MAX \in Nat \ {0}
    BY FieldConstants
  <2>2. PICK n : n = Len(p)
    OBVIOUS
  <2>3. n \in 1 .. FIELD_PAT_MAX /\ p \in [1 .. n -> 0 .. 255]
    BY <2>2, FieldConstants, Zenon
  <2>4. n \in Nat \ {0}
    BY <2>1, <2>3
  <2> QED BY <2>2, <2>3, <2>4
<1>2. SumOf(p, n) \in Int /\ \A i \in 1 .. n : p[i] \in Int
  <2>1. \A i \in 1 .. n : p[i] \in Int
    <3>1. PICK D : D = 0 .. 255
      OBVIOUS
    <3>2. \A i \in 1 .. n : p[i] \in D
      BY <1>1, <3>1, Zenon
    <3>3. D \subseteq Int
      BY <3>1
    <3> QED BY <3>2, <3>3
  <2> QED BY <2>1, SumIsInt
<1>3. PICK mean \in Int : mean = (SumOf(p, n) * 256) \div n
  <2>1. PICK s \in Int : s = SumOf(p, n)
    BY <1>2
  <2>2. (s * 256) \div n \in Int
    OBVIOUS
  <2> QED BY <2>1, <2>2
<1>4. PICK c : c = [i \in 1 .. n |-> p[i] * 256 - mean]
  OBVIOUS
<1>5. c \in [1 .. n -> Int]
  <2>1. \A i \in 1 .. n : p[i] \in Int /\ p[i] * 256 - mean \in Int
    <3>1. \A i \in 1 .. n : p[i] \in Int
      BY <1>2
    <3>2. \A d \in Int : d * 256 - mean \in Int
      OBVIOUS
    <3> QED BY <3>1, <3>2
  <2> QED BY <1>4, <2>1
<1>6. PICK sq : sq = [i \in 1 .. n |-> c[i] * c[i]]
  OBVIOUS
<1>7. SumOf(sq, n) \in Int
  <2>1. \A i \in 1 .. n : c[i] * c[i] \in Int
    BY <1>5
  <2>2. \A i \in 1 .. n : sq[i] \in Int
    BY <1>6, <2>1
  <2> QED BY <2>2, SumIsInt
<1>8. PICK mag \in Nat : mag = isqrt_u64(SumOf(sq, n))
  BY <1>7, RootIsNat
<1>9. wavefront(p) = IF mag = 0 THEN <<>>
                     ELSE [i \in 1 .. n |-> Clamp(Quot(c[i] * 32767, mag), -32767, 32767)]
  BY <1>1, <1>3, <1>4, <1>6, <1>8 DEF wavefront
<1>10. ASSUME mag # 0, NEW i \in 1 .. n
       PROVE  Clamp(Quot(c[i] * 32767, mag), -32767, 32767) \in Int
  <2>1. PICK y \in Int : y = c[i] * 32767
    BY <1>5
  <2>2. Quot(y, mag) \in Int
    BY <1>10 DEF Quot
  <2>3. -32767 \in Int /\ 32767 \in Int
    OBVIOUS
  <2> QED BY <2>1, <2>2, <2>3, ClampIsInt
<1>11. wavefront(p) = <<>> \/ wavefront(p) \in [1 .. n -> Int]
  BY <1>9, <1>10
<1> QED BY <1>1, <1>11 DEF Waves, Wavefronts

LEMMA SimilarityIsInt ==
  ASSUME NEW p \in Resonant, NEW q \in Resonant
  PROVE  Similarity[p][q] \in Int
<1>1. PICK n \in Nat, m \in Nat : n = Len(p) /\ m = Len(q)
  BY WavesAre DEF Resonant
<1>2. PICK a \in [1 .. n -> Int], b \in [1 .. m -> Int] : a = Wavefronts[p] /\ b = Wavefronts[q]
  BY <1>1, WavesAre DEF Resonant, Degenerate, Waves
<1>3. Len(a) = n /\ Len(b) = m
  OBVIOUS
<1>4. PICK l \in Nat : l <= n /\ l <= m /\ l = IF Len(a) < Len(b) THEN Len(a) ELSE Len(b)
  BY <1>3
<1>5. PICK f : f = [i \in 1 .. l |-> a[i] * b[i]]
  OBVIOUS
<1>6. SumOf(f, l) \in Int
  <2>1. \A i \in 1 .. l : i \in 1 .. n /\ i \in 1 .. m
    BY <1>4
  <2>2. \A i \in 1 .. l : a[i] * b[i] \in Int
    BY <2>1
  <2>3. \A i \in 1 .. l : f[i] \in Int
    BY <1>5, <2>2
  <2> QED BY <2>3, SumIsInt
<1>7. PICK x \in Int : x = SumOf(f, l) \div 32768
  BY <1>6
<1>8. cosine_q15(a, b) = Clamp(x, -32767, 32767)
  BY <1>4, <1>5, <1>7 DEF cosine_q15
<1>9. -32767 \in Int /\ 32767 \in Int
  OBVIOUS
<1>10. Similarity[p][q] = cosine_q15(a, b)
  <2>1. Similarity[p][q] = cosine_q15(Wavefronts[p], Wavefronts[q])
    BY DEF Similarity
  <2> QED BY <1>2, <2>1
<1>11. Clamp(x, -32767, 32767) \in Int
  BY <1>9, ClampIsInt
<1> QED BY <1>8, <1>10, <1>11

(* The live slots, gathered.                                               *)
Gathers(r, g) ==
  g = [i \in 0 .. FIELD_SLOTS |->
         IF i = 0 THEN <<>> ELSE IF slot[r][i].alive THEN Append(g[i - 1], i) ELSE g[i - 1]]
Covers1(f, m, r, i) ==
  /\ f \in [1 .. m -> Places]
  /\ \A x \in 1 .. m : f[x] \in 1 .. i /\ slot[r][f[x]].alive
  /\ \A j \in 1 .. i : slot[r][j].alive => \E x \in 1 .. m : f[x] = j
LEMMA CoversMore ==
  ASSUME NEW r, NEW i \in 1 .. FIELD_SLOTS, NEW m \in Nat, NEW f, Covers1(f, m, r, i - 1)
  PROVE  \E g : \E l \in Nat :
           /\ g = (IF slot[r][i].alive THEN Append(f, i) ELSE f)
           /\ Covers1(g, l, r, i)
<1>1. FIELD_SLOTS \in Nat \ {0} /\ i \in Places /\ i \in Nat
  BY FieldConstants DEF Places
<1>2. f \in [1 .. m -> Places] /\ Len(f) = m
  BY DEF Covers1
<1>3. \A j \in 1 .. i : j = i \/ j \in 1 .. i - 1
  BY <1>1
<1>4. \A j \in 1 .. i - 1 : j \in 1 .. i
  BY <1>1
<1>5. CASE slot[r][i].alive
  <2>1. PICK g : g = Append(f, i)
    OBVIOUS
  <2>2. PICK l \in Nat : l = m + 1
    OBVIOUS
  <2>3. g \in [1 .. l -> Places] /\ (\A x \in 1 .. m : g[x] = f[x]) /\ g[l] = i
    <3>1. f \in Seq(Places)
      BY <1>2
    <3>2. g \in Seq(Places) /\ Len(g) = m + 1 /\ g[m + 1] = i
      BY <1>1, <1>2, <2>1, <3>1
    <3>3. \A x \in 1 .. m : g[x] = f[x]
      BY <1>1, <1>2, <2>1, <3>1
    <3> QED BY <2>2, <3>2, <3>3
  <2>4. \A x \in 1 .. l : x = l \/ x \in 1 .. m
    BY <2>2
  <2>5. l \in 1 .. l /\ \A x \in 1 .. m : x \in 1 .. l
    BY <2>2
  <2>6. \A x \in 1 .. l : g[x] \in 1 .. i /\ slot[r][g[x]].alive
    <3>1. \A x \in 1 .. m : f[x] \in 1 .. i - 1 /\ slot[r][f[x]].alive
      BY DEF Covers1
    <3>2. i \in 1 .. i
      BY <1>1
    <3> QED BY <1>4, <1>5, <2>3, <2>4, <3>1, <3>2
  <2>7. \A j \in 1 .. i : slot[r][j].alive => \E x \in 1 .. l : g[x] = j
    <3>1. \A j \in 1 .. i - 1 : slot[r][j].alive => \E x \in 1 .. m : f[x] = j
      BY DEF Covers1
    <3> QED BY <1>3, <2>3, <2>5, <3>1
  <2>8. Covers1(g, l, r, i)
    BY <2>3, <2>6, <2>7 DEF Covers1
  <2>9. g = (IF slot[r][i].alive THEN Append(f, i) ELSE f)
    BY <1>5, <2>1
  <2> QED BY <2>8, <2>9
<1>6. CASE ~slot[r][i].alive
  <2>1. Covers1(f, m, r, i)
    BY <1>2, <1>3, <1>4, <1>6 DEF Covers1
  <2> QED BY <1>6, <2>1
<1> QED BY <1>5, <1>6

LEMMA LiveIs ==
  ASSUME NEW r
  PROVE  \E m \in Nat : Covers1(Live(r), m, r, FIELD_SLOTS)
<1>1. PICK N \in Nat \ {0} : N = FIELD_SLOTS
  BY FieldConstants
<1>2. PICK S : S = Seq(Places)
  OBVIOUS
<1>3. PICK T : T = [k \in 1 .. N |-> [s \in S |-> IF slot[r][k].alive THEN Append(s, k) ELSE s]]
  OBVIOUS
<1>4. T \in [1 .. N -> [S -> S]]
  <2>1. ASSUME NEW k \in 1 .. N, NEW s \in S PROVE Append(s, k) \in S
    <3>1. k \in Places
      BY <1>1 DEF Places
    <3> QED BY <1>2, <3>1
  <2> QED BY <1>3, <2>1
<1>5. PICK e : e = <<>> /\ e \in S
  <2>1. <<>> \in Seq(Places)
    OBVIOUS
  <2> QED BY <1>2, <2>1, Zenon
<1>6. PICK g : Iterates(g, N, S, e, T)
  BY <1>1, <1>4, <1>5, Recursion
<1>7. Gathers(r, g)
  <2>1. \A i \in 0 .. N : i # 0 => i \in 1 .. N /\ i - 1 \in 0 .. N
    OBVIOUS
  <2>2. \A i \in 1 .. N : g[i] = IF slot[r][i].alive THEN Append(g[i - 1], i) ELSE g[i - 1]
    <3>1. \A i \in 1 .. N : i - 1 \in 0 .. N
      OBVIOUS
    <3> QED BY <1>3, <1>6, <3>1 DEF Iterates
  <2>3. \A i \in 0 .. N :
          g[i] = IF i = 0 THEN <<>>
                 ELSE IF slot[r][i].alive THEN Append(g[i - 1], i) ELSE g[i - 1]
    BY <1>5, <1>6, <2>1, <2>2 DEF Iterates
  <2>4. g \in [0 .. N -> S]
    BY <1>6 DEF Iterates
  <2> QED BY <1>1, <2>3, <2>4 DEF Gathers
<1>8. PICK h : h = CHOOSE u : Gathers(r, u)
  OBVIOUS
<1>9. Gathers(r, h)
  BY <1>7, <1>8
<1>10. Live(r) = h[N]
  BY <1>1, <1>8 DEF Live, Gathers
<1>11. \A i \in 0 .. N : h[i] = IF i = 0 THEN <<>>
                 ELSE IF slot[r][i].alive THEN Append(h[i - 1], i) ELSE h[i - 1]
  BY <1>1, <1>9 DEF Gathers
<1> DEFINE B == {i \in 0 .. N : \E m \in Nat : Covers1(h[i], m, r, i)}
<1>12. 0 \in B
  <2>1. h[0] = <<>> /\ 1 .. 0 = {} /\ 0 \in 0 .. N
    BY <1>11
  <2>2. h[0] \in [1 .. 0 -> Places]
    BY <2>1
  <2>3. Covers1(h[0], 0, r, 0)
    BY <2>1, <2>2 DEF Covers1
  <2> QED BY <2>1, <2>3
<1>13. ASSUME NEW i \in 1 .. N, i - 1 \in B PROVE i \in B
  <2>1. i \in 0 .. N /\ i # 0 /\ i \in 1 .. FIELD_SLOTS
    BY <1>1
  <2>2. PICK m \in Nat : Covers1(h[i - 1], m, r, i - 1)
    BY <1>13
  <2>3. PICK f : f = h[i - 1]
    OBVIOUS
  <2>4. Covers1(f, m, r, i - 1)
    BY <2>2, <2>3
  <2>5. PICK v : \E l \in Nat : v = (IF slot[r][i].alive THEN Append(f, i) ELSE f) /\ Covers1(v, l, r, i)
    BY <2>1, <2>4, CoversMore
  <2>6. h[i] = v
    BY <1>11, <2>1, <2>3, <2>5
  <2>7. \E l \in Nat : Covers1(h[i], l, r, i)
    BY <2>5, <2>6
  <2> QED BY <2>1, <2>7
<1>14. \A i \in 0 .. N : i \in B
  <2> HIDE DEF B
  <2> QED BY <1>12, <1>13, LoopInduction
<1> QED BY <1>1, <1>10, <1>14

(* The selection sort.                                                     *)
SortStep(o, a, score) == Swap(o, a, Best(o, a, Len(o), score))
Sorts(order, want, score, g) ==
  g = [a \in 0 .. want |-> IF a = 0 THEN order ELSE SortStep(g[a - 1], a, score)]
LEMMA SortStepIs ==
  ASSUME NEW m \in Nat, NEW o \in [1 .. m -> Places], NEW a \in 1 .. m,
         NEW score \in [Places -> Int]
  PROVE  /\ SortStep(o, a, score) \in [1 .. m -> Places]
         /\ \E b \in a .. m : /\ SortStep(o, a, score) = Swap(o, a, b)
                              /\ \A x \in a .. m : score[o[x]] <= score[o[b]]
<1>1. PICK f : f = [x \in 1 .. m |-> score[o[x]]]
  OBVIOUS
<1>2. \A x \in a .. m : x \in 1 .. m
  OBVIOUS
<1>3. \A x \in a .. m : f[x] \in Int /\ f[x] = score[o[x]]
  BY <1>1, <1>2
<1>4. a \in Nat /\ a <= m
  OBVIOUS
<1>5. PICK S : S = {b \in a .. m : \A x \in a .. m : score[o[x]] <= score[o[b]]}
  OBVIOUS
<1>6. S # {} /\ S \in SUBSET Nat
  <2>1. PICK b \in a .. m : \A x \in a .. m : f[x] <= f[b]
    BY <1>3, <1>4, GreatestOf
  <2>2. b \in S
    BY <1>3, <1>5, <2>1
  <2> QED BY <1>5, <2>2
<1>7. PICK b \in S : b = First(S)
  BY <1>6, FirstIs
<1>8. Len(o) = m
  OBVIOUS
<1>9. SortStep(o, a, score) = Swap(o, a, b)
  BY <1>5, <1>7, <1>8 DEF SortStep, Best
<1>10. Swap(o, a, b) \in [1 .. m -> Places]
  BY <1>2, <1>5 DEF Swap
<1> QED BY <1>5, <1>9, <1>10

(* Up to i the best come first; nothing is lost.                           *)
SortedTo(v, i, m, o, score) ==
  /\ v \in [1 .. m -> Places]
  /\ \A x \in 1 .. m : \E y \in 1 .. m : v[x] = o[y]
  /\ \A y \in 1 .. m : \E x \in 1 .. m : v[x] = o[y]
  /\ \A x \in 1 .. i : \A y \in x .. m : score[v[y]] <= score[v[x]]
LEMMA SortedMore ==
  ASSUME NEW m \in Nat, NEW o \in [1 .. m -> Places], NEW score \in [Places -> Int],
         NEW i \in 1 .. m, NEW v, SortedTo(v, i - 1, m, o, score)
  PROVE  SortedTo(SortStep(v, i, score), i, m, o, score)
<1>1. v \in [1 .. m -> Places]
  BY DEF SortedTo
<1>2. PICK b \in i .. m : /\ SortStep(v, i, score) = Swap(v, i, b)
                          /\ \A x \in i .. m : score[v[x]] <= score[v[b]]
  BY <1>1, SortStepIs
<1>3. PICK w : w = SortStep(v, i, score) /\ w = [v EXCEPT ![i] = v[b], ![b] = v[i]]
  BY <1>2 DEF Swap
<1>4. w \in [1 .. m -> Places]
  BY <1>1, <1>3, SortStepIs
<1>5. b \in 1 .. m /\ i \in 1 .. m /\ i \in i .. m
  OBVIOUS
<1>6. /\ w[i] = v[b] /\ w[b] = v[i]
      /\ \A x \in 1 .. m : x # i /\ x # b => w[x] = v[x]
  BY <1>1, <1>3, <1>5
<1>7. \A x \in 1 .. m : \E y \in 1 .. m : w[x] = v[y] /\ (x >= i => y >= i) /\ (x < i => y = x)
  <2> TAKE x \in 1 .. m
  <2>1. CASE x = i
    BY <1>5, <1>6, <2>1
  <2>2. CASE x # i /\ x = b
    BY <1>5, <1>6, <2>2
  <2>3. CASE x # i /\ x # b
    BY <1>6, <2>3
  <2> QED BY <2>1, <2>2, <2>3
<1>8. \A y \in 1 .. m : \E x \in 1 .. m : w[x] = v[y]
  BY <1>5, <1>6
<1>9. \A x \in 1 .. m : \E y \in 1 .. m : w[x] = o[y]
  <2>1. \A x \in 1 .. m : \E y \in 1 .. m : v[x] = o[y]
    BY DEF SortedTo
  <2>2. \A x \in 1 .. m : \E y \in 1 .. m : w[x] = v[y]
    BY <1>7
  <2> TAKE x \in 1 .. m
  <2>3. PICK y \in 1 .. m : w[x] = v[y]
    BY <2>2
  <2>4. PICK z \in 1 .. m : v[y] = o[z]
    BY <2>1
  <2> QED BY <2>3, <2>4
<1>10. \A y \in 1 .. m : \E x \in 1 .. m : w[x] = o[y]
  <2>1. \A y \in 1 .. m : \E x \in 1 .. m : v[x] = o[y]
    BY DEF SortedTo
  <2> QED BY <1>8, <2>1, Zenon
<1>11. ASSUME NEW x \in 1 .. i, NEW y \in x .. m PROVE score[w[y]] <= score[w[x]]
  <2>1. x \in 1 .. m /\ y \in 1 .. m
    OBVIOUS
  <2>2. PICK z \in 1 .. m : w[y] = v[z] /\ (y >= i => z >= i) /\ (y < i => z = y)
    BY <1>7, <2>1
  <2>3. CASE x = i
    <3>1. z \in i .. m
      BY <2>2, <2>3
    <3>2. score[v[z]] <= score[v[b]]
      BY <1>2, <3>1
    <3> QED BY <1>6, <2>2, <2>3, <3>2
  <2>4. CASE x # i
    <3>1. x \in 1 .. i - 1 /\ x < i
      BY <2>4
    <3>2. z \in x .. m
      BY <2>2, <3>1
    <3>3. w[x] = v[x]
      BY <1>6, <2>1, <3>1
    <3>4. score[v[z]] <= score[v[x]]
      BY <3>1, <3>2 DEF SortedTo
    <3> QED BY <2>2, <3>3, <3>4
  <2> QED BY <2>3, <2>4
<1>12. SortedTo(w, i, m, o, score)
  BY <1>4, <1>9, <1>10, <1>11 DEF SortedTo
<1> QED BY <1>3, <1>12

LEMMA SortIs ==
  ASSUME NEW m \in Nat, NEW o \in [1 .. m -> Places], NEW score \in [Places -> Int],
         NEW want \in Nat, want <= m
  PROVE  SortedTo(SelectionSort(o, want, score), want, m, o, score)
<1>1. PICK S : S = [1 .. m -> Places]
  OBVIOUS
<1>2. PICK T : T = [a \in 1 .. want |-> [s \in S |-> SortStep(s, a, score)]]
  OBVIOUS
<1>3. \A a \in 1 .. want : a \in 1 .. m
  OBVIOUS
<1>4. T \in [1 .. want -> [S -> S]]
  BY <1>1, <1>2, <1>3, SortStepIs
<1>5. o \in S
  BY <1>1
<1>6. PICK g : Iterates(g, want, S, o, T)
  BY <1>4, <1>5, Recursion
<1>7. Sorts(o, want, score, g)
  <2>1. \A i \in 0 .. want : i # 0 => i \in 1 .. want
    OBVIOUS
  <2>2. \A i \in 1 .. want : g[i] = SortStep(g[i - 1], i, score)
    <3>1. \A i \in 1 .. want : i - 1 \in 0 .. want
      OBVIOUS
    <3> QED BY <1>2, <1>6, <3>1 DEF Iterates
  <2>3. \A i \in 0 .. want : g[i] = IF i = 0 THEN o ELSE SortStep(g[i - 1], i, score)
    BY <1>6, <2>1, <2>2 DEF Iterates
  <2>4. g \in [0 .. want -> S]
    BY <1>6 DEF Iterates
  <2> QED BY <2>3, <2>4 DEF Sorts
<1>8. PICK h : h = CHOOSE u : Sorts(o, want, score, u)
  OBVIOUS
<1>9. Sorts(o, want, score, h)
  BY <1>7, <1>8
<1>10. SelectionSort(o, want, score) = h[want]
  BY <1>8 DEF SelectionSort, Sorts, SortStep
<1>11. \A i \in 0 .. want : h[i] = IF i = 0 THEN o ELSE SortStep(h[i - 1], i, score)
  BY <1>9 DEF Sorts
<1> DEFINE B == {i \in 0 .. want : SortedTo(h[i], i, m, o, score)}
<1>12. 0 \in B
  <2>1. h[0] = o /\ 1 .. 0 = {} /\ 0 \in 0 .. want
    BY <1>11
  <2>2. SortedTo(o, 0, m, o, score)
    BY <2>1 DEF SortedTo
  <2> QED BY <2>1, <2>2
<1>13. ASSUME NEW i \in 1 .. want, i - 1 \in B PROVE i \in B
  <2>1. i \in 0 .. want /\ i # 0 /\ i \in 1 .. m
    OBVIOUS
  <2>2. PICK v : v = h[i - 1]
    OBVIOUS
  <2>3. SortedTo(v, i - 1, m, o, score)
    BY <1>13, <2>2
  <2>4. SortedTo(SortStep(v, i, score), i, m, o, score)
    BY <2>1, <2>3, SortedMore
  <2>5. h[i] = SortStep(v, i, score)
    BY <1>11, <2>1, <2>2
  <2> QED BY <2>1, <2>4, <2>5
<1>14. \A i \in 0 .. want : i \in B
  <2> HIDE DEF B
  <2> QED BY <1>12, <1>13, LoopInduction
<1> QED BY <1>10, <1>14

-----------------------------------------------------------------------------
(* The inductive invariant.                                                *)
Authors == Citizens \cup {"agent", "disk", "gone", "nobody"}
SlotRecs == [alive : BOOLEAN, bytes : Patterns \cup {<<>>}, energy : Nat, retrievals : Nat,
             tick : Nat, by : Authors]
LiveOK(s) == s.alive => /\ s.bytes \in Resonant
                        /\ s.energy \in FIELD_ENERGY_MIN .. FIELD_ENERGY_MAX
FieldTypes ==
  /\ slot \in [Regions -> [Places -> SlotRecs]]
  /\ blob \in [Regions -> [Places -> SlotRecs]]
  /\ holds \in [Citizens \cup Agents -> [Regions -> SUBSET {"r", "w"}]]
  /\ inheritable \subseteq Regions
  /\ ticks \in Nat
SlotsOK == \A r \in Regions, i \in Places : LiveOK(slot[r][i])
(* A citizen has rights in its own span, an agent where a citizen has some.*)
RightsOwn ==
  /\ \A c \in Citizens, r \in Regions : holds[c][r] # {} => r \in SpanOf[c]
  /\ \A r \in Regions : holds["agent"][r] # {} => \E c \in Citizens : holds[c][r] # {}
(* What is marked as the disk's is, and nobody has entered it yet.         *)
MarkedIsFromDisk ==
  \A c \in Citizens, r \in inheritable : (c \in Inherits /\ r \in SpanOf[c]) =>
    /\ holds[c][r] = {}
    /\ \A i \in Places : slot[r][i].alive => slot[r][i].by = "disk"
FieldInv ==
  FieldTypes /\ SlotsOK /\ RightsOwn /\ MarkedIsFromDisk /\ NoPredecessor /\ BestFirst

LEMMA FieldNumbers ==
  /\ FIELD_SLOTS \in Nat \ {0} /\ FIELD_ENERGY_MIN \in Nat \ {0} /\ FIELD_ENERGY_MAX \in Nat \ {0}
  /\ FIELD_ENERGY_DEFAULT \in Nat \ {0} /\ Jump \in Nat /\ 2 ^ FIELD_DECAY_SHIFT \in Nat \ {0}
  /\ FIELD_ENERGY_MIN <= FIELD_ENERGY_MAX /\ FIELD_RANK_MAX \in Nat \ {0}
BY FieldConstants

LEMMA EffectiveIs ==
  ASSUME NEW s, s.energy \in FIELD_ENERGY_MIN .. FIELD_ENERGY_MAX, s.tick \in Nat, ticks \in Nat
  PROVE  effective_energy(s) \in FIELD_ENERGY_MIN .. s.energy
<1>1. PICK d \in Nat \ {0} : d = 2 ^ FIELD_DECAY_SHIFT
  BY FieldNumbers
<1>2. PICK age \in Nat : age = IF ticks >= s.tick THEN ticks - s.tick ELSE 0
  OBVIOUS
<1>3. PICK q \in Nat : q = age \div d
  OBVIOUS
<1>4. effective_energy(s) =
        IF q >= s.energy - FIELD_ENERGY_MIN THEN FIELD_ENERGY_MIN ELSE s.energy - q
  BY <1>1, <1>2, <1>3 DEF effective_energy
<1>5. PICK e \in Nat, lo \in Nat, hi \in Nat :
        e = s.energy /\ lo = FIELD_ENERGY_MIN /\ hi = FIELD_ENERGY_MAX /\ lo <= e
  BY FieldNumbers
<1> QED BY <1>4, <1>5

LEMMA SoundFromInv ==
  ASSUME FieldInv, SelfResonant
  PROVE  FieldSound
<1>1. EnergiesBounded
  <2> SUFFICES ASSUME NEW r \in Regions, NEW i \in Places, slot[r][i].alive
               PROVE  /\ slot[r][i].energy \in FIELD_ENERGY_MIN .. FIELD_ENERGY_MAX
                      /\ effective_energy(slot[r][i]) \in FIELD_ENERGY_MIN .. slot[r][i].energy
                      /\ ~Degenerate(slot[r][i].bytes)
    BY DEF EnergiesBounded
  <2>1. LiveOK(slot[r][i]) /\ ticks \in Nat
    BY DEF FieldInv, SlotsOK, FieldTypes
  <2>2. slot[r][i].tick \in Nat
    BY DEF FieldInv, FieldTypes, SlotRecs
  <2> QED BY <2>1, <2>2, EffectiveIs DEF LiveOK, Resonant
<1> QED BY <1>1 DEF FieldInv, FieldSound, RankedBest

LEMMA DeadIs == Dead \in SlotRecs /\ ~Dead.alive /\ LiveOK(Dead) /\ Dead.by = "nobody"
BY DEF Dead, SlotRecs, Authors, LiveOK

LEMMA UnaskedIs == ASSUME recalled' = Unasked PROVE BestFirst'
<1>1. Unasked.rank = <<>> /\ DOMAIN Unasked.rank = {}
  BY DEF Unasked
<1> QED BY <1>1 DEF BestFirst

LEMMA FieldStarts == FieldInit => FieldInv
<1> SUFFICES ASSUME FieldInit PROVE FieldInv
  OBVIOUS
<1>1. slot = [r \in Regions |-> EmptyRegion] /\ blob = [r \in Regions |-> EmptyRegion]
      /\ holds = NoRights /\ inheritable = {} /\ ticks = 0 /\ recalled = Unasked
  BY DEF FieldInit
<1>2. \A r \in Regions, i \in Places : slot[r][i] = Dead
  BY <1>1 DEF EmptyRegion
<1>3. FieldTypes
  <2>1. EmptyRegion \in [Places -> SlotRecs]
    BY DeadIs DEF EmptyRegion
  <2>2. NoRights \in [Citizens \cup Agents -> [Regions -> SUBSET {"r", "w"}]]
    BY DEF NoRights
  <2> QED BY <1>1, <2>1, <2>2 DEF FieldTypes
<1>4. SlotsOK
  BY <1>2, DeadIs DEF SlotsOK
<1>5. RightsOwn /\ MarkedIsFromDisk
  BY <1>1 DEF RightsOwn, MarkedIsFromDisk, NoRights, Agents
<1>6. NoPredecessor
  BY <1>2, DeadIs DEF NoPredecessor
<1>7. BestFirst
  <2>1. Unasked.rank = <<>> /\ DOMAIN Unasked.rank = {}
    BY DEF Unasked
  <2> QED BY <1>1, <2>1 DEF BestFirst
<1> QED BY <1>3, <1>4, <1>5, <1>6, <1>7 DEF FieldInv

(* A ranking is of live slots, best first.                                 *)
Ranked(rank, n, r, probe) ==
  /\ rank \in [1 .. n -> Places]
  /\ \A a \in 1 .. n : slot[r][rank[a]].alive
  /\ \A a, b \in 1 .. n :
       a < b => Score(slot[r][rank[a]], probe) >= Score(slot[r][rank[b]], probe)
  /\ \A a \in 1 .. n, j \in Places :
       (slot[r][j].alive /\ \A x \in 1 .. n : rank[x] # j) =>
         Score(slot[r][j], probe) <= Score(slot[r][rank[a]], probe)
LEMMA RankingIs ==
  ASSUME FieldInv, NEW r \in Regions, NEW probe \in Patterns, NEW k \in 1 .. FIELD_RANK_MAX,
         ~Degenerate(probe)
  PROVE  \E n \in Nat : Ranked(Ranking(r, probe, k), n, r, probe)
<1>1. PICK live : live = Live(r) /\ \E m \in Nat : Covers1(live, m, r, FIELD_SLOTS)
  BY LiveIs
<1>20. PICK m \in Nat : Covers1(live, m, r, FIELD_SLOTS)
  BY <1>1
<1>2. live \in [1 .. m -> Places] /\ Len(live) = m
  BY <1>20 DEF Covers1
<1>3. PICK want \in Nat : want <= m /\ want = IF k < Len(live) THEN k ELSE Len(live)
  BY <1>2, FieldNumbers
<1>4. PICK score : score = [i \in Places |-> IF slot[r][i].alive THEN Score(slot[r][i], probe) ELSE 0]
  OBVIOUS
<1>5. score \in [Places -> Int]
  <2>1. ASSUME NEW i \in Places, slot[r][i].alive PROVE Score(slot[r][i], probe) \in Int
    <3>1. slot[r][i].bytes \in Resonant /\ probe \in Resonant
      BY <2>1 DEF FieldInv, SlotsOK, LiveOK, Resonant
    <3>2. PICK v \in Int : v = Similarity[probe][slot[r][i].bytes]
      BY <3>1, SimilarityIsInt
    <3>3. slot[r][i].energy \in FIELD_ENERGY_MIN .. FIELD_ENERGY_MAX /\ slot[r][i].tick \in Nat
          /\ ticks \in Nat
      BY <2>1 DEF FieldInv, SlotsOK, LiveOK, FieldTypes, SlotRecs
    <3>4. effective_energy(slot[r][i]) \in FIELD_ENERGY_MIN .. slot[r][i].energy
      BY <3>3, EffectiveIs
    <3>5. PICK e \in Int : e = effective_energy(slot[r][i])
      BY <3>3, <3>4, FieldNumbers
    <3>6. (v * e) \div 32768 \in Int
      OBVIOUS
    <3> QED BY <3>2, <3>5, <3>6 DEF Score
  <2> QED BY <1>4, <2>1
<1>6. PICK o : o = SelectionSort(live, want, score) /\ SortedTo(o, want, m, live, score)
  BY <1>2, <1>3, <1>5, SortIs
<1>7. Ranking(r, probe, k) = SubSeq(o, 1, want)
  BY <1>1, <1>3, <1>4, <1>6 DEF Ranking
<1>8. PICK rank : rank = SubSeq(o, 1, want)
  OBVIOUS
<1>9. o \in [1 .. m -> Places]
  BY <1>6 DEF SortedTo
<1>10. rank \in [1 .. want -> Places] /\ \A a \in 1 .. want : rank[a] = o[a] /\ a \in 1 .. m
  <2>1. \A a \in 1 .. want : a \in 1 .. m /\ o[a] \in Places
    BY <1>3, <1>9
  <2>2. rank = [i \in 1 .. want |-> o[i]]
    <3>1. SubSeq(o, 1, want) = [i \in 1 .. ((want - 1) + 1) |-> o[(i + 1) - 1]]
      OBVIOUS
    <3>2. (want - 1) + 1 = want /\ \A i \in 1 .. want : (i + 1) - 1 = i
      OBVIOUS
    <3> QED BY <1>8, <3>1, <3>2
  <2> QED BY <2>1, <2>2
<1>11. \A x \in 1 .. m : slot[r][o[x]].alive /\ score[o[x]] = Score(slot[r][o[x]], probe)
  <2> TAKE x \in 1 .. m
  <2>1. PICK y \in 1 .. m : o[x] = live[y]
    BY <1>6 DEF SortedTo
  <2>2. slot[r][live[y]].alive /\ live[y] \in Places
    BY <1>20 DEF Covers1
  <2> QED BY <1>4, <2>1, <2>2
<1>12. \A a \in 1 .. want : slot[r][rank[a]].alive
  BY <1>10, <1>11
<1>13. ASSUME NEW a \in 1 .. want, NEW y \in a .. m
       PROVE  Score(slot[r][o[y]], probe) <= Score(slot[r][rank[a]], probe)
  <2>1. y \in 1 .. m /\ a \in 1 .. m
    BY <1>3
  <2>2. score[o[y]] <= score[o[a]]
    BY <1>6 DEF SortedTo
  <2> QED BY <1>10, <1>11, <2>1, <2>2
<1>14. ASSUME NEW a \in 1 .. want, NEW b \in 1 .. want, a < b
       PROVE  Score(slot[r][rank[a]], probe) >= Score(slot[r][rank[b]], probe)
  <2>1. b \in a .. m
    BY <1>3, <1>14
  <2>2. Score(slot[r][o[b]], probe) <= Score(slot[r][rank[a]], probe)
    BY <1>13, <2>1
  <2>3. score[o[b]] \in Int /\ score[o[a]] \in Int
    BY <1>5, <1>9, <1>10
  <2> QED BY <1>10, <1>11, <2>2, <2>3
<1>15. ASSUME NEW a \in 1 .. want, NEW j \in Places, slot[r][j].alive,
              \A x \in 1 .. want : rank[x] # j
       PROVE  Score(slot[r][j], probe) <= Score(slot[r][rank[a]], probe)
  <2>1. j \in 1 .. FIELD_SLOTS
    BY DEF Places
  <2>2. PICK x \in 1 .. m : live[x] = j
    BY <1>20, <1>15, <2>1 DEF Covers1
  <2>3. PICK y \in 1 .. m : o[y] = j
    BY <1>6, <2>2 DEF SortedTo
  <2>4. y \notin 1 .. want
    BY <1>10, <1>15, <2>3
  <2>5. y \in a .. m
    BY <1>3, <2>4
  <2> QED BY <1>13, <2>3, <2>5
<1>16. Ranked(rank, want, r, probe)
  BY <1>10, <1>12, <1>14, <1>15 DEF Ranked
<1> QED BY <1>7, <1>8, <1>16

(* The slot an imprint takes is free, or the weakest of a full region.     *)
LEMMA TargetIs ==
  ASSUME FieldInv, NEW r \in Regions
  PROVE  /\ Target(r) \in Places
         /\ slot[r][Target(r)].alive =>
              \A j \in Places : /\ slot[r][j].alive
                                /\ effective_energy(slot[r][Target(r)]) <= effective_energy(slot[r][j])
<1>1. Places \subseteq Nat /\ Places # {}
  BY FieldNumbers DEF Places
<1>2. CASE FreeIn(r) # {}
  <2>1. FreeIn(r) \in SUBSET Nat
    BY <1>1 DEF FreeIn
  <2>2. First(FreeIn(r)) \in FreeIn(r)
    BY <1>2, <2>1, FirstIs
  <2> QED BY <1>2, <2>2 DEF FreeIn, Target
<1>3. CASE FreeIn(r) = {}
  <2>1. \A j \in Places : slot[r][j].alive
    BY <1>3 DEF FreeIn
  <2>2. \A j \in Places : effective_energy(slot[r][j]) \in Nat
    <3> TAKE j \in Places
    <3>1. slot[r][j].energy \in FIELD_ENERGY_MIN .. FIELD_ENERGY_MAX /\ slot[r][j].tick \in Nat
          /\ ticks \in Nat
      BY <2>1 DEF FieldInv, SlotsOK, LiveOK, FieldTypes, SlotRecs
    <3>2. effective_energy(slot[r][j]) \in FIELD_ENERGY_MIN .. slot[r][j].energy
      BY <3>1, EffectiveIs
    <3> QED BY <3>1, <3>2, FieldNumbers
  <2>3. PICK E : E = {effective_energy(slot[r][j]) : j \in Places}
    OBVIOUS
  <2>4. E \in SUBSET Nat /\ E # {}
    BY <1>1, <2>2, <2>3
  <2>5. PICK least \in E : \A e \in E : least <= e
    BY <2>4, LeastExists
  <2>6. PICK i \in Places : least = effective_energy(slot[r][i])
    BY <2>3, <2>5
  <2>7. PICK S : S = {k \in Places : \A j \in Places :
                        effective_energy(slot[r][k]) <= effective_energy(slot[r][j])}
    OBVIOUS
  <2>8. i \in S
    BY <2>3, <2>5, <2>6, <2>7
  <2>9. First(S) \in S
    <3>1. S \in SUBSET Nat /\ S # {}
      BY <1>1, <2>7, <2>8
    <3> QED BY <3>1, FirstIs
  <2>10. Target(r) = First(S)
    BY <1>3, <2>7 DEF Target, Weakest
  <2> QED BY <2>1, <2>7, <2>9, <2>10
<1> QED BY <1>2, <1>3

LEMMA OwnersAlone ==
  ASSUME FieldInv, NEW c \in Citizens \cup Agents, NEW r \in Regions, holds[c][r] # {},
         NEW d \in Citizens, r \in SpanOf[d]
  PROVE  holds[d][r] # {} /\ c \in {d, "agent"}
<1>1. \A t \in Citizens : holds[t][r] # {} => t = d
  BY FieldConstants DEF FieldInv, RightsOwn
<1>2. CASE c \in Citizens
  BY <1>1, <1>2
<1>3. CASE c = "agent"
  BY <1>1, <1>3 DEF FieldInv, RightsOwn
<1> QED BY <1>2, <1>3 DEF Agents

LEMMA SpansAreRegions == \A c \in Citizens : SpanOf[c] \subseteq Regions
BY FieldConstants

(* Only a slot of r changes, to a record that its holder imprinted.        *)
LEMMA SlotWritten ==
  ASSUME FieldInv, NEW c \in Citizens \cup Agents, NEW r \in Regions, holds[c][r] # {},
         NEW i \in Places, NEW rec \in SlotRecs, LiveOK(rec),
         rec.by = c \/ (slot[r][i].alive /\ rec.by = slot[r][i].by),
         slot' = [slot EXCEPT ![r][i] = rec],
         UNCHANGED <<inheritable, holds, blob, ticks>>
  PROVE  FieldTypes' /\ SlotsOK' /\ RightsOwn' /\ MarkedIsFromDisk' /\ NoPredecessor'
<1>1. slot \in [Regions -> [Places -> SlotRecs]]
  BY DEF FieldInv, FieldTypes
<1>2. /\ slot' \in [Regions -> [Places -> SlotRecs]]
      /\ slot'[r][i] = rec
      /\ \A q \in Regions, j \in Places : (q # r \/ j # i) => slot'[q][j] = slot[q][j]
  BY <1>1
<1>3. FieldTypes'
  BY <1>2 DEF FieldInv, FieldTypes
<1>4. SlotsOK'
  BY <1>2 DEF FieldInv, SlotsOK, LiveOK
<1>5. RightsOwn'
  BY DEF FieldInv, RightsOwn
<1>6. MarkedIsFromDisk'
  <2> SUFFICES ASSUME NEW d \in Citizens, NEW q \in inheritable, d \in Inherits, q \in SpanOf[d]
               PROVE  /\ holds[d][q] = {}
                      /\ \A j \in Places : slot'[q][j].alive => slot'[q][j].by = "disk"
    BY DEF MarkedIsFromDisk
  <2>1. holds[d][q] = {} /\ \A j \in Places : slot[q][j].alive => slot[q][j].by = "disk"
    BY DEF FieldInv, MarkedIsFromDisk
  <2>2. q # r
    BY <2>1, OwnersAlone
  <2>3. q \in Regions
    BY SpansAreRegions
  <2> QED BY <1>2, <2>1, <2>2, <2>3
<1>7. NoPredecessor'
  <2> SUFFICES ASSUME NEW d \in Citizens, NEW q \in Regions, holds[d][q] # {}, NEW j \in Places,
                      slot'[q][j].alive
               PROVE  slot'[q][j].by \in {d, "agent"} \/ (slot'[q][j].by = "disk" /\ d \in Inherits)
    BY DEF NoPredecessor
  <2>1. slot[q][j].alive => slot[q][j].by \in {d, "agent"} \/ (slot[q][j].by = "disk" /\ d \in Inherits)
    BY DEF FieldInv, NoPredecessor
  <2>2. CASE q = r /\ j = i
    <3>1. q \in SpanOf[d]
      BY DEF FieldInv, RightsOwn
    <3>2. c \in {d, "agent"}
      BY <2>2, <3>1, OwnersAlone
    <3> QED BY <1>2, <2>1, <2>2, <3>2
  <2>3. CASE q # r \/ j # i
    BY <1>2, <2>1, <2>3
  <2> QED BY <2>2, <2>3
<1> QED BY <1>3, <1>4, <1>5, <1>6, <1>7

(* What a step must not do to be an eviction of a pattern that is not weakest. *)
EvictsStep ==
  \A r \in Regions, i \in Places :
    (slot[r][i].alive /\ slot'[r][i].bytes # slot[r][i].bytes /\ slot'[r][i].by \in Citizens \cup Agents)
      => \A j \in Places :
           slot[r][j].alive /\ effective_energy(slot[r][i]) <= effective_energy(slot[r][j])

LEMMA ImprintKeeps ==
  ASSUME FieldInv, NEW c \in Citizens \cup Agents, sys_imprint(c)
  PROVE  FieldInv' /\ EvictsStep
<1>1. PICK r \in Regions, p \in Patterns, e \in Energies :
        "w" \in holds[c][r] /\ ~Degenerate(p) /\ field_imprint(r, p, e, c)
  BY DEF sys_imprint
<1>2. UNCHANGED <<inheritable, holds, blob, ticks>> /\ recalled' = Unasked
  BY DEF sys_imprint
<1>3. PICK i \in Places : i = Target(r)
  BY TargetIs
<1>4. PICK en : en = Clamp(IF e = 0 THEN FIELD_ENERGY_DEFAULT ELSE e, FIELD_ENERGY_MIN, FIELD_ENERGY_MAX)
  OBVIOUS
<1>5. en \in FIELD_ENERGY_MIN .. FIELD_ENERGY_MAX /\ en \in Nat
  <2>1. PICK x \in Int : x = IF e = 0 THEN FIELD_ENERGY_DEFAULT ELSE e
    <3>1. e \in Nat
      BY FieldConstants
    <3> QED BY <3>1, FieldNumbers
  <2>2. en \in FIELD_ENERGY_MIN .. FIELD_ENERGY_MAX
    <3>1. PICK lo \in Int, hi \in Int : lo = FIELD_ENERGY_MIN /\ hi = FIELD_ENERGY_MAX /\ lo <= hi
      BY FieldNumbers
    <3>2. Clamp(x, lo, hi) \in lo .. hi
      BY <3>1, ClampIsInt
    <3> QED BY <1>4, <2>1, <3>1, <3>2
  <2> QED BY <2>2, FieldNumbers
<1>6. PICK rec : rec = [alive |-> TRUE, bytes |-> p, retrievals |-> 0, tick |-> ticks, by |-> c,
                        energy |-> en]
  OBVIOUS
<1>7. rec \in SlotRecs
  <2>1. ticks \in Nat /\ c \in Authors
    BY DEF FieldInv, FieldTypes, Authors, Agents
  <2> QED BY <1>5, <1>6, <2>1 DEF SlotRecs
<1>8. LiveOK(rec)
  BY <1>1, <1>5, <1>6 DEF LiveOK, Resonant
<1>9. slot' = [slot EXCEPT ![r][i] = rec]
  BY <1>1, <1>3, <1>4, <1>6 DEF field_imprint
<1>10. rec.by = c /\ holds[c][r] # {}
  BY <1>1, <1>6
<1>11. FieldTypes' /\ SlotsOK' /\ RightsOwn' /\ MarkedIsFromDisk' /\ NoPredecessor'
  BY <1>2, <1>7, <1>8, <1>9, <1>10, SlotWritten
<1>12. EvictsStep
  <2> SUFFICES ASSUME NEW q \in Regions, NEW j \in Places, slot[q][j].alive,
                      slot'[q][j].bytes # slot[q][j].bytes
               PROVE  \A k \in Places : /\ slot[q][k].alive
                        /\ effective_energy(slot[q][j]) <= effective_energy(slot[q][k])
    BY DEF EvictsStep
  <2>1. slot \in [Regions -> [Places -> SlotRecs]]
    BY DEF FieldInv, FieldTypes
  <2>2. q = r /\ j = i
    BY <1>9, <2>1
  <2> QED BY <1>3, <2>2, TargetIs
<1> QED BY <1>2, <1>11, <1>12, UnaskedIs DEF FieldInv

LEMMA RecallKeeps ==
  ASSUME FieldInv, NEW c \in Citizens \cup Agents, sys_recall(c)
  PROVE  FieldInv' /\ EvictsStep
<1>1. PICK r \in Regions, p \in Patterns, k \in 1 .. FIELD_RANK_MAX :
        "r" \in holds[c][r] /\ field_recall(r, p, k, "w" \in holds[c][r])
  BY DEF sys_recall
<1>2. UNCHANGED <<inheritable, holds, blob, ticks>>
  BY DEF sys_recall
<1>3. PICK rank : rank = Ranking(r, p, k)
  OBVIOUS
<1>4. PICK n \in Nat : rank \in [1 .. n -> Places] /\ (~Degenerate(p) => Ranked(rank, n, r, p))
                       /\ \A a \in 1 .. n : slot[r][rank[a]].alive /\ ~Degenerate(p)
  <2>1. CASE Degenerate(p)
    <3>1. rank = <<>>
      BY <1>3, <2>1 DEF Ranking
    <3>2. rank \in [1 .. 0 -> Places] /\ 1 .. 0 = {}
      BY <3>1
    <3> QED BY <2>1, <3>2
  <2>2. CASE ~Degenerate(p)
    <3>1. PICK n \in Nat : Ranked(rank, n, r, p)
      BY <1>3, <2>2, RankingIs
    <3> QED BY <2>2, <3>1 DEF Ranked
  <2> QED BY <2>1, <2>2
<1>5. PICK sc : sc = [i \in Places |-> IF slot[r][i].alive /\ ~Degenerate(p)
                        THEN [slot[r][i] EXCEPT !.energy = Score(slot[r][i], p)] ELSE Dead]
  OBVIOUS
<1>6. recalled'.rank = rank /\ recalled'.scores = sc
  BY <1>1, <1>3, <1>5 DEF field_recall
<1>7. slot \in [Regions -> [Places -> SlotRecs]]
  BY DEF FieldInv, FieldTypes
<1>8. \A i \in Places :
        /\ sc[i].alive <=> slot[r][i].alive /\ ~Degenerate(p)
        /\ sc[i].alive => sc[i].energy = Score(slot[r][i], p)
  <2> TAKE i \in Places
  <2>1. PICK s \in SlotRecs : s = slot[r][i]
    BY <1>7
  <2>2. [s EXCEPT !.energy = Score(s, p)].alive = s.alive
        /\ [s EXCEPT !.energy = Score(s, p)].energy = Score(s, p)
    BY DEF SlotRecs
  <2>3. sc[i] = IF s.alive /\ ~Degenerate(p) THEN [s EXCEPT !.energy = Score(s, p)] ELSE Dead
    BY <1>5, <2>1
  <2>4. ~Dead.alive
    BY DeadIs
  <2> QED BY <2>1, <2>2, <2>3, <2>4
<1>9. DOMAIN rank = 1 .. n
  BY <1>4
<1>10. BestFirst'
  <2>1. \A a, b \in 1 .. n : a < b => sc[rank[a]].energy >= sc[rank[b]].energy
    <3> SUFFICES ASSUME NEW a \in 1 .. n, NEW b \in 1 .. n, a < b
                 PROVE  sc[rank[a]].energy >= sc[rank[b]].energy
      OBVIOUS
    <3>1. Score(slot[r][rank[a]], p) >= Score(slot[r][rank[b]], p)
      BY <1>4 DEF Ranked
    <3>2. rank[a] \in Places /\ rank[b] \in Places /\ slot[r][rank[a]].alive
          /\ slot[r][rank[b]].alive /\ ~Degenerate(p)
      BY <1>4
    <3> QED BY <1>8, <3>1, <3>2
  <2>2. \A a \in 1 .. n, j \in Places :
          (sc[j].alive /\ j \notin {rank[x] : x \in 1 .. n}) => sc[j].energy <= sc[rank[a]].energy
    <3> SUFFICES ASSUME NEW a \in 1 .. n, NEW j \in Places, sc[j].alive,
                        j \notin {rank[x] : x \in 1 .. n}
                 PROVE  sc[j].energy <= sc[rank[a]].energy
      OBVIOUS
    <3>1. slot[r][j].alive /\ ~Degenerate(p) /\ \A x \in 1 .. n : rank[x] # j
      BY <1>8
    <3>2. Score(slot[r][j], p) <= Score(slot[r][rank[a]], p)
      BY <1>4, <3>1 DEF Ranked
    <3>3. rank[a] \in Places /\ slot[r][rank[a]].alive
      BY <1>4
    <3> QED BY <1>8, <3>1, <3>2, <3>3
  <2> QED BY <1>6, <1>9, <2>1, <2>2 DEF BestFirst
<1>11. CASE UNCHANGED slot
  <2>1. FieldTypes' /\ SlotsOK' /\ RightsOwn' /\ MarkedIsFromDisk' /\ NoPredecessor'
    BY <1>2, <1>11 DEF FieldInv, FieldTypes, SlotsOK, LiveOK, RightsOwn, MarkedIsFromDisk, NoPredecessor
  <2>2. EvictsStep
    BY <1>11 DEF EvictsStep
  <2> QED BY <1>10, <2>1, <2>2 DEF FieldInv
<1>12. CASE rank # <<>> /\ Reinforce(r, rank[1])
  <2>1. PICK i \in Places : i = rank[1] /\ slot[r][i].alive
    <3>1. n # 0
      <4>1. ASSUME n = 0 PROVE FALSE
        <5>1. rank \in [1 .. 0 -> Places] /\ 1 .. 0 = {}
          BY <1>4, <4>1
        <5>2. rank = <<>>
          BY <5>1
        <5> QED BY <1>12, <5>2
      <4> QED BY <4>1
    <3>2. 1 \in 1 .. n
      BY <3>1
    <3> QED BY <1>4, <3>2
  <2>2. PICK s \in SlotRecs : s = slot[r][i]
    BY <1>7
  <2>3. PICK en : en = s.energy + (FIELD_ENERGY_MAX - s.energy) \div 16
    OBVIOUS
  <2>4. en \in FIELD_ENERGY_MIN .. FIELD_ENERGY_MAX /\ en \in Nat
    <3>1. s.energy \in FIELD_ENERGY_MIN .. FIELD_ENERGY_MAX
      BY <2>1, <2>2 DEF FieldInv, SlotsOK, LiveOK
    <3>2. PICK x \in Nat, lo \in Nat, hi \in Nat :
            x = s.energy /\ lo = FIELD_ENERGY_MIN /\ hi = FIELD_ENERGY_MAX /\ lo <= x /\ x <= hi
      BY <3>1, FieldNumbers
    <3>3. PICK d \in Nat : d = (hi - x) \div 16 /\ d <= hi - x
      <4>1. hi - x \in Nat
        BY <3>2
      <4> QED BY <4>1
    <3> QED BY <2>3, <3>2, <3>3
  <2>5. PICK rec : rec = Reinforced(s)
    OBVIOUS
  <2>6. rec \in SlotRecs /\ rec.by = s.by /\ rec.bytes = s.bytes /\ rec.energy = en
    <3>1. ticks \in Nat
      BY DEF FieldInv, FieldTypes
    <3>2. rec = [s EXCEPT !.retrievals = s.retrievals + 1, !.tick = ticks, !.energy = en]
      BY <2>3, <2>5 DEF Reinforced
    <3>3. s.retrievals + 1 \in Nat
      BY DEF SlotRecs
    <3> QED BY <2>4, <3>1, <3>2, <3>3 DEF SlotRecs
  <2>7. LiveOK(rec)
    <3>1. s.bytes \in Resonant
      BY <2>1, <2>2 DEF FieldInv, SlotsOK, LiveOK
    <3> QED BY <2>4, <2>6, <3>1 DEF LiveOK
  <2>8. slot' = [slot EXCEPT ![r][i] = rec]
    <3>1. Reinforce(r, i)
      BY <1>12, <2>1
    <3> QED BY <2>2, <2>5, <3>1 DEF Reinforce
  <2>9. holds[c][r] # {}
    BY <1>1
  <2>10. FieldTypes' /\ SlotsOK' /\ RightsOwn' /\ MarkedIsFromDisk' /\ NoPredecessor'
    BY <1>2, <2>1, <2>2, <2>6, <2>7, <2>8, <2>9, SlotWritten
  <2>11. EvictsStep
    BY <1>7, <2>2, <2>6, <2>8 DEF EvictsStep
  <2> QED BY <1>10, <2>10, <2>11 DEF FieldInv
<1> QED BY <1>1, <1>3, <1>11, <1>12 DEF field_recall

LEMMA WaitKeeps ==
  ASSUME FieldInv, Wait
  PROVE  FieldInv' /\ EvictsStep
<1>1. recalled' = Unasked /\ UNCHANGED <<slot, inheritable, holds, blob>> /\ ticks' = ticks + Jump
  BY DEF Wait
<1>2. ticks' \in Nat
  BY <1>1, FieldNumbers DEF FieldInv, FieldTypes
<1>3. FieldTypes' /\ SlotsOK' /\ RightsOwn' /\ MarkedIsFromDisk' /\ NoPredecessor'
  BY <1>1, <1>2 DEF FieldInv, FieldTypes, SlotsOK, LiveOK, RightsOwn, MarkedIsFromDisk, NoPredecessor
<1> QED BY <1>1, <1>3, UnaskedIs DEF FieldInv, EvictsStep

LEMMA GrantKeeps ==
  ASSUME FieldInv, NEW c \in Citizens, GrantRegions(c)
  PROVE  FieldInv' /\ EvictsStep
<1>1. PICK passing : passing = IF c \in Inherits THEN SpanOf[c] \cap inheritable ELSE {}
  OBVIOUS
<1>2. PICK minted \in SUBSET SpanOf[c] :
        /\ slot' = [r \in Regions |-> IF r \in SpanOf[c] \ passing THEN EmptyRegion ELSE slot[r]]
        /\ holds' = [holds EXCEPT ![c] = [r \in Regions |-> IF r \in minted THEN {"r", "w"} ELSE {}]]
        /\ inheritable' = inheritable \ (minted \cap passing)
  BY <1>1 DEF GrantRegions, field_region_scrub, field_region_inherit_consume
<1>3. recalled' = Unasked /\ UNCHANGED <<blob, ticks>> /\ \A r \in Regions : holds[c][r] = {}
  BY DEF GrantRegions
<1>4. slot \in [Regions -> [Places -> SlotRecs]]
      /\ holds \in [Citizens \cup Agents -> [Regions -> SUBSET {"r", "w"}]]
  BY DEF FieldInv, FieldTypes
<1>5. \A r \in Regions, i \in Places :
        slot'[r][i] = IF r \in SpanOf[c] \ passing THEN Dead ELSE slot[r][i]
  BY <1>2 DEF EmptyRegion
<1>6. /\ \A r \in Regions : holds'[c][r] = IF r \in minted THEN {"r", "w"} ELSE {}
      /\ \A d \in Citizens \cup Agents : d # c => holds'[d] = holds[d]
  BY <1>2, <1>4
<1>7. FieldTypes'
  <2>1. EmptyRegion \in [Places -> SlotRecs]
    BY DeadIs DEF EmptyRegion
  <2>2. slot' \in [Regions -> [Places -> SlotRecs]]
    BY <1>2, <1>4, <2>1
  <2>3. holds' \in [Citizens \cup Agents -> [Regions -> SUBSET {"r", "w"}]]
    BY <1>2, <1>4
  <2> QED BY <1>2, <1>3, <2>2, <2>3 DEF FieldInv, FieldTypes
<1>8. SlotsOK'
  BY <1>5, DeadIs DEF FieldInv, SlotsOK, LiveOK
<1>9. "agent" # c /\ "agent" \in Agents
  BY FieldConstants DEF Agents
<1>10. RightsOwn'
  <2>1. ASSUME NEW d \in Citizens, NEW r \in Regions, holds'[d][r] # {} PROVE r \in SpanOf[d]
    BY <1>2, <1>6, <2>1 DEF FieldInv, RightsOwn
  <2>2. ASSUME NEW r \in Regions, holds'["agent"][r] # {}
        PROVE  \E d \in Citizens : holds'[d][r] # {}
    <3>1. PICK d \in Citizens : holds[d][r] # {}
      BY <1>6, <1>9, <2>2 DEF FieldInv, RightsOwn
    <3>2. d # c
      BY <1>3, <3>1
    <3> QED BY <1>6, <3>1, <3>2
  <2> QED BY <2>1, <2>2 DEF RightsOwn
<1>11. MarkedIsFromDisk'
  <2> SUFFICES ASSUME NEW d \in Citizens, NEW r \in inheritable', d \in Inherits, r \in SpanOf[d]
               PROVE  /\ holds'[d][r] = {}
                      /\ \A i \in Places : slot'[r][i].alive => slot'[r][i].by = "disk"
    BY DEF MarkedIsFromDisk
  <2>1. r \in inheritable /\ r \in Regions
    BY <1>2, SpansAreRegions
  <2>2. holds[d][r] = {} /\ \A i \in Places : slot[r][i].alive => slot[r][i].by = "disk"
    BY <2>1 DEF FieldInv, MarkedIsFromDisk
  <2>3. \A i \in Places : slot'[r][i].alive => slot'[r][i].by = "disk"
    BY <1>5, <2>1, <2>2, DeadIs
  <2>4. CASE d = c
    <3>1. r \in passing
      BY <1>1, <2>1, <2>4
    <3>2. r \notin minted
      BY <1>2, <3>1
    <3> QED BY <1>6, <2>1, <2>3, <2>4, <3>2
  <2>5. CASE d # c
    BY <1>6, <2>2, <2>3, <2>5
  <2> QED BY <2>4, <2>5
<1>12. NoPredecessor'
  <2> SUFFICES ASSUME NEW d \in Citizens, NEW r \in Regions, holds'[d][r] # {}, NEW i \in Places,
                      slot'[r][i].alive
               PROVE  slot'[r][i].by \in {d, "agent"} \/ (slot'[r][i].by = "disk" /\ d \in Inherits)
    BY DEF NoPredecessor
  <2>1. ~(r \in SpanOf[c] \ passing) /\ slot'[r][i] = slot[r][i]
    BY <1>5, DeadIs
  <2>2. CASE d = c
    <3>1. r \in minted /\ r \in SpanOf[c]
      BY <1>2, <1>6, <2>2
    <3>2. r \in passing /\ c \in Inherits /\ r \in inheritable
      BY <1>1, <2>1, <3>1
    <3> QED BY <2>1, <2>2, <3>1, <3>2 DEF FieldInv, MarkedIsFromDisk
  <2>3. CASE d # c
    <3>1. holds[d][r] # {}
      BY <1>6, <2>3
    <3> QED BY <2>1, <3>1 DEF FieldInv, NoPredecessor
  <2> QED BY <2>2, <2>3
<1>13. EvictsStep
  <2>1. "nobody" \notin Citizens \cup Agents
    BY FieldConstants DEF Agents
  <2> QED BY <1>5, <2>1, DeadIs DEF EvictsStep
<1> QED BY <1>3, <1>7, <1>8, <1>10, <1>11, <1>12, <1>13, UnaskedIs DEF FieldInv

LEMMA DelegateKeeps ==
  ASSUME FieldInv, NEW c \in Citizens, Delegate(c)
  PROVE  FieldInv' /\ EvictsStep
<1>1. PICK r \in Regions, rights \in (SUBSET {"r", "w"}) \ {{}} :
        rights \subseteq holds[c][r] /\ holds' = [holds EXCEPT !["agent"][r] = rights]
  BY DEF Delegate
<1>2. recalled' = Unasked /\ UNCHANGED <<slot, inheritable, blob, ticks>>
  BY DEF Delegate
<1>3. holds \in [Citizens \cup Agents -> [Regions -> SUBSET {"r", "w"}]]
  BY DEF FieldInv, FieldTypes
<1>4. "agent" \notin Citizens /\ "agent" \in Citizens \cup Agents
  BY FieldConstants DEF Agents
<1>5. /\ holds' \in [Citizens \cup Agents -> [Regions -> SUBSET {"r", "w"}]]
      /\ \A d \in Citizens : holds'[d] = holds[d]
      /\ \A q \in Regions : q # r => holds'["agent"][q] = holds["agent"][q]
  BY <1>1, <1>3, <1>4
<1>6. FieldTypes'
  BY <1>2, <1>5 DEF FieldInv, FieldTypes
<1>7. SlotsOK' /\ MarkedIsFromDisk' /\ NoPredecessor'
  BY <1>2, <1>5 DEF FieldInv, SlotsOK, LiveOK, MarkedIsFromDisk, NoPredecessor
<1>8. RightsOwn'
  <2>1. \A q \in Regions : holds'["agent"][q] # {} => \E d \in Citizens : holds[d][q] # {}
    <3>1. holds[c][r] # {}
      BY <1>1
    <3> QED BY <1>5, <3>1 DEF FieldInv, RightsOwn
  <2> QED BY <1>5, <2>1 DEF FieldInv, RightsOwn
<1> QED BY <1>2, <1>6, <1>7, <1>8, UnaskedIs DEF FieldInv, EvictsStep

LEMMA DiesKeeps ==
  ASSUME FieldInv, NEW c \in Citizens, Dies(c)
  PROVE  FieldInv' /\ EvictsStep
<1>1. /\ holds' = [d \in Citizens \cup Agents |->
                     [r \in Regions |-> IF d = c \/ (d \in Agents /\ r \in SpanOf[c]) THEN {}
                                        ELSE holds[d][r]]]
      /\ slot' = [r \in Regions |-> IF holds[c][r] = {} THEN slot[r]
                    ELSE [i \in Places |-> IF slot[r][i].alive THEN [slot[r][i] EXCEPT !.by = "gone"]
                                           ELSE slot[r][i]]]
      /\ recalled' = Unasked /\ UNCHANGED <<inheritable, blob, ticks>>
  BY DEF Dies
<1>2. slot \in [Regions -> [Places -> SlotRecs]]
      /\ holds \in [Citizens \cup Agents -> [Regions -> SUBSET {"r", "w"}]]
  BY DEF FieldInv, FieldTypes
<1>3. \A s \in SlotRecs : /\ [s EXCEPT !.by = "gone"] \in SlotRecs
                          /\ [s EXCEPT !.by = "gone"].alive = s.alive
                          /\ [s EXCEPT !.by = "gone"].bytes = s.bytes
                          /\ [s EXCEPT !.by = "gone"].energy = s.energy
  BY DEF SlotRecs, Authors
<1>4. \A r \in Regions, i \in Places :
        /\ slot'[r][i] \in SlotRecs
        /\ slot'[r][i].alive = slot[r][i].alive
        /\ slot'[r][i].bytes = slot[r][i].bytes
        /\ slot'[r][i].energy = slot[r][i].energy
        /\ holds[c][r] = {} => slot'[r][i] = slot[r][i]
  <2> TAKE r \in Regions, i \in Places
  <2>1. PICK s \in SlotRecs : s = slot[r][i]
    BY <1>2
  <2>2. slot'[r][i] = IF holds[c][r] = {} \/ ~s.alive THEN s ELSE [s EXCEPT !.by = "gone"]
    BY <1>1, <2>1
  <2> QED BY <1>3, <2>1, <2>2
<1>5. slot' \in [Regions -> [Places -> SlotRecs]]
  <2>1. \A r \in Regions : slot'[r] \in [Places -> SlotRecs]
    <3> TAKE r \in Regions
    <3>1. slot'[r] = IF holds[c][r] = {} THEN slot[r]
                     ELSE [i \in Places |-> IF slot[r][i].alive THEN [slot[r][i] EXCEPT !.by = "gone"]
                                            ELSE slot[r][i]]
      BY <1>1
    <3> QED BY <1>2, <1>3, <3>1
  <2> QED BY <1>1, <2>1
<1>6. \A d \in Citizens \cup Agents, r \in Regions :
        holds'[d][r] = IF d = c \/ (d \in Agents /\ r \in SpanOf[c]) THEN {} ELSE holds[d][r]
  BY <1>1
<1>7. holds' \in [Citizens \cup Agents -> [Regions -> SUBSET {"r", "w"}]]
  BY <1>1, <1>2
<1>8. FieldTypes'
  BY <1>1, <1>5, <1>7 DEF FieldInv, FieldTypes
<1>9. SlotsOK'
  BY <1>4 DEF FieldInv, SlotsOK, LiveOK
<1>10. RightsOwn'
  <2>1. ASSUME NEW d \in Citizens, NEW r \in Regions, holds'[d][r] # {} PROVE r \in SpanOf[d]
    BY <1>6, <2>1 DEF FieldInv, RightsOwn
  <2>2. ASSUME NEW r \in Regions, holds'["agent"][r] # {}
        PROVE  \E d \in Citizens : holds'[d][r] # {}
    <3>1. "agent" \in Agents /\ "agent" \in Citizens \cup Agents
      BY DEF Agents
    <3>2. holds["agent"][r] # {} /\ r \notin SpanOf[c]
      BY <1>6, <2>2, <3>1
    <3>3. PICK d \in Citizens : holds[d][r] # {}
      BY <3>2 DEF FieldInv, RightsOwn
    <3>4. r \in SpanOf[d]
      BY <3>3 DEF FieldInv, RightsOwn
    <3>5. d # c /\ d \notin Agents
      BY <3>2, <3>4, FieldConstants DEF Agents
    <3> QED BY <1>6, <3>3, <3>5
  <2> QED BY <2>1, <2>2 DEF RightsOwn
<1>11. \A d \in Citizens, r \in Regions : (d # c \/ holds[c][r] = {}) /\ r \in SpanOf[d] => holds[c][r] = {}
  BY FieldConstants DEF FieldInv, RightsOwn
<1>12. MarkedIsFromDisk'
  <2> SUFFICES ASSUME NEW d \in Citizens, NEW r \in inheritable, d \in Inherits, r \in SpanOf[d]
               PROVE  /\ holds'[d][r] = {}
                      /\ \A i \in Places : slot'[r][i].alive => slot'[r][i].by = "disk"
    <3>1. inheritable' = inheritable
      BY <1>1
    <3> QED BY <3>1 DEF MarkedIsFromDisk
  <2>1. r \in Regions
    BY SpansAreRegions
  <2>2. holds[d][r] = {} /\ \A i \in Places : slot[r][i].alive => slot[r][i].by = "disk"
    BY DEF FieldInv, MarkedIsFromDisk
  <2>3. holds[c][r] = {}
    BY <1>11, <2>1, <2>2
  <2> QED BY <1>4, <1>6, <2>1, <2>2, <2>3
<1>13. NoPredecessor'
  <2> SUFFICES ASSUME NEW d \in Citizens, NEW r \in Regions, holds'[d][r] # {}, NEW i \in Places,
                      slot'[r][i].alive
               PROVE  slot'[r][i].by \in {d, "agent"} \/ (slot'[r][i].by = "disk" /\ d \in Inherits)
    BY DEF NoPredecessor
  <2>1. d # c /\ holds[d][r] # {}
    BY <1>6
  <2>2. holds[c][r] = {}
    BY <1>11, <2>1 DEF FieldInv, RightsOwn
  <2> QED BY <1>4, <2>1, <2>2 DEF FieldInv, NoPredecessor
<1> QED BY <1>1, <1>4, <1>8, <1>9, <1>10, <1>12, <1>13, UnaskedIs DEF FieldInv, EvictsStep

LEMMA SavesKeep ==
  ASSUME FieldInv, field_blob_write \/ Scribble
  PROVE  FieldInv' /\ EvictsStep
<1>1. recalled' = Unasked /\ UNCHANGED <<slot, inheritable, holds, ticks>>
  BY DEF field_blob_write, Scribble
<1>2. blob' \in [Regions -> [Places -> SlotRecs]]
  <2>1. CASE field_blob_write
    BY <2>1 DEF field_blob_write, FieldInv, FieldTypes
  <2>2. CASE Scribble
    <3>1. PICK r \in Regions, i \in Places, p \in Patterns \cup {<<>>}, e \in {0, 2 * FIELD_ENERGY_MAX} :
            blob' = [blob EXCEPT ![r][i] = [Dead EXCEPT !.alive = TRUE, !.bytes = p, !.energy = e]]
      BY <2>2 DEF Scribble
    <3>2. e \in Nat
      BY FieldNumbers
    <3>3. [Dead EXCEPT !.alive = TRUE, !.bytes = p, !.energy = e] \in SlotRecs
      BY <3>2, DeadIs DEF SlotRecs
    <3> QED BY <3>1, <3>3 DEF FieldInv, FieldTypes
  <2> QED BY <2>1, <2>2
<1>3. FieldTypes' /\ SlotsOK' /\ RightsOwn' /\ MarkedIsFromDisk' /\ NoPredecessor'
  BY <1>1, <1>2 DEF FieldInv, FieldTypes, SlotsOK, LiveOK, RightsOwn, MarkedIsFromDisk, NoPredecessor
<1> QED BY <1>1, <1>3, UnaskedIs DEF FieldInv, EvictsStep

LEMMA LoadedIs ==
  ASSUME NEW rec \in SlotRecs
  PROVE  Loaded(rec) \in SlotRecs /\ LiveOK(Loaded(rec)) /\ Loaded(rec).by \in {"disk", "nobody"}
         /\ (Loaded(rec).alive => Loaded(rec).by = "disk")
<1>1. CASE ~rec.alive \/ Len(rec.bytes) \notin 1 .. FIELD_PAT_MAX \/ Degenerate(rec.bytes)
  BY <1>1, DeadIs DEF Loaded
<1>2. CASE ~(~rec.alive \/ Len(rec.bytes) \notin 1 .. FIELD_PAT_MAX \/ Degenerate(rec.bytes))
  <2>1. PICK en : en = Clamp(rec.energy, FIELD_ENERGY_MIN, FIELD_ENERGY_MAX)
    OBVIOUS
  <2>2. en \in FIELD_ENERGY_MIN .. FIELD_ENERGY_MAX /\ en \in Nat
    <3>1. PICK lo \in Nat, hi \in Nat : lo = FIELD_ENERGY_MIN /\ hi = FIELD_ENERGY_MAX /\ lo <= hi
      BY FieldNumbers
    <3>2. PICK x \in Int : x = rec.energy
      BY DEF SlotRecs
    <3>3. Clamp(x, lo, hi) \in lo .. hi
      BY <3>1, ClampIsInt
    <3>4. en \in lo .. hi
      BY <2>1, <3>1, <3>2, <3>3
    <3> QED BY <3>1, <3>4
  <2>3. PICK v : v = [rec EXCEPT !.energy = en, !.tick = 0, !.by = "disk"]
    OBVIOUS
  <2>4. Loaded(rec) = v
    BY <1>2, <2>1, <2>3 DEF Loaded
  <2>5. v \in SlotRecs /\ v.by = "disk" /\ v.bytes = rec.bytes /\ v.energy = en
    BY <2>2, <2>3 DEF SlotRecs, Authors
  <2>6. rec.bytes \in Resonant
    <3>1. rec.bytes # <<>>
      <4>1. ASSUME rec.bytes = <<>> PROVE FALSE
        <5>1. Len(<<>>) = 0 /\ 0 \notin 1 .. FIELD_PAT_MAX
          OBVIOUS
        <5> QED BY <1>2, <4>1, <5>1
      <4> QED BY <4>1
    <3>2. rec.bytes \in Patterns
      BY <3>1 DEF SlotRecs
    <3> QED BY <1>2, <3>2 DEF Resonant
  <2> QED BY <2>2, <2>4, <2>5, <2>6 DEF LiveOK
<1> QED BY <1>1, <1>2

LEMMA FieldBootKeeps ==
  ASSUME FieldInv, FieldBoot
  PROVE  FieldInv' /\ EvictsStep
<1>1. holds' = NoRights /\ ticks' = 0 /\ recalled' = Unasked /\ blob' = blob
      /\ (field_blob_load \/ ColdField0)
  BY DEF FieldBoot
<1>2. blob \in [Regions -> [Places -> SlotRecs]]
  BY DEF FieldInv, FieldTypes
<1>3. /\ slot' \in [Regions -> [Places -> SlotRecs]]
      /\ \A r \in Regions, i \in Places :
           /\ LiveOK(slot'[r][i])
           /\ slot'[r][i].by \in {"disk", "nobody"}
           /\ slot'[r][i].alive => slot'[r][i].by = "disk"
      /\ inheritable' \subseteq Regions
  <2>1. CASE field_blob_load
    <3>1. slot' = [r \in Regions |-> [i \in Places |-> Loaded(blob[r][i])]]
          /\ inheritable' \subseteq Regions
      BY <2>1 DEF field_blob_load
    <3>2. \A r \in Regions, i \in Places : blob[r][i] \in SlotRecs
      BY <1>2
    <3>3. \A r \in Regions, i \in Places : slot'[r][i] = Loaded(blob[r][i])
      BY <3>1
    <3>4. slot' \in [Regions -> [Places -> SlotRecs]]
      BY <3>1, <3>2, LoadedIs
    <3> QED BY <3>1, <3>2, <3>3, <3>4, LoadedIs
  <2>2. CASE ColdField0
    <3>1. slot' = [r \in Regions |-> EmptyRegion] /\ inheritable' = {}
      BY <2>2 DEF ColdField0
    <3>2. \A r \in Regions, i \in Places : slot'[r][i] = Dead
      BY <3>1 DEF EmptyRegion
    <3>3. EmptyRegion \in [Places -> SlotRecs]
      BY DeadIs DEF EmptyRegion
    <3>4. slot' \in [Regions -> [Places -> SlotRecs]]
      BY <3>1, <3>3
    <3> QED BY <3>1, <3>2, <3>4, DeadIs
  <2> QED BY <1>1, <2>1, <2>2
<1>4. \A d \in Citizens \cup Agents, r \in Regions : holds'[d][r] = {}
  BY <1>1 DEF NoRights
<1>5. FieldTypes'
  <2>1. NoRights \in [Citizens \cup Agents -> [Regions -> SUBSET {"r", "w"}]]
    BY DEF NoRights
  <2> QED BY <1>1, <1>2, <1>3, <2>1 DEF FieldTypes
<1>6. SlotsOK'
  BY <1>3 DEF SlotsOK, LiveOK
<1>7. RightsOwn' /\ NoPredecessor'
  BY <1>4 DEF RightsOwn, NoPredecessor, Agents
<1>8. MarkedIsFromDisk'
  <2>1. \A d \in Citizens : SpanOf[d] \subseteq Regions
    BY SpansAreRegions
  <2> QED BY <1>3, <1>4, <2>1 DEF MarkedIsFromDisk
<1>9. EvictsStep
  <2>1. "nobody" \notin Citizens \cup Agents /\ "disk" \notin Citizens \cup Agents
    BY FieldConstants DEF Agents
  <2> QED BY <1>3, <2>1 DEF EvictsStep
<1> QED BY <1>1, <1>5, <1>6, <1>7, <1>8, <1>9, UnaskedIs DEF FieldInv

LEMMA FieldStill ==
  ASSUME FieldInv, UNCHANGED fieldVars
  PROVE  FieldInv'
<1>1. UNCHANGED <<slot, inheritable, holds, blob, ticks, recalled>>
  BY DEF fieldVars
<1> QED BY <1>1 DEF FieldInv, FieldTypes, SlotsOK, LiveOK, RightsOwn, MarkedIsFromDisk,
                     NoPredecessor, BestFirst

LEMMA FieldKept ==
  ASSUME FieldInv, FieldNext
  PROVE  FieldInv' /\ EvictsStep
BY ImprintKeeps, RecallKeeps, GrantKeeps, DelegateKeeps, DiesKeeps, WaitKeeps, SavesKeep,
   FieldBootKeeps DEF FieldNext

(* The inductive invariant of the field, for any regions, slots, patterns, *)
(* citizens and energies (field.c, service.c, persist.c).                  *)
THEOREM FieldInvariant == FieldSpec => []FieldInv
<1>1. FieldInv /\ [FieldNext]_fieldVars => FieldInv'
  BY FieldKept, FieldStill
<1> QED BY <1>1, FieldStarts, PTL DEF FieldSpec

(* Nobody reads what a predecessor left, unless it asked the disk for it;  *)
(* energies stay within their bounds; a recall is the best of what is      *)
(* there, best first (field_imprint, field_recall,                         *)
(* field_region_inherit_consume).  That a pattern resonates with itself no *)
(* less than with others is a fact about the stored patterns, which the    *)
(* rounding of the wavefronts leaves to be checked for the patterns used.  *)
THEOREM FieldIsSound ==
  ASSUME SelfResonant
  PROVE  FieldSpec => []FieldSound
<1>1. FieldInv => FieldSound
  BY SoundFromInv
<1> QED BY <1>1, FieldInvariant, PTL

(* An imprint evicts only the pattern that is weakest by then              *)
(* (field_imprint, effective_energy).                                      *)
THEOREM WeakestIsEvicted == FieldSpec => EvictsTheWeakest
<1>1. FieldInv /\ [FieldNext]_fieldVars => [EvictsStep]_fieldVars
  BY FieldKept
<1>2. [EvictsStep]_fieldVars => [\A r \in Regions, i \in Places :
       (slot[r][i].alive /\ slot'[r][i].bytes # slot[r][i].bytes /\ slot'[r][i].by \in Citizens \cup Agents)
         => \A j \in Places :
              slot[r][j].alive /\ effective_energy(slot[r][i]) <= effective_energy(slot[r][j])
    ]_fieldVars
  BY DEF EvictsStep
<1> QED BY <1>1, <1>2, FieldInvariant, PTL DEF FieldSpec, EvictsTheWeakest
=============================================================================

------------------------------ MODULE CapTable ------------------------------
(***************************************************************************)
(* The kernel's capability table (kernel/src/capability.c) as a value and  *)
(* the operations on it as operators from table to table, so that the      *)
(* state machines that use the table (Capability, Lifecycle) can make      *)
(* several changes to it inside one interrupts-off step.                   *)
(*                                                                         *)
(* A table is a record                                                     *)
(*   cap        : the capability in every slot in use.  Its domain is the  *)
(*                set of slots whose in_use flag is set; what a freed slot *)
(*                still holds is never read by the code.                   *)
(*   generation : the 16-bit generation of every slot                      *)
(*   hwm        : cap_hwm, one more than the highest slot ever used        *)
(*   active     : stats.active, the count SYS_SPAWN's capacity check reads *)
(*                                                                         *)
(* Permission words are sets of bits.  The informational flags             *)
(* (is_revocable is always 1, is_inherited, is_spawn_channel) and the      *)
(* other statistics are left out: no decision of the code reads them.      *)
(***************************************************************************)
EXTENDS Naturals, FiniteSets

CONSTANTS MaxCaps,    \* MAX_CAPABILITIES (1024)
          GenMod,     \* number of generations a slot has: 2^16
          Perms       \* the permission bits

ASSUME MaxCapsAssumption == MaxCaps \in Nat \ {0}
ASSUME GenModAssumption == GenMod \in Nat \ {0}
ASSUME PermsAssumption == {"GRANT", "REVOKE"} \subseteq Perms

Slots == 0 .. (MaxCaps - 1)
Generations == 0 .. (GenMod - 1)

(* A cap_id is (generation << 16) | (index + 1), kept as the pair of its   *)
(* two halves.  Index half 0 is CAP_ID_INVALID.                            *)
make_cap_id(s, g) == <<s + 1, g>>
CAP_ID_INVALID == <<0, 0>>

EmptyTable == [cap        |-> [s \in {} |-> 0],
               generation |-> [s \in Slots |-> 0],
               hwm        |-> 0,
               active     |-> 0]

InUse(ct) == DOMAIN ct.cap
HandleOf(ct, s) == make_cap_id(s, ct.generation[s])

(* resolve(): the slots (none or one) that a cap_id names; a stale         *)
(* generation, a free slot and CAP_ID_INVALID name none.                   *)
resolve(ct, id) == {s \in InUse(ct) : HandleOf(ct, s) = id}

is_expired(c, now) == c.expiration # 0 /\ now >= c.expiration

FreeSlots(ct) == Slots \ InUse(ct)

(* The slot alloc_slot() picks: the first free one.                        *)
FirstFree(ct) ==
  CHOOSE s \in FreeSlots(ct) : \A t \in FreeSlots(ct) : s <= t

(* alloc_slot() and the stores that follow it; only when a slot is free.   *)
Mint(ct, c) ==
  LET s == FirstFree(ct)
  IN  [cap        |-> [t \in InUse(ct) \cup {s} |->
                          IF t = s THEN c ELSE ct.cap[t]],
       generation |-> ct.generation,
       hwm        |-> IF s + 1 > ct.hwm THEN s + 1 ELSE ct.hwm,
       active     |-> ct.active + 1]

(* Mutant: a free that leaves the generation alone.                        *)
FreeKeepsGeneration(ct, F) ==
  [cap        |-> [t \in InUse(ct) \ F |-> ct.cap[t]],
   generation |-> ct.generation,
   hwm        |-> ct.hwm,
   active     |-> ct.active - Cardinality(F)]

(* free_slot() on every slot of F.                                         *)
Free(ct, F) ==
  [cap        |-> [t \in InUse(ct) \ F |-> ct.cap[t]],
   generation |-> [t \in Slots |->
                     IF t \in F THEN (ct.generation[t] + 1) % GenMod
                                ELSE ct.generation[t]],
   hwm        |-> ct.hwm,
   active     |-> ct.active - Cardinality(F)]

Root(owner, res, perms, exp) ==
  [owner |-> owner, res |-> res, perms |-> perms, expiration |-> exp,
   parent |-> CAP_ID_INVALID]

(* cap_create(): the table itself when there is no space.                  *)
cap_create(ct, owner, res, perms, exp) ==
  IF FreeSlots(ct) = {} THEN ct ELSE Mint(ct, Root(owner, res, perms, exp))

(* A child may never outlive its parent's expiration.                      *)
ClampExpiration(exp, parentExp) ==
  IF parentExp # 0 /\ (exp = 0 \/ exp > parentExp) THEN parentExp ELSE exp

(* The checks cap_derive() makes before it allocates.                      *)
MayDerive(ct, p, requester, perms, now) ==
  /\ ct.cap[p].owner = requester
  /\ ~ is_expired(ct.cap[p], now)
  /\ "GRANT" \in ct.cap[p].perms
  /\ perms \subseteq ct.cap[p].perms

Child(ct, p, owner, perms, exp) ==
  [owner |-> owner, res |-> ct.cap[p].res, perms |-> perms,
   expiration |-> ClampExpiration(exp, ct.cap[p].expiration),
   parent |-> HandleOf(ct, p)]

(* cap_derive() by the owner of the capability in slot p; the table itself *)
(* when a check fails or there is no space.                                *)
cap_derive(ct, p, requester, owner, perms, exp, now) ==
  IF MayDerive(ct, p, requester, perms, now) /\ FreeSlots(ct) # {}
  THEN Mint(ct, Child(ct, p, owner, perms, exp))
  ELSE ct

Derived(ct) == {s \in InUse(ct) : ct.cap[s].parent # CAP_ID_INVALID}
IsChildOf(ct, s, p) == ct.cap[s].parent = HandleOf(ct, p)

(* R holds every capability derived from one in S or in R.                 *)
HoldsChildren(ct, S, R) ==
  \A s \in Derived(ct) : (\E p \in S \cup R : IsChildOf(ct, s, p)) => s \in R

(* What revoke_children_of() frees when it is run on every slot of S, and  *)
(* S itself: the least set that is closed under derivation.                *)
Descendants(ct, S) ==
  {s \in Derived(ct) :
     \A R \in SUBSET Derived(ct) : HoldsChildren(ct, S, R) => s \in R}
CascadeOneLevel(ct, S) ==   \* mutant: grandchildren are forgotten
  S \cup {s \in Derived(ct) : \E p \in S : IsChildOf(ct, s, p)}
Cascade(ct, S) == S \cup Descendants(ct, S)

(* The walk cap_revoke() makes up the parent chain: does requester own an  *)
(* ancestor of s that carries CAP_REVOKE?                                  *)
OwnsRevokingAncestor(ct, s, requester) ==
  \E p \in InUse(ct) : /\ s \in Descendants(ct, {p})
                       /\ ct.cap[p].owner = requester
                       /\ "REVOKE" \in ct.cap[p].perms

MayRevoke(ct, s, requester) ==
  \/ ct.cap[s].owner = requester
  \/ OwnsRevokingAncestor(ct, s, requester)

cap_revoke(ct, s, requester) ==
  IF MayRevoke(ct, s, requester) THEN Free(ct, Cascade(ct, {s})) ELSE ct

OwnedBy(ct, pids) == {s \in InUse(ct) : ct.cap[s].owner \in pids}
IpcTo(pid) == <<"IPC", pid>>
IpcNaming(ct, pids) ==
  {s \in InUse(ct) : \E p \in pids : ct.cap[s].res = IpcTo(p)}

(* Mutant: the unlink sweep forgets to look at the resource type.          *)
UnlinkAnyType(ct, pids) ==
  Free(ct, Cascade(ct, {s \in InUse(ct) : ct.cap[s].res[2] \in pids}))

(* The two death sweeps of process_destroy(), for a set of dying pids.     *)
cap_revoke_all_for_process(ct, pids) ==
  Free(ct, Cascade(ct, OwnedBy(ct, pids)))
cap_revoke_ipc_targets(ct, pids) ==
  Free(ct, Cascade(ct, IpcNaming(ct, pids)))

(* The slots the lookups accept; they scan only [0, cap_hwm).              *)
Matching(ct, pid, need, now) ==
  {s \in InUse(ct) : /\ s < ct.hwm
                     /\ ct.cap[s].owner = pid
                     /\ need \subseteq ct.cap[s].perms
                     /\ ~ is_expired(ct.cap[s], now)}

(* cap_find_resource() succeeds / the slots cap_find_id() may return.      *)
MatchingResource(ct, pid, res, need, now) ==
  {s \in Matching(ct, pid, need, now) : ct.cap[s].res = res}
cap_find_resource(ct, pid, res, need, now) ==
  MatchingResource(ct, pid, res, need, now) # {}

Lowest(S) == CHOOSE s \in S : \A t \in S : s <= t
cap_find_id(ct, pid, res, need, now) ==
  Lowest(MatchingResource(ct, pid, res, need, now))
-----------------------------------------------------------------------------
(* What the operations keep true of a table.                               *)

(* Its shape.                                                              *)
TableShape(ct) ==
  /\ ct = [cap |-> ct.cap, generation |-> ct.generation,
           hwm |-> ct.hwm, active |-> ct.active]
  /\ InUse(ct) \subseteq Slots
  /\ ct.generation \in [Slots -> Generations]
  /\ ct.hwm \in 0 .. MaxCaps
  /\ ct.active \in Nat

(* The parent of every derived capability is in the table and the child is *)
(* no wider than it.                                                       *)
Narrower(c, p) ==
  /\ c.res = p.res
  /\ c.perms \subseteq p.perms
  /\ "GRANT" \in p.perms
  /\ p.expiration # 0 => c.expiration # 0 /\ c.expiration <= p.expiration
SoundDerivations(ct) ==
  \A s \in Derived(ct) :
    \E p \in InUse(ct) : IsChildOf(ct, s, p) /\ Narrower(ct.cap[s], ct.cap[p])

(* No capability is its own ancestor: every nonempty set of derived ones   *)
(* has a member whose parent is outside the set.                           *)
NoDerivationCycle(ct) ==
  \A S \in SUBSET Derived(ct) :
    S # {} => \E s \in S : \A p \in S : ~ IsChildOf(ct, s, p)

(* cap_hwm bounds the slots in use and stats.active counts them.           *)
ExactBounds(ct) ==
  /\ \A s \in InUse(ct) : s < ct.hwm
  /\ ct.active = Cardinality(InUse(ct))
=============================================================================

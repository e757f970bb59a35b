----------------------------- MODULE Capability -----------------------------
(***************************************************************************)
(* The capability API of kernel/src/capability.c as a state machine.  Each *)
(* operation is one step: every caller runs with interrupts off on the     *)
(* only CPU (a system call, start_slot's and service_stop's brackets, the  *)
(* idle loop's reaper).  The API is modelled as general as it is written:  *)
(* a derived capability may itself carry CAP_GRANT, so derivation chains   *)
(* of any depth arise, although SYS_CAP_DERIVE (module Lifecycle) only     *)
(* makes chains of one hop.                                                *)
(*                                                                         *)
(* Callers name a capability by a cap_id they were once given.  The        *)
(* history variable issued remembers every cap_id handed out, with the     *)
(* capability it was handed out for, so that operations can be called with *)
(* stale ids; wrapped records that some slot's 16-bit generation has gone  *)
(* round, after which the ids of that slot repeat.                         *)
(***************************************************************************)
EXTENDS CapTable

CONSTANTS Pids,         \* owners
          Resources,    \* the guarded resources, pairs <<type, id>>
          PermWords,    \* the permission words callers ask for
          Expirations,  \* expirations callers ask for, 0 = never
          MaxTicks,     \* bound on the clock
          MaxMints      \* bound on the number of capabilities ever minted

ASSUME PermWordsAssumption == PermWords \subseteq SUBSET Perms
ASSUME ExpirationsAssumption == Expirations \subseteq Nat
ASSUME BoundsAssumption == MaxTicks \in Nat /\ MaxMints \in Nat

VARIABLES ct,       \* cap_table, cap_hwm and stats.active
          now,      \* timer_get_ticks()
          mints,    \* history: capabilities minted so far
          issued,   \* history: the ids handed out and what they were for
          wrapped   \* history: a generation has wrapped around

vars == <<ct, now, mints, issued, wrapped>>

Handles == {make_cap_id(s, g) : s \in Slots, g \in Generations}

Capabilities ==
  [owner : Pids, res : Resources, perms : SUBSET Perms, expiration : Nat,
   parent : {CAP_ID_INVALID} \cup Handles]

Init == /\ ct = EmptyTable
        /\ now = 0
        /\ mints = 0
        /\ issued = {}
        /\ wrapped = FALSE

(* The clock: the timer interrupt.                                         *)
Tick == /\ now < MaxTicks
        /\ now' = now + 1
        /\ UNCHANGED <<ct, mints, issued, wrapped>>

(* Bookkeeping of the history variables around an allocation ...           *)
Allocates(c) ==
  /\ mints < MaxMints
  /\ FreeSlots(ct) # {}
  /\ mints' = mints + 1
  /\ issued' = issued \cup {[id |-> HandleOf(ct, FirstFree(ct)), cap |-> c]}
  /\ UNCHANGED <<now, wrapped>>

(* ... and around the release of the slots in F.                           *)
Releases(F) ==
  /\ wrapped' = (wrapped \/ \E s \in F : ct.generation[s] = GenMod - 1)
  /\ UNCHANGED <<now, mints, issued>>

CapCreate(owner, res, perms, exp) ==
  /\ Allocates(Root(owner, res, perms, exp))
  /\ ct' = cap_create(ct, owner, res, perms, exp)

CapDerive(id, requester, owner, perms, exp) ==
  \E p \in resolve(ct, id) :
    /\ MayDerive(ct, p, requester, perms, now)
    /\ Allocates(Child(ct, p, owner, perms, exp))
    /\ ct' = cap_derive(ct, p, requester, owner, perms, exp, now)

CapRevoke(id, requester) ==
  \E s \in resolve(ct, id) :
    /\ MayRevoke(ct, s, requester)
    /\ ct' = cap_revoke(ct, s, requester)
    /\ Releases(Cascade(ct, {s}))

(* The two sweeps, in the order process_destroy() runs them.               *)
ProcessDies(pid) ==
  LET owned == Cascade(ct, OwnedBy(ct, {pid}))
      ct1   == cap_revoke_all_for_process(ct, {pid})
      named == Cascade(ct1, IpcNaming(ct1, {pid}))
  IN  /\ ct' = cap_revoke_ipc_targets(ct1, {pid})
      /\ Releases(owned \cup named)

Next ==
  \/ Tick
  \/ \E o \in Pids, r \in Resources, ps \in PermWords, e \in Expirations :
       CapCreate(o, r, ps, e)
  \/ \E h \in issued, q \in Pids, o \in Pids, ps \in PermWords, e \in Expirations :
       CapDerive(h.id, q, o, ps, e)
  \/ \E h \in issued, q \in Pids : CapRevoke(h.id, q)
  \/ \E p \in Pids : ProcessDies(p)

Spec == Init /\ [][Next]_vars
-----------------------------------------------------------------------------
TypeOK ==
  /\ TableShape(ct)
  /\ ct.cap \in [InUse(ct) -> Capabilities]
  /\ now \in Nat
  /\ mints \in Nat
  /\ issued \subseteq [id : Handles, cap : Capabilities]
  /\ wrapped \in BOOLEAN

(* Least privilege holds along every derivation: the parent named by a     *)
(* derived capability's parent_cap is still in the table (revocation       *)
(* cascades, so no child is left dangling, and the slot of a revoked       *)
(* parent is never mistaken for it), guards the same resource, carries     *)
(* CAP_GRANT and every bit of the child, and expires no earlier            *)
(* (cap_derive, revoke_children_of).                                       *)
DerivationSound == SoundDerivations(ct)

(* The derivation relation has no cycle, so the recursion in               *)
(* revoke_children_of and the ancestor walk in cap_revoke end: every       *)
(* nonempty set of derived capabilities has one whose parent is outside it.*)
RevocationEnds == NoDerivationCycle(ct)

(* The high-water mark and the counter never lose track of the table: the  *)
(* lookups, which scan only [0, cap_hwm), miss no capability, and          *)
(* stats.active, by which SYS_SPAWN judges whether there is room, is the   *)
(* number of slots in use (alloc_slot, free_slot).                         *)
BoundsExact == ExactBounds(ct)

(* What every check and every sweep relies on, together.                   *)
CapabilitiesSound == DerivationSound /\ RevocationEnds /\ BoundsExact

(* A cap_id that outlived its capability never reaches another one, as     *)
(* long as no slot's generation has wrapped: whatever an issued id         *)
(* resolves to is the capability it was issued for (make_cap_id, resolve,  *)
(* the generation bump of free_slot).                                      *)
StaleIdsFail ==
  ~ wrapped => \A h \in issued : \A s \in resolve(ct, h.id) : ct.cap[s] = h.cap

(* After a process has died nothing in the table is owned by its pid and   *)
(* no IPC capability names it, whatever chains of derivation led there     *)
(* (cap_revoke_all_for_process, cap_revoke_ipc_targets); and the death     *)
(* takes with it only what it must: a surviving capability is unchanged,   *)
(* and one that is freed descends from a capability owned by or, for IPC,  *)
(* naming the dead pid.                                                    *)
DeathStep(pid) ==
  /\ OwnedBy(ct', {pid}) = {}
  /\ IpcNaming(ct', {pid}) = {}
  /\ \A s \in InUse(ct') : s \in InUse(ct) /\ ct'.cap[s] = ct.cap[s]
  /\ InUse(ct) \ InUse(ct')
       \subseteq Cascade(ct, OwnedBy(ct, {pid}) \cup IpcNaming(ct, {pid}))
DeathIsExact == [][\A p \in Pids : ProcessDies(p) => DeathStep(p)]_vars
=============================================================================

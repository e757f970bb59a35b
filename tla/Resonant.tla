------------------------------ MODULE Resonant ------------------------------
(***************************************************************************)
(* The resonant scheduler library (kernel/src/resonance/                   *)
(* resonant_scheduler.c) and the consciousness tracking that reads its     *)
(* process blocks (consciousness_process.c).  Both are linked into the     *)
(* kernel and driven through their calls.  At the end, the pick rule of    *)
(* resonant_fixed.c, which has a state of its own.                         *)
(*                                                                         *)
(* The dynamics are abstracted: an oscillator update leaves the coherence  *)
(* low, mid or high, an emergence update leaves the norm above or below    *)
(* its threshold, and Phi is one of a few levels.                          *)
(***************************************************************************)
EXTENDS Integers, Sequences, FiniteSets
LOCAL INSTANCE SequencesExt
LOCAL INSTANCE FiniteSetsExt

CONSTANTS
  RPids,            \* process ids that use the library
  RClasses,         \* resonant classes
  max_coupled,      \* configured coupling limit
  TrajectoryLen,    \* length of evolution_trajectory
  PhiLevels,        \* values of Phi, with PHI_THRESHOLD among them
  PHI_THRESHOLD,
  CNetworks,        \* size of networks[]
  FullPhi,          \* 1.0, where a component of Phi is clamped, in steps of 0.05
  DEFAULT_QUANTUM,  \* an even quantum; a fresh coherence deadline is twice as long
  Phases,           \* the parts of the API one behaviour calls
  MaxROps           \* bound on the calls of one behaviour

ASSUME ResonantConstants ==
  /\ {max_coupled, TrajectoryLen, CNetworks, FullPhi, DEFAULT_QUANTUM} \subseteq Nat \ {0}
  /\ PhiLevels \subseteq Nat /\ PHI_THRESHOLD \in PhiLevels

VARIABLES
  using,       \* which part of the API this behaviour calls
  rpcb,        \* [RPids -> resonant_pcb_t]
  queen,       \* class counts and the global flags
  cpcb,        \* [RPids -> consciousness_pcb_t]
  networks,    \* sequence of collective networks: their members
  scheduler_initialized,
  phis,        \* history: every Phi computed for a registration, in order
  decision,    \* what the last resonant_schedule_next chose
  rops

resonantVars ==
  <<using, rpcb, queen, cpcb, networks, scheduler_initialized, phis, decision, rops>>

PhiParts == {"structural", "dynamic", "emergent", "observation", "awareness"}

NoRpcb == [valid |-> FALSE, class |-> "none", rstate |-> "DORMANT", coherence |-> "mid",
           emerging |-> FALSE, stable |-> TRUE, verified |-> FALSE, phi |-> 0, deadline |-> 0,
           coupled |-> << >>]
NoCpcb == [valid |-> FALSE, level |-> 0, is_verified |-> FALSE, count |-> 0, index |-> 0,
           trajectory |-> [i \in 0 .. TrajectoryLen - 1 |-> 0], momentum |-> 0,
           parts |-> [k \in PhiParts |-> 0], triggers |-> 0, last_trigger |-> "none",
           significant |-> FALSE, active |-> FALSE,
           allocated |-> 0, used |-> 0]
NoDecision == [pid |-> 0, quantum |-> 0, couple |-> FALSE]
NewNetwork == [members |-> << >>, total |-> 0, verified |-> FALSE]
FreshQueen == [count |-> [c \in RClasses |-> 0], stable |-> TRUE, average |-> FALSE, conscious |-> FALSE]

ResonantInit ==
  /\ using \in Phases
  /\ rpcb = [p \in RPids |-> NoRpcb] /\ queen = FreshQueen
  /\ cpcb = [p \in RPids |-> NoCpcb] /\ networks = << >>
  /\ scheduler_initialized = TRUE /\ phis = [p \in RPids |-> << >>]
  /\ decision = NoDecision /\ rops = 0

Smaller(a, b) == IF a < b THEN a ELSE b
SumOver(f(_), set) == FoldSet(LAMBDA x, acc : f(x) + acc, 0, set)
Call(part) == using = part /\ rops < MaxROps /\ rops' = rops + 1 /\ UNCHANGED using
Calls(parts) == using \in parts /\ Call(using)
RpcbOnly == UNCHANGED <<queen, cpcb, networks, scheduler_initialized, phis, decision>>
Valid(p) == scheduler_initialized /\ rpcb[p].valid

-----------------------------------------------------------------------------
(* Registration.  Registering again wipes the block, couplings included.   *)
CountsOnce(p, c) ==   \* mutant
  IF rpcb[p].valid THEN queen.count ELSE [queen.count EXCEPT ![c] = @ + 1]
CountRegistered(p, c) == [queen.count EXCEPT ![c] = @ + 1]

resonant_register(p, c) ==
  /\ Calls({"sched", "phi"}) /\ scheduler_initialized
  /\ rpcb' = [rpcb EXCEPT ![p] = [NoRpcb EXCEPT !.valid = TRUE, !.class = c,
                                                !.rstate = "COHERENT",
                                                !.deadline = 2 * DEFAULT_QUANTUM]]
  /\ queen' = [queen EXCEPT !.count = CountRegistered(p, c)]
  /\ UNCHANGED <<cpcb, networks, scheduler_initialized, phis, decision>>

Dropped(list, p) ==   \* the first entry naming p, shifted out
  LET at == {k \in DOMAIN list : list[k] = p}
  IN  IF at = {} THEN list ELSE RemoveAt(list, CHOOSE k \in at : \A m \in at : k <= m)

resonant_decouple(table, p, q) ==
  IF ~table[p].valid \/ ~table[q].valid THEN table
  ELSE LET one == [table EXCEPT ![p].coupled = Dropped(@, q)]
       IN  [one EXCEPT ![q].coupled = Dropped(@, p)]

resonant_unregister(p) ==
  /\ Call("sched") /\ Valid(p)
  /\ LET step(t, q) == resonant_decouple(t, p, q)
     IN  rpcb' = [FoldLeft(step, rpcb, Reverse(rpcb[p].coupled)) EXCEPT ![p].valid = FALSE]
  /\ queen' = [queen EXCEPT !.count[rpcb[p].class] = IF @ > 0 THEN @ - 1 ELSE @]
  /\ UNCHANGED <<cpcb, networks, scheduler_initialized, phis, decision>>

(* Blocks are invalidated, the counts stay until the next initialisation.  *)
resonant_scheduler_shutdown ==
  /\ Call("sched") /\ scheduler_initialized /\ scheduler_initialized' = FALSE
  /\ rpcb' = [p \in RPids |-> [rpcb[p] EXCEPT !.valid = FALSE]]
  /\ UNCHANGED <<queen, cpcb, networks, phis, decision>>

resonant_scheduler_init ==
  /\ Call("sched") /\ ~scheduler_initialized /\ scheduler_initialized' = TRUE
  /\ rpcb' = [p \in RPids |-> NoRpcb] /\ queen' = FreshQueen
  /\ UNCHANGED <<cpcb, networks, phis, decision>>

(* The limit is read once, so a process coupled with itself gains two.     *)
resonant_couple(p, q) ==
  /\ Call("sched") /\ Valid(p) /\ Valid(q)
  /\ Len(rpcb[p].coupled) < max_coupled /\ Len(rpcb[q].coupled) < max_coupled
  /\ \A k \in DOMAIN rpcb[p].coupled : rpcb[p].coupled[k] # q
  /\ LET one == [rpcb EXCEPT ![p].coupled = Append(@, q)]
     IN  rpcb' = [one EXCEPT ![q].coupled = Append(@, p)]
  /\ RpcbOnly

ResonantDecouple(p, q) ==
  /\ Call("sched") /\ Valid(p) /\ Valid(q)
  /\ rpcb' = resonant_decouple(rpcb, p, q) /\ RpcbOnly

-----------------------------------------------------------------------------
(* Dynamics.                                                               *)
resonant_update_oscillator(b, coherence) ==
  [b EXCEPT !.coherence = coherence,
            !.rstate = IF coherence = "high"
                         THEN IF b.verified THEN "CONSCIOUS"
                              ELSE IF b.emerging THEN "EMERGENT" ELSE "COHERENT"
                       ELSE IF coherence = "low" THEN "DECOHERENT" ELSE @]

resonant_update_emergence(b, emerging) ==
  [b EXCEPT !.emerging = emerging,
            !.rstate = IF emerging /\ @ = "COHERENT" THEN "EMERGENT" ELSE @]

(* One synchronisation over every block that is not dormant.  The average  *)
(* of Phi is not recomputed when every block is dormant.                   *)
resonant_sync ==
  /\ Calls({"sched", "phi"}) /\ scheduler_initialized
  /\ \E coherence \in [RPids -> {"low", "mid", "high"}], emerging \in [RPids -> BOOLEAN] :
       rpcb' = [p \in RPids |->
                  IF rpcb[p].valid /\ rpcb[p].rstate # "DORMANT"
                    THEN resonant_update_emergence(
                           resonant_update_oscillator(rpcb[p], coherence[p]), emerging[p])
                    ELSE rpcb[p]]
  /\ LET awake == {p \in RPids : rpcb'[p].valid /\ rpcb'[p].rstate # "DORMANT"}
         total == SumOver(LAMBDA p : rpcb'[p].phi, {p \in awake : rpcb'[p].verified})
         high  == IF awake = {} THEN queen.average ELSE total >= PHI_THRESHOLD * Cardinality(awake)
     IN  queen' = [queen EXCEPT !.stable = \A p \in awake : rpcb'[p].stable,
                                !.average = high, !.conscious = high]
  /\ UNCHANGED <<cpcb, networks, scheduler_initialized, phis, decision>>

resonant_set_chiral(p, stable) ==
  Call("sched") /\ Valid(p) /\ rpcb' = [rpcb EXCEPT ![p].stable = stable] /\ RpcbOnly

resonant_verify_consciousness(p, phi) ==
  /\ Call("sched") /\ Valid(p)
  /\ rpcb' = [rpcb EXCEPT ![p].verified = phi >= PHI_THRESHOLD, ![p].phi = phi,
                          ![p].rstate = IF phi >= PHI_THRESHOLD THEN "CONSCIOUS" ELSE @]
  /\ RpcbOnly

(* The best ready block that is not dormant is chosen, the lowest pid on a *)
(* tie; its quantum depends on its class and never exceeds its deadline.   *)
(* The priority is a real number of which only the order matters.          *)
QuantumOf(b) ==
  LET usual == IF b.class = "quantum" THEN DEFAULT_QUANTUM \div 2
               ELSE IF b.class = "conscious" THEN 2 * DEFAULT_QUANTUM ELSE DEFAULT_QUANTUM
  IN  IF b.deadline < usual THEN b.deadline ELSE usual

resonant_schedule_next(ready, calculate_resonant_priority) ==
  /\ Call("sched") /\ scheduler_initialized
  /\ LET eligible == {p \in ready : rpcb[p].valid /\ rpcb[p].rstate # "DORMANT"}
         best == {p \in eligible : \A q \in eligible :
                    \/ calculate_resonant_priority[p] > calculate_resonant_priority[q]
                    \/ calculate_resonant_priority[p] = calculate_resonant_priority[q] /\ p <= q}
     IN  decision' = IF eligible = {} THEN NoDecision
                     ELSE LET p == CHOOSE x \in best : TRUE
                          IN  [pid |-> p, quantum |-> QuantumOf(rpcb[p]),
                               couple |-> rpcb[p].coupled = << >> /\ rpcb[p].rstate = "COHERENT"]
  /\ UNCHANGED <<rpcb, queen, cpcb, networks, scheduler_initialized, phis>>

(* A deadline used up leaves the block decoherent.                         *)
resonant_complete_quantum(p, ran) ==
  /\ Call("sched") /\ Valid(p)
  /\ rpcb' = [rpcb EXCEPT ![p].deadline = IF @ > ran THEN @ - ran ELSE 0,
                          ![p].rstate = IF rpcb[p].deadline > ran THEN @ ELSE "DECOHERENT"]
  /\ RpcbOnly

resonant_emergency_coherence(p) ==
  /\ Call("sched") /\ Valid(p)
  /\ rpcb' = [rpcb EXCEPT ![p].deadline = 2 * DEFAULT_QUANTUM, ![p].coherence = "mid", ![p].stable = TRUE,
                          ![p].rstate = "COHERENT"]
  /\ RpcbOnly

ResetBlock(b) == [b EXCEPT !.coherence = "mid", !.stable = TRUE, !.emerging = FALSE,
                           !.rstate = "DORMANT", !.verified = FALSE, !.phi = 0]
resonant_reset_process(p) ==
  Call("sched") /\ Valid(p) /\ rpcb' = [rpcb EXCEPT ![p] = ResetBlock(@)] /\ RpcbOnly

resonant_reset_all ==
  /\ Call("sched") /\ scheduler_initialized
  /\ rpcb' = [p \in RPids |-> IF rpcb[p].valid THEN ResetBlock(rpcb[p]) ELSE rpcb[p]]
  /\ queen' = [queen EXCEPT !.conscious = FALSE]
  /\ UNCHANGED <<cpcb, networks, scheduler_initialized, phis, decision>>

-----------------------------------------------------------------------------
(* Consciousness tracking: one block per tracked process, a ring of the    *)
(* last values of Phi, and networks whose members are process ids.         *)
CpcbOnly == UNCHANGED <<rpcb, queen, networks, scheduler_initialized, decision>>
Tracked(p) == cpcb[p].valid

consciousness_register(p) ==
  /\ Calls({"conscious", "phi"}) /\ ~Tracked(p)
  /\ cpcb' = [cpcb EXCEPT ![p] = [NoCpcb EXCEPT !.valid = TRUE]]
  /\ phis' = [phis EXCEPT ![p] = << >>] /\ CpcbOnly

consciousness_unregister(p) ==
  /\ Call("conscious") /\ Tracked(p)
  /\ cpcb' = [cpcb EXCEPT ![p] = NoCpcb] /\ UNCHANGED phis /\ CpcbOnly

consciousness_verify(p, phi) ==
  /\ Call("conscious") /\ Tracked(p)
  /\ cpcb' = [cpcb EXCEPT ![p] =
       [@ EXCEPT !.trajectory[cpcb[p].index] = phi,
                 !.index = (@ + 1) % TrajectoryLen, !.count = @ + 1,
                 !.level = phi, !.is_verified = phi >= PHI_THRESHOLD]]
  /\ phis' = [phis EXCEPT ![p] = Append(@, phi)] /\ CpcbOnly

consciousness_create_network ==
  /\ Call("conscious") /\ Len(networks) < CNetworks
  /\ networks' = Append(networks, NewNetwork)
  /\ UNCHANGED <<rpcb, queen, cpcb, scheduler_initialized, phis, decision>>

consciousness_join_network(n, p) ==
  /\ Call("conscious") /\ Tracked(p)
  /\ \A k \in DOMAIN networks[n].members : networks[n].members[k] # p
  /\ networks' = [networks EXCEPT ![n].members = Append(@, p)]
  /\ UNCHANGED <<rpcb, queen, cpcb, scheduler_initialized, phis, decision>>

consciousness_leave_network(n, p) ==
  /\ Call("conscious") /\ \E k \in DOMAIN networks[n].members : networks[n].members[k] = p
  /\ networks' = [networks EXCEPT ![n].members = Dropped(@, p)]
  /\ UNCHANGED <<rpcb, queen, cpcb, scheduler_initialized, phis, decision>>

(* A member that is no longer tracked adds nothing to the total but still  *)
(* counts as a member; each member but the first adds a tenth.             *)
consciousness_verify_network(n) ==
  /\ Call("conscious")
  /\ LET net   == networks[n]
         count == Len(net.members)
         total == SumOver(LAMBDA k : IF Tracked(net.members[k]) THEN cpcb[net.members[k]].level ELSE 0,
                          DOMAIN net.members)
         bonus == IF count > 1 THEN 10 + count ELSE 10
     IN  networks' = [networks EXCEPT ![n].total = total,
                        ![n].verified = count > 0 /\ total * bonus >= 10 * count * PHI_THRESHOLD]
  /\ UNCHANGED <<rpcb, queen, cpcb, scheduler_initialized, phis, decision>>

consciousness_shutdown ==   \* and the init that follows it: both clear everything
  /\ Call("conscious") /\ cpcb' = [p \in RPids |-> NoCpcb] /\ networks' = << >>
  /\ UNCHANGED <<rpcb, queen, scheduler_initialized, phis, decision>>

TrajectoryFromZero(p) ==   \* mutant
  [i \in 1 .. Smaller(cpcb[p].count, TrajectoryLen) |-> cpcb[p].trajectory[i - 1]]
consciousness_get_trajectory(p) ==
  LET start == IF cpcb[p].count >= TrajectoryLen THEN cpcb[p].index ELSE 0
  IN  [i \in 1 .. Smaller(cpcb[p].count, TrajectoryLen) |->
         cpcb[p].trajectory[(start + i - 1) % TrajectoryLen]]

-----------------------------------------------------------------------------
(* Triggers, the bridge operator, emergence and cycles of a tracked block. *)
(* consciousness_detect_patterns changes nothing: the entropy it compares  *)
(* with 0.5 is zero or negative.                                           *)
CpcbCall(p) == Call("phi") /\ Tracked(p) /\ CpcbOnly /\ UNCHANGED phis

Raised(trigger) ==   \* in steps of 0.05
  CASE trigger = "reflection" -> [k \in {"observation", "awareness"} |-> 2]
    [] trigger = "emergence"  -> [k \in {"emergent"} |-> 4]
    [] trigger = "learning"   -> [k \in {"dynamic"} |-> 3]
    [] trigger = "decision"   -> [k \in {"structural"} |-> 2]
    [] trigger = "crisis"     -> [k \in PhiParts |-> 1]

consciousness_process_trigger(p, trigger) ==
  /\ CpcbCall(p)
  /\ cpcb' = [cpcb EXCEPT
       ![p].parts = [k \in PhiParts |-> IF k \in DOMAIN Raised(trigger)
                                          THEN Smaller(@[k] + Raised(trigger)[k], FullPhi) ELSE @[k]],
       ![p].triggers = @ + 1, ![p].last_trigger = trigger]

(* Without a block of the resonant scheduler the operator is zero.         *)
consciousness_calculate_bridge(p, large) ==
  CpcbCall(p) /\ cpcb' = [cpcb EXCEPT ![p].significant = Valid(p) /\ large]

consciousness_update_emergence(p) ==
  CpcbCall(p) /\ Valid(p) /\ cpcb' = [cpcb EXCEPT ![p].active = rpcb[p].emerging]

(* The two newest entries of the ring.                                     *)
consciousness_get_momentum(p) ==
  LET entry(back) == cpcb[p].trajectory[(cpcb[p].index + TrajectoryLen - back) % TrajectoryLen]
  IN  IF cpcb[p].count < 2 THEN 0 ELSE entry(1) - entry(2)
GetMomentum(p) ==
  /\ Call("conscious") /\ Tracked(p) /\ CpcbOnly /\ UNCHANGED phis
  /\ cpcb' = [cpcb EXCEPT ![p].momentum = IF cpcb[p].count < 2 THEN @ ELSE consciousness_get_momentum(p)]

consciousness_allocate_cycles(p, n) ==
  CpcbCall(p) /\ cpcb' = [cpcb EXCEPT ![p].allocated = n]

consciousness_consume_cycles(p, n) ==
  CpcbCall(p) /\ cpcb' = [cpcb EXCEPT ![p].used = Smaller(@ + n, cpcb[p].allocated)]

ResonantNext ==
  \/ resonant_scheduler_shutdown \/ resonant_scheduler_init \/ resonant_sync \/ resonant_reset_all
  \/ \E p \in RPids :
       \/ \E c \in RClasses : resonant_register(p, c)
       \/ resonant_unregister(p) \/ resonant_emergency_coherence(p) \/ resonant_reset_process(p)
       \/ \E q \in RPids : resonant_couple(p, q) \/ ResonantDecouple(p, q)
       \/ \E stable \in BOOLEAN : resonant_set_chiral(p, stable)
       \/ \E ran \in 1 .. 2 : resonant_complete_quantum(p, ran)
       \/ \E phi \in PhiLevels :
            resonant_verify_consciousness(p, phi) \/ consciousness_verify(p, phi)
       \/ consciousness_register(p) \/ consciousness_unregister(p)
       \/ \E n \in DOMAIN networks :
            consciousness_join_network(n, p) \/ consciousness_leave_network(n, p)
       \/ \E trigger \in {"reflection", "emergence", "learning", "decision", "crisis"} :
            consciousness_process_trigger(p, trigger)
       \/ \E large \in BOOLEAN : consciousness_calculate_bridge(p, large)
       \/ consciousness_update_emergence(p) \/ GetMomentum(p)
       \/ \E n \in 1 .. 2 : consciousness_allocate_cycles(p, n) \/ consciousness_consume_cycles(p, n)
  \/ \E ready \in SUBSET RPids, priority \in [RPids -> 0 .. 1] : resonant_schedule_next(ready, priority)
  \/ \E n \in DOMAIN networks : consciousness_verify_network(n)
  \/ consciousness_create_network \/ consciousness_shutdown

ResonantSpec == ResonantInit /\ [][ResonantNext]_resonantVars

-----------------------------------------------------------------------------
(* The queen's class counts never fall below the blocks of that class,     *)
(* through registration again, unregistration and restarts of the library  *)
(* (they may exceed them: registering twice counts twice).                 *)
CountsCover ==
  scheduler_initialized =>
    \A c \in RClasses : queen.count[c] >= Cardinality({p \in RPids : rpcb[p].valid /\ rpcb[p].class = c})

(* The trajectory read back is the last values of Phi, oldest first, also  *)
(* after the ring has wrapped and after tracking was dropped and resumed.  *)
TrajectoryInOrder ==
  \A p \in RPids :
    Tracked(p) =>
      LET n == Smaller(Len(phis[p]), TrajectoryLen)
      IN  consciousness_get_trajectory(p) = SubSeq(phis[p], Len(phis[p]) - n + 1, Len(phis[p]))

-----------------------------------------------------------------------------
(***************************************************************************)
(* The opt-in resonant pick (kernel/src/resonant_fixed.c), the fixed-point *)
(* port of the library that the kernel itself can be built with: the       *)
(* successor pick_next() returns in a SCHED_RESONANT build is the ready    *)
(* process of the largest priority, its static part plus a bonus from the  *)
(* oscillator field plus an age that grows while it is passed over.  The   *)
(* field itself (phases, order parameter, alignment) is abstracted to the  *)
(* range of the bonus it can give; every value of it may occur at every    *)
(* decision.                                                               *)
(***************************************************************************)
CONSTANTS FieldPids,     \* processes other than idle
          BasePriority,  \* the static part of each: (priority << 16) / PRIORITY_KERNEL
          MaxBase,       \* 1.0: process_create refuses more than PRIORITY_KERNEL
          MaxBonus,      \* 0.2, the largest bonus
          AgeGain,       \* RF_AGE_GAIN
          AgeCap         \* RF_AGE_CAP

(* How far static part and bonus can set two processes apart, in decisions *)
(* that age makes up for, and how long a ready process may then wait.      *)
Handicap == (MaxBase + MaxBonus) \div AgeGain
WaitBound == Handicap + Cardinality(FieldPids) - 1

ASSUME FixedPickConstants ==
  /\ IsFiniteSet(FieldPids) /\ FieldPids \subseteq Nat /\ FieldPids # {}
  /\ {MaxBase, MaxBonus, AgeCap} \subseteq Nat /\ AgeGain \in Nat \ {0}
  /\ BasePriority \in [FieldPids -> 0 .. MaxBase]
  /\ (WaitBound + 1) * AgeGain <= AgeCap    \* 8.0 in the code: at most some 100 processes

VARIABLES fstate,        \* "UNUSED", "READY" or "BLOCKED"
          rf_reg,        \* who is in the field
          waited,        \* rf_pick_seq - rf_last_pick of each
          overtaken      \* decisions a process has been ready for and not picked

fixedVars == <<fstate, rf_reg, waited, overtaken>>

FixedInit ==
  /\ fstate = [p \in FieldPids |-> "UNUSED"] /\ rf_reg = {}
  /\ waited = [p \in FieldPids |-> 0] /\ overtaken = [p \in FieldPids |-> 0]

NoAge(w) == 0                                       \* mutant: pure argmax
Age(w) == IF w * AgeGain > AgeCap THEN AgeCap ELSE w * AgeGain
rf_priority_core(p, bonus, w) == BasePriority[p] + bonus + Age(w)

ReadyPids == {p \in FieldPids : fstate[p] = "READY"}
ActivePids == {p \in FieldPids : fstate[p] # "UNUSED"}

(* What rf_last_pick tells of a process at this decision: a newcomer has   *)
(* no age, and everybody's wait counts the decision.  Waits are capped     *)
(* where the age is: rf_last_pick is only read by Age.                     *)
Entered(p) == IF p \in ActivePids \ rf_reg THEN 0 ELSE waited[p]
WaitedNow(p) == Smaller(Entered(p) + 1, AgeCap)

(* The ready processes of the largest priority, and the first of them.     *)
Top(bonus) ==
  {p \in ReadyPids : \A q \in ReadyPids :
     rf_priority_core(q, bonus[q], WaitedNow(q)) <= rf_priority_core(p, bonus[p], WaitedNow(p))}
Lowest(S) == CHOOSE p \in S : \A q \in S : p <= q

IdleRuns ==
  /\ ReadyPids = {}
  /\ waited' = [p \in FieldPids |-> WaitedNow(p)] /\ UNCHANGED overtaken

Dispatch(best) ==
  /\ waited' = [p \in FieldPids |-> IF p = best THEN 0 ELSE WaitedNow(p)]
  /\ overtaken' = [p \in FieldPids |-> IF p \in ReadyPids \ {best} THEN overtaken[p] + 1 ELSE 0]

(* One decision of the scheduler.                                          *)
resonant_fixed_pick ==
  /\ rf_reg' = ActivePids
  /\ \/ IdleRuns
     \/ /\ ReadyPids # {}
        /\ \E bonus \in [ReadyPids -> 0 .. MaxBonus] : Dispatch(Lowest(Top(bonus)))
  /\ UNCHANGED fstate

(* Creation, blocking, wake-up and destruction, between any two decisions: *)
(* a process that is replaced before the next decision stays in the field  *)
(* with its predecessor's age.                                             *)
Becomes(p, from, to) ==
  /\ fstate[p] \in from /\ fstate' = [fstate EXCEPT ![p] = to]
  /\ overtaken' = [overtaken EXCEPT ![p] = 0] /\ UNCHANGED <<rf_reg, waited>>

FixedNext ==
  \/ resonant_fixed_pick
  \/ \E p \in FieldPids :
       \/ Becomes(p, {"UNUSED", "BLOCKED"}, "READY")
       \/ Becomes(p, {"READY"}, "BLOCKED")
       \/ Becomes(p, {"READY", "BLOCKED"}, "UNUSED")

FixedSpec == FixedInit /\ [][FixedNext]_fixedVars
-----------------------------------------------------------------------------
(* "this gain forces any ready process to the front", "bounding the        *)
(* worst-case wait" (resonant_fixed.c:39): however the field, the sleepers *)
(* and the newcomers behave, a ready process is passed over no more often  *)
(* than its handicap in decisions plus once for each other process.        *)
AgedToTheFront == \A p \in FieldPids : overtaken[p] <= WaitBound
=============================================================================

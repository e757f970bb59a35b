------------------------------- MODULE Field -------------------------------
(***************************************************************************)
(* The holographic field (kernel/src/field.c), the calls on it             *)
(* (syscall.c: sys_imprint, sys_recall, sys_field_info) and the grant of a *)
(* region to a service (service.c).  A region holds FIELD_SLOTS patterns,  *)
(* each with an energy that fades with its age; a recall ranks them by     *)
(* similarity times energy.  The arithmetic is the code's, in Q15.         *)
(***************************************************************************)
EXTENDS Integers, Sequences, FiniteSets

CONSTANTS Regions,       \* 0 .. FIELD_REGION_COUNT - 1
          FIELD_SLOTS, FIELD_PAT_MAX, FIELD_RANK_MAX,
          FIELD_ENERGY_MIN, FIELD_ENERGY_DEFAULT, FIELD_ENERGY_MAX,
          FIELD_DECAY_SHIFT,
          Citizens,      \* service instances; one is granted SpanOf[s]
          SpanOf, Inherits,   \* the definitions: regions, field_inherit
          Patterns, Energies, \* what is imprinted
          Jump,          \* ticks that pass at once
          MaxTime, MaxOps   \* bounds

ASSUME FieldConstants ==
  /\ 0 < FIELD_ENERGY_MIN /\ FIELD_ENERGY_MIN <= FIELD_ENERGY_DEFAULT
  /\ FIELD_ENERGY_DEFAULT <= FIELD_ENERGY_MAX
  /\ {FIELD_SLOTS, FIELD_PAT_MAX, FIELD_RANK_MAX, FIELD_ENERGY_MIN, FIELD_ENERGY_DEFAULT,
      FIELD_ENERGY_MAX, 2 ^ FIELD_DECAY_SHIFT, Jump} \subseteq Nat \ {0}
  /\ SpanOf \in [Citizens -> SUBSET Regions]
  /\ \A s, t \in Citizens : s # t => SpanOf[s] \cap SpanOf[t] = {}
  /\ Citizens \cap {"agent", "disk", "gone", "nobody"} = {}
  /\ \A p \in Patterns : Len(p) \in 1 .. FIELD_PAT_MAX /\ p \in [1 .. Len(p) -> 0 .. 255]
  /\ Energies \subseteq Nat

VARIABLES slot,          \* regions[].slot[]
          inheritable,   \* region_inheritable[]
          holds,         \* who has FIELD capabilities: citizen -> region -> rights
          blob,          \* the field section of the disk
          ticks,
          recalled,      \* the answer to the last recall, and its question
          ops            \* bound

fieldVars == <<slot, inheritable, holds, blob, ticks, recalled, ops>>

Places == 1 .. FIELD_SLOTS
Dead == [alive |-> FALSE, bytes |-> <<>>, energy |-> 0, retrievals |-> 0, tick |-> 0,
         by |-> "nobody"]    \* by: history, who imprinted it, "gone" once dead
EmptyRegion == [i \in Places |-> Dead]
Unasked == [region |-> 0, probe |-> <<>>, scores |-> EmptyRegion, rank |-> <<>>]
Agents == {"agent"}   \* a process that was delegated part of a span
NoRights == [c \in Citizens \cup Agents |-> [r \in Regions |-> {}]]

FieldInit ==
  /\ slot = [r \in Regions |-> EmptyRegion]
  /\ inheritable = {} /\ holds = NoRights
  /\ blob = [r \in Regions |-> EmptyRegion]
  /\ ticks = 0 /\ recalled = Unasked /\ ops = 0
-----------------------------------------------------------------------------
Clamp(x, lo, hi) == IF x < lo THEN lo ELSE IF x > hi THEN hi ELSE x
Quot(x, y) == IF x >= 0 THEN x \div y ELSE -((-x) \div y)   \* C's division
SumOf(f, n) == LET upTo[i \in 0 .. n] == IF i = 0 THEN 0 ELSE upTo[i - 1] + f[i] IN upTo[n]

(* Bit by bit, from the largest that TLC's integers hold.                  *)
TopBit == 67108864
isqrt_u64(x) ==
  LET step[k \in 0 .. 14] ==
        IF k = 0 THEN [x |-> x, root |-> 0, bit |-> TopBit]
        ELSE LET a == step[k - 1] IN
             IF a.x >= a.root + a.bit
             THEN [x |-> a.x - (a.root + a.bit), root |-> a.root \div 2 + a.bit, bit |-> a.bit \div 4]
             ELSE [x |-> a.x, root |-> a.root \div 2, bit |-> a.bit \div 4]
  IN  step[14].root

(* The unit wavefront of a pattern; <<>> when all its bytes are equal.     *)
wavefront(p) ==
  LET n == Len(p)
      mean == (SumOf(p, n) * 256) \div n
      c == [i \in 1 .. n |-> p[i] * 256 - mean]
      mag == isqrt_u64(SumOf([i \in 1 .. n |-> c[i] * c[i]], n))
  IN  IF mag = 0 THEN <<>>
      ELSE [i \in 1 .. n |-> Clamp(Quot(c[i] * 32767, mag), -32767, 32767)]

Wavefronts == [p \in Patterns |-> wavefront(p)]
Degenerate(p) == Wavefronts[p] = <<>>

cosine_q15(a, b) ==
  LET n == IF Len(a) < Len(b) THEN Len(a) ELSE Len(b)
  IN  Clamp(SumOf([i \in 1 .. n |-> a[i] * b[i]], n) \div 32768, -32767, 32767)

(* Energy after its age.                                                   *)
effective_energy(s) ==
  LET decay == (IF ticks >= s.tick THEN ticks - s.tick ELSE 0) \div (2 ^ FIELD_DECAY_SHIFT)
  IN  IF decay >= s.energy - FIELD_ENERGY_MIN THEN FIELD_ENERGY_MIN ELSE s.energy - decay

Resonant == {p \in Patterns : ~Degenerate(p)}
Similarity == [p \in Resonant |-> [q \in Resonant |-> cosine_q15(Wavefronts[p], Wavefronts[q])]]
Score(s, probe) == (Similarity[probe][s.bytes] * effective_energy(s)) \div 32768
-----------------------------------------------------------------------------
First(S) == CHOOSE i \in S : \A j \in S : i <= j

(* The slot an imprint takes: the first free, else the first of the least  *)
(* effective energy.  The mutant compares what the slots had at first.     *)
Weakest(energy(_), r) ==
  First({i \in Places : \A j \in Places : energy(slot[r][i]) <= energy(slot[r][j])})
FreeIn(r) == {i \in Places : ~slot[r][i].alive}
Imprinted(s) == s.energy
TargetByImprint(r) == IF FreeIn(r) # {} THEN First(FreeIn(r)) ELSE Weakest(Imprinted, r)
Target(r) == IF FreeIn(r) # {} THEN First(FreeIn(r)) ELSE Weakest(effective_energy, r)

field_imprint(r, p, energy, who) ==
  slot' = [slot EXCEPT ![r][Target(r)] =
             [alive |-> TRUE, bytes |-> p, retrievals |-> 0, tick |-> ticks, by |-> who,
              energy |-> Clamp(IF energy = 0 THEN FIELD_ENERGY_DEFAULT ELSE energy,
                               FIELD_ENERGY_MIN, FIELD_ENERGY_MAX)]]

(* An unauthorised, empty or degenerate request changes nothing.           *)
sys_imprint(c) ==
  /\ ops < MaxOps /\ ops' = ops + 1
  /\ \E r \in Regions, p \in Patterns, e \in Energies :
       /\ "w" \in holds[c][r]
       /\ ~Degenerate(p)
       /\ field_imprint(r, p, e, c)
  /\ recalled' = Unasked
  /\ UNCHANGED <<inheritable, holds, blob, ticks>>

(* field_recall()'s selection sort of the live slots, in slot order.       *)
Live(r) ==
  LET upTo[i \in 0 .. FIELD_SLOTS] ==
        IF i = 0 THEN <<>>
        ELSE IF slot[r][i].alive THEN Append(upTo[i - 1], i) ELSE upTo[i - 1]
  IN  upTo[FIELD_SLOTS]
Swap(s, a, b) == [s EXCEPT ![a] = s[b], ![b] = s[a]]
Best(order, a, last, score) ==
  First({b \in a .. last : \A x \in a .. last : score[order[x]] <= score[order[b]]})
SelectionSort(order, want, score) ==
  LET after[a \in 0 .. want] ==
        IF a = 0 THEN order
        ELSE LET o == after[a - 1] IN Swap(o, a, Best(o, a, Len(o), score))
  IN  after[want]

Ranking(r, probe, k) ==
  LET live == Live(r)
      want == IF k < Len(live) THEN k ELSE Len(live)
      score == [i \in Places |-> IF slot[r][i].alive THEN Score(slot[r][i], probe) ELSE 0]
  IN  IF Degenerate(probe) THEN <<>> ELSE SubSeq(SelectionSort(live, want, score), 1, want)

(* Reinforcement is a write.                                               *)
Reinforced(s) == [s EXCEPT !.retrievals = @ + 1, !.tick = ticks,
                           !.energy = @ + (FIELD_ENERGY_MAX - @) \div 16]
Reinforce(r, i) == slot' = [slot EXCEPT ![r][i] = Reinforced(slot[r][i])]

(* field_recall(): a degenerate probe and an empty region answer nothing.   *)
field_recall(r, probe, k, reinforce) ==
  LET rank == Ranking(r, probe, k) IN
  /\ recalled' = [region |-> r, probe |-> probe, rank |-> rank,
                  scores |-> [i \in Places |->
                    IF slot[r][i].alive /\ ~Degenerate(probe) THEN
                      [slot[r][i] EXCEPT !.energy = Score(slot[r][i], probe)]
                    ELSE Dead]]
  /\ IF rank # <<>> /\ reinforce THEN Reinforce(r, rank[1]) ELSE UNCHANGED slot

sys_recall(c) ==
  /\ ops < MaxOps /\ ops' = ops + 1
  /\ \E r \in Regions, p \in Patterns, k \in 1 .. FIELD_RANK_MAX :
       /\ "r" \in holds[c][r]
       /\ field_recall(r, p, k, "w" \in holds[c][r])
  /\ UNCHANGED <<inheritable, holds, blob, ticks>>

Wait ==
  /\ ticks < MaxTime /\ ticks' = ticks + Jump
  /\ recalled' = Unasked
  /\ UNCHANGED <<slot, inheritable, holds, blob, ops>>
-----------------------------------------------------------------------------
(* The grant of a region to a service's new process: what was there is     *)
(* scrubbed first, but the disk's contents pass once to a service that     *)
(* inherits, when its capability could be made.  The mutant leaves the     *)
(* mark after the mint.                                                    *)
NeverConsumed(minted, passing) == inheritable
field_region_inherit_consume(minted, passing) == inheritable \ (minted \cap passing)

field_region_scrub(S) == slot' = [r \in Regions |-> IF r \in S THEN EmptyRegion ELSE slot[r]]

GrantRegions(c) ==
  /\ \A r \in Regions : holds[c][r] = {}
  /\ \E minted \in SUBSET SpanOf[c] :
       LET passing == IF c \in Inherits THEN SpanOf[c] \cap inheritable ELSE {} IN
         /\ field_region_scrub(SpanOf[c] \ passing)
         /\ holds' = [holds EXCEPT ![c] =
                        [r \in Regions |-> IF r \in minted THEN {"r", "w"} ELSE {}]]
         /\ inheritable' = field_region_inherit_consume(minted, passing)
  /\ recalled' = Unasked
  /\ UNCHANGED <<blob, ticks, ops>>

(* SYS_DELEGATE of a region to an agent, and the end of a process: what it *)
(* delegated goes with it.                                                 *)
Delegate(c) ==
  /\ \E r \in Regions, rights \in (SUBSET {"r", "w"}) \ {{}} :
       /\ rights \subseteq holds[c][r] /\ holds["agent"][r] = {}
       /\ holds' = [holds EXCEPT !["agent"][r] = rights]
  /\ recalled' = Unasked
  /\ UNCHANGED <<slot, inheritable, blob, ticks, ops>>
Dies(c) ==
  /\ \E r \in Regions : holds[c][r] # {}
  /\ holds' = [d \in Citizens \cup Agents |->
                 [r \in Regions |-> IF d = c \/ (d \in Agents /\ r \in SpanOf[c]) THEN {}
                                    ELSE holds[d][r]]]
  /\ slot' = [r \in Regions |-> IF holds[c][r] = {} THEN slot[r]
                ELSE [i \in Places |-> IF slot[r][i].alive THEN [slot[r][i] EXCEPT !.by = "gone"]
                                       ELSE slot[r][i]]]
  /\ recalled' = Unasked
  /\ UNCHANGED <<inheritable, blob, ticks, ops>>
-----------------------------------------------------------------------------
(* persist_sync() and persist_restore(): every field of a record is        *)
(* checked again.  Scribble: a damaged record whose checksum still agrees. *)
field_blob_write ==
  /\ blob' = slot
  /\ recalled' = Unasked
  /\ UNCHANGED <<slot, inheritable, holds, ticks, ops>>
Scribble ==
  /\ ops < MaxOps /\ ops' = ops + 1
  /\ \E r \in Regions, i \in Places, p \in Patterns \cup {<<>>}, e \in {0, 2 * FIELD_ENERGY_MAX} :
       blob' = [blob EXCEPT ![r][i] = [Dead EXCEPT !.alive = TRUE, !.bytes = p, !.energy = e]]
  /\ recalled' = Unasked
  /\ UNCHANGED <<slot, inheritable, holds, ticks>>

Loaded(rec) ==
  IF ~rec.alive \/ Len(rec.bytes) \notin 1 .. FIELD_PAT_MAX \/ Degenerate(rec.bytes) THEN Dead
  ELSE [rec EXCEPT !.energy = Clamp(@, FIELD_ENERGY_MIN, FIELD_ENERGY_MAX), !.tick = 0,
                   !.by = "disk"]

(* A restart: every region that was read from the disk is marked.          *)
field_blob_load ==
  /\ slot' = [r \in Regions |-> [i \in Places |-> Loaded(blob[r][i])]]
  /\ inheritable' = {r \in Regions : \E i \in Places : slot'[r][i].alive}
ColdField0 == slot' = [r \in Regions |-> EmptyRegion] /\ inheritable' = {}
FieldBoot ==
  /\ ops < MaxOps /\ ops' = ops + 1
  /\ field_blob_load \/ ColdField0
  /\ holds' = NoRights /\ ticks' = 0 /\ recalled' = Unasked
  /\ UNCHANGED blob

FieldNext ==
  \/ \E c \in Citizens \cup Agents : sys_imprint(c) \/ sys_recall(c)
  \/ \E c \in Citizens : GrantRegions(c) \/ Delegate(c) \/ Dies(c)
  \/ Wait \/ field_blob_write \/ Scribble \/ FieldBoot

FieldSpec == FieldInit /\ [][FieldNext]_fieldVars
-----------------------------------------------------------------------------
(* "A reborn or successor service must never inherit any of its regions'   *)
(* previous contents", but for what the disk gave, once, to one that asks: *)
(* whatever a process can read in a region was imprinted since the         *)
(* region's grant, or came from the disk to a service that inherits.       *)
NoPredecessor ==
  \A c \in Citizens, r \in Regions : holds[c][r] # {} =>
    \A i \in Places : slot[r][i].alive =>
      \/ slot[r][i].by \in {c, "agent"}
      \/ slot[r][i].by = "disk" /\ c \in Inherits

(* An imprint into a full region costs the pattern that is weakest by now; *)
(* energies stay between the floor and the ceiling whatever is imprinted,  *)
(* reinforced or read from the disk, and every live pattern can resonate.  *)
EnergiesBounded ==
  \A r \in Regions, i \in Places : slot[r][i].alive =>
    /\ slot[r][i].energy \in FIELD_ENERGY_MIN .. FIELD_ENERGY_MAX
    /\ effective_energy(slot[r][i]) \in FIELD_ENERGY_MIN .. slot[r][i].energy
    /\ ~Degenerate(slot[r][i].bytes)
EvictsTheWeakest ==
  [][\A r \in Regions, i \in Places :
       (slot[r][i].alive /\ slot'[r][i].bytes # slot[r][i].bytes /\ slot'[r][i].by \in Citizens \cup Agents)
         => \A j \in Places :
              slot[r][j].alive /\ effective_energy(slot[r][i]) <= effective_energy(slot[r][j])
    ]_fieldVars

(* A recall's ranking is the best of the live patterns, best first, and a  *)
(* probe that is stored resonates with nothing more than with itself.      *)
SelfResonant == \A p, q \in Resonant : Similarity[p][p] >= Similarity[p][q]
BestFirst ==
  LET s == recalled.scores IN
  /\ \A a, b \in DOMAIN recalled.rank :
       a < b => s[recalled.rank[a]].energy >= s[recalled.rank[b]].energy
  /\ \A a \in DOMAIN recalled.rank, j \in Places :
       (s[j].alive /\ j \notin {recalled.rank[x] : x \in DOMAIN recalled.rank}) =>
         s[j].energy <= s[recalled.rank[a]].energy
RankedBest == SelfResonant /\ BestFirst

(* What a region holds, how strong it is and how it is ranked, together    *)
(* (field_imprint, field_recall, field_region_inherit_consume).            *)
FieldSound == NoPredecessor /\ EnergiesBounded /\ RankedBest
=============================================================================

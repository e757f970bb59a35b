------------------------------- MODULE Ghost -------------------------------
(***************************************************************************)
(* ghostd, the associative memory in ring 3 (user/ghostd.c).  It serves    *)
(* REMEMBER, RECALL, STATUS and EXIT requests one at a time, keeps the     *)
(* last phases of each peer of the society, and does its forgetting, its   *)
(* damping and its folding of the peers' phases in the passes where its    *)
(* mailbox is empty.                                                       *)
(*                                                                         *)
(* The phases themselves are left out: where the numbers of the field      *)
(* decide (which pattern a probe relaxes to, whether the order parameter   *)
(* is above, inside or below its band) any outcome is possible.  Patterns  *)
(* are small integers and their Hamming distance is their difference.      *)
(***************************************************************************)
EXTENDS Integers, FiniteSets
LOCAL INSTANCE FiniteSetsExt

CONSTANTS GHOST_M, GHOST_MAX_PEERS, Patterns, GHOST_MATCH_HAM,
          GHOST_FID_FULL, GHOST_FID_FLOOR, GHOST_COHERENCE,
          PEER_STALE_TICKS, MIN_FOLD_TICKS, Sources, MaxLambda,
          MaxGhostTicks, MaxFolds, MaxGhostOps

GhostConstants ==
    /\ {GHOST_M, GHOST_MAX_PEERS, GHOST_FID_FLOOR} \subseteq Nat \ {0}
    /\ {GHOST_MATCH_HAM, GHOST_FID_FULL, GHOST_COHERENCE, PEER_STALE_TICKS,
        MIN_FOLD_TICKS, MaxLambda, MaxGhostTicks, MaxFolds, MaxGhostOps} \subseteq Nat
    /\ Patterns \subseteq Nat
    /\ Sources \subseteq Nat \ {0}
    \* a slot is too faint to recall before its deadline can pass unnoticed
    /\ GHOST_FID_FULL - GHOST_FID_FLOOR < GHOST_COHERENCE

ASSUME GhostAssumption == GhostConstants

VARIABLES basin,      \* slot_bits, slot_live, slot_imprint_tick, slot_deadline
          live_count,
          peer,       \* peer_src and peer_last of each peer slot
          coupling,   \* coupling_mode, remote_fresh, couple_frames, last_fold
          lambda,     \* lambda_q16 in steps
          noise_mode,
          ghostNow,   \* SYS_TICKS
          replied,     \* the last reply sent
          ghostOps    \* messages handled so far, at most MaxGhostOps

ghostVars == <<basin, live_count, peer, coupling, lambda, noise_mode, ghostNow, replied, ghostOps>>

Basins == 0 .. GHOST_M - 1
PeerSlots == 0 .. GHOST_MAX_PEERS - 1
NoBasin == [live |-> FALSE, bits |-> 0, imprinted |-> 0, deadline |-> 0]
NoPeer == [src |-> 0, last |-> 0]
GHOST_NOMATCH == -1
GHOST_FIDELITY == -2
NoReply == [op |-> "none", match |-> GHOST_NOMATCH, at |-> 0]
NotCoupled == [mode |-> FALSE, fresh |-> FALSE, folds |-> 0, last |-> 0]
\* Quantum provenance is claimed only when a draw worked and a seed is present.
detect_noise_source(seed, drew) ==
    CASE drew /\ seed = "present" -> "qseed"
      [] seed = "absent" -> "prng_noseed"
      [] OTHER -> "prng_fallback"

NoiseModes == {detect_noise_source(s, d) : s \in {"present", "absent", "no cap"}, d \in BOOLEAN}

\* _start: all state is .bss, so a rebirth begins here too.
GhostInit ==
    /\ basin = [p \in Basins |-> NoBasin]
    /\ live_count = 0
    /\ peer = [p \in PeerSlots |-> NoPeer]
    /\ coupling = NotCoupled
    /\ lambda = 0
    /\ noise_mode \in NoiseModes
    /\ ghostNow = 0
    /\ replied = NoReply
    /\ ghostOps = 0
----------------------------------------------------------------------------
\* Fidelity falls with age and stops at zero.
slot_fidelity(p) ==
    LET drop == ghostNow - basin[p].imprinted
    IN  IF drop >= GHOST_FID_FULL THEN 0 ELSE GHOST_FID_FULL - drop

hamming(a, b) == IF a < b THEN b - a ELSE a - b

Reply(op, match) == replied' = [op |-> op, match |-> match, at |-> ghostNow]

CountNew(slot) == IF basin[slot].live THEN 0 ELSE 1

\* REMEMBER: a slot out of range is not imprinted, and is answered all the same.
imprint(slot, bits) ==
    /\ IF slot \in Basins
       THEN /\ basin' = [basin EXCEPT ![slot] =
                    [live |-> TRUE, bits |-> bits, imprinted |-> ghostNow,
                     deadline |-> ghostNow + GHOST_COHERENCE]]
            /\ live_count' = live_count + CountNew(slot)
       ELSE UNCHANGED <<basin, live_count>>
    /\ Reply("REMEMBER", slot)
    /\ UNCHANGED <<peer, coupling, lambda, noise_mode, ghostNow>>

\* The stored pattern nearest the readout: the first slot at the least distance.
BestBasin(out) ==
    LET at(p) == hamming(out, basin[p].bits)
        live == {p \in Basins : basin[p].live}
        near == {p \in live : \A q \in live : at(p) <= at(q)}
    IN  IF near = {} THEN -1 ELSE Min(near)

NeverFaint(p) == FALSE
Faint(p) == slot_fidelity(p) < GHOST_FID_FLOOR

\* RECALL: relax from the probe (any readout), name the basin, refuse a spent one.
recall(out) ==
    /\ LET best == BestBasin(out)
       IN  Reply("RECALL",
                 IF best = -1 \/ (best # -1 /\ hamming(out, basin[best].bits) > GHOST_MATCH_HAM)
                 THEN GHOST_NOMATCH
                 ELSE IF Faint(best) THEN GHOST_FIDELITY ELSE best)
    /\ UNCHANGED <<basin, live_count, peer, coupling, lambda, noise_mode, ghostNow>>

\* STATUS answers with the live count, an unknown op with no match.
status(op) ==
    /\ Reply(op, IF op = "STATUS" THEN live_count ELSE GHOST_NOMATCH)
    /\ UNCHANGED <<basin, live_count, peer, coupling, lambda, noise_mode, ghostNow>>

\* EXIT: the process ends and the service manager's restart begins at _start.
exit ==
    /\ basin' = [p \in Basins |-> NoBasin] /\ live_count' = 0
    /\ peer' = [p \in PeerSlots |-> NoPeer] /\ coupling' = NotCoupled
    /\ lambda' = 0 /\ replied' = NoReply
    /\ noise_mode' \in NoiseModes
    /\ UNCHANGED ghostNow

\* handle
handle ==
    \/ \E slot \in -1 .. GHOST_M, bits \in Patterns : imprint(slot, bits)
    \/ \E out \in Patterns : recall(out)
    \/ \E op \in {"STATUS", "other"} : status(op)
    \/ exit
----------------------------------------------------------------------------
Stale(p) == ghostNow - peer[p].last > PEER_STALE_TICKS
Seen == {p \in PeerSlots : peer[p].src # 0}

\* The earliest slot seen goes when no slot is empty.
EvictsAnyone(src) ==
    IF \E p \in PeerSlots : peer[p].src \in {src, 0}
    THEN CHOOSE p \in PeerSlots : peer[p].src = src \/
             (peer[p].src = 0 /\ \A q \in PeerSlots : peer[q].src # src)
    ELSE CHOOSE p \in PeerSlots : \A q \in PeerSlots : peer[p].last <= peer[q].last

\* The slot of a source: its own, else the first empty one, else the first
\* stale one, else none.
couple_slot_for(src) ==
    LET own   == {p \in PeerSlots : peer[p].src = src}
        empty == PeerSlots \ Seen
        stale == {p \in Seen : Stale(p)}
    IN  CASE own # {} -> Min(own)
          [] own = {} /\ empty # {} -> Min(empty)
          [] own = {} /\ empty = {} /\ stale # {} -> Min(stale)
          [] OTHER -> -1

\* The slots to fold: those not stale, or else the one seen last.
live_peers ==
    LET fresh  == {p \in Seen : ~Stale(p)}
        newest == {p \in Seen : \A q \in Seen : peer[q].last < peer[p].last
                                                \/ (peer[q].last = peer[p].last /\ q <= p)}
    IN  IF fresh # {} THEN fresh ELSE newest

\* GHOST_COUPLE: the first frame enters the coupling regime even when it finds no slot.
couple(src) ==
    LET slot == couple_slot_for(src)
    IN  /\ coupling' = [coupling EXCEPT !.mode = TRUE, !.fresh = @ \/ slot >= 0]
        /\ peer' = IF slot >= 0
                   THEN [peer EXCEPT ![slot] = [src |-> src, last |-> ghostNow]] ELSE peer
        /\ UNCHANGED <<basin, live_count, lambda, noise_mode, ghostNow, replied>>

\* GHOST_SNAPSHOT: the phases go to the asker; nothing here changes.
snapshot ==
    /\ Reply("SNAPSHOT", IF coupling.mode THEN Cardinality(live_peers) ELSE 0)
    /\ UNCHANGED <<basin, live_count, peer, coupling, lambda, noise_mode, ghostNow>>

\* handle_wide
handle_wide == snapshot \/ \E src \in Sources : couple(src)
----------------------------------------------------------------------------
SpentBasins == {p \in Basins : basin[p].live /\ ghostNow >= basin[p].deadline}

\* reap_expired
reap_expired ==
    /\ basin' = [p \in Basins |-> IF p \in SpentBasins THEN [basin[p] EXCEPT !.live = FALSE]
                                  ELSE basin[p]]
    /\ live_count' = IF live_count > Cardinality(SpentBasins)
                     THEN live_count - Cardinality(SpentBasins) ELSE 0

\* couple_tick: fold at most once per MIN_FOLD_TICKS, over the live peers.
couple_tick ==
    /\ coupling' = IF coupling.fresh /\ ghostNow - coupling.last >= MIN_FOLD_TICKS
                   THEN [coupling EXCEPT !.fresh = FALSE, !.last = ghostNow,
                                         !.folds = IF @ < MaxFolds THEN @ + 1 ELSE @]
                   ELSE coupling
    /\ UNCHANGED <<lambda, noise_mode>>

\* The damping of an idle pass: above the band it sheds (drawing noise, which
\* may fail and fall back for good), below it relaxes, inside it does nothing.
damp ==
    /\ \/ lambda' = (IF lambda < MaxLambda THEN lambda + 1 ELSE lambda)
          /\ noise_mode' \in (IF noise_mode = "qseed" THEN {"qseed", "prng_fallback"}
                              ELSE {noise_mode})
       \/ lambda' = (IF lambda > 0 THEN lambda - 1 ELSE lambda) /\ noise_mode' = noise_mode
       \/ UNCHANGED <<lambda, noise_mode>>
    /\ UNCHANGED coupling

\* free_tick: an empty mailbox.
free_tick ==
    /\ reap_expired
    /\ \/ coupling.mode /\ couple_tick
       \/ ~coupling.mode /\ live_count' > 0 /\ damp
       \/ ~coupling.mode /\ live_count' = 0 /\ UNCHANGED <<coupling, lambda, noise_mode>>
    /\ UNCHANGED <<peer, ghostNow, replied>>

GhostTick ==
    /\ ghostNow < MaxGhostTicks
    /\ ghostNow' = ghostNow + 1
    /\ UNCHANGED <<basin, live_count, peer, coupling, lambda, noise_mode, replied>>

\* The loop of _start: a message is handled by its op, an empty mailbox is an idle pass.
GhostPass ==
    \/ ghostOps < MaxGhostOps /\ ghostOps' = ghostOps + 1 /\ (handle \/ handle_wide)
    \/ UNCHANGED ghostOps /\ free_tick

GhostNext == GhostPass \/ (GhostTick /\ UNCHANGED ghostOps)

GhostSpec == GhostInit /\ [][GhostNext]_ghostVars
----------------------------------------------------------------------------
\* live_count (ghostd.c:256) is the number of live slots through imprints over
\* live and spent slots, reaps of several slots at once and rebirths: it divides
\* the local field of every relaxation step.
LiveCountExact == live_count = Cardinality({p \in Basins : basin[p].live})

\* No basin past its coherence deadline is ever named by a RECALL, although
\* expired slots are reaped only in passes with an empty mailbox and a steady
\* stream of requests never leaves one (recall's fidelity floor, ghostd.c:530).
RecallsNothingExpired ==
    replied.op = "RECALL" /\ replied.match \in Basins /\ replied.at = ghostNow
        => ghostNow < basin[replied.match].deadline

\* ghostd's count of live basins is exact and nothing expired is recalled.
GhostSound == LiveCountExact /\ RecallsNothingExpired

\* A frame from another source never takes the slot of a peer that is not
\* stale (couple_slot_for: "NEVER evict a live slot", ghostd.c:228), and no
\* source ever holds two slots.
LivePeersKept ==
    [][/\ \A p \in PeerSlots : peer[p].src # 0 /\ ~Stale(p) /\ peer'[p] # peer[p]
              => peer'[p].src \in {peer[p].src, 0}
       /\ \A p, q \in PeerSlots : peer'[p].src = peer'[q].src /\ peer'[p].src # 0 => p = q]_ghostVars
============================================================================

------------------------------ MODULE Quantum ------------------------------
(***************************************************************************)
(* The quantum resource manager (kernel/src/quantum.c): the qubit pool and *)
(* its contexts, and the generator behind SYS_QRAND, the lottery scheduler *)
(* and the DNS client.  The generator is drawn from with interrupts off by *)
(* system calls and the timer, and with interrupts on by the network       *)
(* thread, whose draw is two steps; the console interrupt mixes the host's *)
(* seeds in.  Its state is the set of seeds mixed in and the draws made.   *)
(***************************************************************************)
EXTENDS Integers, Sequences, FiniteSets

CONSTANTS QUANTUM_MAX_QUBITS, QUANTUM_MAX_CONTEXTS, QUANTUM_MAX_CTX_QUBITS,
          QUANTUM_COHERENCE_TICKS, FIDELITY_HIGH, GATE_COST,
          Procs,         \* processes with the pool's capability
          Seeds,         \* what the host may send
          MaxContexts, MaxTick, MaxDraws, MaxGates   \* bounds

ASSUME QuantumConstants ==
  /\ {QUANTUM_MAX_QUBITS, QUANTUM_MAX_CONTEXTS, QUANTUM_MAX_CTX_QUBITS} \subseteq Nat \ {0}
  /\ FIDELITY_HIGH >= GATE_COST

VARIABLES pool,          \* qubit -> [owner, context, since, fidelity]
          contexts,      \* slot -> [id, owner, ids, bits], or Unused
          available, allocated,      \* pool_stats
          next_context_id,
          tick, gates,
          prng,          \* prng_state: [seeds, draws]
          netdraw,       \* the network thread's copy inside xorshift64()
          boot_entropy,  \* the seed SYS_QSEED reports, or "none"
          reseed_notice

poolVars == <<pool, contexts, available, allocated, next_context_id, tick, gates>>
prngVars == <<prng, netdraw, boot_entropy, reseed_notice>>
quantumVars == <<poolVars, prngVars>>

Qubits == 0 .. (QUANTUM_MAX_QUBITS - 1)
FreeQubit == [owner |-> "none", context |-> 0, since |-> 0, fidelity |-> FIDELITY_HIGH]
Unused == [id |-> 0, owner |-> "none", ids |-> <<>>, bits |-> <<>>]
NotDrawing == [seeds |-> {}, draws |-> -1]

(* quantum_init(); a boot without a host seed mixes the timer in.          *)
QuantumInit ==
  /\ pool = [q \in Qubits |-> FreeQubit]
  /\ contexts = [c \in 1 .. QUANTUM_MAX_CONTEXTS |-> Unused]
  /\ available = QUANTUM_MAX_QUBITS /\ allocated = 0
  /\ next_context_id = 1 /\ tick = 0 /\ gates = 0
  /\ prng = [seeds |-> {}, draws |-> 0] /\ netdraw = NotDrawing
  /\ boot_entropy = "none" /\ reseed_notice = FALSE
-----------------------------------------------------------------------------
Least0(S) == CHOOSE x \in S : \A y \in S : x <= y
FreeQubits == {q \in Qubits : pool[q].owner = "none"}
(* The first n of a set of numbers, in order.                              *)
FirstOf(S, n) ==
  LET take[k \in 0 .. n] ==
        IF k = 0 THEN <<>>
        ELSE Append(take[k - 1], Least0(S \ {take[k - 1][i] : i \in DOMAIN take[k - 1]}))
  IN  take[n]
InIds(q, ids) == \E i \in DOMAIN ids : ids[i] = q

(* quantum_context_create() with quantum_alloc_qubits(); the mutant takes  *)
(* what is left when the pool has too few.                                 *)
EnoughOrFewer(n) == TRUE
Enough(n) == n <= available
quantum_context_create(p) ==
  /\ next_context_id <= MaxContexts
  /\ \E n \in 1 .. QUANTUM_MAX_CTX_QUBITS, c \in DOMAIN contexts :
       /\ c = Least0({d \in DOMAIN contexts : contexts[d] = Unused} \cup {QUANTUM_MAX_CONTEXTS})
       /\ contexts[c] = Unused
       /\ Enough(n)
       /\ LET k == IF n <= Cardinality(FreeQubits) THEN n ELSE Cardinality(FreeQubits)
              ids == FirstOf(FreeQubits, k) \o [i \in 1 .. (n - k) |-> 0]
          IN  /\ contexts' = [contexts EXCEPT ![c] =
                     [id |-> next_context_id, owner |-> p, ids |-> ids,
                      bits |-> [i \in 1 .. n |-> "0"]]]
              /\ pool' = [q \in Qubits |->
                     IF InIds(q, ids)
                     THEN [owner |-> p, context |-> next_context_id, since |-> tick,
                           fidelity |-> FIDELITY_HIGH]
                     ELSE pool[q]]
              /\ available' = available - k /\ allocated' = allocated + k
  /\ next_context_id' = next_context_id + 1
  /\ UNCHANGED <<tick, gates, prngVars>>

(* quantum_context_destroy(): only its owner's; the qubits go back.        *)
quantum_context_destroy(p) ==
  /\ \E c \in DOMAIN contexts :
       /\ contexts[c] # Unused /\ contexts[c].owner = p
       /\ LET mine == {q \in Qubits : InIds(q, contexts[c].ids) /\ pool[q].owner = p}
          IN  /\ pool' = [q \in Qubits |-> IF q \in mine
                            THEN [pool[q] EXCEPT !.owner = "none", !.context = 0] ELSE pool[q]]
              /\ available' = available + Cardinality(mine)
              /\ allocated' = allocated - Cardinality(mine)
       /\ contexts' = [contexts EXCEPT ![c] = Unused]
  /\ UNCHANGED <<next_context_id, tick, gates, prngVars>>

(* One gate of quantum_execute_circuit() on a context whose qubits are all *)
(* still coherent: it costs fidelity and turns the shadow bit, which "?"   *)
(* marks as a superposition: the next measurement draws it.                *)
Decohered(q) == pool[q].owner = "none" \/ tick - pool[q].since >= QUANTUM_COHERENCE_TICKS
Flip(b) == CASE b = "0" -> "1" [] b = "1" -> "0" [] b = "?0" -> "?1" [] b = "?1" -> "?0"
Superposed(b) == b \in {"?0", "?1"}
Odd1(b) == b \in {"1", "?1"}
Gate(kind, bits, t, control, bit) ==
  CASE kind = "X" -> [bits EXCEPT ![t] = Flip(@)]
    [] kind = "H" -> [bits EXCEPT ![t] = IF Odd1(@) THEN "?1" ELSE "?0"]
    [] kind = "CNOT" -> IF Odd1(bits[control]) THEN [bits EXCEPT ![t] = Flip(@)] ELSE bits
    [] kind = "MEASURE" -> [bits EXCEPT ![t] = IF Superposed(@) THEN bit ELSE @]
GateKinds == {"X", "H", "CNOT", "MEASURE"}

quantum_execute_circuit(p) ==
  /\ gates < MaxGates /\ gates' = gates + 1
  /\ \E c \in DOMAIN contexts, kind \in GateKinds :
       /\ contexts[c] # Unused /\ contexts[c].owner = p
       /\ \A i \in DOMAIN contexts[c].ids : ~Decohered(contexts[c].ids[i])
       /\ \E t, control \in DOMAIN contexts[c].ids, bit \in {"0", "1"} :
            LET q == contexts[c].ids[t] IN
            /\ contexts' = [contexts EXCEPT ![c].bits = Gate(kind, @, t, control, bit)]
            /\ pool' = [pool EXCEPT ![q].fidelity = IF @ > GATE_COST THEN @ - GATE_COST ELSE @]
            /\ prng' = IF kind = "MEASURE" /\ Superposed(contexts[c].bits[t])
                       THEN [prng EXCEPT !.draws = @ + 1] ELSE prng
  /\ UNCHANGED <<available, allocated, next_context_id, tick, netdraw, boot_entropy, reseed_notice>>

CoherenceTick ==
  /\ tick < MaxTick /\ tick' = tick + 1
  /\ UNCHANGED <<pool, contexts, available, allocated, next_context_id, gates, prngVars>>
-----------------------------------------------------------------------------
(* quantum_user_random() and the lottery's quantum_kernel_rand().          *)
Draw ==
  /\ prng.draws < MaxDraws
  /\ prng' = [prng EXCEPT !.draws = @ + 1]
  /\ UNCHANGED <<poolVars, netdraw, boot_entropy, reseed_notice>>

(* quantum_kernel_rand() on the network thread, for a DNS query: read ...  *)
NetReads ==
  /\ netdraw = NotDrawing /\ prng.draws < MaxDraws /\ netdraw' = prng
  /\ UNCHANGED <<poolVars, prng, boot_entropy, reseed_notice>>
(* ... and store.  An interrupt may have come in between.                  *)
NetStores ==
  /\ netdraw # NotDrawing /\ netdraw' = NotDrawing
  /\ prng' = [netdraw EXCEPT !.draws = @ + 1]
  /\ UNCHANGED <<poolVars, boot_entropy, reseed_notice>>

(* The console's OSC sequence: a seed from the host, mixed in.             *)
quantum_session_reseed(seed) ==
  /\ seed \notin prng.seeds
  /\ prng' = [prng EXCEPT !.seeds = @ \cup {seed}]
  /\ boot_entropy' = IF boot_entropy = "none" THEN seed ELSE boot_entropy
  /\ reseed_notice' = TRUE
  /\ UNCHANGED <<poolVars, netdraw>>

quantum_take_reseed_notice ==
  /\ reseed_notice /\ reseed_notice' = FALSE
  /\ UNCHANGED <<poolVars, prng, netdraw, boot_entropy>>

QuantumNext ==
  \/ \E p \in Procs : \/ quantum_context_create(p) \/ quantum_context_destroy(p)
                      \/ quantum_execute_circuit(p)
  \/ CoherenceTick \/ Draw \/ NetReads \/ NetStores \/ quantum_take_reseed_notice
  \/ \E seed \in Seeds : quantum_session_reseed(seed)

QuantumSpec == QuantumInit /\ [][QuantumNext]_quantumVars
-----------------------------------------------------------------------------
(* The pool's counters say what the pool holds, and every qubit a context  *)
(* names is its owner's and its own: two contexts never share one, and     *)
(* none is lost when contexts come and go.                                 *)
QubitsAccounted ==
  /\ allocated = Cardinality(Qubits \ FreeQubits) /\ available = Cardinality(FreeQubits)
  /\ \A c \in DOMAIN contexts : contexts[c] # Unused =>
       \A i \in DOMAIN contexts[c].ids :
         LET q == pool[contexts[c].ids[i]] IN
         q.owner = contexts[c].owner /\ q.context = contexts[c].id
  /\ \A q \in Qubits : pool[q].owner # "none" =>
       \E c \in DOMAIN contexts : contexts[c].id = pool[q].context /\ InIds(q, contexts[c].ids)

=============================================================================

-------------------------------- MODULE Qsv --------------------------------
(***************************************************************************)
(* The executor of brokered circuits (user/qpud.c) and its exact integer   *)
(* state vector (user/qsv_engine.h): amplitudes are Gaussian integers of   *)
(* QBits bits under one implicit scale 2^(-h/2), h the Hadamards so far.   *)
(* A circuit is its operations, executed one after another; beside the     *)
(* engine runs the same circuit on unbounded integers, with every gate     *)
(* given by what it does to a basis state instead of by the engine's       *)
(* loops.                                                                  *)
(***************************************************************************)
EXTENDS Integers, Sequences
LOCAL INSTANCE FiniteSetsExt

CONSTANTS
  CircuitQubits,   \* sizes of the circuits
  QBits,           \* width of an amplitude (32 in the code)
  MaxDenominator,  \* the largest power of two of a reported denominator (31)
  MaxCircuitH,     \* bound on the Hadamards of one circuit
  MaxCircuitOps    \* bound on the operations of one circuit

ASSUME QsvConstants ==
  /\ CircuitQubits \subseteq Nat \ {0} /\ QBits \in Nat \ {0, 1}
  /\ {MaxDenominator, MaxCircuitH, MaxCircuitOps} \subseteq Nat

VARIABLES
  qubits,        \* n of the circuit in hand
  qsv,           \* [re, im, h, overflow]: the engine
  exact,         \* [re, im]: the reference, scaled by the same h
  reported,      \* the result record, or NotReported
  qsvOps

qsvVars == <<qubits, qsv, exact, reported, qsvOps>>

Basis == 0 .. 2 ^ qubits - 1
Bit(k, q) == (k \div (2 ^ q)) % 2
NotReported == [status |-> "RUNNING", num |-> 0, den |-> 1, re |-> 0, im |-> 0, probe |-> 0]

(* The truncating cast to the width of an amplitude, and a value it keeps. *)
Cast(x) == ((x + 2 ^ (QBits - 1)) % (2 ^ QBits)) - 2 ^ (QBits - 1)
QFits(x) == Cast(x) = x

-----------------------------------------------------------------------------
(* The engine.  Only the butterfly checks for overflow; a negation wraps.  *)
qsv_reset(n) ==
  [re |-> [k \in 0 .. 2 ^ n - 1 |-> IF k = 0 THEN 1 ELSE 0],
   im |-> [k \in 0 .. 2 ^ n - 1 |-> 0], h |-> 0, overflow |-> FALSE]

ButterflyPart(v, q) ==
  [k \in Basis |-> IF Bit(k, q) = 0 THEN v[k] + v[k + 2 ^ q] ELSE v[k - 2 ^ q] - v[k]]

qsv_gate_h(s, q) ==
  LET re == ButterflyPart(s.re, q)
      im == ButterflyPart(s.im, q)
  IN  [re |-> [k \in Basis |-> Cast(re[k])], im |-> [k \in Basis |-> Cast(im[k])],
       h |-> s.h + 1, overflow |-> s.overflow \/ \E k \in Basis : ~QFits(re[k]) \/ ~QFits(im[k])]

Permuted(s, to(_)) ==
  [s EXCEPT !.re = [k \in Basis |-> s.re[to(k)]], !.im = [k \in Basis |-> s.im[to(k)]]]
Negated(s, where(_)) ==
  [s EXCEPT !.re = [k \in Basis |-> IF where(k) THEN Cast(-s.re[k]) ELSE s.re[k]],
            !.im = [k \in Basis |-> IF where(k) THEN Cast(-s.im[k]) ELSE s.im[k]]]

Flip(k, q) == IF Bit(k, q) = 0 THEN k + 2 ^ q ELSE k - 2 ^ q

qsv_gate_x(s, q) == Permuted(s, LAMBDA k : Flip(k, q))
qsv_gate_z(s, q) == Negated(s, LAMBDA k : Bit(k, q) = 1)
qsv_gate_cz(s, a, b) == Negated(s, LAMBDA k : Bit(k, a) = 1 /\ Bit(k, b) = 1)
qsv_gate_cnot(s, c, t) == Permuted(s, LAMBDA k : IF Bit(k, c) = 1 THEN Flip(k, t) ELSE k)
qsv_gate_s(s, q) ==
  [s EXCEPT !.re = [k \in Basis |-> IF Bit(k, q) = 1 THEN Cast(-s.im[k]) ELSE s.re[k]],
            !.im = [k \in Basis |-> IF Bit(k, q) = 1 THEN s.re[k] ELSE s.im[k]]]
qsv_mcz_all(s) == Negated(s, LAMBDA k : k = 2 ^ qubits - 1)

(* X or H on every qubit of a set, in turn.                                *)
EachX(s, on) == FoldSet(LAMBDA q, acc : qsv_gate_x(acc, q), s, on)
EachH(s, on) == FoldSet(LAMBDA q, acc : qsv_gate_h(acc, q), s, on)
AllQubits == 0 .. qubits - 1
ZerosOf(target) == {q \in AllQubits : Bit(target, q) = 0}

OracleHalf(s, target) == qsv_mcz_all(EachX(s, ZerosOf(target)))   \* mutant
qsv_oracle(s, target) == EachX(qsv_mcz_all(EachX(s, ZerosOf(target))), ZerosOf(target))
qsv_diffusion(s) ==
  EachH(EachX(qsv_mcz_all(EachX(EachH(s, AllQubits), AllQubits)), AllQubits), AllQubits)

-----------------------------------------------------------------------------
(* The reference: X and CNOT send basis states to basis states, Z, S, CZ   *)
(* and the oracle turn phases, the diffusion reflects about the mean.      *)
Total(v) == MapThenSumSet(LAMBDA k : v[k], Basis)
Ideal(op, a, b) ==
  LET moved(to(_)) == [re |-> [k \in Basis |-> exact.re[to(k)]], im |-> [k \in Basis |-> exact.im[to(k)]]]
      turned(on(_)) == [re |-> [k \in Basis |-> IF on(k) THEN -exact.re[k] ELSE exact.re[k]],
                        im |-> [k \in Basis |-> IF on(k) THEN -exact.im[k] ELSE exact.im[k]]]
      reflected(v) == [k \in Basis |-> 2 ^ qubits * v[k] - 2 * Total(v)]
  IN  CASE op = "H" -> [re |-> ButterflyPart(exact.re, a), im |-> ButterflyPart(exact.im, a)]
        [] op = "X" -> moved(LAMBDA k : Flip(k, a))
        [] op = "CNOT" -> moved(LAMBDA k : IF Bit(k, a) = 1 THEN Flip(k, b) ELSE k)
        [] op = "Z" -> turned(LAMBDA k : Bit(k, a) = 1)
        [] op = "CZ" -> turned(LAMBDA k : Bit(k, a) + Bit(k, b) = 2)
        [] op = "ORACLE" -> turned(LAMBDA k : k = a)
        [] op = "S" -> [re |-> [k \in Basis |-> IF Bit(k, a) = 1 THEN -exact.im[k] ELSE exact.re[k]],
                        im |-> [k \in Basis |-> IF Bit(k, a) = 1 THEN exact.re[k] ELSE exact.im[k]]]
        [] op = "DIFFUSION" -> [re |-> reflected(exact.re), im |-> reflected(exact.im)]

-----------------------------------------------------------------------------
QsvInit ==
  /\ qubits \in CircuitQubits
  /\ qsv = qsv_reset(qubits) /\ exact = [re |-> qsv.re, im |-> qsv.im]
  /\ reported = NotReported /\ qsvOps = 0

(* An operation names qubits of the circuit, two of them different ones.   *)
ValidOp(op, a, b) ==
  CASE op \in {"H", "X", "Z", "S"} -> a < qubits
    [] op \in {"CNOT", "CZ"} -> a < qubits /\ b < qubits /\ a # b
    [] op = "ORACLE" -> a < 2 ^ qubits
    [] OTHER -> op = "DIFFUSION"

Gate(op, a, b) ==
  CASE op = "H" -> qsv_gate_h(qsv, a)
    [] op = "X" -> qsv_gate_x(qsv, a)
    [] op = "Z" -> qsv_gate_z(qsv, a)
    [] op = "S" -> qsv_gate_s(qsv, a)
    [] op = "CNOT" -> qsv_gate_cnot(qsv, a, b)
    [] op = "CZ" -> qsv_gate_cz(qsv, a, b)
    [] op = "ORACLE" -> qsv_oracle(qsv, a)
    [] op = "DIFFUSION" -> qsv_diffusion(qsv)

(* One operation of run_circuit; a malformed one ends the circuit.         *)
Operation(op, a, b) ==
  /\ reported = NotReported /\ qsvOps < MaxCircuitOps /\ qsvOps' = qsvOps + 1
  /\ qsv.h + (IF op = "H" THEN 1 ELSE IF op = "DIFFUSION" THEN 2 * qubits ELSE 0) <= MaxCircuitH
  /\ IF ValidOp(op, a, b)
       THEN qsv' = Gate(op, a, b) /\ exact' = Ideal(op, a, b) /\ UNCHANGED reported
       ELSE reported' = [NotReported EXCEPT !.status = "EINVAL"] /\ UNCHANGED <<qsv, exact>>
  /\ UNCHANGED qubits

Norm(s) == MapThenSumSet(LAMBDA k : s.re[k] * s.re[k] + s.im[k] * s.im[k], Basis)
qsv_norm_ok(s) == Norm(s) = 2 ^ s.h

(* Common factors of two, at most h of them, are shifted out.              *)
TwosIn(m, h) == CHOOSE t \in 0 .. h : m % 2 ^ t = 0 /\ (t < h => m % 2 ^ (t + 1) # 0)

(* The end of run_circuit: overflow and norm, then the reduced fraction.   *)
Report(probe) ==
  LET m == qsv.re[probe] * qsv.re[probe] + qsv.im[probe] * qsv.im[probe]
      t == TwosIn(m, qsv.h)
  IN  IF qsv.overflow \/ ~qsv_norm_ok(qsv) \/ (m # 0 /\ qsv.h - t > MaxDenominator)
        THEN [NotReported EXCEPT !.status = "EINVAL"]
        ELSE [status |-> "OK", probe |-> probe, re |-> qsv.re[probe], im |-> qsv.im[probe],
              num |-> m \div 2 ^ t, den |-> IF m = 0 THEN 1 ELSE 2 ^ (qsv.h - t)]

run_circuit(probe) ==
  /\ reported = NotReported /\ reported' = Report(probe)
  /\ UNCHANGED <<qubits, qsv, exact, qsvOps>>

(* A version, a size, a probe or a length that is no circuit's.            *)
BadHeader ==
  /\ reported = NotReported /\ qsvOps = 0
  /\ reported' = [NotReported EXCEPT !.status = "EINVAL"]
  /\ UNCHANGED <<qubits, qsv, exact, qsvOps>>

(* _start: the result goes to the broker and the next circuit is fetched;  *)
(* the engine's arrays, scale and flag are the same ones.                  *)
NextCircuit ==
  /\ reported # NotReported /\ reported' = NotReported
  /\ qubits' \in CircuitQubits
  /\ qsv' = qsv_reset(qubits') /\ exact' = [re |-> qsv'.re, im |-> qsv'.im]
  /\ qsvOps' = 0

QsvNext ==
  \/ BadHeader \/ NextCircuit
  \/ \E op \in {"H", "X", "Z", "S", "CNOT", "CZ", "ORACLE"}, a \in 0 .. qubits, b \in 0 .. 1 :
       (op \notin {"CNOT", "CZ"} => b = 0) /\ Operation(op, a, b)
  \/ \E op \in {"DIFFUSION", "other"} : Operation(op, 0, 0)
  \/ \E probe \in Basis : run_circuit(probe)

QsvSpec == QsvInit /\ [][QsvNext]_qsvVars

-----------------------------------------------------------------------------
(* A probability reported as OK is the circuit's probability, exactly, as  *)
(* a fraction in lowest terms, for every circuit and although amplitudes   *)
(* have a fixed width (qpud.c:104): a wrapped amplitude never decides it.  *)
ProbabilityExact ==
  reported.status = "OK" =>
    LET p == reported.probe
        m == exact.re[p] * exact.re[p] + exact.im[p] * exact.im[p]
    IN  /\ reported.num * 2 ^ qsv.h = reported.den * m
        /\ reported.num % 2 = 1 \/ reported.den = 1

(* "set a sticky qsv_overflow flag and are refused, not wrapped"           *)
(* (docs/adr/0012:30): the amplitude reported is the circuit's amplitude.  *)
AmplitudeExact ==
  reported.status = "OK" =>
    reported.re = exact.re[reported.probe] /\ reported.im = exact.im[reported.probe]
=============================================================================

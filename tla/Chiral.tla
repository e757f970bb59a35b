------------------------------- MODULE Chiral -------------------------------
(***************************************************************************)
(* Two parts of the resonance library, which is linked into the kernel and *)
(* driven only through its calls: the chiral qubit pool                    *)
(* (kernel/src/resonance/chiral_resources.c) and, below it, the geometric  *)
(* control layer the resonant scheduler consults (geometric_control.c).    *)
(*                                                                         *)
(* In the pool, chirality and damping are in thousandths; coherence time   *)
(* and fidelity follow from ciss_active and are left out, and so is        *)
(* max_asymmetry.                                                          *)
(***************************************************************************)
EXTENDS Integers, Sequences, FiniteSets
LOCAL INSTANCE SequencesExt

CONSTANTS
  ChiralQubits,   \* the pool's indices, an interval from 0
  MAX_COUPLINGS,  \* length of coupled_qubits
  MaxChiralOps    \* bound on the calls of one behaviour

ASSUME ChiralConstants ==
  /\ ChiralQubits = 0 .. (Cardinality(ChiralQubits) - 1) /\ ChiralQubits # {}
  /\ MAX_COUPLINGS \in Nat \ {0} /\ MaxChiralOps \in Nat

VARIABLES
  cqubit,       \* [ChiralQubits -> chiral_qubit_t]
  pool_state,   \* the statistics of the last update_pool_stats
  chiral_resources_initialized,
  chiralOps

chiralVars == <<cqubit, pool_state, chiral_resources_initialized, chiralOps>>

ETA_OPTIMAL == 618
STABILITY_EXCELLENT == 300
STABILITY_GOOD == 600
STABILITY_MARGINAL == 1000

calculate_asymmetry(eta, gamma) == IF gamma <= 0 THEN eta ELSE (eta * 1000) \div gamma

(* 0 excellent, 1 good, 2 marginal, 3 unstable.                            *)
classify_stability(asymmetry) ==
  Cardinality({t \in {STABILITY_EXCELLENT, STABILITY_GOOD, STABILITY_MARGINAL} : asymmetry >= t})

recalculate_qubit_stability(q) ==
  LET a == calculate_asymmetry(q.eta, q.gamma)
  IN  [q EXCEPT !.asymmetry = a, !.class = classify_stability(a)]

DefaultQubit ==
  recalculate_qubit_stability(
    [allocated |-> FALSE, eta |-> ETA_OPTIMAL, gamma |-> 1000, asymmetry |-> 0, class |-> 0,
     hand |-> "NEUTRAL", ciss |-> FALSE, topological |-> FALSE, coupled |-> << >>])

AllocatedIn(pool) == {i \in ChiralQubits : pool[i].allocated}

(* Everything is counted over allocated qubits.                            *)
update_pool_stats(pool) ==
  LET up == AllocatedIn(pool) IN
  [available |-> Cardinality(ChiralQubits \ up), allocated |-> Cardinality(up),
   unstable |-> Cardinality({i \in up : pool[i].class = 3}),
   ciss |-> Cardinality({i \in up : pool[i].ciss}),
   protected |-> Cardinality({i \in up : pool[i].topological})]

NewPool == [i \in ChiralQubits |-> DefaultQubit]

ChiralInit ==
  /\ cqubit = NewPool /\ pool_state = update_pool_stats(NewPool)
  /\ chiral_resources_initialized = TRUE /\ chiralOps = 0

Ready == chiral_resources_initialized /\ chiralOps < MaxChiralOps /\ chiralOps' = chiralOps + 1

(* A call that recounts the pool, and one that leaves the counts alone.    *)
Recount(pool) ==
  cqubit' = pool /\ pool_state' = update_pool_stats(pool) /\ UNCHANGED chiral_resources_initialized
Quiet(pool) == cqubit' = pool /\ UNCHANGED <<pool_state, chiral_resources_initialized>>

chiral_resources_shutdown ==
  /\ Ready /\ chiral_resources_initialized' = FALSE /\ UNCHANGED <<cqubit, pool_state>>

chiral_resources_init ==
  /\ ~chiral_resources_initialized /\ chiral_resources_initialized' = TRUE
  /\ cqubit' = NewPool /\ pool_state' = update_pool_stats(NewPool) /\ UNCHANGED chiralOps

(* What a request asks of a qubit; CISS is switched on to meet it, before  *)
(* the topological test that may still refuse the qubit.                   *)
Suits(q, rq) ==
  /\ ~q.allocated /\ q.class <= rq.min_stability
  /\ rq.hand = "NEUTRAL" \/ q.hand \in {"NEUTRAL", rq.hand}

Enhanced(q, rq) == IF rq.ciss THEN [q EXCEPT !.ciss = TRUE] ELSE q
Claimed(q, rq) ==
  [q EXCEPT !.allocated = TRUE, !.hand = IF rq.hand = "NEUTRAL" THEN @ ELSE rq.hand]

chiral_allocate(rq) ==
  LET take(acc, i) ==
        IF acc.left = 0 \/ ~Suits(acc.pool[i], rq) THEN acc
        ELSE LET q == Enhanced(acc.pool[i], rq)
             IN  IF rq.topological /\ ~q.topological THEN [acc EXCEPT !.pool[i] = q]
                 ELSE [pool |-> [acc.pool EXCEPT ![i] = Claimed(q, rq)], left |-> acc.left - 1]
  IN  /\ Ready
      /\ Recount(FoldLeft(take, [pool |-> cqubit, left |-> rq.count],
                          [k \in 1 .. Cardinality(ChiralQubits) |-> k - 1]).pool)

Without(list, q) ==   \* the first entry naming q, shifted out
  LET at == {k \in DOMAIN list : list[k] = q}
  IN  IF at = {} THEN list ELSE RemoveAt(list, CHOOSE k \in at : \A m \in at : k <= m)

Unlinked(pool, q) ==
  [i \in ChiralQubits |-> IF \E k \in DOMAIN pool[q].coupled : pool[q].coupled[k] = i
                            THEN [pool[i] EXCEPT !.coupled = Without(@, q)] ELSE pool[i]]
OnlyItself(pool, q) == [pool EXCEPT ![q] = DefaultQubit]   \* mutant: peers keep naming it
Released(pool, q) == [Unlinked(pool, q) EXCEPT ![q] = DefaultQubit]

(* Whoever asks: the pid is not compared with anything.                    *)
chiral_deallocate(q) ==
  /\ Ready
  /\ Recount(IF cqubit[q].allocated THEN Released(cqubit, q) ELSE cqubit)

(* Ten per cent towards the optimum; damping follows when the ratio has    *)
(* left the stable regime.                                                 *)
OptimizedQubit(q) ==
  LET eta == (9 * q.eta + ETA_OPTIMAL) \div 10
      bad == q.gamma > 0 /\ calculate_asymmetry(eta, q.gamma) >= STABILITY_MARGINAL
  IN  recalculate_qubit_stability(
        [q EXCEPT !.eta = eta, !.gamma = IF bad THEN (eta * 1000) \div 900 ELSE @])

RebalancedQubit(q) ==
  recalculate_qubit_stability(
    IF q.asymmetry > STABILITY_MARGINAL THEN [q EXCEPT !.gamma = (q.eta * 1000) \div 540]
    ELSE IF q.asymmetry < STABILITY_EXCELLENT
           THEN [q EXCEPT !.gamma = IF (@ * 95) \div 100 < 100 THEN 100 ELSE (@ * 95) \div 100]
           ELSE q)

chiral_optimize_qubit(q) == Ready /\ Quiet([cqubit EXCEPT ![q] = OptimizedQubit(@)])
chiral_rebalance_qubit(q) == Ready /\ Quiet([cqubit EXCEPT ![q] = RebalancedQubit(@)])

OverAllocated(step(_)) ==
  Recount([i \in ChiralQubits |-> IF cqubit[i].allocated THEN step(cqubit[i]) ELSE cqubit[i]])
chiral_optimize_pool == Ready /\ OverAllocated(OptimizedQubit)
chiral_rebalance_pool == Ready /\ OverAllocated(RebalancedQubit)

chiral_flip_handedness(q) ==
  /\ Ready
  /\ Quiet([cqubit EXCEPT ![q].hand = IF @ = "LEFT" THEN "RIGHT"
                                      ELSE IF @ = "RIGHT" THEN "LEFT" ELSE @])

(* CISS and topological protection, on or off, allocated or not.           *)
chiral_set_ciss(q, on) == Ready /\ Quiet([cqubit EXCEPT ![q].ciss = on])
chiral_set_topological(q, on) == Ready /\ Quiet([cqubit EXCEPT ![q].topological = on])

(* Both directions or neither; only q1's list is searched for a duplicate. *)
chiral_couple_qubits(q1, q2) ==
  /\ Ready /\ q1 # q2
  /\ Quiet(IF \/ Len(cqubit[q1].coupled) >= MAX_COUPLINGS
              \/ Len(cqubit[q2].coupled) >= MAX_COUPLINGS
              \/ \E k \in DOMAIN cqubit[q1].coupled : cqubit[q1].coupled[k] = q2
           THEN cqubit
           ELSE [cqubit EXCEPT ![q1].coupled = Append(@, q2), ![q2].coupled = Append(@, q1)])

chiral_decouple_qubits(q1, q2) ==
  /\ Ready /\ q1 # q2
  /\ Quiet([cqubit EXCEPT ![q1].coupled = Without(@, q2), ![q2].coupled = Without(@, q1)])

ChiralRequests ==
  [count : 1 .. 2, min_stability : {1, 2}, hand : {"LEFT", "NEUTRAL"}, ciss : BOOLEAN,
   topological : BOOLEAN]

ChiralNext ==
  \/ chiral_resources_shutdown \/ chiral_resources_init
  \/ \E rq \in ChiralRequests : chiral_allocate(rq)
  \/ chiral_optimize_pool \/ chiral_rebalance_pool
  \/ \E q \in ChiralQubits :
       \/ chiral_deallocate(q)
       \/ chiral_optimize_qubit(q) \/ chiral_rebalance_qubit(q)
       \/ chiral_flip_handedness(q)
       \/ \E on \in BOOLEAN : chiral_set_ciss(q, on) \/ chiral_set_topological(q, on)
       \/ \E r \in ChiralQubits : chiral_couple_qubits(q, r) \/ chiral_decouple_qubits(q, r)

ChiralSpec == ChiralInit /\ [][ChiralNext]_chiralVars

-----------------------------------------------------------------------------
(* Couplings are mutual and distinct and fit their arrays: releasing a     *)
(* qubit, decoupling and re-initialising never leave one qubit naming a    *)
(* peer that does not name it back.                                        *)
CouplingsMutual ==
  \A q \in ChiralQubits :
    LET list == cqubit[q].coupled IN
    /\ Len(list) <= MAX_COUPLINGS
    /\ \A k \in DOMAIN list :
         /\ \E m \in DOMAIN cqubit[list[k]].coupled : cqubit[list[k]].coupled[m] = q
         /\ \A m \in DOMAIN list : list[m] = list[k] => m = k
-----------------------------------------------------------------------------
(***************************************************************************)
(* The geometric control layer (kernel/src/resonance/geometric_control.c)  *)
(* of the resonant library, in two dimensions: a BFGS metric and its       *)
(* inverse, the curvature of its last change, the Berry phase of the       *)
(* oscillator states it is given, and the filter of chiral anomalies.      *)
(*                                                                         *)
(* The arithmetic is exact, in rationals <<numerator, denominator>>.       *)
(* Oscillator phases are quarter turns and a turn is four units long; the  *)
(* angle between two states, a third or a quarter of a half turn, is kept  *)
(* in degrees.  Berry's connection and curvature and the topological       *)
(* charge are only reported, and left out.                                 *)
(***************************************************************************)
CONSTANTS
  GeoPoints,       \* oscillator states, [Axes -> 0 .. 3]
  GeoGradients,    \* gradients, [Axes -> Int]
  ModeLists,       \* left or right modes: sequences of amplitudes
  Threshold,       \* anomaly threshold, in percent
  BERRY_HISTORY,   \* GEOMETRIC_BERRY_HISTORY
  MaxGeoOps        \* which calls ("metric", "berry", "modes") a behaviour may make, and how many

ASSUME GeometricConstants ==
  /\ \A p \in GeoPoints : p \in [1 .. 2 -> 0 .. 3]
  /\ \A p \in GeoGradients : p \in [1 .. 2 -> Int]
  /\ BERRY_HISTORY >= 3 /\ Threshold \in Nat
  /\ DOMAIN MaxGeoOps \subseteq SUBSET {"metric", "berry", "modes"}

VARIABLES
  geometric_valid,   \* initialized, with the magic number
  metric,            \* metric_state_t and the previous point and gradient
  ricci,             \* the tensor and the scalar last computed
  berry,             \* berry_state_t
  anomaly,           \* the last result and the ring of readings
  walked, taken,     \* history: the states given to Berry's tracker; what updates of
                     \* the metric have added to its phase, and the last step taken
  readings,          \* history: every anomaly reading
  geoUse, geoOps

geometricVars ==
  <<geometric_valid, metric, ricci, berry, anomaly, walked, taken, readings, geoUse, geoOps>>

Axes == 1 .. 2
Abs(n) == IF n < 0 THEN -n ELSE n
gcd[a \in Nat] == [b \in Nat |-> IF b = 0 THEN a ELSE gcd[b][a % b]]
Ratio(n, d) ==
  LET g == gcd[Abs(n)][Abs(d)]   s == IF d < 0 THEN -1 ELSE 1
  IN  <<s * (n \div g), s * (d \div g)>>
Rat(n) == <<n, 1>>
Plus(x, y) ==
  LET g == gcd[x[2]][y[2]]
  IN  Ratio(x[1] * (y[2] \div g) + y[1] * (x[2] \div g), x[2] * (y[2] \div g))
Times(x, y) ==
  LET a == Ratio(x[1], y[2])   b == Ratio(y[1], x[2]) IN <<a[1] * b[1], a[2] * b[2]>>
Minus(x, y) == Plus(x, Times(Rat(-1), y))
Over(x, y) == Times(x, Ratio(y[2], y[1]))
Larger(x, y) == Abs(x[1]) * y[2] > Abs(y[1]) * x[2]
SumAxes(f(_)) == Plus(f(1), f(2))

Matrix(f(_, _)) == [i \in Axes |-> [j \in Axes |-> f(i, j)]]
Identity == Matrix(LAMBDA i, j : IF i = j THEN Rat(1) ELSE Rat(0))
Flat == [tensor |-> Matrix(LAMBDA i, j : Rat(0)), scalar |-> Rat(0)]

(* The shorter way round, of either sign when both are as long.            *)
Wrapped(d) == IF d > 2 THEN d - 4 ELSE IF d < -2 THEN d + 4 ELSE d

NewMetric ==
  [g |-> Identity, g_inv |-> Identity, g_prev |-> Identity, update_count |-> 0,
   has_prev |-> FALSE, point |-> [i \in Axes |-> 0], gradient |-> [i \in Axes |-> 0]]
NewBerry == [has_previous |-> FALSE, state |-> [i \in Axes |-> 0], phase |-> 0, holonomy |-> 0]
NoAnomaly == [index |-> 0, asymmetry |-> 0, anomalous |-> FALSE]
NewAnomaly ==
  [last |-> NoAnomaly, ring |-> [k \in 0 .. BERRY_HISTORY - 1 |-> FALSE], idx |-> 0, count |-> 0]

NothingTaken == [drift |-> 0, last |-> << >>]

GeometricInit ==
  /\ geometric_valid = TRUE /\ metric = NewMetric /\ ricci = Flat /\ berry = NewBerry
  /\ anomaly = NewAnomaly /\ walked = << >> /\ taken = NothingTaken /\ readings = << >>
  /\ geoUse \in DOMAIN MaxGeoOps /\ geoOps = 0

GeoCall(use) ==
  /\ geometric_valid /\ use \in geoUse /\ geoOps < MaxGeoOps[geoUse] /\ geoOps' = geoOps + 1
  /\ UNCHANGED <<geometric_valid, geoUse>>

geometric_shutdown ==
  /\ geoOps < MaxGeoOps[geoUse] /\ geoOps' = geoOps + 1 /\ geometric_valid' = FALSE
  /\ UNCHANGED <<metric, ricci, berry, anomaly, walked, taken, readings, geoUse>>

(* Whether valid or not: everything is cleared.                            *)
geometric_init ==
  /\ geoOps < MaxGeoOps[geoUse] /\ geoOps' = geoOps + 1 /\ geometric_valid' = TRUE
  /\ metric' = NewMetric /\ ricci' = Flat /\ berry' = NewBerry /\ anomaly' = NewAnomaly
  /\ walked' = << >> /\ taken' = NothingTaken /\ readings' = << >> /\ UNCHANGED geoUse

(* BFGS on the inverse Hessian, its diagonal kept above 0.000001.          *)
AnyCurvature(s, y) == s[1] * y[1] + s[2] * y[2] # 0   \* mutant
CurvatureHolds(s, y) == s[1] * y[1] + s[2] * y[2] > 0

Clamped(x) == IF x[1] <= 0 THEN <<1, 1000000>> ELSE x
BfgsStep(g, s, y) ==
  LET rho    == Ratio(1, s[1] * y[1] + s[2] * y[2])
      Hy     == [i \in Axes |-> SumAxes(LAMBDA j : Times(g[i][j], Rat(y[j])))]
      yTHy   == SumAxes(LAMBDA i : Times(Rat(y[i]), Hy[i]))
      factor == Plus(Rat(1), Times(rho, yTHy))
      new(i, j) ==
        Plus(g[i][j],
             Times(rho, Minus(Times(factor, Rat(s[i] * s[j])),
                              Plus(Times(Rat(s[i]), Hy[j]), Times(Hy[i], Rat(s[j]))))))
  IN  Matrix(LAMBDA i, j : IF i = j THEN Clamped(new(i, i))
                           ELSE Times(Ratio(1, 2), Plus(new(i, j), new(j, i))))

(* Gauss-Jordan on the rows of [g | 1], with partial pivoting.             *)
SwapRows(aug, a, b) == [aug EXCEPT ![a] = aug[b], ![b] = aug[a]]
Eliminated(aug, col) ==
  LET best == CHOOSE r \in col .. 2 :
                \A q \in col .. 2 : /\ ~Larger(aug[q][col], aug[r][col])
                                    /\ q < r => Larger(aug[r][col], aug[q][col])
      rows == SwapRows(aug, col, best)
      pivot == [j \in 1 .. 4 |-> Over(rows[col][j], rows[col][col])]
  IN  IF rows[col][col][1] = 0 THEN << >>
      ELSE [r \in Axes |->
              IF r = col THEN pivot
              ELSE [j \in 1 .. 4 |-> Minus(rows[r][j], Times(rows[r][col], pivot[j]))]]

geometric_invert_metric(g) ==
  LET step(aug, col) == IF aug = << >> THEN aug ELSE Eliminated(aug, col)
      end == FoldLeft(step, [i \in Axes |-> g[i] \o Identity[i]], <<1, 2>>)
  IN  IF end = << >> THEN Identity ELSE Matrix(LAMBDA i, j : end[i][j + 2])

(* The relative change of the diagonal, in radians, as whole degrees.      *)
MetricBerry(old, new) ==
  LET r == SumAxes(LAMBDA i : Over(Minus(new[i][i], old[i][i]), old[i][i]))
  IN  (r[1] * 573) \div (r[2] * 20)

geometric_update_metric(point, gradient) ==
  LET s == [i \in Axes |-> Wrapped(point[i] - metric.point[i])]
      y == [i \in Axes |-> gradient[i] - metric.gradient[i]]
      curved == metric.has_prev /\ CurvatureHolds(s, y)
      g == IF curved THEN BfgsStep(metric.g, s, y) ELSE metric.g
      drift == IF curved THEN MetricBerry(metric.g, g) ELSE 0
  IN  /\ GeoCall("metric")
      /\ metric' = [g |-> g, g_prev |-> metric.g,
                    g_inv |-> IF metric.has_prev THEN geometric_invert_metric(g) ELSE metric.g_inv,
                    update_count |-> metric.update_count + 1,
                    has_prev |-> TRUE, point |-> point, gradient |-> gradient]
      /\ berry' = [berry EXCEPT !.phase = @ + drift]
      /\ taken' = [drift |-> taken.drift + drift, last |-> IF curved THEN <<s, y>> ELSE taken.last]
      /\ UNCHANGED <<ricci, anomaly, walked, readings>>

(* The lengths of the wrapped differences, without their signs.            *)
geometric_geodesic_distance(a, b) ==   \* squared
  LET delta == [i \in Axes |-> IF Abs(a[i] - b[i]) > 2 THEN 4 - Abs(a[i] - b[i]) ELSE Abs(a[i] - b[i])]
  IN  SumAxes(LAMBDA i : SumAxes(LAMBDA j : Times(Rat(delta[i] * delta[j]), metric.g[i][j])))

(* The last change of the metric stands for its derivative along each axis.*)
geometric_compute_christoffel ==
  LET dg(i, j) == IF metric.update_count > 1
                    THEN Times(Ratio(1, 2), Minus(metric.g[i][j], metric.g_prev[i][j])) ELSE Rat(0)
  IN  [k \in Axes |-> Matrix(LAMBDA i, j :
         Times(Ratio(1, 2),
               SumAxes(LAMBDA l : Times(metric.g_inv[k][l], Minus(Plus(dg(j, l), dg(i, l)), dg(i, j))))))]

geometric_compute_ricci_scalar ==
  LET gamma == geometric_compute_christoffel
      riemann(l, k, i, j) ==
        SumAxes(LAMBDA m : Minus(Times(gamma[l][i][m], gamma[m][j][k]),
                                 Times(gamma[l][j][m], gamma[m][i][k])))
      tensor == Matrix(LAMBDA i, j : SumAxes(LAMBDA k : riemann(k, i, k, j)))
  IN  /\ GeoCall("metric")
      /\ ricci' = [tensor |-> tensor,
                   scalar |-> SumAxes(LAMBDA i :
                                SumAxes(LAMBDA j : Times(metric.g_inv[i][j], tensor[i][j])))]
      /\ UNCHANGED <<metric, berry, anomaly, walked, taken, readings>>

(* The angle between two states, from the cosines and sines of the turns   *)
(* between their phases; the sign is + when the sines cancel.              *)
CosQuarter == <<1, 0, -1, 0>>
SinQuarter == <<0, 1, 0, -1>>
Overlap(a, b) ==
  LET turn(i) == ((b[i] - a[i]) % 4) + 1
      dot   == CosQuarter[turn(1)] + CosQuarter[turn(2)]
      cross == SinQuarter[turn(1)] + SinQuarter[turn(2)]
      angle == <<180, 120, 90, 60, 0>>[dot + 3]
  IN  IF cross >= 0 THEN angle ELSE -angle

(* The phase less whole turns, within half a turn of either sign.          *)
Holonomy(x) == IF x > 180 THEN ((x + 179) % 360) - 179
               ELSE IF x < -180 THEN ((x + 180) % 360) - 180 ELSE x

geometric_update_berry_phase(state) ==
  LET phase == IF berry.has_previous THEN berry.phase + Overlap(berry.state, state) ELSE berry.phase
  IN  /\ GeoCall("berry")
      /\ berry' = [has_previous |-> TRUE, state |-> state, phase |-> phase,
                   holonomy |-> IF berry.has_previous THEN Holonomy(phase) ELSE berry.holonomy]
      /\ walked' = Append(walked, state)
      /\ UNCHANGED <<metric, ricci, anomaly, taken, readings>>

geometric_compute_berry_phase_loop(loop) ==
  LET n == Len(loop)
  IN  IF n < 3 THEN 0
      ELSE FoldLeft(LAMBDA sum, k : sum + Overlap(loop[k], loop[(k % n) + 1]), 0, [k \in 1 .. n |-> k])

(* One reading, of amplitudes in multiples of the noise floor.             *)
AnomalyOf(left, right) ==
  LET active(m) == Cardinality({k \in DOMAIN m : Abs(m[k]) > 1})
      sum(m, f(_)) == FoldLeft(LAMBDA acc, a : acc + f(a), 0, m)
      energy(m) == sum(m, LAMBDA a : a * a)
      total == energy(left) + energy(right)
  IN  [index |-> active(right) - active(left),
       asymmetry |-> sum(right, Abs) - sum(left, Abs),
       anomalous |-> total > 0 /\ Abs(energy(right) - energy(left)) * 100 > Threshold * total]

geometric_detect_chiral_anomaly(left, right) ==
  LET a == AnomalyOf(left, right)
  IN  /\ GeoCall("modes")
      /\ anomaly' = [last |-> a, ring |-> [anomaly.ring EXCEPT ![anomaly.idx] = a.anomalous],
                     idx |-> (anomaly.idx + 1) % BERRY_HISTORY,
                     count |-> IF anomaly.count < BERRY_HISTORY THEN anomaly.count + 1 ELSE anomaly.count]
      /\ readings' = Append(readings, a.anomalous)
      /\ UNCHANGED <<metric, ricci, berry, walked, taken>>

NewestAtIndex(back) == (anomaly.idx + BERRY_HISTORY + 1 - back) % BERRY_HISTORY   \* mutant
ReadingAt(back) == (anomaly.idx + BERRY_HISTORY - back) % BERRY_HISTORY
geometric_is_anomalous ==
  geometric_valid /\ anomaly.count >= 3 /\ \A back \in 1 .. 3 : anomaly.ring[ReadingAt(back)]

GeometricNext ==
  \/ geometric_shutdown \/ geometric_init \/ geometric_compute_ricci_scalar
  \/ \E p \in GeoPoints :
       geometric_update_berry_phase(p) \/ \E y \in GeoGradients : geometric_update_metric(p, y)
  \/ \E left, right \in ModeLists : geometric_detect_chiral_anomaly(left, right)

GeometricSpec == GeometricInit /\ [][GeometricNext]_geometricVars

-----------------------------------------------------------------------------
(* The metric stays symmetric and positive definite, so that distinct      *)
(* points are a distance apart, whatever points and gradients it is given; *)
(* it maps the last change of gradient it accepted to the step that went   *)
(* with it; g_inv is its inverse, and the Ricci tensor is symmetric.       *)
MetricSound ==
  LET g == metric.g
      det(m) == Minus(Times(m[1][1], m[2][2]), Times(m[1][2], m[2][1]))
  IN  /\ g[1][2] = g[2][1] /\ g[1][1][1] > 0 /\ det(g)[1] > 0
      /\ \A i, j \in Axes : SumAxes(LAMBDA k : Times(g[i][k], metric.g_inv[k][j])) = Identity[i][j]
      /\ taken.last # << >> =>
           \A i \in Axes : SumAxes(LAMBDA j : Times(g[i][j], Rat(taken.last[2][j]))) = Rat(taken.last[1][i])
      /\ ricci.tensor[1][2] = ricci.tensor[2][1]
      /\ \A a, b \in GeoPoints : a # b => geometric_geodesic_distance(a, b)[1] > 0

(* The phase that steps add up around a closed loop is the one computed    *)
(* for the loop as a whole, and the holonomy is a phase within half a turn.*)
LoopAgrees ==
  /\ Len(walked) >= 4 /\ walked[1] = walked[Len(walked)] =>
       berry.phase - taken.drift = geometric_compute_berry_phase_loop(Front(walked))
  /\ berry.holonomy \in -180 .. 180

(* "true if 3+ consecutive anomalous readings" (geometric_control.h:278).  *)
AnomalySustained ==
  geometric_is_anomalous <=> /\ geometric_valid /\ Len(readings) >= 3
                             /\ \A k \in 0 .. 2 : readings[Len(readings) - k]
=============================================================================

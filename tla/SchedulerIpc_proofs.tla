------------------------- MODULE SchedulerIpc_proofs -------------------------
(***************************************************************************)
(* The two kernel services a process waits on, and the boost by which one  *)
(* favours the other.                                                      *)
(*                                                                         *)
(* Scheduling, for every size of the process table, every boost budget K   *)
(* and every quantum: the current process is the one that is RUNNING,      *)
(* something is always runnable, and a READY process is overtaken at most  *)
(* (K + 1) * (N - 1) - 1 times.  The bound is not inductive.  The          *)
(* invariant Progress charges each overtaking to a pid that the rotation   *)
(* has passed on its way from the watched process back to it: K + 1 for    *)
(* each pid passed, and one for each boosted pick since.  A boosted pick   *)
(* raises consec_boost, a plain one moves the cursor over one more pid.    *)
(*                                                                         *)
(* Message passing, for every number of processes, queue length and pool   *)
(* size: the doubly linked queues and the free list that share one array   *)
(* of entries are those of disjoint sequences that cover it, so that every *)
(* operation on pointers is the operation of Mailbox on sequences.         *)
(***************************************************************************)
EXTENDS Scheduler, Ipc, LeastNat_proofs, SequenceTheorems

(* The pids the rotation need not visit again before the watched one.      *)
Passed(s) ==
  {q \in Pids \ {IDLE, watch} :
     Distance(s.cursor, watch) <= Distance(s.cursor, q)}
Progress(s) == s.waited <= (K + 1) * Cardinality(Passed(s)) + s.consec

OneRunning(s) == \A p \in Pids : s.state[p] = "RUNNING" <=> p = s.cur
KernelAlive(s) == s.state[KERNEL] \in {"READY", "RUNNING"}
Good(s) == s \in Schedules /\ OneRunning(s) /\ KernelAlive(s) /\ Progress(s)

Rest ==
  /\ generation \in [Pids -> Nat]
  /\ cpu \in [Pids -> Nat]
  /\ holder \in [pid : Pids, gen : Nat]
  /\ reader \in [pid : Pids, gen : Nat, waiting : BOOLEAN]
  /\ watch \in Pids \ {IDLE}

IInv == Good(sch) /\ Rest
-----------------------------------------------------------------------------
LEMMA PidFacts ==
  /\ KERNEL \in Pids /\ IDLE \in Pids /\ Net \in Pids
  /\ Pids \subseteq Nat
  /\ KERNEL # IDLE /\ KERNEL \notin Users
  BY NAssumption DEF Pids, KERNEL, IDLE, Net, Users

(* Distances from a pid are positive and tell pids apart.                  *)
LEMMA DistanceFacts ==
  ASSUME NEW a \in Pids
  PROVE  /\ \A p \in Pids : Distance(a, p) \in Nat
         /\ \A p, q \in Pids : Distance(a, p) = Distance(a, q) => p = q
  BY NAssumption DEF Distance, Pids

(* When the cursor moves to a pid before the watched one, what was passed  *)
(* stays passed and that pid is passed too.                                *)
LEMMA CursorMoves ==
  ASSUME NEW c \in Pids, NEW n \in Pids, NEW w \in Pids,
         Distance(c, n) < Distance(c, w)
  PROVE  /\ Distance(n, w) <= Distance(n, n)
         /\ \A q \in Pids : Distance(c, w) <= Distance(c, q)
                              => Distance(n, w) <= Distance(n, q)
  BY NAssumption DEF Distance, Pids

(* A scan of a nonempty set finds its nearest member.                      *)
LEMMA NearestIsNearest ==
  ASSUME NEW a \in Pids, NEW S \in SUBSET Pids, S # {}
  PROVE  /\ NearestAfter(a, S) \in S
         /\ \A q \in S : Distance(a, NearestAfter(a, S)) <= Distance(a, q)
<1> DEFINE D == {Distance(a, p) : p \in S}
<1>1. D \in SUBSET Nat /\ D # {}
  BY DistanceFacts
<1>2. PICK m \in D : \A t \in D : m <= t
  <2> HIDE DEF D
  <2> QED BY <1>1, LeastExists
<1>3. PICK p \in S : m = Distance(a, p)
  OBVIOUS
<1>4. \A q \in S : Distance(a, p) <= Distance(a, q)
  BY <1>2, <1>3
<1> QED
  BY <1>4 DEF NearestAfter

(* What pick_next() returns is READY, and a plain pick is the one nearest  *)
(* to the cursor.                                                          *)
LEMMA PickFacts ==
  ASSUME NEW s \in Schedules, Ready(s) # {}
  PROVE  /\ pick_next(s) \in Ready(s)
         /\ Rotation(s) # {} => pick_next(s) \in Rotation(s)
         /\ ~ pick_was_boost(s) => \A q \in Rotation(s) :
              Distance(s.cursor, pick_next(s)) <= Distance(s.cursor, q)
<1>1. s.cur \in Pids /\ s.cursor \in Pids
  BY DEF Schedules
<1>2. Rotation(s) \in SUBSET Pids /\ Boosted(s) \in SUBSET Pids
      /\ Rotation(s) \subseteq Ready(s) /\ Boosted(s) \subseteq Rotation(s)
  BY DEF Rotation, Boosted, Ready
<1>3. Rotation(s) = {} => IDLE \in Ready(s)
  BY DEF Rotation
<1>4. CASE pick_was_boost(s)
  BY <1>1, <1>2, <1>4, NearestIsNearest DEF pick_next, pick_was_boost
<1>5. CASE ~ pick_was_boost(s) /\ Rotation(s) # {}
  BY <1>1, <1>2, <1>5, NearestIsNearest DEF pick_next, PlainPick
<1>6. CASE ~ pick_was_boost(s) /\ Rotation(s) = {}
  BY <1>3, <1>6 DEF pick_next
<1> QED
  BY <1>4, <1>5, <1>6

LEMMA PassedFinite ==
  ASSUME NEW s, watch \in Pids \ {IDLE}
  PROVE  /\ IsFiniteSet(Passed(s))
         /\ Cardinality(Passed(s)) \in Nat
         /\ Cardinality(Passed(s)) <= N - 2
<1>1. IsFiniteSet(Pids) /\ Cardinality(Pids) = N
  BY NAssumption, FS_Interval DEF Pids
<1>2. /\ IsFiniteSet(Pids \ {IDLE})
      /\ Cardinality(Pids \ {IDLE}) = N - 1
  BY <1>1, PidFacts, FS_RemoveElement
<1>3. (Pids \ {IDLE}) \ {watch} = Pids \ {IDLE, watch}
  OBVIOUS
<1>4. /\ IsFiniteSet(Pids \ {IDLE, watch})
      /\ Cardinality(Pids \ {IDLE, watch}) = N - 1 - 1
  BY <1>2, <1>3, FS_RemoveElement
<1>5. Passed(s) \subseteq Pids \ {IDLE, watch}
  BY DEF Passed
<1>6. /\ IsFiniteSet(Passed(s))
      /\ Cardinality(Passed(s)) <= Cardinality(Pids \ {IDLE, watch})
  BY <1>4, <1>5, FS_Subset
<1>7. Cardinality(Passed(s)) \in Nat
  BY <1>6, FS_CardinalityType
<1> QED
  BY <1>4, <1>6, <1>7, NAssumption

(* A product grows by a factor when the other grows by one.                *)
LEMMA ProductFacts ==
  ASSUME NEW a \in Nat, NEW x \in Nat, NEW y \in Nat
  PROVE  /\ a * x \in Nat
         /\ x <= y => a * x <= a * y
         /\ x + 1 <= y => a * x + a <= a * y
<1>1. a * x \in Nat /\ a * y \in Nat
  OBVIOUS
<1>2. ASSUME NEW z \in Nat PROVE a * (x + z) = a * x + a * z /\ a * z \in Nat
  OBVIOUS
<1>3. ASSUME x <= y PROVE a * x <= a * y
  <2>1. PICK z \in Nat : y = x + z
    BY <1>3
  <2> QED
    BY <1>1, <1>2, <2>1
<1>4. ASSUME x + 1 <= y PROVE a * x + a <= a * y
  <2>1. PICK z \in Nat : y = x + 1 + z
    BY <1>4
  <2>2. a * y = a * x + a + a * z /\ a * z \in Nat
    BY <2>1
  <2> QED
    BY <1>1, <2>2
<1> QED
  BY <1>1, <1>3, <1>4

(* A dispatch keeps the schedule good.                                     *)
LEMMA DispatchGood ==
  ASSUME watch \in Pids \ {IDLE}, NEW s, Good(s), Ready(s) # {},
         NEW old \in {"READY", "TERMINATED"},
         old = "TERMINATED" => s.cur # KERNEL
  PROVE  Good(Dispatch(s, pick_next(s), old))
<1> DEFINE n == pick_next(s)
           t == Dispatch(s, n, old)
           b == pick_was_boost(s)
<1>0. /\ s \in Schedules
      /\ s.state \in [Pids -> {"UNUSED", "READY", "RUNNING", "TERMINATED"}]
      /\ s.boost \in [Pids -> BOOLEAN]
      /\ s.cur \in Pids /\ s.cursor \in Pids
      /\ s.consec \in Nat /\ s.consec <= K /\ s.waited \in Nat
      /\ s.state[s.cur] = "RUNNING"
  BY KAssumption DEF Good, Schedules, OneRunning
<1>1. /\ n \in Pids /\ s.state[n] = "READY" /\ n # s.cur
      /\ b => s.consec < K
  BY <1>0, PickFacts DEF Ready, pick_was_boost
<1>2. /\ t.state = [s.state EXCEPT ![s.cur] = old, ![n] = "RUNNING"]
      /\ t.boost = [s.boost EXCEPT ![n] = FALSE]
      /\ t.cur = n /\ t.quantum = 0
      /\ t.cursor = IF b THEN s.cursor ELSE n
      /\ t.consec = IF b THEN s.consec + 1 ELSE 0
      /\ t.waited = Waited(s, n)
      /\ t = [state |-> t.state, boost |-> t.boost, cur |-> t.cur, cursor |-> t.cursor,
              consec |-> t.consec, quantum |-> t.quantum, waited |-> t.waited]
  BY DEF Dispatch
<1>3. Waited(s, n) \in Nat /\ Waited(s, n) <= s.waited + 1
      /\ (n = watch \/ s.state[watch] # "READY" => Waited(s, n) = 0)
  BY <1>0 DEF Waited
<1> HIDE DEF t, b, n
<1>4. t \in Schedules
  <2>1. t.state \in [Pids -> {"UNUSED", "READY", "RUNNING", "TERMINATED"}]
    BY <1>0, <1>1, <1>2
  <2>3. t.boost \in [Pids -> BOOLEAN]
    BY <1>0, <1>2, Zenon
  <2>2. t.cur \in Pids /\ t.cursor \in Pids /\ t.consec \in 0 .. K
        /\ t.quantum \in 0 .. (Quantum - 1) /\ t.waited \in Nat
    BY <1>0, <1>1, <1>2, <1>3, KAssumption, QuantumAssumption
  <2> QED
    BY <1>2, <2>1, <2>2, <2>3 DEF Schedules
<1>5. OneRunning(t)
  <2> SUFFICES ASSUME NEW p \in Pids PROVE t.state[p] = "RUNNING" <=> p = n
    BY <1>2 DEF OneRunning
  <2>1. s.state[p] = "RUNNING" <=> p = s.cur
    BY DEF Good, OneRunning
  <2> QED
    BY <1>0, <1>1, <1>2, <2>1
<1>6. KernelAlive(t)
  BY <1>0, <1>1, <1>2, PidFacts DEF Good, KernelAlive
<1>7. Progress(t)
  <2> DEFINE x == Cardinality(Passed(s))
             y == Cardinality(Passed(t))
  <2>0. /\ IsFiniteSet(Passed(s)) /\ IsFiniteSet(Passed(t))
        /\ x \in Nat /\ y \in Nat /\ t.consec \in Nat /\ K + 1 \in Nat
        /\ s.waited <= (K + 1) * x + s.consec
    BY <1>0, <1>2, PassedFinite, KAssumption DEF Good, Progress
  <2> HIDE DEF x, y
  <2>00. (K + 1) * y \in Nat /\ (K + 1) * x \in Nat
    BY <2>0, ProductFacts
  <2>1. CASE n = watch \/ s.state[watch] # "READY"
    BY <1>2, <1>3, <2>0, <2>00, <2>1 DEF Progress, y
  <2>2. CASE b
    <3>1. Passed(t) = Passed(s)
      BY <1>2, <2>2 DEF Passed
    <3>2. x = y
      BY <3>1 DEF x, y
    <3> QED
      BY <1>0, <1>2, <1>3, <2>0, <2>00, <2>2, <3>2 DEF Progress, y
  <2>3. CASE ~ b /\ n # watch /\ s.state[watch] = "READY"
    <3>1. watch \in Rotation(s)
      BY <2>3 DEF Rotation, Ready
    <3>2. n \in Rotation(s) /\ Distance(s.cursor, n) <= Distance(s.cursor, watch)
      BY <1>0, <2>3, <3>1, PickFacts DEF n, b
    <3>3. n # IDLE /\ Distance(s.cursor, n) < Distance(s.cursor, watch)
      BY <1>0, <1>1, <2>3, <3>2, DistanceFacts DEF Rotation
    <3>4. t.cursor = n
      BY <1>2, <2>3
    <3>5. n \in Passed(t) /\ n \notin Passed(s) /\ Passed(s) \subseteq Passed(t)
      <4>1. /\ Distance(n, watch) <= Distance(n, n)
            /\ \A q \in Pids : Distance(s.cursor, watch) <= Distance(s.cursor, q)
                                 => Distance(n, watch) <= Distance(n, q)
        BY <1>0, <1>1, <3>3, CursorMoves
      <4>2. n \notin Passed(s)
        BY <1>0, <1>1, <3>3, DistanceFacts DEF Passed
      <4> QED
        BY <1>1, <2>3, <3>3, <3>4, <4>1, <4>2 DEF Passed
    <3>6. x + 1 <= y
      <4>1. IsFiniteSet(Passed(s) \cup {n}) /\ Cardinality(Passed(s) \cup {n}) = x + 1
        BY <2>0, <3>5, FS_AddElement DEF x
      <4>2. Passed(s) \cup {n} \subseteq Passed(t)
        BY <3>5
      <4> QED
        BY <2>0, <4>1, <4>2, FS_Subset DEF y
    <3>7. (K + 1) * x + (K + 1) <= (K + 1) * y
      BY <2>0, <3>6, ProductFacts
    <3>8. t.waited <= (K + 1) * y + t.consec
      BY <1>0, <1>2, <1>3, <2>0, <2>00, <2>3, <3>7, KAssumption
    <3> QED
      BY <3>8 DEF Progress, y
  <2> QED
    BY <2>1, <2>2, <2>3
<1> QED
  BY <1>4, <1>5, <1>6, <1>7 DEF Good, t, n

(* A schedule that differs only in its boost flags, or in the quantum.     *)
LEMMA FlagGood ==
  ASSUME NEW s, Good(s), NEW f \in [Pids -> BOOLEAN]
  PROVE  Good([s EXCEPT !.boost = f])
<1> DEFINE t == [s EXCEPT !.boost = f]
<1>1. /\ t.state = s.state /\ t.cur = s.cur /\ t.cursor = s.cursor
      /\ t.consec = s.consec /\ t.waited = s.waited
      /\ t \in Schedules
  BY DEF Good, Schedules
<1> HIDE DEF t
<1>2. Passed(t) = Passed(s)
  BY <1>1 DEF Passed
<1>3. Good(t)
  BY <1>1, <1>2 DEF Good, OneRunning, KernelAlive, Progress
<1> QED
  BY <1>3 DEF t

LEMMA QuantumGood ==
  ASSUME NEW s, Good(s), NEW x \in 0 .. (Quantum - 1)
  PROVE  Good([s EXCEPT !.quantum = x])
<1> DEFINE t == [s EXCEPT !.quantum = x]
<1>1. /\ t.state = s.state /\ t.cur = s.cur /\ t.cursor = s.cursor
      /\ t.consec = s.consec /\ t.waited = s.waited
      /\ t \in Schedules
  BY DEF Good, Schedules
<1> HIDE DEF t
<1>2. Passed(t) = Passed(s)
  BY <1>1 DEF Passed
<1>3. Good(t)
  BY <1>1, <1>2 DEF Good, OneRunning, KernelAlive, Progress
<1> QED
  BY <1>3 DEF t

(* A schedule with other process states, in which the current process and  *)
(* the boot flow keep theirs and no other process runs.                    *)
LEMMA StatesGood ==
  ASSUME NEW s, Good(s), NEW w \in {0, s.waited},
         NEW f \in [Pids -> {"UNUSED", "READY", "RUNNING", "TERMINATED"}],
         NEW g \in [Pids -> BOOLEAN], watch \in Pids \ {IDLE},
         f[KERNEL] = s.state[KERNEL],
         \A p \in Pids : f[p] = "RUNNING" <=> s.state[p] = "RUNNING",
         NEW t, t = [s EXCEPT !.state = f, !.boost = g, !.waited = w]
  PROVE  Good(t)
<1>0. s \in Schedules /\ w \in Nat
  BY DEF Good, Schedules
<1>1. /\ t.state = f /\ t.cur = s.cur /\ t.cursor = s.cursor
      /\ t.consec = s.consec /\ t.waited = w
      /\ t \in Schedules
  BY <1>0 DEF Schedules
<1>2. Passed(t) = Passed(s)
  BY <1>1 DEF Passed
<1>3. /\ (K + 1) * Cardinality(Passed(s)) \in Nat /\ s.consec \in Nat
      /\ s.waited \in Nat /\ s.waited <= (K + 1) * Cardinality(Passed(s)) + s.consec
  <2>1. Cardinality(Passed(s)) \in Nat /\ K + 1 \in Nat
    BY PassedFinite, KAssumption
  <2> QED
    BY <2>1, ProductFacts DEF Good, Schedules, Progress
<1>4. t.waited <= (K + 1) * Cardinality(Passed(s)) + s.consec
  BY <1>1, <1>3
<1> QED
  BY <1>1, <1>2, <1>4 DEF Good, OneRunning, KernelAlive, Progress

LEMMA RescheduleGood ==
  ASSUME watch \in Pids \ {IDLE}, NEW s, Good(s)
  PROVE  Good(scheduler_reschedule(s))
<1>1. CASE Ready(s) = {}
  <2>1. 0 \in 0 .. (Quantum - 1)
    BY QuantumAssumption
  <2> QED
    BY <1>1, <2>1, QuantumGood DEF scheduler_reschedule
<1>2. CASE Ready(s) # {}
  BY <1>2, DispatchGood DEF scheduler_reschedule
<1> QED
  BY <1>1, <1>2

LEMMA FlagOneGood ==
  ASSUME NEW s, Good(s), NEW p \in Pids
  PROVE  Good(Flag(s, p))
<1> DEFINE f == [s.boost EXCEPT ![p] = TRUE]
<1>1. s.boost \in [Pids -> BOOLEAN] /\ [s EXCEPT !.boost[p] = TRUE] = [s EXCEPT !.boost = f]
  BY DEF Good, Schedules
<1>2. f \in [Pids -> BOOLEAN]
  BY <1>1, Zenon
<1> HIDE DEF f
<1>3. Good([s EXCEPT !.boost = f])
  BY <1>2, FlagGood
<1> QED
  BY <1>1, <1>3 DEF Flag

(* com2_rx_boost_check(), also of the running process.                     *)
LEMMA Com2FlagGood ==
  ASSUME NEW s, Good(s), Rest
  PROVE  Good(Com2Flag(s))
<1> DEFINE f == [s.boost EXCEPT ![holder.pid] = TRUE]
<1>1. s.boost \in [Pids -> BOOLEAN]
      /\ [s EXCEPT !.boost[holder.pid] = TRUE] = [s EXCEPT !.boost = f]
  BY DEF Good, Schedules
<1>2. f \in [Pids -> BOOLEAN]
  BY <1>1, Zenon
<1> HIDE DEF f
<1>3. Good([s EXCEPT !.boost = f])
  BY <1>2, FlagGood
<1> QED
  BY <1>1, <1>3 DEF Com2Flag

LEMMA ConsoleRxGood ==
  ASSUME NEW s, Good(s), Rest
  PROVE  Good(scheduler_console_rx(s))
<1>1. reader.pid \in Pids /\ watch \in Pids \ {IDLE}
  BY DEF Rest
<1>2. Good(Flag(s, reader.pid))
  BY <1>1, FlagOneGood
<1> QED
  BY <1>1, <1>2, RescheduleGood DEF scheduler_console_rx

LEMMA KillGood ==
  ASSUME watch \in Pids \ {IDLE}, NEW s, Good(s), Ready(s) # {}, s.cur \in Users
  PROVE  Good(scheduler_kill_current(s))
<1>1. s.cur # KERNEL
  BY PidFacts
<1> QED
  BY <1>1, DispatchGood DEF scheduler_kill_current

(* The rest of a tick, from a good schedule.                               *)
LEMMA RestOfTickGood ==
  ASSUME NEW s, Good(s), Rest, RestOfTick(s)
  PROVE  Good(sch') /\ cpu' \in [Pids -> Nat]
<1>0. watch \in Pids \ {IDLE} /\ cpu \in [Pids -> Nat] /\ s.cur \in Pids
  BY DEF Rest, Good, Schedules
<1>1. cpu' \in [Pids -> Nat]
  BY <1>0 DEF RestOfTick
<1>2. CASE Kills(s)
  <2>1. s.cur \in Users /\ Ready(s) # {}
    BY <1>2, LimitAssumption DEF Kills, OverBudget
  <2>2. sch' = scheduler_kill_current(s)
    BY <1>2 DEF RestOfTick
  <2>3. Good(sch')
    BY <1>0, <2>1, <2>2, KillGood
  <2> QED
    BY <1>1, <2>3
<1>3. CASE ~ Kills(s) /\ SliceEnds(s)
  <2>1. sch' = scheduler_reschedule(s)
    BY <1>3 DEF RestOfTick
  <2>2. Good(sch')
    BY <1>0, <2>1, RescheduleGood
  <2> QED
    BY <1>1, <2>2
<1>4. CASE ~ Kills(s) /\ ~ SliceEnds(s)
  <2>1. s.quantum + 1 \in 0 .. (Quantum - 1)
    BY <1>4, QuantumAssumption DEF SliceEnds, Good, Schedules
  <2>2. sch' = [s EXCEPT !.quantum = s.quantum + 1]
    BY <1>4 DEF RestOfTick
  <2>3. Good(sch')
    BY <2>1, <2>2, QuantumGood
  <2> QED
    BY <1>1, <2>3
<1> QED
  BY <1>2, <1>3, <1>4

(* The watched process never changes.                                      *)
LEMMA GoodNext ==
  ASSUME watch' = watch, Good(sch')
  PROVE  Good(sch)'
  BY DEF Good, Progress, Passed, OneRunning, KernelAlive

LEMMA InitIInv == Init => IInv
<1> SUFFICES ASSUME Init PROVE IInv
  OBVIOUS
<1>1. sch \in Schedules
  <2>1. sch.state \in [Pids -> {"UNUSED", "READY", "RUNNING", "TERMINATED"}]
    BY DEF Init
  <2>2. sch.boost \in [Pids -> BOOLEAN]
    BY DEF Init
  <2>3. sch.cur \in Pids /\ sch.cursor \in Pids /\ sch.consec \in 0 .. K
        /\ sch.quantum \in 0 .. (Quantum - 1) /\ sch.waited \in Nat
    BY PidFacts, KAssumption, QuantumAssumption DEF Init, KERNEL
  <2>4. sch = [state |-> sch.state, boost |-> sch.boost, cur |-> sch.cur,
               cursor |-> sch.cursor, consec |-> sch.consec, quantum |-> sch.quantum,
               waited |-> sch.waited]
    BY DEF Init
  <2> QED
    BY <2>1, <2>2, <2>3, <2>4 DEF Schedules
<1>2. OneRunning(sch) /\ KernelAlive(sch)
  BY PidFacts DEF Init, OneRunning, KernelAlive
<1>3. watch \in Pids \ {IDLE} /\ sch.waited = 0 /\ sch.consec = 0
  BY DEF Init
<1>4. Progress(sch)
  <2>1. Cardinality(Passed(sch)) \in Nat /\ K + 1 \in Nat
    BY <1>3, PassedFinite, KAssumption
  <2>2. (K + 1) * Cardinality(Passed(sch)) \in Nat
    BY <2>1, ProductFacts
  <2> QED
    BY <1>3, <2>2 DEF Progress
<1>5. Rest
  BY PidFacts DEF Init, Rest, NoHolder, NoReader, KERNEL
<1> QED
  BY <1>1, <1>2, <1>4, <1>5 DEF IInv, Good

LEMMA CreateIInv ==
  ASSUME IInv, NEW com2 \in BOOLEAN, Create(com2)
  PROVE  IInv'
<1>1. PICK p \in Free :
        /\ sch' = [sch EXCEPT !.state[p] = "READY", !.boost[p] = FALSE,
                              !.waited = IF p = watch THEN 0 ELSE @]
        /\ generation' = [generation EXCEPT ![p] = @ + 1]
        /\ cpu' = [cpu EXCEPT ![p] = 0]
        /\ holder' = IF com2 THEN [pid |-> p, gen |-> generation[p] + 1] ELSE holder
  BY DEF Create
<1>2. p \in Pids /\ p # KERNEL /\ sch.state[p] = "UNUSED"
  BY PidFacts DEF Free, Users
<1>3. Rest'
  BY <1>1, <1>2 DEF IInv, Rest, Create
<1> DEFINE f == [sch.state EXCEPT ![p] = "READY"]
           g == [sch.boost EXCEPT ![p] = FALSE]
           w == IF p = watch THEN 0 ELSE sch.waited
<1>4. /\ sch.state \in [Pids -> {"UNUSED", "READY", "RUNNING", "TERMINATED"}]
      /\ sch.boost \in [Pids -> BOOLEAN] /\ sch \in Schedules
      /\ sch' = [sch EXCEPT !.state = f, !.boost = g, !.waited = w]
  BY <1>1 DEF IInv, Good, Schedules
<1>5. f \in [Pids -> {"UNUSED", "READY", "RUNNING", "TERMINATED"}]
      /\ f[KERNEL] = sch.state[KERNEL]
      /\ \A q \in Pids : f[q] = "RUNNING" <=> sch.state[q] = "RUNNING"
  BY <1>2, <1>4
<1>6. g \in [Pids -> BOOLEAN]
  BY <1>4, Zenon
<1>7. w \in {0, sch.waited}
  OBVIOUS
<1>8. watch \in Pids \ {IDLE} /\ watch' = watch /\ Good(sch)
  BY DEF IInv, Rest, Create
<1> HIDE DEF f, g, w
<1>9. Good(sch')
  BY <1>4, <1>5, <1>6, <1>7, <1>8, StatesGood
<1>10. Good(sch)'
  BY <1>8, <1>9, GoodNext
<1> QED
  BY <1>3, <1>10 DEF IInv

(* process_destroy() of processes other than the current one and pid 0.    *)
LEMMA DestroyIInv ==
  ASSUME IInv, NEW D \in SUBSET Pids, Destroy(D),
         sch.cur \notin D, KERNEL \notin D
  PROVE  IInv'
<1> DEFINE f == [p \in Pids |-> IF p \in D THEN "UNUSED" ELSE sch.state[p]]
           g == sch.boost
           w == IF watch \in D THEN 0 ELSE sch.waited
<1>1. /\ sch \in Schedules /\ Good(sch) /\ watch \in Pids \ {IDLE} /\ watch' = watch
      /\ sch.state \in [Pids -> {"UNUSED", "READY", "RUNNING", "TERMINATED"}]
      /\ sch.boost \in [Pids -> BOOLEAN]
      /\ sch' = [sch EXCEPT !.state = f, !.waited = w]
  BY DEF IInv, Good, Rest, Schedules, Destroy
<1>2. \A p \in Pids : sch.state[p] = "RUNNING" <=> p = sch.cur
  BY <1>1 DEF Good, OneRunning
<1>3. f \in [Pids -> {"UNUSED", "READY", "RUNNING", "TERMINATED"}]
      /\ f[KERNEL] = sch.state[KERNEL]
      /\ \A q \in Pids : f[q] = "RUNNING" <=> sch.state[q] = "RUNNING"
  BY <1>1, <1>2, PidFacts
<1>4. w \in {0, sch.waited}
  OBVIOUS
<1> HIDE DEF f, g, w
<1>5. /\ sch' = [sch EXCEPT !.state = f, !.boost = g, !.waited = w]
      /\ g \in [Pids -> BOOLEAN]
  BY <1>1 DEF Schedules, g
<1>6. Good(sch) /\ watch \in Pids \ {IDLE}
  BY <1>1
<1>7. Good(sch')
  BY <1>3, <1>4, <1>5, <1>6, StatesGood
<1>8. Good(sch)'
  BY <1>1, <1>7, GoodNext
<1>9. Rest'
  BY PidFacts DEF IInv, Rest, Destroy, ClearRegistrations, NoHolder, NoReader, KERNEL
<1> QED
  BY <1>8, <1>9 DEF IInv

LEMMA TickIInv ==
  ASSUME IInv, NEW com2 \in BOOLEAN, NEW vsock \in BOOLEAN, Tick(com2, vsock)
  PROVE  IInv'
<1> DEFINE s == IF com2 THEN Com2Flag(sch) ELSE sch
<1>1. Good(s) /\ Rest
  BY Com2FlagGood DEF IInv
<1>2. /\ UNCHANGED <<generation, holder, watch>>
      /\ \/ /\ reader' = [reader EXCEPT !.waiting = FALSE]
            /\ RestOfTick(scheduler_console_rx(s))
         \/ /\ UNCHANGED reader
            /\ RestOfTick(s)
  BY DEF Tick
<1> HIDE DEF s
<1>3. Good(scheduler_console_rx(s))
  BY <1>1, ConsoleRxGood
<1>4. Good(sch') /\ cpu' \in [Pids -> Nat]
  BY <1>1, <1>2, <1>3, RestOfTickGood
<1>5. Good(sch)'
  BY <1>2, <1>4, GoodNext
<1>6. reader' \in [pid : Pids, gen : Nat, waiting : BOOLEAN]
  BY <1>1, <1>2 DEF Rest
<1>7. Rest'
  BY <1>1, <1>2, <1>4, <1>6 DEF Rest
<1> QED
  BY <1>5, <1>7 DEF IInv

LEMMA NextIInv == IInv /\ [Next]_vars => IInv'
<1> SUFFICES ASSUME IInv, [Next]_vars PROVE IInv'
  OBVIOUS
<1>0. /\ Good(sch) /\ Rest /\ watch \in Pids \ {IDLE} /\ sch.cur \in Pids
      /\ \A p \in Pids : sch.state[p] = "RUNNING" <=> p = sch.cur
      /\ sch.state[KERNEL] \in {"READY", "RUNNING"}
  BY DEF IInv, Rest, Good, Schedules, OneRunning, KernelAlive
<1>1. CASE Yield
  <2>1. Good(sch') /\ watch' = watch
    BY <1>0, <1>1, RescheduleGood DEF Yield
  <2>2. Rest'
    BY <1>0, <1>1 DEF Rest, Yield
  <2> QED
    BY <2>1, <2>2, GoodNext DEF IInv
<1>2. CASE Exit
  <2>1. Good(sch') /\ watch' = watch
    BY <1>0, <1>2, KillGood DEF Exit
  <2>2. Rest'
    BY <1>0, <1>2 DEF Rest, Exit
  <2> QED
    BY <2>1, <2>2, GoodNext DEF IInv
<1>3. CASE Reap
  <2> DEFINE D == {p \in Pids : sch.state[p] = "TERMINATED"}
  <2>1. Destroy(D) /\ D \in SUBSET Pids
    BY <1>3 DEF Reap
  <2>2. sch.cur \notin D /\ KERNEL \notin D
    BY <1>0, PidFacts
  <2> HIDE DEF D
  <2> QED
    BY <2>1, <2>2, DestroyIInv
<1>4. CASE ConsoleRx
  <2>1. Good(sch') /\ watch' = watch
    BY <1>0, <1>4, ConsoleRxGood DEF ConsoleRx
  <2>2. Rest'
    BY <1>0, <1>4 DEF Rest, ConsoleRx
  <2> QED
    BY <2>1, <2>2, GoodNext DEF IInv
<1>5. CASE NetRx
  <2>1. Good(Flag(sch, Net))
    BY <1>0, PidFacts, FlagOneGood
  <2>2. Good(sch') /\ watch' = watch
    BY <1>0, <1>5, <2>1, RescheduleGood DEF NetRx
  <2>3. Rest'
    BY <1>0, <1>5 DEF Rest, NetRx
  <2> QED
    BY <2>2, <2>3, GoodNext DEF IInv
<1>6. CASE Timer
  <2>1. PICK com2 \in BOOLEAN, vsock \in {FALSE, Vsock} : Tick(com2, vsock)
    BY <1>6 DEF Timer
  <2>2. vsock \in BOOLEAN
    BY VsockAssumption
  <2> QED
    BY <2>1, <2>2, TickIInv
<1>7. CASE \E com2 \in BOOLEAN : Create(com2)
  BY <1>7, CreateIInv
<1>8. ASSUME NEW p \in Pids, Stop(p) PROVE IInv'
  <2>1. Destroy({p}) /\ {p} \in SUBSET Pids /\ sch.cur \notin {p} /\ KERNEL \notin {p}
    BY <1>8, PidFacts DEF Stop
  <2> QED
    BY <2>1, DestroyIInv
<1>9. ASSUME NEW p \in Pids, Deliver(p) PROVE IInv'
  <2>1. Good(sch') /\ watch' = watch
    BY <1>0, <1>9, FlagOneGood DEF Deliver
  <2>2. Rest'
    BY <1>0, <1>9 DEF Rest, Deliver
  <2> QED
    BY <2>1, <2>2, GoodNext DEF IInv
<1>10. ASSUME NEW empty \in BOOLEAN, ConsRead(empty) PROVE IInv'
  <2>1. Good(sch') /\ watch' = watch
    BY <1>0, <1>10 DEF ConsRead
  <2>2. Rest'
    BY <1>0, <1>10 DEF Rest, ConsRead
  <2> QED
    BY <2>1, <2>2, GoodNext DEF IInv
<1>11. CASE UNCHANGED vars
  <2>1. Good(sch') /\ watch' = watch
    BY <1>0, <1>11 DEF vars
  <2>2. Rest'
    BY <1>0, <1>11 DEF Rest, vars
  <2> QED
    BY <2>1, <2>2, GoodNext DEF IInv
<1> QED
  BY <1>1, <1>2, <1>3, <1>4, <1>5, <1>6, <1>7, <1>8, <1>9, <1>10, <1>11 DEF Next

LEMMA SpecIInv == Spec => []IInv
  BY InitIInv, NextIInv, PTL DEF Spec
-----------------------------------------------------------------------------
(* The scheduler's state is always well formed: the cursor and the current *)
(* process are pids, consec_boost stays within its budget and the quantum  *)
(* counter below SCHED_QUANTUM_TICKS (pick_commit, scheduler_tick).        *)
THEOREM TypeCorrect == Spec => []TypeOK
<1>1. IInv => TypeOK
  BY DEF IInv, Good, Rest, TypeOK
<1> QED
  BY <1>1, SpecIInv, PTL

(* The current process is the only RUNNING one and pid 0 is always         *)
(* runnable: scheduler_kill_current() always finds a successor.            *)
THEOREM SuccessorExists == Spec => []AlwaysRunnable
<1>1. IInv => AlwaysRunnable
  BY DEF IInv, Good, OneRunning, KernelAlive, AlwaysRunnable
<1> QED
  BY <1>1, SpecIInv, PTL

(* A READY process is overtaken fewer than (K + 1) * (N - 1) times,        *)
(* whatever is boosted, created or killed meanwhile (pick_next, rr_cursor).*)
THEOREM BoundedOvertaking == Spec => []BoundedWait
<1>1. ASSUME IInv PROVE BoundedWait
  <2> DEFINE x == Cardinality(Passed(sch))
  <2>1. /\ watch \in Pids \ {IDLE} /\ sch.consec \in Nat /\ sch.consec <= K
        /\ sch.waited \in Nat /\ sch.waited <= (K + 1) * x + sch.consec
    BY <1>1, KAssumption DEF IInv, Good, Rest, Schedules, Progress
  <2>2. x \in Nat /\ x <= N - 2
    BY <2>1, PassedFinite
  <2> HIDE DEF x
  <2>3. K + 1 \in Nat /\ N - 1 \in Nat /\ x + 1 <= N - 1
    BY <2>2, KAssumption, NAssumption
  <2>4. (K + 1) * x \in Nat /\ (K + 1) * x + (K + 1) <= (K + 1) * (N - 1)
    BY <2>2, <2>3, ProductFacts
  <2>5. (K + 1) * (N - 1) \in Nat
    BY <2>3
  <2> QED
    BY <2>1, <2>4, <2>5, KAssumption DEF BoundedWait
<1> QED
  BY <1>1, SpecIInv, PTL
-----------------------------------------------------------------------------
(* t comes from s by dispatches: no slot is taken or cleared, and nobody   *)
(* who has ended runs again.                                               *)
Alive == {"READY", "RUNNING"}
Follows(s, t) ==
  \A p \in Pids : /\ t.state[p] = "UNUSED" <=> s.state[p] = "UNUSED"
                  /\ t.state[p] \in Alive => s.state[p] \in Alive

LEMMA DispatchFollows ==
  ASSUME NEW s, Good(s), Ready(s) # {}, NEW old \in {"READY", "TERMINATED"}
  PROVE  LET t == Dispatch(s, pick_next(s), old) IN
         Follows(s, t) /\ t.state[s.cur] = old
<1> DEFINE n == pick_next(s)
           t == Dispatch(s, n, old)
<1>1. /\ s.state \in [Pids -> {"UNUSED", "READY", "RUNNING", "TERMINATED"}]
      /\ s \in Schedules /\ s.cur \in Pids /\ s.state[s.cur] = "RUNNING"
  BY DEF Good, Schedules, OneRunning
<1>2. n \in Pids /\ s.state[n] = "READY" /\ n # s.cur
  BY <1>1, PickFacts DEF Ready
<1>3. t.state = [s.state EXCEPT ![s.cur] = old, ![n] = "RUNNING"]
  BY DEF Dispatch
<1> HIDE DEF t, n
<1>4. Follows(s, t) /\ t.state[s.cur] = old
  BY <1>1, <1>2, <1>3 DEF Follows, Alive
<1> QED
  BY <1>4 DEF t, n

LEMMA RescheduleFollows ==
  ASSUME NEW s, Good(s)
  PROVE  Follows(s, scheduler_reschedule(s))
<1>1. CASE Ready(s) = {}
  <2>1. [s EXCEPT !.quantum = 0].state = s.state
    BY DEF Good, Schedules
  <2> QED
    BY <1>1, <2>1 DEF scheduler_reschedule, Follows
<1>2. CASE Ready(s) # {}
  BY <1>2, DispatchFollows DEF scheduler_reschedule
<1> QED
  BY <1>1, <1>2

(* Raising a flag changes no process state.                                *)
LEMMA FlagFollows ==
  ASSUME NEW s, Good(s), NEW p \in Pids
  PROVE  Follows(s, Flag(s, p)) /\ Follows(s, Com2Flag(s))
<1>1. Flag(s, p).state = s.state /\ Com2Flag(s).state = s.state
  BY DEF Flag, Com2Flag, Good, Schedules
<1> QED
  BY <1>1 DEF Follows

LEMMA FollowsTransitive ==
  ASSUME NEW s, NEW t, NEW u, Follows(s, t), Follows(t, u)
  PROVE  Follows(s, u)
BY DEF Follows

LEMMA ConsoleRxFollows ==
  ASSUME NEW s, Good(s), Rest
  PROVE  Follows(s, scheduler_console_rx(s))
<1>1. reader.pid \in Pids
  BY DEF Rest
<1>2. Good(Flag(s, reader.pid)) /\ Follows(s, Flag(s, reader.pid))
  BY <1>1, FlagOneGood, FlagFollows
<1> QED
  BY <1>2, RescheduleFollows, FollowsTransitive DEF scheduler_console_rx

(* Whoever is alive under schedule s is below its limit in the account c.  *)
WithinBudget(s, c) ==
  \A p \in Limited : s.state[p] \in Alive => c[p] < CpuLimit

LEMMA FollowsWithinBudget ==
  ASSUME NEW s, NEW t, NEW c, Follows(s, t), WithinBudget(s, c)
  PROVE  WithinBudget(t, c)
BY LimitAssumption DEF Follows, WithinBudget, Users

(* A tick kills the process whose limit it uses up: the boot flow is READY *)
(* while a program runs, so there is always a successor to kill it for.    *)
LEMMA RestOfTickAccounts ==
  ASSUME NEW s, Good(s), Rest, RestOfTick(s)
  PROVE  /\ Follows(s, sch')
         /\ WithinBudget(s, cpu) => WithinBudget(sch', cpu')
<1>0. /\ cpu \in [Pids -> Nat] /\ s.cur \in Pids
      /\ s.state \in [Pids -> {"UNUSED", "READY", "RUNNING", "TERMINATED"}]
      /\ Limited \subseteq Pids /\ CpuLimit \in Nat /\ 0 < CpuLimit
  BY LimitAssumption DEF Rest, Good, Schedules, Users
<1>1. cpu' = [cpu EXCEPT ![s.cur] = IF Kills(s) \/ s.cur \notin Limited THEN 0 ELSE cpu[s.cur] + 1]
  BY DEF RestOfTick
<1>2. CASE Kills(s)
  <2>1. Ready(s) # {} /\ sch' = scheduler_kill_current(s)
    BY <1>2 DEF RestOfTick, Kills
  <2>2. Follows(s, sch')
    BY <2>1, DispatchFollows DEF scheduler_kill_current
  <2> QED
    BY <1>0, <1>1, <1>2, <2>2 DEF WithinBudget, Follows
<1>3. CASE ~ Kills(s)
  <2>1. ASSUME SliceEnds(s) PROVE Follows(s, sch')
    BY <1>3, <2>1, RescheduleFollows DEF RestOfTick
  <2>2. ASSUME ~ SliceEnds(s) PROVE Follows(s, sch')
    <3>1. sch' = [s EXCEPT !.quantum = s.quantum + 1]
      BY <1>3, <2>2 DEF RestOfTick
    <3>2. sch'.state = s.state
      BY <3>1 DEF Good, Schedules
    <3> QED
      BY <3>2 DEF Follows
  <2>3. Follows(s, sch')
    BY <2>1, <2>2
  <2>4. s.cur \in Limited => cpu[s.cur] + 1 < CpuLimit
    <3>1. SUFFICES ASSUME s.cur \in Limited PROVE ~ OverBudget(s.cur)
      BY <1>0 DEF OverBudget
    <3>2. s.cur # KERNEL /\ s.state[KERNEL] = "READY"
      BY <3>1, LimitAssumption, PidFacts DEF Good, OneRunning, KernelAlive
    <3>3. Ready(s) # {}
      BY <3>2, PidFacts DEF Ready
    <3> QED
      BY <1>3, <3>3 DEF Kills
  <2>5. WithinBudget(s, cpu) => WithinBudget(s, cpu')
    BY <1>0, <1>1, <1>3, <2>4 DEF WithinBudget
  <2> QED
    BY <2>3, <2>5, FollowsWithinBudget
<1> QED
  BY <1>2, <1>3

(* Budgets and registrations together: the second invariant.               *)
Accounts == WithinBudget(sch, cpu) /\ RegistrationsFresh

(* A step that dispatches but creates and destroys nobody.                 *)
LEMMA FollowsFresh ==
  ASSUME IInv, RegistrationsFresh, Follows(sch, sch'),
         UNCHANGED <<generation, holder>>, reader'.pid = reader.pid, reader'.gen = reader.gen
  PROVE  RegistrationsFresh'
BY DEF IInv, Rest, Follows, RegistrationsFresh, Fresh

LEMMA TickAccounts ==
  ASSUME IInv, Accounts, NEW com2 \in BOOLEAN, NEW vsock \in BOOLEAN, Tick(com2, vsock)
  PROVE  Accounts'
<1> DEFINE s == IF com2 THEN Com2Flag(sch) ELSE sch
           c == scheduler_console_rx(s)
<1>1. /\ UNCHANGED <<generation, holder, watch>>
      /\ \/ reader' = [reader EXCEPT !.waiting = FALSE] /\ RestOfTick(c)
         \/ UNCHANGED reader /\ RestOfTick(s)
  BY DEF Tick
<1>2. Good(s) /\ Rest /\ Follows(sch, s)
  <2>1. Follows(sch, sch)
    BY DEF Follows
  <2> QED
    BY <2>1, Com2FlagGood, FlagFollows, PidFacts DEF IInv
<1> HIDE DEF s
<1>3. Good(c) /\ Follows(s, c)
  BY <1>2, ConsoleRxGood, ConsoleRxFollows
<1> HIDE DEF c
<1>4. Follows(sch, c) /\ WithinBudget(s, cpu) /\ WithinBudget(c, cpu)
  BY <1>2, <1>3, FollowsTransitive, FollowsWithinBudget DEF Accounts
<1>5. Follows(sch, sch') /\ WithinBudget(sch', cpu')
  BY <1>1, <1>2, <1>3, <1>4, RestOfTickAccounts, FollowsTransitive
<1>6. reader'.pid = reader.pid /\ reader'.gen = reader.gen
  BY <1>1, <1>2 DEF Rest
<1>7. RegistrationsFresh'
  BY <1>1, <1>5, <1>6, FollowsFresh DEF Accounts
<1> QED
  BY <1>5, <1>7 DEF Accounts, WithinBudget

LEMMA CreateAccounts ==
  ASSUME IInv, Accounts, NEW com2 \in BOOLEAN, Create(com2)
  PROVE  Accounts'
<1>1. PICK p \in Free :
        /\ sch' = [sch EXCEPT !.state[p] = "READY", !.boost[p] = FALSE,
                              !.waited = IF p = watch THEN 0 ELSE @]
        /\ generation' = [generation EXCEPT ![p] = @ + 1]
        /\ cpu' = [cpu EXCEPT ![p] = 0]
        /\ holder' = IF com2 THEN [pid |-> p, gen |-> generation[p] + 1] ELSE holder
  BY DEF Create
<1>2. /\ p \in Pids /\ sch.state[p] = "UNUSED" /\ reader' = reader
      /\ sch.state \in [Pids -> {"UNUSED", "READY", "RUNNING", "TERMINATED"}]
      /\ sch'.state = [sch.state EXCEPT ![p] = "READY"]
      /\ cpu \in [Pids -> Nat] /\ generation \in [Pids -> Nat]
      /\ holder.pid \in Pids /\ reader.pid \in Pids
  BY <1>1 DEF Free, Users, Create, IInv, Good, Rest, Schedules
<1>3. WithinBudget(sch, cpu)'
  BY <1>1, <1>2, LimitAssumption DEF Accounts, WithinBudget, Users
<1>4. Fresh(holder)'
  <2>1. CASE com2
    BY <1>1, <1>2, <2>1 DEF Fresh
  <2>2. CASE ~ com2
    BY <1>1, <1>2, <2>2 DEF Accounts, RegistrationsFresh, Fresh
  <2> QED
    BY <2>1, <2>2
<1>5. Fresh(reader)'
  BY <1>1, <1>2 DEF Accounts, RegistrationsFresh, Fresh
<1> QED
  BY <1>3, <1>4, <1>5 DEF Accounts, RegistrationsFresh

(* The death of a process takes its registrations with it.                 *)
LEMMA DestroyAccounts ==
  ASSUME IInv, Accounts, NEW D \in SUBSET Pids, Destroy(D)
  PROVE  Accounts'
<1>1. /\ sch'.state = [p \in Pids |-> IF p \in D THEN "UNUSED" ELSE sch.state[p]]
      /\ cpu' = [p \in Pids |-> IF p \in D THEN 0 ELSE cpu[p]]
      /\ holder' = IF holder.pid \in D THEN NoHolder ELSE holder
      /\ reader' = IF reader.pid \in D THEN NoReader ELSE reader
      /\ generation' = generation
      /\ holder.pid \in Pids /\ reader.pid \in Pids
  BY DEF IInv, Good, Rest, Schedules, Destroy, ClearRegistrations
<1>2. WithinBudget(sch, cpu)'
  BY <1>1, LimitAssumption DEF Accounts, WithinBudget, Alive, Users
<1>3. Fresh(holder)' /\ Fresh(reader)'
  BY <1>1 DEF Accounts, RegistrationsFresh, Fresh, NoHolder, NoReader
<1> QED
  BY <1>2, <1>3 DEF Accounts, RegistrationsFresh

(* SYS_CONS_READ registers the process that runs.                          *)
LEMMA ConsReadAccounts ==
  ASSUME IInv, Accounts, NEW empty \in BOOLEAN, ConsRead(empty)
  PROVE  Accounts'
<1>1. sch.cur \in Pids /\ sch.state[sch.cur] = "RUNNING"
  BY DEF IInv, Good, Schedules, OneRunning
<1> QED
  BY <1>1 DEF ConsRead, Accounts, WithinBudget, RegistrationsFresh, Fresh

LEMMA NextAccounts == IInv /\ Accounts /\ [Next]_vars => Accounts'
<1> SUFFICES ASSUME IInv, Accounts, [Next]_vars PROVE Accounts'
  OBVIOUS
<1>0. Good(sch) /\ Rest /\ Net \in Pids
  BY PidFacts DEF IInv
<1>1. ASSUME Follows(sch, sch'), UNCHANGED <<generation, cpu, holder>>,
             reader'.pid = reader.pid, reader'.gen = reader.gen
      PROVE  Accounts'
  <2>1. WithinBudget(sch', cpu)
    BY <1>1, FollowsWithinBudget DEF Accounts
  <2> QED
    BY <1>1, <2>1, FollowsFresh DEF Accounts, WithinBudget
<1>2. CASE Yield
  BY <1>0, <1>1, <1>2, RescheduleFollows DEF Yield
<1>3. CASE Exit
  BY <1>0, <1>1, <1>3, DispatchFollows DEF Exit, scheduler_kill_current
<1>4. CASE Reap
  <2> DEFINE D == {p \in Pids : sch.state[p] = "TERMINATED"}
  <2>1. Destroy(D) /\ D \in SUBSET Pids
    BY <1>4 DEF Reap
  <2> HIDE DEF D
  <2> QED
    BY <2>1, DestroyAccounts
<1>5. CASE ConsoleRx
  <2>1. Follows(sch, sch')
    BY <1>0, <1>5, ConsoleRxFollows DEF ConsoleRx
  <2> QED
    BY <1>0, <1>1, <1>5, <2>1 DEF ConsoleRx, Rest
<1>6. CASE NetRx
  <2>1. Follows(sch, sch')
    BY <1>0, <1>6, FlagFollows, FlagOneGood, RescheduleFollows, FollowsTransitive DEF NetRx
  <2> QED
    BY <1>1, <1>6, <2>1 DEF NetRx
<1>7. CASE Timer
  <2>1. PICK com2 \in BOOLEAN, vsock \in {FALSE, Vsock} : Tick(com2, vsock)
    BY <1>7 DEF Timer
  <2> QED
    BY <2>1, VsockAssumption, TickAccounts
<1>8. CASE \E com2 \in BOOLEAN : Create(com2)
  BY <1>8, CreateAccounts
<1>9. ASSUME NEW p \in Pids, Stop(p) PROVE Accounts'
  <2>1. Destroy({p}) /\ {p} \in SUBSET Pids
    BY <1>9 DEF Stop
  <2> QED
    BY <2>1, DestroyAccounts
<1>10. ASSUME NEW p \in Pids, Deliver(p) PROVE Accounts'
  BY <1>0, <1>1, <1>10, FlagFollows DEF Deliver
<1>11. CASE \E empty \in BOOLEAN : ConsRead(empty)
  BY <1>11, ConsReadAccounts
<1>12. CASE UNCHANGED vars
  BY <1>12 DEF vars, Accounts, WithinBudget, RegistrationsFresh, Fresh
<1> QED
  BY <1>2, <1>3, <1>4, <1>5, <1>6, <1>7, <1>8, <1>9, <1>10, <1>11, <1>12 DEF Next

LEMMA SpecAccounts == Spec => []Accounts
<1>1. Init => Accounts
  BY LimitAssumption DEF Init, Accounts, WithinBudget, RegistrationsFresh, Fresh,
     NoHolder, NoReader, Users
<1> QED
  BY <1>1, SpecIInv, NextAccounts, PTL DEF Spec
-----------------------------------------------------------------------------
(* No program that is alive has used its CPU limit up: the tick that does  *)
(* kills it, even when that tick first handed the CPU to the console's     *)
(* reader (scheduler_tick, manifest_over_budget).                          *)
THEOREM LimitsEnforced == Spec => []BudgetHolds
<1>1. Accounts => BudgetHolds
  BY DEF Accounts, WithinBudget, BudgetHolds, Alive
<1> QED
  BY <1>1, SpecAccounts, PTL

(* A recycled pid never inherits the COM2 or the console registration of   *)
(* the process that had it before (process_destroy).                       *)
THEOREM NobodyInheritsABoost == Spec => []RegistrationsFresh
  BY SpecAccounts, PTL DEF Accounts

(* The rotation's promise and what it rests on, for every size of the      *)
(* table: bounded overtaking, a successor for whoever ends, and boosts     *)
(* that belong to the process that asked for them.                         *)
THEOREM SchedulingIsSound == Spec => []SchedulingSound
  BY SuccessorExists, BoundedOvertaking, NobodyInheritsABoost, PTL DEF SchedulingSound
-----------------------------------------------------------------------------
(* A dispatch that leaves the watched process waiting counts it; and it    *)
(* takes the flag from whom it dispatches.                                 *)
LEMMA DispatchWaits ==
  ASSUME watch \in Pids \ {IDLE}, NEW s, Good(s), Ready(s) # {},
         NEW old \in {"READY", "TERMINATED"}
  PROVE  LET t == Dispatch(s, pick_next(s), old) IN
         t.boost[watch] =>
           /\ s.boost[watch]
           /\ s.state[watch] = "READY" =>
                /\ t.state[watch] = "READY"
                /\ t.waited = IF s.waited < MaxWait THEN s.waited + 1 ELSE s.waited
<1> DEFINE n == pick_next(s)
           t == Dispatch(s, n, old)
<1>1. /\ s.state \in [Pids -> {"UNUSED", "READY", "RUNNING", "TERMINATED"}]
      /\ s.boost \in [Pids -> BOOLEAN]
      /\ s \in Schedules /\ s.cur \in Pids /\ s.state[s.cur] = "RUNNING"
  BY DEF Good, Schedules, OneRunning
<1>2. n \in Pids /\ s.state[n] = "READY" /\ n # s.cur
  BY <1>1, PickFacts DEF Ready
<1>3. /\ t.state = [s.state EXCEPT ![s.cur] = old, ![n] = "RUNNING"]
      /\ t.boost = [s.boost EXCEPT ![n] = FALSE]
      /\ t.waited = Waited(s, n)
  BY DEF Dispatch
<1> HIDE DEF t, n
<1> SUFFICES ASSUME t.boost[watch]
             PROVE  /\ s.boost[watch]
                    /\ s.state[watch] = "READY" =>
                         /\ t.state[watch] = "READY"
                         /\ t.waited = IF s.waited < MaxWait THEN s.waited + 1 ELSE s.waited
  BY DEF t, n
<1>4. n # watch /\ s.boost[watch]
  BY <1>1, <1>2, <1>3, Zenon
<1>5. s.state[watch] = "READY" => watch # s.cur
  BY <1>1
<1> QED
  BY <1>1, <1>2, <1>3, <1>4, <1>5 DEF Waited

(* The rest of a tick: the same, and it dispatches if the flag was up.     *)
LEMMA RestOfTickWaits ==
  ASSUME watch \in Pids \ {IDLE}, NEW s, Good(s), RestOfTick(s), sch'.boost[watch]
  PROVE  /\ s.boost[watch]
         /\ s.state[watch] = "READY" =>
              sch'.waited = IF s.waited < MaxWait THEN s.waited + 1 ELSE s.waited
<1>1. CASE Kills(s)
  <2>1. Ready(s) # {} /\ sch' = scheduler_kill_current(s)
    BY <1>1 DEF RestOfTick, Kills
  <2> QED
    BY <2>1, DispatchWaits DEF scheduler_kill_current
<1>2. CASE ~ Kills(s) /\ SliceEnds(s)
  <2>1. sch' = scheduler_reschedule(s)
    BY <1>2 DEF RestOfTick
  <2>2. CASE Ready(s) = {}
    <3>1. sch'.boost = s.boost /\ s.state[watch] # "READY"
      BY <2>1, <2>2 DEF scheduler_reschedule, Ready, Good, Schedules
    <3> QED
      BY <3>1
  <2>3. CASE Ready(s) # {}
    <3>1. sch' = Dispatch(s, pick_next(s), "READY")
      BY <2>1, <2>3 DEF scheduler_reschedule
    <3> QED
      BY <2>3, <3>1, DispatchWaits
  <2> QED
    BY <2>2, <2>3
<1>3. CASE ~ Kills(s) /\ ~ SliceEnds(s)
  <2>1. sch' = [s EXCEPT !.quantum = s.quantum + 1]
    BY <1>3 DEF RestOfTick
  <2>2. sch'.boost = s.boost
    BY <2>1 DEF Good, Schedules
  <2>3. s.state[watch] # "READY"
    BY <1>3, <2>2 DEF SliceEnds, Boosted, Rotation, Ready
  <2> QED
    BY <2>2, <2>3
<1> QED
  BY <1>1, <1>2, <1>3

(* While a boosted process waits, every tick dispatches: a plain slice is  *)
(* bounded to one tick (scheduler.h).  The history must be kept far enough *)
(* to count, that is, up to the bound on the waiting.                      *)
THEOREM OneTickWhileBoosted ==
  ASSUME MaxWait >= (K + 1) * (N - 1)
  PROVE  Spec => OneTickSlices
<1>1. ASSUME IInv, BoundedWait, Timer,
             sch.state[watch] = "READY", sch.boost[watch], sch'.boost[watch]
      PROVE  sch'.waited > sch.waited
  <2>1. PICK com2 \in BOOLEAN, vsock \in {FALSE, Vsock} : Tick(com2, vsock)
    BY <1>1 DEF Timer
  <2> DEFINE s == IF com2 THEN Com2Flag(sch) ELSE sch
             f == Flag(s, reader.pid)
             c == scheduler_console_rx(s)
  <2>2. /\ Good(s) /\ Rest /\ Good(sch) /\ watch \in Pids \ {IDLE}
        /\ s.state = sch.state /\ s.waited = sch.waited /\ sch.waited \in Nat
        /\ sch.waited < MaxWait
    <3>1. (K + 1) * (N - 1) \in Nat
      <4>1. K + 1 \in Nat /\ N - 1 \in Nat
        BY KAssumption, NAssumption
      <4> QED
        BY <4>1, ProductFacts
    <3>2. sch.waited < MaxWait /\ sch.waited \in Nat
      BY <1>1, <3>1, BoundsAssumption DEF BoundedWait, IInv, Good, Schedules
    <3>3. Com2Flag(sch).state = sch.state /\ Com2Flag(sch).waited = sch.waited
      BY <1>1 DEF Com2Flag, IInv, Good, Schedules
    <3> QED
      BY <1>1, <3>2, <3>3, Com2FlagGood DEF IInv, Rest
  <2>3. \/ RestOfTick(c)
        \/ RestOfTick(s)
    BY <2>1 DEF Tick
  <2> HIDE DEF s
  <2>4. CASE RestOfTick(s)
    BY <1>1, <2>2, <2>4, RestOfTickWaits
  <2>5. CASE RestOfTick(c)
    <3>1. Good(f) /\ Good(c) /\ f.state = s.state /\ f.waited = s.waited
      <4>1. reader.pid \in Pids
        BY <2>2 DEF Rest
      <4> QED
        BY <2>2, <4>1, FlagOneGood, ConsoleRxGood DEF Flag, Good, Schedules
    <3>2. c = Dispatch(f, pick_next(f), "READY") /\ Ready(f) # {}
      BY <1>1, <2>2, <3>1 DEF scheduler_console_rx, scheduler_reschedule, Ready
    <3>3. c.boost[watch]
      BY <1>1, <2>2, <2>5, <3>1, RestOfTickWaits
    <3>4. c.state[watch] = "READY" /\ c.waited = sch.waited + 1
      BY <1>1, <2>2, <3>1, <3>2, <3>3, DispatchWaits
    <3>5. sch'.waited = IF c.waited < MaxWait THEN c.waited + 1 ELSE c.waited
      BY <1>1, <2>2, <2>5, <3>1, <3>4, RestOfTickWaits
    <3> QED
      BY <2>2, <3>4, <3>5
  <2> QED
    BY <2>3, <2>4, <2>5
<1>2. IInv /\ BoundedWait /\ [Next]_vars =>
        [(/\ Timer
          /\ sch.state[watch] = "READY" /\ sch.boost[watch]
          /\ sch'.state[watch] = "READY" /\ sch'.boost[watch])
            => sch'.waited > sch.waited]_vars
  BY <1>1
<1> QED
  BY <1>2, SpecIInv, BoundedOvertaking, PTL DEF Spec, OneTickSlices
-----------------------------------------------------------------------------
(* MESSAGE PASSING                                                         *)
(*                                                                         *)
(* The lists, as sequences of entries.  At(c, i) is also NIL's place: an    *)
(* entry's neighbours in the list c.                                        *)
At(c, i) == IF i \in 1 .. Len(c) THEN c[i] ELSE NIL
Links == Entries \cup {NIL}
MailLetters == [sender_id : MailPids \cup {ANY}, message_id : Nat]
Cells == [next : Links, prev : Links, message : MailLetters]
Queues == [head : Links, tail : Links, count : Nat, open : BOOLEAN]
MailHeaps == [queue : [MailPids -> Queues], mem : [Entries -> Cells], free : Links, allocated : Nat]

(* Lists: what every queue holds, L; what is free, F; and X, the entries    *)
(* that are in hand, in no list, in the middle of an operation.             *)
Linked(m, L) ==
  \A p \in MailPids : \A i \in 1 .. Len(L[p]) :
    m[L[p][i]].next = At(L[p], i + 1) /\ m[L[p][i]].prev = At(L[p], i - 1)
FreeLinked(m, F) == \A i \in 1 .. Len(F) : m[F[i]].next = At(F, i + 1)
QueueOK(q, c) ==
  /\ q.head = At(c, 1) /\ q.tail = At(c, Len(c)) /\ q.count = Len(c) /\ Len(c) <= MaxQueue
  /\ q.open \/ c = <<>>
InList(L, e) == \E p \in MailPids : \E i \in 1 .. Len(L[p]) : L[p][i] = e
InFree(F, e) == \E i \in 1 .. Len(F) : F[i] = e
Apart(L, F, X) ==
  /\ \A p, r \in MailPids : \A i \in 1 .. Len(L[p]), j \in 1 .. Len(L[r]) :
       L[p][i] = L[r][j] => p = r /\ i = j
  /\ \A i, j \in 1 .. Len(F) : F[i] = F[j] => i = j
  /\ \A e \in Entries : ~ (InList(L, e) /\ InFree(F, e))
  /\ \A e \in X : ~ InList(L, e) /\ ~ InFree(F, e)
Covered(n, L, F, X) ==
  \A e \in Entries : e <= n <=> InList(L, e) \/ InFree(F, e) \/ e \in X

(* P: the processes whose queue is not being worked on.                     *)
HeapOK(h, L, F, P, X) ==
  /\ h \in MailHeaps /\ h.allocated <= MaxEntries
  /\ L \in [MailPids -> Seq(Entries)] /\ F \in Seq(Entries) /\ P \subseteq MailPids
  /\ X \subseteq Entries
  /\ Linked(h.mem, L) /\ FreeLinked(h.mem, F) /\ h.free = At(F, 1)
  /\ \A p \in P : QueueOK(h.queue[p], L[p])
  /\ Apart(L, F, X) /\ Covered(h.allocated, L, F, X)

LEMMA MailNumbers ==
  /\ MaxQueue \in Nat \ {0} /\ MaxEntries \in Nat \ {0} /\ MaxSends \in Nat \ {0}
  /\ Entries \subseteq Nat \ {0} /\ NIL \notin Entries /\ NIL \in Nat
BY MailBoundsAssumption DEF Entries, NIL

(* Sequences.                                                              *)
LEMMA SeqIs ==
  ASSUME NEW S, NEW s \in Seq(S)
  PROVE  s = [i \in 1 .. Len(s) |-> s[i]]
OBVIOUS

LEMMA AppendedIs ==
  ASSUME NEW S, NEW s \in Seq(S), NEW e \in S
  PROVE  /\ Append(s, e) \in Seq(S) /\ Len(Append(s, e)) = Len(s) + 1
         /\ \A i \in 1 .. Len(s) : Append(s, e)[i] = s[i]
         /\ Append(s, e)[Len(s) + 1] = e
OBVIOUS

LEMMA PrependedIs ==
  ASSUME NEW S, NEW s \in Seq(S), NEW e \in S
  PROVE  /\ <<e>> \o s \in Seq(S) /\ Len(<<e>> \o s) = Len(s) + 1
         /\ (<<e>> \o s)[1] = e
         /\ \A i \in 2 .. Len(s) + 1 : (<<e>> \o s)[i] = s[i - 1]
OBVIOUS

LEMMA RemovedIs ==
  ASSUME NEW S, NEW s \in Seq(S), NEW k \in 1 .. Len(s)
  PROVE  /\ RemoveAt(s, k) \in Seq(S) /\ Len(RemoveAt(s, k)) = Len(s) - 1
         /\ \A i \in 1 .. Len(s) - 1 : RemoveAt(s, k)[i] = IF i < k THEN s[i] ELSE s[i + 1]
<1>1. PICK n \in Nat : n = Len(s) /\ n \in Int /\ 1 \in Int /\ k - 1 \in Int /\ k + 1 \in Int
  OBVIOUS
<1>2. PICK a \in Seq(S) : a = SubSeq(s, 1, k - 1) /\ Len(a) = k - 1 /\ \A i \in 1 .. k - 1 : a[i] = s[i]
  <2>1. \A i \in 1 .. k - 1 : s[i] \in S
    OBVIOUS
  <2>2. /\ SubSeq(s, 1, k - 1) \in Seq(S)
        /\ Len(SubSeq(s, 1, k - 1)) = IF 1 <= k - 1 THEN (k - 1) - 1 + 1 ELSE 0
        /\ \A i \in 1 .. (k - 1) - 1 + 1 : SubSeq(s, 1, k - 1)[i] = s[1 + i - 1]
    BY <1>1, <2>1, SubSeqProperties
  <2>3. 1 + (k - 1) = k /\ (k - 1) - 1 + 1 = k - 1 /\ \A i \in 1 .. k - 1 : 1 + i - 1 = i
    BY <1>1
  <2>4. Len(SubSeq(s, 1, k - 1)) = k - 1
    BY <1>1, <2>2
  <2>5. \A i \in 1 .. k - 1 : SubSeq(s, 1, k - 1)[i] = s[i]
    BY <2>2, <2>3
  <2> QED BY <2>2, <2>4, <2>5
<1>3. PICK b \in Seq(S) : /\ b = SubSeq(s, k + 1, n) /\ Len(b) = n - k
                          /\ \A i \in 1 .. n - k : b[i] = s[k + i]
  <2>1. \A i \in k + 1 .. n : s[i] \in S
    BY <1>1
  <2>2. /\ SubSeq(s, k + 1, n) \in Seq(S)
        /\ Len(SubSeq(s, k + 1, n)) = IF k + 1 <= n THEN n - (k + 1) + 1 ELSE 0
        /\ \A i \in 1 .. n - (k + 1) + 1 : SubSeq(s, k + 1, n)[i] = s[(k + 1) + i - 1]
    BY <1>1, <2>1, SubSeqProperties
  <2>3. n - (k + 1) + 1 = n - k /\ \A i \in 1 .. n - k : (k + 1) + i - 1 = k + i
    BY <1>1
  <2>4. Len(SubSeq(s, k + 1, n)) = n - k
    BY <1>1, <2>2
  <2>5. \A i \in 1 .. n - k : SubSeq(s, k + 1, n)[i] = s[k + i]
    BY <2>2, <2>3
  <2> QED BY <2>2, <2>4, <2>5
<1>4. RemoveAt(s, k) = a \o b
  BY <1>1, <1>2, <1>3 DEF RemoveAt
<1>5. /\ a \o b \in Seq(S) /\ Len(a \o b) = n - 1
      /\ \A i \in 1 .. n - 1 : (a \o b)[i] = IF i <= k - 1 THEN a[i] ELSE b[i - (k - 1)]
  <2>1. /\ a \o b \in Seq(S) /\ Len(a \o b) = Len(a) + Len(b)
        /\ \A i \in 1 .. Len(a) + Len(b) : (a \o b)[i] = IF i <= Len(a) THEN a[i] ELSE b[i - Len(a)]
    BY ConcatProperties
  <2>2. Len(a) = k - 1 /\ Len(b) = n - k /\ k \in Int /\ n \in Int
    BY <1>1, <1>2, <1>3
  <2>3. (k - 1) + (n - k) = n - 1
    BY <2>2
  <2> QED BY <2>1, <2>2, <2>3
<1>6. \A i \in 1 .. n - 1 : (a \o b)[i] = IF i < k THEN s[i] ELSE s[i + 1]
  <2> SUFFICES ASSUME NEW i \in 1 .. n - 1
               PROVE  (a \o b)[i] = IF i < k THEN s[i] ELSE s[i + 1]
    OBVIOUS
  <2>1. CASE i < k
    BY <1>1, <1>2, <1>5, <2>1
  <2>2. CASE ~ (i < k)
    <3>1. i - (k - 1) \in 1 .. n - k /\ k + (i - (k - 1)) = i + 1
      BY <1>1, <2>2
    <3> QED BY <1>1, <1>3, <1>5, <2>2, <3>1
  <2> QED BY <2>1, <2>2
<1> QED BY <1>1, <1>4, <1>5, <1>6

(* A walk along next.                                                      *)
Walk(m, J, g) ==
  g = [n \in 0 .. J |-> [x \in Entries \cup {NIL} |->
         IF n = 0 \/ x = NIL THEN <<>> ELSE <<x>> \o g[n - 1][m[x].next]]]

LEMMA WalkExists ==
  ASSUME NEW m, NEW J \in Nat
  PROVE  \E g : Walk(m, J, g)
<1> DEFINE B == {n \in 0 .. J : \E g : Walk(m, n, g)}
<1>1. 0 \in B
  <2> DEFINE g == [n \in 0 .. 0 |-> [x \in Entries \cup {NIL} |-> <<>>]]
  <2>1. Walk(m, 0, g)
    BY DEF Walk
  <2> QED BY <2>1
<1>2. ASSUME NEW k \in 1 .. J, k - 1 \in B PROVE k \in B
  <2>1. PICK g : Walk(m, k - 1, g)
    BY <1>2
  <2> DEFINE f == [n \in 0 .. k |-> [x \in Entries \cup {NIL} |->
                     IF n = 0 \/ x = NIL THEN <<>> ELSE <<x>> \o g[n - 1][m[x].next]]]
  <2>2. ASSUME NEW n \in 0 .. k - 1 PROVE f[n] = g[n]
    <3>1. g[n] = [x \in Entries \cup {NIL} |->
                    IF n = 0 \/ x = NIL THEN <<>> ELSE <<x>> \o g[n - 1][m[x].next]]
      BY <2>1 DEF Walk
    <3> QED BY <3>1
  <2>3. \A n \in 0 .. k : n # 0 => f[n - 1] = g[n - 1]
    <3> HIDE DEF f
    <3> QED BY <2>2
  <2>4. Walk(m, k, f)
    BY <2>3 DEF Walk
  <2>5. k \in 0 .. J
    OBVIOUS
  <2> QED BY <2>4, <2>5
<1>3. \A n \in 0 .. J : n \in B
  <2> HIDE DEF B
  <2> QED BY <1>1, <1>2, LoopInduction
<1> QED BY <1>3

LEMMA ChainWalk ==
  ASSUME NEW m, NEW e
  PROVE  \E g : Walk(m, MaxEntries + 1, g) /\ Chain(m, e) = g[MaxEntries + 1][e]
<1>1. MaxEntries + 1 \in Nat
  BY MailNumbers
<1> DEFINE w == CHOOSE walk : Walk(m, MaxEntries + 1, walk)
<1>2. Walk(m, MaxEntries + 1, w)
  BY <1>1, WalkExists
<1>3. Chain(m, e) = w[MaxEntries + 1][e]
  BY DEF Chain, Walk
<1> QED BY <1>2, <1>3

(* A list that next threads is what the walk finds: its last j entries are *)
(* what a walk of at least j steps finds from the first of them on.        *)
LEMMA ChainIs ==
  ASSUME NEW m, NEW c \in Seq(Entries), Len(c) <= MaxEntries,
         \A i \in 1 .. Len(c) : m[c[i]].next = At(c, i + 1)
  PROVE  Chain(m, At(c, 1)) = c
<1>1. PICK g : Walk(m, MaxEntries + 1, g) /\ Chain(m, At(c, 1)) = g[MaxEntries + 1][At(c, 1)]
  BY ChainWalk
<1>2. PICK L \in Nat : L = Len(c) /\ L <= MaxEntries /\ MaxEntries \in Nat /\ c \in [1 .. L -> Entries]
  BY MailNumbers
<1> DEFINE Onward(j) == [i \in 1 .. j |-> c[L - j + i]]
           B == {j \in 0 .. L : \A n \in j .. MaxEntries + 1 : g[n][At(c, L - j + 1)] = Onward(j)}
<1>3. \A n \in 0 .. MaxEntries + 1 : \A x \in Entries \cup {NIL} :
        g[n][x] = IF n = 0 \/ x = NIL THEN <<>> ELSE <<x>> \o g[n - 1][m[x].next]
  <2>1. \A n \in 0 .. MaxEntries + 1 :
          g[n] = [x \in Entries \cup {NIL} |->
                    IF n = 0 \/ x = NIL THEN <<>> ELSE <<x>> \o g[n - 1][m[x].next]]
    BY <1>1 DEF Walk
  <2> QED BY <2>1
<1>4. 0 \in B
  <2>1. At(c, L - 0 + 1) = NIL
    BY <1>2 DEF At
  <2>2. \A n \in 0 .. MaxEntries + 1 : g[n][NIL] = <<>>
    BY <1>3
  <2>3. Onward(0) = <<>>
    OBVIOUS
  <2> QED BY <2>1, <2>2, <2>3
<1>5. ASSUME NEW j \in 1 .. L, j - 1 \in B PROVE j \in B
  <2> SUFFICES ASSUME NEW n \in j .. MaxEntries + 1 PROVE g[n][At(c, L - j + 1)] = Onward(j)
    OBVIOUS
  <2>1. PICK k \in 1 .. L, x \in Entries : k = L - j + 1 /\ x = c[k] /\ x # NIL /\ x = At(c, L - j + 1)
    <3>1. L - j + 1 \in 1 .. L
      BY <1>2
    <3>3. PICK k \in 1 .. L : k = L - j + 1
      BY <3>1
    <3>2. c[k] \in Entries /\ c[k] # NIL /\ At(c, k) = c[k]
      BY <1>2, <3>3, MailNumbers DEF At
    <3> QED BY <3>3, <3>2
  <2>2. m[x].next = At(c, L - (j - 1) + 1)
    <3>1. k + 1 = L - (j - 1) + 1 /\ k \in 1 .. Len(c)
      BY <1>2, <2>1
    <3>2. m[c[k]].next = At(c, k + 1)
      BY <3>1
    <3> QED BY <2>1, <3>1, <3>2
  <2>3. n - 1 \in (j - 1) .. MaxEntries + 1 /\ n \in 0 .. MaxEntries + 1 /\ n # 0
    BY <1>2
  <2>4. g[n - 1][m[x].next] = Onward(j - 1)
    BY <1>5, <2>2, <2>3
  <2>5. g[n][x] = <<x>> \o Onward(j - 1)
    <3>1. x \in Entries \cup {NIL} /\ x # NIL /\ n \in 0 .. MaxEntries + 1 /\ n # 0
      BY <2>1, <2>3
    <3>2. g[n][x] = IF n = 0 \/ x = NIL THEN <<>> ELSE <<x>> \o g[n - 1][m[x].next]
      BY <1>3, <3>1
    <3>3. g[n][x] = <<x>> \o g[n - 1][m[x].next]
      BY <3>1, <3>2
    <3> QED BY <2>4, <3>3
  <2>6. PICK r \in Seq(Entries) : r = Onward(j - 1) /\ Len(r) = j - 1
                                  /\ \A i \in 1 .. j - 1 : r[i] = c[L - (j - 1) + i]
    <3>1. \A i \in 1 .. j - 1 : L - (j - 1) + i \in 1 .. L
      BY <1>2
    <3>2. PICK o \in Nat : o = j - 1
      BY <1>2
    <3>3. \A i \in 1 .. o : c[L - (j - 1) + i] \in Entries
      BY <1>2, <3>1, <3>2
    <3>4. Onward(j - 1) \in [1 .. o -> Entries]
      BY <3>2, <3>3
    <3>5. Onward(j - 1) \in Seq(Entries) /\ Len(Onward(j - 1)) = o
      <4> HIDE DEF Onward
      <4> QED BY <3>4, <3>2
    <3>6. \A i \in 1 .. j - 1 : Onward(j - 1)[i] = c[L - (j - 1) + i]
      OBVIOUS
    <3> QED BY <3>2, <3>5, <3>6
  <2>7. <<x>> \o r = Onward(j)
    <3>1. /\ <<x>> \o r \in Seq(Entries) /\ Len(<<x>> \o r) = j /\ (<<x>> \o r)[1] = x
          /\ \A i \in 2 .. j : (<<x>> \o r)[i] = r[i - 1]
      BY <2>6, PrependedIs
    <3>2. \A i \in 2 .. j : r[i - 1] = c[L - j + i]
      <4> SUFFICES ASSUME NEW i \in 2 .. j PROVE r[i - 1] = c[L - j + i]
        OBVIOUS
      <4>1. i - 1 \in 1 .. j - 1 /\ L - (j - 1) + (i - 1) = L - j + i
        BY <1>2
      <4> QED BY <2>6, <4>1
    <3>3. \A i \in 1 .. j : (<<x>> \o r)[i] = c[L - j + i]
      <4>1. \A i \in 1 .. j : i = 1 \/ i \in 2 .. j
        BY <1>2
      <4>2. L - j + 1 = k
        BY <2>1
      <4> QED BY <2>1, <3>1, <3>2, <4>1, <4>2
    <3>4. PICK z \in Seq(Entries) : z = <<x>> \o r /\ Len(z) = j
      BY <3>1
    <3>5. z = [i \in 1 .. j |-> z[i]]
      BY <3>4
    <3> QED BY <3>3, <3>4, <3>5
  <2> QED BY <2>1, <2>5, <2>6, <2>7
<1>6. L \in B
  <2>1. L \in 0 .. L
    OBVIOUS
  <2> HIDE DEF B
  <2> QED BY <1>4, <1>5, <2>1, LoopInduction
<1>7. At(c, L - L + 1) = At(c, 1) /\ MaxEntries + 1 \in L .. MaxEntries + 1 /\ Onward(L) = c
  BY <1>2
<1> QED BY <1>1, <1>6, <1>7
-----------------------------------------------------------------------------
(* What an operation does to the lists.                                    *)
Put(m, e, cell) == [m EXCEPT ![e] = cell]
PutBoth(h, p, m, q) == [h EXCEPT !.mem = m, !.queue[p] = q]
LEMMA CellWritten ==
  ASSUME NEW m \in [Entries -> Cells], NEW e \in Entries, NEW cell \in Cells
  PROVE  /\ Put(m, e, cell) \in [Entries -> Cells]
         /\ Put(m, e, cell)[e] = cell
         /\ \A x \in Entries : x # e => Put(m, e, cell)[x] = m[x]
BY DEF Put

Freed(h, L, F, P, X, e, f) ==
  /\ HeapOK(f, L, <<e>> \o F, P, X \ {e})
  /\ f.queue = h.queue /\ f.allocated = h.allocated
  /\ \A x \in Entries : x # e => f.mem[x].message = h.mem[x].message

LEMMA FreeEntryKeeps ==
  ASSUME NEW h, NEW L, NEW F, NEW P, NEW X, HeapOK(h, L, F, P, X), NEW e \in X
  PROVE  Freed(h, L, F, P, X, e, queue_free_entry(h, e))
<1>1. /\ h \in MailHeaps /\ L \in [MailPids -> Seq(Entries)] /\ F \in Seq(Entries) /\ X \subseteq Entries
      /\ e \in Entries /\ h.free = At(F, 1)
  BY DEF HeapOK
<1>2. PICK m : m = h.mem /\ m \in [Entries -> Cells]
  BY <1>1 DEF MailHeaps
<1>3. PICK cell \in Cells : cell = [next |-> h.free, prev |-> NIL, message |-> NoLetter]
  BY <1>1 DEF MailHeaps, Cells, Links, MailLetters, NoLetter
<1>4. PICK m2 \in [Entries -> Cells] :
         /\ m2 = Put(m, e, cell)
         /\ m2[e] = cell /\ \A x \in Entries : x # e => m2[x] = m[x]
  <2>1. m \in [Entries -> Cells] /\ e \in Entries
    BY <1>1, <1>2
  <2> QED BY <2>1, CellWritten
<1>5. PICK g : g = queue_free_entry(h, e)
  OBVIOUS
<1>6. g \in MailHeaps /\ g.queue = h.queue /\ g.mem = m2 /\ g.free = e /\ g.allocated = h.allocated
  BY <1>1, <1>2, <1>3, <1>4, <1>5 DEF queue_free_entry, MailHeaps, Links, Put
<1>7. PICK G \in Seq(Entries) :
         /\ G = <<e>> \o F /\ Len(G) = Len(F) + 1 /\ G[1] = e
         /\ \A i \in 2 .. Len(F) + 1 : G[i] = F[i - 1]
  <2>1. /\ <<e>> \o F \in Seq(Entries) /\ Len(<<e>> \o F) = Len(F) + 1 /\ (<<e>> \o F)[1] = e
        /\ \A i \in 2 .. Len(F) + 1 : (<<e>> \o F)[i] = F[i - 1]
    BY <1>1, PrependedIs
  <2> QED BY <2>1
<1>8. PICK n \in Nat : n = Len(F) /\ Len(G) = n + 1
  BY <1>1, <1>7
<1>9. \A x : InFree(G, x) <=> x = e \/ InFree(F, x)
  <2>1. ASSUME NEW x, InFree(G, x) PROVE x = e \/ InFree(F, x)
    <3>1. PICK i \in 1 .. n + 1 : G[i] = x
      BY <1>8, <2>1 DEF InFree
    <3>2. i = 1 \/ (i \in 2 .. n + 1 /\ i - 1 \in 1 .. n)
      OBVIOUS
    <3> QED BY <1>7, <1>8, <3>1, <3>2 DEF InFree
  <2>2. ASSUME NEW x, InFree(F, x) PROVE InFree(G, x)
    <3>1. PICK i \in 1 .. n : F[i] = x
      BY <1>8, <2>2 DEF InFree
    <3>2. i + 1 \in 2 .. n + 1 /\ i + 1 \in 1 .. n + 1 /\ (i + 1) - 1 = i
      OBVIOUS
    <3> QED BY <1>7, <1>8, <3>1, <3>2 DEF InFree
  <2>3. InFree(G, e)
    <3>1. 1 \in 1 .. n + 1
      OBVIOUS
    <3> QED BY <1>7, <1>8, <3>1 DEF InFree
  <2> QED BY <2>1, <2>2, <2>3
<1>10. ~ InList(L, e) /\ ~ InFree(F, e)
  BY DEF HeapOK, Apart
<1>11. Linked(m2, L)
  <2>1. \A p \in MailPids : \A i \in 1 .. Len(L[p]) : L[p][i] \in Entries /\ L[p][i] # e
    BY <1>1, <1>10 DEF InList
  <2>2. Linked(m, L)
    BY <1>2 DEF HeapOK
  <2> QED BY <1>4, <2>1, <2>2 DEF Linked
<1>12. At(G, 1) = e
  BY <1>7, <1>8 DEF At
<1>13. FreeLinked(m2, G)
  <2> SUFFICES ASSUME NEW i \in 1 .. n + 1 PROVE m2[G[i]].next = At(G, i + 1)
    BY <1>8 DEF FreeLinked
  <2>1. CASE i = 1
    <3>1. At(G, 2) = At(F, 1)
      BY <1>7, <1>8 DEF At
    <3> QED BY <1>1, <1>3, <1>4, <1>7, <2>1, <3>1
  <2>2. CASE i # 1
    <3>1. PICK j \in 1 .. n : j = i - 1 /\ i \in 2 .. n + 1
      BY <2>2
    <3>2. At(G, i + 1) = At(F, j + 1)
      <4>1. i + 1 \in 2 .. n + 1 => At(G, i + 1) = F[i]
        BY <1>7, <1>8 DEF At
      <4>2. i = j + 1 /\ (i + 1 \in 2 .. n + 1 <=> j + 1 \in 1 .. n) /\ (i + 1 \in 1 .. n + 1 <=> j + 1 \in 1 .. n)
        BY <3>1
      <4> QED BY <1>8, <4>1, <4>2 DEF At
    <3>3. G[i] = F[j] /\ F[j] \in Entries /\ F[j] # e
      BY <1>1, <1>7, <1>8, <1>10, <3>1 DEF InFree
    <3>4. m[F[j]].next = At(F, j + 1)
      BY <1>2, <1>8 DEF HeapOK, FreeLinked
    <3> QED BY <1>4, <3>2, <3>3, <3>4
  <2> QED BY <2>1, <2>2
<1>14. Apart(L, G, X \ {e})
  <2>1. \A i, j \in 1 .. Len(G) : G[i] = G[j] => i = j
    <3> SUFFICES ASSUME NEW i \in 1 .. n + 1, NEW j \in 1 .. n + 1, G[i] = G[j] PROVE i = j
      BY <1>8
    <3>1. \A k \in 1 .. n + 1 : k = 1 \/ (k \in 2 .. n + 1 /\ k - 1 \in 1 .. n)
      OBVIOUS
    <3>2. \A k \in 1 .. n : F[k] # e
      BY <1>8, <1>10 DEF InFree
    <3>3. \A k \in 2 .. n + 1 : G[k] = F[k - 1]
      BY <1>7, <1>8
    <3>4. \A k, l \in 1 .. n : F[k] = F[l] => k = l
      BY <1>8 DEF HeapOK, Apart
    <3>5. i \in 2 .. n + 1 /\ j \in 2 .. n + 1 => F[i - 1] = F[j - 1] /\ i - 1 \in 1 .. n /\ j - 1 \in 1 .. n
      BY <3>1, <3>3
    <3>6. i \in 2 .. n + 1 /\ j \in 2 .. n + 1 => i - 1 = j - 1
      BY <3>4, <3>5
    <3>7. i = 1 <=> j = 1
      BY <1>7, <3>1, <3>2, <3>3
    <3> QED BY <3>1, <3>6, <3>7
  <2> QED BY <1>9, <1>10, <2>1 DEF HeapOK, Apart
<1>15. Covered(h.allocated, L, G, X \ {e})
  BY <1>9 DEF HeapOK, Covered
<1>16. HeapOK(g, L, G, P, X \ {e})
  BY <1>1, <1>6, <1>11, <1>12, <1>13, <1>14, <1>15 DEF HeapOK
<1>17. \A x \in Entries : x # e => g.mem[x].message = h.mem[x].message
  BY <1>2, <1>4, <1>6
<1>18. Freed(h, L, F, P, X, e, g)
  BY <1>6, <1>7, <1>16, <1>17 DEF Freed
<1> QED BY <1>5, <1>18

LEMMA AllocKeeps ==
  ASSUME NEW h, NEW L, NEW F, NEW P, NEW X, HeapOK(h, L, F, P, X),
         NEW a \in queue_alloc_entry(h), a[1] # NIL
  PROVE  \E F2 : /\ HeapOK(a[2], L, F2, P, X \cup {a[1]}) /\ a[1] \in Entries /\ a[1] \notin X
                 /\ a[2].mem = h.mem /\ a[2].queue = h.queue
                 /\ \/ a[2].allocated = h.allocated
                    \/ F = <<>> /\ F2 = <<>> /\ a[2].allocated = h.allocated + 1
<1>1. /\ h \in MailHeaps /\ L \in [MailPids -> Seq(Entries)] /\ F \in Seq(Entries) /\ X \subseteq Entries
      /\ h.free = At(F, 1) /\ h.allocated \in Nat /\ h.allocated <= MaxEntries
  BY DEF HeapOK, MailHeaps
<1>2. PICK n \in Nat : n = Len(F) /\ F \in [1 .. n -> Entries]
  BY <1>1
<1>3. CASE h.free = NIL
  <2>1. n = 0 /\ F = <<>>
    <3>1. n # 0 => At(F, 1) = F[1] /\ F[1] \in Entries
      BY <1>2 DEF At
    <3> QED BY <1>1, <1>2, <1>3, <3>1, MailNumbers
  <2>2. /\ h.allocated < MaxEntries /\ a[1] = h.allocated + 1
        /\ a[2] = [h EXCEPT !.allocated = @ + 1]
    BY <1>3 DEF queue_alloc_entry, kmalloc_entry
  <2>3. PICK e, g : e = a[1] /\ g = a[2]
    OBVIOUS
  <2>4. /\ g \in MailHeaps /\ g.queue = h.queue /\ g.mem = h.mem /\ g.free = h.free
        /\ g.allocated = h.allocated + 1
    <3>1. PICK q \in Nat : q = h.allocated + 1
      BY <1>1
    <3>2. g = [h EXCEPT !.allocated = q]
      BY <2>2, <2>3, <3>1
    <3> QED BY <1>1, <3>1, <3>2 DEF MailHeaps
  <2>5. e \in Entries /\ e = h.allocated + 1 /\ \A x \in Entries : x <= e <=> (x <= h.allocated \/ x = e)
    BY <1>1, <2>2, <2>3, MailNumbers DEF Entries
  <2>6. ~ InList(L, e) /\ ~ InFree(F, e) /\ e \notin X
    <3>1. ~ (e <= h.allocated)
      BY <1>1, <2>5
    <3> QED BY <2>5, <3>1 DEF HeapOK, Covered
  <2>7. Apart(L, F, X \cup {e})
    BY <2>6 DEF HeapOK, Apart
  <2>8. Covered(e, L, F, X \cup {e})
    BY <2>5 DEF HeapOK, Covered
  <2>9. e <= MaxEntries /\ X \cup {e} \subseteq Entries
    <3>1. e <= MaxEntries
      BY <2>5, MailNumbers DEF Entries
    <3> QED BY <1>1, <2>5, <3>1
  <2>10. HeapOK(g, L, F, P, X \cup {e})
    BY <2>4, <2>5, <2>7, <2>8, <2>9 DEF HeapOK
  <2> QED BY <2>1, <2>3, <2>4, <2>5, <2>6, <2>10
<1>4. CASE h.free # NIL
  <2>1. PICK e, g : e = a[1] /\ g = a[2] /\ e = h.free /\ g = [h EXCEPT !.free = h.mem[h.free].next]
    BY <1>4 DEF queue_alloc_entry
  <2>2. n # 0 /\ e = F[1] /\ e \in Entries
    BY <1>1, <1>2, <1>4, <2>1 DEF At
  <2>3. PICK k \in Nat : n = k + 1
    <3>1. n - 1 \in Nat /\ n = (n - 1) + 1
      BY <2>2
    <3> QED BY <3>1
  <2>4. PICK G \in Seq(Entries) : Len(G) = k /\ \A i \in 1 .. k : G[i] = F[i + 1]
    <3>1. [i \in 1 .. k |-> F[i + 1]] \in [1 .. k -> Entries]
      BY <1>2, <2>3
    <3>2. [i \in 1 .. k |-> F[i + 1]] \in Seq(Entries) /\ Len([i \in 1 .. k |-> F[i + 1]]) = k
      BY <3>1
    <3> QED BY <3>2
  <2>5. \A i \in 1 .. k : i + 1 \in 1 .. n /\ At(G, i) = At(F, i + 1)
    BY <1>2, <2>3, <2>4 DEF At
  <2>6. At(G, k + 1) = At(F, n + 1)
    BY <1>2, <2>3, <2>4 DEF At
  <2>7. At(G, 1) = At(F, 2)
    <3>1. k = 0 => k + 1 = 1 /\ n + 1 = 2
      BY <2>3
    <3>2. k # 0 => 1 \in 1 .. k /\ 1 + 1 = 2
      OBVIOUS
    <3> QED BY <2>5, <2>6, <3>1, <3>2
  <2>8. h.mem[e].next = At(G, 1)
    <3>1. 1 \in 1 .. Len(F) /\ 1 + 1 = 2
      BY <1>2, <2>2
    <3>2. h.mem[F[1]].next = At(F, 2)
      BY <3>1 DEF HeapOK, FreeLinked
    <3> QED BY <2>2, <2>7, <3>2
  <2>9. /\ g \in MailHeaps /\ g.queue = h.queue /\ g.mem = h.mem /\ g.free = At(G, 1)
        /\ g.allocated = h.allocated
    <3>1. At(G, 1) \in Links
      BY <2>4 DEF At, Links
    <3>2. g = [h EXCEPT !.free = At(G, 1)]
      BY <2>1, <2>8
    <3> QED BY <1>1, <3>1, <3>2 DEF MailHeaps
  <2>10. FreeLinked(h.mem, G)
    <3> SUFFICES ASSUME NEW i \in 1 .. k PROVE h.mem[G[i]].next = At(G, i + 1)
      BY <2>4 DEF FreeLinked
    <3>1. i + 1 \in 1 .. Len(F) /\ h.mem[F[i + 1]].next = At(F, (i + 1) + 1)
      BY <1>2, <2>5 DEF HeapOK, FreeLinked
    <3>2. At(G, i + 1) = At(F, (i + 1) + 1)
      <4>1. i + 1 \in 1 .. k \/ (i = k /\ (i + 1) + 1 = n + 1)
        BY <2>3
      <4> QED BY <2>5, <2>6, <4>1
    <3> QED BY <2>4, <3>1, <3>2
  <2>11. \A x : InFree(G, x) => InFree(F, x) /\ x # e
    <3> SUFFICES ASSUME NEW i \in 1 .. k PROVE InFree(F, G[i]) /\ G[i] # e
      BY <2>4 DEF InFree
    <3>1. i + 1 \in 1 .. Len(F) /\ 1 \in 1 .. Len(F) /\ i + 1 # 1 /\ G[i] = F[i + 1]
      BY <1>2, <2>2, <2>4, <2>5
    <3>2. F[i + 1] # F[1]
      BY <3>1 DEF HeapOK, Apart
    <3> QED BY <2>2, <3>1, <3>2 DEF InFree
  <2>12. \A x : InFree(F, x) => x = e \/ InFree(G, x)
    <3> SUFFICES ASSUME NEW i \in 1 .. n PROVE F[i] = e \/ InFree(G, F[i])
      BY <1>2 DEF InFree
    <3>1. i = 1 \/ (i - 1 \in 1 .. k /\ (i - 1) + 1 = i)
      BY <2>3
    <3> QED BY <2>2, <2>4, <3>1 DEF InFree
  <2>13. InFree(F, e)
    <3>1. 1 \in 1 .. Len(F)
      BY <1>2, <2>2
    <3> QED BY <2>2, <3>1 DEF InFree
  <2>14. e \notin X /\ ~ InList(L, e)
    BY <2>2, <2>13 DEF HeapOK, Apart
  <2>15. Apart(L, G, X \cup {e})
    <3>1. \A i, j \in 1 .. Len(G) : G[i] = G[j] => i = j
      <4> SUFFICES ASSUME NEW i \in 1 .. k, NEW j \in 1 .. k, G[i] = G[j] PROVE i = j
        BY <2>4
      <4>1. F[i + 1] = F[j + 1] /\ i + 1 \in 1 .. Len(F) /\ j + 1 \in 1 .. Len(F)
        BY <1>2, <2>4, <2>5
      <4>2. i + 1 = j + 1
        BY <4>1 DEF HeapOK, Apart
      <4> QED BY <4>2
    <3> QED BY <2>11, <2>14, <3>1 DEF HeapOK, Apart
  <2>16. Covered(h.allocated, L, G, X \cup {e})
    BY <2>11, <2>12, <2>13 DEF HeapOK, Covered
  <2>17. HeapOK(g, L, G, P, X \cup {e})
    BY <1>1, <2>2, <2>9, <2>10, <2>15, <2>16 DEF HeapOK
  <2> QED BY <2>1, <2>2, <2>9, <2>14, <2>17
<1> QED BY <1>3, <1>4

(* Places in a list that lost its entry k.                                 *)
LEMMA RemovedAt ==
  ASSUME NEW c \in Seq(Entries), NEW k \in 1 .. Len(c), NEW i \in Int
  PROVE  At(RemoveAt(c, k), i) = IF i < k THEN At(c, i) ELSE At(c, i + 1)
<1>1. PICK n \in Nat : n = Len(c) /\ k \in 1 .. n
  OBVIOUS
<1>2. PICK G \in Seq(Entries) : G = RemoveAt(c, k) /\ Len(G) = n - 1
  <2>1. RemoveAt(c, k) \in Seq(Entries) /\ Len(RemoveAt(c, k)) = Len(c) - 1
    BY RemovedIs
  <2> QED BY <1>1, <2>1
<1>3. \A j \in 1 .. n - 1 : G[j] = IF j < k THEN c[j] ELSE c[j + 1]
  <2>1. \A j \in 1 .. Len(c) - 1 : RemoveAt(c, k)[j] = IF j < k THEN c[j] ELSE c[j + 1]
    BY RemovedIs
  <2> QED BY <1>1, <1>2, <2>1
<1>4. /\ i < k => (i \in 1 .. n - 1 <=> i \in 1 .. n)
      /\ ~ (i < k) => (i \in 1 .. n - 1 <=> i + 1 \in 1 .. n)
  BY <1>1
<1> QED BY <1>1, <1>2, <1>3, <1>4 DEF At

LEMMA AppendedAt ==
  ASSUME NEW c \in Seq(Entries), NEW e \in Entries, NEW i \in Int
  PROVE  At(Append(c, e), i) = IF i = Len(c) + 1 THEN e ELSE At(c, i)
<1>1. PICK n \in Nat : n = Len(c)
  OBVIOUS
<1>2. PICK G \in Seq(Entries) :
         /\ G = Append(c, e) /\ Len(G) = n + 1
         /\ \A j \in 1 .. n : G[j] = c[j]
         /\ G[n + 1] = e
  <2>1. /\ Append(c, e) \in Seq(Entries) /\ Len(Append(c, e)) = Len(c) + 1
        /\ \A j \in 1 .. Len(c) : Append(c, e)[j] = c[j]
        /\ Append(c, e)[Len(c) + 1] = e
    BY AppendedIs
  <2> QED BY <1>1, <2>1
<1>3. i \in 1 .. n + 1 <=> i = n + 1 \/ i \in 1 .. n
  BY <1>1
<1> QED BY <1>1, <1>2, <1>3 DEF At

Linkd(h, L, F, P, X, p, e, letter, h2) ==
  /\ HeapOK(h2, [L EXCEPT ![p] = Append(@, e)], F, P, X \ {e})
  /\ h2.allocated = h.allocated
  /\ \A r \in MailPids : h2.queue[r].open = h.queue[r].open
  /\ h2.mem[e].message = letter
  /\ \A x \in Entries : x # e => h2.mem[x].message = h.mem[x].message

LEMMA LinkKeeps ==
  ASSUME NEW h, NEW L, NEW F, NEW P, NEW X, HeapOK(h, L, F, P, X),
         NEW p \in P, NEW e \in X, NEW letter \in MailLetters,
         h.queue[p].open, Len(L[p]) < MaxQueue
  PROVE  Linkd(h, L, F, P, X, p, e, letter, Link(h, p, e, letter))
<1>1. /\ h \in MailHeaps /\ L \in [MailPids -> Seq(Entries)] /\ F \in Seq(Entries) /\ X \subseteq Entries
      /\ e \in Entries /\ p \in MailPids /\ h.free = At(F, 1) /\ QueueOK(h.queue[p], L[p])
  BY DEF HeapOK
<1>2. PICK m, q : m = h.mem /\ q = h.queue /\ m \in [Entries -> Cells] /\ q \in [MailPids -> Queues]
  BY <1>1 DEF MailHeaps
<1>3. PICK c \in Seq(Entries), n \in Nat : c = L[p] /\ n = Len(c)
  BY <1>1
<1>4. PICK t \in Links : t = q[p].tail /\ t = At(c, n) /\ (t = NIL <=> n = 0)
  <2>1. q[p].tail = At(c, n)
    BY <1>1, <1>2, <1>3 DEF QueueOK
  <2>2. n = 0 => At(c, n) = NIL
    BY <1>3 DEF At
  <2>3. n # 0 => At(c, n) \in Entries
    BY <1>3 DEF At
  <2> QED BY <2>1, <2>2, <2>3, MailNumbers DEF Links
<1>5. ~ InList(L, e) /\ ~ InFree(F, e)
  BY DEF HeapOK, Apart
<1>6. t # e /\ (t # NIL => t \in Entries)
  <2>1. t # NIL => n \in 1 .. Len(c) /\ t = c[n]
    BY <1>3, <1>4 DEF At
  <2>2. t # NIL => InList(L, t)
    BY <1>1, <1>3, <2>1 DEF InList
  <2> QED BY <1>1, <1>5, <2>2, MailNumbers DEF Links
<1>7. PICK cell \in Cells : cell = [next |-> NIL, prev |-> t, message |-> letter]
  BY DEF Cells, Links
<1>8. PICK m1 \in [Entries -> Cells] :
         /\ m1 = Put(m, e, cell)
         /\ m1[e] = cell /\ \A x \in Entries : x # e => m1[x] = m[x]
  <2>1. m \in [Entries -> Cells] /\ e \in Entries
    BY <1>1, <1>2
  <2> QED BY <2>1, CellWritten
<1>9. PICK m2 \in [Entries -> Cells] :
         /\ m2 = IF t # NIL THEN [m1 EXCEPT ![t].next = e] ELSE m1
         /\ m2[e] = cell
         /\ t # NIL => m2[t] = [m[t] EXCEPT !.next = e]
         /\ \A x \in Entries : x # e /\ x # t => m2[x] = m[x]
  <2>1. CASE t = NIL
    BY <1>1, <1>8, <2>1, MailNumbers
  <2>2. CASE t # NIL
    <3>1. PICK d \in Cells : d = [m1[t] EXCEPT !.next = e] /\ d = [m[t] EXCEPT !.next = e]
      <4>1. m1[t] \in Cells /\ e \in Links /\ m1[t] = m[t]
        BY <1>1, <1>6, <1>8, <2>2 DEF Links
      <4> QED BY <4>1 DEF Cells
    <3>2. t \in Entries
      BY <1>6, <2>2
    <3>3. PICK m3 \in [Entries -> Cells] :
             /\ m3 = Put(m1, t, d)
             /\ m3[t] = d /\ \A x \in Entries : x # t => m3[x] = m1[x]
      BY <3>2, CellWritten
    <3>4. [m1 EXCEPT ![t].next = e] = Put(m1, t, d)
      BY <3>1 DEF Put
    <3>5. m3[e] = cell /\ \A x \in Entries : x # e /\ x # t => m3[x] = m[x]
      BY <1>1, <1>6, <1>8, <3>3
    <3>6. m3[t] = [m[t] EXCEPT !.next = e]
      BY <3>1, <3>3
    <3>7. m3 = IF t # NIL THEN [m1 EXCEPT ![t].next = e] ELSE m1
      BY <2>2, <3>3, <3>4
    <3> QED BY <3>5, <3>6, <3>7
  <2> QED BY <2>1, <2>2
<1>10. PICK G \in Seq(Entries) :
         /\ G = Append(c, e) /\ Len(G) = n + 1 /\ G[n + 1] = e
         /\ \A j \in 1 .. n : G[j] = c[j]
  <2>1. /\ Append(c, e) \in Seq(Entries) /\ Len(Append(c, e)) = Len(c) + 1
        /\ \A j \in 1 .. Len(c) : Append(c, e)[j] = c[j]
        /\ Append(c, e)[Len(c) + 1] = e
    BY <1>1, AppendedIs
  <2> QED BY <1>3, <2>1
<1>11. \A i \in Int : At(G, i) = IF i = n + 1 THEN e ELSE At(c, i)
  BY <1>1, <1>3, <1>10, AppendedAt
<1>12. PICK J \in [MailPids -> Seq(Entries)] :
         /\ J = [L EXCEPT ![p] = Append(@, e)]
         /\ J[p] = G /\ \A r \in MailPids : r # p => J[r] = L[r]
  <2>1. [L EXCEPT ![p] = G] \in [MailPids -> Seq(Entries)]
    BY <1>1
  <2>2. [L EXCEPT ![p] = Append(@, e)] = [L EXCEPT ![p] = G]
    BY <1>3, <1>10
  <2> QED BY <1>1, <2>1, <2>2
<1>13. \A x : InList(J, x) <=> x = e \/ InList(L, x)
  <2>1. ASSUME NEW x, InList(J, x) PROVE x = e \/ InList(L, x)
    <3>1. PICK r \in MailPids : \E i \in 1 .. Len(J[r]) : J[r][i] = x
      BY <2>1 DEF InList
    <3>2. PICK i \in 1 .. Len(J[r]) : J[r][i] = x
      BY <3>1
    <3>3. ASSUME r = p PROVE i = n + 1 \/ (i \in 1 .. n /\ x = c[i])
      <4>1. J[r] = G /\ i \in 1 .. n + 1 /\ G[i] = x
        BY <1>10, <1>12, <3>2, <3>3
      <4> QED BY <1>10, <4>1
    <3> QED BY <1>1, <1>3, <1>10, <1>12, <3>2, <3>3 DEF InList
  <2>2. ASSUME NEW x, InList(L, x) PROVE InList(J, x)
    <3>1. PICK r \in MailPids : \E i \in 1 .. Len(L[r]) : L[r][i] = x
      BY <2>2 DEF InList
    <3>2. PICK i \in 1 .. Len(L[r]) : L[r][i] = x
      BY <3>1
    <3>3. r = p => i \in 1 .. Len(G) /\ G[i] = x
      BY <1>3, <1>10, <3>2
    <3> QED BY <1>12, <3>2, <3>3 DEF InList
  <2>3. InList(J, e)
    <3>1. n + 1 \in 1 .. Len(J[p]) /\ J[p][n + 1] = e
      BY <1>10, <1>12
    <3> QED BY <1>1, <3>1 DEF InList
  <2> QED BY <2>1, <2>2, <2>3
<1>14. PICK u \in Nat : u = q[p].count + 1 /\ u = n + 1 /\ u <= MaxQueue
  <2>1. q[p].count = n
    BY <1>1, <1>2, <1>3 DEF QueueOK
  <2> QED BY <1>3, <2>1, MailNumbers
<1>15. PICK rec \in Queues :
         /\ rec.head = At(G, 1) /\ rec.tail = e /\ rec.count = u /\ rec.open = q[p].open
         /\ rec.head = IF t # NIL THEN q[p].head ELSE e
  <2>1. At(G, 1) = IF t # NIL THEN q[p].head ELSE e
    <3>1. q[p].head = At(c, 1)
      BY <1>1, <1>2, <1>3 DEF QueueOK
    <3>2. 1 \in Int /\ (1 = n + 1 <=> n = 0)
      BY <1>3
    <3>3. At(G, 1) = IF n = 0 THEN e ELSE At(c, 1)
      BY <1>11, <3>2
    <3> QED BY <1>4, <3>1, <3>3
  <2>2. At(G, 1) \in Links /\ e \in Links /\ q[p].open \in BOOLEAN
    BY <1>1, <1>2, <1>10 DEF Queues, Links, At
  <2>3. [head |-> At(G, 1), tail |-> e, count |-> u, open |-> q[p].open] \in Queues
    BY <2>2 DEF Queues
  <2> QED BY <2>1, <2>3
<1>16. PICK q2 \in [MailPids -> Queues] :
         /\ q2 = [q EXCEPT ![p] = rec]
         /\ q2[p] = rec /\ \A r \in MailPids : r # p => q2[r] = q[r]
  <2>1. [q EXCEPT ![p] = rec] \in [MailPids -> Queues]
    BY <1>2
  <2> QED BY <1>1, <1>2, <2>1
<1>17. PICK g : g = [h EXCEPT !.mem = m2, !.queue = q2]
  OBVIOUS
<1>18. Link(h, p, e, letter) = g
  <2>1. /\ h.queue[p].tail = t /\ h.mem = m /\ h.queue = q
        /\ [next |-> NIL, prev |-> t, message |-> letter] = cell
    BY <1>2, <1>4, <1>7
  <2>9. PICK v : v = [h.mem EXCEPT ![e] = [next |-> NIL, prev |-> h.queue[p].tail, message |-> letter]]
    OBVIOUS
  <2>10. PICK A : A = IF h.queue[p].tail # NIL THEN [v EXCEPT ![h.queue[p].tail].next = e] ELSE v
    OBVIOUS
  <2>11. PICK B : B = [h.queue[p] EXCEPT !.head = IF h.queue[p].tail # NIL THEN @ ELSE e,
                                        !.tail = e, !.count = @ + 1]
    OBVIOUS
  <2>2. Link(h, p, e, letter) = [h EXCEPT !.mem = A, !.queue[p] = B]
    BY <2>9, <2>10, <2>11 DEF Link
  <2>6. v = m1
    BY <1>8, <2>1, <2>9 DEF Put
  <2>7. A = m2
    BY <1>9, <2>1, <2>10, <2>6
  <2>3. rec = B
    <3>1. q[p] \in Queues
      BY <1>1, <1>2
    <3>2. B = [q[p] EXCEPT !.head = IF t # NIL THEN @ ELSE e, !.tail = e, !.count = @ + 1]
      BY <2>1, <2>11
    <3> QED BY <1>14, <1>15, <3>1, <3>2 DEF Queues
  <2>4. Link(h, p, e, letter) = [h EXCEPT !.mem = m2, !.queue[p] = rec]
    BY <2>2, <2>3, <2>7
  <2>5. [h EXCEPT !.mem = m2, !.queue[p] = rec] = [h EXCEPT !.mem = m2, !.queue = q2]
    BY <1>1, <1>2, <1>16 DEF MailHeaps
  <2> QED BY <1>17, <2>4, <2>5
<1>19. /\ g \in MailHeaps /\ g.queue = q2 /\ g.mem = m2 /\ g.free = h.free
       /\ g.allocated = h.allocated
  BY <1>1, <1>17 DEF MailHeaps
<1>20. \A r \in MailPids : \A i \in 1 .. Len(L[r]) :
         L[r][i] \in Entries /\ L[r][i] # e /\ (L[r][i] = t => r = p /\ i = n)
  <2> SUFFICES ASSUME NEW r \in MailPids, NEW i \in 1 .. Len(L[r])
               PROVE  L[r][i] \in Entries /\ L[r][i] # e /\ (L[r][i] = t => r = p /\ i = n)
    OBVIOUS
  <2>1. L[r][i] \in Entries
    BY <1>1
  <2>2. L[r][i] # e
    BY <1>5 DEF InList
  <2>3. L[r][i] = t => n \in 1 .. Len(L[p]) /\ t = L[p][n]
    BY <1>3, <1>4, <2>1, MailNumbers DEF At
  <2>4. L[r][i] = t => r = p /\ i = n
    BY <1>1, <2>3 DEF HeapOK, Apart
  <2> QED BY <2>1, <2>2, <2>4
<1>21. Linked(m, L)
  BY <1>2 DEF HeapOK
<1>22. ASSUME NEW r \in MailPids, r # p, NEW i \in 1 .. Len(J[r])
       PROVE  m2[J[r][i]].next = At(J[r], i + 1) /\ m2[J[r][i]].prev = At(J[r], i - 1)
  <2>1. J[r] = L[r] /\ i \in 1 .. Len(L[r])
    BY <1>12, <1>22
  <2>2. m2[L[r][i]] = m[L[r][i]]
    BY <1>9, <1>20, <1>22, <2>1
  <2> QED BY <1>21, <2>1, <2>2 DEF Linked
<1>23. ASSUME NEW i \in 1 .. n + 1
       PROVE  m2[G[i]].next = At(G, i + 1) /\ m2[G[i]].prev = At(G, i - 1)
  <2>1. CASE i = n + 1
    <3>1. At(G, i + 1) = NIL
      BY <1>10, <2>1 DEF At
    <3>2. At(G, i - 1) = t
      <4>1. i - 1 = n /\ n \in Int /\ n # n + 1
        BY <2>1
      <4> QED BY <1>4, <1>11, <4>1
    <3>3. m2[G[i]] = cell
      BY <1>9, <1>10, <2>1
    <3> QED BY <1>7, <3>1, <3>2, <3>3
  <2>2. CASE i # n + 1
    <3>1. i \in 1 .. n /\ i + 1 \in Int /\ i - 1 \in Int /\ i - 1 # n + 1 /\ (i + 1 = n + 1 <=> i = n)
      BY <2>2
    <3>2. PICK x \in Entries : x = c[i] /\ x = G[i] /\ x # e /\ (x = t <=> i = n)
      <4>1. c[i] \in Entries /\ c[i] # e /\ (c[i] = t => i = n) /\ c[i] = G[i]
        BY <1>1, <1>3, <1>10, <1>20, <3>1
      <4>2. i = n => c[i] = t
        BY <1>3, <1>4, <3>1 DEF At
      <4> QED BY <4>1, <4>2
    <3>3. m[x].next = At(c, i + 1) /\ m[x].prev = At(c, i - 1)
      BY <1>1, <1>3, <1>21, <3>1, <3>2 DEF Linked
    <3>4. m2[x].prev = m[x].prev
        <4>1. PICK d \in Cells : d = m[x]
        BY <1>2
      <4>2. x = t => m2[x] = [d EXCEPT !.next = e]
        BY <1>9, <3>2, <4>1, MailNumbers
      <4>3. x # t => m2[x] = d
        BY <1>9, <3>2, <4>1
      <4> QED BY <4>1, <4>2, <4>3 DEF Cells
    <3>5. m2[x].next = IF i = n THEN e ELSE m[x].next
      <4>1. i = n => m2[x] = [m[x] EXCEPT !.next = e] /\ m[x] \in Cells
        BY <1>2, <1>9, <3>2, MailNumbers
      <4>2. i # n => m2[x] = m[x]
        BY <1>9, <3>2
      <4> QED BY <4>1, <4>2 DEF Cells
    <3>6. At(G, i + 1) = IF i = n THEN e ELSE At(c, i + 1)
      BY <1>11, <3>1
    <3>7. At(G, i - 1) = At(c, i - 1)
      BY <1>11, <3>1
    <3> QED BY <3>2, <3>3, <3>4, <3>5, <3>6, <3>7
  <2> QED BY <2>1, <2>2
<1>24. Linked(m2, J)
  <2>1. \A i \in 1 .. Len(J[p]) : m2[J[p][i]].next = At(J[p], i + 1) /\ m2[J[p][i]].prev = At(J[p], i - 1)
    BY <1>10, <1>12, <1>23
  <2> QED BY <1>22, <2>1 DEF Linked
<1>25. FreeLinked(m2, F)
  <2>1. FreeLinked(m, F)
    BY <1>2 DEF HeapOK
  <2>2. t # NIL => InList(L, t)
    <3>1. t # NIL => n \in 1 .. Len(L[p]) /\ L[p][n] = t
      BY <1>3, <1>4 DEF At
    <3> QED BY <1>1, <3>1 DEF InList
  <2>3. \A i \in 1 .. Len(F) : F[i] \in Entries /\ F[i] # e /\ F[i] # t
    <3> SUFFICES ASSUME NEW i \in 1 .. Len(F) PROVE F[i] \in Entries /\ F[i] # e /\ F[i] # t
      OBVIOUS
    <3>1. F[i] \in Entries /\ InFree(F, F[i])
      BY <1>1 DEF InFree
    <3>2. ~ InList(L, F[i])
      BY <3>1 DEF HeapOK, Apart
    <3> QED BY <1>5, <2>2, <3>1, <3>2, MailNumbers
  <2> QED BY <1>9, <2>1, <2>3 DEF FreeLinked
<1>26. \A r \in P : QueueOK(q2[r], J[r])
  <2>1. QueueOK(q2[p], J[p])
    <3>1. At(G, Len(G)) = e
      <4>1. n + 1 \in Int
        BY <1>3
      <4> QED BY <1>10, <1>11, <4>1
    <3> QED BY <1>2, <1>10, <1>12, <1>14, <1>15, <1>16, <3>1 DEF QueueOK
  <2>2. \A r \in P : r \in MailPids /\ QueueOK(q[r], L[r])
    BY <1>2 DEF HeapOK
  <2> QED BY <1>12, <1>16, <2>1, <2>2
<1>27. Apart(J, F, X \ {e})
  <2>1. ASSUME NEW r \in MailPids, NEW s \in MailPids, NEW i \in 1 .. Len(J[r]), NEW j \in 1 .. Len(J[s]),
               J[r][i] = J[s][j]
        PROVE  r = s /\ i = j
    <3>1. \A w \in MailPids : \A k \in 1 .. Len(J[w]) :
            (w = p /\ k = n + 1 /\ J[w][k] = e) \/ (k \in 1 .. Len(L[w]) /\ J[w][k] = L[w][k])
      <4> SUFFICES ASSUME NEW w \in MailPids, NEW k \in 1 .. Len(J[w])
                   PROVE  (w = p /\ k = n + 1 /\ J[w][k] = e) \/ (k \in 1 .. Len(L[w]) /\ J[w][k] = L[w][k])
        OBVIOUS
      <4>1. w = p => k \in 1 .. n + 1 /\ J[w][k] = G[k]
        BY <1>10, <1>12
      <4>2. w = p => k = n + 1 \/ k \in 1 .. n
        BY <4>1
      <4> QED BY <1>3, <1>10, <1>12, <4>1, <4>2
    <3>2. \A w \in MailPids : \A k \in 1 .. Len(L[w]) : L[w][k] # e
      BY <1>20
    <3>3. \A w, v \in MailPids : \A k \in 1 .. Len(L[w]), l \in 1 .. Len(L[v]) :
            L[w][k] = L[v][l] => w = v /\ k = l
      BY DEF HeapOK, Apart
    <3>4. (r = p /\ i = n + 1 /\ J[r][i] = e) \/ (i \in 1 .. Len(L[r]) /\ J[r][i] = L[r][i])
      BY <3>1
    <3>5. (s = p /\ j = n + 1 /\ J[s][j] = e) \/ (j \in 1 .. Len(L[s]) /\ J[s][j] = L[s][j])
      BY <3>1
    <3> QED BY <2>1, <3>2, <3>3, <3>4, <3>5
  <2>2. \A x : InList(J, x) => x = e \/ InList(L, x)
    BY <1>13
  <2> QED BY <1>5, <2>1, <2>2 DEF HeapOK, Apart
<1>28. Covered(h.allocated, J, F, X \ {e})
  BY <1>13 DEF HeapOK, Covered
<1>29. HeapOK(g, J, F, P, X \ {e})
  BY <1>1, <1>19, <1>24, <1>25, <1>26, <1>27, <1>28 DEF HeapOK
<1>30. \A r \in MailPids : q2[r].open = q[r].open
  BY <1>15, <1>16
<1>31. m2[e].message = letter /\ \A x \in Entries : x # e => m2[x].message = m[x].message
  <2>1. \A x \in Entries : x # e => m2[x].message = m[x].message
    <3> SUFFICES ASSUME NEW x \in Entries, x # e PROVE m2[x].message = m[x].message
      OBVIOUS
    <3>1. x = t => m2[x] = [m[x] EXCEPT !.next = e] /\ m[x] \in Cells
      BY <1>2, <1>9, MailNumbers
    <3>2. x # t => m2[x] = m[x]
      BY <1>9
    <3> QED BY <3>1, <3>2 DEF Cells
  <2> QED BY <1>7, <1>9, <2>1
<1>32. Linkd(h, L, F, P, X, p, e, letter, g)
  BY <1>2, <1>12, <1>19, <1>29, <1>30, <1>31 DEF Linkd
<1> QED BY <1>18, <1>32

TakenFrom(h, L, F, P, X, p, k, e, h2) ==
  /\ HeapOK(h2, [L EXCEPT ![p] = RemoveAt(@, k)], F, P, X \cup {e})
  /\ h2.allocated = h.allocated
  /\ \A r \in MailPids : h2.queue[r].open = h.queue[r].open
  /\ \A x \in Entries : h2.mem[x].message = h.mem[x].message
  /\ e \in Entries /\ e \notin X

LEMMA TakenOutKeeps ==
  ASSUME NEW h, NEW L, NEW F, NEW P, NEW X, HeapOK(h, L, F, P, X),
         NEW p \in P, NEW k \in 1 .. Len(L[p]), NEW e, e = L[p][k]
  PROVE  TakenFrom(h, L, F, P, X, p, k, e, TakenOut(h, p, e))
<1>1. /\ h \in MailHeaps /\ L \in [MailPids -> Seq(Entries)] /\ F \in Seq(Entries) /\ X \subseteq Entries
      /\ p \in MailPids /\ h.free = At(F, 1) /\ QueueOK(h.queue[p], L[p])
  BY DEF HeapOK
<1>2. PICK m, q : m = h.mem /\ q = h.queue /\ m \in [Entries -> Cells] /\ q \in [MailPids -> Queues]
  BY <1>1 DEF MailHeaps
<1>3. PICK c \in Seq(Entries), n \in Nat : c = L[p] /\ n = Len(c)
  BY <1>1
<1>4. k \in 1 .. n /\ e = c[k] /\ e \in Entries /\ \A i \in 1 .. n : c[i] \in Entries
  BY <1>1, <1>3
<1>5. \A i, j \in 1 .. n : c[i] = c[j] => i = j
  BY <1>1, <1>3 DEF HeapOK, Apart
<1>6. Linked(m, L)
  BY <1>2 DEF HeapOK
<1>7. PICK a, b : /\ a = m[e].next /\ b = m[e].prev
                  /\ a = At(c, k + 1) /\ b = At(c, k - 1)
  BY <1>1, <1>3, <1>4, <1>6 DEF Linked
<1>8. /\ a # NIL <=> k # n
      /\ a # NIL => a \in Entries /\ k + 1 \in 1 .. n /\ a = c[k + 1]
      /\ a \in Links
  <2>1. k + 1 \in 1 .. n <=> k # n
    BY <1>4
  <2> QED BY <1>3, <1>4, <1>7, <2>1, MailNumbers DEF At, Links
<1>9. /\ b # NIL <=> k # 1
      /\ b # NIL => b \in Entries /\ k - 1 \in 1 .. n /\ b = c[k - 1]
      /\ b \in Links
  <2>1. k - 1 \in 1 .. n <=> k # 1
    BY <1>4
  <2> QED BY <1>3, <1>4, <1>7, <2>1, MailNumbers DEF At, Links
<1>10. /\ a # NIL => a # b /\ a # e
       /\ b # NIL => a # b /\ b # e
  <2>1. k + 1 # k /\ k - 1 # k /\ k + 1 # k - 1
    BY <1>4
  <2> QED BY <1>4, <1>5, <1>8, <1>9, <2>1
<1>11. PICK m1 \in [Entries -> Cells] :
         /\ m1 = IF b # NIL THEN [m EXCEPT ![b].next = a] ELSE m
         /\ b # NIL => m1[b] = [m[b] EXCEPT !.next = a]
         /\ \A x \in Entries : x # b => m1[x] = m[x]
  <2>1. CASE b = NIL
    BY <1>2, <2>1
  <2>2. CASE b # NIL
    <3>1. PICK d \in Cells : d = [m[b] EXCEPT !.next = a]
      <4>1. m[b] \in Cells
        BY <1>2, <1>9, <2>2
      <4> QED BY <4>1, <1>8 DEF Cells
    <3>2. b \in Entries
      BY <1>9, <2>2
    <3>3. PICK m3 \in [Entries -> Cells] :
             /\ m3 = Put(m, b, d)
             /\ m3[b] = d /\ \A x \in Entries : x # b => m3[x] = m[x]
      BY <1>2, <3>2, CellWritten
    <3>4. [m EXCEPT ![b].next = a] = Put(m, b, d)
      BY <3>1 DEF Put
    <3>7. m3 = IF b # NIL THEN [m EXCEPT ![b].next = a] ELSE m
      BY <2>2, <3>3, <3>4
    <3> QED BY <3>1, <3>3, <3>7
  <2> QED BY <2>1, <2>2
<1>12. PICK m2 \in [Entries -> Cells] :
         /\ m2 = IF a # NIL THEN [m1 EXCEPT ![a].prev = b] ELSE m1
         /\ a # NIL => m2[a] = [m[a] EXCEPT !.prev = b]
         /\ b # NIL => m2[b] = [m[b] EXCEPT !.next = a]
         /\ \A x \in Entries : x # a /\ x # b => m2[x] = m[x]
  <2>1. CASE a = NIL
    BY <1>11, <2>1
  <2>2. CASE a # NIL
    <3>1. a \in Entries /\ m1[a] = m[a]
      BY <1>8, <1>10, <1>11, <2>2
    <3>2. PICK d \in Cells : d = [m[a] EXCEPT !.prev = b]
      <4>1. m[a] \in Cells
        BY <1>2, <3>1
      <4> QED BY <4>1, <1>9 DEF Cells
    <3>3. PICK m3 \in [Entries -> Cells] :
             /\ m3 = Put(m1, a, d)
             /\ m3[a] = d /\ \A x \in Entries : x # a => m3[x] = m1[x]
      BY <3>1, CellWritten
    <3>4. [m1 EXCEPT ![a].prev = b] = Put(m1, a, d)
      BY <3>1, <3>2 DEF Put
    <3>5. m3 = IF a # NIL THEN [m1 EXCEPT ![a].prev = b] ELSE m1
      BY <2>2, <3>3, <3>4
    <3>6. b # NIL => m3[b] = [m[b] EXCEPT !.next = a]
      BY <1>9, <1>10, <1>11, <3>3
    <3> QED BY <1>11, <3>2, <3>3, <3>5, <3>6
  <2> QED BY <2>1, <2>2
<1>13. PICK G \in Seq(Entries) :
         /\ G = RemoveAt(c, k) /\ Len(G) = n - 1
         /\ \A i \in 1 .. n - 1 : G[i] = IF i < k THEN c[i] ELSE c[i + 1]
  <2>1. /\ RemoveAt(c, k) \in Seq(Entries) /\ Len(RemoveAt(c, k)) = Len(c) - 1
        /\ \A i \in 1 .. Len(c) - 1 : RemoveAt(c, k)[i] = IF i < k THEN c[i] ELSE c[i + 1]
    BY <1>3, <1>4, RemovedIs
  <2> QED BY <1>3, <2>1
<1>14. \A i \in Int : At(G, i) = IF i < k THEN At(c, i) ELSE At(c, i + 1)
  BY <1>3, <1>4, <1>13, RemovedAt
<1>15. PICK J \in [MailPids -> Seq(Entries)] :
         /\ J = [L EXCEPT ![p] = RemoveAt(@, k)]
         /\ J[p] = G /\ \A r \in MailPids : r # p => J[r] = L[r]
  <2>1. [L EXCEPT ![p] = G] \in [MailPids -> Seq(Entries)]
    BY <1>1
  <2>2. [L EXCEPT ![p] = RemoveAt(@, k)] = [L EXCEPT ![p] = G]
    BY <1>3, <1>13
  <2> QED BY <1>1, <2>1, <2>2
(* Where an entry of the new lists stood: skip is its place in c.          *)
<1> DEFINE skip(r, i) == IF r = p /\ ~ (i < k) THEN i + 1 ELSE i
<1>16. ASSUME NEW r \in MailPids, NEW i \in 1 .. Len(J[r])
       PROVE  /\ skip(r, i) \in 1 .. Len(L[r]) /\ J[r][i] = L[r][skip(r, i)]
              /\ (r = p => skip(r, i) # k)
  <2>1. CASE r # p
    BY <1>15, <2>1
  <2>2. CASE r = p
    <3>1. i \in 1 .. n - 1 /\ J[r] = G /\ L[r] = c /\ Len(L[r]) = n
      BY <1>3, <1>13, <1>15, <2>2
    <3>2. G[i] = IF i < k THEN c[i] ELSE c[i + 1]
      BY <1>13, <3>1
    <3>3. /\ i < k => i \in 1 .. n /\ i # k
          /\ ~ (i < k) => i + 1 \in 1 .. n /\ i + 1 # k
      BY <1>4, <3>1
    <3> QED BY <2>2, <3>1, <3>2, <3>3
  <2> QED BY <2>1, <2>2
<1>17. \A w, v \in MailPids : \A i \in 1 .. Len(L[w]), l \in 1 .. Len(L[v]) :
          L[w][i] = L[v][l] => w = v /\ i = l
  BY DEF HeapOK, Apart
<1>18. \A x : InList(J, x) => InList(L, x) /\ x # e
  <2> SUFFICES ASSUME NEW r \in MailPids, NEW i \in 1 .. Len(J[r])
               PROVE  InList(L, J[r][i]) /\ J[r][i] # e
    BY DEF InList
  <2>1. PICK j \in 1 .. Len(L[r]) : J[r][i] = L[r][j] /\ (r = p => j # k)
    <3> HIDE DEF skip
    <3> QED BY <1>16
  <2>2. L[r][j] = L[p][k] => r = p /\ j = k
    BY <1>1, <1>17
  <2> QED BY <2>1, <2>2 DEF InList
<1>19. \A x : InList(L, x) => x = e \/ InList(J, x)
  <2> SUFFICES ASSUME NEW x, InList(L, x)
               PROVE  x = e \/ InList(J, x)
    OBVIOUS
  <2>3. PICK r \in MailPids : \E i \in 1 .. Len(L[r]) : L[r][i] = x
    BY DEF InList
  <2>4. PICK i \in 1 .. Len(L[r]) : L[r][i] = x
    BY <2>3
  <2>1. CASE r # p
    BY <1>15, <2>1, <2>4 DEF InList
  <2>2. CASE r = p
    <3>1. i \in 1 .. n /\ L[r][i] = c[i]
      BY <1>3, <2>2
    <3>2. CASE i = k
      BY <1>4, <2>4, <3>1, <3>2
    <3>3. CASE i < k
      <4>1. i \in 1 .. n - 1 /\ G[i] = c[i]
        BY <1>4, <1>13, <3>1, <3>3
      <4>2. i \in 1 .. Len(J[p]) /\ J[p][i] = c[i]
        BY <1>13, <1>15, <4>1
      <4> QED BY <1>1, <2>4, <3>1, <4>2 DEF InList
    <3>4. CASE k < i
      <4>1. PICK j \in 1 .. n - 1 : j = i - 1 /\ ~ (j < k) /\ j + 1 = i
        <5>1. i - 1 \in 1 .. n - 1 /\ ~ (i - 1 < k) /\ (i - 1) + 1 = i
          BY <1>4, <3>1, <3>4
        <5> QED BY <5>1
      <4>2. G[j] = c[i]
        BY <1>13, <4>1
      <4>3. j \in 1 .. Len(J[p]) /\ J[p][j] = c[i]
        BY <1>13, <1>15, <4>1, <4>2
      <4> QED BY <1>1, <2>4, <3>1, <4>3 DEF InList
    <3> QED BY <1>4, <3>1, <3>2, <3>3, <3>4
  <2> QED BY <2>1, <2>2
<1>20. InList(L, e)
  BY <1>1 DEF InList
<1>21. PICK u \in Nat : u = q[p].count - 1 /\ u = n - 1 /\ u <= MaxQueue /\ u + 1 = n
  <2>1. q[p].count = n /\ n <= MaxQueue
    BY <1>1, <1>2, <1>3 DEF QueueOK
  <2>2. n - 1 \in Nat /\ (n - 1) + 1 = n
    BY <1>4
  <2> QED BY <2>1, <2>2, MailNumbers
<1>22. q[p] \in Queues /\ q[p].head = At(c, 1) /\ q[p].tail = At(c, n) /\ q[p].open
  <2>1. n # 0 => c # <<>>
    BY <1>3
  <2> QED BY <1>1, <1>2, <1>3, <1>4, <2>1 DEF QueueOK
<1>23. At(G, 1) = IF b # NIL THEN q[p].head ELSE a
  <2>1. 1 \in Int /\ 2 \in Int /\ 1 + 1 = 2 /\ (1 < k <=> k # 1)
    BY <1>4
  <2>2. k = 1 => a = At(c, 2)
    BY <1>7, <2>1
  <2>3. At(G, 1) = IF 1 < k THEN At(c, 1) ELSE At(c, 2)
    BY <1>14, <2>1
  <2> QED BY <1>9, <1>22, <2>1, <2>2, <2>3
<1>24. At(G, u) = IF a # NIL THEN q[p].tail ELSE b
  <2>1. u \in Int /\ u + 1 = n /\ (u < k <=> k = n) /\ (k = n => u = k - 1)
    <3>1. n \in Nat /\ k \in Int /\ k <= n
      BY <1>4
    <3>2. u + 1 = n
      BY <1>21
    <3> QED BY <3>1, <3>2
  <2>2. At(G, u) = IF u < k THEN At(c, u) ELSE At(c, n)
    BY <1>14, <2>1
  <2> QED BY <1>7, <1>8, <1>22, <2>1, <2>2
<1>25. PICK rec \in Queues :
         /\ rec.head = At(G, 1) /\ rec.tail = At(G, u) /\ rec.count = u /\ rec.open = q[p].open
         /\ rec = [head |-> IF b # NIL THEN q[p].head ELSE a, tail |-> IF a # NIL THEN q[p].tail ELSE b,
                   count |-> u, open |-> q[p].open]
  <2>1. At(G, 1) \in Links /\ At(G, u) \in Links /\ q[p].open \in BOOLEAN
    BY <1>13, <1>22 DEF Queues, Links, At
  <2>2. PICK hd \in Links, tl \in Links :
          /\ hd = At(G, 1) /\ hd = IF b # NIL THEN q[p].head ELSE a
          /\ tl = At(G, u) /\ tl = IF a # NIL THEN q[p].tail ELSE b
    BY <1>23, <1>24, <2>1
  <2>3. [head |-> hd, tail |-> tl, count |-> u, open |-> q[p].open] \in Queues
    BY <2>1 DEF Queues
  <2> QED BY <2>2, <2>3
<1>26. PICK q2 \in [MailPids -> Queues] :
         /\ q2 = [q EXCEPT ![p] = rec]
         /\ q2[p] = rec /\ \A r \in MailPids : r # p => q2[r] = q[r]
  <2>1. [q EXCEPT ![p] = rec] \in [MailPids -> Queues]
    BY <1>2
  <2> QED BY <1>1, <1>2, <2>1
<1>27. PICK g : g = [h EXCEPT !.mem = m2, !.queue = q2]
  OBVIOUS
<1>28. TakenOut(h, p, e) = g
  <2>1. h.mem = m /\ h.queue = q /\ h.mem[e].prev = b /\ h.mem[e].next = a /\ h.queue[p] = q[p]
    BY <1>2, <1>7
  <2>2. PICK v : v = IF h.mem[e].prev # NIL THEN [h.mem EXCEPT ![h.mem[e].prev].next = h.mem[e].next] ELSE h.mem
    OBVIOUS
  <2>3. PICK A : A = IF h.mem[e].next # NIL THEN [v EXCEPT ![h.mem[e].next].prev = h.mem[e].prev] ELSE v
    OBVIOUS
  <2>4. PICK B : B = [h.queue[p] EXCEPT !.head = IF h.mem[e].prev # NIL THEN @ ELSE h.mem[e].next,
                                        !.tail = IF h.mem[e].next # NIL THEN @ ELSE h.mem[e].prev,
                                        !.count = @ - 1]
    OBVIOUS
  <2>5. TakenOut(h, p, e) = [h EXCEPT !.mem = A, !.queue[p] = B]
    <3>1. TakenOut(h, p, e) =
            PutBoth(h, p,
               IF h.mem[e].next # NIL
                       THEN [IF h.mem[e].prev # NIL THEN [h.mem EXCEPT ![h.mem[e].prev].next = h.mem[e].next] ELSE h.mem
                               EXCEPT ![h.mem[e].next].prev = h.mem[e].prev]
                       ELSE IF h.mem[e].prev # NIL THEN [h.mem EXCEPT ![h.mem[e].prev].next = h.mem[e].next] ELSE h.mem,
               [h.queue[p] EXCEPT !.head = IF h.mem[e].prev # NIL THEN @ ELSE h.mem[e].next,
                                               !.tail = IF h.mem[e].next # NIL THEN @ ELSE h.mem[e].prev,
                                               !.count = @ - 1])
      BY DEF TakenOut, PutBoth
    <3>2. A = IF h.mem[e].next # NIL
              THEN [IF h.mem[e].prev # NIL THEN [h.mem EXCEPT ![h.mem[e].prev].next = h.mem[e].next] ELSE h.mem
                      EXCEPT ![h.mem[e].next].prev = h.mem[e].prev]
              ELSE IF h.mem[e].prev # NIL THEN [h.mem EXCEPT ![h.mem[e].prev].next = h.mem[e].next] ELSE h.mem
      BY <2>2, <2>3
    <3>3. TakenOut(h, p, e) = PutBoth(h, p, A, B)
      BY <2>4, <3>1, <3>2
    <3> QED BY <3>3 DEF PutBoth
  <2>6. v = m1
    BY <1>11, <2>1, <2>2
  <2>7. A = m2
    BY <1>12, <2>1, <2>3, <2>6
  <2>8. rec = B
    <3>1. B = [q[p] EXCEPT !.head = IF b # NIL THEN @ ELSE a, !.tail = IF a # NIL THEN @ ELSE b, !.count = @ - 1]
      BY <2>1, <2>4
    <3> QED BY <1>21, <1>22, <1>25, <3>1 DEF Queues
  <2>9. TakenOut(h, p, e) = [h EXCEPT !.mem = m2, !.queue[p] = rec]
    BY <2>5, <2>7, <2>8
  <2>10. [h EXCEPT !.mem = m2, !.queue[p] = rec] = [h EXCEPT !.mem = m2, !.queue = q2]
    BY <1>1, <1>2, <1>26 DEF MailHeaps
  <2> QED BY <1>27, <2>9, <2>10
<1>29. /\ g \in MailHeaps /\ g.queue = q2 /\ g.mem = m2 /\ g.free = h.free
       /\ g.allocated = h.allocated
  BY <1>1, <1>27 DEF MailHeaps
<1>30. ASSUME NEW x \in Entries
       PROVE  /\ m2[x].message = m[x].message
              /\ m2[x].next = IF x = b THEN a ELSE m[x].next
              /\ m2[x].prev = IF x = a THEN b ELSE m[x].prev
  <2>1. PICK d \in Cells : d = m[x]
    BY <1>2
  <2>2. x = a => m2[x] = [d EXCEPT !.prev = b] /\ x # b
    BY <1>8, <1>10, <1>12, <2>1, MailNumbers
  <2>3. x = b => m2[x] = [d EXCEPT !.next = a] /\ x # a
    BY <1>9, <1>10, <1>12, <2>1, MailNumbers
  <2>4. x # a /\ x # b => m2[x] = d
    BY <1>12, <2>1
  <2> QED BY <2>1, <2>2, <2>3, <2>4 DEF Cells
<1>31. \A r \in MailPids : \A i \in 1 .. Len(L[r]) : L[r][i] \in Entries
  BY <1>1
<1>32. ASSUME NEW r \in MailPids, r # p, NEW i \in 1 .. Len(J[r])
       PROVE  m2[J[r][i]].next = At(J[r], i + 1) /\ m2[J[r][i]].prev = At(J[r], i - 1)
  <2>1. J[r] = L[r] /\ i \in 1 .. Len(L[r])
    BY <1>15, <1>32
  <2>2. PICK x \in Entries : x = L[r][i] /\ x = J[r][i]
    BY <1>31, <2>1
  <2>3. x # a
    <3>1. x = a => k + 1 \in 1 .. Len(L[p]) /\ a = L[p][k + 1]
      BY <1>3, <1>8, MailNumbers
    <3> QED BY <1>1, <1>17, <1>32, <2>1, <2>2, <3>1
  <2>4. x # b
    <3>1. x = b => k - 1 \in 1 .. Len(L[p]) /\ b = L[p][k - 1]
      BY <1>3, <1>9, MailNumbers
    <3> QED BY <1>1, <1>17, <1>32, <2>1, <2>2, <3>1
  <2>5. m[x].next = At(L[r], i + 1) /\ m[x].prev = At(L[r], i - 1)
    BY <1>6, <2>1, <2>2 DEF Linked
  <2> QED BY <1>30, <2>1, <2>2, <2>3, <2>4, <2>5
<1>33. ASSUME NEW i \in 1 .. n - 1
       PROVE  m2[G[i]].next = At(G, i + 1) /\ m2[G[i]].prev = At(G, i - 1)
  <2>1. PICK j \in 1 .. n : j = (IF i < k THEN i ELSE i + 1) /\ j # k
    <3>1. (IF i < k THEN i ELSE i + 1) \in 1 .. n /\ (IF i < k THEN i ELSE i + 1) # k
      BY <1>4
    <3> QED BY <3>1
  <2>2. PICK x \in Entries : x = c[j] /\ x = G[i]
    BY <1>4, <1>13, <2>1
  <2>3. m[x].next = At(c, j + 1) /\ m[x].prev = At(c, j - 1)
    BY <1>1, <1>3, <1>6, <2>2 DEF Linked
  <2>4. x = a <=> j = k + 1
    <3>1. x = a => k + 1 \in 1 .. n /\ a = c[k + 1]
      BY <1>8, MailNumbers
    <3>2. j = k + 1 => a = c[j]
      <4>1. j = k + 1 => k # n
        BY <1>4
      <4> QED BY <1>8, <4>1
    <3> QED BY <1>5, <2>2, <3>1, <3>2
  <2>5. x = b <=> j = k - 1
    <3>1. x = b => k - 1 \in 1 .. n /\ b = c[k - 1]
      BY <1>9, MailNumbers
    <3>2. j = k - 1 => b = c[j]
      <4>1. j = k - 1 => k # 1
        BY <1>4
      <4> QED BY <1>9, <4>1
    <3> QED BY <1>5, <2>2, <3>1, <3>2
  <2>6. /\ i + 1 \in Int /\ i - 1 \in Int
        /\ i + 1 < k => j + 1 = i + 1 /\ j # k - 1
        /\ ~ (i + 1 < k) /\ i < k => j = k - 1 /\ (i + 1) + 1 = k + 1
        /\ ~ (i < k) => ~ (i + 1 < k) /\ j # k - 1 /\ j + 1 = (i + 1) + 1
    BY <1>4, <2>1
  <2>7. At(G, i + 1) = IF j = k - 1 THEN At(c, k + 1) ELSE At(c, j + 1)
    <3>1. At(G, i + 1) = IF i + 1 < k THEN At(c, i + 1) ELSE At(c, (i + 1) + 1)
      BY <1>14, <2>6
    <3> QED BY <2>6, <3>1
  <2>8. /\ i - 1 < k /\ i < k => j - 1 = i - 1 /\ j # k + 1 /\ i - 1 < k
        /\ ~ (i < k) /\ i - 1 < k => j = k + 1 /\ i - 1 = k - 1
        /\ ~ (i - 1 < k) => ~ (i < k) /\ j # k + 1 /\ (i - 1) + 1 = j - 1
        /\ i < k => i - 1 < k
    BY <1>4, <2>1
  <2>9. At(G, i - 1) = IF j = k + 1 THEN At(c, k - 1) ELSE At(c, j - 1)
    <3>1. At(G, i - 1) = IF i - 1 < k THEN At(c, i - 1) ELSE At(c, (i - 1) + 1)
      BY <1>14, <2>6
    <3> QED BY <2>8, <3>1
  <2> QED BY <1>7, <1>30, <2>2, <2>3, <2>4, <2>5, <2>7, <2>9
<1>34. Linked(m2, J)
  <2>1. \A i \in 1 .. Len(J[p]) : m2[J[p][i]].next = At(J[p], i + 1) /\ m2[J[p][i]].prev = At(J[p], i - 1)
    BY <1>13, <1>15, <1>33
  <2> QED BY <1>32, <2>1 DEF Linked
<1>35. FreeLinked(m2, F)
  <2>1. FreeLinked(m, F)
    BY <1>2 DEF HeapOK
  <2>2. b # NIL => InList(L, b)
    BY <1>1, <1>3, <1>9 DEF InList
  <2>3. \A i \in 1 .. Len(F) : F[i] \in Entries /\ F[i] # b
    <3> SUFFICES ASSUME NEW i \in 1 .. Len(F) PROVE F[i] \in Entries /\ F[i] # b
      OBVIOUS
    <3>1. F[i] \in Entries /\ InFree(F, F[i])
      BY <1>1 DEF InFree
    <3>2. ~ InList(L, F[i])
      BY <3>1 DEF HeapOK, Apart
    <3> QED BY <2>2, <3>1, <3>2, MailNumbers
  <2> QED BY <1>30, <2>1, <2>3 DEF FreeLinked
<1>36. \A r \in P : QueueOK(q2[r], J[r])
  <2>1. QueueOK(q2[p], J[p])
    <3>1. Len(G) = u
      BY <1>13, <1>21
    <3> QED BY <1>15, <1>21, <1>22, <1>25, <1>26, <3>1 DEF QueueOK
  <2>2. \A r \in P : r \in MailPids /\ QueueOK(q[r], L[r])
    BY <1>2 DEF HeapOK
  <2> QED BY <1>15, <1>26, <2>1, <2>2
<1>37. Apart(J, F, X \cup {e})
  <2>1. ASSUME NEW r \in MailPids, NEW s \in MailPids, NEW i \in 1 .. Len(J[r]), NEW j \in 1 .. Len(J[s]),
               J[r][i] = J[s][j]
        PROVE  r = s /\ i = j
    <3>1. /\ skip(r, i) \in 1 .. Len(L[r]) /\ J[r][i] = L[r][skip(r, i)]
          /\ skip(s, j) \in 1 .. Len(L[s]) /\ J[s][j] = L[s][skip(s, j)]
      BY <1>16
    <3>2. r = s /\ skip(r, i) = skip(s, j)
      <4>1. PICK x, y : x = skip(r, i) /\ y = skip(s, j)
        OBVIOUS
      <4>2. x \in 1 .. Len(L[r]) /\ y \in 1 .. Len(L[s]) /\ L[r][x] = L[s][y]
        <5> HIDE DEF skip
        <5> QED BY <2>1, <3>1, <4>1
      <4>3. r = s /\ x = y
        BY <1>17, <4>2
      <4> HIDE DEF skip
      <4> QED BY <4>1, <4>3
    <3>3. i \in Int /\ j \in Int /\ k \in Int
      OBVIOUS
    <3> QED BY <3>2, <3>3
  <2>2. ~ InFree(F, e) /\ \A x \in X : ~ InList(L, x) /\ ~ InFree(F, x)
    BY <1>4, <1>20 DEF HeapOK, Apart
  <2>3. \A i, j \in 1 .. Len(F) : F[i] = F[j] => i = j
    BY DEF HeapOK, Apart
  <2>4. \A x \in Entries : ~ (InList(L, x) /\ InFree(F, x))
    BY DEF HeapOK, Apart
  <2> HIDE DEF skip
  <2> QED BY <1>18, <2>1, <2>2, <2>3, <2>4 DEF Apart
<1>38. Covered(h.allocated, J, F, X \cup {e})
  BY <1>18, <1>19, <1>20 DEF HeapOK, Covered
<1>39. HeapOK(g, J, F, P, X \cup {e})
  <2> HIDE DEF skip
  <2> QED BY <1>1, <1>4, <1>29, <1>34, <1>35, <1>36, <1>37, <1>38 DEF HeapOK
<1>40. \A r \in MailPids : q2[r].open = q[r].open
  BY <1>25, <1>26
<1>41. e \notin X
  BY <1>4, <1>20 DEF HeapOK, Apart
<1>42. TakenFrom(h, L, F, P, X, p, k, e, g)
  <2> HIDE DEF skip
  <2> QED BY <1>2, <1>4, <1>15, <1>29, <1>30, <1>39, <1>40, <1>41 DEF TakenFrom
<1> HIDE DEF skip
<1> QED BY <1>28, <1>42

(* Different entries: no list is longer than the heap.                     *)
LEMMA InjectiveIsShort ==
  ASSUME NEW c \in Seq(Entries), \A i, j \in 1 .. Len(c) : c[i] = c[j] => i = j
  PROVE  Len(c) <= MaxEntries
<1>4. PICK n \in Nat : n = Len(c)
  OBVIOUS
<1>1. PICK f \in [1 .. n -> 1 .. MaxEntries] : n = Len(c) /\ f = c
  <2>2. c \in [1 .. n -> Entries]
    BY <1>4
  <2>1. c \in [1 .. n -> 1 .. MaxEntries]
    BY <2>2 DEF Entries
  <2> QED BY <1>4, <2>1
<1>2. /\ IsFiniteSet(1 .. n) /\ Cardinality(1 .. n) = n
      /\ IsFiniteSet(1 .. MaxEntries) /\ Cardinality(1 .. MaxEntries) = MaxEntries
  <2>1. \A m \in Nat : IsFiniteSet(1 .. m) /\ Cardinality(1 .. m) = IF 1 > m THEN 0 ELSE m - 1 + 1
    BY FS_Interval
  <2>2. \A m \in Nat : (IF 1 > m THEN 0 ELSE m - 1 + 1) = m
    OBVIOUS
  <2> QED BY <2>1, <2>2, MailNumbers
<1>3. ASSUME ~ (n <= MaxEntries) PROVE FALSE
  <2>1. Cardinality(1 .. MaxEntries) < Cardinality(1 .. n)
    BY <1>2, <1>3, MailNumbers
  <2>2. \E x, y \in 1 .. n : x # y /\ f[x] = f[y]
    BY <1>2, <2>1, FS_PigeonHole
  <2> QED BY <1>1, <2>2
<1> QED BY <1>1, <1>3

LEMMA ListIs ==
  ASSUME NEW h, NEW L, NEW F, NEW P, NEW X, HeapOK(h, L, F, P, X), NEW p \in P
  PROVE  Chain(h.mem, h.queue[p].head) = L[p]
<1>1. PICK c \in Seq(Entries) : c = L[p] /\ h.queue[p].head = At(c, 1) /\ p \in MailPids
  BY DEF HeapOK, QueueOK
<1>2. Len(c) <= MaxEntries
  <2>1. \A i, j \in 1 .. Len(c) : c[i] = c[j] => i = j
    BY <1>1 DEF HeapOK, Apart
  <2> QED BY <2>1, InjectiveIsShort
<1>3. \A i \in 1 .. Len(c) : h.mem[c[i]].next = At(c, i + 1)
  BY <1>1 DEF HeapOK, Linked
<1> QED BY <1>1, <1>2, <1>3, ChainIs

LEMMA FreeListIs ==
  ASSUME NEW h, NEW L, NEW F, NEW P, NEW X, HeapOK(h, L, F, P, X)
  PROVE  Chain(h.mem, h.free) = F
<1>1. F \in Seq(Entries) /\ h.free = At(F, 1)
  BY DEF HeapOK
<1>2. Len(F) <= MaxEntries
  <2>1. \A i, j \in 1 .. Len(F) : F[i] = F[j] => i = j
    BY DEF HeapOK, Apart
  <2> QED BY <1>1, <2>1, InjectiveIsShort
<1>3. \A i \in 1 .. Len(F) : h.mem[F[i]].next = At(F, i + 1)
  BY DEF HeapOK, FreeLinked
<1> QED BY <1>1, <1>2, <1>3, ChainIs

Freeing(h, c, n, g) ==
  g = [i \in 0 .. n |-> IF i = 0 THEN h ELSE queue_free_entry(g[i - 1], c[i])]

LEMMA FreeingExists ==
  ASSUME NEW h, NEW c, NEW J \in Nat
  PROVE  \E g : Freeing(h, c, J, g)
<1> DEFINE B == {n \in 0 .. J : \E g : Freeing(h, c, n, g)}
<1>1. 0 \in B
  <2> DEFINE g == [i \in 0 .. 0 |-> h]
  <2>1. Freeing(h, c, 0, g)
    BY DEF Freeing
  <2> QED BY <2>1
<1>2. ASSUME NEW k \in 1 .. J, k - 1 \in B PROVE k \in B
  <2>1. PICK g : Freeing(h, c, k - 1, g)
    BY <1>2
  <2> DEFINE f == [i \in 0 .. k |-> IF i = 0 THEN h ELSE queue_free_entry(g[i - 1], c[i])]
  <2>2. ASSUME NEW i \in 0 .. k - 1 PROVE f[i] = g[i]
    <3>1. g[i] = IF i = 0 THEN h ELSE queue_free_entry(g[i - 1], c[i])
      BY <2>1 DEF Freeing
    <3> QED BY <3>1
  <2>3. \A i \in 0 .. k : i # 0 => f[i - 1] = g[i - 1]
    <3> HIDE DEF f
    <3> QED BY <2>2
  <2>4. Freeing(h, c, k, f)
    BY <2>3 DEF Freeing
  <2>5. k \in 0 .. J
    OBVIOUS
  <2> QED BY <2>4, <2>5
<1>3. \A n \in 0 .. J : n \in B
  <2> HIDE DEF B
  <2> QED BY <1>1, <1>2, LoopInduction
<1> QED BY <1>3

LEMMA FlushIs ==
  ASSUME NEW h, NEW p, NEW c, c = Chain(h.mem, h.queue[p].head), Len(c) \in Nat
  PROVE  \E g : Freeing(h, c, Len(c), g) /\ Flush(h, p) = g[Len(c)]
<1> DEFINE w == CHOOSE freed : Freeing(h, c, Len(c), freed)
<1>1. Freeing(h, c, Len(c), w)
  BY FreeingExists
<1>2. Flush(h, p) = w[Len(c)]
  BY DEF Flush, Freeing
<1> QED BY <1>1, <1>2

Flushed(h, L, p, f) ==
  \E F2 : /\ HeapOK(f, [L EXCEPT ![p] = <<>>], F2, MailPids \ {p}, {})
          /\ f.queue = h.queue /\ f.allocated = h.allocated
          /\ \A x \in Entries : (\A i \in 1 .. Len(L[p]) : L[p][i] # x)
               => f.mem[x].message = h.mem[x].message

LEMMA FlushKeeps ==
  ASSUME NEW h, NEW L, NEW F, HeapOK(h, L, F, MailPids, {}), NEW p \in MailPids
  PROVE  Flushed(h, L, p, Flush(h, p))
<1>1. /\ h \in MailHeaps /\ L \in [MailPids -> Seq(Entries)] /\ F \in Seq(Entries)
  BY DEF HeapOK
<1>2. PICK c \in Seq(Entries), n \in Nat : c = L[p] /\ n = Len(c) /\ c = Chain(h.mem, h.queue[p].head)
  BY <1>1, ListIs
<1>3. PICK g : Freeing(h, c, n, g) /\ Flush(h, p) = g[n]
  BY <1>2, FlushIs
<1>4. g[0] = h /\ \A i \in 1 .. n : g[i] = queue_free_entry(g[i - 1], c[i])
  <2>1. g = [i \in 0 .. n |-> IF i = 0 THEN h ELSE queue_free_entry(g[i - 1], c[i])]
    BY <1>2, <1>3 DEF Freeing
  <2> QED BY <2>1
<1>5. PICK J \in [MailPids -> Seq(Entries)] :
         /\ J = [L EXCEPT ![p] = <<>>]
         /\ J[p] = <<>> /\ \A r \in MailPids : r # p => J[r] = L[r]
  <2>1. [L EXCEPT ![p] = <<>>] \in [MailPids -> Seq(Entries)]
    BY <1>1
  <2> QED BY <1>1, <2>1
<1>6. /\ \A i \in 1 .. n : c[i] \in Entries
      /\ \A i, j \in 1 .. n : c[i] = c[j] => i = j
  <2>1. \A i, j \in 1 .. Len(L[p]) : L[p][i] = L[p][j] => i = j
    BY DEF HeapOK, Apart
  <2> QED BY <1>2, <2>1
<1> DEFINE Onward(i) == {c[j] : j \in i + 1 .. n}
           Quiet(i) == /\ g[i].queue = h.queue /\ g[i].allocated = h.allocated
                       /\ \A x \in Entries : (\A j \in 1 .. n : c[j] # x) => g[i].mem[x].message = h.mem[x].message
           B == {i \in 0 .. n : Quiet(i) /\ \E F2 : HeapOK(g[i], J, F2, MailPids \ {p}, Onward(i))}
<1>7. \A x : InList(L, x) <=> InList(J, x) \/ x \in Onward(0)
  <2>1. \A j \in 1 .. n : c[j] = L[p][j] /\ j \in 1 .. Len(L[p])
    BY <1>2
  <2>2. ASSUME NEW x, InList(L, x) PROVE InList(J, x) \/ x \in Onward(0)
    <3>1. PICK r \in MailPids : \E i \in 1 .. Len(L[r]) : L[r][i] = x
      BY <2>2 DEF InList
    <3>2. PICK i \in 1 .. Len(L[r]) : L[r][i] = x
      BY <3>1
    <3>3. ASSUME r = p PROVE i \in 0 + 1 .. n /\ c[i] = x
      <4>1. i \in 1 .. Len(c) /\ c[i] = x
        BY <1>2, <3>2, <3>3
      <4> QED BY <1>2, <4>1
    <3> QED BY <1>5, <3>2, <3>3 DEF InList
  <2>3. ASSUME NEW x, x \in Onward(0) PROVE InList(L, x)
    <3>1. PICK j \in 0 + 1 .. n : x = c[j]
      BY <2>3
    <3> QED BY <2>1, <3>1 DEF InList
  <2>4. ASSUME NEW x, InList(J, x) PROVE InList(L, x)
    <3>1. PICK r \in MailPids : \E i \in 1 .. Len(J[r]) : J[r][i] = x
      BY <2>4 DEF InList
    <3>2. r # p
      BY <1>5, <3>1
    <3> QED BY <1>5, <3>1, <3>2 DEF InList
  <2> QED BY <2>2, <2>3, <2>4
<1>8. \A x \in Onward(0) : ~ InList(J, x)
  <2> SUFFICES ASSUME NEW j \in 1 .. n, InList(J, c[j]) PROVE FALSE
    OBVIOUS
  <2>1. PICK r \in MailPids : \E i \in 1 .. Len(J[r]) : J[r][i] = c[j]
    BY DEF InList
  <2>2. r # p /\ J[r] = L[r]
    BY <1>5, <2>1
  <2>3. PICK i \in 1 .. Len(L[r]) : L[r][i] = L[p][j]
    BY <1>2, <2>1, <2>2
  <2>4. j \in 1 .. Len(L[p])
    BY <1>2
  <2> QED BY <2>2, <2>3, <2>4 DEF HeapOK, Apart
<1>9. HeapOK(h, J, F, MailPids \ {p}, Onward(0))
  <2>1. Linked(h.mem, J)
    <3>1. Linked(h.mem, L)
      BY DEF HeapOK
    <3>2. Len(J[p]) = 0
      BY <1>5
    <3> QED BY <1>5, <3>1, <3>2 DEF Linked
  <2>2. \A r \in MailPids \ {p} : QueueOK(h.queue[r], J[r])
    BY <1>5 DEF HeapOK
  <2>3. Apart(J, F, Onward(0))
    <3>1. \A w, v \in MailPids : \A i \in 1 .. Len(J[w]), l \in 1 .. Len(J[v]) :
            J[w][i] = J[v][l] => w = v /\ i = l
      <4> SUFFICES ASSUME NEW w \in MailPids, NEW v \in MailPids, NEW i \in 1 .. Len(J[w]), NEW l \in 1 .. Len(J[v]),
                          J[w][i] = J[v][l]
                   PROVE  w = v /\ i = l
        OBVIOUS
      <4>1. w # p /\ v # p
        BY <1>5
      <4>2. J[w] = L[w] /\ J[v] = L[v]
        BY <1>5, <4>1
      <4> QED BY <4>2 DEF HeapOK, Apart
    <3>2. \A i, j \in 1 .. Len(F) : F[i] = F[j] => i = j
      BY DEF HeapOK, Apart
    <3>3. \A x \in Entries : ~ (InList(L, x) /\ InFree(F, x))
      BY DEF HeapOK, Apart
    <3>4. Onward(0) \subseteq Entries
      BY <1>6
    <3> HIDE DEF Onward
    <3> QED BY <1>7, <1>8, <3>1, <3>2, <3>3, <3>4 DEF Apart
  <2>4. Covered(h.allocated, J, F, Onward(0))
    <3> HIDE DEF Onward
    <3> QED BY <1>7 DEF HeapOK, Covered
  <2>5. Onward(0) \subseteq Entries
    BY <1>6
  <2> HIDE DEF Onward
  <2> QED BY <1>1, <2>1, <2>2, <2>3, <2>4, <2>5 DEF HeapOK
<1>10. 0 \in B
  <2>1. Quiet(0)
    BY <1>4
  <2>2. HeapOK(g[0], J, F, MailPids \ {p}, Onward(0))
    BY <1>4, <1>9
  <2> HIDE DEF Quiet, Onward
  <2> QED BY <2>1, <2>2
<1>11. ASSUME NEW i \in 1 .. n, i - 1 \in B PROVE i \in B
  <2>1. PICK F2 : HeapOK(g[i - 1], J, F2, MailPids \ {p}, Onward(i - 1))
    BY <1>11
  <2>2. Quiet(i - 1)
    BY <1>11
  <2>3. c[i] \in Onward(i - 1) /\ Onward(i - 1) \ {c[i]} = Onward(i) /\ c[i] \in Entries
    <3>1. i \in (i - 1) + 1 .. n
      OBVIOUS
    <3>2. \A j \in (i - 1) + 1 .. n : j = i \/ j \in i + 1 .. n
      OBVIOUS
    <3>3. \A j \in i + 1 .. n : j \in (i - 1) + 1 .. n /\ c[j] # c[i]
      BY <1>6
    <3> QED BY <1>6, <3>1, <3>2, <3>3
  <2>4. PICK f : f = queue_free_entry(g[i - 1], c[i]) /\ f = g[i]
    BY <1>4
  <2>5. /\ HeapOK(f, J, <<c[i]>> \o F2, MailPids \ {p}, Onward(i - 1) \ {c[i]})
        /\ f.queue = g[i - 1].queue
        /\ f.allocated = g[i - 1].allocated
        /\ \A x \in Entries : x # c[i] => f.mem[x].message = g[i - 1].mem[x].message
    <3>1. PICK q, e, P, X : q = g[i - 1] /\ e = c[i] /\ P = MailPids \ {p} /\ X = Onward(i - 1)
      OBVIOUS
    <3> HIDE DEF Onward
    <3>2. HeapOK(q, J, F2, P, X) /\ e \in X /\ f = queue_free_entry(q, e)
      BY <2>1, <2>3, <2>4, <3>1
    <3>3. /\ HeapOK(f, J, <<e>> \o F2, P, X \ {e}) /\ f.queue = q.queue /\ f.allocated = q.allocated
          /\ \A x \in Entries : x # e => f.mem[x].message = q.mem[x].message
      <4>1. Freed(q, J, F2, P, X, e, queue_free_entry(q, e))
        BY <3>2, FreeEntryKeeps
      <4>2. Freed(q, J, F2, P, X, e, f)
        BY <3>2, <4>1
      <4> QED BY <4>2 DEF Freed
    <3> QED BY <3>1, <3>3
  <2>6. HeapOK(g[i], J, <<c[i]>> \o F2, MailPids \ {p}, Onward(i))
    BY <2>3, <2>4, <2>5
  <2>7. Quiet(i)
    BY <2>2, <2>4, <2>5
  <2> HIDE DEF Quiet, Onward
  <2> QED BY <2>6, <2>7
<1>12. n \in B
  <2>1. n \in 0 .. n
    OBVIOUS
  <2> HIDE DEF B
  <2> QED BY <1>10, <1>11, <2>1, LoopInduction
<1>13. Onward(n) = {}
  OBVIOUS
<1>14. PICK F2 : HeapOK(g[n], J, F2, MailPids \ {p}, {})
  <2>1. PICK F3 : HeapOK(g[n], J, F3, MailPids \ {p}, Onward(n))
    BY <1>12
  <2> QED BY <1>13, <2>1
<1>15. Quiet(n)
  BY <1>12
<1>16. PICK f : f = Flush(h, p)
  OBVIOUS
<1>17. \A x \in Entries : (\A i \in 1 .. Len(L[p]) : L[p][i] # x) => f.mem[x].message = h.mem[x].message
  BY <1>2, <1>3, <1>15, <1>16
<1>18. HeapOK(f, [L EXCEPT ![p] = <<>>], F2, MailPids \ {p}, {}) /\ f.queue = h.queue /\ f.allocated = h.allocated
  BY <1>3, <1>5, <1>14, <1>15, <1>16
<1>19. Flushed(h, L, p, f)
  BY <1>17, <1>18 DEF Flushed
<1> QED BY <1>16, <1>19

CleanedUp(h, L, p, h2) ==
  \E F2 :
    /\ HeapOK(h2, [L EXCEPT ![p] = <<>>], F2, MailPids, {})
    /\ h2.allocated = h.allocated
    /\ ~ h2.queue[p].open
    /\ \A r \in MailPids : r # p => h2.queue[r].open = h.queue[r].open
    /\ \A x \in Entries : (\A i \in 1 .. Len(L[p]) : L[p][i] # x)
         => h2.mem[x].message = h.mem[x].message

LEMMA CleanupKeeps ==
  ASSUME NEW h, NEW L, NEW F, HeapOK(h, L, F, MailPids, {}), NEW p \in MailPids
  PROVE  CleanedUp(h, L, p, ipc_process_cleanup(h, p))
<1>1. /\ h \in MailHeaps /\ L \in [MailPids -> Seq(Entries)] /\ QueueOK(h.queue[p], L[p])
  BY DEF HeapOK
<1>2. PICK h2 : h2 = ipc_process_cleanup(h, p)
  OBVIOUS
<1>3. CASE ~ h.queue[p].open
  <2>1. h2 = h /\ L[p] = <<>>
    BY <1>1, <1>2, <1>3 DEF ipc_process_cleanup, QueueOK
  <2>2. [L EXCEPT ![p] = <<>>] = L
    BY <1>1, <2>1
  <2>3. CleanedUp(h, L, p, h)
    BY <1>3, <2>2 DEF CleanedUp
  <2> QED BY <1>2, <2>1, <2>3
<1>4. CASE h.queue[p].open
  <2>1. PICK J, f : J = [L EXCEPT ![p] = <<>>] /\ f = Flush(h, p)
    OBVIOUS
  <2>2. PICK F2 :
           /\ HeapOK(f, J, F2, MailPids \ {p}, {})
           /\ f.queue = h.queue /\ f.allocated = h.allocated
           /\ \A x \in Entries : (\A i \in 1 .. Len(L[p]) : L[p][i] # x)
                => f.mem[x].message = h.mem[x].message
    <3>1. Flushed(h, L, p, f)
      BY <2>1, FlushKeeps
    <3> QED BY <2>1, <3>1 DEF Flushed
  <2>3. PICK rec \in Queues : rec = EmptyQueue(FALSE)
    <3>1. EmptyQueue(FALSE) \in Queues
      BY MailNumbers DEF EmptyQueue, Queues, Links
    <3> QED BY <3>1
  <2>4. f \in MailHeaps
    BY <2>2 DEF HeapOK
  <2>5. PICK q2 \in [MailPids -> Queues] :
           q2 = [f.queue EXCEPT ![p] = rec] /\ q2[p] = rec /\ \A r \in MailPids : r # p => q2[r] = h.queue[r]
    <3>1. PICK q \in [MailPids -> Queues] : q = f.queue
      BY <2>4 DEF MailHeaps
    <3>2. [q EXCEPT ![p] = rec] \in [MailPids -> Queues]
      OBVIOUS
    <3> QED BY <2>2, <3>1, <3>2
  <2>6. PICK g : g = [f EXCEPT !.queue[p] = rec]
    OBVIOUS
  <2>7. h2 = g
    BY <1>2, <1>4, <2>1, <2>3, <2>6 DEF ipc_process_cleanup
  <2>8. /\ g \in MailHeaps /\ g.queue = q2 /\ g.mem = f.mem /\ g.free = f.free
        /\ g.allocated = f.allocated
    BY <2>4, <2>5, <2>6 DEF MailHeaps
  <2>9. \A r \in MailPids : QueueOK(q2[r], J[r])
    <3>1. QueueOK(q2[p], J[p])
      <4>1. J[p] = <<>> /\ Len(<<>>) = 0
        BY <1>1, <2>1
      <4>2. At(<<>>, 1) = NIL /\ At(<<>>, 0) = NIL
        BY DEF At
      <4> QED BY <2>3, <2>5, <4>1, <4>2, MailNumbers DEF QueueOK, EmptyQueue
    <3>2. \A r \in MailPids \ {p} : QueueOK(h.queue[r], J[r])
      BY <2>2 DEF HeapOK
    <3> QED BY <2>5, <3>1, <3>2
  <2>10. HeapOK(g, J, F2, MailPids, {})
    BY <2>2, <2>8, <2>9 DEF HeapOK
  <2>11. ~ q2[p].open
    BY <2>3, <2>5 DEF EmptyQueue
  <2>12. CleanedUp(h, L, p, g)
    BY <2>1, <2>2, <2>5, <2>8, <2>10, <2>11 DEF CleanedUp
  <2> QED BY <1>2, <2>7, <2>12
<1> QED BY <1>3, <1>4

Opened(h, L, F, p, h2) ==
  /\ HeapOK(h2, L, F, MailPids, {})
  /\ h2.allocated = h.allocated /\ h2.mem = h.mem
  /\ h2.queue[p].open
  /\ \A r \in MailPids : r # p => h2.queue[r].open = h.queue[r].open

LEMMA InitKeeps ==
  ASSUME NEW h, NEW L, NEW F, HeapOK(h, L, F, MailPids, {}), NEW p \in MailPids
  PROVE  Opened(h, L, F, p, ipc_process_init(h, p))
<1>1. /\ h \in MailHeaps /\ L \in [MailPids -> Seq(Entries)] /\ QueueOK(h.queue[p], L[p])
  BY DEF HeapOK
<1>2. CASE h.queue[p].open
  BY <1>2 DEF ipc_process_init, Opened
<1>3. CASE ~ h.queue[p].open
  <2>1. L[p] = <<>>
    BY <1>1, <1>3 DEF QueueOK
  <2>3. PICK rec \in Queues : rec = EmptyQueue(TRUE)
    <3>1. EmptyQueue(TRUE) \in Queues
      BY MailNumbers DEF EmptyQueue, Queues, Links
    <3> QED BY <3>1
  <2>5. PICK q2 \in [MailPids -> Queues] :
           q2 = [h.queue EXCEPT ![p] = rec] /\ q2[p] = rec /\ \A r \in MailPids : r # p => q2[r] = h.queue[r]
    <3>1. PICK q \in [MailPids -> Queues] : q = h.queue
      BY <1>1 DEF MailHeaps
    <3>2. [q EXCEPT ![p] = rec] \in [MailPids -> Queues]
      OBVIOUS
    <3> QED BY <3>1, <3>2
  <2>6. PICK g : g = [h EXCEPT !.queue[p] = rec]
    OBVIOUS
  <2>7. ipc_process_init(h, p) = g
    BY <1>3, <2>3, <2>6 DEF ipc_process_init
  <2>8. /\ g \in MailHeaps /\ g.queue = q2 /\ g.mem = h.mem /\ g.free = h.free
        /\ g.allocated = h.allocated
    BY <1>1, <2>5, <2>6 DEF MailHeaps
  <2>9. \A r \in MailPids : QueueOK(q2[r], L[r])
    <3>1. QueueOK(q2[p], L[p])
      <4>1. Len(<<>>) = 0 /\ At(<<>>, 1) = NIL /\ At(<<>>, 0) = NIL
        BY DEF At
      <4> QED BY <2>1, <2>3, <2>5, <4>1, MailNumbers DEF QueueOK, EmptyQueue
    <3>2. \A r \in MailPids : QueueOK(h.queue[r], L[r])
      BY DEF HeapOK
    <3> QED BY <2>5, <3>1, <3>2
  <2>10. HeapOK(g, L, F, MailPids, {})
    BY <2>8, <2>9 DEF HeapOK
  <2>11. q2[p].open
    BY <2>3, <2>5 DEF EmptyQueue
  <2>12. Opened(h, L, F, p, g)
    BY <2>5, <2>8, <2>10, <2>11 DEF Opened
  <2> QED BY <2>7, <2>12
<1> QED BY <1>2, <1>3
-----------------------------------------------------------------------------
(* What the lists mean: the mail in them, and what is queued altogether.   *)
Letters == [sender_id : MailPids, message_id : Nat]
MailOf(h, c) == [i \in 1 .. Len(c) |-> h.mem[c[i]].message]
BoxOf(h, L) == [p \in MailPids |-> IF h.queue[p].open THEN MailOf(h, L[p]) ELSE CLOSED]
BoxFrom(h) ==
  [p \in MailPids |->
     IF h.queue[p].open
     THEN LET c == Chain(h.mem, h.queue[p].head) IN [i \in DOMAIN c |-> h.mem[c[i]].message]
     ELSE CLOSED]
Written(h, L) ==
  \A p \in MailPids : \A i \in 1 .. Len(L[p]) : h.mem[L[p][i]].message \in Letters

LEMMA BoxFromIs ==
  ASSUME NEW h, NEW L, NEW F, HeapOK(h, L, F, MailPids, {})
  PROVE  BoxFrom(h) = BoxOf(h, L)
<1>1. ASSUME NEW p \in MailPids
      PROVE  LET c == Chain(h.mem, h.queue[p].head)
             IN  [i \in DOMAIN c |-> h.mem[c[i]].message] = MailOf(h, L[p])
  <2>1. Chain(h.mem, h.queue[p].head) = L[p]
    BY ListIs
  <2>2. DOMAIN L[p] = 1 .. Len(L[p])
    BY DEF HeapOK
  <2> QED BY <2>1, <2>2 DEF MailOf
<1> QED BY <1>1 DEF BoxFrom, BoxOf

LEMMA MailIs ==
  ASSUME NEW h, NEW L, NEW F, HeapOK(h, L, F, MailPids, {}), Written(h, L), NEW p \in MailPids
  PROVE  /\ MailOf(h, L[p]) \in Seq(Letters) /\ Len(MailOf(h, L[p])) = Len(L[p])
         /\ MailOf(h, L[p]) # CLOSED
         /\ h.queue[p].open <=> BoxOf(h, L)[p] # CLOSED
<1>1. PICK n \in Nat : n = Len(L[p])
  BY DEF HeapOK
<1>2. MailOf(h, L[p]) \in [1 .. n -> Letters]
  BY <1>1 DEF MailOf, Written
<1>3. PICK s \in Seq(Letters) : s = MailOf(h, L[p]) /\ Len(s) = n
  <2> HIDE DEF MailOf
  <2> QED BY <1>2
<1>4. s # CLOSED
  BY ClosedAssumption DEF Letters
<1>5. BoxOf(h, L)[p] = IF h.queue[p].open THEN s ELSE CLOSED
  BY <1>3 DEF BoxOf
<1> QED BY <1>1, <1>3, <1>4, <1>5

(* The messages in flight are as many as the entries in use.               *)
LEMMA QueuedIs ==
  ASSUME NEW h, NEW L, NEW F, HeapOK(h, L, F, MailPids, {})
  PROVE  /\ Queued(h) \in Nat /\ Queued(h) <= h.allocated
         /\ F = <<>> => Queued(h) = h.allocated
<1>1. /\ h.allocated \in Nat /\ h.allocated <= MaxEntries /\ L \in [MailPids -> Seq(Entries)]
      /\ \A p \in MailPids : h.queue[p].count = Len(L[p]) /\ Len(L[p]) <= MaxQueue
  BY DEF HeapOK, MailHeaps, QueueOK
<1> DEFINE S == {m \in MailPids \X (1 .. MaxQueue) : m[2] <= h.queue[m[1]].count}
           f == [m \in S |-> L[m[1]][m[2]]]
<1>2. PICK a \in Nat : a = h.allocated
  BY <1>1
<1>3. ASSUME NEW m \in S PROVE m[1] \in MailPids /\ m[2] \in 1 .. Len(L[m[1]])
  <2>1. m[1] \in MailPids /\ m[2] \in 1 .. MaxQueue /\ m[2] <= Len(L[m[1]]) /\ Len(L[m[1]]) \in Nat
    BY <1>1
  <2> QED BY <2>1, MailNumbers
<1>4. ASSUME NEW m \in S PROVE f[m] \in 1 .. a
  <2>1. PICK e \in Entries : e = L[m[1]][m[2]] /\ InList(L, e)
    <3> HIDE DEF S
    <3> QED BY <1>1, <1>3 DEF InList
  <2>2. e <= h.allocated
    BY <2>1 DEF HeapOK, Covered
  <2>3. f[m] = e
    BY <2>1
  <2> QED BY <1>2, <2>1, <2>2, <2>3 DEF Entries
<1>5. ASSUME NEW m \in S, NEW r \in S, f[m] = f[r] PROVE m = r
  <2>1. L[m[1]][m[2]] = L[r[1]][r[2]]
    BY <1>5
  <2>2. m[1] = r[1] /\ m[2] = r[2]
    <3> HIDE DEF S
    <3>1. \A w, v \in MailPids : \A i \in 1 .. Len(L[w]), l \in 1 .. Len(L[v]) :
            L[w][i] = L[v][l] => w = v /\ i = l
      BY DEF HeapOK, Apart
    <3>2. /\ m[1] \in MailPids /\ m[2] \in 1 .. Len(L[m[1]])
          /\ r[1] \in MailPids /\ r[2] \in 1 .. Len(L[r[1]])
      BY <1>3
    <3> QED BY <2>1, <3>1, <3>2
  <2>3. m = <<m[1], m[2]>> /\ r = <<r[1], r[2]>>
    OBVIOUS
  <2> QED BY <2>2, <2>3
<1>6. f \in Injection(S, 1 .. a)
  <2>1. f \in [S -> 1 .. a]
    BY <1>4
  <2>2. IsInjective(f)
    <3> HIDE DEF S
    <3> QED BY <1>5 DEF IsInjective
  <2> HIDE DEF f, S
  <2> QED BY <2>1, <2>2 DEF Injection
<1>7. IsFiniteSet(1 .. a) /\ Cardinality(1 .. a) = a
  <2>1. \A m \in Nat : IsFiniteSet(1 .. m) /\ Cardinality(1 .. m) = IF 1 > m THEN 0 ELSE m - 1 + 1
    BY FS_Interval
  <2>2. \A m \in Nat : (IF 1 > m THEN 0 ELSE m - 1 + 1) = m
    OBVIOUS
  <2> QED BY <2>1, <2>2
<1>8. /\ IsFiniteSet(S) /\ Cardinality(S) <= a
      /\ Cardinality(S) = Cardinality(1 .. a) <=> f \in Surjection(S, 1 .. a)
  <2> HIDE DEF f, S
  <2>1. /\ IsFiniteSet(S) /\ Cardinality(S) <= Cardinality(1 .. a)
        /\ Cardinality(S) = Cardinality(1 .. a) <=> f \in Surjection(S, 1 .. a)
    BY <1>6, <1>7, FS_Injection
  <2> QED BY <1>7, <2>1
<1>9. ASSUME F = <<>> PROVE f \in Surjection(S, 1 .. a)
  <2>1. ASSUME NEW e \in 1 .. a PROVE \E m \in S : f[m] = e
    <3>1. e \in Entries /\ e <= h.allocated
      BY <1>1, <1>2, MailNumbers DEF Entries
    <3>2. InList(L, e)
      <4>1. InList(L, e) \/ InFree(F, e)
        BY <3>1 DEF HeapOK, Covered
      <4>2. ~ InFree(F, e)
        BY <1>9 DEF InFree
      <4> QED BY <4>1, <4>2
    <3>3. PICK p \in MailPids : \E i \in 1 .. Len(L[p]) : L[p][i] = e
      BY <3>2 DEF InList
    <3>4. PICK i \in 1 .. Len(L[p]) : L[p][i] = e
      BY <3>3
    <3>5. <<p, i>> \in S
      <4>1. i \in 1 .. MaxQueue /\ i <= h.queue[p].count
        BY <1>1, MailNumbers
      <4> QED BY <4>1
    <3>6. f[<<p, i>>] = e
      BY <3>4, <3>5
    <3> QED BY <3>5, <3>6
  <2>2. f \in [S -> 1 .. a]
    BY <1>4
  <2> HIDE DEF f, S
  <2> QED BY <2>1, <2>2 DEF Surjection
<1>10. Queued(h) = Cardinality(S)
  BY DEF Queued
<1>11. Cardinality(S) \in Nat
  <2> HIDE DEF S
  <2> QED BY <1>8, FS_CardinalityType
<1> HIDE DEF f, S
<1> QED BY <1>2, <1>7, <1>8, <1>9, <1>10, <1>11

(* A mailbox keeps what it holds as long as nobody writes to its entries.  *)
LEMMA MailSame ==
  ASSUME NEW h, NEW h2, NEW c,
         \A i \in 1 .. Len(c) : h2.mem[c[i]].message = h.mem[c[i]].message
  PROVE  MailOf(h2, c) = MailOf(h, c)
BY DEF MailOf

LEMMA CreateIs ==
  ASSUME NEW h, NEW L, NEW F, HeapOK(h, L, F, MailPids, {}), Written(h, L),
         NEW p \in MailPids, ~ h.queue[p].open, NEW h2, h2 = ipc_process_init(h, p)
  PROVE  \E L2, F2 : /\ HeapOK(h2, L2, F2, MailPids, {}) /\ Written(h2, L2)
                     /\ h2.allocated = h.allocated
                     /\ BoxOf(h2, L2) = [BoxOf(h, L) EXCEPT ![p] = <<>>]
                     /\ h2.queue[p].open
                     /\ \A r \in MailPids : r # p => h2.queue[r].open = h.queue[r].open
<1>1. /\ HeapOK(h2, L, F, MailPids, {})
      /\ h2.allocated = h.allocated /\ h2.mem = h.mem
      /\ h2.queue[p].open
      /\ \A r \in MailPids : r # p => h2.queue[r].open = h.queue[r].open
  <2>1. Opened(h, L, F, p, h2)
    BY InitKeeps
  <2> QED BY <2>1 DEF Opened
<1>2. Written(h2, L)
  BY <1>1 DEF Written
<1>3. L[p] = <<>>
  BY DEF HeapOK, QueueOK
<1>4. MailOf(h2, L[p]) = <<>>
  BY <1>3 DEF MailOf
<1>5. \A r \in MailPids : MailOf(h2, L[r]) = MailOf(h, L[r])
  BY <1>1 DEF MailOf
<1>6. \A r \in MailPids : BoxOf(h2, L)[r] = [BoxOf(h, L) EXCEPT ![p] = <<>>][r]
  BY <1>1, <1>4, <1>5 DEF BoxOf
<1>7. BoxOf(h2, L) = [BoxOf(h, L) EXCEPT ![p] = <<>>]
  BY <1>6 DEF BoxOf
<1> QED BY <1>1, <1>2, <1>7

LEMMA DestroyIs ==
  ASSUME NEW h, NEW L, NEW F, HeapOK(h, L, F, MailPids, {}), Written(h, L),
         NEW p \in MailPids, NEW h2, h2 = ipc_process_cleanup(h, p)
  PROVE  \E L2, F2 : /\ HeapOK(h2, L2, F2, MailPids, {}) /\ Written(h2, L2)
                     /\ h2.allocated = h.allocated
                     /\ BoxOf(h2, L2) = [BoxOf(h, L) EXCEPT ![p] = CLOSED]
                     /\ ~ h2.queue[p].open
                     /\ \A r \in MailPids : r # p => h2.queue[r].open = h.queue[r].open
<1>1. PICK J : J = [L EXCEPT ![p] = <<>>]
  OBVIOUS
<1>2. PICK F2 :
        /\ HeapOK(h2, J, F2, MailPids, {})
        /\ h2.allocated = h.allocated
        /\ ~ h2.queue[p].open
        /\ \A r \in MailPids : r # p => h2.queue[r].open = h.queue[r].open
        /\ \A x \in Entries : (\A i \in 1 .. Len(L[p]) : L[p][i] # x)
             => h2.mem[x].message = h.mem[x].message
  <2>1. CleanedUp(h, L, p, h2)
    BY CleanupKeeps
  <2> QED BY <1>1, <2>1 DEF CleanedUp
<1>3. L \in [MailPids -> Seq(Entries)]
  BY DEF HeapOK
<1>4. J[p] = <<>> /\ Len(J[p]) = 0 /\ \A r \in MailPids : r # p => J[r] = L[r]
  BY <1>1, <1>3
<1>5. ASSUME NEW r \in MailPids, r # p, NEW i \in 1 .. Len(L[r])
      PROVE  h2.mem[L[r][i]].message = h.mem[L[r][i]].message
  <2>1. L[r][i] \in Entries
    BY <1>3
  <2>2. \A j \in 1 .. Len(L[p]) : L[p][j] # L[r][i]
    BY <1>5 DEF HeapOK, Apart
  <2> QED BY <1>2, <2>1, <2>2
<1>6. Written(h2, J)
  BY <1>4, <1>5 DEF Written
<1>7. \A r \in MailPids : r # p => MailOf(h2, J[r]) = MailOf(h, L[r])
  BY <1>4, <1>5, MailSame
<1>8. \A r \in MailPids : BoxOf(h2, J)[r] = [BoxOf(h, L) EXCEPT ![p] = CLOSED][r]
  BY <1>2, <1>7 DEF BoxOf
<1>9. BoxOf(h2, J) = [BoxOf(h, L) EXCEPT ![p] = CLOSED]
  BY <1>8 DEF BoxOf
<1> QED BY <1>2, <1>6, <1>9

Posted(h, L, q, letter, h2) ==
  \E L2, F2 : /\ HeapOK(h2, L2, F2, MailPids, {}) /\ Written(h2, L2)
              /\ \/ h2.allocated = h.allocated
                 \/ F2 = <<>> /\ h2.allocated = h.allocated + 1
              /\ BoxOf(h2, L2) = [BoxOf(h, L) EXCEPT ![q] = Append(@, letter)]
              /\ Len(BoxOf(h, L)[q]) < MaxQueue
              /\ \A r \in MailPids : h2.queue[r].open = h.queue[r].open

LEMMA SendIs ==
  ASSUME NEW h, NEW L, NEW F, HeapOK(h, L, F, MailPids, {}), Written(h, L),
         NEW q \in MailPids, h.queue[q].open, ~ QueueFull(h.queue[q]),
         NEW a \in queue_alloc_entry(h), a[1] # NIL, NEW letter \in Letters,
         NEW h2, h2 = Link(a[2], q, a[1], letter)
  PROVE  Posted(h, L, q, letter, h2)
<1>1. PICK h1, e : h1 = a[2] /\ e = a[1]
  OBVIOUS
<1>2. PICK F2 : /\ HeapOK(h1, L, F2, MailPids, {e}) /\ e \in Entries
                /\ h1.mem = h.mem /\ h1.queue = h.queue
                /\ \/ h1.allocated = h.allocated
                   \/ F2 = <<>> /\ h1.allocated = h.allocated + 1
  <2>1. \E F2 : /\ HeapOK(a[2], L, F2, MailPids, {} \cup {a[1]}) /\ a[1] \in Entries /\ a[1] \notin {}
                /\ a[2].mem = h.mem /\ a[2].queue = h.queue
                /\ \/ a[2].allocated = h.allocated
                   \/ F = <<>> /\ F2 = <<>> /\ a[2].allocated = h.allocated + 1
    BY AllocKeeps
  <2>2. {} \cup {a[1]} = {e}
    BY <1>1
  <2> QED BY <1>1, <2>1, <2>2
<1>3. PICK c \in Seq(Entries), n \in Nat : c = L[q] /\ n = Len(c) /\ n < MaxQueue
  <2>1. L[q] \in Seq(Entries) /\ h.queue[q].count = Len(L[q])
    BY DEF HeapOK, QueueOK
  <2>2. Len(L[q]) \in Nat /\ Len(L[q]) < MaxQueue
    BY <2>1, MailNumbers DEF QueueFull
  <2> QED BY <2>1, <2>2
<1>4. letter \in MailLetters
  BY DEF Letters, MailLetters
<1>5. PICK J : J = [L EXCEPT ![q] = Append(@, e)]
  OBVIOUS
<1>6. /\ HeapOK(h2, J, F2, MailPids, {})
      /\ h2.allocated = h1.allocated
      /\ \A r \in MailPids : h2.queue[r].open = h.queue[r].open
      /\ h2.mem[e].message = letter
      /\ \A x \in Entries : x # e => h2.mem[x].message = h.mem[x].message
  <2>1. h1.queue[q].open /\ Len(L[q]) < MaxQueue /\ e \in {e}
    BY <1>2, <1>3
  <2>2. Linkd(h1, L, F2, MailPids, {e}, q, e, letter, Link(h1, q, e, letter))
    BY <1>2, <1>4, <2>1, LinkKeeps
  <2>3. Link(h1, q, e, letter) = h2
    BY <1>1
  <2>4. {e} \ {e} = {}
    OBVIOUS
  <2> QED BY <1>2, <1>5, <2>2, <2>3, <2>4 DEF Linkd
<1>7. L \in [MailPids -> Seq(Entries)]
  BY DEF HeapOK
<1>8. ASSUME NEW r \in MailPids, NEW i \in 1 .. Len(L[r])
      PROVE  h2.mem[L[r][i]].message = h.mem[L[r][i]].message
  <2>1. L[r][i] \in Entries /\ InList(L, L[r][i])
    BY <1>7 DEF InList
  <2>2. ~ InList(L, e)
    BY <1>2 DEF HeapOK, Apart
  <2> QED BY <1>6, <2>1, <2>2
<1>9. \A r \in MailPids : MailOf(h2, L[r]) = MailOf(h, L[r])
  BY <1>8, MailSame
<1>10. PICK G \in Seq(Entries) : /\ G = Append(c, e) /\ Len(G) = n + 1 /\ G[n + 1] = e
                                 /\ \A i \in 1 .. n : G[i] = c[i]
  <2>1. /\ Append(c, e) \in Seq(Entries) /\ Len(Append(c, e)) = Len(c) + 1
        /\ \A i \in 1 .. Len(c) : Append(c, e)[i] = c[i]
        /\ Append(c, e)[Len(c) + 1] = e
    BY <1>2, AppendedIs
  <2> QED BY <1>3, <2>1
<1>11. J[q] = G /\ \A r \in MailPids : r # q => J[r] = L[r]
  BY <1>3, <1>5, <1>7, <1>10
<1>12. \A i \in 1 .. n : h2.mem[G[i]].message = h.mem[c[i]].message
  BY <1>3, <1>8, <1>10
<1>13. PICK s \in Seq(Letters) : s = MailOf(h, c) /\ Len(s) = n /\ \A i \in 1 .. n : s[i] = h.mem[c[i]].message
  <2>1. MailOf(h, L[q]) \in Seq(Letters) /\ Len(MailOf(h, L[q])) = Len(L[q])
    BY MailIs
  <2>2. \A i \in 1 .. n : MailOf(h, c)[i] = h.mem[c[i]].message
    BY <1>3 DEF MailOf
  <2> QED BY <1>3, <2>1, <2>2
<1>14. MailOf(h2, G) = Append(s, letter)
  <2>1. PICK z \in Seq(Letters) : /\ z = Append(s, letter) /\ Len(z) = n + 1 /\ z[n + 1] = letter
                                  /\ \A i \in 1 .. n : z[i] = s[i]
    <3>1. /\ Append(s, letter) \in Seq(Letters) /\ Len(Append(s, letter)) = Len(s) + 1
          /\ \A i \in 1 .. Len(s) : Append(s, letter)[i] = s[i]
          /\ Append(s, letter)[Len(s) + 1] = letter
      BY AppendedIs
    <3> QED BY <1>13, <3>1
  <2>2. \A i \in 1 .. n + 1 : h2.mem[G[i]].message = z[i]
    <3> SUFFICES ASSUME NEW i \in 1 .. n + 1 PROVE h2.mem[G[i]].message = z[i]
      OBVIOUS
    <3>1. i = n + 1 \/ i \in 1 .. n
      OBVIOUS
    <3> QED BY <1>6, <1>10, <1>12, <1>13, <2>1, <3>1
  <2>3. z = [i \in 1 .. n + 1 |-> z[i]]
    BY <2>1, SeqIs
  <2> QED BY <1>10, <2>1, <2>2, <2>3 DEF MailOf
<1>15. Written(h2, J)
  <2>1. \A i \in 1 .. n + 1 : h2.mem[G[i]].message \in Letters
    <3> SUFFICES ASSUME NEW i \in 1 .. n + 1 PROVE h2.mem[G[i]].message \in Letters
      OBVIOUS
    <3>1. i = n + 1 \/ i \in 1 .. n
      OBVIOUS
    <3>2. i \in 1 .. n => h.mem[c[i]].message \in Letters
      BY <1>3 DEF Written
    <3> QED BY <1>6, <1>10, <1>12, <3>1, <3>2
  <2>2. \A r \in MailPids : r # q => \A i \in 1 .. Len(L[r]) : h2.mem[L[r][i]].message \in Letters
    BY <1>8 DEF Written
  <2>3. ASSUME NEW r \in MailPids, NEW i \in 1 .. Len(J[r]) PROVE h2.mem[J[r][i]].message \in Letters
    <3>1. CASE r = q
      BY <1>10, <1>11, <2>1, <3>1
    <3>2. CASE r # q
      BY <1>11, <2>2, <3>2
    <3> QED BY <3>1, <3>2
  <2> QED BY <2>3 DEF Written
<1>16. \A r \in MailPids : BoxOf(h2, J)[r] = [BoxOf(h, L) EXCEPT ![q] = Append(@, letter)][r]
  <2> SUFFICES ASSUME NEW r \in MailPids
               PROVE  BoxOf(h2, J)[r] = [BoxOf(h, L) EXCEPT ![q] = Append(@, letter)][r]
    OBVIOUS
  <2>1. CASE r = q
    <3>1. BoxOf(h, L)[q] = s
      BY <1>3, <1>13 DEF BoxOf
    <3>2. BoxOf(h2, J)[q] = Append(s, letter)
      BY <1>6, <1>11, <1>14 DEF BoxOf
    <3>3. [BoxOf(h, L) EXCEPT ![q] = Append(@, letter)][q] = Append(BoxOf(h, L)[q], letter)
      BY DEF BoxOf
    <3> QED BY <2>1, <3>1, <3>2, <3>3
  <2>2. CASE r # q
    BY <1>6, <1>9, <1>11, <2>2 DEF BoxOf
  <2> QED BY <2>1, <2>2
<1>17. BoxOf(h2, J) = [BoxOf(h, L) EXCEPT ![q] = Append(@, letter)]
  BY <1>16 DEF BoxOf
<1>18. Len(BoxOf(h, L)[q]) < MaxQueue
  <2>1. BoxOf(h, L)[q] = s
    BY <1>3, <1>13 DEF BoxOf
  <2> QED BY <1>3, <1>13, <2>1
<1> QED BY <1>2, <1>6, <1>15, <1>17, <1>18 DEF Posted

(* Receiving: the entry it settles on, and its place in the mailbox.       *)
Asked(b, f) == {i \in DOMAIN b : f \in {ANY, b[i].sender_id}}

LEMMA WantedIs ==
  ASSUME NEW h, NEW L, NEW F, HeapOK(h, L, F, MailPids, {}), Written(h, L),
         NEW p \in MailPids, h.queue[p].open, NEW f
  PROVE  /\ Wanted(h, p, f) = NIL => Asked(BoxOf(h, L)[p], f) = {}
         /\ Wanted(h, p, f) # NIL =>
              \E k \in 1 .. Len(L[p]) :
                /\ Wanted(h, p, f) = L[p][k]
                /\ k \in Asked(BoxOf(h, L)[p], f)
                /\ \A j \in Asked(BoxOf(h, L)[p], f) : k <= j
<1>1. PICK c \in Seq(Entries), n \in Nat :
         /\ c = L[p] /\ n = Len(c) /\ h.queue[p].count = n
         /\ c = Chain(h.mem, h.queue[p].head) /\ DOMAIN c = 1 .. n
  <2>1. L[p] \in Seq(Entries) /\ h.queue[p].count = Len(L[p])
    BY DEF HeapOK, QueueOK
  <2>2. Chain(h.mem, h.queue[p].head) = L[p]
    BY ListIs
  <2> QED BY <2>1, <2>2
<1>2. \A i \in 1 .. n : c[i] \in Entries /\ c[i] # NIL
  BY <1>1, MailNumbers
<1>3. PICK W : W = {i \in DOMAIN c : f \in {ANY, h.mem[c[i]].message.sender_id}}
  OBVIOUS
<1>4. Wanted(h, p, f) = IF n = 0 \/ W = {} THEN NIL ELSE c[Least(W)]
  BY <1>1, <1>3 DEF Wanted
<1>5. Asked(BoxOf(h, L)[p], f) = W
  <2>1. BoxOf(h, L)[p] = [i \in 1 .. n |-> h.mem[c[i]].message]
    BY <1>1 DEF BoxOf, MailOf
  <2> QED BY <1>1, <1>3, <2>1 DEF Asked
<1>6. W # {} => Least(W) \in W /\ \A j \in W : Least(W) <= j
  <2>1. W \in SUBSET Nat
    <3>1. W \subseteq 1 .. n
      BY <1>1, <1>3
    <3> QED BY <3>1
  <2>2. W # {} => \E m \in W : \A t \in W : m <= t
    BY <2>1, LeastExists
  <2> QED BY <2>2 DEF Least
<1>7. n = 0 => W = {}
  BY <1>1, <1>3
<1>8. CASE W = {}
  BY <1>4, <1>5, <1>8
<1>9. CASE W # {}
  <2>1. PICK k \in 1 .. n : k = Least(W) /\ k \in W /\ \A j \in W : k <= j
    BY <1>1, <1>3, <1>6, <1>9
  <2>2. Wanted(h, p, f) = c[k] /\ c[k] # NIL
    BY <1>2, <1>4, <1>7, <1>9, <2>1
  <2>3. k \in 1 .. Len(L[p]) /\ Wanted(h, p, f) = L[p][k]
    BY <1>1, <2>1, <2>2
  <2> QED BY <1>5, <2>1, <2>2, <2>3
<1> QED BY <1>8, <1>9

LEMMA ReceiveIs ==
  ASSUME NEW h, NEW L, NEW F, HeapOK(h, L, F, MailPids, {}), Written(h, L),
         NEW p \in MailPids, h.queue[p].open, NEW k \in 1 .. Len(L[p]), NEW e, e = L[p][k],
         NEW h2, h2 = queue_free_entry(TakenOut(h, p, e), e)
  PROVE  \E L2, F2 : /\ HeapOK(h2, L2, F2, MailPids, {}) /\ Written(h2, L2)
                     /\ h2.allocated = h.allocated
                     /\ BoxOf(h2, L2) = [BoxOf(h, L) EXCEPT ![p] = RemoveAt(@, k)]
                     /\ \A r \in MailPids : h2.queue[r].open = h.queue[r].open
<1>1. PICK c \in Seq(Entries), n \in Nat : c = L[p] /\ n = Len(c) /\ k \in 1 .. n
  BY DEF HeapOK
<1>2. PICK J : J = [L EXCEPT ![p] = RemoveAt(@, k)]
  OBVIOUS
<1>3. PICK h1 : h1 = TakenOut(h, p, e)
  OBVIOUS
<1>4. /\ HeapOK(h1, J, F, MailPids, {e})
      /\ h1.allocated = h.allocated
      /\ \A r \in MailPids : h1.queue[r].open = h.queue[r].open
      /\ \A x \in Entries : h1.mem[x].message = h.mem[x].message
      /\ e \in Entries
  <2>1. TakenFrom(h, L, F, MailPids, {}, p, k, e, h1)
    BY <1>3, TakenOutKeeps
  <2>2. {} \cup {e} = {e}
    OBVIOUS
  <2> QED BY <1>2, <2>1, <2>2 DEF TakenFrom
<1>5. PICK F2 :
      /\ HeapOK(h2, J, F2, MailPids, {})
      /\ h2.allocated = h.allocated
      /\ h2.queue = h1.queue
      /\ \A x \in Entries : x # e => h2.mem[x].message = h.mem[x].message
  <2>1. e \in {e}
    OBVIOUS
  <2>2. Freed(h1, J, F, MailPids, {e}, e, queue_free_entry(h1, e))
    BY <1>4, <2>1, FreeEntryKeeps
  <2>3. queue_free_entry(h1, e) = h2 /\ {e} \ {e} = {}
    BY <1>3
  <2>4. HeapOK(h2, J, <<e>> \o F, MailPids, {})
    BY <2>2, <2>3 DEF Freed
  <2>5. h2.allocated = h.allocated /\ h2.queue = h1.queue
    BY <1>4, <2>2, <2>3 DEF Freed
  <2>6. \A x \in Entries : x # e => h2.mem[x].message = h.mem[x].message
    BY <1>4, <2>2, <2>3 DEF Freed
  <2> QED BY <2>4, <2>5, <2>6
<1>6. L \in [MailPids -> Seq(Entries)] /\ J \in [MailPids -> Seq(Entries)]
  BY <1>5 DEF HeapOK
<1>7. PICK G \in Seq(Entries) : /\ G = RemoveAt(c, k) /\ Len(G) = n - 1
                                /\ \A i \in 1 .. n - 1 : G[i] = IF i < k THEN c[i] ELSE c[i + 1]
  <2>1. /\ RemoveAt(c, k) \in Seq(Entries) /\ Len(RemoveAt(c, k)) = Len(c) - 1
        /\ \A i \in 1 .. Len(c) - 1 : RemoveAt(c, k)[i] = IF i < k THEN c[i] ELSE c[i + 1]
    BY <1>1, RemovedIs
  <2> QED BY <1>1, <2>1
<1>8. J[p] = G /\ \A r \in MailPids : r # p => J[r] = L[r]
  BY <1>1, <1>2, <1>6, <1>7
<1>9. \A i \in 1 .. n : c[i] \in Entries /\ (c[i] = e => i = k)
  <2>1. \A i, j \in 1 .. Len(L[p]) : L[p][i] = L[p][j] => i = j
    BY DEF HeapOK, Apart
  <2>2. \A i \in 1 .. Len(L[p]) : L[p][i] = L[p][k] => i = k
    BY <2>1
  <2> QED BY <1>1, <2>2
<1>10. ASSUME NEW r \in MailPids, r # p, NEW i \in 1 .. Len(L[r])
       PROVE  h2.mem[L[r][i]].message = h.mem[L[r][i]].message
  <2>1. L[r][i] \in Entries
    BY <1>6
  <2>2. L[r][i] # e
    BY <1>10 DEF HeapOK, Apart
  <2> QED BY <1>5, <2>1, <2>2
<1>11. \A r \in MailPids : r # p => MailOf(h2, L[r]) = MailOf(h, L[r])
  BY <1>10, MailSame
<1>12. PICK s \in Seq(Letters) : s = MailOf(h, c) /\ Len(s) = n /\ \A i \in 1 .. n : s[i] = h.mem[c[i]].message
  <2>1. MailOf(h, L[p]) \in Seq(Letters) /\ Len(MailOf(h, L[p])) = Len(L[p])
    BY MailIs
  <2>2. \A i \in 1 .. n : MailOf(h, c)[i] = h.mem[c[i]].message
    BY <1>1 DEF MailOf
  <2> QED BY <1>1, <2>1, <2>2
<1>13. \A i \in 1 .. n - 1 : h2.mem[G[i]].message = IF i < k THEN s[i] ELSE s[i + 1]
  <2> SUFFICES ASSUME NEW i \in 1 .. n - 1
               PROVE  h2.mem[G[i]].message = IF i < k THEN s[i] ELSE s[i + 1]
    OBVIOUS
  <2>1. PICK j \in 1 .. n : j = (IF i < k THEN i ELSE i + 1) /\ j # k
    <3>1. (IF i < k THEN i ELSE i + 1) \in 1 .. n /\ (IF i < k THEN i ELSE i + 1) # k
      BY <1>1
    <3> QED BY <3>1
  <2>2. G[i] = c[j] /\ c[j] \in Entries /\ c[j] # e
    BY <1>7, <1>9, <2>1
  <2>3. h2.mem[G[i]].message = s[j]
    BY <1>5, <1>12, <2>2
  <2> QED BY <2>1, <2>3
<1>14. MailOf(h2, G) = RemoveAt(s, k)
  <2>1. PICK z : /\ z \in Seq(Letters) /\ z = RemoveAt(s, k) /\ Len(z) = n - 1
                 /\ \A i \in 1 .. n - 1 : z[i] = IF i < k THEN s[i] ELSE s[i + 1]
    <3>1. k \in 1 .. Len(s)
      BY <1>1, <1>12
    <3>2. /\ RemoveAt(s, k) \in Seq(Letters) /\ Len(RemoveAt(s, k)) = Len(s) - 1
          /\ \A i \in 1 .. Len(s) - 1 : RemoveAt(s, k)[i] = IF i < k THEN s[i] ELSE s[i + 1]
      BY <3>1, RemovedIs
    <3> QED BY <1>12, <3>2
  <2>2. \A i \in 1 .. n - 1 : h2.mem[G[i]].message = z[i]
    BY <1>13, <2>1
  <2>3. z = [i \in 1 .. n - 1 |-> z[i]]
    BY <2>1, SeqIs
  <2> QED BY <1>7, <2>1, <2>2, <2>3 DEF MailOf
<1>15. Written(h2, J)
  <2>1. \A i \in 1 .. n - 1 : h2.mem[G[i]].message \in Letters
    <3> SUFFICES ASSUME NEW i \in 1 .. n - 1 PROVE h2.mem[G[i]].message \in Letters
      OBVIOUS
    <3>1. (IF i < k THEN i ELSE i + 1) \in 1 .. n
      BY <1>1
    <3>2. \A j \in 1 .. n : s[j] \in Letters
      BY <1>12
    <3> QED BY <1>13, <3>1, <3>2
  <2>2. \A r \in MailPids : r # p => \A i \in 1 .. Len(L[r]) : h2.mem[L[r][i]].message \in Letters
    BY <1>10 DEF Written
  <2>3. ASSUME NEW r \in MailPids, NEW i \in 1 .. Len(J[r]) PROVE h2.mem[J[r][i]].message \in Letters
    <3>1. CASE r = p
      BY <1>7, <1>8, <2>1, <3>1
    <3>2. CASE r # p
      BY <1>8, <2>2, <3>2
    <3> QED BY <3>1, <3>2
  <2> QED BY <2>3 DEF Written
<1>16. \A r \in MailPids : BoxOf(h2, J)[r] = [BoxOf(h, L) EXCEPT ![p] = RemoveAt(@, k)][r]
  <2> SUFFICES ASSUME NEW r \in MailPids
               PROVE  BoxOf(h2, J)[r] = [BoxOf(h, L) EXCEPT ![p] = RemoveAt(@, k)][r]
    OBVIOUS
  <2>1. CASE r = p
    <3>1. BoxOf(h, L)[p] = s
      BY <1>1, <1>12 DEF BoxOf
    <3>2. BoxOf(h2, J)[p] = RemoveAt(s, k)
      BY <1>4, <1>5, <1>8, <1>14 DEF BoxOf
    <3>3. [BoxOf(h, L) EXCEPT ![p] = RemoveAt(@, k)][p] = RemoveAt(BoxOf(h, L)[p], k)
      BY DEF BoxOf
    <3> QED BY <2>1, <3>1, <3>2, <3>3
  <2>2. CASE r # p
    BY <1>4, <1>5, <1>8, <1>11, <2>2 DEF BoxOf
  <2> QED BY <2>1, <2>2
<1>17. BoxOf(h2, J) = [BoxOf(h, L) EXCEPT ![p] = RemoveAt(@, k)]
  BY <1>16 DEF BoxOf
<1> QED BY <1>4, <1>5, <1>15, <1>17
-----------------------------------------------------------------------------
(* The invariant: a process has a mailbox as long as it is there, and the  *)
(* memory holds well-formed lists of messages.                             *)
MailTypeOK == /\ mstate \in [MailPids -> {"unused", "live", "terminated"}]
              /\ may \in SUBSET (MailPids \X MailPids)
              /\ next_message_id \in Nat /\ peak \in Nat
GoodHeap(h) == \E L, F : HeapOK(h, L, F, MailPids, {}) /\ Written(h, L)
OpenIs(q, s) == \A p \in MailPids : q[p].open <=> s[p] # "unused"
MailInv == /\ MailTypeOK
           /\ OpenIs(queue, mstate)
           /\ entries_allocated = peak
           /\ GoodHeap(Heap)

LEMMA HeapNext ==
  ASSUME NEW h, h \in MailHeaps, SetLists(h)
  PROVE  Heap' = h
<1>1. h = [queue |-> h.queue, mem |-> h.mem, free |-> h.free, allocated |-> h.allocated]
  BY DEF MailHeaps
<1> QED BY <1>1 DEF SetLists, Heap

LEMMA BoxNow == Box = BoxFrom(Heap)
BY DEF Box, BoxFrom, Heap, ListOf

LEMMA BoxNext == Box' = BoxFrom(Heap')
BY DEF Box, BoxFrom, Heap, ListOf

(* A step that leaves the lists alone.                                     *)
LEMMA ListsKept ==
  ASSUME MailInv, UNCHANGED lists, UNCHANGED peak
  PROVE  /\ GoodHeap(Heap') /\ Box' = Box /\ entries_allocated' = peak' /\ queue' = queue
<1>1. Heap' = Heap /\ queue' = queue /\ mem' = mem /\ entries_allocated' = entries_allocated
  BY DEF lists, Heap
<1>2. Box' = Box
  BY <1>1, BoxNow, BoxNext
<1> QED BY <1>1, <1>2 DEF MailInv

(* A step to a heap h that agrees with the abstract mailboxes.             *)
LEMMA ListsSet ==
  ASSUME NEW h, NEW L, NEW F, HeapOK(h, L, F, MailPids, {}), Written(h, L), SetLists(h)
  PROVE  /\ GoodHeap(Heap') /\ Box' = BoxOf(h, L)
         /\ queue' = h.queue /\ entries_allocated' = h.allocated
<1>1. h \in MailHeaps
  BY DEF HeapOK
<1>2. Heap' = h
  BY <1>1, HeapNext
<1>3. Box' = BoxOf(h, L)
  BY <1>2, BoxNext, BoxFromIs
<1>4. GoodHeap(h)
  BY DEF GoodHeap
<1> QED BY <1>2, <1>3, <1>4 DEF SetLists

Found(L, F) ==
  /\ HeapOK(Heap, L, F, MailPids, {}) /\ Written(Heap, L) /\ Box = BoxOf(Heap, L)

LEMMA InvFound ==
  ASSUME MailInv
  PROVE  \E L, F : Found(L, F)
<1>1. PICK L, F : HeapOK(Heap, L, F, MailPids, {}) /\ Written(Heap, L)
  BY DEF MailInv, GoodHeap
<1>2. Box = BoxOf(Heap, L)
  BY <1>1, BoxNow, BoxFromIs
<1> QED BY <1>1, <1>2 DEF Found

LEMMA BoxOpen ==
  ASSUME MailInv, NEW p \in MailPids
  PROVE  /\ mstate[p] # "unused" <=> Box[p] # CLOSED
         /\ queue[p].open <=> Box[p] # CLOSED
         /\ Heap.queue = queue /\ Heap.allocated = entries_allocated
<1>1. PICK L, F : Found(L, F)
  BY InvFound
<1>2. Heap.queue[p].open <=> BoxOf(Heap, L)[p] # CLOSED
  BY <1>1, MailIs DEF Found
<1>3. Heap.queue = queue /\ Heap.allocated = entries_allocated
  BY DEF Heap
<1> QED BY <1>1, <1>2, <1>3 DEF Found, MailInv, OpenIs
-----------------------------------------------------------------------------
LEMMA CreateImplements ==
  ASSUME MailInv, MailCreate
  PROVE  MailInv' /\ M!Next
<1>1. PICK p : /\ p = Least(MailPids \ Present) /\ mstate' = [mstate EXCEPT ![p] = "live"]
               /\ SetLists(ipc_process_init(Heap, p))
  BY DEF MailCreate
<1>2. p \in MailPids /\ mstate[p] = "unused"
  <2>1. Present \subseteq MailPids /\ MailPids \ Present # {} /\ MailPids \ Present \in SUBSET Nat
    BY MailPidsAssumption DEF MailCreate, Present
  <2>2. \E m \in MailPids \ Present : \A t \in MailPids \ Present : m <= t
    BY <2>1, LeastExists
  <2>3. p \in MailPids \ Present
    BY <1>1, <2>2 DEF Least
  <2> QED BY <2>3 DEF Present
<1>3. PICK L, F : Found(L, F)
  BY InvFound
<1>4. ~ Heap.queue[p].open
  BY <1>2, BoxOpen DEF MailInv, OpenIs
<1>5. PICK h2 : h2 = ipc_process_init(Heap, p)
  OBVIOUS
<1>6. PICK L2, F2 : /\ HeapOK(h2, L2, F2, MailPids, {}) /\ Written(h2, L2)
                    /\ h2.allocated = Heap.allocated
                    /\ BoxOf(h2, L2) = [BoxOf(Heap, L) EXCEPT ![p] = <<>>]
                    /\ h2.queue[p].open
                    /\ \A r \in MailPids : r # p => h2.queue[r].open = Heap.queue[r].open
  BY <1>2, <1>3, <1>4, <1>5, CreateIs DEF Found
<1>7. /\ GoodHeap(Heap') /\ Box' = BoxOf(h2, L2)
      /\ queue' = h2.queue /\ entries_allocated' = h2.allocated
  BY <1>1, <1>5, <1>6, ListsSet
<1>8. UNCHANGED <<may, next_message_id, told, peak>>
  BY DEF MailCreate
<1>9. MailTypeOK'
  BY <1>1, <1>2, <1>8 DEF MailInv, MailTypeOK
<1>10. OpenIs(queue', mstate')
  <2>1. \A r \in MailPids : r # p => mstate'[r] = mstate[r]
    BY <1>1 DEF MailInv, MailTypeOK
  <2>2. mstate'[p] = "live"
    BY <1>1, <1>2 DEF MailInv, MailTypeOK
  <2>3. \A r \in MailPids : Heap.queue[r].open <=> mstate[r] # "unused"
    BY <1>2, BoxOpen DEF MailInv, OpenIs
  <2> QED BY <1>6, <1>7, <2>1, <2>2, <2>3 DEF OpenIs
<1>11. entries_allocated' = peak'
  BY <1>2, <1>6, <1>7, <1>8, BoxOpen DEF MailInv
<1>12. M!Born(p)
  <2>1. Box[p] = CLOSED
    BY <1>2, BoxOpen
  <2>2. Box' = [Box EXCEPT ![p] = <<>>]
    BY <1>3, <1>6, <1>7 DEF Found
  <2> QED BY <1>8, <2>1, <2>2 DEF M!Born
<1> QED BY <1>2, <1>7, <1>9, <1>10, <1>11, <1>12 DEF MailInv, M!Next

LEMMA DestroyImplements ==
  ASSUME MailInv, NEW p \in MailPids, MailDestroy(p)
  PROVE  MailInv' /\ M!Next
<1>1. /\ mstate[p] # "unused" /\ mstate' = [mstate EXCEPT ![p] = "unused"]
      /\ SetLists(ipc_process_cleanup(Heap, p))
      /\ may' = {m \in may : m[1] # p /\ m[2] # p}
      /\ UNCHANGED <<next_message_id, told, peak>>
  BY DEF MailDestroy
<1>3. PICK L, F : Found(L, F)
  BY InvFound
<1>5. PICK h2 : h2 = ipc_process_cleanup(Heap, p)
  OBVIOUS
<1>6. PICK L2, F2 : /\ HeapOK(h2, L2, F2, MailPids, {}) /\ Written(h2, L2)
                    /\ h2.allocated = Heap.allocated
                    /\ BoxOf(h2, L2) = [BoxOf(Heap, L) EXCEPT ![p] = CLOSED]
                    /\ ~ h2.queue[p].open
                    /\ \A r \in MailPids : r # p => h2.queue[r].open = Heap.queue[r].open
  BY <1>3, <1>5, DestroyIs DEF Found
<1>7. /\ GoodHeap(Heap') /\ Box' = BoxOf(h2, L2)
      /\ queue' = h2.queue /\ entries_allocated' = h2.allocated
  BY <1>1, <1>5, <1>6, ListsSet
<1>9. MailTypeOK'
  BY <1>1 DEF MailInv, MailTypeOK
<1>10. OpenIs(queue', mstate')
  <2>1. \A r \in MailPids : r # p => mstate'[r] = mstate[r]
    BY <1>1 DEF MailInv, MailTypeOK
  <2>2. mstate'[p] = "unused"
    BY <1>1 DEF MailInv, MailTypeOK
  <2>3. \A r \in MailPids : Heap.queue[r].open <=> mstate[r] # "unused"
    BY BoxOpen DEF MailInv, OpenIs
  <2> QED BY <1>6, <1>7, <2>1, <2>2, <2>3 DEF OpenIs
<1>11. entries_allocated' = peak'
  BY <1>1, <1>6, <1>7, BoxOpen DEF MailInv
<1>12. M!Gone(p)
  <2>1. Box[p] # CLOSED
    BY <1>1, BoxOpen
  <2>2. Box' = [Box EXCEPT ![p] = CLOSED]
    BY <1>3, <1>6, <1>7 DEF Found
  <2> QED BY <1>1, <2>1, <2>2 DEF M!Gone
<1> QED BY <1>7, <1>9, <1>10, <1>11, <1>12 DEF MailInv, M!Next

LEMMA QuietInv ==
  ASSUME MailInv, UNCHANGED <<lists, peak>>, MailTypeOK', OpenIs(queue, mstate')
  PROVE  MailInv' /\ Box' = Box
<1>1. UNCHANGED lists /\ UNCHANGED peak
  OBVIOUS
<1>2. /\ GoodHeap(Heap') /\ Box' = Box /\ entries_allocated' = peak' /\ queue' = queue
  BY <1>1, ListsKept
<1>3. OpenIs(queue', mstate')
  BY <1>2
<1> QED BY <1>2, <1>3 DEF MailInv

LEMMA ExitImplements ==
  ASSUME MailInv, NEW p \in MailPids, MailExit(p)
  PROVE  MailInv' /\ UNCHANGED M!mailVars
<1>1. /\ mstate[p] = "live" /\ mstate' = [mstate EXCEPT ![p] = "terminated"]
      /\ UNCHANGED <<may, lists, next_message_id, told, peak>>
  BY DEF MailExit
<1>2. MailTypeOK'
  BY <1>1 DEF MailInv, MailTypeOK
<1>3. OpenIs(queue, mstate')
  BY <1>1 DEF MailInv, MailTypeOK, OpenIs
<1>4. MailInv' /\ Box' = Box
  BY <1>1, <1>2, <1>3, QuietInv
<1> QED BY <1>1, <1>4 DEF M!mailVars

LEMMA WireImplements ==
  ASSUME MailInv, NEW p \in MailPids, NEW q \in MailPids, Wire(p, q) \/ Unwire(p, q)
  PROVE  MailInv' /\ M!Next
<1>1. /\ UNCHANGED <<mstate, lists, next_message_id, told, peak>>
      /\ \/ {p, q} \subseteq Present /\ may' = may \cup {<<p, q>>}
         \/ may' = may \ {<<p, q>>}
  BY DEF Wire, Unwire
<1>2. MailTypeOK'
  BY <1>1 DEF MailInv, MailTypeOK
<1>3. OpenIs(queue, mstate')
  BY <1>1 DEF MailInv
<1>4. MailInv' /\ Box' = Box
  BY <1>1, <1>2, <1>3, QuietInv
<1>5. p \in Present => Box[p] # CLOSED
  BY BoxOpen DEF Present
<1>6. q \in Present => Box[q] # CLOSED
  BY BoxOpen DEF Present
<1>7. M!Wire(p, q) \/ M!Unwire(p, q)
  BY <1>1, <1>4, <1>5, <1>6 DEF M!Wire, M!Unwire
<1> QED BY <1>4, <1>7 DEF M!Next

LEMMA RefuseImplements ==
  ASSUME MailInv, Reject, UNCHANGED <<mstate, may>>,
         next_message_id' \in {next_message_id, next_message_id + 1}
  PROVE  MailInv' /\ M!Next
<1>1. UNCHANGED <<lists, peak>> /\ told' = "refused" /\ UNCHANGED <<mstate, may>>
  BY DEF Reject
<1>2. MailTypeOK'
  BY <1>1 DEF MailInv, MailTypeOK
<1>3. OpenIs(queue, mstate')
  BY <1>1 DEF MailInv
<1>4. MailInv' /\ Box' = Box
  BY <1>1, <1>2, <1>3, QuietInv
<1>5. M!Refuse
  BY <1>1, <1>4 DEF M!Refuse
<1> QED BY <1>4, <1>5 DEF M!Next

LEMMA PostImplements ==
  ASSUME MailInv, NEW p \in MailPids, NEW q \in MailPids, <<p, q>> \in may,
         queue[q].open, ~ QueueFull(queue[q]),
         NEW a \in queue_alloc_entry(Heap), a[1] # NIL,
         NEW h2, h2 = Link(a[2], q, a[1], [sender_id |-> p, message_id |-> next_message_id]),
         SetLists(h2), peak' = (IF Queued(h2) > peak THEN Queued(h2) ELSE peak),
         told' = "sent", next_message_id' = next_message_id + 1, UNCHANGED <<mstate, may>>
  PROVE  MailInv' /\ M!Next
<1>1. PICK L, F : Found(L, F)
  BY InvFound
<1>2. PICK letter \in Letters : letter = [sender_id |-> p, message_id |-> next_message_id]
  <2>1. next_message_id \in Nat
    BY DEF MailInv, MailTypeOK
  <2>2. [sender_id |-> p, message_id |-> next_message_id] \in Letters
    BY <2>1 DEF Letters
  <2> QED BY <2>2
<1>3. /\ Heap.queue[q].open /\ ~ QueueFull(Heap.queue[q])
      /\ Heap.allocated = peak /\ Heap.queue = queue
  BY BoxOpen DEF MailInv
<1>4. HeapOK(Heap, L, F, MailPids, {}) /\ Written(Heap, L) /\ Box = BoxOf(Heap, L)
  BY <1>1 DEF Found
<1>5. PICK L2, F2 : /\ HeapOK(h2, L2, F2, MailPids, {}) /\ Written(h2, L2)
                    /\ \/ h2.allocated = Heap.allocated
                       \/ F2 = <<>> /\ h2.allocated = Heap.allocated + 1
                    /\ BoxOf(h2, L2) = [BoxOf(Heap, L) EXCEPT ![q] = Append(@, letter)]
                    /\ Len(BoxOf(Heap, L)[q]) < MaxQueue
                    /\ \A r \in MailPids : h2.queue[r].open = Heap.queue[r].open
  <2>1. h2 = Link(a[2], q, a[1], letter)
    BY <1>2
  <2>2. PICK h : h = Heap
    OBVIOUS
  <2>3. /\ HeapOK(h, L, F, MailPids, {}) /\ Written(h, L) /\ h.queue[q].open /\ ~ QueueFull(h.queue[q])
        /\ a \in queue_alloc_entry(h)
    BY <1>3, <1>4, <2>2
  <2>4. Posted(h, L, q, letter, h2)
    BY <2>1, <2>3, SendIs
  <2> QED BY <2>2, <2>4 DEF Posted
<1>6. /\ GoodHeap(Heap') /\ Box' = BoxOf(h2, L2)
      /\ queue' = h2.queue /\ entries_allocated' = h2.allocated
  BY <1>5, ListsSet
<1>7. peak \in Nat /\ Queued(h2) \in Nat /\ Queued(h2) <= h2.allocated /\ (F2 = <<>> => Queued(h2) = h2.allocated)
  BY <1>5, QueuedIs DEF MailInv, MailTypeOK
<1>8. entries_allocated' = peak' /\ peak' \in Nat
  BY <1>3, <1>5, <1>6, <1>7
<1>9. MailTypeOK'
  BY <1>8 DEF MailInv, MailTypeOK
<1>10. OpenIs(queue', mstate')
  BY <1>3, <1>5, <1>6 DEF MailInv, OpenIs
<1>11. M!Post(p, q)
  <2>1. Box[q] # CLOSED /\ Len(Box[q]) < MaxQueue
    BY <1>4, <1>5, BoxOpen
  <2>2. Box' = [Box EXCEPT ![q] = Append(@, letter)]
    BY <1>4, <1>5, <1>6
  <2>3. M!Letter(p) = letter
    BY <1>2 DEF M!Letter
  <2> QED BY <2>1, <2>2, <2>3 DEF M!Post
<1> QED BY <1>6, <1>8, <1>9, <1>10, <1>11 DEF MailInv, M!Next

LEMMA SendImplements ==
  ASSUME MailInv, NEW p \in MailPids, NEW q \in MailPids, <<p, q>> \in may,
         ipc_send(p, q), UNCHANGED <<mstate, may>>
  PROVE  MailInv' /\ M!Next
<1>1. CASE Reject
  <2>1. next_message_id' \in {next_message_id, next_message_id + 1}
    BY DEF ipc_send
  <2> QED BY <1>1, <2>1, RefuseImplements
<1>2. CASE ~ Reject
  <2>1. /\ queue[q].open /\ next_message_id' = next_message_id + 1 /\ ~ QueueFull(queue[q])
        /\ \E a \in queue_alloc_entry(Heap) :
             /\ a[1] # NIL
             /\ LET h == Link(a[2], q, a[1], [sender_id |-> p, message_id |-> next_message_id])
                IN  /\ SetLists(h)
                    /\ peak' = IF Queued(h) > peak THEN Queued(h) ELSE peak
             /\ told' = "sent"
    BY <1>2 DEF ipc_send
  <2>2. PICK a \in queue_alloc_entry(Heap) :
             /\ a[1] # NIL
             /\ LET h == Link(a[2], q, a[1], [sender_id |-> p, message_id |-> next_message_id])
                IN  /\ SetLists(h)
                    /\ peak' = IF Queued(h) > peak THEN Queued(h) ELSE peak
             /\ told' = "sent"
    BY <2>1
  <2>3. PICK h2 : h2 = Link(a[2], q, a[1], [sender_id |-> p, message_id |-> next_message_id])
    OBVIOUS
  <2>4. a[1] # NIL /\ SetLists(h2) /\ peak' = (IF Queued(h2) > peak THEN Queued(h2) ELSE peak) /\ told' = "sent"
    BY <2>2, <2>3
  <2> QED BY <2>1, <2>3, <2>4, PostImplements
<1> QED BY <1>1, <1>2

LEMMA SysSendImplements ==
  ASSUME MailInv, NEW p \in MailPids, sys_send(p) \/ \E q \in MailPids : sys_send_to(p, q)
  PROVE  MailInv' /\ M!Next
<1>1. UNCHANGED <<mstate, may>>
  BY DEF sys_send, sys_send_to
<1>2. \/ \E q \in MailPids : <<p, q>> \in may /\ ipc_send(p, q)
      \/ Reject /\ UNCHANGED next_message_id
  BY DEF sys_send, sys_send_to
<1>3. CASE \E q \in MailPids : <<p, q>> \in may /\ ipc_send(p, q)
  BY <1>1, <1>3, SendImplements
<1>4. CASE Reject /\ UNCHANGED next_message_id
  BY <1>1, <1>4, RefuseImplements
<1> QED BY <1>2, <1>3, <1>4

LEMMA ReceiveImplements ==
  ASSUME MailInv, NEW p \in MailPids, mstate[p] = "live", NEW f \in MailPids \cup {ANY},
         ipc_receive(p, f), UNCHANGED <<mstate, may, next_message_id, peak>>
  PROVE  MailInv' /\ M!Next
<1>1. PICK L, F : Found(L, F)
  BY InvFound
<1>2. HeapOK(Heap, L, F, MailPids, {}) /\ Written(Heap, L) /\ Box = BoxOf(Heap, L)
  BY <1>1 DEF Found
<1>3. Heap.queue[p].open /\ Heap.allocated = peak /\ Heap.queue = queue /\ Box[p] # CLOSED
  BY BoxOpen DEF MailInv, OpenIs
<1>4. PICK e : e = Wanted(Heap, p, f)
  OBVIOUS
<1>5. /\ e = NIL => Asked(Box[p], f) = {}
      /\ e # NIL => \E k \in 1 .. Len(L[p]) : /\ e = L[p][k] /\ k \in Asked(Box[p], f)
                                              /\ \A j \in Asked(Box[p], f) : k <= j
  BY <1>2, <1>3, <1>4, WantedIs
<1>6. Asked(Box[p], f) = M!From(Box[p], f)
  BY DEF Asked, M!From
<1>7. MailTypeOK'
  BY DEF MailInv, MailTypeOK
<1>8. CASE e = NIL
  <2>1. told' = "nothing" /\ UNCHANGED lists
    BY <1>4, <1>8 DEF ipc_receive
  <2>2. OpenIs(queue, mstate')
    BY DEF MailInv
  <2>3. MailInv' /\ Box' = Box
    BY <1>7, <2>1, <2>2, QuietInv
  <2>4. M!Nothing(p, f)
    BY <1>3, <1>5, <1>6, <1>8, <2>1, <2>3 DEF M!Nothing
  <2> QED BY <2>3, <2>4 DEF M!Next
<1>9. CASE e # NIL
  <2>1. told' = "got" /\ SetLists(queue_free_entry(TakenOut(Heap, p, e), e))
    BY <1>4, <1>9 DEF ipc_receive
  <2>2. PICK k \in 1 .. Len(L[p]) : /\ e = L[p][k] /\ k \in Asked(Box[p], f)
                                    /\ \A j \in Asked(Box[p], f) : k <= j
    BY <1>5, <1>9
  <2>3. PICK h2 : h2 = queue_free_entry(TakenOut(Heap, p, e), e)
    OBVIOUS
  <2>4. PICK L2, F2 : /\ HeapOK(h2, L2, F2, MailPids, {}) /\ Written(h2, L2)
                      /\ h2.allocated = Heap.allocated
                      /\ BoxOf(h2, L2) = [BoxOf(Heap, L) EXCEPT ![p] = RemoveAt(@, k)]
                      /\ \A r \in MailPids : h2.queue[r].open = Heap.queue[r].open
    BY <1>2, <1>3, <2>2, <2>3, ReceiveIs
  <2>5. /\ GoodHeap(Heap') /\ Box' = BoxOf(h2, L2)
        /\ queue' = h2.queue /\ entries_allocated' = h2.allocated
    BY <2>1, <2>3, <2>4, ListsSet
  <2>6. OpenIs(queue', mstate')
    BY <1>3, <2>4, <2>5 DEF MailInv, OpenIs
  <2>7. entries_allocated' = peak'
    BY <1>3, <2>4, <2>5
  <2>8. M!Take(p, f)
    <3>1. Box' = [Box EXCEPT ![p] = RemoveAt(@, k)]
      BY <1>2, <2>4, <2>5
    <3>2. k \in M!From(Box[p], f) /\ \A j \in M!From(Box[p], f) : k <= j
      BY <1>6, <2>2
    <3>3. UNCHANGED <<may, next_message_id>>
      OBVIOUS
    <3>4. M!RemoveAt(Box[p], k) = RemoveAt(Box[p], k)
      BY DEF RemoveAt, M!RemoveAt
    <3>5. Box' = [Box EXCEPT ![p] = M!RemoveAt(@, k)]
      BY <3>1, <3>4
    <3> QED BY <1>3, <2>1, <3>2, <3>3, <3>5 DEF M!Take
  <2> QED BY <1>7, <2>5, <2>6, <2>7, <2>8 DEF MailInv, M!Next
<1> QED BY <1>8, <1>9

LEMMA RecvImplements ==
  ASSUME MailInv, NEW p \in MailPids, sys_recv(p) \/ \E q \in MailPids : ipc_call_reply(p, q)
  PROVE  MailInv' /\ M!Next
<1>1. mstate[p] = "live" /\ UNCHANGED <<mstate, may, next_message_id, peak>>
  BY DEF sys_recv, ipc_call_reply
<1>2. Reject \/ \E f \in MailPids \cup {ANY} : ipc_receive(p, f)
  BY DEF sys_recv, ipc_call_reply
<1>3. CASE Reject
  BY <1>1, <1>3, RefuseImplements
<1>4. CASE \E f \in MailPids \cup {ANY} : ipc_receive(p, f)
  BY <1>1, <1>4, ReceiveImplements
<1> QED BY <1>2, <1>3, <1>4

LEMMA MailStarts ==
  ASSUME MailInit
  PROVE  MailInv /\ M!Init
<1>1. PICK L : L = [p \in MailPids |-> <<>>]
  OBVIOUS
<1>2. PICK h : h = Heap
  OBVIOUS
<1>3. /\ h.queue = [p \in MailPids |-> EmptyQueue(FALSE)] /\ h.free = NIL /\ h.allocated = 0
      /\ h.mem = [e \in Entries |-> [next |-> NIL, prev |-> NIL, message |-> NoLetter]]
  BY <1>2 DEF MailInit, Heap
<1>4. h \in MailHeaps
  <2>1. EmptyQueue(FALSE) \in Queues
    BY MailNumbers DEF EmptyQueue, Queues, Links
  <2>2. [next |-> NIL, prev |-> NIL, message |-> NoLetter] \in Cells
    BY DEF Cells, Links, MailLetters, NoLetter
  <2>3. h.queue \in [MailPids -> Queues] /\ h.mem \in [Entries -> Cells] /\ h.free \in Links /\ h.allocated \in Nat
    <3>1. h.queue \in [MailPids -> Queues]
      BY <1>3, <2>1
    <3>2. h.mem \in [Entries -> Cells]
      BY <1>3, <2>2
    <3>3. h.free \in Links /\ h.allocated \in Nat
      BY <1>3 DEF Links
    <3> QED BY <3>1, <3>2, <3>3
  <2>4. h = [queue |-> h.queue, mem |-> h.mem, free |-> h.free, allocated |-> h.allocated]
    BY <1>2 DEF Heap
  <2> QED BY <2>3, <2>4 DEF MailHeaps
<1>5. /\ L \in [MailPids -> Seq(Entries)] /\ <<>> \in Seq(Entries)
      /\ \A p \in MailPids : L[p] = <<>> /\ Len(L[p]) = 0
      /\ Len(<<>>) = 0 /\ At(<<>>, 1) = NIL /\ At(<<>>, 0) = NIL
  BY <1>1 DEF At
<1>6. \A e : ~ InList(L, e) /\ ~ InFree(<<>>, e)
  BY <1>5 DEF InList, InFree
<1>7. HeapOK(h, L, <<>>, MailPids, {})
  <2>1. Linked(h.mem, L) /\ FreeLinked(h.mem, <<>>)
    BY <1>5 DEF Linked, FreeLinked
  <2>2. \A p \in MailPids : QueueOK(h.queue[p], L[p])
    BY <1>3, <1>5, MailNumbers DEF QueueOK, EmptyQueue
  <2>3. Apart(L, <<>>, {})
    BY <1>5, <1>6 DEF Apart
  <2>4. Covered(0, L, <<>>, {})
    BY <1>6, MailNumbers DEF Covered, Entries
  <2>5. h.allocated <= MaxEntries
    BY <1>3, MailNumbers
  <2>6. h.free = At(<<>>, 1) /\ Covered(h.allocated, L, <<>>, {})
    BY <1>3, <1>5, <2>4
  <2> QED BY <1>4, <1>5, <2>1, <2>2, <2>3, <2>5, <2>6 DEF HeapOK
<1>8. Written(h, L)
  BY <1>5 DEF Written
<1>9. MailTypeOK
  BY DEF MailInit, MailTypeOK
<1>10. OpenIs(queue, mstate)
  BY DEF MailInit, OpenIs, EmptyQueue
<1>11. MailInv
  BY <1>2, <1>7, <1>8, <1>9, <1>10 DEF MailInv, GoodHeap, MailInit
<1>12. Box = [p \in MailPids |-> CLOSED]
  BY DEF Box, MailInit, EmptyQueue
<1> QED BY <1>11, <1>12 DEF M!Init, MailInit

LEMMA MailSteps ==
  ASSUME MailInv, [MailNext]_mailVars
  PROVE  MailInv' /\ [M!Next]_M!mailVars
<1>1. CASE MailCreate
  BY <1>1, CreateImplements
<1>2. CASE \E p \in MailPids : MailExit(p)
  BY <1>2, ExitImplements
<1>3. CASE \E p \in MailPids : MailDestroy(p)
  BY <1>3, DestroyImplements
<1>4. CASE \E p \in MailPids : sys_send(p) \/ \E q \in MailPids : sys_send_to(p, q)
  BY <1>4, SysSendImplements
<1>5. CASE \E p \in MailPids : sys_recv(p) \/ \E q \in MailPids : ipc_call_reply(p, q)
  BY <1>5, RecvImplements
<1>6. CASE \E p, q \in MailPids : Wire(p, q) \/ Unwire(p, q)
  BY <1>6, WireImplements
<1>7. CASE UNCHANGED mailVars
  <2>1. UNCHANGED <<lists, peak>> /\ UNCHANGED <<mstate, may, told, next_message_id>>
    BY <1>7 DEF mailVars, lists
  <2>2. MailTypeOK' /\ OpenIs(queue, mstate')
    BY <2>1 DEF MailInv, MailTypeOK
  <2>3. MailInv' /\ Box' = Box
    BY <2>1, <2>2, QuietInv
  <2> QED BY <2>1, <2>3 DEF M!mailVars
<1> QED BY <1>1, <1>2, <1>3, <1>4, <1>5, <1>6, <1>7 DEF MailNext
-----------------------------------------------------------------------------
LEMMA InvListsSound ==
  ASSUME MailInv
  PROVE  ListsSound
<1>1. PICK L, F : Found(L, F)
  BY InvFound
<1>2. PICK h : h = Heap /\ h.queue = queue /\ h.mem = mem /\ h.free = entry_free_list /\ h.allocated = entries_allocated
  <2>1. /\ Heap.queue = queue /\ Heap.mem = mem /\ Heap.free = entry_free_list
        /\ Heap.allocated = entries_allocated
    BY DEF Heap
  <2> QED BY <2>1
<1>3. HeapOK(h, L, F, MailPids, {})
  BY <1>1, <1>2 DEF Found
<1>4. \A p \in MailPids : ListOf(p) = L[p]
  BY <1>2, <1>3, ListIs DEF ListOf
<1>5. Chain(mem, entry_free_list) = F
  BY <1>2, <1>3, FreeListIs
<1>6. /\ L \in [MailPids -> Seq(Entries)] /\ F \in Seq(Entries) /\ DOMAIN F = 1 .. Len(F)
      /\ \A p \in MailPids : DOMAIN L[p] = 1 .. Len(L[p])
  BY <1>3 DEF HeapOK
<1>7. ASSUME NEW p \in MailPids PROVE Whole(queue[p], L[p])
  <2>1. PICK c \in Seq(Entries), n \in Nat : c = L[p] /\ n = Len(c) /\ DOMAIN c = 1 .. n
    BY <1>6
  <2>2. \A i, j \in 1 .. n : c[i] = c[j] => i = j
    <3>1. \A i, j \in 1 .. Len(L[p]) : L[p][i] = L[p][j] => i = j
      BY <1>3 DEF HeapOK, Apart
    <3> QED BY <2>1, <3>1
  <2>3. IsInjective(c)
    BY <2>1, <2>2 DEF IsInjective
  <2>4. queue[p].count = n /\ queue[p].tail = At(c, n)
    BY <1>2, <1>3, <2>1 DEF HeapOK, QueueOK
  <2>5. At(c, n) = IF c = <<>> THEN NIL ELSE Last(c)
    <3>1. c = <<>> <=> n = 0
      BY <2>1
    <3>2. n # 0 => n \in 1 .. Len(c)
      BY <2>1
    <3> QED BY <2>1, <3>1, <3>2 DEF At, Last
  <2>6. \A i \in 1 .. n : mem[c[i]].prev = IF i = 1 THEN NIL ELSE c[i - 1]
    <3> SUFFICES ASSUME NEW i \in 1 .. n PROVE mem[c[i]].prev = IF i = 1 THEN NIL ELSE c[i - 1]
      OBVIOUS
    <3>1. mem[c[i]].prev = At(c, i - 1)
      BY <1>2, <1>3, <2>1 DEF HeapOK, Linked
    <3>2. i - 1 \in 1 .. n <=> i # 1
      OBVIOUS
    <3> QED BY <2>1, <3>1, <3>2 DEF At
  <2> QED BY <2>1, <2>3, <2>4, <2>5, <2>6 DEF Whole
<1>8. IsInjective(F)
  BY <1>3, <1>6 DEF HeapOK, Apart, IsInjective
<1>9. \A e : e \in Range(F) <=> InFree(F, e)
  BY <1>6 DEF Range, InFree
<1>10. \A p \in MailPids : \A e : e \in Range(L[p]) <=> \E i \in 1 .. Len(L[p]) : L[p][i] = e
  BY <1>6 DEF Range
<1>11. ASSUME NEW e \in Entries
       PROVE  Cardinality({p \in MailPids : e \in Range(L[p])})
                = IF e <= entries_allocated /\ e \notin Range(F) THEN 1 ELSE 0
  <2>1. e <= entries_allocated <=> InList(L, e) \/ InFree(F, e)
    BY <1>2, <1>3 DEF HeapOK, Covered
  <2>2. ~ (InList(L, e) /\ InFree(F, e))
    BY <1>3 DEF HeapOK, Apart
  <2>3. CASE InList(L, e)
    <3>1. PICK r \in MailPids : \E i \in 1 .. Len(L[r]) : L[r][i] = e
      BY <2>3 DEF InList
    <3>2. \A p \in MailPids : e \in Range(L[p]) <=> p = r
      BY <1>3, <1>10, <3>1 DEF HeapOK, Apart
    <3>3. {p \in MailPids : e \in Range(L[p])} = {r}
      BY <3>2
    <3>4. Cardinality({r}) = 1
      BY FS_Singleton
    <3> QED BY <1>9, <2>1, <2>2, <2>3, <3>3, <3>4
  <2>4. CASE ~ InList(L, e)
    <3>1. {p \in MailPids : e \in Range(L[p])} = {}
      BY <1>10, <2>4 DEF InList
    <3>2. Cardinality({}) = 0
      BY FS_EmptySet
    <3> QED BY <1>9, <2>1, <2>4, <3>1, <3>2
  <2> QED BY <2>3, <2>4
<1>12. Range(F) \subseteq 1 .. entries_allocated
  <2> SUFFICES ASSUME NEW e \in Range(F) PROVE e \in 1 .. entries_allocated
    OBVIOUS
  <2>1. e \in Entries /\ InFree(F, e)
    BY <1>6, <1>9 DEF InFree
  <2>2. e <= entries_allocated
    BY <1>2, <1>3, <2>1 DEF HeapOK, Covered
  <2>3. entries_allocated \in Nat
    BY <1>2, <1>3 DEF HeapOK, MailHeaps
  <2> QED BY <2>1, <2>2, <2>3, MailNumbers DEF Entries
<1>13. PICK list : list = [p \in MailPids |-> ListOf(p)]
  OBVIOUS
<1>14. \A p \in MailPids : list[p] = L[p]
  BY <1>4, <1>13
<1>15. ASSUME NEW e \in Entries
       PROVE  {p \in MailPids : e \in Range(list[p])} = {p \in MailPids : e \in Range(L[p])}
  BY <1>14
<1>16. ListsWhole
  <2>1. \A p \in MailPids : Whole(queue[p], list[p])
    BY <1>7, <1>14
  <2>2. \A e \in Entries :
           Cardinality({p \in MailPids : e \in Range(list[p])})
             = IF e <= entries_allocated /\ e \notin Range(F) THEN 1 ELSE 0
    BY <1>11, <1>15
  <2> QED BY <1>5, <1>8, <1>12, <1>13, <2>1, <2>2 DEF ListsWhole
<1> QED BY <1>16 DEF ListsSound, HeapIsHighWater, MailInv

(* In every reachable heap each queue is what its links and its counter    *)
(* say, forwards and backwards, no entry is in two lists or in a list and  *)
(* free, and none of the allocated ones is lost (ipc.c: queue_add_tail,    *)
(* queue_remove_entry, queue_alloc_entry, queue_free_entry).               *)
THEOREM MailListsAreSound == MailSpec => []ListsSound
<1>1. MailInit => MailInv
  BY MailStarts
<1>2. MailInv /\ [MailNext]_mailVars => MailInv'
  BY MailSteps
<1>3. MailInv => ListsSound
  BY InvListsSound
<1> QED BY <1>1, <1>2, <1>3, PTL DEF MailSpec

(* The pointer-level operations of ipc.c implement the mailboxes of        *)
(* Mailbox: a send appends, a receive takes the oldest message that its    *)
(* filter allows, and the death of a process drops its queue, whatever the *)
(* state of the shared pool of entries.                                    *)
THEOREM IpcImplementsMailbox == MailSpec => KeepsMailboxes
<1>1. MailInit => MailInv /\ M!Init
  BY MailStarts
<1>2. MailInv /\ [MailNext]_mailVars => MailInv' /\ [M!Next]_M!mailVars
  BY MailSteps
<1> QED BY <1>1, <1>2, PTL DEF MailSpec, KeepsMailboxes, M!Spec
=============================================================================

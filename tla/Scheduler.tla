----------------------------- MODULE Scheduler -----------------------------
(***************************************************************************)
(* The preemptive scheduler (kernel/src/scheduler.c, default round-robin   *)
(* arm with SCHED_IO_BOOST): a rotation over the process table, driven by  *)
(* the timer tick and by yields, exits and interrupts, into which          *)
(* processes whose input has just arrived are inserted out of turn.        *)
(*                                                                         *)
(* Every step is one interrupt or one system call, which run with          *)
(* interrupts off.  What the process table and the scheduler's statics     *)
(* hold is one record, sch, because a timer tick may dispatch twice: the   *)
(* operators below take such a record to the next one.  Whether bytes or   *)
(* keys are waiting, and which process sends to which, is left open.       *)
(*                                                                         *)
(* pid 0 is the boot flow, whose loop reaps; pid 1 is idle; Net is the     *)
(* network thread, and stands for the monitor's thread too.  None of the   *)
(* three ever ends.  A READY process always has a saved context, pid 0     *)
(* from its first preemption on.                                           *)
(***************************************************************************)
EXTENDS Naturals, FiniteSets

CONSTANTS N,         \* MAX_PROCESSES (256)
          K,         \* SCHED_BOOST_MAX_CONSEC (2)
          Quantum,   \* SCHED_QUANTUM_TICKS (5)
          Limited,   \* pids whose manifest declares a CPU limit ...
          CpuLimit,  \* ... and the limit, in ticks
          Vsock,     \* whether the machine has the vsock console device
          MaxGen,    \* bound on the incarnations of a pid
          MaxWait    \* bound on the history of waiting, 0 = not kept

Pids == 0 .. (N - 1)
KERNEL == 0
IDLE == 1
Net == 2
Users == Pids \ {KERNEL, IDLE, Net}

ASSUME NAssumption == N \in Nat /\ N >= 3
ASSUME KAssumption == K \in Nat
ASSUME QuantumAssumption == Quantum \in Nat \ {0}
ASSUME LimitAssumption == Limited \subseteq Users /\ CpuLimit \in Nat \ {0}
ASSUME VsockAssumption == Vsock \in BOOLEAN
ASSUME BoundsAssumption == MaxGen \in Nat /\ MaxWait \in Nat

VARIABLES sch,         \* process states, io_boost flags, current process,
                       \*   rr_cursor, consec_boost, quantum_counter; and the
                       \*   history waited, see below
          generation,  \* process_generation[]
          cpu,         \* manifest cpu_ticks
          holder,      \* com2_holder_pid, com2_holder_gen
          reader,      \* cons_reader_pid, cons_reader_gen, cons_reader_waiting
          watch        \* the process whose waiting the history follows

vars == <<sch, generation, cpu, holder, reader, watch>>

NoHolder == [pid |-> 0, gen |-> 0]
NoReader == [pid |-> 0, gen |-> 0, waiting |-> FALSE]

(* When the timer is attached: only the boot flow and kernel threads.      *)
Init ==
  /\ sch = [state   |-> [p \in Pids |-> IF p = KERNEL THEN "RUNNING"
                                        ELSE IF p \in Users THEN "UNUSED" ELSE "READY"],
            boost   |-> [p \in Pids |-> FALSE],
            cur     |-> KERNEL,
            cursor  |-> 0,
            consec  |-> 0,
            quantum |-> 0,
            waited  |-> 0]
  /\ generation = [p \in Pids |-> 0]
  /\ cpu = [p \in Pids |-> 0]
  /\ holder = NoHolder
  /\ reader = NoReader
  /\ watch \in Pids \ {IDLE}
-----------------------------------------------------------------------------
(* pick_next(): the scans start after a pid and wrap around.               *)
Distance(a, p) == IF p > a THEN p - a ELSE p + N - a
NearestAfter(a, S) == CHOOSE p \in S : \A q \in S : Distance(a, p) <= Distance(a, q)

Ready(s) == {p \in Pids : s.state[p] = "READY"}
Rotation(s) == Ready(s) \ {IDLE}
Boosted(s) == {p \in Rotation(s) : s.boost[p]}

pick_was_boost(s) == s.consec < K /\ Boosted(s) # {}

(* Mutant (#335): the rotation resumes after the running process.          *)
PlainAfterCurrent(s) == NearestAfter(s.cur, Rotation(s))
PlainPick(s) == NearestAfter(s.cursor, Rotation(s))
pick_next(s) ==
  IF pick_was_boost(s) THEN NearestAfter(s.cur, Boosted(s))
  ELSE IF Rotation(s) # {} THEN PlainPick(s) ELSE IDLE

(* The history: dispatches of others since the watched process became READY*)
Waited(s, next) ==
  IF next = watch \/ s.state[watch] # "READY" THEN 0
  ELSE IF s.waited < MaxWait THEN s.waited + 1 ELSE s.waited

(* process_switch_to() and pick_commit(), from state s to process next;    *)
(* the process that is left gets the state old.                            *)
Dispatch(s, next, old) ==
  [state   |-> [s.state EXCEPT ![s.cur] = old, ![next] = "RUNNING"],
   boost   |-> [s.boost EXCEPT ![next] = FALSE],
   cur     |-> next,
   cursor  |-> IF pick_was_boost(s) THEN s.cursor ELSE next,
   consec  |-> IF pick_was_boost(s) THEN s.consec + 1 ELSE 0,
   quantum |-> 0,
   waited  |-> Waited(s, next)]

scheduler_reschedule(s) ==
  IF Ready(s) = {} THEN [s EXCEPT !.quantum = 0]
  ELSE Dispatch(s, pick_next(s), "READY")

(* The current process has ended.  Only where something is runnable: the   *)
(* code panics otherwise (property AlwaysRunnable).                        *)
scheduler_kill_current(s) == Dispatch(s, pick_next(s), "TERMINATED")

(* scheduler_boost_if_ready()                                              *)
Flag(s, p) ==
  IF s.state[p] = "READY" THEN [s EXCEPT !.boost[p] = TRUE] ELSE s
-----------------------------------------------------------------------------
(* SYS_YIELD, from a citizen or the network thread.                        *)
Yield ==
  /\ sch.cur \in Users \cup {Net}
  /\ sch' = scheduler_reschedule(sch)
  /\ UNCHANGED <<generation, cpu, holder, reader, watch>>

(* SYS_EXIT, or a contained fault.                                         *)
Exit ==
  /\ sch.cur \in Users
  /\ Ready(sch) # {}
  /\ sch' = scheduler_kill_current(sch)
  /\ UNCHANGED <<generation, cpu, holder, reader, watch>>

(* A process is created in the first free slot; start_slot() registers it  *)
(* as the COM2 holder when its service has the COM2 grant.                 *)
Free == {p \in Users : sch.state[p] = "UNUSED"}
Create(com2) ==
  /\ sch.cur # IDLE
  /\ Free # {}
  /\ \E p \in Free :
       /\ \A q \in Free : p <= q
       /\ generation[p] < MaxGen
       /\ sch' = [sch EXCEPT !.state[p] = "READY", !.boost[p] = FALSE,
                             !.waited = IF p = watch THEN 0 ELSE @]
       /\ generation' = [generation EXCEPT ![p] = @ + 1]
       /\ cpu' = [cpu EXCEPT ![p] = 0]
       /\ holder' = IF com2 THEN [pid |-> p, gen |-> generation[p] + 1] ELSE holder
  /\ UNCHANGED <<reader, watch>>

(* process_destroy() of the processes in D.                                *)
ClearRegistrations(D) ==
  /\ holder' = IF holder.pid \in D THEN NoHolder ELSE holder
  /\ reader' = IF reader.pid \in D THEN NoReader ELSE reader
Destroy(D) ==
  /\ sch' = [sch EXCEPT !.state = [p \in Pids |-> IF p \in D THEN "UNUSED" ELSE @[p]],
                        !.waited = IF watch \in D THEN 0 ELSE @]
  /\ cpu' = [p \in Pids |-> IF p \in D THEN 0 ELSE cpu[p]]
  /\ ClearRegistrations(D)
  /\ UNCHANGED <<generation, watch>>

(* process_reap(), in the loop of pid 0 ...                                *)
Reap ==
  /\ sch.cur = KERNEL
  /\ {p \in Pids : sch.state[p] = "TERMINATED"} # {}
  /\ Destroy({p \in Pids : sch.state[p] = "TERMINATED"})
(* ... and service_stop(), by the monitor, of any other process.           *)
Stop(p) ==
  /\ sch.cur \notin {KERNEL, IDLE}
  /\ p \in Users \ {sch.cur}
  /\ sch.state[p] # "UNUSED"
  /\ Destroy({p})

(* A message or a packet is delivered to p, or Net is kicked.              *)
Deliver(p) ==
  /\ sch.cur # IDLE
  /\ sch' = Flag(sch, p)
  /\ UNCHANGED <<generation, cpu, holder, reader, watch>>

(* SYS_CONS_READ; empty: no key was waiting.                               *)
ConsRead(empty) ==
  /\ sch.cur \in Users
  /\ reader' = [pid |-> sch.cur, gen |-> generation[sch.cur], waiting |-> empty]
  /\ UNCHANGED <<sch, generation, cpu, holder, watch>>

(* scheduler_console_rx() with a key pending: it hands the CPU to a reader *)
(* that is parked waiting for one, and once per wait.                      *)
Parked(s) ==
  /\ reader.pid # 0 /\ reader.waiting
  /\ generation[reader.pid] = reader.gen
  /\ s.state[reader.pid] = "READY"
scheduler_console_rx(s) == scheduler_reschedule(Flag(s, reader.pid))

ConsoleRx ==
  /\ Parked(sch)
  /\ sch' = scheduler_console_rx(sch)
  /\ reader' = [reader EXCEPT !.waiting = FALSE]
  /\ UNCHANGED <<generation, cpu, holder, watch>>

(* scheduler_net_rx(), in the network card's interrupt.                    *)
NetRx ==
  /\ sch.state[Net] = "READY"
  /\ sch' = scheduler_reschedule(Flag(sch, Net))
  /\ UNCHANGED <<generation, cpu, holder, reader, watch>>

(* com2_rx_boost_check(): bytes for the COM2 holder, READY or running.     *)
Com2Flag(s) ==
  IF /\ holder.pid # 0
     /\ generation[holder.pid] = holder.gen
     /\ s.state[holder.pid] \in {"READY", "RUNNING"}
  THEN [s EXCEPT !.boost[holder.pid] = TRUE] ELSE s

(* The CPU accounting and the kill of a process over its budget.           *)
BudgetCheckedLate(p) == p \in Limited /\ cpu[p] >= CpuLimit   \* mutant
OverBudget(p) == p \in Limited /\ cpu[p] + 1 >= CpuLimit

(* The end of the slice: at once when a boosted process waits, otherwise   *)
(* when the quantum is used up.                                            *)
SliceEnds(s) == s.quantum + 1 >= Quantum \/ Boosted(s) # {}

(* What scheduler_tick() does after the vsock poll.                        *)
Kills(s) == OverBudget(s.cur) /\ Ready(s) # {}
RestOfTick(s) ==
  /\ cpu' = [cpu EXCEPT ![s.cur] =
               IF Kills(s) \/ s.cur \notin Limited THEN 0 ELSE @ + 1]
  /\ sch' = IF Kills(s) THEN scheduler_kill_current(s)
            ELSE IF SliceEnds(s) THEN scheduler_reschedule(s)
            ELSE [s EXCEPT !.quantum = @ + 1]

(* scheduler_tick(); com2: bytes wait on COM2, vsock: the vsock poll       *)
(* brought console input.                                                  *)
Tick(com2, vsock) ==
  LET s == IF com2 THEN Com2Flag(sch) ELSE sch IN
  /\ \/ /\ vsock /\ Parked(s)
        /\ reader' = [reader EXCEPT !.waiting = FALSE]
        /\ RestOfTick(scheduler_console_rx(s))
     \/ /\ ~ (vsock /\ Parked(s))
        /\ UNCHANGED reader
        /\ RestOfTick(s)
  /\ UNCHANGED <<generation, holder, watch>>

Timer == \E com2 \in BOOLEAN, vsock \in {FALSE, Vsock} : Tick(com2, vsock)

Next ==
  \/ Yield \/ Exit \/ Reap \/ ConsoleRx \/ NetRx \/ Timer
  \/ \E com2 \in BOOLEAN : Create(com2)
  \/ \E p \in Pids : Stop(p) \/ Deliver(p)
  \/ \E empty \in BOOLEAN : ConsRead(empty)

Spec == Init /\ [][Next]_vars

(* The timer interrupt keeps coming.                                       *)
FairSpec == Spec /\ WF_vars(Timer)
-----------------------------------------------------------------------------
Schedules ==
  [state : [Pids -> {"UNUSED", "READY", "RUNNING", "TERMINATED"}],
   boost : [Pids -> BOOLEAN], cur : Pids, cursor : Pids,
   consec : 0 .. K, quantum : 0 .. (Quantum - 1), waited : Nat]

TypeOK ==
  /\ sch \in Schedules
  /\ generation \in [Pids -> Nat]
  /\ cpu \in [Pids -> Nat]
  /\ holder \in [pid : Pids, gen : Nat]
  /\ reader \in [pid : Pids, gen : Nat, waiting : BOOLEAN]
  /\ watch \in Pids \ {IDLE}

(* Exactly the current process is RUNNING, across two dispatches in one    *)
(* tick, kills and destructions; and the boot flow, which never ends, is   *)
(* READY whenever another process runs, so scheduler_kill_current never    *)
(* panics for want of a successor.                                         *)
AlwaysRunnable ==
  /\ \A p \in Pids : sch.state[p] = "RUNNING" <=> p = sch.cur
  /\ sch.state[KERNEL] \in {"READY", "RUNNING"}

(* Bounded overtaking: scheduler.h promises that a rotation completes      *)
(* "within ~3N picks" whatever is boosted.  A READY process is dispatched  *)
(* after at most (K + 1) * (number of pids in the rotation) - 1 others     *)
(* (pick_next, pick_commit, rr_cursor; #335).                              *)
BoundedWait == sch.waited < (K + 1) * (N - 1)

(* A registration for the COM2 or keystroke boost never outlives its       *)
(* process: a recycled pid does not inherit it (process_destroy).          *)
Fresh(r) == r.pid # 0 => /\ sch.state[r.pid] # "UNUSED"
                         /\ generation[r.pid] = r.gen
RegistrationsFresh == Fresh(holder) /\ Fresh(reader)

(* What the rotation promises and what it takes for granted, together.     *)
SchedulingSound == BoundedWait /\ AlwaysRunnable /\ RegistrationsFresh

(* A process that is not dead is below its CPU limit: the tick that uses   *)
(* the limit up kills it (scheduler_tick, manifest_over_budget).           *)
BudgetHolds ==
  \A p \in Limited : sch.state[p] \in {"READY", "RUNNING"} => cpu[p] < CpuLimit

(* A plain slice is bounded to one tick while a boosted process waits      *)
(* (scheduler.h, #335): no tick passes over a flagged READY process        *)
(* without a dispatch of it or of another.                                 *)
OneTickSlices ==
  [][(/\ Timer
      /\ sch.state[watch] = "READY" /\ sch.boost[watch]
      /\ sch'.state[watch] = "READY" /\ sch'.boost[watch])
        => sch'.waited > sch.waited]_vars

(* scheduler.c (pick_next): "a boost ping-pong can never starve the        *)
(* rotation".  A READY process eventually runs.                            *)
NoStarvation ==
  (sch.state[watch] = "READY") ~> (sch.state[watch] # "READY")

(* No process starves, whatever the others and the devices do, if the      *)
(* ticks that hand the CPU to the console reader on vsock input eventually *)
(* stop (pick_next's forced plain pick and the cursor of the rotation).    *)
RotationAdvances ==
  <>[][~ (Parked(sch) /\ \E com2 \in BOOLEAN : Tick(com2, TRUE))]_vars => NoStarvation
=============================================================================

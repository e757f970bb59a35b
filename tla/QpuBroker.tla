----------------------------- MODULE QpuBroker -----------------------------
(***************************************************************************)
(* The kernel's QPU job broker (kernel/src/qpu.c): a fixed table of jobs   *)
(* that submitters fill and poll and that an executor fetches from and     *)
(* completes into, swept whenever a process is destroyed.  Every operation *)
(* runs with interrupts off, so each is one step.                          *)
(*                                                                         *)
(* A process incarnation holds the submit right, the execute right, or     *)
(* neither, never both (service.c mints them apart).  Circuit and result   *)
(* bytes are opaque to the kernel; a circuit is represented by the         *)
(* submission it came with, <<pid, generation, job_id>>, and a result by   *)
(* the circuit it was computed from.                                       *)
(***************************************************************************)
EXTENDS Naturals, FiniteSets

CONSTANTS Pids,         \* process slots
          Jobs,         \* the slots of jobs[]: 0 .. QPU_MAX_JOBS - 1
          InflightMax,  \* QPU_INFLIGHT_MAX (2)
          QsubMax,      \* qsub_max of the submitters' manifests, 0 = unlimited
          MaxIds,       \* bound on job ids: the run stops before they wrap
          MaxGen        \* bound on the incarnations of a pid

ASSUME JobsAssumption == Jobs \subseteq Nat /\ IsFiniteSet(Jobs)
ASSUME PidsAssumption == Pids \subseteq Nat /\ IsFiniteSet(Pids)
ASSUME NumbersAssumption ==
  InflightMax \in Nat /\ QsubMax \in Nat /\ MaxIds \in Nat /\ MaxGen \in Nat

VARIABLES proc,         \* process table: state, generation and QPU right
          used,         \* manifest_table[].qsub_used
          jobs,         \* the job table
          next_job_id,
          work          \* ring 3: what each executor has fetched

vars == <<proc, used, jobs, next_job_id, work>>

NoCircuit == <<0, 0, 0>>
Forged == <<0, 0, 1>>     \* a result that no fetched circuit produced

FreeJob == [state |-> "FREE", orphaned |-> FALSE, status |-> "NONE", job_id |-> 0,
            owner_pid |-> 0, owner_generation |-> 0,
            executor_pid |-> 0, executor_generation |-> 0,
            circuit |-> NoCircuit, result |-> NoCircuit]

Init ==
  /\ proc = [p \in Pids |-> [state |-> "UNUSED", generation |-> 0, right |-> "none"]]
  /\ used = [p \in Pids |-> 0]
  /\ jobs = [i \in Jobs |-> FreeJob]
  /\ next_job_id = 1
  /\ work = [p \in Pids |-> {}]

Present(p, g) == p \in Pids /\ proc[p].state # "UNUSED" /\ proc[p].generation = g
Runs(p, right) == proc[p].state = "LIVE" /\ proc[p].right = right
-----------------------------------------------------------------------------
(* Processes come and go; which free pid a new one gets depends on all the *)
(* others.  A new incarnation starts with no quota used.                   *)
Spawn(p, right) ==
  /\ proc[p].state = "UNUSED"
  /\ proc[p].generation < MaxGen
  /\ proc' = [proc EXCEPT ![p] = [state |-> "LIVE", right |-> right,
                                  generation |-> @.generation + 1]]
  /\ used' = [used EXCEPT ![p] = 0]
  /\ work' = [work EXCEPT ![p] = {}]
  /\ UNCHANGED <<jobs, next_job_id>>

Exit(p) ==
  /\ proc[p].state = "LIVE"
  /\ proc' = [proc EXCEPT ![p].state = "TERMINATED"]
  /\ UNCHANGED <<used, jobs, next_job_id, work>>

(* What qpu_on_process_destroy() makes of a job when pid is destroyed.     *)
Executing(j, pid) == j.executor_pid = pid /\ j.state = "RUNNING"
SweptAsOwner(j) ==
  IF j.state = "RUNNING" THEN [j EXCEPT !.orphaned = TRUE] ELSE FreeJob
SweptAsExecutor(j) ==
  IF j.orphaned THEN FreeJob
  ELSE [j EXCEPT !.state = "DONE", !.status = "EXECFAIL", !.result = NoCircuit]
(* Mutant: the sweep forgets the jobs the dead process was executing.      *)
SweepOwnerOnly(j, pid) ==
  IF j.state # "FREE" /\ j.owner_pid = pid THEN SweptAsOwner(j) ELSE j
Swept(j, pid) ==
  IF j.state = "FREE" THEN j
  ELSE IF j.owner_pid = pid THEN SweptAsOwner(j)
  ELSE IF Executing(j, pid) THEN SweptAsExecutor(j)
  ELSE j

(* process_destroy(), by the reaper for a process that has exited or by    *)
(* service_stop() for one that still runs.                                 *)
Destroy(p) ==
  /\ proc[p].state # "UNUSED"
  /\ proc' = [proc EXCEPT ![p].state = "UNUSED", ![p].right = "none"]
  /\ jobs' = [i \in Jobs |-> Swept(jobs[i], p)]
  /\ used' = [used EXCEPT ![p] = 0]
  /\ work' = [work EXCEPT ![p] = {}]
  /\ UNCHANGED next_job_id
-----------------------------------------------------------------------------
FreeJobs == {i \in Jobs : jobs[i].state = "FREE"}
FirstFreeJob == CHOOSE i \in FreeJobs : \A k \in FreeJobs : i <= k
Inflight(p) == {i \in Jobs : jobs[i].state # "FREE" /\ jobs[i].owner_pid = p}

manifest_qsub_precheck(p) == QsubMax = 0 \/ used[p] < QsubMax

qpu_submit(p) ==
  /\ Runs(p, "submit")
  /\ manifest_qsub_precheck(p)
  /\ Cardinality(Inflight(p)) < InflightMax
  /\ FreeJobs # {}
  /\ next_job_id < MaxIds
  /\ jobs' = [jobs EXCEPT ![FirstFreeJob] =
                [FreeJob EXCEPT !.state = "PENDING", !.job_id = next_job_id,
                   !.owner_pid = p, !.owner_generation = proc[p].generation,
                   !.circuit = <<p, proc[p].generation, next_job_id>>]]
  /\ next_job_id' = next_job_id + 1
  /\ used' = [used EXCEPT ![p] = @ + 1]
  /\ UNCHANGED <<proc, work>>

(* The oldest pending job, the one with the smallest id.                   *)
Oldest(i) ==
  /\ jobs[i].state = "PENDING"
  /\ \A k \in Jobs : jobs[k].state = "PENDING" => jobs[i].job_id <= jobs[k].job_id

qpu_fetch(p) ==
  /\ Runs(p, "execute")
  /\ \E i \in Jobs :
       /\ Oldest(i)
       /\ jobs' = [jobs EXCEPT ![i].state = "RUNNING", ![i].executor_pid = p,
                               ![i].executor_generation = proc[p].generation]
       /\ work' = [work EXCEPT ![p] = @ \cup {jobs[i].circuit}]
  /\ UNCHANGED <<proc, used, next_job_id>>

(* The completer must be the incarnation that fetched the job.             *)
IsExecutor(j, p) ==
  j.executor_pid = p /\ j.executor_generation = proc[p].generation

(* What executor p returns for a job: a result computed from the circuit   *)
(* it fetched under that id, or something made up if it fetched none.      *)
ResultOf(p, id) ==
  IF \E c \in work[p] : c[3] = id THEN CHOOSE c \in work[p] : c[3] = id ELSE Forged

(* Mutant: an orphaned job is completed like any other.                    *)
CompleteOrphanToo(j, p, status) ==
  [j EXCEPT !.state = "DONE", !.status = status, !.result = ResultOf(p, j.job_id)]
Completed(j, p, status) ==
  IF j.orphaned THEN FreeJob
  ELSE [j EXCEPT !.state = "DONE", !.status = status,
                 !.result = ResultOf(p, j.job_id)]

qpu_complete(p, status) ==
  /\ Runs(p, "execute")
  /\ \E i \in Jobs :
       /\ jobs[i].state = "RUNNING"
       /\ IsExecutor(jobs[i], p)
       /\ jobs' = [jobs EXCEPT ![i] = Completed(@, p, status)]
  /\ UNCHANGED <<proc, used, next_job_id, work>>

IsOwner(j, p) == j.owner_pid = p /\ j.owner_generation = proc[p].generation

(* The only poll that changes anything: it takes the result and frees the  *)
(* slot.                                                                   *)
qpu_poll(p, id) ==
  /\ Runs(p, "submit")
  /\ \E i \in Jobs :
       /\ jobs[i].state = "DONE"
       /\ jobs[i].job_id = id
       /\ IsOwner(jobs[i], p)
       /\ jobs' = [jobs EXCEPT ![i] = FreeJob]
  /\ UNCHANGED <<proc, used, next_job_id, work>>

Next ==
  \E p \in Pids :
    \/ \E r \in {"none", "submit", "execute"} : Spawn(p, r)
    \/ Exit(p) \/ Destroy(p)
    \/ qpu_submit(p) \/ qpu_fetch(p)
    \/ \E st \in {"OK", "EXECFAIL"} : qpu_complete(p, st)
    \/ \E i \in Jobs : qpu_poll(p, jobs[i].job_id)

Spec == Init /\ [][Next]_vars

(* An executor that lives finishes what it fetched, and a process that has *)
(* died is reaped.                                                         *)
Fairness ==
  /\ \A p \in Pids : WF_vars(proc[p].state = "TERMINATED" /\ Destroy(p))
  /\ \A p \in Pids : WF_vars(\E st \in {"OK", "EXECFAIL"} : qpu_complete(p, st))
FairSpec == Spec /\ Fairness
-----------------------------------------------------------------------------
Circuits == Nat \X Nat \X Nat
JobRecords ==
  [state : {"FREE", "PENDING", "RUNNING", "DONE"}, orphaned : BOOLEAN,
   status : {"NONE", "OK", "EXECFAIL"}, job_id : Nat,
   owner_pid : Nat, owner_generation : Nat,
   executor_pid : Nat, executor_generation : Nat,
   circuit : Circuits, result : Circuits]

TypeOK ==
  /\ proc \in [Pids -> [state : {"UNUSED", "LIVE", "TERMINATED"},
                        generation : Nat, right : {"none", "submit", "execute"}]]
  /\ used \in [Pids -> Nat]
  /\ QsubMax # 0 => \A p \in Pids : used[p] <= QsubMax
  /\ jobs \in [Jobs -> JobRecords]
  /\ next_job_id \in Nat \ {0}
  /\ work \in [Pids -> SUBSET Circuits]

(* No slot of the table is lost: somebody who can still release it exists. *)
(* A pending or finished job has its owner's incarnation, which can poll   *)
(* or will be swept; a running one has the incarnation that fetched it,    *)
(* and its owner unless it is marked orphaned.  Deaths of owner and        *)
(* executor in either order, and a recycled pid in between, never leave a  *)
(* job RUNNING forever (qpu_on_process_destroy, qpu_complete).             *)
Releasable(j) ==
  /\ j.state \in {"PENDING", "DONE"} =>
       Present(j.owner_pid, j.owner_generation) /\ ~ j.orphaned
  /\ j.state = "RUNNING" =>
       /\ Present(j.executor_pid, j.executor_generation)
       /\ ~ j.orphaned => Present(j.owner_pid, j.owner_generation)
NoSlotLost == \A i \in Jobs : Releasable(jobs[i])

(* A finished job that reports success holds the result computed from the  *)
(* very circuit its owner submitted under that id; another executor, or a  *)
(* reborn one, cannot put a result into the slot (qpu_complete's check).   *)
ResultsAuthentic ==
  \A i \in Jobs : jobs[i].state = "DONE" /\ jobs[i].status = "OK" =>
    /\ jobs[i].result = jobs[i].circuit
    /\ jobs[i].circuit = <<jobs[i].owner_pid, jobs[i].owner_generation, jobs[i].job_id>>

(* The job table as submitters see it: no slot is lost and no answer is    *)
(* somebody else's.                                                        *)
JobsSound == NoSlotLost /\ ResultsAuthentic

(* A process reads and frees only jobs that this incarnation submitted,    *)
(* and a result leaves the table at most once.                             *)
OnlyOwnResults ==
  [][\A p \in Pids, i \in Jobs :
       qpu_poll(p, jobs[i].job_id) /\ jobs'[i] # jobs[i] =>
         /\ jobs[i].circuit = <<p, proc[p].generation, jobs[i].job_id>>
         /\ jobs'[i] = FreeJob]_vars

(* Jobs are executed in the order they were submitted: a job that starts   *)
(* to run is older than every job still waiting (qpu_fetch).               *)
ServedInOrder ==
  [][\A i, k \in Jobs :
       (jobs[i].state = "PENDING" /\ jobs'[i].state = "RUNNING"
          /\ jobs'[k].state = "PENDING") => jobs[i].job_id < jobs'[k].job_id]_vars

(* A job that runs does not run forever: it is finished, failed closed     *)
(* when its executor dies, or scrubbed.                                    *)
JobsSettle ==
  \A n \in 1 .. MaxIds :
    (\E i \in Jobs : jobs[i].job_id = n /\ jobs[i].state = "RUNNING")
      ~> ~ (\E i \in Jobs : jobs[i].job_id = n /\ jobs[i].state = "RUNNING")
=============================================================================

-------------------------- MODULE Components_proofs --------------------------
(***************************************************************************)
(* Proofs about components whose theorems are few: the QPU job broker, the *)
(* exit ledger, the egress grant, ghostd, the swarm plane, the request     *)
(* servers, the aging pick, the agents, and the ports and channels.        *)
(***************************************************************************)
EXTENDS QpuBroker, ExitLedger, Egress, Ghost, Swarm, Servers, Resonant, Agents, Ports,
        LeastNat_proofs
LOCAL INSTANCE FiniteSetsExt

-----------------------------------------------------------------------------
(***************************************************************************)
(* The QPU job broker.  For every number of pids, jobs and submissions: no *)
(* slot of the job table is ever lost, every result that reports success   *)
(* was computed from the circuit its owner submitted, and jobs are served  *)
(* in order.                                                               *)
(*                                                                         *)
(* None of these is inductive alone.  That a slot stays releasable needs   *)
(* an executor never to be (a recycled pid of) the owner, because the      *)
(* sweep looks at the owner first; that rests on the two rights being held *)
(* apart.  That a result is authentic needs what executors remember to     *)
(* agree with the table, which rests on job ids being unique.              *)
(***************************************************************************)
(* What the invariant says of one job.                                     *)
Identified(j) ==
  IF j.state = "FREE" THEN j = FreeJob
  ELSE /\ j.owner_pid \in Pids
       /\ j.circuit = <<j.owner_pid, j.owner_generation, j.job_id>>
       /\ j.job_id < next_job_id
Apart(j) ==
  /\ j.state # "FREE" /\ ~ j.orphaned => proc[j.owner_pid].right = "submit"
  /\ j.state = "RUNNING" => /\ j.executor_pid # j.owner_pid
                            /\ j.circuit \in work[j.executor_pid]
Authentic(j) == j.state = "DONE" /\ j.status = "OK" => j.result = j.circuit

JobOK(j) == Identified(j) /\ Releasable(j) /\ Apart(j) /\ Authentic(j)
JobsOK == \A i \in Jobs : JobOK(jobs[i])

(* ... of two jobs, and of what executors remember.                        *)
UniqueIds ==
  \A i, k \in Jobs : (jobs[i].state # "FREE" /\ jobs[k].state # "FREE"
                        /\ jobs[i].job_id = jobs[k].job_id) => i = k
WorkIsOld == \A p \in Pids : \A c \in work[p] : c[3] < next_job_id
WorkAgrees ==
  \A p \in Pids : \A c \in work[p] : \A i \in Jobs :
    (jobs[i].state # "FREE" /\ jobs[i].job_id = c[3]) => c = jobs[i].circuit

IInv == TypeOK /\ JobsOK /\ UniqueIds /\ WorkIsOld /\ WorkAgrees
-----------------------------------------------------------------------------
(* The initial state satisfies the invariant.                              *)
LEMMA InitIInv == Init => IInv
  BY JobsAssumption, PidsAssumption, NumbersAssumption
  DEF Init, IInv, TypeOK, JobsOK, JobOK, Identified, Apart, Authentic, Releasable,
      UniqueIds, WorkIsOld, WorkAgrees, FreeJob, NoCircuit, JobRecords, Circuits

(* A new incarnation disturbs no job: whoever a job depends on is present. *)
LEMMA SpawnIInv ==
  ASSUME IInv, NEW p \in Pids, NEW r \in {"none", "submit", "execute"}, Spawn(p, r)
  PROVE  IInv'
<1> DEFINE R == [state : {"UNUSED", "LIVE", "TERMINATED"}, generation : Nat,
                 right : {"none", "submit", "execute"}]
           n == [state |-> "LIVE", right |-> r, generation |-> proc[p].generation + 1]
<1>0. /\ proc \in [Pids -> R] /\ work \in [Pids -> SUBSET Circuits] /\ used \in [Pids -> Nat]
      /\ proc' = [proc EXCEPT ![p] = n]
      /\ work' = [work EXCEPT ![p] = {}]
      /\ used' = [used EXCEPT ![p] = 0]
      /\ n \in R
      /\ UNCHANGED <<jobs, next_job_id>>
  BY DEF IInv, TypeOK, Spawn
<1> HIDE DEF R, n
<1>1. TypeOK'
  <2>1. proc' \in [Pids -> R] /\ work' \in [Pids -> SUBSET Circuits] /\ used' \in [Pids -> Nat]
    BY <1>0
  <2>2. QsubMax # 0 => \A q \in Pids : used'[q] <= QsubMax
    BY <1>0, NumbersAssumption DEF IInv, TypeOK
  <2> QED
    BY <1>0, <2>1, <2>2 DEF IInv, TypeOK, R
<1>2. JobsOK'
  <2> SUFFICES ASSUME NEW i \in Jobs PROVE JobOK(jobs[i])'
    BY DEF JobsOK
  <2>1. JobOK(jobs[i]) /\ jobs' = jobs /\ next_job_id' = next_job_id
    BY DEF IInv, JobsOK, Spawn
  <2>2. \A q \in Pids : q # p => proc'[q] = proc[q] /\ work'[q] = work[q]
    BY <1>0
  <2>3. jobs[i].state \in {"FREE", "PENDING", "RUNNING", "DONE"}
    BY DEF IInv, TypeOK, JobRecords
  <2>4. Releasable(jobs[i])'
    BY <2>1, <2>2 DEF JobOK, Releasable, Present, Spawn
  <2>5. Apart(jobs[i])'
    BY <2>1, <2>2, <2>3 DEF JobOK, Releasable, Present, Apart, Spawn, Identified
  <2> QED
    BY <2>1, <2>4, <2>5 DEF JobOK, Identified, Authentic
<1>3. UniqueIds' /\ WorkIsOld' /\ WorkAgrees'
  <2>1. \A q \in Pids : work'[q] \subseteq work[q]
    BY <1>0
  <2> QED
    BY <1>0, <2>1 DEF IInv, UniqueIds, WorkIsOld, WorkAgrees
<1> QED
  BY <1>1, <1>2, <1>3 DEF IInv

LEMMA ExitIInv ==
  ASSUME IInv, NEW p \in Pids, Exit(p)
  PROVE  IInv'
<1>1. TypeOK'
  BY DEF IInv, TypeOK, Exit
<1>2. JobsOK'
  <2> SUFFICES ASSUME NEW i \in Jobs PROVE JobOK(jobs[i])'
    BY DEF JobsOK
  <2>1. JobOK(jobs[i]) /\ jobs' = jobs /\ next_job_id' = next_job_id /\ work' = work
    BY DEF IInv, JobsOK, Exit
  <2>2. \A q \in Pids : /\ proc'[q].generation = proc[q].generation
                        /\ proc'[q].right = proc[q].right
                        /\ proc[q].state # "UNUSED" => proc'[q].state # "UNUSED"
    BY DEF Exit, IInv, TypeOK
  <2> QED
    BY <2>1, <2>2 DEF JobOK, Identified, Releasable, Present, Apart, Authentic
<1>3. UniqueIds' /\ WorkIsOld' /\ WorkAgrees'
  BY DEF IInv, Exit, UniqueIds, WorkIsOld, WorkAgrees
<1> QED
  BY <1>1, <1>2, <1>3 DEF IInv

(* The sweep: what it makes of one job.                                    *)
LEMMA SweptFacts ==
  ASSUME NEW j \in JobRecords, NEW p \in Pids
  PROVE  /\ Swept(j, p) \in JobRecords
         /\ Swept(j, p) = FreeJob \/ /\ Swept(j, p).job_id = j.job_id
                                     /\ Swept(j, p).circuit = j.circuit
                                     /\ Swept(j, p).owner_pid = j.owner_pid
                                     /\ Swept(j, p).owner_generation = j.owner_generation
                                     /\ Swept(j, p).executor_pid = j.executor_pid
                                     /\ Swept(j, p).executor_generation = j.executor_generation
         /\ j.state = "FREE" => Swept(j, p) = j
         /\ Swept(j, p).state \in {"PENDING", "RUNNING"} => Swept(j, p).state = j.state
  BY DEF Swept, SweptAsOwner, SweptAsExecutor, Executing, JobRecords, FreeJob, Circuits, NoCircuit

LEMMA DestroyIInv ==
  ASSUME IInv, NEW p \in Pids, Destroy(p)
  PROVE  IInv'
<1>1. TypeOK'
  <2>1. \A i \in Jobs : jobs'[i] \in JobRecords
    BY SweptFacts DEF IInv, TypeOK, Destroy
  <2>2. jobs' \in [Jobs -> JobRecords]
    BY <2>1 DEF Destroy
  <2>3. QsubMax # 0 => \A q \in Pids : used'[q] <= QsubMax
    BY NumbersAssumption DEF IInv, TypeOK, Destroy
  <2> QED
    BY <2>2, <2>3 DEF IInv, TypeOK, Destroy
<1>2. JobsOK'
  <2> SUFFICES ASSUME NEW i \in Jobs PROVE JobOK(jobs[i])'
    BY DEF JobsOK
  <2> DEFINE j == jobs[i]
             k == Swept(j, p)
  <2>1. /\ JobOK(j) /\ j \in JobRecords
        /\ jobs'[i] = k
        /\ next_job_id' = next_job_id
    BY DEF IInv, TypeOK, JobsOK, Destroy
  <2>2. \A q \in Pids : q # p => proc'[q] = proc[q] /\ work'[q] = work[q]
    BY DEF Destroy, IInv, TypeOK
  <2>3. CASE k = FreeJob
    BY <2>1, <2>3 DEF JobOK, Identified, Releasable, Apart, Authentic, FreeJob
  <2>4. CASE k = j /\ j.state # "FREE" /\ j.owner_pid # p /\ ~ Executing(j, p)
    BY <2>1, <2>2, <2>4
    DEF JobOK, Identified, Releasable, Present, Apart, Authentic, Executing
  <2>5. CASE j.state = "RUNNING" /\ j.owner_pid = p /\ k = [j EXCEPT !.orphaned = TRUE]
    BY <2>1, <2>2, <2>5
    DEF JobOK, Identified, Releasable, Present, Apart, Authentic, JobRecords
  <2>6. CASE /\ j.owner_pid # p /\ Executing(j, p) /\ ~ j.orphaned
             /\ k = [j EXCEPT !.state = "DONE", !.status = "EXECFAIL",
                              !.result = NoCircuit]
    BY <2>1, <2>2, <2>6
    DEF JobOK, Identified, Releasable, Present, Apart, Authentic, Executing, JobRecords
  <2>7. \/ k = FreeJob
        \/ k = j /\ j.state # "FREE" /\ j.owner_pid # p /\ ~ Executing(j, p)
        \/ j.state = "RUNNING" /\ j.owner_pid = p /\ k = [j EXCEPT !.orphaned = TRUE]
        \/ /\ j.owner_pid # p /\ Executing(j, p) /\ ~ j.orphaned
           /\ k = [j EXCEPT !.state = "DONE", !.status = "EXECFAIL",
                            !.result = NoCircuit]
    BY <2>1 DEF Swept, SweptAsOwner, SweptAsExecutor, JobRecords, JobOK, Identified
  <2> QED
    BY <2>3, <2>4, <2>5, <2>6, <2>7
<1>3. \A i \in Jobs : jobs'[i].state # "FREE" =>
        /\ jobs[i].state # "FREE"
        /\ jobs'[i].job_id = jobs[i].job_id
        /\ jobs'[i].circuit = jobs[i].circuit
  <2> SUFFICES ASSUME NEW i \in Jobs, jobs'[i].state # "FREE"
               PROVE  /\ jobs[i].state # "FREE"
                      /\ jobs'[i].job_id = jobs[i].job_id
                      /\ jobs'[i].circuit = jobs[i].circuit
    OBVIOUS
  <2>1. jobs[i] \in JobRecords /\ jobs'[i] = Swept(jobs[i], p)
    BY DEF IInv, TypeOK, Destroy
  <2>2. FreeJob.state = "FREE"
    BY DEF FreeJob
  <2> QED
    BY <2>1, <2>2, SweptFacts
<1>4. UniqueIds'
  BY <1>3 DEF IInv, UniqueIds
<1>5. \A q \in Pids : work'[q] \subseteq work[q]
  BY DEF IInv, TypeOK, Destroy
<1>6. WorkIsOld' /\ WorkAgrees'
  BY <1>3, <1>5 DEF IInv, WorkIsOld, WorkAgrees, Destroy
<1> QED
  BY <1>1, <1>2, <1>4, <1>6 DEF IInv

(* A submission: the new id is larger than every id in use or remembered.  *)
LEMMA SubmitIInv ==
  ASSUME IInv, NEW p \in Pids, qpu_submit(p)
  PROVE  IInv'
<1> DEFINE f == FirstFreeJob
           n == [FreeJob EXCEPT !.state = "PENDING", !.job_id = next_job_id,
                   !.owner_pid = p, !.owner_generation = proc[p].generation,
                   !.circuit = <<p, proc[p].generation, next_job_id>>]
<1>1. f \in Jobs /\ jobs[f].state = "FREE"
  <2>1. FreeJobs # {} /\ FreeJobs \subseteq Jobs /\ FreeJobs \subseteq Nat
    BY JobsAssumption DEF qpu_submit, FreeJobs
  <2>2. PICK i \in FreeJobs : \A k \in FreeJobs : i <= k
    BY <2>1, LeastExists
  <2> QED
    BY <2>2 DEF FirstFreeJob, FreeJobs
<1>2. /\ n \in JobRecords /\ n.state = "PENDING" /\ ~ n.orphaned
      /\ n.job_id = next_job_id /\ n.owner_pid = p
      /\ n.owner_generation = proc[p].generation
      /\ n.circuit = <<p, proc[p].generation, next_job_id>>
  BY PidsAssumption DEF IInv, TypeOK, JobRecords, FreeJob, Circuits, NoCircuit
<1>3. /\ jobs' = [jobs EXCEPT ![f] = n]
      /\ next_job_id' = next_job_id + 1
      /\ used' = [used EXCEPT ![p] = @ + 1]
      /\ UNCHANGED <<proc, work>>
      /\ jobs \in [Jobs -> JobRecords] /\ used \in [Pids -> Nat] /\ next_job_id \in Nat \ {0}
      /\ proc[p].state = "LIVE" /\ proc[p].right = "submit"
  BY DEF qpu_submit, Runs, IInv, TypeOK
<1> HIDE DEF f, n
<1>4. TypeOK'
  <2>1. QsubMax # 0 => \A q \in Pids : used'[q] <= QsubMax
    BY <1>3, NumbersAssumption DEF IInv, TypeOK, qpu_submit, manifest_qsub_precheck
  <2>2. jobs' \in [Jobs -> JobRecords] /\ used' \in [Pids -> Nat] /\ next_job_id' \in Nat \ {0}
    BY <1>1, <1>2, <1>3
  <2> QED
    BY <1>3, <2>1, <2>2 DEF IInv, TypeOK
<1>5. JobsOK'
  <2> SUFFICES ASSUME NEW i \in Jobs PROVE JobOK(jobs[i])'
    BY DEF JobsOK
  <2>1. CASE i = f
    BY <1>1, <1>2, <1>3, <2>1
    DEF JobOK, Identified, Releasable, Present, Apart, Authentic
  <2>2. CASE i # f
    <3>1. jobs'[i] = jobs[i] /\ JobOK(jobs[i]) /\ jobs[i] \in JobRecords
      BY <1>3, <2>2 DEF IInv, JobsOK
    <3>2. Identified(jobs[i])'
      BY <1>3, <3>1 DEF JobOK, Identified, JobRecords
    <3> QED
      BY <1>3, <3>1, <3>2 DEF JobOK, Releasable, Present, Apart, Authentic
  <2> QED
    BY <2>1, <2>2
<1>6. \A i \in Jobs : i # f => jobs'[i] = jobs[i]
  BY <1>3
<1>7. jobs'[f] = n
  BY <1>1, <1>3
<1>8. \A i \in Jobs : jobs[i].state # "FREE" => jobs[i].job_id < next_job_id
  BY DEF IInv, JobsOK, JobOK, Identified
<1>9. UniqueIds'
  BY <1>2, <1>3, <1>6, <1>7, <1>8 DEF IInv, UniqueIds
<1>10. WorkIsOld'
  <2> SUFFICES ASSUME NEW q \in Pids, NEW c \in work[q] PROVE c[3] < next_job_id + 1
    BY <1>3 DEF WorkIsOld
  <2>1. c[3] \in Nat /\ c[3] < next_job_id
    BY DEF IInv, TypeOK, Circuits, WorkIsOld
  <2> QED BY <2>1, <1>3
<1>11. WorkAgrees'
  <2> SUFFICES ASSUME NEW q \in Pids, NEW c \in work[q], NEW i \in Jobs,
                      jobs'[i].state # "FREE", jobs'[i].job_id = c[3]
               PROVE  c = jobs'[i].circuit
    BY <1>3 DEF WorkAgrees
  <2>1. c[3] < next_job_id
    BY DEF IInv, WorkIsOld
  <2>2. i # f
    BY <1>2, <1>3, <1>7, <2>1
  <2> QED
    BY <1>6, <2>2 DEF IInv, WorkAgrees
<1> QED
  BY <1>4, <1>5, <1>9, <1>10, <1>11 DEF IInv

(* A fetch: the executor remembers the circuit it was given, and it is not *)
(* the owner, who holds the other right.                                   *)
LEMMA FetchIInv ==
  ASSUME IInv, NEW p \in Pids, qpu_fetch(p)
  PROVE  IInv'
<1>1. PICK f \in Jobs :
        /\ Oldest(f)
        /\ jobs' = [jobs EXCEPT ![f].state = "RUNNING", ![f].executor_pid = p,
                                ![f].executor_generation = proc[p].generation]
        /\ work' = [work EXCEPT ![p] = @ \cup {jobs[f].circuit}]
  BY DEF qpu_fetch
<1> DEFINE j == jobs[f]
           n == [j EXCEPT !.state = "RUNNING", !.executor_pid = p,
                          !.executor_generation = proc[p].generation]
<1>2. /\ jobs \in [Jobs -> JobRecords] /\ work \in [Pids -> SUBSET Circuits]
      /\ j \in JobRecords /\ j.state = "PENDING" /\ JobOK(j)
      /\ proc[p].state = "LIVE" /\ proc[p].right = "execute" /\ proc[p].generation \in Nat
      /\ UNCHANGED <<proc, used, next_job_id>>
  BY <1>1 DEF IInv, TypeOK, JobsOK, qpu_fetch, Runs, Oldest
<1>3. /\ jobs' = [jobs EXCEPT ![f] = n]
      /\ n \in JobRecords /\ n.state = "RUNNING" /\ n.executor_pid = p
      /\ n.executor_generation = proc[p].generation
      /\ n.orphaned = j.orphaned /\ n.job_id = j.job_id /\ n.circuit = j.circuit
      /\ n.owner_pid = j.owner_pid /\ n.owner_generation = j.owner_generation
  BY <1>1, <1>2, PidsAssumption DEF JobRecords
<1>4. j.circuit \in Circuits
  BY <1>2 DEF JobRecords
<1> HIDE DEF j, n
<1>5. /\ jobs'[f] = n
      /\ \A i \in Jobs : i # f => jobs'[i] = jobs[i]
      /\ \A q \in Pids : q # p => work'[q] = work[q]
      /\ work'[p] = work[p] \cup {j.circuit}
  BY <1>1, <1>2, <1>3 DEF j
<1>6. TypeOK'
  <2>1. jobs' \in [Jobs -> JobRecords] /\ work' \in [Pids -> SUBSET Circuits]
    <3>1. work' = [work EXCEPT ![p] = @ \cup {j.circuit}]
      BY <1>1 DEF j
    <3> QED
      BY <1>2, <1>3, <1>4, <3>1
  <2> QED
    BY <1>2, <2>1 DEF IInv, TypeOK
<1>7. JobsOK'
  <2> SUFFICES ASSUME NEW i \in Jobs PROVE JobOK(jobs[i])'
    BY DEF JobsOK
  <2>1. CASE i = f
    <3>1. /\ j.owner_pid \in Pids /\ proc[j.owner_pid].right = "submit" /\ ~ j.orphaned
          /\ Present(j.owner_pid, j.owner_generation)
          /\ j.circuit = <<j.owner_pid, j.owner_generation, j.job_id>>
          /\ j.job_id < next_job_id
      BY <1>2 DEF JobOK, Identified, Releasable, Apart
    <3>2. Identified(jobs[i])'
      BY <1>2, <1>3, <1>5, <2>1, <3>1 DEF Identified
    <3>3. Releasable(jobs[i])'
      BY <1>2, <1>3, <1>5, <2>1, <3>1 DEF Releasable, Present
    <3>4. Apart(jobs[i])'
      BY <1>2, <1>3, <1>5, <2>1, <3>1 DEF Apart
    <3>5. Authentic(jobs[i])'
      BY <1>3, <1>5, <2>1 DEF Authentic
    <3> QED
      BY <3>2, <3>3, <3>4, <3>5 DEF JobOK
  <2>2. CASE i # f
    <3>1. jobs'[i] = jobs[i] /\ JobOK(jobs[i])
      BY <1>5, <2>2 DEF IInv, JobsOK
    <3>2. Releasable(jobs[i])' /\ Identified(jobs[i])' /\ Authentic(jobs[i])'
      BY <1>2, <3>1 DEF JobOK, Releasable, Present, Identified, Authentic
    <3>3. jobs[i].state = "RUNNING" => jobs[i].executor_pid \in Pids
      BY <3>1 DEF JobOK, Releasable, Present
    <3>4. \A q \in Pids : work[q] \subseteq work'[q]
      BY <1>5
    <3>5. Apart(jobs[i])'
      BY <1>2, <3>1, <3>3, <3>4 DEF JobOK, Apart
    <3> QED
      BY <3>2, <3>5 DEF JobOK
  <2> QED
    BY <2>1, <2>2
<1>8. \A i \in Jobs : /\ jobs'[i].state # "FREE" <=> jobs[i].state # "FREE"
                      /\ jobs'[i].job_id = jobs[i].job_id
                      /\ jobs'[i].circuit = jobs[i].circuit
  BY <1>2, <1>3, <1>5 DEF j
<1>9. UniqueIds'
  BY <1>8 DEF IInv, UniqueIds
<1>10. j.circuit[3] = j.job_id /\ j.job_id < next_job_id
  BY <1>2 DEF JobOK, Identified
<1>11. WorkIsOld'
  BY <1>2, <1>5, <1>10 DEF IInv, WorkIsOld
<1>12. WorkAgrees'
  <2> SUFFICES ASSUME NEW q \in Pids, NEW c \in work'[q], NEW i \in Jobs,
                      jobs[i].state # "FREE", jobs[i].job_id = c[3]
               PROVE  c = jobs[i].circuit
    BY <1>8 DEF WorkAgrees
  <2>1. CASE c \in work[q]
    BY <2>1 DEF IInv, WorkAgrees
  <2>2. CASE c = j.circuit
    <3>1. i = f
      BY <1>2, <1>10, <2>2 DEF IInv, UniqueIds, j
    <3> QED
      BY <2>2, <3>1 DEF j
  <2> QED
    BY <1>5, <2>1, <2>2
<1> QED
  BY <1>6, <1>7, <1>9, <1>11, <1>12 DEF IInv

(* What an executor returns for a job it fetched is that job's circuit.    *)
LEMMA ResultIsCircuit ==
  ASSUME IInv, NEW p \in Pids, NEW i \in Jobs,
         jobs[i].state = "RUNNING", IsExecutor(jobs[i], p)
  PROVE  ResultOf(p, jobs[i].job_id) = jobs[i].circuit
<1>1. jobs[i].circuit \in work[p] /\ jobs[i].circuit[3] = jobs[i].job_id
  BY DEF IInv, JobsOK, JobOK, Identified, Apart, IsExecutor
<1>2. \A c \in work[p] : c[3] = jobs[i].job_id => c = jobs[i].circuit
  BY DEF IInv, WorkAgrees
<1> QED
  BY <1>1, <1>2 DEF ResultOf

(* When one job is replaced by a freed one, or by one of the same          *)
(* identity, ids stay unique and remembered work stays right.              *)
LEMMA SameIdentity ==
  ASSUME IInv, NEW f \in Jobs, NEW n,
         jobs' = [jobs EXCEPT ![f] = n], UNCHANGED <<work, next_job_id>>,
         n.state # "FREE" => /\ jobs[f].state # "FREE"
                             /\ n.job_id = jobs[f].job_id
                             /\ n.circuit = jobs[f].circuit
  PROVE  UniqueIds' /\ WorkIsOld' /\ WorkAgrees'
<1>1. \A i \in Jobs : jobs'[i].state # "FREE" =>
        /\ jobs[i].state # "FREE"
        /\ jobs'[i].job_id = jobs[i].job_id
        /\ jobs'[i].circuit = jobs[i].circuit
  BY DEF IInv, TypeOK
<1>2. UniqueIds'
  BY <1>1 DEF IInv, UniqueIds
<1> QED
  BY <1>1, <1>2 DEF IInv, WorkIsOld, WorkAgrees

LEMMA CompleteIInv ==
  ASSUME IInv, NEW p \in Pids, NEW st \in {"OK", "EXECFAIL"}, qpu_complete(p, st)
  PROVE  IInv'
<1>1. PICK f \in Jobs : /\ jobs[f].state = "RUNNING"
                       /\ IsExecutor(jobs[f], p)
                       /\ jobs' = [jobs EXCEPT ![f] = Completed(@, p, st)]
  BY DEF qpu_complete
<1> DEFINE j == jobs[f]
           n == Completed(j, p, st)
<1>2. /\ jobs \in [Jobs -> JobRecords] /\ j \in JobRecords /\ JobOK(j)
      /\ jobs' = [jobs EXCEPT ![f] = n]
      /\ UNCHANGED <<proc, used, next_job_id, work>>
      /\ ResultOf(p, j.job_id) = j.circuit /\ j.circuit \in Circuits
  BY <1>1, ResultIsCircuit DEF IInv, TypeOK, JobsOK, qpu_complete, JobRecords
<1>3. \/ n = FreeJob
      \/ /\ n.state = "DONE" /\ ~ j.orphaned /\ ~ n.orphaned /\ n.result = j.circuit
         /\ n.job_id = j.job_id /\ n.circuit = j.circuit
         /\ n.owner_pid = j.owner_pid /\ n.owner_generation = j.owner_generation
  BY <1>2 DEF Completed, JobRecords
<1>4. n \in JobRecords
  BY <1>2 DEF Completed, JobRecords, FreeJob, Circuits, NoCircuit
<1>5. JobOK(j) /\ j.state = "RUNNING"
  BY <1>1, <1>2
<1> HIDE DEF j, n
<1>6. TypeOK'
  <2>1. jobs' \in [Jobs -> JobRecords]
    BY <1>2, <1>4
  <2> QED
    BY <1>2, <2>1 DEF IInv, TypeOK
<1>7. JobsOK'
  <2> SUFFICES ASSUME NEW i \in Jobs PROVE JobOK(jobs[i])'
    BY DEF JobsOK
  <2>1. CASE i = f /\ n = FreeJob
    BY <1>2, <2>1 DEF JobOK, Identified, Releasable, Apart, Authentic, FreeJob
  <2>2. CASE i = f /\ n # FreeJob
    <3>1. jobs'[i] = n
      BY <1>2, <2>2
    <3> QED
      BY <1>2, <1>3, <1>5, <2>2, <3>1
      DEF JobOK, Identified, Releasable, Present, Apart, Authentic
  <2>3. CASE i # f
    <3>1. jobs'[i] = jobs[i] /\ JobOK(jobs[i])
      BY <1>2, <2>3 DEF IInv, JobsOK
    <3> QED
      BY <1>2, <3>1 DEF JobOK, Identified, Releasable, Present, Apart, Authentic
  <2> QED
    BY <2>1, <2>2, <2>3
<1>8. n.state # "FREE" => /\ j.state # "FREE"
                          /\ n.job_id = j.job_id
                          /\ n.circuit = j.circuit
  BY <1>3, <1>5 DEF FreeJob
<1>9. UniqueIds' /\ WorkIsOld' /\ WorkAgrees'
  BY <1>2, <1>8, SameIdentity DEF j
<1> QED
  BY <1>6, <1>7, <1>9 DEF IInv

LEMMA PollIInv ==
  ASSUME IInv, NEW p \in Pids, NEW id, qpu_poll(p, id)
  PROVE  IInv'
<1>1. PICK f \in Jobs : jobs' = [jobs EXCEPT ![f] = FreeJob]
  BY DEF qpu_poll
<1>2. jobs \in [Jobs -> JobRecords] /\ UNCHANGED <<proc, used, next_job_id, work>>
  BY DEF IInv, TypeOK, qpu_poll
<1>3. FreeJob \in JobRecords /\ FreeJob.state = "FREE"
  BY DEF JobRecords, FreeJob, Circuits, NoCircuit
<1>4. TypeOK'
  <2>1. jobs' \in [Jobs -> JobRecords]
    BY <1>1, <1>2, <1>3
  <2> QED
    BY <1>2, <2>1 DEF IInv, TypeOK
<1>5. JobsOK'
  <2> SUFFICES ASSUME NEW i \in Jobs PROVE JobOK(jobs[i])'
    BY DEF JobsOK
  <2>1. CASE i = f
    BY <1>1, <1>2, <2>1 DEF JobOK, Identified, Releasable, Apart, Authentic, FreeJob
  <2>2. CASE i # f
    <3>1. jobs'[i] = jobs[i] /\ JobOK(jobs[i])
      BY <1>1, <1>2, <2>2 DEF IInv, JobsOK
    <3> QED
      BY <1>2, <3>1 DEF JobOK, Identified, Releasable, Present, Apart, Authentic
  <2> QED
    BY <2>1, <2>2
<1>6. UniqueIds' /\ WorkIsOld' /\ WorkAgrees'
  BY <1>1, <1>2, <1>3, SameIdentity
<1> QED
  BY <1>4, <1>5, <1>6 DEF IInv

LEMMA NextIInv == IInv /\ [Next]_vars => IInv'
<1> SUFFICES ASSUME IInv, [Next]_vars PROVE IInv'
  OBVIOUS
<1>1. CASE UNCHANGED vars
  BY <1>1 DEF vars, IInv, TypeOK, JobsOK, JobOK, Identified, Releasable, Present, Apart,
              Authentic, UniqueIds, WorkIsOld, WorkAgrees
<1>2. ASSUME NEW p \in Pids, NEW r \in {"none", "submit", "execute"}, Spawn(p, r)
      PROVE  IInv'
  BY <1>2, SpawnIInv
<1>3. ASSUME NEW p \in Pids, Exit(p) PROVE IInv'
  BY <1>3, ExitIInv
<1>4. ASSUME NEW p \in Pids, Destroy(p) PROVE IInv'
  BY <1>4, DestroyIInv
<1>5. ASSUME NEW p \in Pids, qpu_submit(p) PROVE IInv'
  BY <1>5, SubmitIInv
<1>6. ASSUME NEW p \in Pids, qpu_fetch(p) PROVE IInv'
  BY <1>6, FetchIInv
<1>7. ASSUME NEW p \in Pids, NEW st \in {"OK", "EXECFAIL"}, qpu_complete(p, st)
      PROVE  IInv'
  BY <1>7, CompleteIInv
<1>8. ASSUME NEW p \in Pids, NEW i \in Jobs, qpu_poll(p, jobs[i].job_id) PROVE IInv'
  BY <1>8, PollIInv
<1> QED
  BY <1>1, <1>2, <1>3, <1>4, <1>5, <1>6, <1>7, <1>8 DEF Next

LEMMA SpecIInv == Spec => []IInv
  BY InitIInv, NextIInv, PTL DEF Spec
-----------------------------------------------------------------------------
(* The job table, the quotas and what executors remember are well-typed    *)
(* for every number of pids, slots and submissions.                        *)
THEOREM TypeCorrect == Spec => []TypeOK
<1>1. IInv => TypeOK
  BY DEF IInv
<1> QED
  BY <1>1, SpecIInv, PTL

(* No slot of the job table is ever lost, in whatever order owners and     *)
(* executors die and their pids are recycled (qpu_on_process_destroy).     *)
THEOREM NeverLosesASlot == Spec => []NoSlotLost
<1>1. IInv => NoSlotLost
  BY DEF IInv, JobsOK, JobOK, NoSlotLost
<1> QED
  BY <1>1, SpecIInv, PTL

(* A result that reports success was computed from the circuit its owner   *)
(* submitted (qpu_complete's test of the executor's incarnation).          *)
THEOREM OnlyAuthenticResults == Spec => []ResultsAuthentic
<1>1. IInv => ResultsAuthentic
  BY DEF IInv, JobsOK, JobOK, Authentic, Identified, ResultsAuthentic
<1> QED
  BY <1>1, SpecIInv, PTL

(* Only a fetch starts a job.                                              *)
LEMMA OnlyFetchStarts ==
  ASSUME IInv, [Next]_vars, NEW i \in Jobs,
         jobs[i].state = "PENDING", jobs'[i].state = "RUNNING"
  PROVE  \E p \in Pids : qpu_fetch(p)
<1>0. jobs \in [Jobs -> JobRecords]
  BY DEF IInv, TypeOK
<1>1. CASE UNCHANGED vars
  BY <1>1 DEF vars
<1>2. ASSUME NEW p \in Pids, NEW r \in {"none", "submit", "execute"}, Spawn(p, r)
      PROVE  FALSE
  BY <1>2 DEF Spawn
<1>3. ASSUME NEW p \in Pids, Exit(p) PROVE FALSE
  BY <1>3 DEF Exit
<1>4. ASSUME NEW p \in Pids, Destroy(p) PROVE FALSE
  <2>1. jobs'[i] = Swept(jobs[i], p) /\ jobs[i] \in JobRecords
    BY <1>0, <1>4 DEF Destroy
  <2> QED
    BY <2>1, SweptFacts
<1>5. ASSUME NEW p \in Pids, qpu_submit(p) PROVE FALSE
  <2>1. PICK n : jobs' = [jobs EXCEPT ![FirstFreeJob] = n] /\ n.state = "PENDING"
    BY <1>5 DEF qpu_submit, FreeJob
  <2> QED
    BY <1>0, <2>1
<1>6. ASSUME NEW p \in Pids, NEW st \in {"OK", "EXECFAIL"}, qpu_complete(p, st)
      PROVE  FALSE
  <2>1. PICK f \in Jobs : /\ jobs[f].state = "RUNNING"
                         /\ jobs' = [jobs EXCEPT ![f] = Completed(@, p, st)]
    BY <1>6 DEF qpu_complete
  <2> QED
    BY <1>0, <2>1
<1>7. ASSUME NEW p \in Pids, NEW k \in Jobs, qpu_poll(p, jobs[k].job_id) PROVE FALSE
  <2>1. PICK f \in Jobs : jobs' = [jobs EXCEPT ![f] = FreeJob]
    BY <1>7 DEF qpu_poll
  <2> QED
    BY <1>0, <2>1 DEF FreeJob
<1> QED
  BY <1>1, <1>2, <1>3, <1>4, <1>5, <1>6, <1>7 DEF Next

(* Jobs start in the order they were submitted: the fetch takes the least  *)
(* id, and ids are unique (qpu_fetch, qpu_submit).                         *)
THEOREM FirstComeFirstServed == Spec => ServedInOrder
<1> DEFINE Ordered ==
      \A i, k \in Jobs :
        (jobs[i].state = "PENDING" /\ jobs'[i].state = "RUNNING"
           /\ jobs'[k].state = "PENDING") => jobs[i].job_id < jobs'[k].job_id
<1>1. IInv /\ [Next]_vars => [Ordered]_vars
  <2> SUFFICES ASSUME IInv, [Next]_vars, NEW i \in Jobs, NEW k \in Jobs,
                      jobs[i].state = "PENDING", jobs'[i].state = "RUNNING",
                      jobs'[k].state = "PENDING"
               PROVE  jobs[i].job_id < jobs'[k].job_id
    OBVIOUS
  <2>1. PICK p \in Pids : qpu_fetch(p)
    BY OnlyFetchStarts
  <2>2. PICK f \in Jobs :
          /\ Oldest(f)
          /\ jobs' = [jobs EXCEPT ![f].state = "RUNNING", ![f].executor_pid = p,
                                  ![f].executor_generation = proc[p].generation]
    BY <2>1 DEF qpu_fetch
  <2>3. jobs \in [Jobs -> JobRecords]
    BY DEF IInv, TypeOK
  <2>4. \A m \in Jobs : m # f => jobs'[m] = jobs[m]
    BY <2>2, <2>3
  <2>5. jobs'[f].state = "RUNNING"
    BY <2>2, <2>3 DEF JobRecords
  <2>6. i = f /\ k # f /\ jobs'[k] = jobs[k]
    BY <2>4, <2>5
  <2>7. jobs[i].job_id <= jobs[k].job_id /\ jobs[i].job_id # jobs[k].job_id
    BY <2>2, <2>6 DEF Oldest, IInv, UniqueIds
  <2>8. jobs[i].job_id \in Nat /\ jobs[k].job_id \in Nat
    BY <2>3 DEF JobRecords
  <2> QED
    BY <2>6, <2>7, <2>8
<1>2. [][Ordered]_vars => ServedInOrder
  BY DEF ServedInOrder
<1> QED
  BY <1>1, <1>2, SpecIInv, PTL DEF Spec

(* A process takes only results of jobs this incarnation of it submitted,  *)
(* and taking one frees its slot (qpu_poll).                               *)
THEOREM ResultsArePrivate == Spec => OnlyOwnResults
<1> DEFINE Private ==
      \A p \in Pids, i \in Jobs :
        qpu_poll(p, jobs[i].job_id) /\ jobs'[i] # jobs[i] =>
          /\ jobs[i].circuit = <<p, proc[p].generation, jobs[i].job_id>>
          /\ jobs'[i] = FreeJob
<1>1. IInv => Private
  <2> SUFFICES ASSUME IInv, NEW p \in Pids, NEW i \in Jobs,
                      qpu_poll(p, jobs[i].job_id), jobs'[i] # jobs[i]
               PROVE  /\ jobs[i].circuit = <<p, proc[p].generation, jobs[i].job_id>>
                      /\ jobs'[i] = FreeJob
    OBVIOUS
  <2>1. PICK f \in Jobs : /\ jobs[f].state = "DONE" /\ IsOwner(jobs[f], p)
                         /\ jobs' = [jobs EXCEPT ![f] = FreeJob]
    BY DEF qpu_poll
  <2>2. jobs \in [Jobs -> JobRecords] /\ JobOK(jobs[f])
    BY DEF IInv, TypeOK, JobsOK
  <2>3. i = f /\ jobs'[i] = FreeJob
    BY <2>1, <2>2
  <2> QED
    BY <2>1, <2>2, <2>3 DEF IsOwner, JobOK, Identified
<1>2. [][Private]_vars => OnlyOwnResults
  BY DEF OnlyOwnResults
<1> QED
  BY <1>1, <1>2, SpecIInv, PTL DEF Spec
(* The job table as its submitters see it, for every number of pids, slots *)
(* and submissions: no slot is lost and no answer is somebody else's.      *)
THEOREM JobsAreSound == Spec => []JobsSound
  BY NeverLosesASlot, OnlyAuthenticResults, PTL DEF JobsSound

-----------------------------------------------------------------------------
(* The exit ledger.                                                        *)

EntryOf(i, p) == ledger[i].valid /\ ledger[i].pid = p

LedgerTypeOK ==
  /\ pstate \in [LedgerPids -> {"UNUSED", "LIVE", "TERMINATED"}]
  /\ generation \in [LedgerPids -> Nat]
  /\ ledger \in [Ring -> [valid : BOOLEAN, pid : Nat, generation : Nat, code : Nat]]
  /\ next \in Ring
  /\ fate \in [LedgerPids -> Fates]

(* An entry is of an incarnation that has ended: of an earlier one while a *)
(* process lives under its pid.                                            *)
EntriesArePast ==
  \A i \in Ring, p \in LedgerPids : EntryOf(i, p) =>
    /\ ledger[i].generation <= generation[p]
    /\ pstate[p] = "LIVE" => ledger[i].generation < generation[p]

(* The entry of the last exit under a pid lies as far behind the newest as *)
(* processes have exited since, and every other entry of that pid farther. *)
IsLastOf(i, p) ==
  /\ EntryOf(i, p) /\ Recency(i) = fate[p].since
  /\ ledger[i].code = fate[p].code /\ ledger[i].generation = fate[p].generation
  /\ \A j \in Ring : EntryOf(j, p) => Recency(i) <= Recency(j)
LastExitsKept ==
  \A p \in LedgerPids :
    fate[p].how = "exited" /\ fate[p].since < LedgerSize => \E i \in Ring : IsLastOf(i, p)

FatesAreCurrent ==
  \A p \in LedgerPids : pstate[p] = "TERMINATED" => fate[p].generation = generation[p]

LedgerInv == LedgerTypeOK /\ EntriesArePast /\ LastExitsKept /\ FatesAreCurrent

(* Positions of the ring have different ages below LedgerSize, and the     *)
(* next one to be written is the oldest.                                   *)
LEMMA RecencyFacts ==
  ASSUME next \in Ring
  PROVE  /\ \A i \in Ring : Recency(i) \in 0 .. (LedgerSize - 1)
         /\ \A i, j \in Ring : Recency(i) = Recency(j) => i = j
         /\ Recency(next) = LedgerSize - 1
  BY SizeAssumption DEF Recency, Ring

(* An exit makes the slot it writes the newest and all the others older.   *)
LEMMA RecencyAdvances ==
  ASSUME next \in Ring, next' = Advance(next)
  PROVE  /\ next' \in Ring
         /\ \A i \in Ring : Recency(i)' = IF i = next THEN 0 ELSE Recency(i) + 1
  BY SizeAssumption DEF Recency, Ring, Advance

LEMMA LedgerInitInv == LedgerInit => LedgerInv
<1> SUFFICES ASSUME LedgerInit PROVE LedgerInv
  OBVIOUS
<1>1. next \in Ring /\ NoFate \in Fates
  BY SizeAssumption DEF LedgerInit, Ring, NoFate, Fates
<1>2. LedgerTypeOK
  BY <1>1 DEF LedgerInit, LedgerTypeOK, NoExit
<1> QED
  BY <1>2 DEF LedgerInv, LedgerInit, EntriesArePast, EntryOf, LastExitsKept, FatesAreCurrent,
     NoExit, NoFate

LEMMA CreateLedgerInv ==
  ASSUME LedgerInv, NEW p \in LedgerPids, process_create(p)
  PROVE  LedgerInv'
<1>1. /\ pstate' = [pstate EXCEPT ![p] = "LIVE"]
      /\ generation' = [generation EXCEPT ![p] = @ + 1]
      /\ UNCHANGED <<ledger, next, fate>>
  BY DEF process_create
<1>2. LedgerTypeOK'
  BY <1>1 DEF LedgerInv, LedgerTypeOK
<1>3. EntriesArePast'
  BY <1>1 DEF LedgerInv, LedgerTypeOK, EntriesArePast, EntryOf
<1>4. LastExitsKept'
  BY <1>1 DEF LedgerInv, LastExitsKept, IsLastOf, EntryOf, Recency
<1>5. FatesAreCurrent'
  BY <1>1 DEF LedgerInv, LedgerTypeOK, FatesAreCurrent
<1> QED
  BY <1>2, <1>3, <1>4, <1>5 DEF LedgerInv

(* A process that ends without SYS_EXIT.                                   *)
LEMMA KilledLedgerInv ==
  ASSUME LedgerInv, NEW p \in LedgerPids, Kill(p) \/ Stop(p)
  PROVE  LedgerInv'
<1>1. /\ \/ pstate' = [pstate EXCEPT ![p] = "TERMINATED"]
         \/ pstate' = [pstate EXCEPT ![p] = "UNUSED"]
      /\ fate' = [fate EXCEPT ![p] =
                    [how |-> "killed", generation |-> generation[p], code |-> 0, since |-> 0]]
      /\ UNCHANGED <<generation, ledger, next>>
  BY DEF Kill, Stop, Killed
<1>2. LedgerTypeOK'
  <2>1. [how |-> "killed", generation |-> generation[p], code |-> 0, since |-> 0] \in Fates
    BY SizeAssumption DEF Fates, LedgerInv, LedgerTypeOK
  <2> QED
    BY <1>1, <2>1 DEF LedgerInv, LedgerTypeOK
<1>3. EntriesArePast'
  BY <1>1 DEF LedgerInv, LedgerTypeOK, EntriesArePast, EntryOf
<1>4. LastExitsKept'
  <2> SUFFICES ASSUME NEW q \in LedgerPids, fate'[q].how = "exited", fate'[q].since < LedgerSize
               PROVE  \E i \in Ring : IsLastOf(i, q)'
    BY DEF LastExitsKept
  <2>1. fate'[q] = fate[q]
    BY <1>1 DEF LedgerInv, LedgerTypeOK
  <2> QED
    BY <1>1, <2>1 DEF LedgerInv, LastExitsKept, IsLastOf, EntryOf, Recency
<1>5. FatesAreCurrent'
  BY <1>1 DEF LedgerInv, LedgerTypeOK, FatesAreCurrent
<1> QED
  BY <1>2, <1>3, <1>4, <1>5 DEF LedgerInv

LEMMA ReapLedgerInv ==
  ASSUME LedgerInv, NEW p \in LedgerPids, process_reap(p)
  PROVE  LedgerInv'
<1>1. /\ pstate' = [pstate EXCEPT ![p] = "UNUSED"]
      /\ UNCHANGED <<generation, ledger, next, fate>>
  BY DEF process_reap
<1> QED
  BY <1>1 DEF LedgerInv, LedgerTypeOK, EntriesArePast, LastExitsKept, IsLastOf, FatesAreCurrent,
     EntryOf, Recency

LEMMA OlderFates ==
  ASSUME NEW f \in Fates, NEW g, g = [f EXCEPT !.since = Older(@)]
  PROVE  /\ g \in Fates
         /\ g.how = f.how /\ g.generation = f.generation /\ g.code = f.code
         /\ g.since = Older(f.since)
<1>1. f.since \in 0 .. LedgerSize /\ Older(f.since) \in 0 .. LedgerSize
  BY SizeAssumption DEF Fates, Older
<1> QED
  BY <1>1 DEF Fates

(* An exit overwrites the oldest entry.  It can be the last of a pid only  *)
(* when LedgerSize processes have exited since, and then it is not missed. *)
LEMMA ExitLedgerInv ==
  ASSUME LedgerInv, NEW p \in LedgerPids, NEW code \in Codes, sys_exit(p, code)
  PROVE  LedgerInv'
<1> DEFINE e == [valid |-> TRUE, pid |-> p, generation |-> generation[p], code |-> code]
<1>1. /\ pstate[p] = "LIVE"
      /\ ledger' = [ledger EXCEPT ![next] = e]
      /\ next' = Advance(next)
      /\ pstate' = [pstate EXCEPT ![p] = "TERMINATED"]
      /\ generation' = generation
      /\ \A q \in LedgerPids : fate'[q] =
           IF q = p THEN [how |-> "exited", generation |-> generation[p], code |-> code, since |-> 0]
           ELSE [fate[q] EXCEPT !.since = Older(@)]
  BY DEF sys_exit, Exited
<1>2. /\ next \in Ring /\ code \in Nat /\ p \in Nat
      /\ ledger \in [Ring -> [valid : BOOLEAN, pid : Nat, generation : Nat, code : Nat]]
      /\ generation \in [LedgerPids -> Nat]
      /\ pstate \in [LedgerPids -> {"UNUSED", "LIVE", "TERMINATED"}]
      /\ \A q \in LedgerPids : fate[q] \in Fates
  BY CodesAssumption, LedgerPidsAssumption DEF LedgerInv, LedgerTypeOK
<1>3. /\ next' \in Ring
      /\ \A i \in Ring : Recency(i)' = IF i = next THEN 0 ELSE Recency(i) + 1
      /\ \A i \in Ring : Recency(i) \in 0 .. (LedgerSize - 1)
      /\ Recency(next) = LedgerSize - 1
  BY <1>1, <1>2, RecencyAdvances, RecencyFacts
<1>4. \A q \in LedgerPids \ {p} :
        /\ fate'[q] \in Fates
        /\ fate'[q].how = fate[q].how /\ fate'[q].generation = fate[q].generation
        /\ fate'[q].code = fate[q].code /\ fate'[q].since = Older(fate[q].since)
  <2> TAKE q \in LedgerPids \ {p}
  <2>1. fate[q] \in Fates /\ fate'[q] = [fate[q] EXCEPT !.since = Older(@)]
    BY <1>1, <1>2
  <2> QED
    BY <2>1, OlderFates
<1>5. /\ fate'[p] \in Fates
      /\ fate'[p].how = "exited" /\ fate'[p].generation = generation[p]
      /\ fate'[p].code = code /\ fate'[p].since = 0
  <2>1. fate'[p] = [how |-> "exited", generation |-> generation[p], code |-> code, since |-> 0]
    BY <1>1
  <2>2. generation[p] \in Nat /\ code \in Nat /\ 0 \in 0 .. LedgerSize
    BY <1>2, SizeAssumption
  <2> QED
    BY <2>1, <2>2 DEF Fates
<1>6. LedgerTypeOK'
  <2>1. fate' \in [LedgerPids -> Fates]
    <3>1. fate' = [q \in LedgerPids |-> fate'[q]]
      BY DEF sys_exit, Exited
    <3> QED
      BY <1>4, <1>5, <3>1
  <2> QED
    BY <1>1, <1>2, <1>3, <2>1 DEF LedgerTypeOK
<1>7. EntriesArePast'
  BY <1>1, <1>2 DEF LedgerInv, EntriesArePast, EntryOf
<1>8. LastExitsKept'
  <2> SUFFICES ASSUME NEW q \in LedgerPids, fate'[q].how = "exited", fate'[q].since < LedgerSize
               PROVE  \E i \in Ring : IsLastOf(i, q)'
    BY DEF LastExitsKept
  <2>1. CASE q = p
    <3>1. PICK i \in Ring : i = next
      BY <1>2
    <3>2. ledger'[i] = e /\ Recency(i)' = 0 /\ \A j \in Ring : 0 <= Recency(j)'
      BY <1>1, <1>2, <1>3, <3>1
    <3>3. IsLastOf(i, p)'
      BY <1>5, <3>2 DEF IsLastOf, EntryOf
    <3> QED
      BY <2>1, <3>3
  <2>2. CASE q # p
    <3>1. /\ fate[q].how = "exited" /\ fate[q].since < LedgerSize
          /\ fate'[q].generation = fate[q].generation /\ fate'[q].code = fate[q].code
          /\ fate'[q].since = fate[q].since + 1
          /\ fate[q].since \in Nat /\ fate[q].since + 1 < LedgerSize
      <4>1. fate[q].since \in 0 .. LedgerSize /\ q \in LedgerPids \ {p}
        BY <1>2, <2>2 DEF Fates
      <4>2. fate'[q].since = Older(fate[q].since)
        BY <1>4, <4>1
      <4> QED
        BY <1>4, <4>1, <4>2, SizeAssumption DEF Older
    <3>2. PICK i \in Ring : IsLastOf(i, q)
      BY <3>1 DEF LedgerInv, LastExitsKept
    <3>3. i # next
      BY <1>3, <3>1, <3>2, SizeAssumption DEF IsLastOf
    <3>4. \A j \in Ring : EntryOf(j, q)' => j # next /\ EntryOf(j, q)
      BY <1>1, <1>2, <2>2 DEF EntryOf
    <3>5. IsLastOf(i, q)'
      BY <1>1, <1>2, <1>3, <3>1, <3>2, <3>3, <3>4 DEF IsLastOf, EntryOf
    <3> QED
      BY <3>5
  <2> QED
    BY <2>1, <2>2
<1>9. FatesAreCurrent'
  BY <1>1, <1>2, <1>4, <1>5 DEF LedgerInv, FatesAreCurrent
<1> QED
  BY <1>6, <1>7, <1>8, <1>9 DEF LedgerInv

LEMMA LedgerStepInv == LedgerInv /\ [LedgerNext]_ledgerVars => LedgerInv'
<1> SUFFICES ASSUME LedgerInv, [LedgerNext]_ledgerVars PROVE LedgerInv'
  OBVIOUS
<1>1. CASE LedgerNext
  BY <1>1, CreateLedgerInv, KilledLedgerInv, ReapLedgerInv, ExitLedgerInv DEF LedgerNext
<1>2. CASE UNCHANGED ledgerVars
  BY <1>2 DEF ledgerVars, LedgerInv, LedgerTypeOK, EntriesArePast, LastExitsKept, IsLastOf,
     FatesAreCurrent, EntryOf, Recency
<1> QED
  BY <1>1, <1>2

LEMMA AlwaysLedgerInv == LedgerSpec => []LedgerInv
  BY LedgerInitInv, LedgerStepInv, PTL DEF LedgerSpec

(* A poll for a running child finds no entry of it: no stillborn spawn,    *)
(* however often its pid has been used before (sys_waitpid, #291).         *)
THEOREM NoSpawnIsStillborn == LedgerSpec => []NoStillbornSpawn
<1>1. ASSUME LedgerInv, NEW p \in LedgerPids, pstate[p] = "LIVE"
      PROVE  sys_waitpid(p) = WAITPID_RUNNING
  <2>1. p \notin FreePids
    BY <1>1 DEF FreePids
  <2>2. Answers(p) = {}
    BY <1>1, <2>1 DEF Answers, Counts, LedgerInv, LedgerTypeOK, EntriesArePast, EntryOf
  <2> QED
    BY <2>1, <2>2 DEF sys_waitpid
<1>2. LedgerInv => NoStillbornSpawn
  BY <1>1 DEF NoStillbornSpawn
<1> QED
  BY <1>2, AlwaysLedgerInv, PTL

(* A poll in time gets the exit code, for every size of the ring and every *)
(* number of pids, whether the child has been reaped or not.               *)
THEOREM EveryExitIsCollected == LedgerSpec => []ExitCodeCollected
<1>1. ASSUME LedgerInv, NEW p \in LedgerPids, Collectable(p)
      PROVE  sys_waitpid(p) = fate[p].code % 256
  <2>1. PICK i \in Ring : IsLastOf(i, p)
    BY <1>1 DEF Collectable, LedgerInv, LastExitsKept
  <2>2. pstate[p] \in {"UNUSED", "TERMINATED"} /\ next \in Ring
    BY <1>1 DEF Collectable, LedgerInv, LedgerTypeOK
  <2>3. Counts(i, p)
    BY <1>1, <2>1, <2>2 DEF Counts, IsLastOf, EntryOf, FreePids, LedgerInv, FatesAreCurrent
  <2>4. \A j \in Answers(p) : j \in Ring /\ Recency(i) <= Recency(j)
    BY <2>1 DEF Answers, Counts, IsLastOf, EntryOf
  <2>5. Newest(p) = i
    <3>1. i \in Answers(p) /\ \A j \in Answers(p) : Recency(i) <= Recency(j)
      BY <2>3, <2>4 DEF Answers
    <3>2. /\ Newest(p) \in Answers(p)
          /\ \A j \in Answers(p) : Recency(Newest(p)) <= Recency(j)
      BY <3>1 DEF Newest
    <3>3. Recency(i) = Recency(Newest(p)) /\ Newest(p) \in Ring
      BY <2>2, <2>4, <3>1, <3>2, RecencyFacts, SizeAssumption
    <3> QED
      BY <2>2, <3>3, RecencyFacts
  <2>6. ledger[i].code = fate[p].code
    BY <2>1 DEF IsLastOf
  <2> QED
    BY <2>3, <2>5, <2>6 DEF sys_waitpid, Answers, ReturnedCode
<1>2. LedgerInv => ExitCodeCollected
  BY <1>1 DEF ExitCodeCollected
<1> QED
  BY <1>2, AlwaysLedgerInv, PTL

(* Both: a poll is right about children that run and that have ended.      *)
THEOREM ExitsAreSound == LedgerSpec => []ExitsSound
  BY NoSpawnIsStillborn, EveryExitIsCollected, PTL DEF ExitsSound
-----------------------------------------------------------------------------
(* The egress grant.                                                       *)

LongestFrame == CHOOSE m \in FrameLen : \A l \in FrameLen : l <= m

(* The accounting of the live grant.  What netdev counted is what went     *)
(* over the wire; a grant in force has a budget, and one whose budget was  *)
(* reached is over.  The mailbox holds a spec that a host sent.            *)
GrantWhole == DOMAIN live = {"ttl", "bytes", "allow", "listen"} /\ live.bytes \in Nat
EgressInv ==
  /\ GrantWhole
  /\ wire \in Nat /\ bytesUsed = wire
  /\ configured => /\ 0 < live.bytes
                   /\ wire < live.bytes + LongestFrame
                   /\ wire >= live.bytes => over
  /\ offer.pending /\ ~ offer.refused => offer.spec \in Specs

LEMMA LongestFrameFacts ==
  /\ LongestFrame \in Nat \ {0}
  /\ \A l \in FrameLen : l \in Nat \ {0} /\ l <= LongestFrame
<1>1. \E m \in FrameLen : \A l \in FrameLen : l <= m
  BY EgressConstants
<1>2. LongestFrame \in FrameLen /\ \A l \in FrameLen : l <= LongestFrame
  BY <1>1 DEF LongestFrame
<1> QED
  BY <1>2, EgressConstants

(* The last of a set of places of a spec exists.                           *)
LEMMA LastPlaceExists ==
  ASSUME NEW n \in Nat, NEW S \in SUBSET (1 .. n), S # {}
  PROVE  \E i \in S : \A j \in S : j <= i
<1> DEFINE D == {n - i : i \in S}
<1>0. \A i \in S : i \in Nat /\ i <= n
  OBVIOUS
<1>1. D \in SUBSET Nat /\ D # {}
  <2>1. \A i \in S : n - i \in Nat
    BY <1>0
  <2>2. D \in SUBSET Nat
    BY <2>1
  <2>3. PICK i \in S : TRUE
    OBVIOUS
  <2>4. n - i \in D
    OBVIOUS
  <2> QED
    BY <2>2, <2>4
<1>2. PICK m \in D : \A t \in D : m <= t
  <2> HIDE DEF D
  <2> QED
    BY <1>1, LeastExists
<1>3. PICK i \in S : m = n - i
  OBVIOUS
<1>4. \A j \in S : n - i <= n - j
  BY <1>2, <1>3
<1> QED
  BY <1>4

(* A grant that was not refused has a budget above zero.                   *)
LEMMA ParsedGrant ==
  ASSUME NEW spec \in Specs \cup {BootSpec}, ~ Refused(spec)
  PROVE  LET g == parse_grant(spec) IN
         /\ DOMAIN g = {"ttl", "bytes", "allow", "listen"}
         /\ g.bytes \in Nat /\ 0 < g.bytes
<1>1. /\ Len(spec) \in Nat /\ DOMAIN spec = 1 .. Len(spec)
      /\ \A i \in DOMAIN spec : spec[i].field \in {"ttl", "bytes"} => spec[i].value \in Nat
  BY EgressConstants
<1>2. /\ Places(spec, "bytes") # {} /\ Places(spec, "bytes") \in SUBSET (1 .. Len(spec))
      /\ \A i \in Places(spec, "bytes") : spec[i].value \in Nat /\ spec[i].value # 0
  BY <1>1 DEF Refused, Places
<1>3. \E i \in Places(spec, "bytes") : \A j \in Places(spec, "bytes") : j <= i
  BY <1>1, <1>2, LastPlaceExists
<1>4. LastValue(spec, "bytes") \in Nat /\ LastValue(spec, "bytes") # 0
  BY <1>2, <1>3 DEF LastValue
<1> QED
  BY <1>4 DEF parse_grant

LEMMA EgressInitInv == EgressInit => EgressInv
<1> SUFFICES ASSUME EgressInit PROVE EgressInv
  OBVIOUS
<1>1. CASE Refused(BootSpec)
  BY <1>1 DEF EgressInit, EgressInv, GrantWhole, NoGrant, NoOffer
<1>2. CASE ~ Refused(BootSpec)
  <2>1. GrantWhole /\ 0 < live.bytes
    BY <1>2, ParsedGrant DEF EgressInit, GrantWhole
  <2> QED
    BY <2>1, LongestFrameFacts DEF EgressInit, EgressInv, GrantWhole, NoOffer
<1> QED
  BY <1>1, <1>2

(* A frame is carried only under a grant in force, so it is the last one   *)
(* that can reach the budget.                                              *)
LEMMA AccountInv ==
  ASSUME EgressInv, NEW len \in FrameLen, Active, Account(len), UNCHANGED offer
  PROVE  EgressInv'
<1>1. configured /\ ~ over /\ wire < live.bytes
  BY DEF Active, EgressInv, GrantWhole
<1>2. /\ wire' = wire + len /\ bytesUsed' = wire' /\ wire' \in Nat
      /\ over' = (wire' >= live.bytes)
      /\ live' = live /\ configured' = configured
  BY LongestFrameFacts DEF Account, EgressInv
<1>3. wire' < live.bytes + LongestFrame
  BY <1>1, <1>2, LongestFrameFacts DEF EgressInv, GrantWhole
<1> QED
  BY <1>2, <1>3 DEF EgressInv, GrantWhole

(* A step that carries nothing and at most finds the grant expired.        *)
LEMMA AskedInv ==
  ASSUME EgressInv, UNCHANGED <<configured, bytesUsed, live, wire, offer>>,
         over => over'
  PROVE  EgressInv'
BY DEF EgressInv, GrantWhole

(* A new grant: a refused spec leaves the old one in force.                *)
LEMMA ConfigureInv ==
  ASSUME EgressInv, NEW spec \in Specs, configure_from(spec), offer' = NoOffer
  PROVE  EgressInv'
<1>1. CASE Refused(spec)
  <2>1. UNCHANGED <<configured, over, bytesUsed, live, wire>>
    BY <1>1 DEF configure_from, grantVars
  <2> QED
    BY <2>1 DEF EgressInv, GrantWhole, NoOffer
<1>2. CASE ~ Refused(spec)
  <2>1. live' = parse_grant(spec) /\ bytesUsed' = 0 /\ wire' = 0 /\ configured' = TRUE
    BY <1>2 DEF configure_from
  <2>2. GrantWhole' /\ 0 < live'.bytes
    BY <1>2, <2>1, ParsedGrant DEF GrantWhole
  <2> QED
    BY <2>1, <2>2, LongestFrameFacts DEF EgressInv, GrantWhole, NoOffer
<1> QED
  BY <1>1, <1>2

LEMMA EgressStepInv == EgressInv /\ [EgressNext]_egressVars => EgressInv'
<1> SUFFICES ASSUME EgressInv, [EgressNext]_egressVars PROVE EgressInv'
  OBVIOUS
<1>1. ASSUME NEW rightKey \in BOOLEAN, NEW spec \in Specs, egress_offer(rightKey, spec)
      PROVE  EgressInv'
  BY <1>1 DEF egress_offer, grantVars, EgressInv, GrantWhole
<1>2. CASE egress_apply_pending
  <2>1. CASE offer.refused
    <3>1. UNCHANGED <<configured, over, bytesUsed, live, wire>> /\ offer' = NoOffer
      BY <1>2, <2>1 DEF egress_apply_pending, grantVars
    <3> QED
      BY <3>1 DEF EgressInv, GrantWhole, NoOffer
  <2>2. CASE ~ offer.refused
    <3>1. configure_from(offer.spec) /\ offer' = NoOffer /\ offer.spec \in Specs
      BY <1>2, <2>2 DEF egress_apply_pending, EgressInv
    <3> QED
      BY <3>1, ConfigureInv
  <2> QED
    BY <2>1, <2>2
<1>3. ASSUME NEW n \in Names, NEW ip \in Resolves[n], egress_note_resolution(n, ip)
      PROVE  EgressInv'
  BY <1>3 DEF egress_note_resolution, EgressInv, GrantWhole
<1>4. ASSUME NEW len \in FrameLen,
             \/ \E d \in Dests : TransmitDatagram(d, len) \/ TransmitSegment(d, len)
             \/ netdev_receive(len)
      PROVE  EgressInv'
  <2>1. UNCHANGED offer
    BY <1>4 DEF TransmitDatagram, TransmitSegment, netdev_receive
  <2>2. CASE Active
    BY <1>4, <2>1, <2>2, AccountInv DEF TransmitDatagram, TransmitSegment, netdev_receive
  <2>3. CASE ~ Active
    <3>1. Asked /\ UNCHANGED wire
      BY <1>4, <2>3 DEF TransmitDatagram, TransmitSegment, netdev_receive
    <3> QED
      BY <2>1, <3>1, AskedInv DEF Asked, OverAfterAsking
  <2> QED
    BY <2>2, <2>3
<1>5. ASSUME NEW d \in Dests, Sendto(d) \/ Connect(d)
      PROVE  EgressInv'
  BY <1>5, AskedInv DEF Sendto, Connect, Asked, OverAfterAsking
<1>6. ASSUME NEW d \in Dests, Disconnect(d)
      PROVE  EgressInv'
  BY <1>6, AskedInv DEF Disconnect, grantVars
<1>7. ASSUME NEW p \in ListenPorts, Listen(p)
      PROVE  EgressInv'
  BY <1>7, AskedInv DEF Listen, Asked, OverAfterAsking
<1>8. CASE Tick
  BY <1>8, AskedInv DEF Tick, grantVars
<1>9. CASE UNCHANGED egressVars
  BY <1>9, AskedInv DEF egressVars, grantVars
<1> QED
  BY <1>1, <1>2, <1>3, <1>4, <1>5, <1>6, <1>7, <1>8, <1>9 DEF EgressNext

LEMMA AlwaysEgressInv == EgressSpec => []EgressInv
  BY EgressInitInv, EgressStepInv, PTL DEF EgressSpec

(* No grant carries more than its budget and the frame that reached it,    *)
(* for every mix of datagrams, segments and inbound frames and whatever    *)
(* the host offers meanwhile (netdev.c's accounting, configure_from).      *)
THEOREM BudgetsBind == EgressSpec => []BudgetBound
<1>1. EgressInv => BudgetBound
  BY DEF EgressInv, BudgetBound, LongestFrame
<1> QED
  BY <1>1, AlwaysEgressInv, PTL
-----------------------------------------------------------------------------
(* ghostd: its associative memory and its table of peers.                  *)

LiveBasins == {p \in Basins : basin[p].live}
NoSharedSlot ==
  \A p, q \in PeerSlots : peer[p].src = peer[q].src /\ peer[p].src # 0 => p = q

GhostTypeOK ==
  /\ basin \in [Basins -> [live : BOOLEAN, bits : Nat, imprinted : Nat, deadline : Nat]]
  /\ peer \in [PeerSlots -> [src : Nat, last : Nat]]
  /\ ghostNow \in Nat /\ replied.at \in Nat /\ replied.at <= ghostNow
  /\ live_count \in Nat

(* A live basin fades to nothing recallable before its deadline, because   *)
(* the deadline is one coherence time after the imprint.                   *)
GhostInv ==
  /\ GhostTypeOK
  /\ LiveCountExact
  /\ \A p \in LiveBasins : basin[p].deadline = basin[p].imprinted + GHOST_COHERENCE
  /\ RecallsNothingExpired
  /\ NoSharedSlot

LEMMA GhostFacts ==
  /\ Basins \in SUBSET Nat /\ IsFiniteSet(Basins)
  /\ PeerSlots \in SUBSET Nat
  /\ GHOST_COHERENCE \in Nat /\ GHOST_FID_FULL \in Nat /\ GHOST_FID_FLOOR \in Nat \ {0}
  /\ GHOST_FID_FULL - GHOST_FID_FLOOR < GHOST_COHERENCE
  /\ Patterns \subseteq Nat /\ Sources \subseteq Nat \ {0}
<1>1. IsFiniteSet(0 .. GHOST_M - 1)
  BY GhostAssumption, FS_Interval DEF GhostConstants
<1> QED
  BY <1>1, GhostAssumption DEF GhostConstants, Basins, PeerSlots

LEMMA LiveFinite ==
  ASSUME NEW S \in SUBSET Basins
  PROVE  IsFiniteSet(S) /\ Cardinality(S) \in Nat
BY GhostFacts, FS_Subset, FS_CardinalityType

LEMMA LeastIn ==
  ASSUME NEW S \in SUBSET Nat, S # {}
  PROVE  Min(S) \in S
BY LeastExists DEF Min

LEMMA NothingLive == Cardinality({p \in Basins : FALSE}) = 0
<1>1. {p \in Basins : FALSE} = {}
  OBVIOUS
<1> QED
  BY <1>1, FS_EmptySet

LEMMA GhostInitInv == GhostInit => GhostInv
<1> SUFFICES ASSUME GhostInit PROVE GhostInv
  OBVIOUS
<1>1. \A p \in Basins : ~ basin[p].live
  BY DEF GhostInit, NoBasin
<1>2. {p \in Basins : basin[p].live} = {p \in Basins : FALSE}
  BY <1>1
<1>3. GhostTypeOK
  BY DEF GhostInit, GhostTypeOK, NoBasin, NoPeer, NoReply
<1>4. LiveCountExact
  BY <1>2, NothingLive DEF GhostInit, LiveCountExact
<1>5. RecallsNothingExpired
  BY DEF GhostInit, RecallsNothingExpired, NoReply
<1>6. NoSharedSlot
  BY DEF GhostInit, NoSharedSlot, NoPeer
<1> QED
  BY <1>1, <1>3, <1>4, <1>5, <1>6 DEF GhostInv, LiveBasins

(* A step that leaves the basins alone and answers no RECALL.              *)
LEMMA OtherReplyInv ==
  ASSUME GhostInv, UNCHANGED <<basin, live_count, ghostNow>>,
         replied' = replied \/ (replied'.op # "RECALL" /\ replied'.at = ghostNow),
         peer' \in [PeerSlots -> [src : Nat, last : Nat]], NoSharedSlot'
  PROVE  GhostInv'
<1>1. GhostTypeOK'
  BY DEF GhostInv, GhostTypeOK
<1>2. LiveCountExact' /\ LiveBasins' = LiveBasins
  BY DEF GhostInv, LiveCountExact, LiveBasins
<1>3. RecallsNothingExpired'
  BY DEF GhostInv, RecallsNothingExpired
<1> QED
  BY <1>1, <1>2, <1>3 DEF GhostInv

LEMMA ImprintInv ==
  ASSUME GhostInv, NEW slot \in Int, NEW bits \in Patterns, imprint(slot, bits)
  PROVE  GhostInv'
<1>1. CASE slot \notin Basins
  <2>1. UNCHANGED <<basin, live_count, ghostNow, peer>>
        /\ replied'.op # "RECALL" /\ replied'.at = ghostNow
    BY <1>1 DEF imprint, Reply
  <2> QED
    BY <2>1, OtherReplyInv DEF GhostInv, GhostTypeOK, NoSharedSlot
<1>2. CASE slot \in Basins
  <2>1. /\ basin' = [basin EXCEPT ![slot] =
                       [live |-> TRUE, bits |-> bits, imprinted |-> ghostNow,
                        deadline |-> ghostNow + GHOST_COHERENCE]]
        /\ live_count' = live_count + CountNew(slot)
        /\ UNCHANGED <<peer, ghostNow>>
        /\ replied'.op # "RECALL" /\ replied'.at = ghostNow
    BY <1>2 DEF imprint, Reply
  <2>2. GhostTypeOK'
    BY <1>2, <2>1, GhostFacts DEF GhostInv, GhostTypeOK, CountNew
  <2>3. LiveBasins' = LiveBasins \cup {slot}
    BY <1>2, <2>1 DEF GhostInv, GhostTypeOK, LiveBasins
  <2>4. IsFiniteSet(LiveBasins) /\ Cardinality(LiveBasins) \in Nat
    BY LiveFinite DEF LiveBasins
  <2>5. Cardinality(LiveBasins') = live_count + CountNew(slot)
    <3>0. live_count = Cardinality(LiveBasins)
      BY DEF GhostInv, LiveCountExact, LiveBasins
    <3>1. CASE basin[slot].live
      <4>1. LiveBasins' = LiveBasins
        BY <1>2, <2>3, <3>1 DEF LiveBasins
      <4>2. CountNew(slot) = 0
        BY <3>1 DEF CountNew
      <4> QED
        BY <2>4, <3>0, <4>1, <4>2
    <3>2. CASE ~ basin[slot].live
      <4>1. slot \notin LiveBasins
        BY <3>2 DEF LiveBasins
      <4>2. Cardinality(LiveBasins \cup {slot}) = Cardinality(LiveBasins) + 1
        BY <2>4, <4>1, FS_AddElement
      <4>3. CountNew(slot) = 1
        BY <3>2 DEF CountNew
      <4> QED
        BY <2>3, <3>0, <4>2, <4>3
    <3> QED
      BY <3>1, <3>2
  <2>6. LiveCountExact'
    BY <2>1, <2>5 DEF LiveCountExact, LiveBasins
  <2>7. \A p \in LiveBasins' : basin'[p].deadline = basin'[p].imprinted + GHOST_COHERENCE
    BY <1>2, <2>1, <2>3 DEF GhostInv, GhostTypeOK, LiveBasins
  <2> QED
    BY <2>1, <2>2, <2>6, <2>7
       DEF GhostInv, RecallsNothingExpired, NoSharedSlot, LiveBasins
<1> QED
  BY <1>1, <1>2

(* Only a live basin is the best, and a basin that is not faint is not     *)
(* past its deadline: the floor is reached before it.                      *)
LEMMA BestLive ==
  ASSUME GhostInv, NEW out, BestBasin(out) # -1
  PROVE  BestBasin(out) \in LiveBasins
<1> DEFINE alive == {p \in Basins : basin[p].live}
           near == {p \in alive : \A q \in alive :
                      hamming(out, basin[p].bits) <= hamming(out, basin[q].bits)}
<1>1. near # {} /\ BestBasin(out) = Min(near)
  BY DEF BestBasin
<1>2. near \in SUBSET Nat
  BY GhostFacts
<1>3. Min(near) \in near
  <2> HIDE DEF near
  <2> QED
    BY <1>1, <1>2, LeastIn
<1> QED
  BY <1>1, <1>3 DEF LiveBasins

LEMMA NotFaintNotSpent ==
  ASSUME GhostInv, NEW p \in LiveBasins, ~ Faint(p)
  PROVE  ghostNow < basin[p].deadline
<1>1. /\ ghostNow \in Nat /\ basin[p].imprinted \in Nat
      /\ basin[p].deadline = basin[p].imprinted + GHOST_COHERENCE
  BY DEF GhostInv, GhostTypeOK, LiveBasins
<1>2. CASE ghostNow - basin[p].imprinted >= GHOST_FID_FULL
  BY <1>1, <1>2, GhostFacts DEF Faint, slot_fidelity
<1>3. CASE ~ (ghostNow - basin[p].imprinted >= GHOST_FID_FULL)
  <2>1. GHOST_FID_FULL - (ghostNow - basin[p].imprinted) >= GHOST_FID_FLOOR
    BY <1>1, <1>3, GhostFacts DEF Faint, slot_fidelity
  <2> QED
    BY <1>1, <2>1, GhostFacts
<1> QED
  BY <1>2, <1>3

LEMMA RecallInv ==
  ASSUME GhostInv, NEW out, recall(out)
  PROVE  GhostInv'
<1>1. UNCHANGED <<basin, live_count, peer, ghostNow>> /\ replied'.at = ghostNow
  BY DEF recall, Reply
<1>2. ASSUME replied'.match \in Basins
      PROVE  ghostNow < basin[replied'.match].deadline
  <2>1. GHOST_NOMATCH \notin Basins /\ GHOST_FIDELITY \notin Basins
    BY DEF GHOST_NOMATCH, GHOST_FIDELITY, Basins
  <2>2. BestBasin(out) # -1 /\ ~ Faint(BestBasin(out)) /\ replied'.match = BestBasin(out)
    BY <1>2, <2>1 DEF recall, Reply
  <2> QED
    BY <2>2, BestLive, NotFaintNotSpent
<1>3. RecallsNothingExpired'
  BY <1>1, <1>2 DEF RecallsNothingExpired
<1>4. GhostTypeOK' /\ LiveCountExact' /\ NoSharedSlot' /\ LiveBasins' = LiveBasins
  BY <1>1 DEF GhostInv, GhostTypeOK, LiveCountExact, NoSharedSlot, LiveBasins
<1> QED
  BY <1>1, <1>3, <1>4 DEF GhostInv

LEMMA ExitInv ==
  ASSUME GhostInv, exit
  PROVE  GhostInv'
<1>1. \A p \in Basins : ~ basin'[p].live
  BY DEF exit, NoBasin
<1>2. {p \in Basins : basin'[p].live} = {p \in Basins : FALSE}
  BY <1>1
<1>3. LiveCountExact'
  BY <1>2, NothingLive DEF exit, LiveCountExact
<1>4. GhostTypeOK'
  BY DEF exit, GhostInv, GhostTypeOK, NoBasin, NoPeer, NoReply
<1>5. RecallsNothingExpired' /\ NoSharedSlot'
  BY DEF exit, RecallsNothingExpired, NoSharedSlot, NoReply, NoPeer
<1> QED
  BY <1>1, <1>3, <1>4, <1>5 DEF GhostInv, LiveBasins

(* Where a frame of src goes: to src's own slot, or, when it has none, to  *)
(* an empty or a stale one.                                                *)
LEMMA SlotFor ==
  ASSUME GhostInv, NEW src, couple_slot_for(src) # -1
  PROVE  LET slot == couple_slot_for(src)
         IN  /\ slot \in PeerSlots
             /\ \/ peer[slot].src = src
                \/ /\ \A p \in PeerSlots : peer[p].src # src
                   /\ peer[slot].src = 0 \/ Stale(slot)
<1> DEFINE own   == {p \in PeerSlots : peer[p].src = src}
           empty == PeerSlots \ Seen
           stale == {p \in Seen : Stale(p)}
<1>1. /\ own \in SUBSET Nat /\ empty \in SUBSET Nat /\ stale \in SUBSET Nat
      /\ own \subseteq PeerSlots /\ empty \subseteq PeerSlots /\ stale \subseteq PeerSlots
  BY GhostFacts DEF Seen
<1>2. \/ own # {} /\ couple_slot_for(src) = Min(own)
      \/ own = {} /\ empty # {} /\ couple_slot_for(src) = Min(empty)
      \/ own = {} /\ stale # {} /\ couple_slot_for(src) = Min(stale)
  BY DEF couple_slot_for
<1>3. \/ couple_slot_for(src) \in own
      \/ own = {} /\ couple_slot_for(src) \in empty
      \/ own = {} /\ couple_slot_for(src) \in stale
  <2> HIDE DEF own, empty, stale
  <2> QED
    BY <1>1, <1>2, LeastIn
<1> QED
  BY <1>1, <1>3 DEF Seen

LEMMA CoupleKeeps ==
  ASSUME GhostInv, NEW src \in Sources, couple(src)
  PROVE  /\ GhostInv'
         /\ \A p \in PeerSlots : peer[p].src # 0 /\ ~ Stale(p) /\ peer'[p] # peer[p]
              => peer'[p].src \in {peer[p].src, 0}
<1> DEFINE slot == couple_slot_for(src)
<1>1. UNCHANGED <<basin, live_count, ghostNow, replied>>
  BY DEF couple
<1>2. CASE slot = -1
  <2>1. peer' = peer
    BY <1>2 DEF couple
  <2> QED
    BY <1>1, <2>1, OtherReplyInv DEF GhostInv, GhostTypeOK, NoSharedSlot
<1>3. CASE slot # -1
  <2> HIDE DEF slot
  <2>1. /\ slot \in PeerSlots
        /\ \/ peer[slot].src = src
           \/ /\ \A p \in PeerSlots : peer[p].src # src
              /\ peer[slot].src = 0 \/ Stale(slot)
    BY <1>3, SlotFor DEF slot
  <2>2. slot >= 0
    BY <2>1, GhostFacts
  <2>3. peer' = [peer EXCEPT ![slot] = [src |-> src, last |-> ghostNow]]
    BY <2>2 DEF couple, slot
  <2>4. peer' \in [PeerSlots -> [src : Nat, last : Nat]]
    BY <2>1, <2>3, GhostFacts DEF GhostInv, GhostTypeOK
  <2>5. NoSharedSlot'
    BY <2>1, <2>3 DEF GhostInv, GhostTypeOK, NoSharedSlot
  <2>6. GhostInv'
    BY <1>1, <2>4, <2>5, OtherReplyInv
  <2> QED
    BY <2>1, <2>3, <2>6 DEF GhostInv, GhostTypeOK
<1> QED
  BY <1>2, <1>3

LEMMA IdleInv ==
  ASSUME GhostInv, free_tick
  PROVE  GhostInv'
<1>1. /\ basin' = [p \in Basins |-> IF p \in SpentBasins THEN [basin[p] EXCEPT !.live = FALSE]
                                    ELSE basin[p]]
      /\ live_count' = IF live_count > Cardinality(SpentBasins)
                       THEN live_count - Cardinality(SpentBasins) ELSE 0
      /\ UNCHANGED <<peer, ghostNow, replied>>
  BY DEF free_tick, reap_expired
<1>2. SpentBasins \subseteq LiveBasins /\ LiveBasins \subseteq Basins
  BY DEF SpentBasins, LiveBasins
<1>3. LiveBasins' = LiveBasins \ SpentBasins
  BY <1>1, <1>2 DEF LiveBasins, GhostInv, GhostTypeOK
<1>4. /\ IsFiniteSet(LiveBasins) /\ IsFiniteSet(SpentBasins)
      /\ Cardinality(LiveBasins) \in Nat /\ Cardinality(SpentBasins) \in Nat
  BY <1>2, LiveFinite
<1>5. Cardinality(LiveBasins \ SpentBasins) = Cardinality(LiveBasins) - Cardinality(SpentBasins)
  <2>1. LiveBasins \cap SpentBasins = SpentBasins
    BY <1>2
  <2> QED
    BY <1>4, <2>1, FS_Difference
<1>6. Cardinality(LiveBasins \ SpentBasins) \in Nat
  BY <1>2, LiveFinite
<1>7. live_count = Cardinality(LiveBasins)
  BY DEF GhostInv, LiveCountExact, LiveBasins
<1>8. live_count' = Cardinality(LiveBasins \ SpentBasins)
  BY <1>1, <1>4, <1>5, <1>6, <1>7
<1>9. LiveCountExact'
  BY <1>3, <1>8 DEF LiveCountExact, LiveBasins
<1>10. \A p \in Basins : /\ basin'[p].deadline = basin[p].deadline
                         /\ basin'[p].imprinted = basin[p].imprinted
  BY <1>1 DEF GhostInv, GhostTypeOK
<1>11. GhostTypeOK'
  <2>1. basin' \in [Basins -> [live : BOOLEAN, bits : Nat, imprinted : Nat, deadline : Nat]]
    BY <1>1 DEF GhostInv, GhostTypeOK
  <2> QED
    BY <1>1, <1>6, <1>8, <2>1 DEF GhostInv, GhostTypeOK
<1>12. RecallsNothingExpired'
  BY <1>1, <1>10 DEF GhostInv, RecallsNothingExpired
<1>13. NoSharedSlot'
  BY <1>1 DEF GhostInv, NoSharedSlot
<1> QED
  BY <1>2, <1>3, <1>9, <1>10, <1>11, <1>12, <1>13 DEF GhostInv

LEMMA TickInv ==
  ASSUME GhostInv, GhostTick
  PROVE  GhostInv'
<1>1. ghostNow' = ghostNow + 1 /\ UNCHANGED <<basin, live_count, peer, replied>>
  BY DEF GhostTick
<1>2. GhostTypeOK' /\ LiveCountExact' /\ NoSharedSlot' /\ LiveBasins' = LiveBasins
  BY <1>1 DEF GhostInv, GhostTypeOK, LiveCountExact, NoSharedSlot, LiveBasins
<1>3. replied'.at # ghostNow'
  BY <1>1 DEF GhostInv, GhostTypeOK
<1> QED
  BY <1>1, <1>2, <1>3 DEF GhostInv, RecallsNothingExpired

(* Every step keeps the invariant and the live peers.                      *)
LEMMA GhostStep ==
  ASSUME GhostInv, [GhostNext]_ghostVars
  PROVE  /\ GhostInv'
         /\ \A p \in PeerSlots : peer[p].src # 0 /\ ~ Stale(p) /\ peer'[p] # peer[p]
              => peer'[p].src \in {peer[p].src, 0}
<1>1. ASSUME NEW slot \in -1 .. GHOST_M, NEW bits \in Patterns, imprint(slot, bits)
      PROVE  GhostInv' /\ peer' = peer
  <2>1. slot \in Int
    BY GhostAssumption DEF GhostConstants
  <2> QED
    BY <1>1, <2>1, ImprintInv DEF imprint
<1>2. ASSUME NEW out \in Patterns, recall(out)
      PROVE  GhostInv' /\ peer' = peer
  BY <1>2, RecallInv DEF recall
<1>3. ASSUME NEW op \in {"STATUS", "other"}, status(op)
      PROVE  GhostInv' /\ peer' = peer
  <2>1. /\ UNCHANGED <<basin, live_count, ghostNow, peer>>
        /\ replied'.op # "RECALL" /\ replied'.at = ghostNow
    BY <1>3 DEF status, Reply
  <2> QED
    BY <2>1, OtherReplyInv DEF GhostInv, GhostTypeOK, NoSharedSlot
<1>4. ASSUME exit
      PROVE  GhostInv' /\ \A p \in PeerSlots : peer'[p].src = 0
  BY <1>4, ExitInv DEF exit, NoPeer
<1>5. ASSUME snapshot
      PROVE  GhostInv' /\ peer' = peer
  <2>1. /\ UNCHANGED <<basin, live_count, ghostNow, peer>>
        /\ replied'.op # "RECALL" /\ replied'.at = ghostNow
    BY <1>5 DEF snapshot, Reply
  <2> QED
    BY <2>1, OtherReplyInv DEF GhostInv, GhostTypeOK, NoSharedSlot
<1>6. ASSUME free_tick
      PROVE  GhostInv' /\ peer' = peer
  BY <1>6, IdleInv DEF free_tick
<1>7. ASSUME GhostTick
      PROVE  GhostInv' /\ peer' = peer
  BY <1>7, TickInv DEF GhostTick
<1>8. ASSUME UNCHANGED ghostVars
      PROVE  GhostInv' /\ peer' = peer
  BY <1>8, OtherReplyInv DEF ghostVars, GhostInv, GhostTypeOK, NoSharedSlot
<1> QED
  BY <1>1, <1>2, <1>3, <1>4, <1>5, <1>6, <1>7, <1>8, CoupleKeeps
     DEF GhostNext, GhostPass, handle, handle_wide

LEMMA AlwaysGhostInv == GhostSpec => []GhostInv
<1>1. GhostInv /\ [GhostNext]_ghostVars => GhostInv'
  BY GhostStep
<1> QED
  BY <1>1, GhostInitInv, PTL DEF GhostSpec

(* The count of live basins stays exact and a spent imprint is never       *)
(* recalled, for every number of slots and however requests and idle       *)
(* passes alternate (imprint, recall, reap_expired).                       *)
THEOREM MemoriesAreSound == GhostSpec => []GhostSound
<1>1. GhostInv => GhostSound
  BY DEF GhostInv, GhostSound
<1> QED
  BY <1>1, AlwaysGhostInv, PTL

(* A frame never takes the slot of a peer that is still live, for every    *)
(* number of slots and sources (couple_slot_for).                          *)
THEOREM LivePeersStay == GhostSpec => LivePeersKept
<1>1. GhostInv /\ GhostInv' /\ [GhostNext]_ghostVars
        => [/\ \A p \in PeerSlots : peer[p].src # 0 /\ ~Stale(p) /\ peer'[p] # peer[p]
                 => peer'[p].src \in {peer[p].src, 0}
            /\ \A p, q \in PeerSlots : peer'[p].src = peer'[q].src /\ peer'[p].src # 0
                 => p = q]_ghostVars
  BY GhostStep DEF GhostInv, NoSharedSlot
<1> QED
  BY <1>1, AlwaysGhostInv, PTL DEF GhostSpec, LivePeersKept
-----------------------------------------------------------------------------
(* The swarm plane: swarm_svc's replies and fieldsyncd's frames.           *)

FsShape == [pid : Nat, up : BOOLEAN, key : Nat, tx : Nat, water : Nat, due : Nat,
            tries : Nat, agg : Nat, died : Nat]
Message == [op : {"K", "A", "S"}, key : Nat]
SvcShape == [key : Nat, fwd : Nat, jid : {0} \cup Nonces, authed : BOOLEAN, nonce : Nat]

SwarmTypeOK ==
  /\ fs \in FsShape
  /\ svc \in SvcShape
  /\ box \in Seq(Message)
  /\ swarm_asked \in [Nonces -> [job : BOOLEAN, keyed : BOOLEAN]]
  /\ swarmNow \in Nat

(* What is coupled under a key lies at or below the watermark.             *)
BelowWatermark ==
  fs.up /\ fs.key # 0 =>
    \A f \in DOMAIN coupled :
      f.key = fs.key /\ coupled[f] = 1 /\ f.seq \in Nat /\ f.seq <= fs.water

(* At most one frame is stamped in a tick, so fieldsyncd's sequence stays  *)
(* within one of the clock and the seed of its next life is above it.      *)
SequenceFollowsClock ==
  LET awaited == IF fs.tries > 0 THEN 1 ELSE 0
  IN  /\ fs.tx + awaited <= fs.due
      /\ fs.tx + awaited <= swarmNow + 1 \/ ~ fs.up
      /\ ~ fs.up => fs.tx <= fs.died + 1
StampsBehind ==
  /\ \A s \in stamped : s[2] \in Nat /\ s[2] <= fs.tx
  /\ \A s, t \in stamped : s[2] = t[2] => s = t

(* A reply was asked for, and the stash of a running job frames its reply  *)
(* as the host asked.                                                      *)
Framed(asked, n) == IF asked[n].keyed THEN n ELSE 0
RepliesAsked ==
  /\ \A r \in replies : r.of \in Nonces /\ swarm_asked[r.of].job /\ r.nonce = Framed(swarm_asked, r.of)
  /\ svc.jid # 0 => swarm_asked[svc.jid].job /\ StashedNonce = Framed(swarm_asked, svc.jid)

FieldsyncInv == BelowWatermark /\ SequenceFollowsClock /\ StampsBehind
SwarmInv == SwarmTypeOK /\ FieldsyncInv /\ RepliesAsked

LEMMA SwarmInitInv == SwarmInit => SwarmInv
<1> SUFFICES ASSUME SwarmInit PROVE SwarmInv
  OBVIOUS
<1>1. fs = [pid |-> 1, up |-> TRUE, key |-> 0, tx |-> 0, water |-> 0,
            due |-> 0, tries |-> 0, agg |-> 0, died |-> 0] /\ swarmNow = 0
  BY DEF SwarmInit, NewFs, Seed
<1>2. SwarmTypeOK
  <2>1. fs \in FsShape /\ swarmNow \in Nat
    BY <1>1 DEF FsShape
  <2>2. svc \in SvcShape
    BY DEF SwarmInit, SvcShape, NewSvc
  <2>3. swarm_asked \in [Nonces -> [job : BOOLEAN, keyed : BOOLEAN]]
    BY DEF SwarmInit, NotAsked
  <2> QED
    BY <2>1, <2>2, <2>3 DEF SwarmInit, SwarmTypeOK
<1>3. FieldsyncInv
  BY <1>1 DEF SwarmInit, FieldsyncInv, BelowWatermark, SequenceFollowsClock, StampsBehind
<1>4. RepliesAsked
  BY DEF SwarmInit, RepliesAsked, NewSvc
<1> QED
  BY <1>2, <1>3, <1>4 DEF SwarmInv

(* A step of swarm_svc leaves fieldsyncd's part alone ...                  *)
LEMMA FieldsyncSame ==
  ASSUME FieldsyncInv, UNCHANGED <<fs, coupled, stamped, swarmNow>>
  PROVE  FieldsyncInv'
BY DEF FieldsyncInv, BelowWatermark, SequenceFollowsClock, StampsBehind

(* ... and a step of fieldsyncd leaves the replies alone.                  *)
LEMMA RepliesSame ==
  ASSUME RepliesAsked, UNCHANGED <<svc, swarm_asked, replies>>
  PROVE  RepliesAsked'
BY DEF RepliesAsked, Framed, StashedNonce

LEMMA BoxGrows ==
  ASSUME SwarmTypeOK, NEW m \in Message, box' = Append(box, m)
  PROVE  box' \in Seq(Message)
BY DEF SwarmTypeOK

LEMMA BoxShrinks ==
  ASSUME SwarmTypeOK, box # << >>
  PROVE  /\ Head(box) \in Message
         /\ Tail(box) \in Seq(Message)
BY DEF SwarmTypeOK

(* Storing or forwarding a key does not touch the job in progress.         *)
LEMMA KeyMoves ==
  ASSUME SwarmInv, NEW key \in Nat, NEW fwd \in Nat,
         svc' = [svc EXCEPT !.key = key, !.fwd = fwd],
         \/ UNCHANGED box
         \/ \E k \in Nat : box' = Append(box, [op |-> "K", key |-> k]),
         UNCHANGED <<fs, swarm_asked, replies, coupled, stamped, swarmNow>>
  PROVE  SwarmInv'
<1>1. svc' \in SvcShape /\ svc'.jid = svc.jid /\ svc'.authed = svc.authed
      /\ svc'.nonce = svc.nonce
  BY DEF SwarmInv, SwarmTypeOK, SvcShape
<1>2. SwarmTypeOK'
  <2>1. box' \in Seq(Message)
    <3>1. \A k \in Nat : [op |-> "K", key |-> k] \in Message
      BY DEF Message
    <3> QED
      BY <3>1, BoxGrows DEF SwarmInv, SwarmTypeOK
  <2> QED
    BY <1>1, <2>1 DEF SwarmInv, SwarmTypeOK
<1>3. RepliesAsked'
  BY <1>1 DEF SwarmInv, RepliesAsked, Framed, StashedNonce
<1> QED
  BY <1>2, <1>3, FieldsyncSame DEF SwarmInv

LEMMA AdmitInv ==
  ASSUME SwarmInv, NEW k \in Keys, admit_key(k)
  PROVE  SwarmInv'
<1>1. k \in Nat
  BY SwarmAssumption DEF SwarmConstants
<1>2. svc \in SvcShape /\ fs \in FsShape
  BY DEF SwarmInv, SwarmTypeOK
<1>3. find_fieldsyncd_pid \in Nat
  BY <1>2 DEF find_fieldsyncd_pid, FsShape
<1>4. \/ /\ box' = Append(box, [op |-> "K", key |-> k])
         /\ svc' = [svc EXCEPT !.key = k, !.fwd = find_fieldsyncd_pid]
      \/ UNCHANGED box /\ svc' = [svc EXCEPT !.key = k, !.fwd = svc.fwd]
  BY <1>2 DEF admit_key, ForwardOrNot, forward_key_to, SvcShape
<1>5. UNCHANGED <<fs, swarm_asked, replies, coupled, stamped, swarmNow>>
  BY DEF admit_key
<1>6. svc.fwd \in Nat
  BY <1>2 DEF SvcShape
<1> QED
  BY <1>1, <1>3, <1>4, <1>5, <1>6, KeyMoves

LEMMA ReforwardInv ==
  ASSUME SwarmInv, key_reforward_step
  PROVE  SwarmInv'
<1>1. svc \in SvcShape /\ fs \in FsShape
  BY DEF SwarmInv, SwarmTypeOK
<1>2. find_fieldsyncd_pid \in Nat /\ svc.key \in Nat
  BY <1>1 DEF find_fieldsyncd_pid, FsShape, SvcShape
<1>3. /\ box' = Append(box, [op |-> "K", key |-> svc.key])
      /\ svc' = [svc EXCEPT !.key = svc.key, !.fwd = find_fieldsyncd_pid]
      /\ UNCHANGED <<fs, swarm_asked, replies, coupled, stamped, swarmNow>>
  BY <1>1 DEF key_reforward_step, forward_key_to, SvcShape
<1> QED
  BY <1>2, <1>3, KeyMoves

(* A request the host asks now has had no reply and is not the job in      *)
(* progress, so framing it disturbs neither.                               *)
LEMMA AskedOnce ==
  ASSUME SwarmInv, NEW n \in Nonces, NEW keyed \in BOOLEAN, Asks(n, keyed)
  PROVE  /\ swarm_asked' \in [Nonces -> [job : BOOLEAN, keyed : BOOLEAN]]
         /\ swarm_asked'[n].job /\ Framed(swarm_asked', n) = IF keyed THEN n ELSE 0
         /\ \A r \in replies : r.of \in Nonces /\ swarm_asked'[r.of].job
                               /\ r.nonce = Framed(swarm_asked', r.of)
         /\ svc.jid # 0 => svc.jid # n /\ swarm_asked'[svc.jid].job
                           /\ Framed(swarm_asked', svc.jid) = Framed(swarm_asked, svc.jid)
<1>1. /\ swarm_asked \in [Nonces -> [job : BOOLEAN, keyed : BOOLEAN]]
      /\ ~ swarm_asked[n].job
      /\ swarm_asked' = [swarm_asked EXCEPT ![n] = [job |-> TRUE, keyed |-> keyed]]
  BY DEF SwarmInv, SwarmTypeOK, Asks
<1>2. /\ swarm_asked' \in [Nonces -> [job : BOOLEAN, keyed : BOOLEAN]]
      /\ swarm_asked'[n] = [job |-> TRUE, keyed |-> keyed]
      /\ \A m \in Nonces \ {n} : swarm_asked'[m] = swarm_asked[m]
  BY <1>1
<1>3. svc.jid # 0 => svc.jid \in Nonces \ {n}
  BY <1>1 DEF SwarmInv, SwarmTypeOK, SvcShape, RepliesAsked
<1>4. \A r \in replies : r.of \in Nonces \ {n}
  BY <1>1 DEF SwarmInv, RepliesAsked
<1>5. /\ swarm_asked'[n].job /\ swarm_asked'[n].keyed = keyed
      /\ \A m \in Nonces \ {n} : /\ swarm_asked'[m].job = swarm_asked[m].job
                                 /\ swarm_asked'[m].keyed = swarm_asked[m].keyed
  BY <1>2
<1> QED
  BY <1>2, <1>3, <1>4, <1>5 DEF SwarmInv, RepliesAsked, Framed

(* One request taken in: answered at once as it was framed, or not at all. *)
LEMMA AnsweredInv ==
  ASSUME SwarmInv, NEW n \in Nonces, NEW keyed \in BOOLEAN, Asks(n, keyed),
         replies' = replies \/ emit_authed_reply(n, IF keyed THEN n ELSE 0),
         UNCHANGED <<svc, fs, box, coupled, stamped, swarmNow>>
  PROVE  SwarmInv'
<1>1. SwarmTypeOK'
  BY AskedOnce DEF SwarmInv, SwarmTypeOK
<1>2. RepliesAsked'
  <2>1. \A r \in replies' : r \in replies \/ r = [of |-> n, nonce |-> IF keyed THEN n ELSE 0]
    BY DEF emit_authed_reply
  <2>2. StashedNonce' = StashedNonce
    BY DEF StashedNonce
  <2>3. svc'.jid # 0 => swarm_asked'[svc'.jid].job /\ StashedNonce' = Framed(swarm_asked', svc'.jid)
    BY <2>2, AskedOnce DEF SwarmInv, RepliesAsked, Framed
  <2>4. \A r \in replies' : r.of \in Nonces /\ swarm_asked'[r.of].job
                            /\ r.nonce = Framed(swarm_asked', r.of)
    BY <2>1, AskedOnce
  <2> QED
    BY <2>3, <2>4 DEF RepliesAsked, Framed
<1> QED
  BY <1>1, <1>2, FieldsyncSame DEF SwarmInv

LEMMA QsubmitInv ==
  ASSUME SwarmInv, NEW n \in Nonces, NEW framed \in BOOLEAN, NEW valid \in BOOLEAN,
         qsubmit(n, framed, valid)
  PROVE  SwarmInv'
<1> DEFINE keyed == svc.key # 0
<1>1. Asks(n, keyed) /\ UNCHANGED <<fs, box, coupled, stamped, swarmNow>>
  BY DEF qsubmit
<1>2. n # 0 /\ n \in Nat
  BY SwarmAssumption DEF SwarmConstants
<1>3. CASE emit_authed_reply(n, IF keyed THEN n ELSE 0) /\ UNCHANGED svc
  BY <1>1, <1>3, AnsweredInv
<1>4. CASE /\ svc.jid = 0 /\ UNCHANGED replies
           /\ svc' = [svc EXCEPT !.jid = n, !.authed = keyed,
                                 !.nonce = IF keyed THEN n ELSE @]
  <2>1. svc \in SvcShape
    BY DEF SwarmInv, SwarmTypeOK
  <2>2. svc' \in SvcShape /\ svc'.jid = n /\ svc'.authed = keyed /\ (keyed => svc'.nonce = n)
    BY <1>2, <1>4, <2>1 DEF SvcShape
  <2>3. SwarmTypeOK'
    BY <1>1, <2>2, AskedOnce DEF SwarmInv, SwarmTypeOK
  <2>4. StashedNonce' = IF keyed THEN n ELSE 0
    BY <2>2 DEF StashedNonce
  <2>5. /\ swarm_asked'[n].job /\ Framed(swarm_asked', n) = IF keyed THEN n ELSE 0
        /\ \A r \in replies : r.of \in Nonces /\ swarm_asked'[r.of].job
                              /\ r.nonce = Framed(swarm_asked', r.of)
    BY <1>1, AskedOnce
  <2>6. RepliesAsked'
    BY <1>4, <2>2, <2>4, <2>5 DEF RepliesAsked, Framed
  <2> QED
    BY <1>1, <2>3, <2>6, FieldsyncSame DEF SwarmInv
<1> QED
  BY <1>2, <1>3, <1>4 DEF qsubmit

LEMMA PollInv ==
  ASSUME SwarmInv, qsub_poll_step
  PROVE  SwarmInv'
<1>1. svc \in SvcShape /\ svc.jid # 0
  BY DEF SwarmInv, SwarmTypeOK, qsub_poll_step
<1>2. svc' \in SvcShape /\ svc'.jid = 0
  BY <1>1 DEF qsub_poll_step, SvcShape
<1>3. UNCHANGED <<fs, box, swarm_asked, coupled, stamped, swarmNow>>
  BY DEF qsub_poll_step
<1>4. SwarmTypeOK'
  BY <1>2, <1>3 DEF SwarmInv, SwarmTypeOK
<1>5. svc.jid \in Nonces
  BY <1>1 DEF SvcShape
<1>6. \A r \in replies' : r \in replies \/ r = [of |-> svc.jid, nonce |-> StashedNonce]
  BY DEF qsub_poll_step, emit_authed_reply
<1>7. RepliesAsked'
  BY <1>1, <1>2, <1>3, <1>5, <1>6 DEF SwarmInv, RepliesAsked, Framed
<1> QED
  BY <1>3, <1>4, <1>7, FieldsyncSame DEF SwarmInv
-----------------------------------------------------------------------------
(* A key is installed: nothing is coupled under it yet.                    *)
LEMMA NoteKeyInv ==
  ASSUME SwarmTypeOK, FieldsyncInv, NEW m \in Message, note_key(m),
         UNCHANGED <<stamped, swarmNow>>
  PROVE  fs' \in FsShape /\ FieldsyncInv'
<1>1. fs \in FsShape /\ m.key \in Nat
  BY DEF SwarmTypeOK, Message
<1>2. fs' = [fs EXCEPT !.key = m.key, !.water = 0] /\ coupled' = [f \in {} |-> 0]
  BY DEF note_key
<1>3. /\ fs' \in FsShape /\ fs'.tries = fs.tries /\ fs'.tx = fs.tx /\ fs'.due = fs.due
      /\ fs'.up = fs.up /\ fs'.died = fs.died
  BY <1>1, <1>2 DEF FsShape
<1>4. DOMAIN coupled' = {}
  BY <1>2
<1>5. BelowWatermark'
  BY <1>4 DEF BelowWatermark
<1> QED
  BY <1>3, <1>5 DEF FieldsyncInv, SequenceFollowsClock, StampsBehind

LEMMA NoteAggregateInv ==
  ASSUME SwarmTypeOK, FieldsyncInv, NEW m, note_aggregate(m), UNCHANGED <<stamped, swarmNow>>
  PROVE  fs' \in FsShape /\ FieldsyncInv'
<1>1. fs \in FsShape /\ fs' = [fs EXCEPT !.agg = 1]
  BY DEF SwarmTypeOK, note_aggregate
<1>2. /\ fs' \in FsShape /\ fs'.tries = fs.tries /\ fs'.tx = fs.tx /\ fs'.due = fs.due
      /\ fs'.up = fs.up /\ fs'.died = fs.died /\ fs'.key = fs.key /\ fs'.water = fs.water
  BY <1>1 DEF FsShape
<1>3. coupled' = coupled
  BY DEF note_aggregate
<1> QED
  BY <1>2, <1>3 DEF FieldsyncInv, BelowWatermark, SequenceFollowsClock, StampsBehind

LEMMA DrainInv ==
  ASSUME SwarmInv, DrainOne
  PROVE  SwarmInv'
<1>1. /\ box # << >> /\ box' = Tail(box)
      /\ UNCHANGED <<svc, swarm_asked, replies, stamped, swarmNow>>
  BY DEF DrainOne
<1>2. Head(box) \in Message /\ box' \in Seq(Message)
  BY <1>1, BoxShrinks DEF SwarmInv
<1>3. fs' \in FsShape /\ FieldsyncInv'
  <2>1. CASE note_key(Head(box))
    BY <1>1, <1>2, <2>1, NoteKeyInv DEF SwarmInv
  <2>2. CASE note_aggregate(Head(box))
    BY <1>1, <2>2, NoteAggregateInv DEF SwarmInv
  <2>3. CASE UNCHANGED <<fs, coupled>>
    BY <1>1, <2>3, FieldsyncSame DEF SwarmInv, SwarmTypeOK
  <2> QED
    BY <2>1, <2>2, <2>3 DEF DrainOne
<1> QED
  BY <1>1, <1>2, <1>3, RepliesSame DEF SwarmInv, SwarmTypeOK

(* A keyed frame is above the watermark, so it has not been coupled yet.   *)
LEMMA RecvInv ==
  ASSUME SwarmInv, NEW f \in PeerFrames, RecvFrame(f)
  PROVE  SwarmInv'
<1>1. UNCHANGED <<svc, box, swarm_asked, replies, stamped, swarmNow>>
  BY DEF RecvFrame
<1>2. fs \in FsShape
  BY DEF SwarmInv, SwarmTypeOK
<1>3. f.seq \in Nat
  BY SwarmAssumption DEF PeerFrames, SwarmConstants
<1>4. CASE fs.key = 0
  <2>1. fs' = fs
    BY <1>4 DEF RecvFrame
  <2>2. FieldsyncInv'
    BY <1>1, <1>4, <2>1 DEF SwarmInv, FieldsyncInv, BelowWatermark, SequenceFollowsClock, StampsBehind
  <2> QED
    BY <1>1, <2>1, <2>2, RepliesSame DEF SwarmInv, SwarmTypeOK
<1>5. CASE fs.key # 0
  <2>1. f.key = fs.key /\ f.seq > fs.water /\ fs.up /\ fs' = [fs EXCEPT !.water = f.seq]
    BY <1>5 DEF RecvFrame, FreshSeq
  <2>2. /\ fs' \in FsShape /\ fs'.tries = fs.tries /\ fs'.tx = fs.tx /\ fs'.due = fs.due
        /\ fs'.up = fs.up /\ fs'.died = fs.died /\ fs'.key = fs.key /\ fs'.water = f.seq
    BY <1>2, <1>3, <2>1 DEF FsShape
  <2>3. \A g \in DOMAIN coupled : g.key = fs.key /\ coupled[g] = 1 /\ g.seq \in Nat
                                  /\ g.seq <= fs.water
    BY <1>5, <2>1 DEF SwarmInv, FieldsyncInv, BelowWatermark
  <2>4. f \notin DOMAIN coupled
    BY <1>2, <2>1, <2>3 DEF FsShape
  <2>5. coupled' = [g \in DOMAIN coupled \cup {f} |-> IF g = f THEN 1 ELSE coupled[g]]
    BY <2>4 DEF RecvFrame
  <2>6. \A g \in DOMAIN coupled' : g.key = fs.key /\ coupled'[g] = 1 /\ g.seq \in Nat
                                   /\ g.seq <= f.seq
    BY <1>2, <1>3, <2>1, <2>3, <2>5 DEF FsShape
  <2>7. FieldsyncInv'
    BY <1>1, <2>2, <2>6 DEF SwarmInv, FieldsyncInv, BelowWatermark, SequenceFollowsClock,
                            StampsBehind
  <2> QED
    BY <1>1, <2>2, <2>7, RepliesSame DEF SwarmInv, SwarmTypeOK
<1> QED
  BY <1>4, <1>5

(* A send cycle begins no earlier than it is due, which is after the last. *)
LEMMA AskInv ==
  ASSUME SwarmInv, AskSnapshot
  PROVE  SwarmInv'
<1>1. /\ UNCHANGED <<svc, box, swarm_asked, replies, coupled, stamped, swarmNow>>
      /\ fs.up /\ fs.tries = 0 /\ swarmNow >= fs.due
      /\ fs' = [fs EXCEPT !.due = swarmNow + SEND_TICKS, !.tries = 1]
  BY DEF AskSnapshot
<1>2. fs \in FsShape /\ swarmNow \in Nat /\ SEND_TICKS \in Nat \ {0}
  BY SwarmAssumption DEF SwarmInv, SwarmTypeOK, SwarmConstants
<1>2a. PICK due \in Nat : due = swarmNow + SEND_TICKS
  BY <1>2
<1>3. /\ fs' \in FsShape /\ fs'.tries = 1 /\ fs'.tx = fs.tx /\ fs'.due = swarmNow + SEND_TICKS
      /\ fs'.up = fs.up /\ fs'.died = fs.died /\ fs'.key = fs.key /\ fs'.water = fs.water
  <2>1. fs' = [fs EXCEPT !.due = due, !.tries = 1]
    BY <1>1, <1>2a
  <2> QED
    BY <1>2, <1>2a, <2>1 DEF FsShape
<1>4. fs.tx \in Nat /\ fs.due \in Nat /\ fs.tx <= fs.due
  BY <1>1, <1>2 DEF SwarmInv, FieldsyncInv, SequenceFollowsClock, FsShape
<1>5. SequenceFollowsClock'
  BY <1>1, <1>2, <1>3, <1>4 DEF SequenceFollowsClock
<1>6. BelowWatermark' /\ StampsBehind'
  BY <1>1, <1>3 DEF SwarmInv, FieldsyncInv, BelowWatermark, StampsBehind
<1> QED
  BY <1>1, <1>3, <1>5, <1>6, RepliesSame DEF SwarmInv, SwarmTypeOK, FieldsyncInv

(* A stamped frame's number is above every other's.                        *)
LEMMA GotSnapshotInv ==
  ASSUME SwarmTypeOK, FieldsyncInv, fs.up, fs.tries > 0, GotSnapshot, UNCHANGED swarmNow
  PROVE  fs' \in FsShape /\ FieldsyncInv'
<1>1. fs \in FsShape /\ swarmNow \in Nat
  BY DEF SwarmTypeOK
<1>2. /\ fs' = [fs EXCEPT !.tries = 0, !.tx = IF fs.key # 0 THEN @ + 1 ELSE @]
      /\ coupled' = coupled
  BY DEF GotSnapshot
<1>2a. PICK tx \in Nat : tx = IF fs.key # 0 THEN fs.tx + 1 ELSE fs.tx
  BY <1>1 DEF FsShape
<1>3. /\ fs' \in FsShape /\ fs'.tries = 0 /\ fs'.tx = IF fs.key # 0 THEN fs.tx + 1 ELSE fs.tx
      /\ fs'.due = fs.due /\ fs'.up = fs.up /\ fs'.died = fs.died /\ fs'.key = fs.key
      /\ fs'.water = fs.water
  <2>1. fs' = [fs EXCEPT !.tries = 0, !.tx = tx]
    BY <1>1, <1>2, <1>2a DEF FsShape
  <2> QED
    BY <1>1, <1>2a, <2>1 DEF FsShape
<1>4. BelowWatermark'
  BY <1>2, <1>3 DEF FieldsyncInv, BelowWatermark
<1>5. fs.tx \in Nat /\ fs.due \in Nat /\ fs.died \in Nat /\ fs.tries \in Nat
  BY <1>1 DEF FsShape
<1>6. SequenceFollowsClock'
  BY <1>1, <1>3, <1>5 DEF FieldsyncInv, SequenceFollowsClock
<1>7. StampsBehind'
  <2>1. CASE fs.key = 0
    BY <1>3, <2>1 DEF GotSnapshot, FieldsyncInv, StampsBehind
  <2>2. CASE fs.key # 0
    <3>1. stamped' = stamped \cup {<<fs.key, fs.tx + 1, fs.pid>>} /\ fs'.tx = fs.tx + 1
      BY <1>3, <2>2 DEF GotSnapshot
    <3>2. \A s \in stamped : s[2] \in Nat /\ s[2] <= fs.tx
      BY DEF FieldsyncInv, StampsBehind
    <3>3. \A s \in stamped : s[2] # fs.tx + 1
      BY <1>5, <3>2
    <3>4. \A s, t \in stamped : s[2] = t[2] => s = t
      BY DEF FieldsyncInv, StampsBehind
    <3>5. \A s \in stamped' : s[2] \in Nat /\ s[2] <= fs'.tx
      BY <1>5, <3>1, <3>2
    <3>6. \A s, t \in stamped' : s[2] = t[2] => s = t
      BY <3>1, <3>3, <3>4
    <3> QED
      BY <3>5, <3>6 DEF StampsBehind
  <2> QED
    BY <2>1, <2>2
<1> QED
  BY <1>3, <1>4, <1>6, <1>7 DEF FieldsyncInv

LEMMA SnapshotInv ==
  ASSUME SwarmInv, SnapshotStep
  PROVE  SwarmInv'
<1>1. fs.up /\ fs.tries > 0 /\ UNCHANGED <<svc, swarm_asked, replies, swarmNow>>
  BY DEF SnapshotStep
<1>2. CASE box # << >> /\ box' = Tail(box) /\ (GotSnapshot \/ OtherMessage)
  <2>1. /\ Head(box) \in Message
        /\ box' \in Seq(Message)
    BY <1>2, BoxShrinks DEF SwarmInv
  <2>2. fs' \in FsShape /\ FieldsyncInv'
    BY <1>1, <1>2, <2>1, GotSnapshotInv, NoteKeyInv, NoteAggregateInv
       DEF SwarmInv, OtherMessage, CaptureOther
  <2> QED
    BY <1>1, <2>1, <2>2, RepliesSame DEF SwarmInv, SwarmTypeOK
<1>3. CASE /\ UNCHANGED <<box, coupled, stamped>>
           /\ fs' = [fs EXCEPT !.tries = IF @ < SNAPSHOT_TRIES THEN @ + 1 ELSE 0]
  <2>1. fs \in FsShape /\ swarmNow \in Nat
    BY DEF SwarmInv, SwarmTypeOK
  <2>2. /\ fs' \in FsShape /\ fs'.tx = fs.tx /\ fs'.due = fs.due /\ fs'.up = fs.up
        /\ fs'.died = fs.died /\ fs'.key = fs.key /\ fs'.water = fs.water /\ fs'.tries \in Nat
    BY <1>3, <2>1 DEF FsShape
  <2>3. fs.tx \in Nat /\ fs.due \in Nat /\ fs.tx + 1 <= fs.due /\ fs.tx + 1 <= swarmNow + 1
    BY <1>1, <2>1 DEF SwarmInv, FieldsyncInv, SequenceFollowsClock, FsShape
  <2>4. SequenceFollowsClock'
    BY <1>1, <2>1, <2>2, <2>3 DEF SequenceFollowsClock
  <2>5. BelowWatermark' /\ StampsBehind'
    BY <1>3, <2>2 DEF SwarmInv, FieldsyncInv, BelowWatermark, StampsBehind
  <2> QED
    BY <1>1, <1>3, <2>2, <2>4, <2>5, RepliesSame DEF SwarmInv, SwarmTypeOK, FieldsyncInv
<1> QED
  BY <1>2, <1>3 DEF SnapshotStep

LEMMA KillInv ==
  ASSUME SwarmInv, KillFs
  PROVE  SwarmInv'
<1>1. /\ fs.up /\ fs' = [fs EXCEPT !.up = FALSE, !.died = swarmNow] /\ box' = << >>
      /\ UNCHANGED <<svc, swarm_asked, replies, coupled, stamped, swarmNow>>
  BY DEF KillFs
<1>2. fs \in FsShape /\ swarmNow \in Nat
  BY DEF SwarmInv, SwarmTypeOK
<1>3. /\ fs' \in FsShape /\ fs'.tries = fs.tries /\ fs'.tx = fs.tx /\ fs'.due = fs.due
      /\ ~ fs'.up /\ fs'.died = swarmNow
  BY <1>1, <1>2 DEF FsShape
<1>4. fs.tx \in Nat /\ fs.due \in Nat /\ fs.tries \in Nat
  BY <1>2 DEF FsShape
<1>5. SequenceFollowsClock'
  BY <1>1, <1>2, <1>3, <1>4 DEF SwarmInv, FieldsyncInv, SequenceFollowsClock
<1>6. BelowWatermark' /\ StampsBehind'
  BY <1>1, <1>3 DEF SwarmInv, FieldsyncInv, BelowWatermark, StampsBehind
<1> QED
  BY <1>1, <1>3, <1>5, <1>6, RepliesSame DEF SwarmInv, SwarmTypeOK, FieldsyncInv

(* A rebirth is at least a tick later, so its seed is above every number   *)
(* that was used before.                                                   *)
LEMMA RestartInv ==
  ASSUME SwarmInv, RestartFs
  PROVE  SwarmInv'
<1>1. /\ ~ fs.up /\ swarmNow > fs.died /\ coupled' = [f \in {} |-> 0]
      /\ UNCHANGED <<svc, box, swarm_asked, replies, stamped, swarmNow>>
  BY DEF RestartFs
<1>2. fs \in FsShape /\ swarmNow \in Nat
  BY DEF SwarmInv, SwarmTypeOK
<1>3. /\ fs' \in FsShape /\ fs'.tries = 0 /\ fs'.tx = swarmNow /\ fs'.due = swarmNow
      /\ fs'.up /\ fs'.key = 0
  BY <1>2 DEF RestartFs, NewFs, Seed, FsShape
<1>4. fs.tx \in Nat /\ fs.died \in Nat /\ fs.tx <= fs.died + 1
  BY <1>1, <1>2 DEF SwarmInv, FieldsyncInv, SequenceFollowsClock, FsShape
<1>5. SequenceFollowsClock' /\ BelowWatermark'
  BY <1>1, <1>2, <1>3 DEF SequenceFollowsClock, BelowWatermark
<1>6. StampsBehind'
  BY <1>1, <1>2, <1>3, <1>4 DEF SwarmInv, FieldsyncInv, StampsBehind
<1> QED
  BY <1>1, <1>3, <1>5, <1>6, RepliesSame DEF SwarmInv, SwarmTypeOK, FieldsyncInv

LEMMA SwarmTickInv ==
  ASSUME SwarmInv, SwarmTick
  PROVE  SwarmInv'
<1>1. swarmNow' = swarmNow + 1
      /\ UNCHANGED <<svc, fs, box, swarm_asked, replies, coupled, stamped>>
  BY DEF SwarmTick
<1>2. fs \in FsShape /\ swarmNow \in Nat
  BY DEF SwarmInv, SwarmTypeOK
<1>3. fs.tx \in Nat /\ fs.due \in Nat /\ fs.tries \in Nat
  BY <1>2 DEF FsShape
<1>4. SequenceFollowsClock'
  BY <1>1, <1>2, <1>3 DEF SwarmInv, FieldsyncInv, SequenceFollowsClock
<1>5. BelowWatermark' /\ StampsBehind'
  BY <1>1 DEF SwarmInv, FieldsyncInv, BelowWatermark, StampsBehind
<1> QED
  BY <1>1, <1>2, <1>4, <1>5, RepliesSame DEF SwarmInv, SwarmTypeOK, FieldsyncInv

LEMMA SwarmStepInv == SwarmInv /\ [SwarmNext]_swarmVars => SwarmInv'
<1> SUFFICES ASSUME SwarmInv, [SwarmNext]_swarmVars PROVE SwarmInv'
  OBVIOUS
<1>1. ASSUME NEW n \in Nonces, handle_recall(n)
      PROVE  SwarmInv'
  BY <1>1, AnsweredInv DEF handle_recall
<1>2. ASSUME NEW n \in Nonces, NEW framed \in BOOLEAN, handle_status(n, framed)
      PROVE  SwarmInv'
  <2> DEFINE keyed == svc.key # 0 /\ framed
  <2>1. keyed \in BOOLEAN
    OBVIOUS
  <2>2. /\ Asks(n, keyed) /\ UNCHANGED <<svc, fs, box, coupled, stamped, swarmNow>>
        /\ replies' = replies \/ emit_authed_reply(n, IF keyed THEN n ELSE 0)
    BY <1>2 DEF handle_status
  <2> HIDE DEF keyed
  <2> QED
    BY <2>1, <2>2, AnsweredInv
<1>3. ASSUME RebirthSvc
      PROVE  SwarmInv'
  <2>1. svc' = NewSvc /\ UNCHANGED <<fs, box, swarm_asked, replies, coupled, stamped, swarmNow>>
    BY <1>3 DEF RebirthSvc
  <2>2. svc' \in SvcShape /\ svc'.jid = 0
    BY <2>1 DEF NewSvc, SvcShape
  <2>3. SwarmTypeOK' /\ RepliesAsked'
    BY <2>1, <2>2 DEF SwarmInv, SwarmTypeOK, RepliesAsked, Framed
  <2> QED
    BY <2>1, <2>3, FieldsyncSame DEF SwarmInv
<1>4. ASSUME NEW op \in {"A", "S"}, ToFieldsyncd(op)
      PROVE  SwarmInv'
  <2>1. box' = Append(box, [op |-> op, key |-> 0])
        /\ UNCHANGED <<svc, fs, swarm_asked, replies, coupled, stamped, swarmNow>>
    BY <1>4 DEF ToFieldsyncd
  <2>2. box' \in Seq(Message)
    <3>1. [op |-> op, key |-> 0] \in Message
      BY DEF Message
    <3> QED
      BY <2>1, <3>1, BoxGrows DEF SwarmInv
  <2> QED
    BY <2>1, <2>2, FieldsyncSame, RepliesSame DEF SwarmInv, SwarmTypeOK
<1>5. ASSUME UNCHANGED swarmVars
      PROVE  SwarmInv'
  BY <1>5, FieldsyncSame, RepliesSame DEF swarmVars, SwarmInv, SwarmTypeOK
<1> QED
  BY <1>1, <1>2, <1>3, <1>4, <1>5, AdmitInv, ReforwardInv, QsubmitInv, PollInv, DrainInv,
     RecvInv, AskInv, SnapshotInv, KillInv, RestartInv, SwarmTickInv DEF SwarmNext

(* A peer's frame counts once and only under the key, no sequence number   *)
(* is stamped twice and every reply is framed as it was asked for: for all *)
(* keys, nonces, mailbox sizes and send periods, and however either        *)
(* citizen dies (fieldsyncd.c, swarm_svc.c).                               *)
THEOREM PeersAreSound == SwarmSpec => []PeersSound
<1>1. SwarmInv => PeersSound
  BY DEF SwarmInv, FieldsyncInv, BelowWatermark, StampsBehind, RepliesAsked, Framed, PeersSound,
         CoupledOnceAndAuthentic, SequencesNeverReused, RepliesAsAsked
<1> QED
  BY <1>1, SwarmInitInv, SwarmStepInv, PTL DEF SwarmSpec
-----------------------------------------------------------------------------
(* The network servers.                                                    *)

Banks == [served : Nat, refusals : Nat, proto_err : Nat, setpoint : Nat]

(* An answer that tells registers of the bank only, and the count of       *)
(* refusals as it stood.                                                   *)
Truthful(first, values, asked) ==
  \A k \in DOMAIN values :
    /\ first + k - 1 < MB_NREG
    /\ first + k - 1 = REG_REFUSALS => values[k] = asked
TrueAnswers ==
  {x \in [first : Nat, values : Seq(Nat), asked : Nat] : Truthful(x.first, x.values, x.asked)}

Connections ==
  [st : {"none", "open", "reset"}, req : MbRequests \cup {NoRequest}, left : Int, in : Int,
   eof : BOOLEAN]

ServersInv ==
  /\ bank \in Banks /\ wrote \in Nat
  /\ bank.refusals = wrote /\ bank.setpoint = 0
  /\ client \in Connections
  /\ sent \in Seq(TrueAnswers)

LEMMA RequestsTyped ==
  ASSUME NEW r \in MbRequests \cup {NoRequest}
  PROVE  r.addr \in Nat /\ r.qty \in Nat
  BY ServersAssumption DEF ServersConstants, NoRequest

LEMMA RegistersAreNumbers ==
  ASSUME NEW b \in Banks, NEW n \in Nat
  PROVE  reg_read(b, n) \in Nat /\ (n = REG_REFUSALS => reg_read(b, n) = b.refusals)
  BY DEF reg_read, Banks, REG_REQUESTS, REG_REFUSALS, REG_SETPOINT, REG_PROTO_ERR, REG_VERSION

(* What a read answers: the run of registers asked for, or nothing.        *)
LEMMA ReadTruthfully ==
  ASSUME NEW b \in Banks, NEW r \in MbRequests \cup {NoRequest}, r.fc = FC_READ
  PROVE  /\ handle_pdu(r, b).b = b
         /\ handle_pdu(r, b).values \in Seq(Nat)
         /\ Truthful(r.addr, handle_pdu(r, b).values, b.refusals)
<1> DEFINE v == IF InBank(r) THEN [i \in 1 .. r.qty |-> reg_read(b, r.addr + i - 1)] ELSE << >>
<1>1. handle_pdu(r, b) = [b |-> b, values |-> v]
  BY DEF handle_pdu, FC_READ, FC_WRITE
<1>2. r.addr \in Nat /\ r.qty \in Nat
  BY RequestsTyped
<1>3. CASE InBank(r)
  <2>1. v = [i \in 1 .. r.qty |-> reg_read(b, r.addr + i - 1)]
    BY <1>3
  <2>2. \A i \in 1 .. r.qty : r.addr + i - 1 \in Nat
    BY <1>2
  <2>3. \A i \in 1 .. r.qty : v[i] = reg_read(b, r.addr + i - 1) /\ v[i] \in Nat
    BY <2>1, <2>2, RegistersAreNumbers
  <2>4. v \in Seq(Nat) /\ DOMAIN v = 1 .. r.qty
    <3>1. v \in [1 .. r.qty -> Nat]
      BY <2>1, <2>3
    <3> HIDE DEF v
    <3> QED BY <3>1, <1>2
  <2>5. Truthful(r.addr, v, b.refusals)
    <3> SUFFICES ASSUME NEW k \in 1 .. r.qty
                 PROVE  /\ r.addr + k - 1 < MB_NREG
                        /\ r.addr + k - 1 = REG_REFUSALS => v[k] = b.refusals
      BY <2>4 DEF Truthful
    <3>1. r.addr + k - 1 < MB_NREG
      BY <1>2, <1>3, ServersAssumption DEF InBank, ServersConstants
    <3>2. r.addr + k - 1 = REG_REFUSALS => v[k] = b.refusals
      BY <2>2, <2>3, RegistersAreNumbers
    <3> QED BY <3>1, <3>2
  <2> HIDE DEF v
  <2> QED BY <1>1, <2>4, <2>5
<1>4. CASE ~ InBank(r)
  <2>1. v = << >>
    BY <1>4
  <2> HIDE DEF v
  <2>2. Truthful(r.addr, v, b.refusals) /\ v \in Seq(Nat)
    BY <2>1 DEF Truthful
  <2> QED BY <1>1, <2>2
<1> QED BY <1>3, <1>4

(* Whatever a peer asks, the refusals counted and the control writes asked *)
(* advance together, and what is answered is true by then.                 *)
LEMMA PdusHandled ==
  ASSUME NEW b \in Banks, NEW r \in MbRequests \cup {NoRequest}, b.setpoint = 0
  PROVE  /\ handle_pdu(r, b).b \in Banks /\ handle_pdu(r, b).b.setpoint = 0
         /\ handle_pdu(r, b).b.refusals = IF r.fc = FC_WRITE THEN b.refusals + 1 ELSE b.refusals
         /\ handle_pdu(r, b).values \in Seq(Nat)
         /\ Truthful(r.addr, handle_pdu(r, b).values, handle_pdu(r, b).b.refusals)
<1>1. PICK h : h = handle_pdu(r, b)
  OBVIOUS
<1>2. Truthful(r.addr, << >>, h.b.refusals)
  BY DEF Truthful
<1>3. CASE r.fc = FC_READ
  <2>1. r.fc # FC_WRITE
    BY <1>3 DEF FC_READ, FC_WRITE
  <2> QED BY <1>3, <2>1, ReadTruthfully
<1>4. CASE r.fc = FC_WRITE
  <2>1. h = [b |-> [b EXCEPT !.refusals = @ + 1], values |-> << >>]
    BY <1>1, <1>4 DEF handle_pdu, FC_READ, FC_WRITE
  <2>2. h.b = [b EXCEPT !.refusals = @ + 1] /\ h.values = << >>
    BY <2>1
  <2>3. h.b \in Banks /\ h.b.setpoint = 0 /\ h.b.refusals = b.refusals + 1
    BY <2>2 DEF Banks
  <2> QED BY <1>1, <1>2, <1>4, <2>2, <2>3
<1>5. CASE r.fc # FC_READ /\ r.fc # FC_WRITE
  <2>1. \/ h = [b |-> [b EXCEPT !.proto_err = @ + 1], values |-> << >>]
        \/ h = [b |-> b, values |-> << >>]
    BY <1>1, <1>5 DEF handle_pdu
  <2>2. h.values = << >> /\ (h.b = [b EXCEPT !.proto_err = @ + 1] \/ h.b = b)
    BY <2>1
  <2>3. h.b \in Banks /\ h.b.setpoint = 0 /\ h.b.refusals = b.refusals
    BY <2>2 DEF Banks
  <2> QED BY <1>1, <1>2, <1>5, <2>2, <2>3
<1> QED BY <1>3, <1>4, <1>5

(* Sending an answer or not.                                               *)
LEMMA AnswersStay ==
  ASSUME sent \in Seq(TrueAnswers), NEW f \in Nat, NEW v \in Seq(Nat), NEW a \in Nat,
         Truthful(f, v, a), Answered(f, v, a)
  PROVE  sent' \in Seq(TrueAnswers)
<1>1. [first |-> f, values |-> v, asked |-> a] \in TrueAnswers
  BY DEF TrueAnswers
<1> QED BY <1>1 DEF Answered

LEMMA PageServed ==
  ASSUME ServersInv, ServesPage
  PROVE  ServersInv'
<1>1. Truthful(0, << >>, wrote)
  BY DEF Truthful
<1>2. sent \in Seq(TrueAnswers) /\ wrote \in Nat /\ Answered(0, << >>, wrote)
  BY DEF ServersInv, ServesPage
<1>3. 0 \in Nat /\ << >> \in Seq(Nat)
  OBVIOUS
<1>4. sent' \in Seq(TrueAnswers)
  BY <1>1, <1>2, <1>3, AnswersStay
<1>5. bank' \in Banks /\ bank'.refusals = wrote' /\ bank'.setpoint = 0
  BY DEF ServersInv, ServesPage, Banks
<1> QED BY <1>4, <1>5 DEF ServersInv, ServesPage

LEMMA PduServed ==
  ASSUME ServersInv, ServesPdu
  PROVE  ServersInv'
<1> DEFINE r == client.req
           b == [bank EXCEPT !.served = @ + 1]
<1>1. b \in Banks /\ b.setpoint = 0 /\ b.refusals = wrote
  BY DEF ServersInv, Banks
<1>2. r \in MbRequests \cup {NoRequest} /\ r.addr \in Nat
  BY RequestsTyped DEF ServersInv, Connections
<1>3. PICK h : h = handle_pdu(r, b)
  OBVIOUS
<1>4. /\ h.b \in Banks /\ h.b.setpoint = 0 /\ h.values \in Seq(Nat)
      /\ h.b.refusals = IF r.fc = FC_WRITE THEN b.refusals + 1 ELSE b.refusals
      /\ Truthful(r.addr, h.values, h.b.refusals)
  BY <1>1, <1>2, <1>3, PdusHandled
<1>5. bank' = h.b /\ client' = client
      /\ wrote' = IF r.fc = FC_WRITE THEN wrote + 1 ELSE wrote
  BY <1>3 DEF ServesPdu
<1>6. wrote' = h.b.refusals /\ wrote' \in Nat
  BY <1>1, <1>4, <1>5 DEF ServersInv
<1>7. UNCHANGED sent \/ Answered(r.addr, h.values, wrote')
  BY <1>3 DEF ServesPdu
<1>8. sent' \in Seq(TrueAnswers)
  <2>1. CASE UNCHANGED sent
    BY <2>1 DEF ServersInv
  <2>2. CASE Answered(r.addr, h.values, wrote')
    <3>1. PICK w \in Nat : w = wrote'
      BY <1>6
    <3>2. Answered(r.addr, h.values, w) /\ Truthful(r.addr, h.values, w)
      BY <2>2, <3>1, <1>4, <1>6
    <3> HIDE DEF r, b
    <3> QED BY <3>2, <1>2, <1>4, AnswersStay DEF ServersInv
  <2> QED BY <1>7, <2>1, <2>2
<1> QED BY <1>2, <1>4, <1>5, <1>6, <1>8 DEF ServersInv

LEMMA ServersStepInv == ServersInv /\ [ServersNext]_serversVars => ServersInv'
<1> SUFFICES ASSUME ServersInv, [ServersNext]_serversVars PROVE ServersInv'
  OBVIOUS
<1>1. CASE UNCHANGED serversVars
  BY <1>1 DEF serversVars, ServersInv
<1>2. ASSUME NEW r \in MbRequests, PeerConnects(r) PROVE ServersInv'
  <2>1. r.len \in Int
    BY <1>2, ServersAssumption DEF ServersConstants
  <2>2. client' \in Connections
    <3>1. client' = [st |-> "open", req |-> r, left |-> r.len, in |-> 0, eof |-> FALSE]
      BY <1>2 DEF PeerConnects, NoConn
    <3> QED BY <3>1, <2>1 DEF Connections
  <2> QED BY <1>2, <2>2 DEF ServersInv, PeerConnects, ServerSame
<1>3. ASSUME NEW n \in 1 .. MaxRequestParts, PeerSends(n) PROVE ServersInv'
  <2>1. client' \in Connections
    <3>1. n \in Int
      BY <1>3
    <3>2. client' = [client EXCEPT !.left = @ - n, !.in = @ + n]
      BY <1>3 DEF PeerSends
    <3>3. PICK left \in Int, in \in Int :
            client' = [client EXCEPT !.left = left, !.in = in]
      <4>1. client.left - n \in Int /\ client.in + n \in Int
        BY <3>1 DEF ServersInv, Connections
      <4> QED BY <3>2, <4>1
    <3> QED BY <3>3 DEF ServersInv, Connections
  <2> QED BY <1>3, <2>1 DEF ServersInv, PeerSends, ServerSame
<1>4. CASE PeerEnds \/ PeerResets
  <2>1. client' \in Connections
    BY <1>4 DEF ServersInv, PeerEnds, PeerResets, Connections
  <2> QED BY <1>4, <2>1 DEF ServersInv, PeerEnds, PeerResets, ServerSame
<1>5. CASE TimePasses \/ Listens \/ Accepts
  BY <1>5 DEF ServersInv, TimePasses, Listens, Accepts, QuietStep
<1>6. CASE Reads
  <2>1. client' \in Connections
    <3>1. CASE UNCHANGED client
      BY <3>1 DEF ServersInv
    <3>2. ASSUME NEW n \in 1 .. client.in, client' = [client EXCEPT !.in = @ - n]
          PROVE  client' \in Connections
      BY <3>2 DEF ServersInv, Connections
    <3> QED BY <1>6, <3>1, <3>2 DEF Reads
  <2>2. \E x \in {bank.proto_err, bank.proto_err + 1} : bank' = [bank EXCEPT !.proto_err = x]
    BY <1>6 DEF Reads, ServersInv, Banks
  <2>3. bank' \in Banks /\ bank'.refusals = bank.refusals /\ bank'.setpoint = 0
    BY <2>2 DEF ServersInv, Banks
  <2>4. UNCHANGED <<sent, wrote>>
    BY <1>6 DEF Reads
  <2> QED BY <2>1, <2>3, <2>4 DEF ServersInv
<1>7. CASE ReadsNoMore \/ NotModbus
  BY <1>7 DEF ServersInv, ReadsNoMore, NotModbus, Banks
<1>8. CASE Closes
  <2>1. client' \in Connections
    BY <1>8 DEF Closes, NoConn, Connections
  <2> QED BY <1>8, <2>1 DEF ServersInv, Closes
<1>9. CASE ServesPage \/ ServesPdu
  BY <1>9, PageServed, PduServed
<1> QED BY <1>1, <1>2, <1>3, <1>4, <1>5, <1>6, <1>7, <1>8, <1>9 DEF ServersNext, ServerStep

(* Whatever peers ask, dribble or break off: every control write is        *)
(* refused and counted before anyone can read the count, and answers stay  *)
(* within the bank (handle_pdu, modbusd.c).                                *)
THEOREM RefusalsAreCounted == ServersSpec => []RefusalsCounted
<1>1. ServersInit => ServersInv
  BY DEF ServersInit, ServersInv, NoConn, Banks, Connections
<1>2. ServersInv => RefusalsCounted
  <2> SUFFICES ASSUME ServersInv PROVE RefusalsCounted
    OBVIOUS
  <2>1. ASSUME NEW i \in DOMAIN sent, NEW k \in DOMAIN sent[i].values
        PROVE  /\ sent[i].first + k - 1 < MB_NREG
               /\ sent[i].first + k - 1 = REG_REFUSALS => sent[i].values[k] = sent[i].asked
    <3>1. sent[i] \in TrueAnswers
      BY DEF ServersInv
    <3> QED BY <3>1 DEF TrueAnswers, Truthful
  <2> QED BY <2>1 DEF RefusalsCounted, ServersInv
<1> QED BY <1>1, <1>2, ServersStepInv, PTL DEF ServersSpec
-----------------------------------------------------------------------------
(* The aging pick.                                                         *)

FixedTypes ==
  /\ fstate \in [FieldPids -> {"UNUSED", "READY", "BLOCKED"}]
  /\ rf_reg \in SUBSET FieldPids
  /\ waited \in [FieldPids -> 0 .. AgeCap]
  /\ overtaken \in [FieldPids -> Nat]

(* Who is overtaken is ready, in the field, and ages with every decision   *)
(* that goes against it.                                                   *)
AgesWhenPassed ==
  \A p \in FieldPids :
    overtaken[p] > 0 => fstate[p] = "READY" /\ p \in rf_reg /\ overtaken[p] <= waited[p]

(* Past its handicap a process is only overtaken by one that has waited    *)
(* longer than that process still needs, and which then starts anew: at    *)
(* every such decision one more of the others has run since.               *)
RanSince(p) == {q \in FieldPids \ {p} : waited[q] < overtaken[p] - Handicap}
OthersRanSince == \A p \in FieldPids : overtaken[p] - Handicap <= Cardinality(RanSince(p))

FixedInv == FixedTypes /\ AgesWhenPassed /\ OthersRanSince

LEMMA Monotone ==
  ASSUME NEW a \in Int, NEW b \in Int, NEW g \in Nat, a <= b
  PROVE  a * g <= b * g
<1>1. PICK d \in Nat : b = a + d
  <2>1. b - a \in Nat /\ b = a + (b - a)
    OBVIOUS
  <2> QED BY <2>1
<1>2. b * g = a * g + d * g
  BY <1>1
<1>3. d * g \in Nat /\ a * g \in Int
  OBVIOUS
<1> QED BY <1>2, <1>3

LEMMA Quotient ==
  ASSUME NEW x \in Nat, NEW g \in Nat \ {0}
  PROVE  x \div g \in Nat /\ x < (x \div g + 1) * g
OBVIOUS

LEMMA FixedNumbers ==
  /\ Handicap \in Nat /\ MaxBase + MaxBonus < (Handicap + 1) * AgeGain
  /\ Cardinality(FieldPids) \in Nat \ {0}
  /\ WaitBound \in Nat /\ WaitBound = Handicap + Cardinality(FieldPids) - 1
  /\ WaitBound + 1 <= AgeCap
<1>1. Handicap \in Nat /\ MaxBase + MaxBonus < (Handicap + 1) * AgeGain
  <2>1. PICK x \in Nat : x = MaxBase + MaxBonus
    BY FixedPickConstants
  <2>2. PICK g \in Nat \ {0} : g = AgeGain
    BY FixedPickConstants
  <2>3. x \div g \in Nat /\ x < (x \div g + 1) * g
    BY Quotient
  <2>4. Handicap = x \div g
    BY <2>1, <2>2 DEF Handicap
  <2> QED BY <2>1, <2>2, <2>3, <2>4
<1>2. Cardinality(FieldPids) \in Nat \ {0}
  BY FixedPickConstants, FS_CardinalityType, FS_EmptySet
<1>3. WaitBound \in Nat /\ WaitBound = Handicap + Cardinality(FieldPids) - 1
  BY <1>1, <1>2 DEF WaitBound
<1>4. PICK w \in Nat : w = WaitBound + 1
  BY <1>3
<1>5. PICK g \in Nat \ {0} : g = AgeGain
  BY FixedPickConstants
<1>6. 1 * w <= g * w
  BY <1>4, <1>5, Monotone
<1>7. w <= w * g /\ w * g <= AgeCap
  BY <1>4, <1>5, <1>6, FixedPickConstants
<1>8. WaitBound + 1 <= AgeCap
  BY <1>4, <1>7, FixedPickConstants
<1> QED BY <1>1, <1>2, <1>3, <1>8

(* The bound follows: there are no more than the others.                   *)
LEMMA FixedBound ==
  ASSUME FixedInv, NEW p \in FieldPids
  PROVE  overtaken[p] <= WaitBound
<1>1. IsFiniteSet(FieldPids) /\ IsFiniteSet(FieldPids \ {p})
      /\ Cardinality(FieldPids \ {p}) = Cardinality(FieldPids) - 1
  BY FixedPickConstants, FS_RemoveElement
<1>2. RanSince(p) \subseteq FieldPids \ {p}
  BY DEF RanSince
<1>3. Cardinality(RanSince(p)) <= Cardinality(FieldPids \ {p})
      /\ IsFiniteSet(RanSince(p))
  BY <1>1, <1>2, FS_Subset
<1>4. Cardinality(RanSince(p)) \in Nat
  BY <1>3, FS_CardinalityType
<1>5. overtaken[p] \in Nat /\ overtaken[p] - Handicap <= Cardinality(RanSince(p))
  BY DEF FixedInv, FixedTypes, OthersRanSince
<1> QED BY <1>1, <1>3, <1>4, <1>5, FixedNumbers

LEMMA Ages ==
  ASSUME NEW w \in Nat
  PROVE  Age(w) \in 0 .. AgeCap /\ Age(w) <= w * AgeGain
BY FixedPickConstants DEF Age

LEMMA AgesEnough ==
  ASSUME NEW k \in Nat, NEW w \in Nat, k + 1 <= w, k <= WaitBound
  PROVE  (k + 1) * AgeGain <= Age(w)
<1>1. PICK g \in Nat : g = AgeGain
  BY FixedPickConstants
<1>2. (k + 1) * g <= w * g
  BY Monotone
<1>3. (k + 1) * g <= (WaitBound + 1) * g
  BY FixedNumbers, Monotone
<1>4. (WaitBound + 1) * g <= AgeCap
  BY <1>1, FixedPickConstants
<1>5. PICK x \in Int : x = (k + 1) * g
  OBVIOUS
<1>6. PICK y \in Int : y = w * g
  OBVIOUS
<1>7. PICK z \in Int : z = (WaitBound + 1) * g
  BY FixedNumbers
<1>8. Age(w) = IF y > AgeCap THEN AgeCap ELSE y
  BY <1>1, <1>6 DEF Age
<1>9. x <= Age(w)
  BY <1>2, <1>3, <1>4, <1>5, <1>6, <1>7, <1>8, FixedPickConstants
<1> QED BY <1>1, <1>5, <1>9

LEMMA Waits ==
  ASSUME FixedTypes, NEW p \in FieldPids
  PROVE  /\ Entered(p) \in Nat /\ Entered(p) <= waited[p]
         /\ WaitedNow(p) \in 0 .. AgeCap /\ WaitedNow(p) <= Entered(p) + 1
         /\ Entered(p) + 1 <= AgeCap => WaitedNow(p) = Entered(p) + 1
BY FixedPickConstants DEF FixedTypes, Entered, WaitedNow, Smaller

Priority(bonus, p) == rf_priority_core(p, bonus[p], WaitedNow(p))

LEMMA Priorities ==
  ASSUME FixedTypes, NEW bonus \in [ReadyPids -> 0 .. MaxBonus], NEW p \in ReadyPids
  PROVE  /\ Priority(bonus, p) \in 0 .. (MaxBase + MaxBonus + AgeCap)
         /\ Age(WaitedNow(p)) \in Nat
         /\ Age(WaitedNow(p)) <= Priority(bonus, p)
         /\ Priority(bonus, p) <= MaxBase + MaxBonus + Age(WaitedNow(p))
<1>1. p \in FieldPids
  BY DEF ReadyPids
<1>2. BasePriority[p] \in 0 .. MaxBase /\ bonus[p] \in 0 .. MaxBonus
      /\ {MaxBase, MaxBonus, AgeCap} \subseteq Nat
  BY <1>1, FixedPickConstants
<1>3. Age(WaitedNow(p)) \in 0 .. AgeCap
  BY <1>1, Waits, Ages
<1> QED BY <1>2, <1>3 DEF Priority, rf_priority_core

(* The scan of the ready processes finds one.                              *)
LEMMA OneIsPicked ==
  ASSUME FixedTypes, NEW bonus \in [ReadyPids -> 0 .. MaxBonus], ReadyPids # {}
  PROVE  /\ Lowest(Top(bonus)) \in ReadyPids
         /\ \A q \in ReadyPids : Priority(bonus, q) <= Priority(bonus, Lowest(Top(bonus)))
<1>1. PICK most \in Nat : most = MaxBase + MaxBonus + AgeCap
  BY FixedPickConstants
<1> DEFINE lacks(p) == most - Priority(bonus, p)
           L == {lacks(p) : p \in ReadyPids}
<1>2. \A p \in ReadyPids : Priority(bonus, p) \in 0 .. most
  BY <1>1, Priorities
<1>3. L \in SUBSET Nat /\ L # {}
  BY <1>2
<1>4. PICK m \in L : \A t \in L : m <= t
  <2> HIDE DEF L
  <2> QED BY <1>3, LeastExists
<1>5. PICK b \in ReadyPids : m = lacks(b)
  OBVIOUS
<1>6. \A q \in ReadyPids : Priority(bonus, q) <= Priority(bonus, b)
  <2> SUFFICES ASSUME NEW q \in ReadyPids PROVE Priority(bonus, q) <= Priority(bonus, b)
    OBVIOUS
  <2>1. lacks(b) <= lacks(q)
    BY <1>4, <1>5
  <2> QED BY <2>1, <1>2
<1>7. b \in Top(bonus)
  BY <1>6 DEF Top, Priority
<1>8. Top(bonus) \in SUBSET Nat /\ Top(bonus) # {}
  BY <1>7, FixedPickConstants DEF Top, ReadyPids
<1>9. \E x \in Top(bonus) : \A t \in Top(bonus) : x <= t
  BY <1>8, LeastExists
<1>10. Lowest(Top(bonus)) \in Top(bonus)
  BY <1>9 DEF Lowest
<1> QED BY <1>10 DEF Top, Priority

(* A process past its handicap yields only to one that has waited as long  *)
(* as it has beyond the handicap.                                          *)
LEMMA Overtakers ==
  ASSUME FixedInv, NEW bonus \in [ReadyPids -> 0 .. MaxBonus],
         NEW p \in ReadyPids, NEW b \in ReadyPids,
         Priority(bonus, p) <= Priority(bonus, b)
  PROVE  overtaken[p] - Handicap <= waited[b]
<1> DEFINE k == overtaken[p]
<1>1. p \in FieldPids /\ b \in FieldPids /\ FixedTypes
  BY DEF ReadyPids, FixedInv
<1>2. k \in Nat /\ k <= WaitBound
  BY <1>1, FixedBound DEF FixedTypes
<1>3. k <= Entered(p)
  <2>1. CASE k = 0
    BY <2>1, <1>1, Waits
  <2>2. CASE k # 0
    <3>1. p \in rf_reg /\ k <= waited[p]
      BY <2>2, <1>1, <1>2 DEF FixedInv, AgesWhenPassed
    <3>2. Entered(p) = waited[p]
      BY <3>1 DEF Entered
    <3> QED BY <3>1, <3>2
  <2> QED BY <2>1, <2>2
<1>4. WaitedNow(p) \in Nat /\ k + 1 <= WaitedNow(p)
  <2>1. PICK e \in Nat : e = Entered(p)
    BY <1>1, Waits
  <2>2. k + 1 <= AgeCap
    BY <1>2, FixedNumbers, FixedPickConstants
  <2>3. WaitedNow(p) = Smaller(e + 1, AgeCap)
    BY <2>1 DEF WaitedNow
  <2> QED BY <2>1, <2>2, <2>3, <1>2, <1>3, FixedPickConstants DEF Smaller
<1> HIDE DEF k
<1>5. (k + 1) * AgeGain <= Age(WaitedNow(p))
  BY <1>2, <1>4, AgesEnough
<1>6. Age(WaitedNow(b)) <= WaitedNow(b) * AgeGain
  BY <1>1, Waits, Ages
<1>7. Age(WaitedNow(p)) <= MaxBase + MaxBonus + Age(WaitedNow(b))
      /\ Age(WaitedNow(p)) \in Nat /\ Age(WaitedNow(b)) \in Nat
  BY <1>1, Priorities, FixedPickConstants
<1>8. PICK g \in Nat \ {0} : g = AgeGain
  BY FixedPickConstants
<1>9. PICK n \in Nat : n = WaitedNow(b)
  BY <1>1, Waits
<1>10. PICK d \in Nat : d = Handicap
  BY FixedNumbers
<1>11. (k + 1) * g < (d + 1) * g + n * g
  BY <1>5, <1>6, <1>7, <1>8, <1>9, <1>10, <1>2, FixedNumbers, FixedPickConstants
<1>12. k - d <= n - 1
  <2>1. ASSUME d + 1 + n <= k + 1 PROVE FALSE
    <3>1. (d + 1 + n) * g <= (k + 1) * g
      BY <2>1, <1>2, Monotone
    <3>2. (d + 1 + n) * g = (d + 1) * g + n * g
      OBVIOUS
    <3> QED BY <3>1, <3>2, <1>11, <1>2
  <2> QED BY <2>1, <1>2
<1>13. n - 1 <= waited[b] /\ waited[b] \in Nat
  BY <1>1, <1>9, Waits, FixedPickConstants DEF FixedTypes
<1> QED BY <1>12, <1>13, <1>2, <1>10 DEF k

LEMMA DispatchKeeps ==
  ASSUME FixedInv, NEW bonus \in [ReadyPids -> 0 .. MaxBonus], NEW best \in ReadyPids,
         \A q \in ReadyPids : Priority(bonus, q) <= Priority(bonus, best),
         Dispatch(best), rf_reg' = ActivePids, UNCHANGED fstate
  PROVE  FixedInv'
<1>1. FixedTypes /\ best \in FieldPids
  BY DEF FixedInv, ReadyPids
<1>2. FixedTypes'
  <2>1. \A p \in FieldPids : WaitedNow(p) \in 0 .. AgeCap
    BY <1>1, Waits
  <2>2. waited' \in [FieldPids -> 0 .. AgeCap]
    BY <2>1, FixedPickConstants DEF Dispatch
  <2>3. overtaken' \in [FieldPids -> Nat]
    BY <1>1 DEF Dispatch, FixedTypes
  <2> QED BY <1>1, <2>2, <2>3 DEF FixedTypes, ActivePids
<1>3. ASSUME NEW p \in FieldPids, overtaken'[p] > 0
      PROVE  /\ p \in ReadyPids \ {best} /\ overtaken'[p] = overtaken[p] + 1
             /\ waited'[p] = WaitedNow(p)
  BY <1>3 DEF Dispatch
<1>4. AgesWhenPassed'
  <2> SUFFICES ASSUME NEW p \in FieldPids, overtaken'[p] > 0
               PROVE  fstate'[p] = "READY" /\ p \in rf_reg' /\ overtaken'[p] <= waited'[p]
    BY DEF AgesWhenPassed
  <2>1. fstate'[p] = "READY" /\ p \in rf_reg'
    BY <1>3 DEF ReadyPids, ActivePids
  <2>2. overtaken[p] \in Nat /\ overtaken[p] + 1 <= AgeCap
    BY <1>1, FixedBound, FixedNumbers, FixedPickConstants DEF FixedTypes
  <2>3. overtaken[p] <= Entered(p) /\ Entered(p) \in Nat
    <3>1. CASE overtaken[p] = 0
      BY <3>1, <1>1, Waits
    <3>2. CASE overtaken[p] # 0
      <4>1. p \in rf_reg /\ overtaken[p] <= waited[p]
        BY <3>2, <2>2 DEF FixedInv, AgesWhenPassed
      <4>2. Entered(p) = waited[p]
        BY <4>1 DEF Entered
      <4> QED BY <4>1, <4>2, <1>1, Waits
    <3> QED BY <3>1, <3>2
  <2>4. overtaken[p] + 1 <= WaitedNow(p)
    <3>1. PICK e \in Nat : e = Entered(p)
      BY <2>3
    <3>2. WaitedNow(p) = Smaller(e + 1, AgeCap)
      BY <3>1 DEF WaitedNow
    <3> QED BY <3>1, <3>2, <2>2, <2>3, FixedPickConstants DEF Smaller
  <2> QED BY <2>1, <2>4, <1>3
<1>5. OthersRanSince'
  <2> SUFFICES ASSUME NEW p \in FieldPids
               PROVE  overtaken'[p] - Handicap <= Cardinality(RanSince(p))'
    BY DEF OthersRanSince
  <2>1. PICK Later \in SUBSET (FieldPids \ {p}) :
          Later = {q \in FieldPids \ {p} : waited'[q] < overtaken'[p] - Handicap}
    OBVIOUS
  <2>2. Cardinality(RanSince(p))' = Cardinality(Later)
    BY <2>1 DEF RanSince
  <2>3. IsFiniteSet(Later) /\ Cardinality(Later) \in Nat
    BY FixedPickConstants, FS_Subset, FS_CardinalityType
  <2>4. overtaken'[p] \in Nat /\ Handicap \in Nat
    BY <1>2, FixedNumbers DEF FixedTypes
  <2>5. CASE overtaken'[p] <= Handicap
    BY <2>2, <2>3, <2>4, <2>5
  <2>6. CASE overtaken'[p] > Handicap
    <3>1. overtaken'[p] > 0
      BY <2>4, <2>6
    <3>2. p \in ReadyPids /\ p # best /\ overtaken'[p] = overtaken[p] + 1 /\ overtaken[p] \in Nat
      BY <3>1, <1>1, <1>3 DEF FixedTypes
    <3>3. PICK Before : Before = RanSince(p)
      OBVIOUS
    <3>4. best \notin Before
      <4>1. overtaken[p] - Handicap <= waited[best]
        BY <3>2, Overtakers
      <4>2. waited[best] \in Nat
        BY <1>1, FixedPickConstants DEF FixedTypes
      <4> QED BY <4>1, <4>2, <3>2, <3>3, <2>4 DEF RanSince
    <3>5. Before \cup {best} \subseteq Later
      <4>1. ASSUME NEW q \in Before PROVE q \in Later
        <5>1. q \in FieldPids \ {p} /\ waited[q] < overtaken[p] - Handicap /\ waited[q] \in Nat
          BY <3>3, <1>1, FixedPickConstants DEF RanSince, FixedTypes
        <5>2. waited'[q] \in {0, WaitedNow(q)}
          BY <5>1 DEF Dispatch
        <5>3. WaitedNow(q) <= waited[q] + 1 /\ WaitedNow(q) \in Nat
          BY <5>1, <1>1, Waits, FixedPickConstants
        <5> QED BY <5>1, <5>2, <5>3, <3>2, <2>4, <2>6, <2>1
      <4>2. best \in Later
        <5>1. waited'[best] = 0
          BY <1>1 DEF Dispatch
        <5> QED BY <5>1, <1>1, <2>1, <2>4, <2>6, <3>2
      <4> QED BY <4>1, <4>2
    <3>6. IsFiniteSet(Before) /\ Cardinality(Before) \in Nat
      BY <3>3, FixedPickConstants, FS_Subset, FS_CardinalityType DEF RanSince
    <3>7. Cardinality(Before \cup {best}) = Cardinality(Before) + 1
          /\ Cardinality(Before \cup {best}) <= Cardinality(Later)
      BY <3>4, <3>5, <3>6, <2>3, FS_AddElement, FS_Subset
    <3>8. overtaken[p] - Handicap <= Cardinality(Before)
      BY <3>3 DEF FixedInv, OthersRanSince
    <3> QED BY <3>2, <3>6, <3>7, <3>8, <2>2, <2>3, <2>4
  <2> QED BY <2>4, <2>5, <2>6
<1> QED BY <1>2, <1>4, <1>5 DEF FixedInv

LEMMA PickKeeps ==
  ASSUME FixedInv, resonant_fixed_pick
  PROVE  FixedInv'
<1>1. CASE IdleRuns
  <2>1. \A p \in FieldPids : overtaken[p] = 0
    BY <1>1 DEF IdleRuns, ReadyPids, FixedInv, FixedTypes, AgesWhenPassed
  <2>2. \A p \in FieldPids : WaitedNow(p) \in 0 .. AgeCap
    BY Waits DEF FixedInv
  <2>3. waited' = [p \in FieldPids |-> WaitedNow(p)] /\ overtaken' = overtaken
    BY <1>1 DEF IdleRuns
  <2>4. FixedTypes'
    BY <2>2, <2>3 DEF FixedInv, FixedTypes, resonant_fixed_pick, ActivePids
  <2>5. AgesWhenPassed'
    BY <2>1, <2>3 DEF AgesWhenPassed
  <2>6. OthersRanSince'
    <3> SUFFICES ASSUME NEW p \in FieldPids
                 PROVE  overtaken'[p] - Handicap <= Cardinality(RanSince(p))'
      BY DEF OthersRanSince
    <3>1. PICK Later \in SUBSET FieldPids :
            Later = {q \in FieldPids \ {p} : waited'[q] < overtaken'[p] - Handicap}
      OBVIOUS
    <3>2. Cardinality(RanSince(p))' = Cardinality(Later)
      BY <3>1 DEF RanSince
    <3>3. Cardinality(Later) \in Nat
      BY FixedPickConstants, FS_Subset, FS_CardinalityType
    <3> QED BY <2>1, <2>3, <3>2, <3>3, FixedNumbers
  <2> QED BY <2>4, <2>5, <2>6 DEF FixedInv
<1>2. ASSUME NEW bonus \in [ReadyPids -> 0 .. MaxBonus], ReadyPids # {},
             Dispatch(Lowest(Top(bonus)))
      PROVE  FixedInv'
  <2>1. FixedTypes
    BY DEF FixedInv
  <2>2. PICK best \in ReadyPids :
          /\ best = Lowest(Top(bonus))
          /\ \A q \in ReadyPids : Priority(bonus, q) <= Priority(bonus, best)
    BY <1>2, <2>1, OneIsPicked
  <2>3. Dispatch(best) /\ rf_reg' = ActivePids /\ UNCHANGED fstate
    BY <1>2, <2>2 DEF resonant_fixed_pick
  <2> QED BY <2>2, <2>3, DispatchKeeps
<1> QED BY <1>1, <1>2 DEF resonant_fixed_pick

LEMMA BecomesKeeps ==
  ASSUME FixedInv, NEW p \in FieldPids, NEW from, NEW to \in {"UNUSED", "READY", "BLOCKED"},
         Becomes(p, from, to)
  PROVE  FixedInv'
<1>1. FixedTypes'
  BY DEF FixedInv, FixedTypes, Becomes
<1>2. AgesWhenPassed'
  BY DEF FixedInv, FixedTypes, AgesWhenPassed, Becomes
<1>3. OthersRanSince'
  <2> SUFFICES ASSUME NEW q \in FieldPids
               PROVE  overtaken'[q] - Handicap <= Cardinality(RanSince(q))'
    BY DEF OthersRanSince
  <2>1. PICK Later \in SUBSET FieldPids :
          Later = {x \in FieldPids \ {q} : waited'[x] < overtaken'[q] - Handicap}
    OBVIOUS
  <2>2. Cardinality(RanSince(q))' = Cardinality(Later)
    BY <2>1 DEF RanSince
  <2>3. Cardinality(Later) \in Nat
    BY FixedPickConstants, FS_Subset, FS_CardinalityType
  <2>4. CASE q = p
    <3>1. overtaken'[q] = 0
      BY <2>4 DEF FixedInv, FixedTypes, Becomes
    <3> QED BY <3>1, <2>2, <2>3, FixedNumbers
  <2>5. CASE q # p
    <3>1. overtaken'[q] = overtaken[q] /\ waited' = waited
      BY <2>5 DEF FixedInv, FixedTypes, Becomes
    <3>2. Later = RanSince(q)
      BY <2>1, <3>1 DEF RanSince
    <3> QED BY <3>1, <3>2, <2>2 DEF FixedInv, OthersRanSince
  <2> QED BY <2>4, <2>5
<1> QED BY <1>1, <1>2, <1>3 DEF FixedInv

LEMMA FixedInitInv == FixedInit => FixedInv
<1> SUFFICES ASSUME FixedInit PROVE FixedInv
  OBVIOUS
<1>1. FixedTypes /\ AgesWhenPassed
  BY FixedPickConstants DEF FixedInit, FixedTypes, AgesWhenPassed
<1>2. ASSUME NEW p \in FieldPids PROVE overtaken[p] - Handicap <= Cardinality(RanSince(p))
  <2>1. Cardinality(RanSince(p)) \in Nat
    BY FixedPickConstants, FS_Subset, FS_CardinalityType DEF RanSince
  <2> QED BY <2>1, FixedNumbers DEF FixedInit
<1> QED BY <1>1, <1>2 DEF FixedInv, OthersRanSince

LEMMA FixedStepInv == FixedInv /\ [FixedNext]_fixedVars => FixedInv'
<1> SUFFICES ASSUME FixedInv, [FixedNext]_fixedVars PROVE FixedInv'
  OBVIOUS
<1>1. CASE UNCHANGED fixedVars
  BY <1>1 DEF fixedVars, FixedInv, FixedTypes, AgesWhenPassed, OthersRanSince, RanSince
<1>2. CASE resonant_fixed_pick
  BY <1>2, PickKeeps
<1>3. ASSUME NEW p \in FieldPids, NEW from, NEW to \in {"UNUSED", "READY", "BLOCKED"},
             Becomes(p, from, to)
      PROVE  FixedInv'
  BY <1>3, BecomesKeeps
<1> QED BY <1>1, <1>2, <1>3 DEF FixedNext

(* However the field, the sleepers and the newcomers behave, and whatever  *)
(* the number of processes the cap has room for: a ready process is passed *)
(* over no more often than its handicap in decisions and once for each     *)
(* other process (resonant_fixed_pick).                                    *)
THEOREM NobodyStarvesUnderAging == FixedSpec => []AgedToTheFront
<1>1. FixedInv => AgedToTheFront
  BY FixedBound DEF AgedToTheFront
<1> QED BY <1>1, FixedInitInv, FixedStepInv, PTL DEF FixedSpec
-----------------------------------------------------------------------------
(* The society of agentd and its specialists.                              *)

OrchSteps == {"qpu", "field", "spawn", "assemble", "ready", "delegate", "collect", "verify",
              "handoff", "exited"}
SubSteps == {"none", "start", "wait", "stuck", "recall", "shared", "publish", "sibling", "ack", "gone"}
OrchMail == [from : 0 .. AGENT_SUBS, k : {"r", "p"}]

Orchestrators ==
  [step : OrchSteps, i : Subs, ok : [q : BOOLEAN, f : BOOLEAN, s : BOOLEAN, d : BOOLEAN],
   spawned : SUBSET Subs, ready_from : SUBSET Subs, proven_from : SUBSET Subs, counted : Nat]
Specialists ==
  [step : SubSteps, ws : Int, recalled : BOOLEAN, refused : Nat, published : BOOLEAN]

AgentsTypes ==
  /\ agentd \in Orchestrators
  /\ specialist \in [Subs -> Specialists]
  /\ agMail \in [orch : Seq(OrchMail), sub : [Subs -> Seq(Int)]]
  /\ regions \in [AGENT_REGION .. Workspace(AGENT_SUBS) -> Seq(Int)]

(* A specialist that has not been spawned yet has done nothing.            *)
SpawnedOnce ==
  /\ agentd.step \in {"qpu", "field", "spawn"} => agentd.i = 1
  /\ agentd.step \in {"qpu", "field", "spawn", "assemble"} =>
       \A s \in Subs : agentd.i <= s => specialist[s].step = "none"

(* Who may write anywhere may write in its own workspace.                  *)
WritesAreOwn == \A s \in Subs : \A r : authorize(s, r, "WRITE") => r = Workspace(s)

(* A specialist is told its own workspace, and nobody has written there    *)
(* but itself, once.                                                       *)
Kept(s) ==
  /\ \A j \in DOMAIN agMail.sub[s] : agMail.sub[s][j] = Workspace(s)
  /\ specialist[s].step \in {"recall", "shared", "publish", "sibling", "ack"} =>
       specialist[s].ws = Workspace(s)
  /\ \/ regions[Workspace(s)] = << >>
     \/ /\ regions[Workspace(s)] = <<Workspace(s)>>
        /\ specialist[s].step \in {"sibling", "ack", "gone"}
  /\ specialist[s].published => regions[Workspace(s)] = <<Workspace(s)>>

(* A specialist that has left with everything proven.                      *)
Proven(s) ==
  /\ specialist[s].step = "gone" /\ specialist[s].recalled
  /\ specialist[s].refused = 2 /\ specialist[s].published

(* The specialists whose proofs are among the messages of q.               *)
Claims(q) == {t \in Subs : \E j \in DOMAIN q : q[j].k = "p" /\ q[j].from = t}
TrueClaims == \A t \in Claims(agMail.orch) : Proven(t)

(* Proofs in the mail and proofs counted are of such specialists, each     *)
(* counted once, and the orchestrator goes on when all have proven.        *)
ProofsHold ==
  /\ TrueClaims
  /\ \A s \in agentd.proven_from : Proven(s)
  /\ agentd.counted = Cardinality(agentd.proven_from)
  /\ agentd.step \in {"verify", "handoff"} \/ agentd.ok.d => agentd.proven_from = Subs

AgentsInv ==
  /\ AgentsTypes /\ SpawnedOnce /\ WritesAreOwn /\ ProofsHold
  /\ \A s \in Subs : Kept(s)
  /\ regions[AGENT_REGION] \in {<< >>, <<Phrase>>}

LEMMA SubsNumbers ==
  /\ AGENT_SUBS \in Nat /\ AGENT_SUBS >= 2 /\ IsFiniteSet(Subs) /\ Cardinality(Subs) = AGENT_SUBS
  /\ \A s \in Subs : s \in Nat /\ s >= 1 /\ s <= AGENT_SUBS /\ s \in 0 .. AGENT_SUBS
  /\ \A s \in Subs : Workspace(s) \in AGENT_REGION .. Workspace(AGENT_SUBS)
                     /\ Workspace(s) # AGENT_REGION
  /\ \A s, t \in Subs : Workspace(s) = Workspace(t) => s = t
<1>1. AGENT_SUBS \in Nat /\ AGENT_SUBS >= 2
  BY AgentsAssumption DEF AgentsConstants
<1>2. IsFiniteSet(Subs) /\ Cardinality(Subs) = AGENT_SUBS
  BY <1>1, FS_Interval DEF Subs
<1> QED BY <1>1, <1>2 DEF Subs, Workspace, AGENT_REGION

(* The next workspace round the ring is another's.                         *)
LEMMA SiblingIsAnother ==
  ASSUME NEW s \in Subs
  PROVE  Sibling(Workspace(s)) # Workspace(s)
<1>1. PICK n \in Nat : n = AGENT_SUBS /\ n >= 2
  BY SubsNumbers
<1>2. s \in 1 .. n
  BY <1>1 DEF Subs
<1>3. Sibling(Workspace(s)) = 4 + (s % n)
  BY <1>1, <1>2 DEF Sibling, Workspace
<1>4. CASE s = n
  <2>1. s % n = 0
    BY <1>1, <1>4
  <2> QED BY <2>1, <1>1, <1>3, <1>4 DEF Workspace
<1>5. CASE s # n
  <2>1. s % n = s
    BY <1>1, <1>2, <1>5
  <2> QED BY <2>1, <1>2, <1>3 DEF Workspace
<1> QED BY <1>4, <1>5

(* The orchestrator's steps that leave what it has collected alone.        *)
LEMMA OrchestratorGoesOn ==
  ASSUME AgentsInv, agentd' \in Orchestrators, SocietySame,
         agentd'.proven_from = agentd.proven_from, agentd'.counted = agentd.counted,
         agentd'.step \in {"verify", "handoff"} \/ agentd'.ok.d => agentd.proven_from = Subs,
         SpawnedOnce'
  PROVE  AgentsInv'
BY DEF AgentsInv, AgentsTypes, SocietySame, WritesAreOwn, authorize, ProofsHold, TrueClaims, Proven, Kept

LEMMA FinishKeeps ==
  ASSUME AgentsInv, NEW d \in BOOLEAN, d => agentd.proven_from = Subs, Finish(d)
  PROVE  AgentsInv'
<1>1. agentd' \in Orchestrators /\ agentd'.step = "exited" /\ agentd'.ok.d = d
      /\ agentd'.proven_from = agentd.proven_from /\ agentd'.counted = agentd.counted
  BY DEF AgentsInv, AgentsTypes, Finish, Orchestrators, OrchSteps
<1>2. UNCHANGED <<specialist, agMail, regions>> /\ agCaps' = {}
  BY DEF Finish
<1> QED BY <1>1, <1>2 DEF AgentsInv, AgentsTypes, SpawnedOnce, WritesAreOwn, authorize, ProofsHold,
             TrueClaims, Proven, Kept

LEMMA FieldKeeps ==
  ASSUME AgentsInv, do_field
  PROVE  AgentsInv'
<1>1. CASE agentd' = [agentd EXCEPT !.step = "spawn"] /\ SocietySame
  <2>1. /\ agentd' \in Orchestrators /\ agentd'.step = "spawn" /\ agentd'.ok = agentd.ok
        /\ agentd'.i = agentd.i /\ agentd'.proven_from = agentd.proven_from
        /\ agentd'.counted = agentd.counted
    BY <1>1 DEF AgentsInv, AgentsTypes, Orchestrators, OrchSteps
  <2>2. SpawnedOnce'
    BY <1>1, <2>1 DEF do_field, AgentsInv, SpawnedOnce, SocietySame
  <2> QED BY <1>1, <2>1, <2>2, OrchestratorGoesOn DEF AgentsInv, ProofsHold
<1>2. ASSUME agentd' = [agentd EXCEPT !.ok.f = TRUE, !.step = "spawn"],
             regions' = [regions EXCEPT ![AGENT_REGION] = <<Phrase>>],
             UNCHANGED <<specialist, agMail, agCaps>>
      PROVE  AgentsInv'
  <2>1. /\ agentd' \in Orchestrators /\ agentd'.step = "spawn" /\ agentd'.ok.d = agentd.ok.d
        /\ agentd'.i = agentd.i /\ agentd'.proven_from = agentd.proven_from
        /\ agentd'.counted = agentd.counted
    BY <1>2 DEF AgentsInv, AgentsTypes, Orchestrators, OrchSteps
  <2>2. AGENT_REGION \in AGENT_REGION .. Workspace(AGENT_SUBS)
    BY SubsNumbers DEF AGENT_REGION, Workspace
  <2>3. regions' \in [AGENT_REGION .. Workspace(AGENT_SUBS) -> Seq(Int)]
        /\ regions'[AGENT_REGION] = <<Phrase>>
        /\ \A s \in Subs : regions'[Workspace(s)] = regions[Workspace(s)]
    BY <1>2, <2>2, SubsNumbers DEF AgentsInv, AgentsTypes, Phrase
  <2>4. AgentsTypes'
    BY <1>2, <2>1, <2>3 DEF AgentsInv, AgentsTypes
  <2>5. SpawnedOnce'
    BY <1>2, <2>1 DEF do_field, AgentsInv, SpawnedOnce
  <2>6. WritesAreOwn' /\ ProofsHold'
    BY <1>2, <2>1 DEF AgentsInv, WritesAreOwn, authorize, ProofsHold, TrueClaims, Proven
  <2>7. \A s \in Subs : Kept(s)'
    BY <1>2, <2>3 DEF AgentsInv, Kept
  <2> QED BY <2>3, <2>4, <2>5, <2>6, <2>7 DEF AgentsInv
<1> QED BY <1>1, <1>2 DEF do_field, Steps

LEMMA TriesKeep ==
  ASSUME AgentsInv, do_qpu \/ do_spawn
  PROVE  AgentsInv'
<1>1. /\ agentd' \in Orchestrators /\ agentd'.ok.d = agentd.ok.d
      /\ agentd'.step \in {"field", "assemble"} /\ agentd.step \in {"qpu", "spawn"}
      /\ agentd'.i = agentd.i /\ agentd'.proven_from = agentd.proven_from
      /\ agentd'.counted = agentd.counted
  <2>1. agentd \in Orchestrators
    BY DEF AgentsInv, AgentsTypes
  <2>2. CASE do_qpu
    <3>1. PICK b \in BOOLEAN : agentd' = [agentd EXCEPT !.ok.q = b, !.step = "field"] /\ agentd.step = "qpu"
      BY <2>2 DEF do_qpu
    <3>2. PICK o : o = [agentd.ok EXCEPT !.q = b]
      OBVIOUS
    <3>3. o \in [q : BOOLEAN, f : BOOLEAN, s : BOOLEAN, d : BOOLEAN] /\ o.d = agentd.ok.d
      BY <2>1, <3>2 DEF Orchestrators
    <3>4. agentd' = [agentd EXCEPT !.ok = o, !.step = "field"]
      BY <2>1, <3>1, <3>2 DEF Orchestrators
    <3> QED BY <2>1, <3>1, <3>3, <3>4 DEF Orchestrators, OrchSteps
  <2>3. CASE do_spawn
    <3>1. PICK b \in BOOLEAN : agentd' = [agentd EXCEPT !.ok.s = b, !.step = "assemble"]
                               /\ agentd.step = "spawn"
      BY <2>3 DEF do_spawn
    <3>2. PICK o : o = [agentd.ok EXCEPT !.s = b]
      OBVIOUS
    <3>3. o \in [q : BOOLEAN, f : BOOLEAN, s : BOOLEAN, d : BOOLEAN] /\ o.d = agentd.ok.d
      BY <2>1, <3>2 DEF Orchestrators
    <3>4. agentd' = [agentd EXCEPT !.ok = o, !.step = "assemble"]
      BY <2>1, <3>1, <3>2 DEF Orchestrators
    <3> QED BY <2>1, <3>1, <3>3, <3>4 DEF Orchestrators, OrchSteps
  <2> QED BY <2>2, <2>3
<1>2. SocietySame
  BY DEF do_qpu, do_spawn
<1>3. SpawnedOnce'
  BY <1>1, <1>2 DEF AgentsInv, SpawnedOnce, SocietySame
<1> QED BY <1>1, <1>2, <1>3, OrchestratorGoesOn DEF AgentsInv, ProofsHold

LEMMA AssembleKeeps ==
  ASSUME AgentsInv, Assemble
  PROVE  AgentsInv'
<1> DEFINE i == agentd.i
<1>1. CASE Finish(FALSE)
  BY <1>1, FinishKeeps
<1>2. ASSUME agentd' = [agentd EXCEPT !.spawned = @ \cup {i}, !.i = IF i = AGENT_SUBS THEN 1 ELSE i + 1,
                                      !.step = IF i = AGENT_SUBS THEN "ready" ELSE @],
             specialist' = [specialist EXCEPT ![i].step = "start"],
             UNCHANGED <<agMail, agCaps, regions>>
      PROVE  AgentsInv'
  <2>1. i \in Subs /\ i \in 1 .. AGENT_SUBS /\ agentd.step = "assemble" /\ specialist[i].step = "none"
    BY SubsNumbers DEF AgentsInv, AgentsTypes, Orchestrators, Assemble, SpawnedOnce, Subs
  <2>2. PICK n : n = IF i = AGENT_SUBS THEN 1 ELSE i + 1
    OBVIOUS
  <2>3. n \in Subs
    BY <2>1, <2>2, SubsNumbers DEF Subs
  <2>4. /\ agentd' \in Orchestrators /\ agentd'.ok = agentd.ok /\ agentd'.i = n
        /\ agentd'.step = IF i = AGENT_SUBS THEN "ready" ELSE "assemble"
        /\ agentd'.proven_from = agentd.proven_from /\ agentd'.counted = agentd.counted
    BY <1>2, <2>1, <2>2, <2>3 DEF AgentsInv, AgentsTypes, Orchestrators, OrchSteps
  <2>5. /\ specialist' \in [Subs -> Specialists]
        /\ \A s \in Subs : /\ s # i => specialist'[s] = specialist[s]
                           /\ specialist'[s].published = specialist[s].published
                           /\ specialist'[i].step = "start"
    BY <1>2, <2>1 DEF AgentsInv, AgentsTypes, Specialists, SubSteps
  <2>6. AgentsTypes'
    BY <1>2, <2>4, <2>5 DEF AgentsInv, AgentsTypes
  <2>7. SpawnedOnce'
    <3> SUFFICES ASSUME i # AGENT_SUBS, NEW s \in Subs, n <= s PROVE specialist'[s].step = "none"
      BY <2>4 DEF SpawnedOnce
    <3>1. i <= s /\ s # i
      BY <2>1, <2>2, SubsNumbers
    <3> QED BY <3>1, <2>1, <2>5 DEF AgentsInv, SpawnedOnce
  <2>8. \A s \in Subs : Proven(s) => Proven(s)'
    BY <2>1, <2>5 DEF Proven
  <2>9. ProofsHold' /\ WritesAreOwn'
    <3>1. WritesAreOwn'
      BY <1>2 DEF AgentsInv, WritesAreOwn, authorize
    <3>2. ProofsHold'
      <4>1. TrueClaims'
        BY <1>2, <2>8 DEF AgentsInv, ProofsHold, TrueClaims, Claims
      <4> QED BY <4>1, <2>4, <2>8 DEF AgentsInv, AgentsTypes, Orchestrators, ProofsHold
    <3> QED BY <3>1, <3>2
  <2>10. \A s \in Subs : Kept(s)'
    <3> SUFFICES ASSUME NEW s \in Subs PROVE Kept(s)'
      OBVIOUS
    <3>1. Kept(s) /\ regions' = regions /\ agMail' = agMail
      BY <1>2 DEF AgentsInv
    <3>2. CASE s = i
      BY <3>1, <3>2, <2>1, <2>5 DEF Kept
    <3>3. CASE s # i
      BY <3>1, <3>3, <2>5 DEF Kept
    <3> QED BY <3>2, <3>3
  <2> QED BY <1>2, <2>6, <2>7, <2>9, <2>10 DEF AgentsInv
<1> QED BY <1>1, <1>2 DEF Assemble

(* Taking a message out of the orchestrator's mail.                        *)
LEMMA MailTaken ==
  ASSUME AgentsInv, TakeMail, agMail.orch # << >>
  PROVE  /\ agMail' \in [orch : Seq(OrchMail), sub : [Subs -> Seq(Int)]]
         /\ agMail'.sub = agMail.sub
         /\ Head(agMail.orch) \in OrchMail
         /\ \A t \in Subs : Head(agMail.orch).k = "p" /\ Head(agMail.orch).from = t => Proven(t)
         /\ Claims(agMail'.orch) \subseteq Claims(agMail.orch)
<1>1. PICK q \in Seq(OrchMail) : q = agMail.orch /\ q # << >>
  BY DEF AgentsInv, AgentsTypes
<1>2. agMail' = [agMail EXCEPT !.orch = Tail(q)]
  BY <1>1 DEF TakeMail
<1>3. Tail(q) \in Seq(OrchMail) /\ Head(q) \in OrchMail /\ Head(q) = q[1] /\ 1 \in DOMAIN q
      /\ \A j \in DOMAIN Tail(q) : Tail(q)[j] = q[j + 1] /\ j + 1 \in DOMAIN q
  BY <1>1
<1>4. agMail' \in [orch : Seq(OrchMail), sub : [Subs -> Seq(Int)]]
      /\ agMail'.sub = agMail.sub /\ agMail'.orch = Tail(q)
  BY <1>2, <1>3 DEF AgentsInv, AgentsTypes
<1>5. \A t \in Subs : \A j \in DOMAIN q : q[j].k = "p" /\ q[j].from = t => Proven(t)
  BY <1>1 DEF AgentsInv, ProofsHold, TrueClaims, Claims
<1>6. Claims(Tail(q)) \subseteq Claims(q)
  BY <1>3 DEF Claims
<1> QED BY <1>1, <1>3, <1>4, <1>5, <1>6

LEMMA ReadyKeeps ==
  ASSUME AgentsInv, CollectReady
  PROVE  AgentsInv'
<1> DEFINE m == Head(agMail.orch)
           r == IF m.k = "r" THEN agentd.ready_from \cup ({m.from} \cap agentd.spawned)
                ELSE agentd.ready_from
<1>1. agentd' = [agentd EXCEPT !.ready_from = r, !.step = IF Cardinality(r) = AGENT_SUBS THEN "delegate" ELSE @]
      /\ agentd.step = "ready" /\ TakeMail /\ agMail.orch # << >>
      /\ UNCHANGED <<specialist, agCaps, regions>>
  BY DEF CollectReady
<1>2. r \in SUBSET Subs
  BY DEF AgentsInv, AgentsTypes, Orchestrators
<1> HIDE DEF r
<1>3. /\ agentd' \in Orchestrators /\ agentd'.ok = agentd.ok
      /\ agentd'.step \in {"ready", "delegate"}
      /\ agentd'.proven_from = agentd.proven_from /\ agentd'.counted = agentd.counted
  BY <1>1, <1>2 DEF AgentsInv, AgentsTypes, Orchestrators, OrchSteps
<1>4. AgentsTypes'
  BY <1>1, <1>3, MailTaken DEF AgentsInv, AgentsTypes
<1>5. SpawnedOnce' /\ WritesAreOwn'
  BY <1>1, <1>3 DEF AgentsInv, SpawnedOnce, WritesAreOwn, authorize
<1>6. \A s : Proven(s)' = Proven(s)
  BY <1>1 DEF Proven
<1>7. ProofsHold'
  <2>1. TrueClaims'
    BY <1>1, <1>6, MailTaken DEF AgentsInv, ProofsHold, TrueClaims
  <2> QED BY <2>1, <1>3, <1>6 DEF AgentsInv, ProofsHold
<1>8. \A s \in Subs : Kept(s)'
  BY <1>1, MailTaken DEF AgentsInv, Kept
<1> QED BY <1>1, <1>4, <1>5, <1>7, <1>8 DEF AgentsInv

LEMMA DelegateKeeps ==
  ASSUME AgentsInv, Delegate
  PROVE  AgentsInv'
<1> DEFINE i == agentd.i
<1>1. CASE Finish(FALSE)
  BY <1>1, FinishKeeps
<1>2. ASSUME agCaps' = agCaps \cup Slices(i),
             agMail' = [agMail EXCEPT !.sub[i] = Append(@, Workspace(i))],
             agentd' = [agentd EXCEPT !.i = IF i = AGENT_SUBS THEN 1 ELSE i + 1,
                                      !.step = IF i = AGENT_SUBS THEN "collect" ELSE @],
             UNCHANGED <<specialist, regions>>
      PROVE  AgentsInv'
  <2>1. i \in Subs /\ i \in 1 .. AGENT_SUBS /\ agentd.step = "delegate"
    BY SubsNumbers DEF AgentsInv, AgentsTypes, Orchestrators, Delegate, Subs
  <2>2. PICK n : n = IF i = AGENT_SUBS THEN 1 ELSE i + 1
    OBVIOUS
  <2>3. n \in Subs
    BY <2>1, <2>2, SubsNumbers DEF Subs
  <2>4. /\ agentd' \in Orchestrators /\ agentd'.ok = agentd.ok
        /\ agentd'.step \in {"delegate", "collect"}
        /\ agentd'.proven_from = agentd.proven_from /\ agentd'.counted = agentd.counted
    BY <1>2, <2>1, <2>2, <2>3 DEF AgentsInv, AgentsTypes, Orchestrators, OrchSteps
  <2>5. Workspace(i) \in Int /\ agMail.sub[i] \in Seq(Int)
    BY <2>1, SubsNumbers DEF AgentsInv, AgentsTypes, Workspace
  <2>6. /\ agMail' \in [orch : Seq(OrchMail), sub : [Subs -> Seq(Int)]]
        /\ agMail'.orch = agMail.orch /\ agMail'.sub[i] = Append(agMail.sub[i], Workspace(i))
        /\ \A s \in Subs : s # i => agMail'.sub[s] = agMail.sub[s]
    <3>0. PICK a \in Seq(Int), w \in Int : a = agMail.sub[i] /\ w = Workspace(i)
      BY <2>5
    <3>1. PICK q \in Seq(Int) : q = Append(agMail.sub[i], Workspace(i))
      <4>1. Append(a, w) \in Seq(Int)
        OBVIOUS
      <4> QED BY <3>0, <4>1
    <3>2. PICK S : S = [agMail.sub EXCEPT ![i] = q]
      OBVIOUS
    <3>3. S \in [Subs -> Seq(Int)] /\ S[i] = q /\ \A s \in Subs : s # i => S[s] = agMail.sub[s]
      BY <2>1, <3>1, <3>2 DEF AgentsInv, AgentsTypes
    <3>4. agMail' = [agMail EXCEPT !.sub = S]
      BY <1>2, <3>1, <3>2 DEF AgentsInv, AgentsTypes
    <3> QED BY <3>1, <3>3, <3>4 DEF AgentsInv, AgentsTypes
  <2>7. AgentsTypes' /\ SpawnedOnce'
    BY <1>2, <2>4, <2>6 DEF AgentsInv, AgentsTypes, SpawnedOnce
  <2>8. WritesAreOwn'
    <3>1. ASSUME NEW s \in Subs, NEW r, <<s, r, "WRITE">> \in Slices(i) PROVE r = Workspace(s)
      BY <3>1 DEF Slices
    <3> QED BY <1>2, <3>1 DEF AgentsInv, WritesAreOwn, authorize
  <2>9. \A s : Proven(s)' = Proven(s)
    BY <1>2 DEF Proven
  <2>10. ProofsHold'
    <3>1. TrueClaims'
      BY <2>6, <2>9 DEF AgentsInv, ProofsHold, TrueClaims
    <3> QED BY <3>1, <2>4, <2>9 DEF AgentsInv, ProofsHold
  <2>11. \A s \in Subs : Kept(s)'
    <3> SUFFICES ASSUME NEW s \in Subs PROVE Kept(s)'
      OBVIOUS
    <3>1. \A j \in DOMAIN agMail'.sub[s] : agMail'.sub[s][j] = Workspace(s)
      <4>1. CASE s = i
        <5>1. \A j \in DOMAIN agMail.sub[i] : agMail.sub[i][j] = Workspace(i)
          BY <2>1 DEF AgentsInv, Kept
        <5>2. PICK q \in Seq(Int) : q = agMail.sub[i]
          BY <2>5
        <5>3. PICK w \in Int : w = Workspace(i)
          BY <2>5
        <5>4. \A j \in DOMAIN Append(q, w) : Append(q, w)[j] = w
          BY <5>1, <5>2, <5>3
        <5> QED BY <4>1, <5>2, <5>3, <5>4, <2>6
      <4>2. CASE s # i
        BY <4>2, <2>6 DEF AgentsInv, Kept
      <4> QED BY <4>1, <4>2
    <3> QED BY <3>1, <1>2 DEF AgentsInv, Kept
  <2> QED BY <1>2, <2>7, <2>8, <2>10, <2>11 DEF AgentsInv
<1> QED BY <1>1, <1>2 DEF Delegate

LEMMA ProofKeeps ==
  ASSUME AgentsInv, CollectProof
  PROVE  AgentsInv'
<1> DEFINE m == Head(agMail.orch)
           n == agentd.counted + 1
<1>1. /\ agentd.step = "collect" /\ TakeMail /\ agMail.orch # << >>
      /\ UNCHANGED <<specialist, agCaps, regions>>
      /\ agentd' = IF m.k = "p" /\ ProofCounts(m)
                   THEN [agentd EXCEPT !.proven_from = @ \cup {m.from}, !.counted = n,
                                       !.step = IF n = AGENT_SUBS THEN "verify" ELSE @]
                   ELSE agentd
  BY DEF CollectProof
<1>2. \A s : Proven(s)' = Proven(s)
  BY <1>1 DEF Proven
<1>3. \A s \in Subs : Kept(s)'
  BY <1>1, MailTaken DEF AgentsInv, Kept
<1>4. WritesAreOwn'
  BY <1>1 DEF AgentsInv, WritesAreOwn, authorize
<1>5. CASE ~(m.k = "p" /\ ProofCounts(m))
  <2>1. agentd' = agentd
    BY <1>1, <1>5
  <2>2. AgentsTypes' /\ SpawnedOnce'
    BY <1>1, <2>1, MailTaken DEF AgentsInv, AgentsTypes, SpawnedOnce
  <2>3. ProofsHold'
    <3>1. TrueClaims'
      BY <1>1, <1>2, MailTaken DEF AgentsInv, ProofsHold, TrueClaims
    <3> QED BY <3>1, <2>1, <1>2 DEF AgentsInv, ProofsHold
  <2> QED BY <1>1, <1>3, <1>4, <2>2, <2>3 DEF AgentsInv
<1>6. CASE m.k = "p" /\ ProofCounts(m)
  <2>1. PICK f : f = m.from
    OBVIOUS
  <2>2. f \in Subs /\ f \notin agentd.proven_from /\ Proven(f)
    BY <1>1, <1>6, <2>1, MailTaken DEF ProofCounts, AgentsInv, AgentsTypes, Orchestrators
  <2>3. agentd.proven_from \in SUBSET Subs /\ agentd.counted \in Nat
        /\ agentd.counted = Cardinality(agentd.proven_from)
    BY DEF AgentsInv, AgentsTypes, Orchestrators, ProofsHold
  <2>4. PICK P \in SUBSET Subs : P = agentd.proven_from \cup {f}
    BY <2>2, <2>3
  <2>5. IsFiniteSet(agentd.proven_from) /\ IsFiniteSet(P) /\ Cardinality(P) = n
    BY <2>2, <2>3, <2>4, SubsNumbers, FS_Subset, FS_AddElement
  <2>6. /\ agentd' \in Orchestrators /\ agentd'.ok = agentd.ok
        /\ agentd'.step = IF n = AGENT_SUBS THEN "verify" ELSE "collect"
        /\ agentd'.proven_from = P /\ agentd'.counted = n
    <3>1. agentd \in Orchestrators /\ n \in Nat
      BY <2>3 DEF AgentsInv, AgentsTypes
    <3>2. agentd' = [agentd EXCEPT !.proven_from = P, !.counted = n,
                                   !.step = IF n = AGENT_SUBS THEN "verify" ELSE "collect"]
      BY <1>1, <1>6, <2>1, <2>4, <3>1 DEF Orchestrators
    <3> HIDE DEF n
    <3> QED BY <3>1, <3>2 DEF Orchestrators, OrchSteps
  <2>7. n = AGENT_SUBS => P = Subs
    BY <2>5, SubsNumbers, FS_Subset
  <2>8. AgentsTypes' /\ SpawnedOnce'
    BY <1>1, <2>6, MailTaken DEF AgentsInv, AgentsTypes, SpawnedOnce
  <2>9. agentd.ok.d => P = Subs
    BY <2>4 DEF AgentsInv, ProofsHold
  <2>10. \A s \in P : Proven(s)
    BY <2>2, <2>4 DEF AgentsInv, ProofsHold
  <2>11. ProofsHold'
    <3>1. TrueClaims'
      BY <1>1, <1>2, MailTaken DEF AgentsInv, ProofsHold, TrueClaims
    <3> QED BY <3>1, <1>2, <2>5, <2>6, <2>7, <2>9, <2>10 DEF ProofsHold
  <2> QED BY <1>1, <1>3, <1>4, <2>8, <2>11 DEF AgentsInv
<1> QED BY <1>5, <1>6

LEMMA VerdictKeeps ==
  ASSUME AgentsInv, Verify \/ HandOff \/ GivesUp
  PROVE  AgentsInv'
<1>1. ASSUME NEW d \in BOOLEAN, Finish(d), d => HandOff PROVE AgentsInv'
  <2>1. d => agentd.proven_from = Subs
    BY <1>1 DEF HandOff, AgentsInv, ProofsHold
  <2> QED BY <1>1, <2>1, FinishKeeps
<1>2. CASE Verify /\ Steps("handoff") /\ SocietySame
  <2>1. /\ agentd' \in Orchestrators /\ agentd'.step = "handoff" /\ agentd'.ok = agentd.ok
        /\ agentd'.proven_from = agentd.proven_from /\ agentd'.counted = agentd.counted
    BY <1>2 DEF Steps, AgentsInv, AgentsTypes, Orchestrators, OrchSteps
  <2>2. agentd.proven_from = Subs
    BY <1>2 DEF Verify, AgentsInv, ProofsHold
  <2>3. SpawnedOnce'
    BY <2>1 DEF SpawnedOnce
  <2> QED BY <1>2, <2>1, <2>2, <2>3, OrchestratorGoesOn
<1> QED BY <1>1, <1>2 DEF Verify, HandOff, GivesUp

(* A specialist's own step: it was spawned, has not left, and writes only  *)
(* where it may.                                                           *)
LEMMA SpecialistSteps ==
  ASSUME AgentsInv, NEW s \in Subs, NEW x \in Specialists,
         specialist[s].step \notin {"none", "gone"}, x.step # "none",
         specialist' = [specialist EXCEPT ![s] = x], UNCHANGED <<agentd, agCaps>>,
         agMail' \in [orch : Seq(OrchMail), sub : [Subs -> Seq(Int)]],
         TrueClaims',
         \A t \in Subs \ {s} : agMail'.sub[t] = agMail.sub[t],
         regions' \in [AGENT_REGION .. Workspace(AGENT_SUBS) -> Seq(Int)],
         regions'[AGENT_REGION] = regions[AGENT_REGION],
         \A t \in Subs \ {s} : regions'[Workspace(t)] = regions[Workspace(t)],
         Kept(s)'
  PROVE  AgentsInv'
<1>1. specialist' \in [Subs -> Specialists]
      /\ \A t \in Subs : t # s => specialist'[t] = specialist[t]
      /\ specialist'[s] = x
  BY DEF AgentsInv, AgentsTypes
<1>2. AgentsTypes' /\ WritesAreOwn'
  BY <1>1 DEF AgentsInv, AgentsTypes, WritesAreOwn, authorize
<1>3. SpawnedOnce'
  <2>1. \A t \in Subs : specialist[t].step = "none" => specialist'[t].step = "none"
    BY <1>1
  <2>2. agentd' = agentd
    OBVIOUS
  <2> QED BY <2>1, <2>2 DEF AgentsInv, SpawnedOnce
<1>4. \A t \in Subs : Proven(t) => Proven(t)'
  <2> SUFFICES ASSUME NEW t \in Subs, Proven(t) PROVE Proven(t)'
    OBVIOUS
  <2>1. specialist'[t] = specialist[t]
    BY <1>1 DEF Proven
  <2> QED BY <2>1 DEF Proven
<1>5. ProofsHold'
  <2>1. agentd.proven_from \subseteq Subs /\ agentd' = agentd
    BY DEF AgentsInv, AgentsTypes, Orchestrators
  <2> QED BY <1>4, <2>1 DEF AgentsInv, ProofsHold
<1>6. \A t \in Subs : Kept(t)'
  <2> SUFFICES ASSUME NEW t \in Subs, t # s PROVE Kept(t)'
    OBVIOUS
  <2>1. /\ Kept(t) /\ specialist'[t] = specialist[t] /\ agMail'.sub[t] = agMail.sub[t]
        /\ regions'[Workspace(t)] = regions[Workspace(t)]
    BY <1>1 DEF AgentsInv
  <2> QED BY <2>1 DEF Kept
<1> QED BY <1>2, <1>3, <1>5, <1>6 DEF AgentsInv

(* The mail already there stays good while a specialist works.             *)
LEMMA ProofsStay ==
  ASSUME AgentsInv, NEW s \in Subs, NEW x \in Specialists,
         specialist[s].step # "gone", specialist' = [specialist EXCEPT ![s] = x]
  PROVE  \A t \in Claims(agMail.orch) : Proven(t)'
<1>1. \A t \in Subs : t # s => specialist'[t] = specialist[t]
  BY DEF AgentsInv, AgentsTypes
<1>2. ASSUME NEW t \in Claims(agMail.orch) PROVE Proven(t)'
  <2>1. t \in Subs /\ Proven(t)
    BY DEF AgentsInv, ProofsHold, TrueClaims, Claims
  <2>2. specialist'[t] = specialist[t]
    BY <1>1, <2>1 DEF Proven
  <2> QED BY <2>1, <2>2 DEF Proven
<1> QED BY <1>2

(* What one more message claims.                                           *)
LEMMA ClaimsOfMore ==
  ASSUME NEW q \in Seq(OrchMail), NEW m \in OrchMail
  PROVE  /\ Append(q, m) \in Seq(OrchMail)
         /\ Claims(Append(q, m)) \subseteq Claims(q) \cup {m.from}
         /\ m.k # "p" \/ m.from \notin Subs => Claims(Append(q, m)) = Claims(q)
<1>1. \A j \in DOMAIN Append(q, m) : Append(q, m)[j] = m \/ (j \in DOMAIN q /\ Append(q, m)[j] = q[j])
  OBVIOUS
<1>2. \A j \in DOMAIN q : j \in DOMAIN Append(q, m) /\ Append(q, m)[j] = q[j]
  OBVIOUS
<1> QED BY <1>1, <1>2 DEF Claims

(* An imprint reaches the writer's own workspace or nothing.               *)
LEMMA ImprintsAreOwn ==
  ASSUME AgentsInv, NEW s \in Subs, NEW r, NEW what \in Int, Imprint(s, r, what)
  PROVE  /\ regions' \in [AGENT_REGION .. Workspace(AGENT_SUBS) -> Seq(Int)]
         /\ regions'[AGENT_REGION] = regions[AGENT_REGION]
         /\ \A t \in Subs \ {s} : regions'[Workspace(t)] = regions[Workspace(t)]
         /\ r # Workspace(s) => regions' = regions /\ ~authorize(s, r, "WRITE")
         /\ authorize(s, r, "WRITE") => regions'[r] = Append(regions[r], what)
         /\ ~authorize(s, r, "WRITE") => regions' = regions
<1>1. CASE ~authorize(s, r, "WRITE")
  BY <1>1 DEF Imprint, AgentsInv, AgentsTypes
<1>2. CASE authorize(s, r, "WRITE")
  <2>1. r = Workspace(s)
    BY <1>2 DEF AgentsInv, WritesAreOwn
  <2>2. r \in AGENT_REGION .. Workspace(AGENT_SUBS) /\ r # AGENT_REGION
        /\ \A t \in Subs \ {s} : Workspace(t) # r
    BY <2>1, SubsNumbers
  <2>3. regions' = [regions EXCEPT ![r] = Append(@, what)]
    BY <1>2 DEF Imprint
  <2>4. regions \in [AGENT_REGION .. Workspace(AGENT_SUBS) -> Seq(Int)]
    BY DEF AgentsInv, AgentsTypes
  <2>5. Append(regions[r], what) \in Seq(Int)
    BY <2>2, <2>4
  <2>6. AGENT_REGION \in AGENT_REGION .. Workspace(AGENT_SUBS)
        /\ \A t \in Subs : Workspace(t) \in AGENT_REGION .. Workspace(AGENT_SUBS)
    BY SubsNumbers DEF AGENT_REGION, Workspace
  <2> QED BY <1>2, <2>1, <2>2, <2>3, <2>4, <2>5, <2>6
<1> QED BY <1>1, <1>2

LEMMA ReadySent ==
  ASSUME AgentsInv, NEW s \in Subs, SubReady(s)
  PROVE  AgentsInv'
<1>1. PICK x : x = [specialist[s] EXCEPT !.step = "wait"]
  OBVIOUS
<1>2. specialist[s] \in Specialists /\ specialist[s].step = "start"
  BY DEF AgentsInv, AgentsTypes, SubReady
<1>3. x \in Specialists /\ x.step = "wait" /\ x.published = specialist[s].published
  BY <1>1, <1>2 DEF Specialists, SubSteps
<1>4. specialist' = [specialist EXCEPT ![s] = x] /\ UNCHANGED <<agentd, agCaps, regions>>
  BY <1>1 DEF SubReady, AgentsInv, AgentsTypes
<1>5. PICK q \in Seq(OrchMail) : q = agMail.orch
  BY DEF AgentsInv, AgentsTypes
<1>6. PICK m \in OrchMail : m = [from |-> s, k |-> "r"]
  BY SubsNumbers DEF OrchMail
<1>7. PICK q2 \in Seq(OrchMail) : agMail' = [agMail EXCEPT !.orch = q2] /\ q2 \in {q, Append(q, m)}
  BY <1>5, <1>6, ClaimsOfMore DEF SubReady, ToOrch
<1>8. Claims(q2) = Claims(q)
  BY <1>6, <1>7, ClaimsOfMore
<1>9. agMail' \in [orch : Seq(OrchMail), sub : [Subs -> Seq(Int)]] /\ agMail'.sub = agMail.sub
      /\ agMail'.orch = q2
  BY <1>7 DEF AgentsInv, AgentsTypes
<1>11. TrueClaims'
  BY <1>2, <1>3, <1>4, <1>5, <1>8, <1>9, ProofsStay DEF TrueClaims
<1>12. Kept(s)'
  <2>1. specialist'[s] = x /\ Kept(s)
    BY <1>4 DEF AgentsInv, AgentsTypes
  <2> QED BY <2>1, <1>2, <1>3, <1>4, <1>9 DEF Kept
<1>13. regions \in [AGENT_REGION .. Workspace(AGENT_SUBS) -> Seq(Int)]
  BY DEF AgentsInv, AgentsTypes
<1> QED BY <1>2, <1>3, <1>4, <1>9, <1>11, <1>12, <1>13, SpecialistSteps

LEMMA GoTaken ==
  ASSUME AgentsInv, NEW s \in Subs, SubGo(s)
  PROVE  AgentsInv'
<1>1. specialist[s] \in Specialists /\ specialist[s].step = "wait" /\ Kept(s)
      /\ agMail.sub[s] \in Seq(Int)
  BY DEF AgentsInv, AgentsTypes, SubGo
<1>2. UNCHANGED <<agentd, agCaps, regions>>
  BY DEF SubGo
<1>3. regions \in [AGENT_REGION .. Workspace(AGENT_SUBS) -> Seq(Int)]
  BY DEF AgentsInv, AgentsTypes
<1>4. CASE agMail.sub[s] = << >>
  <2>1. PICK x : x = [specialist[s] EXCEPT !.step = "stuck"]
    OBVIOUS
  <2>2. x \in Specialists /\ x.step = "stuck" /\ x.published = specialist[s].published
    BY <1>1, <2>1 DEF Specialists, SubSteps
  <2>3. specialist' = [specialist EXCEPT ![s] = x] /\ agMail' = agMail
    BY <1>4, <2>1 DEF SubGo, AgentsInv, AgentsTypes
  <2>4. Kept(s)'
    <3>1. specialist'[s] = x
      BY <2>3 DEF AgentsInv, AgentsTypes
    <3> QED BY <3>1, <1>1, <1>2, <2>2, <2>3 DEF Kept
  <2>5. TrueClaims'
    BY <1>1, <2>2, <2>3, ProofsStay DEF TrueClaims
  <2>6. agMail' \in [orch : Seq(OrchMail), sub : [Subs -> Seq(Int)]]
    BY <2>3 DEF AgentsInv, AgentsTypes
  <2> QED BY <1>1, <1>2, <1>3, <2>2, <2>3, <2>4, <2>5, <2>6, SpecialistSteps
<1>5. CASE agMail.sub[s] # << >>
  <2>1. PICK q \in Seq(Int) : q = agMail.sub[s] /\ q # << >>
    BY <1>1, <1>5
  <2>2. Head(q) = Workspace(s) /\ Tail(q) \in Seq(Int)
        /\ \A j \in DOMAIN Tail(q) : Tail(q)[j] = Workspace(s)
    BY <1>1, <2>1 DEF Kept
  <2>3. PICK x : x = [specialist[s] EXCEPT !.step = "recall", !.ws = Head(q)]
    OBVIOUS
  <2>4. Head(q) \in Int
    BY <2>1
  <2>5. x \in Specialists /\ x.step = "recall" /\ x.published = specialist[s].published
        /\ x.ws = Workspace(s)
    BY <1>1, <2>2, <2>3, <2>4 DEF Specialists, SubSteps
  <2>6. specialist' = [specialist EXCEPT ![s] = x] /\ agMail' = [agMail EXCEPT !.sub[s] = Tail(q)]
    BY <1>5, <2>1, <2>3 DEF SubGo, AgentsInv, AgentsTypes
  <2>7. agMail' \in [orch : Seq(OrchMail), sub : [Subs -> Seq(Int)]]
        /\ agMail'.orch = agMail.orch /\ agMail'.sub[s] = Tail(q)
        /\ \A t \in Subs \ {s} : agMail'.sub[t] = agMail.sub[t]
    BY <2>2, <2>6 DEF AgentsInv, AgentsTypes
  <2>8. Kept(s)'
    <3>1. specialist'[s] = x
      BY <2>6 DEF AgentsInv, AgentsTypes
    <3> QED BY <3>1, <1>1, <1>2, <2>2, <2>5, <2>7 DEF Kept
  <2>9. TrueClaims'
    BY <1>1, <2>5, <2>6, <2>7, ProofsStay DEF TrueClaims
  <2> QED BY <1>1, <1>2, <1>3, <2>5, <2>6, <2>7, <2>8, <2>9, SpecialistSteps
<1> QED BY <1>4, <1>5

(* Recalling, probing and publishing: no mail, and an imprint or none.     *)
LEMMA WorkKeeps ==
  ASSUME AgentsInv, NEW s \in Subs, NEW x \in Specialists,
         specialist[s].step \in {"recall", "shared", "publish", "sibling"},
         x.step \in {"shared", "publish", "sibling", "ack"}, x.ws = Workspace(s),
         specialist' = [specialist EXCEPT ![s] = x], UNCHANGED <<agentd, agCaps, agMail>>,
         regions' \in [AGENT_REGION .. Workspace(AGENT_SUBS) -> Seq(Int)],
         regions'[AGENT_REGION] = regions[AGENT_REGION],
         \A t \in Subs \ {s} : regions'[Workspace(t)] = regions[Workspace(t)],
         \/ regions'[Workspace(s)] = regions[Workspace(s)]
            /\ x.published = specialist[s].published
            /\ (regions[Workspace(s)] # << >> => x.step \in {"sibling", "ack"})
         \/ regions'[Workspace(s)] = <<Workspace(s)>> /\ x.step = "sibling"
  PROVE  AgentsInv'
<1>1. specialist'[s] = x /\ Kept(s)
  BY DEF AgentsInv, AgentsTypes
<1>2. Kept(s)'
  BY <1>1 DEF Kept
<1>3. agMail' \in [orch : Seq(OrchMail), sub : [Subs -> Seq(Int)]] /\ agMail' = agMail
  BY DEF AgentsInv, AgentsTypes
<1>4. TrueClaims'
  BY <1>3, ProofsStay DEF TrueClaims
<1> QED BY <1>2, <1>3, <1>4, SpecialistSteps

LEMMA RecallKeeps ==
  ASSUME AgentsInv, NEW s \in Subs, SubRecall(s)
  PROVE  AgentsInv'
<1>1. specialist[s] \in Specialists /\ specialist[s].step = "recall" /\ Kept(s)
  BY DEF AgentsInv, AgentsTypes, SubRecall
<1>2. PICK b \in BOOLEAN : b = (authorize(s, AGENT_REGION, "READ") /\ regions[AGENT_REGION] = <<Phrase>>)
  OBVIOUS
<1>3. PICK x : x = [specialist[s] EXCEPT !.step = "shared", !.recalled = b]
  OBVIOUS
<1>4. x \in Specialists /\ x.step = "shared" /\ x.ws = Workspace(s)
      /\ x.published = specialist[s].published
  BY <1>1, <1>3 DEF Specialists, SubSteps, Kept
<1>5. specialist' = [specialist EXCEPT ![s] = x] /\ UNCHANGED <<agentd, agCaps, agMail, regions>>
  BY <1>2, <1>3 DEF SubRecall, AgentsInv, AgentsTypes
<1>6. regions[Workspace(s)] = << >> /\ regions \in [AGENT_REGION .. Workspace(AGENT_SUBS) -> Seq(Int)]
  BY <1>1 DEF Kept, AgentsInv, AgentsTypes
<1> QED BY <1>1, <1>4, <1>5, <1>6, WorkKeeps

LEMMA ProbeKeeps ==
  ASSUME AgentsInv, NEW s \in Subs, NEW step, NEW then, NEW r, SubProbes(s, step, r, then),
         \/ step = "shared" /\ then = "publish" /\ r = AGENT_REGION
         \/ step = "sibling" /\ then = "ack" /\ r = Sibling(specialist[s].ws)
  PROVE  AgentsInv'
<1>1. specialist[s] \in Specialists /\ specialist[s].step = step /\ Kept(s)
      /\ specialist[s].ws = Workspace(s)
  BY DEF AgentsInv, AgentsTypes, SubProbes, Kept
<1>2. r # Workspace(s)
  BY <1>1, SubsNumbers, SiblingIsAnother
<1>3. /\ regions' = regions /\ ~authorize(s, r, "WRITE")
      /\ regions' \in [AGENT_REGION .. Workspace(AGENT_SUBS) -> Seq(Int)]
  BY <1>2, ImprintsAreOwn DEF SubProbes, Intruder
<1>4. PICK x : x = [specialist[s] EXCEPT !.step = then, !.refused = @ + 1]
  OBVIOUS
<1>5. x \in Specialists /\ x.step = then /\ x.ws = Workspace(s)
      /\ x.published = specialist[s].published
  <2>1. then \in SubSteps
    BY DEF SubSteps
  <2>2. PICK n \in Nat : n = specialist[s].refused + 1
    BY <1>1 DEF Specialists
  <2>3. x = [specialist[s] EXCEPT !.step = then, !.refused = n]
    BY <1>1, <1>4, <2>2 DEF Specialists
  <2> QED BY <1>1, <2>1, <2>3 DEF Specialists
<1>6. specialist' = [specialist EXCEPT ![s] = x] /\ UNCHANGED <<agentd, agCaps, agMail>>
  BY <1>3, <1>4 DEF SubProbes, AgentsInv, AgentsTypes
<1>7. regions[Workspace(s)] # << >> => x.step = "ack"
  BY <1>1, <1>5 DEF Kept
<1> QED BY <1>1, <1>3, <1>5, <1>6, <1>7, WorkKeeps

LEMMA PublishKeeps ==
  ASSUME AgentsInv, NEW s \in Subs, SubPublishes(s)
  PROVE  AgentsInv'
<1> DEFINE w == Workspace(s)
<1>1. specialist[s] \in Specialists /\ specialist[s].step = "publish" /\ Kept(s)
      /\ specialist[s].ws = w /\ regions[w] = << >> /\ w \in Int /\ ~specialist[s].published
  <2>1. specialist[s] \in Specialists /\ specialist[s].step = "publish" /\ Kept(s)
    BY DEF AgentsInv, AgentsTypes, SubPublishes
  <2>2. specialist[s].ws = w /\ regions[w] = << >>
    BY <2>1 DEF Kept
  <2>3. << >> # <<w>>
    OBVIOUS
  <2>4. ~specialist[s].published
    BY <2>1, <2>2, <2>3 DEF Kept
  <2>5. w \in Int
    BY SubsNumbers DEF Workspace
  <2> QED BY <2>1, <2>2, <2>4, <2>5
<1>2. Imprint(s, w, w)
  BY <1>1 DEF SubPublishes
<1>3. PICK b \in BOOLEAN : b = authorize(s, w, "WRITE")
  <2>1. CASE authorize(s, w, "WRITE")
    BY <2>1 DEF authorize
  <2>2. CASE ~authorize(s, w, "WRITE")
    <3>1. authorize(s, w, "WRITE") = FALSE
      BY <2>2 DEF authorize
    <3> QED BY <3>1
  <2> QED BY <2>1, <2>2
<1>4. PICK x : x = [specialist[s] EXCEPT !.step = "sibling", !.published = b]
  OBVIOUS
<1>5. x \in Specialists /\ x.step = "sibling" /\ x.ws = w /\ x.published = b
  BY <1>1, <1>4 DEF Specialists, SubSteps
<1>6. specialist' = [specialist EXCEPT ![s] = x] /\ UNCHANGED <<agentd, agCaps, agMail>>
  BY <1>1, <1>3, <1>4 DEF SubPublishes, AgentsInv, AgentsTypes
<1>7. /\ regions' \in [AGENT_REGION .. Workspace(AGENT_SUBS) -> Seq(Int)]
      /\ regions'[AGENT_REGION] = regions[AGENT_REGION]
      /\ \A t \in Subs \ {s} : regions'[Workspace(t)] = regions[Workspace(t)]
  BY <1>1, <1>2, ImprintsAreOwn
<1>8. IF b THEN regions'[w] = <<w>> ELSE regions' = regions
  BY <1>1, <1>2, <1>3, ImprintsAreOwn
<1>9. CASE b
  BY <1>1, <1>5, <1>6, <1>7, <1>8, <1>9, WorkKeeps
<1>10. CASE ~b
  <2>1. x.published = specialist[s].published
    BY <1>1, <1>5, <1>10 DEF Specialists
  <2> QED BY <2>1, <1>1, <1>5, <1>6, <1>7, <1>8, <1>10, WorkKeeps
<1> QED BY <1>9, <1>10

LEMMA AckKeeps ==
  ASSUME AgentsInv, NEW s \in Subs, SubAcks(s)
  PROVE  AgentsInv'
<1>1. specialist[s] \in Specialists /\ specialist[s].step = "ack" /\ Kept(s)
  BY DEF AgentsInv, AgentsTypes, SubAcks
<1>2. PICK x : x = [specialist[s] EXCEPT !.step = "gone"]
  OBVIOUS
<1>3. x \in Specialists /\ x.step = "gone" /\ x.published = specialist[s].published
      /\ x.recalled = specialist[s].recalled /\ x.refused = specialist[s].refused
  BY <1>1, <1>2 DEF Specialists, SubSteps
<1>4. specialist' = [specialist EXCEPT ![s] = x] /\ UNCHANGED <<agentd, agCaps, regions>>
  BY <1>2 DEF SubAcks, AgentsInv, AgentsTypes
<1>5. specialist'[s] = x
  BY <1>4 DEF AgentsInv, AgentsTypes
<1>6. PICK q \in Seq(OrchMail) : q = agMail.orch
  BY DEF AgentsInv, AgentsTypes
<1>7. PICK m \in OrchMail : m = [from |-> s, k |-> "p"]
  BY SubsNumbers DEF OrchMail
<1>8. PICK q2 \in Seq(OrchMail) : agMail' = [agMail EXCEPT !.orch = q2]
        /\ (q2 = q \/ (q2 = Append(q, m) /\ Proven(s)'))
  <2>1. Append(q, m) \in Seq(OrchMail) /\ agMail = [agMail EXCEPT !.orch = q]
    BY <1>6, ClaimsOfMore DEF AgentsInv, AgentsTypes
  <2>2. CASE specialist[s].recalled /\ specialist[s].refused = 2 /\ specialist[s].published
    <3>1. Proven(s)'
      BY <2>2, <1>3, <1>5 DEF Proven
    <3>2. ToOrch(s, "p")
      BY <2>2 DEF SubAcks
    <3> QED BY <3>1, <3>2, <2>1, <1>6, <1>7 DEF ToOrch
  <2>3. CASE ~(specialist[s].recalled /\ specialist[s].refused = 2 /\ specialist[s].published)
    <3>1. agMail' = agMail
      BY <2>3 DEF SubAcks
    <3> QED BY <3>1, <2>1
  <2> QED BY <2>2, <2>3
<1>10. agMail' \in [orch : Seq(OrchMail), sub : [Subs -> Seq(Int)]] /\ agMail'.sub = agMail.sub
      /\ agMail'.orch = q2
  BY <1>8 DEF AgentsInv, AgentsTypes
<1>11. m.from = s
  BY <1>7
<1>12. \A t \in Claims(q) : Proven(t)'
  BY <1>1, <1>3, <1>4, <1>6, ProofsStay
<1>13. TrueClaims'
  <2>1. \A t \in Claims(q2) : t \in Claims(q) \/ (t = s /\ Proven(s)')
    BY <1>8, <1>11, ClaimsOfMore
  <2> QED BY <2>1, <1>10, <1>12 DEF TrueClaims
<1>14. Kept(s)'
  BY <1>1, <1>3, <1>4, <1>5, <1>10 DEF Kept
<1>15. regions \in [AGENT_REGION .. Workspace(AGENT_SUBS) -> Seq(Int)]
  BY DEF AgentsInv, AgentsTypes
<1> QED BY <1>1, <1>3, <1>4, <1>10, <1>13, <1>14, <1>15, SpecialistSteps

(* Another child's message is never a specialist's proof.                  *)
LEMMA StrayKeeps ==
  ASSUME AgentsInv, NEW k \in {"r", "p"}, StrayMessage(k)
  PROVE  AgentsInv'
<1>1. PICK m \in OrchMail : m = [from |-> Stranger, k |-> k]
  <2>1. 0 \in 0 .. AGENT_SUBS
    BY SubsNumbers
  <2> QED BY <2>1 DEF OrchMail, Stranger
<1>2. m.from \notin Subs
  BY <1>1, SubsNumbers DEF Stranger
<1>3. PICK q \in Seq(OrchMail) : q = agMail.orch
  BY DEF AgentsInv, AgentsTypes
<1>4. PICK q2 \in Seq(OrchMail) : agMail' = [agMail EXCEPT !.orch = q2] /\ q2 = Append(q, m)
  BY <1>1, <1>3, ClaimsOfMore DEF StrayMessage
<1>5. Claims(q2) = Claims(q)
  BY <1>2, <1>4, ClaimsOfMore
<1>6. agMail' \in [orch : Seq(OrchMail), sub : [Subs -> Seq(Int)]] /\ agMail'.sub = agMail.sub
      /\ agMail'.orch = q2
  BY <1>4 DEF AgentsInv, AgentsTypes
<1>7. UNCHANGED <<agentd, specialist, agCaps, regions>>
  BY DEF StrayMessage
<1>8. \A s : Proven(s)' = Proven(s)
  BY <1>7 DEF Proven
<1>9. ProofsHold'
  <2>1. TrueClaims'
    BY <1>3, <1>5, <1>6, <1>8 DEF AgentsInv, ProofsHold, TrueClaims
  <2> QED BY <2>1, <1>7, <1>8 DEF AgentsInv, ProofsHold
<1>10. \A s \in Subs : Kept(s)'
  BY <1>6, <1>7 DEF AgentsInv, Kept
<1> QED BY <1>6, <1>7, <1>9, <1>10 DEF AgentsInv, AgentsTypes, SpawnedOnce, WritesAreOwn, authorize

LEMMA AgentsInitInv == AgentsInit => AgentsInv
<1> SUFFICES ASSUME AgentsInit PROVE AgentsInv
  OBVIOUS
<1>1. 1 \in Subs /\ Cardinality({}) = 0
  BY SubsNumbers, FS_EmptySet DEF Subs
<1>2. AgentsTypes
  BY <1>1 DEF AgentsInit, AgentsTypes, Orchestrators, OrchSteps, Specialists, SubSteps, Idler
<1>3. SpawnedOnce /\ WritesAreOwn
  BY DEF AgentsInit, SpawnedOnce, WritesAreOwn, authorize, Idler
<1>4. ProofsHold
  BY <1>1 DEF AgentsInit, ProofsHold, TrueClaims, Claims
<1>5. \A r \in AGENT_REGION .. Workspace(AGENT_SUBS) : regions[r] = << >>
  BY DEF AgentsInit
<1>6. \A s \in Subs : Kept(s)
  BY <1>5, SubsNumbers DEF AgentsInit, Kept, Idler
<1>7. regions[AGENT_REGION] = << >>
  BY <1>5, SubsNumbers DEF AGENT_REGION, Workspace
<1> QED BY <1>2, <1>3, <1>4, <1>6, <1>7 DEF AgentsInv

LEMMA AgentsStepInv == AgentsInv /\ [AgentsNext]_agentsVars => AgentsInv'
<1> SUFFICES ASSUME AgentsInv, [AgentsNext]_agentsVars PROVE AgentsInv'
  OBVIOUS
<1>1. CASE UNCHANGED agentsVars
  BY <1>1 DEF agentsVars, AgentsInv, AgentsTypes, SpawnedOnce, WritesAreOwn, authorize, ProofsHold,
    TrueClaims, Proven, Kept
<1>2. CASE do_qpu \/ do_field \/ do_spawn \/ Assemble \/ CollectReady
  BY <1>2, TriesKeep, FieldKeeps, AssembleKeeps, ReadyKeeps
<1>3. CASE Delegate \/ CollectProof \/ Verify \/ HandOff \/ GivesUp
  BY <1>3, DelegateKeeps, ProofKeeps, VerdictKeeps
<1>4. ASSUME NEW s \in Subs, SubReady(s) \/ SubGo(s) \/ SubRecall(s) \/ SubPublishes(s) \/ SubAcks(s)
      PROVE  AgentsInv'
  BY <1>4, ReadySent, GoTaken, RecallKeeps, PublishKeeps, AckKeeps
<1>5. ASSUME NEW s \in Subs,
             \/ SubProbes(s, "shared", AGENT_REGION, "publish")
             \/ SubProbes(s, "sibling", Sibling(specialist[s].ws), "ack")
      PROVE  AgentsInv'
  BY <1>5, ProbeKeeps
<1>6. ASSUME NEW k \in {"r", "p"}, StrayMessage(k) PROVE AgentsInv'
  BY <1>6, StrayKeeps
<1> QED BY <1>1, <1>2, <1>3, <1>4, <1>5, <1>6 DEF AgentsNext

(* However many specialists there are, whenever the orchestrator gives up  *)
(* and whatever other children send: success means that every specialist   *)
(* recalled, published and was refused elsewhere, and no region ever holds *)
(* what an uninvited writer imprinted (do_delegate, agentsub.c).           *)
THEOREM SocietyIsSound == AgentsSpec => []AgentsSound
<1>1. AgentsInv => AgentsSound
  <2> SUFFICES ASSUME AgentsInv PROVE AgentsSound
    OBVIOUS
  <2>1. DemoMeansAll
    BY DEF AgentsInv, ProofsHold, Proven, Kept, DemoMeansAll
  <2>2. WorkspacesOwn
    BY DEF AgentsInv, Kept, WorkspacesOwn
  <2> QED BY <2>1, <2>2 DEF AgentsSound
<1> QED BY <1>1, AgentsInitInv, AgentsStepInv, PTL DEF AgentsSpec

-----------------------------------------------------------------------------
(* Ports and channels.  A line's queue is read off the slot whose port or  *)
(* channel it belongs to, so what makes the property inductive is that ids *)
(* are drawn once: the line of the next id is still empty.                 *)
Ways == {"a_to_b", "b_to_a"}
Letters == [sender_id : PortPids, receiver_id : PortPids, message_id : Nat]
APort == [open : BOOLEAN, port_id : Nat, owner_id : PortPids, name : PortNames \cup {NoName},
          queue : Seq(Letters)]
AChannel == [is_active : BOOLEAN, channel_id : Nat, endpoint_a : PortPids, endpoint_b : PortPids,
             queue : [a_to_b : Seq(Letters), b_to_a : Seq(Letters)]]

PortsTypeOK ==
  /\ ports \in [PortSlots -> APort] /\ channels \in [ChannelSlots -> AChannel]
  /\ queue_initialized \in SUBSET PortPids
  /\ next_port_id \in Nat \ {0} /\ next_channel_id \in Nat \ {0} /\ message_ids \in Nat
  /\ accepted \in [Lines -> Seq(Letters)] /\ delivered \in [Lines -> Seq(Letters)]

Balanced(l, q) == accepted[l] = delivered[l] \o q
Addressed(q, to) == \A k \in DOMAIN q : q[k].receiver_id = to
Fresh(l) == accepted[l] = << >> /\ delivered[l] = << >>

PortOK(i) ==
  /\ ports[i].port_id \in 1 .. MaxPortIds /\ ports[i].port_id < next_port_id
  /\ Balanced(<<"port", ports[i].port_id>>, ports[i].queue)
  /\ Addressed(ports[i].queue, ports[i].owner_id)
PortsOK == \A i \in PortSlots : ports[i].open => PortOK(i)
PortsDistinct ==
  \A i, j \in PortSlots : ports[i].open /\ ports[j].open /\ i # j =>
    ports[i].port_id # ports[j].port_id
PortsToCome == \A n \in 1 .. MaxPortIds : n >= next_port_id => Fresh(<<"port", n>>)

EndOf(c, way) == IF way = "a_to_b" THEN c.endpoint_b ELSE c.endpoint_a
ChannelOK(i) ==
  /\ channels[i].channel_id \in 1 .. MaxChannelIds /\ channels[i].channel_id < next_channel_id
  /\ \A way \in Ways :
       /\ Balanced(<<way, channels[i].channel_id>>, channels[i].queue[way])
       /\ Addressed(channels[i].queue[way], EndOf(channels[i], way))
ChannelsOK == \A i \in ChannelSlots : channels[i].is_active => ChannelOK(i)
ChannelsDistinct ==
  \A i, j \in ChannelSlots :
    channels[i].is_active /\ channels[j].is_active /\ i # j =>
      channels[i].channel_id # channels[j].channel_id
ChannelsToCome ==
  \A n \in 1 .. MaxChannelIds, way \in Ways : n >= next_channel_id => Fresh(<<way, n>>)

(* What has been received is where what was accepted begins.               *)
Begins(d, a) == Len(d) <= Len(a) /\ d = SubSeq(a, 1, Len(d))
AllBegin == \A l \in Lines : Begins(delivered[l], accepted[l])

PortsInv ==
  /\ PortsTypeOK /\ AllBegin /\ misdelivered = {}
  /\ PortsOK /\ PortsDistinct /\ PortsToCome
  /\ ChannelsOK /\ ChannelsDistinct /\ ChannelsToCome

LEMMA FirstIsIn ==
  ASSUME NEW S \in SUBSET Nat, S # {}
  PROVE  FirstAmong(S) \in S
BY LeastExists DEF FirstAmong

(* The three things that happen to a line.                                 *)
LEMMA ConcatBegins ==
  ASSUME NEW D, NEW d \in Seq(D), NEW q \in Seq(D), NEW a \in Seq(D), a = d \o q
  PROVE  Begins(d, a)
BY DEF Begins

LEMMA SendKeeps ==
  ASSUME NEW d \in Seq(Letters), NEW q \in Seq(Letters), NEW x \in Letters
  PROVE  Append(d \o q, x) = d \o Append(q, x)
OBVIOUS

LEMMA ReceiveKeeps ==
  ASSUME NEW D, NEW d \in Seq(D), NEW q \in Seq(D), q # << >>
  PROVE  /\ Head(q) \in D /\ Tail(q) \in Seq(D)
         /\ Append(d, Head(q)) \o Tail(q) = d \o q
OBVIOUS

LEMMA SendBalances ==
  \A d, q \in Seq(Letters), x \in Letters, a \in Seq(Letters) :
    a = d \o q => Append(a, x) = d \o Append(q, x)
<1> SUFFICES ASSUME NEW d \in Seq(Letters), NEW q \in Seq(Letters), NEW x \in Letters,
                    NEW a \in Seq(Letters), a = d \o q
             PROVE  Append(a, x) = d \o Append(q, x)
  OBVIOUS
<1>1. Append(d \o q, x) = d \o Append(q, x)
  BY SendKeeps, Zenon
<1>2. Append(a, x) = Append(d \o q, x)
  BY Zenon
<1> QED BY <1>1, <1>2, Zenon

LEMMA ReceiveBalances ==
  \A d, q, a \in Seq(Letters) :
    a = d \o q /\ q # << >> =>
      /\ Head(q) \in Letters /\ Tail(q) \in Seq(Letters)
      /\ a = Append(d, Head(q)) \o Tail(q)
BY ReceiveKeeps

LEMMA AddressedKeeps ==
  ASSUME NEW q \in Seq(Letters), NEW to, Addressed(q, to)
  PROVE  /\ \A x \in Letters : x.receiver_id = to => Addressed(Append(q, x), to)
         /\ q # << >> => Addressed(Tail(q), to) /\ Head(q).receiver_id = to
BY DEF Addressed

LEMMA PortsInitial == PortsInit => PortsInv
<1> SUFFICES ASSUME PortsInit PROVE PortsInv
  OBVIOUS
<1>1. /\ ports \in [PortSlots -> APort] /\ \A i \in PortSlots : ~ports[i].open
  BY PortsAssumption DEF PortsInit, ClosedPort, APort
<1>2. /\ channels \in [ChannelSlots -> AChannel] /\ \A i \in ChannelSlots : ~channels[i].is_active
  BY PortsAssumption DEF PortsInit, IdleChannel, AChannel
<1>3. /\ accepted \in [Lines -> Seq(Letters)] /\ delivered \in [Lines -> Seq(Letters)]
      /\ \A l \in Lines : accepted[l] = << >> /\ delivered[l] = << >>
  BY DEF PortsInit
<1>4. /\ \A n \in 1 .. MaxPortIds : <<"port", n>> \in Lines
      /\ \A n \in 1 .. MaxChannelIds, way \in Ways : <<way, n>> \in Lines
  BY DEF Lines, Ways
<1>5. AllBegin
  BY <1>3 DEF AllBegin, Begins
<1>6. PortsOK /\ PortsDistinct /\ ChannelsOK /\ ChannelsDistinct
  BY <1>1, <1>2 DEF PortsOK, PortsDistinct, ChannelsOK, ChannelsDistinct
<1>7. PortsToCome /\ ChannelsToCome
  BY <1>3, <1>4 DEF PortsToCome, ChannelsToCome, Fresh
<1>8. PortsTypeOK /\ misdelivered = {}
  BY <1>1, <1>2, <1>3, PortsAssumption DEF PortsInit, PortsTypeOK
<1> QED BY <1>5, <1>6, <1>7, <1>8 DEF PortsInv

-----------------------------------------------------------------------------
(* A step that leaves one side alone keeps what is said of that side.      *)
SameLines(S) == \A l \in S : accepted'[l] = accepted[l] /\ delivered'[l] = delivered[l]
PortLines == {"port"} \X (1 .. MaxPortIds)
ChannelLines == Ways \X (1 .. MaxChannelIds)
PortSide == PortsOK /\ PortsDistinct /\ PortsToCome
ChannelSide == ChannelsOK /\ ChannelsDistinct /\ ChannelsToCome

LEMMA PortSideKept ==
  ASSUME PortSide, ports' = ports, next_port_id' = next_port_id, SameLines(PortLines)
  PROVE  PortSide'
<1>1. \A n \in 1 .. MaxPortIds : /\ accepted'[<<"port", n>>] = accepted[<<"port", n>>]
                                 /\ delivered'[<<"port", n>>] = delivered[<<"port", n>>]
  BY DEF SameLines, PortLines
<1>2. ASSUME NEW i \in PortSlots, ports[i].open PROVE PortOK(i)'
  <2>1. PortOK(i)
    BY <1>2 DEF PortSide, PortsOK
  <2> QED BY <1>1, <2>1 DEF PortOK, Balanced, Addressed
<1>3. PortsOK'
  BY <1>2 DEF PortsOK
<1>4. PortsToCome'
  BY <1>1 DEF PortSide, PortsToCome, Fresh
<1> QED BY <1>3, <1>4 DEF PortSide, PortsDistinct

LEMMA ChannelSideKept ==
  ASSUME ChannelSide, channels' = channels, next_channel_id' = next_channel_id,
         SameLines(ChannelLines)
  PROVE  ChannelSide'
<1>1. \A n \in 1 .. MaxChannelIds, way \in Ways :
        /\ accepted'[<<way, n>>] = accepted[<<way, n>>]
        /\ delivered'[<<way, n>>] = delivered[<<way, n>>]
  BY DEF SameLines, ChannelLines
<1>2. ASSUME NEW i \in ChannelSlots, channels[i].is_active PROVE ChannelOK(i)'
  <2>1. ChannelOK(i)
    BY <1>2 DEF ChannelSide, ChannelsOK
  <2> QED BY <1>1, <2>1 DEF ChannelOK, Balanced, Addressed, EndOf
<1>3. ChannelsOK'
  BY <1>2 DEF ChannelsOK
<1>4. ChannelsToCome'
  BY <1>1 DEF ChannelSide, ChannelsToCome, Fresh
<1> QED BY <1>3, <1>4 DEF ChannelSide, ChannelsDistinct

LEMMA LinesApart ==
  /\ PortLines \subseteq Lines /\ ChannelLines \subseteq Lines
  /\ PortLines \cap ChannelLines = {}
BY DEF PortLines, ChannelLines, Lines, Ways

LEMMA InvParts == PortsInv <=> /\ PortsTypeOK /\ AllBegin /\ misdelivered = {}
                               /\ PortSide /\ ChannelSide
BY DEF PortsInv, PortSide, ChannelSide

(* Neither a line nor a slot changes.                                      *)
LEMMA NoLineMoves ==
  ASSUME PortsInv, UNCHANGED <<ports, channels, next_port_id, next_channel_id, histories>>,
         queue_initialized' \in SUBSET PortPids, message_ids' \in Nat
  PROVE  PortsInv'
<1>1. SameLines(PortLines) /\ SameLines(ChannelLines)
  BY DEF SameLines, histories
<1>2. PortSide' /\ ChannelSide'
  BY <1>1, PortSideKept, ChannelSideKept, InvParts
<1>3. PortsTypeOK' /\ AllBegin' /\ (misdelivered = {})'
  BY DEF PortsInv, PortsTypeOK, AllBegin, histories
<1> QED BY <1>2, <1>3 DEF PortsInv, PortSide, ChannelSide

(* Some ports are closed.                                                  *)
LEMMA PortsShrink ==
  ASSUME PortsInv, ports' \in [PortSlots -> APort],
         \A i \in PortSlots : ports'[i] = ports[i] \/ ~ports'[i].open,
         UNCHANGED <<channels, next_port_id, next_channel_id, message_ids, histories>>,
         queue_initialized' \in SUBSET PortPids
  PROVE  PortsInv'
<1>1. SameLines(ChannelLines) /\ UNCHANGED <<accepted, delivered, misdelivered>>
  BY DEF SameLines, histories
<1>2. ChannelSide'
  BY <1>1, ChannelSideKept, InvParts
<1>3. ASSUME NEW i \in PortSlots, ports'[i].open PROVE PortOK(i)'
  <2>1. ports'[i] = ports[i] /\ PortOK(i)
    BY <1>3 DEF PortsInv, PortsOK
  <2> QED BY <1>1, <2>1 DEF PortOK, Balanced, Addressed
<1>4. PortsDistinct'
  <2> SUFFICES ASSUME NEW i \in PortSlots, NEW j \in PortSlots, ports'[i].open, ports'[j].open, i # j
               PROVE  ports'[i].port_id # ports'[j].port_id
    BY DEF PortsDistinct
  <2> QED BY DEF PortsInv, PortsDistinct
<1>5. PortsToCome'
  BY <1>1 DEF PortsInv, PortsToCome, Fresh
<1>6. PortsTypeOK' /\ AllBegin' /\ (misdelivered = {})'
  BY <1>1 DEF PortsInv, PortsTypeOK, AllBegin
<1> QED BY <1>2, <1>3, <1>4, <1>5, <1>6 DEF PortsInv, PortsOK, ChannelSide

LEMMA DestroyedIsClosed ==
  ASSUME NEW p \in APort
  PROVE  Destroyed(p) \in APort /\ ~Destroyed(p).open
<1>1. << >> \in Seq(Letters)
  OBVIOUS
<1>2. [p EXCEPT !.open = FALSE, !.port_id = 0] \in APort
  BY DEF APort
<1> DEFINE shut == [p EXCEPT !.open = FALSE, !.port_id = 0]
<1>3. Destroyed(p) = [shut EXCEPT !.name = NoName, !.queue = << >>] /\ ~shut.open
  BY DEF APort, Destroyed
<1> HIDE DEF shut
<1>4. shut \in APort
  BY <1>2 DEF shut
<1>5. [shut EXCEPT !.name = NoName, !.queue = << >>] \in APort
  BY <1>1, <1>4 DEF APort
<1>6. ~[shut EXCEPT !.name = NoName, !.queue = << >>].open
  BY <1>3, <1>4 DEF APort
<1> QED BY <1>3, <1>5, <1>6

LEMMA PortDestroyInv ==
  ASSUME PortsInv, NEW me \in PortPids, NEW id, ipc_port_destroy(me, id)
  PROVE  PortsInv'
<1>1. FirstAmong(PortOf(id)) \in PortSlots
  BY FirstIsIn, PortsAssumption DEF ipc_port_destroy, PortOf
<1>2. PICK i \in PortSlots : ports' = [ports EXCEPT ![i] = Destroyed(ports[i])]
  BY <1>1 DEF ipc_port_destroy
<1>3. ports \in [PortSlots -> APort]
  BY DEF PortsInv, PortsTypeOK
<1>4. /\ ports' \in [PortSlots -> APort]
      /\ \A j \in PortSlots : ports'[j] = ports[j] \/ ~ports'[j].open
  BY <1>2, <1>3, DestroyedIsClosed
<1>5. /\ UNCHANGED <<channels, next_port_id, next_channel_id, message_ids, histories>>
      /\ queue_initialized' \in SUBSET PortPids
  BY DEF ipc_port_destroy, PortsInv, PortsTypeOK, histories
<1> QED BY <1>4, <1>5, PortsShrink

LEMMA CleanupInv ==
  ASSUME PortsInv, NEW me, NEW pid, ipc_process_cleanup(me, pid)
  PROVE  PortsInv'
<1>1. ports \in [PortSlots -> APort]
  BY DEF PortsInv, PortsTypeOK
<1>2. ports' = [i \in PortSlots |-> IF ports[i].open /\ ports[i].owner_id = pid /\ MayDestroy(me, ports[i])
                                      THEN Destroyed(ports[i]) ELSE ports[i]]
  BY DEF ipc_process_cleanup
<1>3. /\ ports' \in [PortSlots -> APort]
      /\ \A j \in PortSlots : ports'[j] = ports[j] \/ ~ports'[j].open
  BY <1>1, <1>2, DestroyedIsClosed
<1>4. /\ UNCHANGED <<channels, next_port_id, next_channel_id, message_ids, histories>>
      /\ queue_initialized' \in SUBSET PortPids
  BY DEF ipc_process_cleanup, PortsInv, PortsTypeOK, histories
<1> QED BY <1>3, <1>4, PortsShrink

(* A new port, in a closed slot, under an id whose line is still empty.    *)
LEMMA PortCreateInv ==
  ASSUME PortsInv, NEW me \in PortPids, NEW name \in PortNames, ipc_port_create(me, name)
  PROVE  PortsInv'
<1>1. PICK i \in PortSlots : i = FirstAmong(FreePorts) /\ ~ports[i].open
  <2>1. FreePorts \in SUBSET Nat /\ FreePorts # {}
    BY PortsAssumption DEF ipc_port_create, FreePorts
  <2> QED BY <2>1, FirstIsIn DEF FreePorts
<1> DEFINE new == [open |-> TRUE, port_id |-> next_port_id, owner_id |-> me, name |-> str_copy[name],
                   queue |-> << >>]
<1>2. /\ ports' = [ports EXCEPT ![i] = new] /\ next_port_id' = next_port_id + 1
      /\ UNCHANGED <<channels, queue_initialized, next_channel_id, message_ids,
                     accepted, delivered, misdelivered>>
      /\ next_port_id <= MaxPortIds
  BY <1>1 DEF ipc_port_create, histories
<1>3. /\ ports \in [PortSlots -> APort] /\ next_port_id \in Nat
      /\ accepted \in [Lines -> Seq(Letters)] /\ delivered \in [Lines -> Seq(Letters)]
  BY DEF PortsInv, PortsTypeOK
<1>4. new \in APort
  <2>1. << >> \in Seq(Letters)
    OBVIOUS
  <2>2. str_copy[name] \in PortNames
    BY PortsAssumption
  <2> QED BY <1>3, <2>1, <2>2 DEF APort
<1> HIDE DEF new
<1>5. ports' \in [PortSlots -> APort] /\ ports'[i] = new
      /\ \A j \in PortSlots : j # i => ports'[j] = ports[j]
  BY <1>2, <1>3, <1>4
<1>6. ChannelSide'
  <2>1. SameLines(ChannelLines)
    BY <1>2 DEF SameLines
  <2> QED BY <1>2, <2>1, ChannelSideKept, InvParts
<1>7. ASSUME NEW j \in PortSlots, ports'[j].open PROVE PortOK(j)'
  <2>1. CASE j = i
    <3>1. next_port_id \in 1 .. MaxPortIds
      <4>1. next_port_id >= 1
        BY DEF PortsInv, PortsTypeOK
      <4> QED BY <4>1, <1>2, <1>3, PortsAssumption
    <3>2. Fresh(<<"port", next_port_id>>)
      BY <1>3, <3>1 DEF PortsInv, PortsToCome
    <3>3. << >> = << >> \o << >> /\ Addressed(<< >>, me)
      BY DEF Addressed
    <3>4. /\ ports'[j].port_id = next_port_id /\ ports'[j].queue = << >>
          /\ ports'[j].owner_id = me /\ next_port_id < next_port_id'
      BY <1>2, <1>3, <1>5, <2>1 DEF new
    <3>5. LET l == <<"port", next_port_id>> IN accepted'[l] = delivered'[l] \o << >>
      BY <1>2, <3>2, <3>3 DEF Fresh
    <3>6. Balanced(<<"port", ports[j].port_id>>, ports[j].queue)'
      BY <3>4, <3>5 DEF Balanced
    <3>7. Addressed(ports[j].queue, ports[j].owner_id)'
      BY <3>4 DEF Addressed
    <3> QED BY <3>1, <3>4, <3>6, <3>7 DEF PortOK
  <2>2. CASE j # i
    <3>1. ports'[j] = ports[j] /\ PortOK(j)
      BY <1>5, <1>7, <2>2 DEF PortsInv, PortsOK
    <3>2. ports[j].port_id < next_port_id + 1
      BY <1>3, <3>1, PortsAssumption DEF PortOK
    <3> QED BY <1>2, <3>1, <3>2 DEF PortOK, Balanced, Addressed
  <2> QED BY <2>1, <2>2
<1>8. PortsDistinct'
  <2>1. ASSUME NEW j \in PortSlots, ports[j].open
        PROVE  ports[j].port_id # next_port_id
    <3>1. PortOK(j)
      BY <2>1 DEF PortsInv, PortsOK
    <3> QED BY <1>2, <1>3, <2>1, <3>1 DEF PortOK
  <2> SUFFICES ASSUME NEW j \in PortSlots, NEW k \in PortSlots, ports'[j].open, ports'[k].open, j # k
               PROVE  ports'[j].port_id # ports'[k].port_id
    BY DEF PortsDistinct
  <2>2. CASE j # i /\ k # i
    BY <1>5, <2>2 DEF PortsInv, PortsDistinct
  <2>3. CASE j = i /\ k # i
    BY <1>5, <2>1, <2>3 DEF new
  <2>4. CASE j # i /\ k = i
    BY <1>5, <2>1, <2>4 DEF new
  <2> QED BY <2>2, <2>3, <2>4
<1>9. PortsToCome'
  BY <1>2, <1>3 DEF PortsInv, PortsToCome, Fresh
<1>10. PortsTypeOK' /\ AllBegin' /\ (misdelivered = {})'
  BY <1>2, <1>3, <1>5 DEF PortsInv, PortsTypeOK, AllBegin
<1> QED BY <1>6, <1>7, <1>8, <1>9, <1>10 DEF PortsInv, PortsOK, ChannelSide

LEMMA LetterTyped ==
  ASSUME PortsInv, NEW from \in PortPids, NEW to \in PortPids
  PROVE  Letter(from, to) \in Letters /\ Letter(from, to).receiver_id = to
BY DEF PortsInv, PortsTypeOK, Letter, Letters

(* A message goes into the queue of one open port and out of it.           *)
LEMMA OnePortMoves ==
  ASSUME PortsInv, NEW i \in PortSlots, ports[i].open, NEW q \in Seq(Letters),
         ports' = [ports EXCEPT ![i].queue = q],
         NEW a \in Seq(Letters), NEW d \in Seq(Letters), a = d \o q,
         Addressed(q, ports[i].owner_id),
         accepted' = [accepted EXCEPT ![<<"port", ports[i].port_id>>] = a],
         delivered' = [delivered EXCEPT ![<<"port", ports[i].port_id>>] = d],
         UNCHANGED <<channels, queue_initialized, next_port_id, next_channel_id, misdelivered>>,
         message_ids' \in Nat
  PROVE  PortsInv'
<1> DEFINE l == <<"port", ports[i].port_id>>
<1>1. /\ ports \in [PortSlots -> APort] /\ next_port_id \in Nat
      /\ accepted \in [Lines -> Seq(Letters)] /\ delivered \in [Lines -> Seq(Letters)]
  BY DEF PortsInv, PortsTypeOK
<1>2. PortOK(i)
  BY DEF PortsInv, PortsOK
<1>3. l \in PortLines /\ l \in Lines
  BY <1>2, LinesApart DEF PortOK, PortLines
<1>4. /\ accepted'[l] = a /\ delivered'[l] = d
      /\ \A m \in Lines : m # l => accepted'[m] = accepted[m] /\ delivered'[m] = delivered[m]
      /\ accepted' \in [Lines -> Seq(Letters)] /\ delivered' \in [Lines -> Seq(Letters)]
  BY <1>1, <1>3
<1>5. /\ ports' \in [PortSlots -> APort]
      /\ \A j \in PortSlots : j # i => ports'[j] = ports[j]
      /\ ports'[i].queue = q /\ ports'[i].open /\ ports'[i].port_id = ports[i].port_id
      /\ ports'[i].owner_id = ports[i].owner_id
  BY <1>1 DEF APort
<1>6. ChannelSide'
  <2>1. SameLines(ChannelLines)
    BY <1>3, <1>4, LinesApart DEF SameLines
  <2> QED BY <2>1, ChannelSideKept, InvParts
<1>7. ASSUME NEW j \in PortSlots, ports'[j].open PROVE PortOK(j)'
  <2>1. CASE j = i
    BY <1>2, <1>4, <1>5, <2>1 DEF PortOK, Balanced, Addressed
  <2>2. CASE j # i
    <3>1. ports'[j] = ports[j] /\ PortOK(j) /\ ports[j].port_id # ports[i].port_id
      BY <1>5, <1>7, <2>2 DEF PortsInv, PortsOK, PortsDistinct
    <3>2. <<"port", ports[j].port_id>> \in Lines /\ <<"port", ports[j].port_id>> # l
      BY <3>1, LinesApart DEF PortOK, PortLines
    <3> QED BY <1>4, <3>1, <3>2 DEF PortOK, Balanced, Addressed
  <2> QED BY <2>1, <2>2
<1>8. PortsDistinct'
  <2> SUFFICES ASSUME NEW j \in PortSlots, NEW k \in PortSlots, ports'[j].open, ports'[k].open, j # k
               PROVE  ports'[j].port_id # ports'[k].port_id
    BY DEF PortsDistinct
  <2>1. \A n \in PortSlots : /\ ports'[n].open = ports[n].open \/ n = i
                             /\ ports'[n].port_id = ports[n].port_id
    BY <1>5
  <2>2. ports[j].open /\ ports[k].open
    BY <2>1
  <2> QED BY <2>1, <2>2 DEF PortsInv, PortsDistinct
<1>9. PortsToCome'
  <2> SUFFICES ASSUME NEW n \in 1 .. MaxPortIds, n >= next_port_id
               PROVE  Fresh(<<"port", n>>)'
    BY DEF PortsToCome
  <2>1. Fresh(<<"port", n>>)
    BY DEF PortsInv, PortsToCome
  <2>2. <<"port", n>> \in Lines /\ <<"port", n>> # l
    BY <1>1, <1>2, LinesApart DEF PortOK, PortLines
  <2> QED BY <1>4, <2>1, <2>2 DEF Fresh
<1>10. AllBegin'
  <2>1. Begins(d, a)
    BY ConcatBegins
  <2> QED BY <1>4, <2>1 DEF PortsInv, AllBegin
<1>11. PortsTypeOK' /\ (misdelivered = {})'
  BY <1>4, <1>5 DEF PortsInv, PortsTypeOK
<1> QED BY <1>6, <1>7, <1>8, <1>9, <1>10, <1>11 DEF PortsInv, PortsOK, ChannelSide

LEMMA PortFound ==
  ASSUME PortsInv, NEW id, PortOf(id) # {}
  PROVE  /\ FirstAmong(PortOf(id)) \in PortSlots /\ ports[FirstAmong(PortOf(id))].open
         /\ ports[FirstAmong(PortOf(id))].port_id = id
BY FirstIsIn, PortsAssumption DEF PortOf

LEMMA QueueRefusesInv ==
  ASSUME PortsInv, QueueRefuses
  PROVE  PortsInv'
<1>1. /\ UNCHANGED <<ports, channels, next_port_id, next_channel_id, histories>>
      /\ queue_initialized' \in SUBSET PortPids /\ message_ids' \in Nat
  BY DEF QueueRefuses, PortsInv, PortsTypeOK
<1> QED BY <1>1, NoLineMoves

LEMMA PortSendInv ==
  ASSUME PortsInv, NEW me \in PortPids, NEW id, ipc_port_send(me, id)
  PROVE  PortsInv'
<1>1. PICK i : i = FirstAmong(PortOf(id))
  OBVIOUS
<1>2. PortOf(id) # {}
  BY DEF ipc_port_send
<1>3. i \in PortSlots /\ ports[i].open /\ ports[i].port_id = id
  BY <1>1, <1>2, PortFound
<1>4. PICK x : x = Letter(me, ports[i].owner_id)
  OBVIOUS
<1>5. \/ QueueRefuses
      \/ /\ accepted' = [accepted EXCEPT ![<<"port", id>>] = Append(accepted[<<"port", id>>], x)]
         /\ ports' = [ports EXCEPT ![i].queue = Append(ports[i].queue, x)]
         /\ message_ids' = message_ids + 1
         /\ UNCHANGED <<channels, queue_initialized, next_port_id, next_channel_id,
                        delivered, misdelivered>>
  BY <1>1, <1>4 DEF ipc_port_send, Accept
<1>6. CASE QueueRefuses
  BY <1>6, QueueRefusesInv
<1>7. CASE /\ accepted' = [accepted EXCEPT ![<<"port", id>>] = Append(accepted[<<"port", id>>], x)]
           /\ ports' = [ports EXCEPT ![i].queue = Append(ports[i].queue, x)]
           /\ message_ids' = message_ids + 1
           /\ UNCHANGED <<channels, queue_initialized, next_port_id, next_channel_id,
                          delivered, misdelivered>>
  <2>1. /\ ports[i] \in APort /\ message_ids \in Nat
        /\ accepted \in [Lines -> Seq(Letters)] /\ delivered \in [Lines -> Seq(Letters)]
    BY <1>3 DEF PortsInv, PortsTypeOK
  <2>2. ports[i].queue \in Seq(Letters) /\ ports[i].owner_id \in PortPids
    BY <2>1 DEF APort
  <2>3. x \in Letters /\ x.receiver_id = ports[i].owner_id
    BY <1>4, <2>2, LetterTyped
  <2>4. PortOK(i)
    BY <1>3 DEF PortsInv, PortsOK
  <2>5. <<"port", id>> \in Lines
    BY <1>3, <2>4, LinesApart DEF PortOK, PortLines
  <2>6. accepted[<<"port", id>>] = delivered[<<"port", id>>] \o ports[i].queue
    BY <1>3, <2>4 DEF PortOK, Balanced
  <2> DEFINE d == delivered[<<"port", id>>]
             a == Append(accepted[<<"port", id>>], x)
             q == Append(ports[i].queue, x)
  <2>7. d \in Seq(Letters) /\ a \in Seq(Letters) /\ q \in Seq(Letters)
    BY <2>1, <2>2, <2>3, <2>5
  <2>8. a = d \o q
    <3>1. accepted[<<"port", id>>] \in Seq(Letters)
      BY <2>1, <2>5
    <3>2. PICK s \in Seq(Letters) : s = ports[i].queue
      BY <2>2
    <3>3. PICK t \in Seq(Letters) : t = delivered[<<"port", id>>]
      BY <2>7
    <3>4. PICK u \in Seq(Letters) : u = accepted[<<"port", id>>]
      BY <3>1
    <3>5. u = t \o s
      BY <2>6, <3>2, <3>3, <3>4, Zenon
    <3>6. Append(u, x) = t \o Append(s, x)
      BY <2>3, <3>2, <3>3, <3>4, <3>5, SendBalances, Zenon
    <3> QED BY <3>2, <3>3, <3>4, <3>6, Zenon
  <2>9. Addressed(q, ports[i].owner_id)
    BY <2>2, <2>3, <2>4, AddressedKeeps DEF PortOK
  <2>10. delivered' = [delivered EXCEPT ![<<"port", id>>] = d]
    BY <1>7, <2>1
  <2>11. accepted' = [accepted EXCEPT ![<<"port", id>>] = a]
    BY <1>7
  <2>12. ports' = [ports EXCEPT ![i].queue = q] /\ message_ids' \in Nat
    BY <1>7, <2>1
  <2> HIDE DEF d, a, q
  <2> QED BY <1>3, <1>7, <2>7, <2>8, <2>9, <2>10, <2>11, <2>12, OnePortMoves
<1> QED BY <1>5, <1>6, <1>7

LEMMA PortReceiveInv ==
  ASSUME PortsInv, NEW me \in PortPids, NEW id, ipc_port_receive(me, id)
  PROVE  PortsInv'
<1>1. PICK i : i = FirstAmong(PortOf(id))
  OBVIOUS
<1>2. PortOf(id) # {}
  BY DEF ipc_port_receive
<1>3. i \in PortSlots /\ ports[i].open /\ ports[i].port_id = id
  BY <1>1, <1>2, PortFound
<1> DEFINE x == Head(ports[i].queue)
           d == Append(delivered[<<"port", id>>], x)
           a == accepted[<<"port", id>>]
           q == Tail(ports[i].queue)
<1>4. /\ ports[i].owner_id = me /\ ports[i].queue # << >>
      /\ delivered' = [delivered EXCEPT ![<<"port", id>>] = d]
      /\ misdelivered' = IF x.receiver_id = me THEN misdelivered ELSE misdelivered \cup {x}
      /\ ports' = [ports EXCEPT ![i].queue = q]
      /\ UNCHANGED <<channels, queue_initialized, next_port_id, next_channel_id, message_ids, accepted>>
  BY <1>1 DEF ipc_port_receive, MayReceive, Deliver
<1>5. /\ ports[i] \in APort /\ message_ids \in Nat
      /\ accepted \in [Lines -> Seq(Letters)] /\ delivered \in [Lines -> Seq(Letters)]
  BY <1>3 DEF PortsInv, PortsTypeOK
<1>6. ports[i].queue \in Seq(Letters)
  BY <1>5 DEF APort
<1>7. PortOK(i)
  BY <1>3 DEF PortsInv, PortsOK
<1>8. <<"port", id>> \in Lines
  BY <1>3, <1>7, LinesApart DEF PortOK, PortLines
<1>9. a = delivered[<<"port", id>>] \o ports[i].queue
  BY <1>3, <1>7 DEF PortOK, Balanced
<1>10. /\ Addressed(q, ports[i].owner_id) /\ x.receiver_id = ports[i].owner_id
  BY <1>4, <1>6, <1>7, AddressedKeeps DEF PortOK
<1>11. /\ x \in Letters /\ q \in Seq(Letters) /\ delivered[<<"port", id>>] \in Seq(Letters)
       /\ a \in Seq(Letters)
  BY <1>4, <1>5, <1>6, <1>8, ReceiveKeeps
<1>12. d \in Seq(Letters) /\ a = d \o q
  <2>1. a = d \o q
    BY <1>4, <1>6, <1>9, <1>11, ReceiveBalances
  <2> QED BY <1>11, <2>1
<1>13. accepted' = [accepted EXCEPT ![<<"port", id>>] = a]
  BY <1>4, <1>5
<1>14. misdelivered' = misdelivered /\ message_ids' \in Nat
  BY <1>4, <1>5, <1>10
<1> HIDE DEF x, d, a, q
<1> QED BY <1>3, <1>4, <1>10, <1>11, <1>12, <1>13, <1>14, OnePortMoves
-----------------------------------------------------------------------------
(* Channels, in the same way.                                              *)
LEMMA ChannelQueues ==
  ASSUME NEW c \in AChannel, NEW way \in Ways
  PROVE  /\ c.queue[way] \in Seq(Letters) /\ c.queue \in [Ways -> Seq(Letters)]
         /\ \A q \in Seq(Letters) : [c EXCEPT !.queue[way] = q] \in AChannel
<1>1. c.queue \in [a_to_b : Seq(Letters), b_to_a : Seq(Letters)]
  BY DEF AChannel
<1>2. c.queue \in [Ways -> Seq(Letters)]
  BY <1>1 DEF Ways
<1>3. \A q \in Seq(Letters) : [c.queue EXCEPT ![way] = q] \in [a_to_b : Seq(Letters), b_to_a : Seq(Letters)]
  <2> TAKE q \in Seq(Letters)
  <2>1. CASE way = "a_to_b"
    BY <1>1, <2>1
  <2>2. CASE way = "b_to_a"
    BY <1>1, <2>2
  <2> QED BY <2>1, <2>2 DEF Ways
<1> QED BY <1>2, <1>3 DEF AChannel

LEMMA ChannelFound ==
  ASSUME PortsInv, NEW id, ChannelOf(id) # {}
  PROVE  /\ FirstAmong(ChannelOf(id)) \in ChannelSlots /\ channels[FirstAmong(ChannelOf(id))].is_active
         /\ channels[FirstAmong(ChannelOf(id))].channel_id = id
BY FirstIsIn, PortsAssumption DEF ChannelOf

(* A message goes into one queue of an active channel and out of it.       *)
LEMMA OneChannelMoves ==
  ASSUME PortsInv, NEW i \in ChannelSlots, channels[i].is_active, NEW way \in Ways,
         NEW q \in Seq(Letters), channels' = [channels EXCEPT ![i].queue[way] = q],
         NEW a \in Seq(Letters), NEW d \in Seq(Letters), a = d \o q,
         Addressed(q, EndOf(channels[i], way)),
         accepted' = [accepted EXCEPT ![<<way, channels[i].channel_id>>] = a],
         delivered' = [delivered EXCEPT ![<<way, channels[i].channel_id>>] = d],
         UNCHANGED <<ports, queue_initialized, next_port_id, next_channel_id, misdelivered>>,
         message_ids' \in Nat
  PROVE  PortsInv'
<1> DEFINE l == <<way, channels[i].channel_id>>
<1>1. /\ channels \in [ChannelSlots -> AChannel] /\ next_channel_id \in Nat
      /\ accepted \in [Lines -> Seq(Letters)] /\ delivered \in [Lines -> Seq(Letters)]
  BY DEF PortsInv, PortsTypeOK
<1>2. ChannelOK(i)
  BY DEF PortsInv, ChannelsOK
<1>3. l \in ChannelLines /\ l \in Lines
  BY <1>2, LinesApart DEF ChannelOK, ChannelLines
<1>4. /\ accepted'[l] = a /\ delivered'[l] = d
      /\ \A m \in Lines : m # l => accepted'[m] = accepted[m] /\ delivered'[m] = delivered[m]
      /\ accepted' \in [Lines -> Seq(Letters)] /\ delivered' \in [Lines -> Seq(Letters)]
  BY <1>1, <1>3
<1>5. PICK c \in AChannel : c = channels[i]
  BY <1>1
<1> DEFINE new == [c EXCEPT !.queue[way] = q]
<1>6. channels' = [channels EXCEPT ![i] = new]
  BY <1>5
<1>7. new \in AChannel
  BY ChannelQueues
<1>8. /\ new.queue[way] = q /\ \A w \in Ways : w # way => new.queue[w] = c.queue[w]
      /\ new.is_active = c.is_active /\ new.channel_id = c.channel_id
      /\ new.endpoint_a = c.endpoint_a /\ new.endpoint_b = c.endpoint_b
  <2>1. c.queue \in [Ways -> Seq(Letters)]
    BY ChannelQueues
  <2>2. new.queue = [c.queue EXCEPT ![way] = q]
    BY DEF AChannel
  <2>3. /\ new.is_active = c.is_active /\ new.channel_id = c.channel_id
        /\ new.endpoint_a = c.endpoint_a /\ new.endpoint_b = c.endpoint_b
    BY DEF AChannel
  <2> HIDE DEF new
  <2> QED BY <2>1, <2>2, <2>3
<1> HIDE DEF new
<1>9. /\ channels' \in [ChannelSlots -> AChannel] /\ channels'[i] = new
      /\ \A j \in ChannelSlots : j # i => channels'[j] = channels[j]
  BY <1>1, <1>6, <1>7
<1>10. PortSide'
  <2>1. SameLines(PortLines)
    BY <1>3, <1>4, LinesApart DEF SameLines
  <2> QED BY <2>1, PortSideKept, InvParts
<1>11. ASSUME NEW j \in ChannelSlots, channels'[j].is_active PROVE ChannelOK(j)'
  <2>1. CASE j = i
    <3>1. /\ channels'[j].channel_id = channels[i].channel_id
          /\ \A w \in Ways : EndOf(channels'[j], w) = EndOf(channels[i], w)
      BY <1>5, <1>8, <1>9, <2>1 DEF EndOf
    <3>2. ASSUME NEW w \in Ways
          PROVE  /\ Balanced(<<w, channels[j].channel_id>>, channels[j].queue[w])'
                 /\ Addressed(channels[j].queue[w], EndOf(channels[j], w))'
      <4>1. CASE w = way
        <5>1. channels'[j].queue[w] = q
          BY <1>8, <1>9, <2>1, <4>1
        <5>2. Balanced(<<w, channels[j].channel_id>>, channels[j].queue[w])'
          BY <1>4, <3>1, <4>1, <5>1 DEF Balanced
        <5>3. Addressed(channels[j].queue[w], EndOf(channels[j], w))'
          BY <3>1, <4>1, <5>1 DEF Addressed
        <5> QED BY <5>2, <5>3
      <4>2. CASE w # way
        <5>1. channels'[j].queue[w] = channels[i].queue[w]
          BY <1>5, <1>8, <1>9, <2>1, <4>2
        <5>2. <<w, channels[i].channel_id>> \in Lines /\ <<w, channels[i].channel_id>> # l
          BY <1>2, <4>2, LinesApart DEF ChannelOK, ChannelLines
        <5>3. Balanced(<<w, channels[i].channel_id>>, channels[i].queue[w])
              /\ Addressed(channels[i].queue[w], EndOf(channels[i], w))
          BY <1>2 DEF ChannelOK
        <5>4. Balanced(<<w, channels[j].channel_id>>, channels[j].queue[w])'
          BY <1>4, <3>1, <5>1, <5>2, <5>3 DEF Balanced
        <5>5. Addressed(channels[j].queue[w], EndOf(channels[j], w))'
          BY <3>1, <5>1, <5>3 DEF Addressed
        <5> QED BY <5>4, <5>5
      <4> QED BY <4>1, <4>2
    <3> QED BY <1>2, <3>1, <3>2 DEF ChannelOK
  <2>2. CASE j # i
    <3>1. channels'[j] = channels[j] /\ ChannelOK(j) /\ channels[j].channel_id # channels[i].channel_id
      BY <1>9, <1>11, <2>2 DEF PortsInv, ChannelsOK, ChannelsDistinct
    <3>2. ASSUME NEW w \in Ways
          PROVE  /\ Balanced(<<w, channels[j].channel_id>>, channels[j].queue[w])'
                 /\ Addressed(channels[j].queue[w], EndOf(channels[j], w))'
      <4>1. <<w, channels[j].channel_id>> \in Lines /\ <<w, channels[j].channel_id>> # l
        BY <3>1, LinesApart DEF ChannelOK, ChannelLines
      <4>2. Balanced(<<w, channels[j].channel_id>>, channels[j].queue[w])
            /\ Addressed(channels[j].queue[w], EndOf(channels[j], w))
        BY <3>1 DEF ChannelOK
      <4>3. Balanced(<<w, channels[j].channel_id>>, channels[j].queue[w])'
        BY <1>4, <3>1, <4>1, <4>2 DEF Balanced
      <4>4. Addressed(channels[j].queue[w], EndOf(channels[j], w))'
        BY <3>1, <4>2 DEF Addressed, EndOf
      <4> QED BY <4>3, <4>4
    <3> QED BY <3>1, <3>2 DEF ChannelOK
  <2> QED BY <2>1, <2>2
<1>12. ChannelsDistinct'
  <2> SUFFICES ASSUME NEW j \in ChannelSlots, NEW k \in ChannelSlots,
                      channels'[j].is_active, channels'[k].is_active, j # k
               PROVE  channels'[j].channel_id # channels'[k].channel_id
    BY DEF ChannelsDistinct
  <2>1. \A n \in ChannelSlots : /\ channels'[n].is_active = channels[n].is_active \/ n = i
                                /\ channels'[n].channel_id = channels[n].channel_id
    BY <1>5, <1>8, <1>9
  <2>2. channels[j].is_active /\ channels[k].is_active
    BY <2>1
  <2> QED BY <2>1, <2>2 DEF PortsInv, ChannelsDistinct
<1>13. ChannelsToCome'
  <2> SUFFICES ASSUME NEW n \in 1 .. MaxChannelIds, NEW w \in Ways, n >= next_channel_id
               PROVE  Fresh(<<w, n>>)'
    BY DEF ChannelsToCome
  <2>1. Fresh(<<w, n>>)
    BY DEF PortsInv, ChannelsToCome
  <2>2. <<w, n>> \in Lines /\ <<w, n>> # l
    BY <1>1, <1>2, LinesApart DEF ChannelOK, ChannelLines
  <2> QED BY <1>4, <2>1, <2>2 DEF Fresh
<1>14. AllBegin'
  <2>1. Begins(d, a)
    BY ConcatBegins
  <2> QED BY <1>4, <2>1 DEF PortsInv, AllBegin
<1>15. PortsTypeOK' /\ (misdelivered = {})'
  BY <1>4, <1>9 DEF PortsInv, PortsTypeOK
<1> QED BY <1>10, <1>11, <1>12, <1>13, <1>14, <1>15 DEF PortsInv, ChannelsOK, PortSide

LEMMA ChannelDestroyInv ==
  ASSUME PortsInv, NEW id, ipc_channel_destroy(id)
  PROVE  PortsInv'
<1>1. PICK i \in ChannelSlots : i = FirstAmong(ChannelOf(id))
  BY ChannelFound DEF ipc_channel_destroy
<1>2. /\ channels \in [ChannelSlots -> AChannel]
  BY DEF PortsInv, PortsTypeOK
<1>3. PICK c \in AChannel : c = channels[i]
  BY <1>2
<1> DEFINE new == [c EXCEPT !.is_active = FALSE, !.channel_id = 0, !.queue = IdleChannel.queue]
<1>4. /\ channels' = [channels EXCEPT ![i] = new]
      /\ UNCHANGED <<ports, queue_initialized, next_port_id, next_channel_id, message_ids,
                     accepted, delivered, misdelivered>>
  BY <1>1, <1>3 DEF ipc_channel_destroy, histories
<1>5. new \in AChannel /\ ~new.is_active
  <2> DEFINE shut == [c EXCEPT !.is_active = FALSE, !.channel_id = 0]
  <2>1. shut \in AChannel /\ ~shut.is_active
    BY DEF AChannel
  <2>2. PICK w : w = IdleChannel.queue
    OBVIOUS
  <2>3. w \in [a_to_b : Seq(Letters), b_to_a : Seq(Letters)]
    BY <2>2 DEF IdleChannel
  <2>4. new = [shut EXCEPT !.queue = w]
    BY <2>2 DEF AChannel
  <2> HIDE DEF new, shut
  <2> QED BY <2>1, <2>3, <2>4 DEF AChannel
<1> HIDE DEF new
<1>6. /\ channels' \in [ChannelSlots -> AChannel]
      /\ \A j \in ChannelSlots : channels'[j] = channels[j] \/ ~channels'[j].is_active
  BY <1>2, <1>4, <1>5
<1>7. PortSide'
  <2>1. SameLines(PortLines)
    BY <1>4 DEF SameLines
  <2> QED BY <1>4, <2>1, PortSideKept, InvParts
<1>8. ASSUME NEW j \in ChannelSlots, channels'[j].is_active PROVE ChannelOK(j)'
  <2>1. channels'[j] = channels[j] /\ ChannelOK(j)
    BY <1>6, <1>8 DEF PortsInv, ChannelsOK
  <2> QED BY <1>4, <2>1 DEF ChannelOK, Balanced, Addressed, EndOf
<1>9. ChannelsDistinct'
  <2> SUFFICES ASSUME NEW j \in ChannelSlots, NEW k \in ChannelSlots,
                      channels'[j].is_active, channels'[k].is_active, j # k
               PROVE  channels'[j].channel_id # channels'[k].channel_id
    BY DEF ChannelsDistinct
  <2> QED BY <1>6 DEF PortsInv, ChannelsDistinct
<1>10. ChannelsToCome'
  BY <1>4 DEF PortsInv, ChannelsToCome, Fresh
<1>11. PortsTypeOK' /\ AllBegin' /\ (misdelivered = {})'
  BY <1>4, <1>6 DEF PortsInv, PortsTypeOK, AllBegin
<1> QED BY <1>7, <1>8, <1>9, <1>10, <1>11 DEF PortsInv, ChannelsOK, PortSide

LEMMA ChannelCreateInv ==
  ASSUME PortsInv, NEW a \in PortPids, NEW b \in PortPids, ipc_channel_create(a, b)
  PROVE  PortsInv'
<1>1. PICK i \in ChannelSlots : i = FirstAmong(FreeChannels) /\ ~channels[i].is_active
  <2>1. FreeChannels \in SUBSET Nat /\ FreeChannels # {}
    BY PortsAssumption DEF ipc_channel_create, FreeChannels
  <2> QED BY <2>1, FirstIsIn DEF FreeChannels
<1> DEFINE new == [IdleChannel EXCEPT !.is_active = TRUE, !.channel_id = next_channel_id,
                                      !.endpoint_a = a, !.endpoint_b = b]
<1>2. /\ channels' = [channels EXCEPT ![i] = new] /\ next_channel_id' = next_channel_id + 1
      /\ UNCHANGED <<ports, queue_initialized, next_port_id, message_ids,
                     accepted, delivered, misdelivered>>
      /\ next_channel_id <= MaxChannelIds
  BY <1>1 DEF ipc_channel_create, histories
<1>3. /\ channels \in [ChannelSlots -> AChannel] /\ next_channel_id \in Nat
      /\ accepted \in [Lines -> Seq(Letters)] /\ delivered \in [Lines -> Seq(Letters)]
  BY DEF PortsInv, PortsTypeOK
<1>4. /\ new \in AChannel /\ new.channel_id = next_channel_id
      /\ \A way \in Ways : new.queue[way] = << >>
  <2>1. PICK c \in AChannel : c = IdleChannel /\ \A way \in Ways : c.queue[way] = << >>
    <3>1. IdleChannel \in AChannel
      BY PortsAssumption DEF IdleChannel, AChannel
    <3>2. \A way \in Ways : IdleChannel.queue[way] = << >>
      BY DEF IdleChannel, Ways
    <3> QED BY <3>1, <3>2
  <2> DEFINE one == [c EXCEPT !.is_active = TRUE, !.channel_id = next_channel_id]
  <2>2. one \in AChannel /\ one.channel_id = next_channel_id /\ one.queue = c.queue
    BY <1>3 DEF AChannel
  <2>3. new = [one EXCEPT !.endpoint_a = a, !.endpoint_b = b]
    BY <2>1 DEF AChannel
  <2> HIDE DEF new, one
  <2>4. new \in AChannel /\ new.channel_id = one.channel_id /\ new.queue = one.queue
    BY <2>2, <2>3 DEF AChannel
  <2> QED BY <2>1, <2>2, <2>4
<1> HIDE DEF new
<1>5. channels' \in [ChannelSlots -> AChannel] /\ channels'[i] = new
      /\ \A j \in ChannelSlots : j # i => channels'[j] = channels[j]
  BY <1>2, <1>3, <1>4
<1>6. PortSide'
  <2>1. SameLines(PortLines)
    BY <1>2 DEF SameLines
  <2> QED BY <1>2, <2>1, PortSideKept, InvParts
<1>7. ASSUME NEW j \in ChannelSlots, channels'[j].is_active PROVE ChannelOK(j)'
  <2>1. CASE j = i
    <3>1. next_channel_id \in 1 .. MaxChannelIds
      <4>1. next_channel_id >= 1
        BY DEF PortsInv, PortsTypeOK
      <4> QED BY <4>1, <1>2, <1>3, PortsAssumption
    <3>2. /\ channels'[j].channel_id = next_channel_id /\ next_channel_id < next_channel_id'
          /\ \A way \in Ways : channels'[j].queue[way] = << >>
      BY <1>2, <1>3, <1>4, <1>5, <2>1
    <3>3. ASSUME NEW way \in Ways
          PROVE  /\ Balanced(<<way, channels[j].channel_id>>, channels[j].queue[way])'
                 /\ Addressed(channels[j].queue[way], EndOf(channels[j], way))'
      <4>1. Fresh(<<way, next_channel_id>>)
        BY <1>3, <3>1 DEF PortsInv, ChannelsToCome
      <4>2. << >> = << >> \o << >> /\ \A to : Addressed(<< >>, to)
        BY DEF Addressed
      <4>3. LET l == <<way, next_channel_id>> IN accepted'[l] = delivered'[l] \o << >>
        BY <1>2, <4>1, <4>2 DEF Fresh
      <4>4. Balanced(<<way, channels[j].channel_id>>, channels[j].queue[way])'
        BY <3>2, <4>3 DEF Balanced
      <4>5. Addressed(channels[j].queue[way], EndOf(channels[j], way))'
        BY <3>2, <4>2 DEF Addressed
      <4> QED BY <4>4, <4>5
    <3> QED BY <3>1, <3>2, <3>3 DEF ChannelOK
  <2>2. CASE j # i
    <3>1. channels'[j] = channels[j] /\ ChannelOK(j)
      BY <1>5, <1>7, <2>2 DEF PortsInv, ChannelsOK
    <3>2. channels[j].channel_id < next_channel_id + 1
      BY <1>3, <3>1, PortsAssumption DEF ChannelOK
    <3> QED BY <1>2, <3>1, <3>2 DEF ChannelOK, Balanced, Addressed, EndOf
  <2> QED BY <2>1, <2>2
<1>8. ChannelsDistinct'
  <2>1. ASSUME NEW j \in ChannelSlots, channels[j].is_active
        PROVE  channels[j].channel_id # next_channel_id
    <3>1. ChannelOK(j)
      BY <2>1 DEF PortsInv, ChannelsOK
    <3> QED BY <1>3, <3>1, PortsAssumption DEF ChannelOK
  <2> SUFFICES ASSUME NEW j \in ChannelSlots, NEW k \in ChannelSlots,
                      channels'[j].is_active, channels'[k].is_active, j # k
               PROVE  channels'[j].channel_id # channels'[k].channel_id
    BY DEF ChannelsDistinct
  <2>2. CASE j # i /\ k # i
    BY <1>5, <2>2 DEF PortsInv, ChannelsDistinct
  <2>3. CASE j = i /\ k # i
    BY <1>4, <1>5, <2>1, <2>3
  <2>4. CASE j # i /\ k = i
    BY <1>4, <1>5, <2>1, <2>4
  <2> QED BY <2>2, <2>3, <2>4
<1>9. ChannelsToCome'
  BY <1>2, <1>3 DEF PortsInv, ChannelsToCome, Fresh
<1>10. PortsTypeOK' /\ AllBegin' /\ (misdelivered = {})'
  BY <1>2, <1>3, <1>5 DEF PortsInv, PortsTypeOK, AllBegin
<1> QED BY <1>6, <1>7, <1>8, <1>9, <1>10 DEF PortsInv, ChannelsOK, PortSide

(* What a process sends is for the far end of the way it goes, and what it *)
(* receives comes by the way that ends with it.                            *)
LEMMA WaysLead ==
  ASSUME NEW c, NEW me, Connects(me, c)
  PROVE  /\ Outgoing(me, c) \in Ways /\ EndOf(c, Outgoing(me, c)) = OtherEnd(me, c)
         /\ Incoming(me, c) \in Ways /\ EndOf(c, Incoming(me, c)) = me
BY DEF Connects, Outgoing, Incoming, Ways, EndOf, OtherEnd

LEMMA ChannelSendInv ==
  ASSUME PortsInv, NEW me \in PortPids, NEW id, ipc_channel_send(me, id)
  PROVE  PortsInv'
<1>1. PICK i : i = FirstAmong(ChannelOf(id))
  OBVIOUS
<1>2. ChannelOf(id) # {} /\ Connects(me, channels[i])
  BY <1>1 DEF ipc_channel_send
<1>3. i \in ChannelSlots /\ channels[i].is_active /\ channels[i].channel_id = id
  BY <1>1, <1>2, ChannelFound
<1>4. PICK x : x = Letter(me, OtherEnd(me, channels[i]))
  OBVIOUS
<1>5. PICK way \in Ways : /\ way = Outgoing(me, channels[i])
                          /\ EndOf(channels[i], way) = OtherEnd(me, channels[i])
  BY <1>2, WaysLead
<1>6. \/ QueueRefuses
      \/ /\ accepted' = [accepted EXCEPT ![<<way, id>>] = Append(accepted[<<way, id>>], x)]
         /\ channels' = [channels EXCEPT ![i].queue[way] = Append(channels[i].queue[way], x)]
         /\ message_ids' = message_ids + 1
         /\ UNCHANGED <<ports, queue_initialized, next_port_id, next_channel_id,
                        delivered, misdelivered>>
  BY <1>1, <1>4, <1>5 DEF ipc_channel_send, Accept
<1>7. CASE QueueRefuses
  BY <1>7, QueueRefusesInv
<1>8. CASE /\ accepted' = [accepted EXCEPT ![<<way, id>>] = Append(accepted[<<way, id>>], x)]
           /\ channels' = [channels EXCEPT ![i].queue[way] = Append(channels[i].queue[way], x)]
           /\ message_ids' = message_ids + 1
           /\ UNCHANGED <<ports, queue_initialized, next_port_id, next_channel_id,
                          delivered, misdelivered>>
  <2>1. /\ channels[i] \in AChannel /\ message_ids \in Nat
        /\ accepted \in [Lines -> Seq(Letters)] /\ delivered \in [Lines -> Seq(Letters)]
    BY <1>3 DEF PortsInv, PortsTypeOK
  <2>2. channels[i].queue[way] \in Seq(Letters)
    BY <2>1, ChannelQueues
  <2>3. x \in Letters /\ x.receiver_id = EndOf(channels[i], way)
    <3>1. OtherEnd(me, channels[i]) \in PortPids
      BY <2>1 DEF AChannel, OtherEnd
    <3> QED BY <1>4, <1>5, <3>1, LetterTyped
  <2>4. ChannelOK(i)
    BY <1>3 DEF PortsInv, ChannelsOK
  <2>5. <<way, id>> \in Lines
    BY <1>3, <2>4, LinesApart DEF ChannelOK, ChannelLines
  <2>6. accepted[<<way, id>>] = delivered[<<way, id>>] \o channels[i].queue[way]
    BY <1>3, <2>4 DEF ChannelOK, Balanced
  <2> DEFINE d == delivered[<<way, id>>]
             a == Append(accepted[<<way, id>>], x)
             q == Append(channels[i].queue[way], x)
  <2>7. d \in Seq(Letters) /\ a \in Seq(Letters) /\ q \in Seq(Letters)
    BY <2>1, <2>2, <2>3, <2>5
  <2>8. a = d \o q
    <3>1. accepted[<<way, id>>] \in Seq(Letters)
      BY <2>1, <2>5
    <3>2. PICK s \in Seq(Letters) : s = channels[i].queue[way]
      BY <2>2
    <3>3. PICK t \in Seq(Letters) : t = delivered[<<way, id>>]
      BY <2>7
    <3>4. PICK u \in Seq(Letters) : u = accepted[<<way, id>>]
      BY <3>1
    <3>5. u = t \o s
      BY <2>6, <3>2, <3>3, <3>4, Zenon
    <3>6. Append(u, x) = t \o Append(s, x)
      BY <2>3, <3>2, <3>3, <3>4, <3>5, SendBalances, Zenon
    <3> QED BY <3>2, <3>3, <3>4, <3>6, Zenon
  <2>9. Addressed(q, EndOf(channels[i], way))
    BY <2>2, <2>3, <2>4, AddressedKeeps DEF ChannelOK
  <2>10. delivered' = [delivered EXCEPT ![<<way, id>>] = d]
    BY <1>8, <2>1
  <2>11. accepted' = [accepted EXCEPT ![<<way, id>>] = a]
    BY <1>8
  <2>12. channels' = [channels EXCEPT ![i].queue[way] = q] /\ message_ids' \in Nat
    BY <1>8, <2>1
  <2> HIDE DEF d, a, q
  <2> QED BY <1>3, <1>8, <2>7, <2>8, <2>9, <2>10, <2>11, <2>12, OneChannelMoves
<1> QED BY <1>6, <1>7, <1>8

LEMMA ChannelReceiveInv ==
  ASSUME PortsInv, NEW me \in PortPids, NEW id, ipc_channel_receive(me, id)
  PROVE  PortsInv'
<1>1. PICK i : i = FirstAmong(ChannelOf(id))
  OBVIOUS
<1>2. ChannelOf(id) # {} /\ Connects(me, channels[i])
  BY <1>1 DEF ipc_channel_receive
<1>3. i \in ChannelSlots /\ channels[i].is_active /\ channels[i].channel_id = id
  BY <1>1, <1>2, ChannelFound
<1>4. PICK way \in Ways : way = Incoming(me, channels[i]) /\ EndOf(channels[i], way) = me
  BY <1>2, WaysLead
<1> DEFINE x == Head(channels[i].queue[way])
           d == Append(delivered[<<way, id>>], x)
           a == accepted[<<way, id>>]
           q == Tail(channels[i].queue[way])
<1>5. /\ channels[i].queue[way] # << >>
      /\ delivered' = [delivered EXCEPT ![<<way, id>>] = d]
      /\ misdelivered' = IF x.receiver_id = me THEN misdelivered ELSE misdelivered \cup {x}
      /\ channels' = [channels EXCEPT ![i].queue[way] = q]
      /\ UNCHANGED <<ports, queue_initialized, next_port_id, next_channel_id, message_ids, accepted>>
  BY <1>1, <1>4 DEF ipc_channel_receive, Deliver
<1>6. /\ channels[i] \in AChannel /\ message_ids \in Nat
      /\ accepted \in [Lines -> Seq(Letters)] /\ delivered \in [Lines -> Seq(Letters)]
  BY <1>3 DEF PortsInv, PortsTypeOK
<1>7. channels[i].queue[way] \in Seq(Letters)
  BY <1>6, ChannelQueues
<1>8. ChannelOK(i)
  BY <1>3 DEF PortsInv, ChannelsOK
<1>9. <<way, id>> \in Lines
  BY <1>3, <1>8, LinesApart DEF ChannelOK, ChannelLines
<1>10. a = delivered[<<way, id>>] \o channels[i].queue[way]
  BY <1>3, <1>8 DEF ChannelOK, Balanced
<1>11. /\ Addressed(q, EndOf(channels[i], way)) /\ x.receiver_id = me
  BY <1>4, <1>5, <1>7, <1>8, AddressedKeeps DEF ChannelOK
<1>12. /\ x \in Letters /\ q \in Seq(Letters) /\ delivered[<<way, id>>] \in Seq(Letters)
       /\ a \in Seq(Letters)
  BY <1>5, <1>6, <1>7, <1>9, ReceiveKeeps
<1>13. d \in Seq(Letters) /\ a = d \o q
  <2>1. a = d \o q
    BY <1>5, <1>7, <1>10, <1>12, ReceiveBalances
  <2> QED BY <1>12, <2>1
<1>14. accepted' = [accepted EXCEPT ![<<way, id>>] = a]
  BY <1>5, <1>6
<1>15. misdelivered' = misdelivered /\ message_ids' \in Nat
  BY <1>5, <1>6, <1>11
<1> HIDE DEF x, d, a, q
<1> QED BY <1>3, <1>5, <1>11, <1>12, <1>13, <1>14, <1>15, OneChannelMoves

-----------------------------------------------------------------------------
LEMMA PortsStep ==
  ASSUME PortsInv, PortsNext
  PROVE  PortsInv'
<1>1. queue_initialized \in SUBSET PortPids
  BY DEF PortsInv, PortsTypeOK
<1>2. ASSUME NEW pid \in PortPids, ipc_process_init(pid) PROVE PortsInv'
  <2>1. /\ UNCHANGED <<ports, channels, next_port_id, next_channel_id, histories>>
        /\ queue_initialized' \in SUBSET PortPids /\ message_ids' \in Nat
    BY <1>1, <1>2 DEF ipc_process_init, PortsInv, PortsTypeOK
  <2> QED BY <2>1, NoLineMoves
<1>3. ASSUME NEW me \in queue_initialized, NEW pid \in PortPids, ipc_process_cleanup(me, pid)
      PROVE  PortsInv'
  BY <1>3, CleanupInv
<1>4. ASSUME NEW me \in queue_initialized, NEW name \in PortNames, ipc_port_create(me, name)
      PROVE  PortsInv'
  BY <1>1, <1>4, PortCreateInv
<1>5. ASSUME NEW me \in queue_initialized, NEW id \in 1 .. MaxPortIds,
             ipc_port_destroy(me, id) \/ ipc_port_send(me, id) \/ ipc_port_receive(me, id)
      PROVE  PortsInv'
  BY <1>1, <1>5, PortDestroyInv, PortSendInv, PortReceiveInv
<1>6. ASSUME NEW me \in queue_initialized, NEW id \in 1 .. MaxChannelIds,
             ipc_channel_send(me, id) \/ ipc_channel_receive(me, id)
      PROVE  PortsInv'
  BY <1>1, <1>6, ChannelSendInv, ChannelReceiveInv
<1>7. ASSUME NEW a \in PortPids, NEW b \in PortPids, ipc_channel_create(a, b) PROVE PortsInv'
  BY <1>7, ChannelCreateInv
<1>8. ASSUME NEW id \in 1 .. MaxChannelIds, ipc_channel_destroy(id) PROVE PortsInv'
  BY <1>8, ChannelDestroyInv
<1> QED BY <1>2, <1>3, <1>4, <1>5, <1>6, <1>7, <1>8 DEF PortsNext

LEMMA PortsStutter == PortsInv /\ UNCHANGED portsVars => PortsInv'
<1> SUFFICES ASSUME PortsInv, UNCHANGED portsVars PROVE PortsInv'
  OBVIOUS
<1>1. /\ UNCHANGED <<ports, channels, next_port_id, next_channel_id, histories>>
      /\ queue_initialized' \in SUBSET PortPids /\ message_ids' \in Nat
  BY DEF portsVars, histories, PortsInv, PortsTypeOK
<1> QED BY <1>1, NoLineMoves

(* The inductive invariant is what the lines promise.                      *)
LEMMA PortsInvSuffices == PortsInv => LinesKeepOrder
<1> SUFFICES ASSUME PortsInv PROVE LinesKeepOrder
  OBVIOUS
<1>1. QueuesHoldTheRest
  BY DEF PortsInv, PortsOK, PortOK, ChannelsOK, ChannelOK, Balanced, Ways, QueuesHoldTheRest
<1>2. OneOfEach
  BY DEF PortsInv, PortsDistinct, ChannelsDistinct, OneOfEach
<1> QED BY <1>1, <1>2 DEF PortsInv, AllBegin, Begins, LinesKeepOrder

(* Every port and every direction of a channel delivers what it accepted,  *)
(* in that order, once, to the process it was sent to, whatever is created *)
(* and destroyed in between.                                               *)
THEOREM PortsKeepOrder == PortsSpec => []LinesKeepOrder
<1>1. PortsInit => PortsInv
  BY PortsInitial
<1>2. PortsInv /\ [PortsNext]_portsVars => PortsInv'
  BY PortsStep, PortsStutter
<1>3. PortsInv => LinesKeepOrder
  BY PortsInvSuffices
<1> QED BY <1>1, <1>2, <1>3, PTL DEF PortsSpec
=============================================================================

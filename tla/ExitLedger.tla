----------------------------- MODULE ExitLedger -----------------------------
(***************************************************************************)
(* SYS_EXIT, SYS_WAITPID and the exit ledger (kernel/src/syscall.c): a     *)
(* ring of the last exits, kept because the reaper clears a dead process   *)
(* long before its parent polls for the exit code.  Pids are recycled      *)
(* first-fit, so a poll may ask about a process, about its predecessor or  *)
(* about nobody.  Only SYS_EXIT writes the ledger: a process that is       *)
(* killed (contained fault, CPU budget, service_stop) leaves no entry.     *)
(*                                                                         *)
(* Each step is a system call, an interrupt or a bracket with interrupts   *)
(* off.  SYS_WAITPID changes nothing; what it answers is an operator.      *)
(***************************************************************************)
EXTENDS Integers, FiniteSets

CONSTANTS LedgerPids,    \* process slots
          LedgerSize,    \* EXIT_LEDGER_SIZE (16)
          Codes,   \* the exit codes processes pass
          MaxReuse   \* bound on the incarnations of a pid

ASSUME LedgerPidsAssumption == LedgerPids \subseteq Nat
ASSUME SizeAssumption == LedgerSize \in Nat \ {0}
ASSUME CodesAssumption == Codes \subseteq Nat
ASSUME MaxReuseAssumption == MaxReuse \in Nat

VARIABLES pstate, generation,   \* the process table
          ledger, next,        \* exit_ledger[], exit_ledger_next
          fate                 \* history, for each pid: how the last process
                               \*   that ended there ended, which one it was,
                               \*   and how many have exited since

ledgerVars == <<pstate, generation, ledger, next, fate>>

Ring == 0 .. (LedgerSize - 1)
NoExit == [valid |-> FALSE, pid |-> 0, generation |-> 0, code |-> 0]
Fates == [how : {"none", "exited", "killed"}, generation : Nat, code : Nat, since : 0 .. LedgerSize]
NoFate == [how |-> "none", generation |-> 0, code |-> 0, since |-> LedgerSize]

LedgerInit ==
  /\ pstate = [p \in LedgerPids |-> "UNUSED"]
  /\ generation = [p \in LedgerPids |-> 0]
  /\ ledger = [i \in Ring |-> NoExit]
  /\ next = 0
  /\ fate = [p \in LedgerPids |-> NoFate]
-----------------------------------------------------------------------------
FreePids == {p \in LedgerPids : pstate[p] = "UNUSED"}

(* process_create() takes the first free slot.                             *)
process_create(p) ==
  /\ p \in FreePids
  /\ \A q \in FreePids : p <= q
  /\ generation[p] < MaxReuse
  /\ pstate' = [pstate EXCEPT ![p] = "LIVE"]
  /\ generation' = [generation EXCEPT ![p] = @ + 1]
  /\ UNCHANGED <<ledger, next, fate>>

(* (exit_ledger_next + 1) % EXIT_LEDGER_SIZE, and a wrong one.            *)
WrapEarly(i) == IF i + 2 >= LedgerSize THEN 0 ELSE i + 1
Advance(i) == IF i + 1 = LedgerSize THEN 0 ELSE i + 1

(* The histories around the exit of p: one more exit for all the others.   *)
Older(n) == IF n < LedgerSize THEN n + 1 ELSE n
Exited(p, code) ==
  [q \in LedgerPids |->
     IF q = p THEN [how |-> "exited", generation |-> generation[p], code |-> code, since |-> 0]
     ELSE [fate[q] EXCEPT !.since = Older(@)]]

(* sys_exit() with exit_ledger_record().                                   *)
sys_exit(p, code) ==
  /\ pstate[p] = "LIVE"
  /\ ledger' = [ledger EXCEPT ![next] =
                  [valid |-> TRUE, pid |-> p, generation |-> generation[p], code |-> code]]
  /\ next' = Advance(next)
  /\ pstate' = [pstate EXCEPT ![p] = "TERMINATED"]
  /\ fate' = Exited(p, code)
  /\ UNCHANGED generation

Killed(p) ==
  [fate EXCEPT ![p] = [how |-> "killed", generation |-> generation[p], code |-> 0, since |-> 0]]

(* contain_user_fault(), and the CPU-quota kill of scheduler_tick().       *)
Kill(p) ==
  /\ pstate[p] = "LIVE"
  /\ pstate' = [pstate EXCEPT ![p] = "TERMINATED"]
  /\ fate' = Killed(p)
  /\ UNCHANGED <<generation, ledger, next>>

(* service_stop() of a process that still runs.                            *)
Stop(p) ==
  /\ pstate[p] = "LIVE"
  /\ pstate' = [pstate EXCEPT ![p] = "UNUSED"]
  /\ fate' = Killed(p)
  /\ UNCHANGED <<generation, ledger, next>>

(* process_destroy() of one that has ended, by the reaper or service_stop. *)
process_reap(p) ==
  /\ pstate[p] = "TERMINATED"
  /\ pstate' = [pstate EXCEPT ![p] = "UNUSED"]
  /\ UNCHANGED <<generation, ledger, next, fate>>

LedgerNext ==
  \E p \in LedgerPids :
    \/ process_create(p) \/ Kill(p) \/ Stop(p) \/ process_reap(p)
    \/ \E code \in Codes : sys_exit(p, code)

LedgerSpec == LedgerInit /\ [][LedgerNext]_ledgerVars
-----------------------------------------------------------------------------
(* sys_waitpid(target).                                                    *)
WAITPID_RUNNING == 256
ENOENT == -6

(* How many entries are newer than entry i, if the ring is full.           *)
Recency(i) == IF i < next THEN next - 1 - i ELSE next - 1 - i + LedgerSize

Counts(i, p) ==
  /\ ledger[i].valid /\ ledger[i].pid = p
  /\ p \notin FreePids => ledger[i].generation = generation[p]
Answers(p) == {i \in Ring : Counts(i, p)}
Newest(p) == CHOOSE i \in Answers(p) : \A j \in Answers(p) : Recency(i) <= Recency(j)

(* The code is returned as an unsigned byte.                               *)
ReturnedCode(code) == code % 256

sys_waitpid(p) ==
  IF Answers(p) # {} THEN ReturnedCode(ledger[Newest(p)].code)
  ELSE IF p \in FreePids THEN ENOENT ELSE WAITPID_RUNNING
-----------------------------------------------------------------------------
(* A program that runs is reported as running, whatever the processes that *)
(* had its pid before did: no stillborn spawn (#291).                      *)
NoStillbornSpawn == \A p \in LedgerPids : pstate[p] = "LIVE" => sys_waitpid(p) = WAITPID_RUNNING

(* A parent that polls in time gets the exit code of its child, reaped or  *)
(* not: while the pid has not been reused and fewer than LedgerSize others *)
(* have exited since, across any wrap-around of the ring; and an exit code *)
(* that happens to be 256 is not mistaken for a running child.             *)
Collectable(p) == pstate[p] # "LIVE" /\ fate[p].how = "exited" /\ fate[p].since < LedgerSize
ExitCodeCollected ==
  \A p \in LedgerPids : Collectable(p) => sys_waitpid(p) = fate[p].code % 256

(* A poll is right about children that run and about children that ended.  *)
ExitsSound == NoStillbornSpawn /\ ExitCodeCollected

(* syscall.c (sys_waitpid): "a stale entry from the pid's previous owner   *)
(* must not be reported as this process's exit".  A child that was killed  *)
(* has no exit code, so no poll for it answers with one.                   *)
NoBorrowedCode ==
  \A p \in LedgerPids : fate[p].how = "killed" /\ pstate[p] # "LIVE" =>
    sys_waitpid(p) \in {ENOENT, WAITPID_RUNNING}
=============================================================================

----------------------------- MODULE MCCitizens -----------------------------
(***************************************************************************)
(* One instance of the parts whose progress is checked: the QPU job        *)
(* broker, swarm_svc with fieldsyncd, and the request servers.  They share *)
(* no variable, so a behaviour explores one of them: focus names it and    *)
(* the others stay in an initial state.                                    *)
(***************************************************************************)
EXTENDS QpuBroker, Swarm, Servers

VARIABLE focus

citizensVars == <<focus, vars, swarmVars, serversVars>>

Parts == {"qpu", "swarm", "servers"}

(* A server program that is not in focus is one of the two.                *)
CitizensInit ==
  /\ focus \in Parts
  /\ Init /\ SwarmInit
  /\ ServersInit /\ (focus # "servers" => server.prog = CHOOSE p \in Programs : TRUE)

(* A step of one of them, while it is in focus.                            *)
QpuStep(A) == focus = "qpu" /\ A /\ UNCHANGED <<focus, swarmVars, serversVars>>
SwarmStep(A) == focus = "swarm" /\ A /\ UNCHANGED <<focus, vars, serversVars>>
ServersStep(A) == focus = "servers" /\ A /\ UNCHANGED <<focus, vars, swarmVars>>

CitizensNext == QpuStep(Next) \/ SwarmStep(SwarmNext) \/ ServersStep(ServersNext)

(* The fairness of QpuBroker, Swarm and Servers, each for its own steps.   *)
CitizensFairness ==
  /\ \A p \in Pids :
       /\ WF_citizensVars(QpuStep(proc[p].state = "TERMINATED" /\ Destroy(p)))
       /\ WF_citizensVars(QpuStep(\E st \in {"OK", "EXECFAIL"} : qpu_complete(p, st)))
  /\ WF_citizensVars(SwarmStep(key_reforward_step))
  /\ WF_citizensVars(SwarmStep(DrainOne))
  /\ WF_citizensVars(SwarmStep(SnapshotStep))
  /\ WF_citizensVars(SwarmStep(RestartFs))
  /\ WF_citizensVars(SwarmStep(SwarmTick))
  /\ WF_citizensVars(ServersStep(ServerStep))
  /\ WF_citizensVars(ServersStep(TimePasses))

CitizensSpec == CitizensInit /\ [][CitizensNext]_citizensVars /\ CitizensFairness
-----------------------------------------------------------------------------
MCPids == {1, 2, 3}
MCJobs == {0, 1}
Rq(f, a, q, l, v) == [fc |-> f, addr |-> a, qty |-> q, len |-> l, valid |-> v, proto |-> TRUE]
SomeRequests == {Rq(FC_READ, 1, 4, 2, TRUE), Rq(FC_READ, 7, 2, 2, TRUE), Rq(FC_WRITE, 3, 1, 2, TRUE),
                 Rq("other", 0, 0, 1, TRUE), Rq(FC_READ, 0, 1, 3, FALSE), Rq(FC_READ, 0, 0, 5, TRUE),
                 Rq("short", 0, 0, 1, TRUE), Rq("empty", 0, 0, 1, TRUE),
                 [Rq(FC_WRITE, 3, 1, 1, TRUE) EXCEPT !.proto = FALSE]}
-----------------------------------------------------------------------------
(* The node does not stay without a key it could have, and a server does   *)
(* not stay with a peer that has gone silent.                              *)
CitizensRecover == KeyArrives /\ ServesAgain
=============================================================================

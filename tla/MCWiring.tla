------------------------------ MODULE MCWiring ------------------------------
(* The declared IPC wiring of three shipped citizens (citizens.c): ghostd, *)
(* fieldsyncd, which pairs with ghostd and lets swarm-svc send it the key, *)
(* and swarm-svc, which pairs with ghostd, all three monitored; and        *)
(* agentd, which is not, and is wired to fieldsyncd by hand.               *)
EXTENDS Lifecycle

MCPerms == {"READ", "WRITE", "EXECUTE", "GRANT", "REVOKE"}
MCPids == 2 .. 5
MCServices == <<"ghostd", "fieldsyncd", "swarm_svc", "agentd">>
Service(grants, monitored) ==
  [grants |-> grants, spawn_max |-> 0, spawn_channel |-> FALSE,
   monitored |-> monitored, max_restarts |-> 1]
MCDef ==
  [s \in {"ghostd", "fieldsyncd", "swarm_svc", "agentd"} |->
     CASE s \in {"ghostd", "fieldsyncd"} -> Service(<<>>, TRUE)
       [] s = "swarm_svc" -> Service(<<[res |-> <<"DEVICE", "COM2">>, perms |-> RW]>>, TRUE)
       [] s = "agentd" -> Service(<<>>, FALSE)]
Pair(of, peer, to, from) == [of |-> of, peer |-> peer, to |-> to, from |-> from]
MCPeers == <<Pair("fieldsyncd", "ghostd", RW, RW),
             Pair("fieldsyncd", "swarm_svc", {}, {"WRITE"}),
             Pair("swarm_svc", "ghostd", RW, RW)>>
MCHandWired == << <<"agentd", "fieldsyncd">>, <<"fieldsyncd", "agentd">> >>
-----------------------------------------------------------------------------
(* None of the four has a quota to spawn, no one asks for a delegation and *)
(* the clock stands still: these are the steps that Next has left.         *)
WiringNext ==
  \/ BootStart \/ BootWire \/ Reap
  \/ \E p \in Pids : Exit(p)
  \/ \E s \in Names : Trip(s) \/ Stop(s) \/ Restart(s)

WiringSpec == Init /\ [][WiringNext]_vars /\ Fairness
=============================================================================

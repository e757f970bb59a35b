----------------------------- MODULE MCSociety -----------------------------
(* An orchestrator like agentd (citizens.c), here monitored and paired     *)
(* with a worker: it spawns sub-agents with channels and delegates a field *)
(* region.  The worker is unmonitored, has a full manifest and spawns      *)
(* a program of its own, which may take over the orchestrator's pid before *)
(* the monitor has looked at it.  A behaviour explores this society or,    *)
(* with three processes and the channels between them taken as given, the  *)
(* mailboxes of module Ipc: focus says which.                              *)
EXTENDS Lifecycle, Ipc

VARIABLE focus

Parts == {"society", "ipc"}

SocietyInit == focus \in Parts /\ Init /\ MailInit

SocietyNext ==
  \/ focus = "society" /\ Next /\ UNCHANGED <<focus, mailVars>>
  \/ focus = "ipc" /\ MailNext /\ UNCHANGED <<focus, vars>>

SocietySpec == SocietyInit /\ [][SocietyNext]_<<focus, vars, mailVars>>
-----------------------------------------------------------------------------
MCMailPids == 1 .. 3
MCChannels == {<<1, 3>>, <<2, 3>>, <<3, 1>>}

MCPerms == {"READ", "WRITE", "EXECUTE", "GRANT", "REVOKE"}
MCPids == 2 .. 4
MCServices == <<"worker", "agentd">>
Row(res, perms) == [res |-> res, perms |-> perms]
Region == <<"FIELD", 3>>
Worker ==
  [grants |-> <<Row(SPAWN, {"EXECUTE"}), Row(<<"QUANTUM", 0>>, {"READ"})>>,
   spawn_max |-> 1, spawn_channel |-> TRUE,
   monitored |-> FALSE, max_restarts |-> 1]
Agentd ==
  [grants |-> <<Row(SPAWN, {"EXECUTE"}), Row(Region, RW \cup {"GRANT"})>>,
   spawn_max |-> 2, spawn_channel |-> TRUE,
   monitored |-> TRUE, max_restarts |-> 1]
MCDef == [s \in {"worker", "agentd"} |->
            IF s = "worker" THEN Worker ELSE Agentd]
MCPeers == <<[of |-> "agentd", peer |-> "worker", to |-> RW, from |-> RW]>>
MCHandWired == <<>>
MCRequests == {Row(Region, {"READ"})}
MCExpirations == {0, 1}
=============================================================================

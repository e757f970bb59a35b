------------------------------ MODULE MCKernel ------------------------------
(***************************************************************************)
(* One instance of the kernel's tables: the capability table, the exit     *)
(* ledger, the audit ledger, and frames with the address spaces.  They     *)
(* share no variable, so a behaviour explores one of them: focus names it  *)
(* and the others stay in their initial state.                             *)
(***************************************************************************)
EXTENDS Capability, ExitLedger, Audit, Frames

VARIABLE focus

kernelVars == <<focus, vars, ledgerVars, auditVars, framesVars>>

Parts == {"capability", "exit", "audit", "frames"}

KernelInit ==
  focus \in Parts /\ Init /\ LedgerInit /\ AuditInit /\ FramesInit

KernelNext ==
  /\ UNCHANGED focus
  /\ \/ focus = "capability" /\ Next /\ UNCHANGED <<ledgerVars, auditVars, framesVars>>
     \/ focus = "exit" /\ LedgerNext /\ UNCHANGED <<vars, auditVars, framesVars>>
     \/ focus = "audit" /\ AuditNext /\ UNCHANGED <<vars, ledgerVars, framesVars>>
     \/ focus = "frames" /\ FramesNext /\ UNCHANGED <<vars, ledgerVars, auditVars>>

KernelSpec == KernelInit /\ [][KernelNext]_kernelVars
-----------------------------------------------------------------------------
MCPids == {1, 2}
MCResources == {<<"IPC", 1>>, <<"FIELD", 1>>}
MCPerms == {"GRANT", "REVOKE"}
MCPermWords == {{"GRANT", "REVOKE"}, {"GRANT"}}
MCExpirations == {0, 1}
MCPrograms == {<<0>>, <<0, 2>>}
MCStack == <<3, 1>>
=============================================================================

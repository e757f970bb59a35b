------------------------------ MODULE MCPools ------------------------------
(***************************************************************************)
(* One instance of the kernel's pools and stores: the RAM file system, the *)
(* kernel's and libq's heaps, the quantum pool and its generator, the      *)
(* resonance field, the chiral, geometric and resonant libraries, the      *)
(* fixed-point pick, and the ports and channels.  They share no variable,  *)
(* so a behaviour explores one of them: focus names it and the others stay *)
(* in an initial state.                                                    *)
(***************************************************************************)
EXTENDS Vfs, Heaps, Quantum, Field, Chiral, Resonant, Ports

VARIABLE focus

heapVars == <<kheapVars, libqVars>>
libraryVars == <<chiralVars, geometricVars, resonantVars, fixedVars>>
poolsVars == <<focus, vars, heapVars, quantumVars, fieldVars, libraryVars, portsVars>>

Parts == {"vfs", "kheap", "libq", "quantum", "field", "chiral", "geometric", "resonant", "pick",
          "ports"}

PoolsInit ==
  /\ focus \in Parts
  /\ Init /\ KheapInit /\ LibqInit /\ QuantumInit /\ FieldInit
  /\ ChiralInit /\ FixedInit /\ PortsInit
  /\ GeometricInit /\ (focus # "geometric" => geoUse = {"modes"})
  /\ ResonantInit /\ (focus # "resonant" => using = "sched")

HeapNext ==
  \/ focus = "kheap" /\ KheapNext /\ UNCHANGED libqVars
  \/ focus = "libq" /\ LibqNext /\ UNCHANGED kheapVars

LibraryNext ==
  \/ focus = "chiral" /\ ChiralNext /\ UNCHANGED <<geometricVars, resonantVars, fixedVars>>
  \/ focus = "geometric" /\ GeometricNext /\ UNCHANGED <<chiralVars, resonantVars, fixedVars>>
  \/ focus = "resonant" /\ ResonantNext /\ UNCHANGED <<chiralVars, geometricVars, fixedVars>>
  \/ focus = "pick" /\ FixedNext /\ UNCHANGED <<chiralVars, geometricVars, resonantVars>>

PoolNext ==
  \/ focus = "vfs" /\ Next /\ UNCHANGED <<heapVars, quantumVars, fieldVars, libraryVars>>
  \/ HeapNext /\ UNCHANGED <<vars, quantumVars, fieldVars, libraryVars>>
  \/ focus = "quantum" /\ QuantumNext /\ UNCHANGED <<vars, heapVars, fieldVars, libraryVars>>
  \/ focus = "field" /\ FieldNext /\ UNCHANGED <<vars, heapVars, quantumVars, libraryVars>>
  \/ LibraryNext /\ UNCHANGED <<vars, heapVars, quantumVars, fieldVars>>

PoolsNext ==
  /\ UNCHANGED focus
  /\ \/ PoolNext /\ UNCHANGED portsVars
     \/ focus = "ports" /\ PortsNext
        /\ UNCHANGED <<vars, heapVars, quantumVars, fieldVars, libraryVars>>

PoolsSpec == PoolsInit /\ [][PoolsNext]_poolsVars
-----------------------------------------------------------------------------
MCFds == 0 .. 1
MCSlots == {0}
MCSpan == [s \in Citizens |-> {0}]
MCPatterns == {<<1, 0>>, <<0, 3, 1>>, <<2, 2>>}
Priorities == <<1, 0, 1>>
MCStored == [name \in {"a", "aa"} |-> "a"]
MCGeoPoints == {<<0, 0>>, <<1, 0>>, <<2, 3>>}
MCGeoGradients == {<<0, 0>>, <<1, 2>>}
MCModeLists == {<<1000>>, <<2, 1000>>, <<0, 2>>}
MCGeoOps == [use \in {{"metric", "berry"}, {"modes"}} |-> IF "modes" \in use THEN 5 ELSE 4]
-----------------------------------------------------------------------------
(* The books balance: the blocks of the kernel's and libq's heaps tile     *)
(* their arenas whatever order the calls come in; every qubit is accounted *)
(* for once, couplings are mutual, the scheduler's counts cover its table, *)
(* a trajectory is read back in the order it was recorded, the metric      *)
(* stays a metric, phases add up around a loop, and an anomaly is one that *)
(* lasts.  (The rational arithmetic is not repeated where the geometric    *)
(* layer is still in its initial state.)                                   *)
BooksBalance ==
  /\ HeapTiled /\ ArenaTiled
  /\ QubitsAccounted /\ CouplingsMutual /\ CountsCover /\ TrajectoryInOrder
  /\ focus = "geometric" => MetricSound /\ LoopAgrees /\ AnomalySustained
============================================================================

-------------------------------- MODULE MCIo --------------------------------
(***************************************************************************)
(* One instance of the edges of the machine, the devices and the programs  *)
(* that talk over them: the vsock console, the block driver with its       *)
(* cache, the console's input, the serial log, persistence with its        *)
(* crashes, ghostd, the COM2 bridge, the shell, the agents, and the        *)
(* circuit engine of qpud.  They share no variable, so a behaviour         *)
(* explores one of them: focus names it and the others stay in an initial  *)
(* state.                                                                  *)
(***************************************************************************)
EXTENDS Vsock, Block, Console, Persist, Ghost, Bridge, Qsh, Agents, Qsv

VARIABLE focus

deviceVars == <<vsockVars, blockVars, consoleVars, logVars, persistVars>>
programVars == <<ghostVars, bridgeVars, qshVars, agentsVars, qsvVars>>
ioVars == <<focus, deviceVars, programVars>>

Parts == {"vsock", "block", "console", "log", "persist", "ghost", "bridge", "qsh", "agents",
          "qsv"}

(* Where a part has several initial states, it takes one of them when it   *)
(* is not in focus.                                                        *)
DeviceInit ==
  /\ VsockInit /\ ConsoleInit /\ LogInit
  /\ BlockInit /\ (focus # "block" => /\ platter = CHOOSE d \in VirtioDisks : TRUE
                                      /\ media = [s \in BlkSectors |-> 0])
  /\ PersistInit /\ (focus # "persist" => /\ \A l \in DOMAIN disk : disk[l] = {}
                                          /\ \A n \in DiskSizes : Len(disk) < n)
ProgramInit ==
  /\ QshInit /\ AgentsInit
  /\ GhostInit /\ (focus # "ghost" => noise_mode = CHOOSE m \in NoiseModes : TRUE)
  /\ BridgeInit /\ (focus # "bridge" => ~ uart.nodev /\ route.learned = 0)
  /\ QsvInit /\ (focus # "qsv" => qubits = CHOOSE n \in CircuitQubits : TRUE)
IoInit == focus \in Parts /\ DeviceInit /\ ProgramInit

DeviceNext ==
  \/ focus = "vsock" /\ VsockNext /\ UNCHANGED <<blockVars, consoleVars, logVars, persistVars>>
  \/ focus = "block" /\ BlockNext /\ UNCHANGED <<vsockVars, consoleVars, logVars, persistVars>>
  \/ focus = "console" /\ ConsoleNext /\ UNCHANGED <<vsockVars, blockVars, logVars, persistVars>>
  \/ focus = "log" /\ LogNext /\ UNCHANGED <<vsockVars, blockVars, consoleVars, persistVars>>
  \/ focus = "persist" /\ PersistNext /\ UNCHANGED <<vsockVars, blockVars, consoleVars, logVars>>

ProgramNext ==
  \/ focus = "ghost" /\ GhostNext /\ UNCHANGED <<bridgeVars, qshVars, agentsVars, qsvVars>>
  \/ focus = "bridge" /\ BridgeNext /\ UNCHANGED <<ghostVars, qshVars, agentsVars, qsvVars>>
  \/ focus = "qsh" /\ QshNext /\ UNCHANGED <<ghostVars, bridgeVars, agentsVars, qsvVars>>
  \/ focus = "agents" /\ AgentsNext /\ UNCHANGED <<ghostVars, bridgeVars, qshVars, qsvVars>>
  \/ focus = "qsv" /\ QsvNext /\ UNCHANGED <<ghostVars, bridgeVars, qshVars, agentsVars>>

IoNext ==
  \/ DeviceNext /\ UNCHANGED <<focus, programVars>>
  \/ ProgramNext /\ UNCHANGED <<focus, deviceVars>>

IoSpec == IoInit /\ [][IoNext]_ioVars
-----------------------------------------------------------------------------
MCPayloads == {<<>>, <<5>>, <<5, 3>>}
MCMessages == UNION {[1 .. n -> {"x", "MARK", "NL"}] : n \in 0 .. 2}
                \cup {<<"x", "NL", "MARK">>, <<"NL", "MARK", "x">>, <<"x", "x", "MARK">>,
                      <<"NL", "x", "NL">>, <<"x", "NL", "MARK", "x">>}
MCQseed == <<"ESC", "]", "q">>
MCEgress == <<"ESC", "]", "e">>

A == {1}
B == {}
MCNoFiles == <<B, B>>
MCArchives == {MCNoFiles, <<A, B, A>>, <<B, A, B, A>>}
MCCold == <<B>>
MCFields == {<<B>>, <<A>>}
-----------------------------------------------------------------------------
(* What crosses a device in pieces: a block call reads and leaves what was *)
(* asked, and a serial frame is dispatched whole, once and in order.       *)
LinesFaithful == BlocksFaithful /\ FramesDispatched

(* The console: input and log keep what they were given.                   *)
ConsoleFaithful == InputFaithful /\ LogUnforged

(* The shell: a broker's answer is the answer to the question asked, and a *)
(* failed command leaves no descriptor, socket or connection open.         *)
ShellSound == AnswersMatchTags /\ NothingHeld
=============================================================================

------------------------------- MODULE MCNet -------------------------------
(***************************************************************************)
(* One instance of the network stack: TCP between two kernels over a       *)
(* faulty net, the net thread with its UDP sockets, ARP, DHCP and          *)
(* resolver, the egress policy and the three network drivers.  They share  *)
(* no variable, so a behaviour explores one of them: focus names it and    *)
(* the others stay in an initial state.                                    *)
(***************************************************************************)
EXTENDS Tcp, NetThread, Egress, Nic, TLC

VARIABLE focus

stackVars == <<focus, tcpVars, netVars, egressVars, nicVars>>

Parts == {"tcp", "net", "egress", "nic"}

(* Where a component has several initial states, it takes one of them when *)
(* it is not in focus.                                                     *)
StackInit ==
  /\ focus \in Parts
  /\ TcpInit /\ EgressInit
  /\ NetInit /\ (focus # "net" => static_link /\ workload = CHOOSE w \in Workloads : TRUE)
  /\ NicInit /\ (focus # "nic" => nic = CHOOSE d \in Drivers : TRUE)

StackNext ==
  /\ UNCHANGED focus
  /\ \/ focus = "tcp" /\ TcpNext /\ UNCHANGED <<netVars, egressVars, nicVars>>
     \/ focus = "net" /\ NetNext /\ UNCHANGED <<tcpVars, egressVars, nicVars>>
     \/ focus = "egress" /\ EgressNext /\ UNCHANGED <<tcpVars, netVars, nicVars>>
     \/ focus = "nic" /\ NicNext /\ UNCHANGED <<tcpVars, netVars, egressVars>>

StackSpec == StackInit /\ [][StackNext]_stackVars
-----------------------------------------------------------------------------
CONSTANTS a, b                       \* the two hosts of the TCP instance
CONSTANTS h1, i1, i2                 \* a name and two addresses of the egress instance

MCHome == (1 :> a) @@ (2 :> b)
MCHostOf == [e \in {9, 1} |-> IF e = 9 THEN a ELSE b]
MCTroubles == {<<0, 0>>, <<1, 0>>, <<2, 0>>, <<0, 1>>}
MCStream == (9 :> 2) @@ (1 :> 0)

MCAddrOf == [n \in {"n1", "n2"} |-> IF n = "n1" THEN 11 ELSE 12]

Field(f, v) == [field |-> f, value |-> v]
Wide == <<Field("ttl", 9), Field("bytes", 3), Field("allow", <<[name |-> i1, port |-> 1]>>),
          Field("ttl", 2), Field("listen", <<80>>), Field("allow", <<[name |-> h1, port |-> 1]>>)>>
Narrow == <<Field("ttl", 1), Field("bytes", 2), Field("allow", <<[name |-> i1, port |-> 1]>>)>>
Endless == <<Field("bytes", 3), Field("allow", <<[name |-> "*", port |-> 0]>>)>>
TooMany == <<Field("ttl", 2), Field("bytes", 3), Field("listen", <<80, 80>>)>>
MCSpecs == {Wide, Narrow, Endless, TooMany}
MCDests == {<<i1, 1>>, <<i2, 1>>}
MCResolves == [n \in {h1} |-> {i2}]
-----------------------------------------------------------------------------
(* TCP: what the application reads is a prefix of what its peer wrote, the *)
(* counters of both ends agree, and an end of file comes after everything. *)
StreamsFaithful == StreamIntact /\ SendCountersAgree /\ EofAfterAll

(* The network drivers: frames come up whole and in order, and every       *)
(* receive descriptor is owned by the device or about to be given back.    *)
FramesFaithful == FramesWhole /\ DescriptorsKept
=============================================================================

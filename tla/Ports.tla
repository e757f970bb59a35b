-------------------------------- MODULE Ports --------------------------------
(***************************************************************************)
(* Named ports and two-way channels (kernel/src/ipc/ipc.c): the other two  *)
(* ways of passing messages, which share queue_enqueue() and               *)
(* queue_dequeue() with the mailboxes of module Ipc.  A queue is the       *)
(* sequence of its messages here: that the linked list holds it is what    *)
(* Ipc shows.  A call that returns an error changes nothing, except that a *)
(* message refused by a full queue has used up a message id.               *)
(*                                                                         *)
(* Ids are never used twice, while slots and pids are; the ids of messages *)
(* are also drawn by ipc_send(), which only leaves gaps in them.           *)
(***************************************************************************)
EXTENDS Naturals, Sequences

CONSTANTS
  PortPids,        \* process slots, among them
  KERNEL,          \* IPC_PID_KERNEL, in whose name the kernel itself calls
  PortNames,
  str_copy,        \* what of a name fits in the 64 bytes of a port: [PortNames -> PortNames]
  PortSlots,       \* the indices of ports[], in order of the scan
  ChannelSlots,    \* the indices of channels[]
  PortQueueMax,    \* IPC_MAX_QUEUE_SIZE (64)
  MaxPortIds, MaxChannelIds, MaxPortMessages   \* bounds on the ids given out

ASSUME PortsAssumption ==
  /\ KERNEL \in PortPids /\ str_copy \in [PortNames -> PortNames]
  /\ PortSlots \subseteq Nat /\ ChannelSlots \subseteq Nat
  /\ {PortQueueMax, MaxPortIds, MaxChannelIds, MaxPortMessages} \subseteq Nat

VARIABLES
  ports, channels,
  queue_initialized,   \* the pids that have a mailbox: those that exist
  next_port_id, next_channel_id, message_ids,
  accepted,            \* history: what each line has taken in,
  delivered,           \* ... what has been received from it,
  misdelivered         \* ... and what was received by another than its receiver

portsVars == <<ports, channels, queue_initialized, next_port_id, next_channel_id, message_ids,
               accepted, delivered, misdelivered>>
histories == <<accepted, delivered, misdelivered>>

(* A line: a port, or one direction of a channel, that has ever existed.   *)
Lines == ({"port"} \X (1 .. MaxPortIds)) \cup ({"a_to_b", "b_to_a"} \X (1 .. MaxChannelIds))

NoName == "none"
ASSUME NoNameAssumption == NoName \notin PortNames

ClosedPort == [open |-> FALSE, port_id |-> 0, owner_id |-> KERNEL, name |-> NoName, queue |-> << >>]
IdleChannel == [is_active |-> FALSE, channel_id |-> 0, endpoint_a |-> KERNEL, endpoint_b |-> KERNEL,
                queue |-> [a_to_b |-> << >>, b_to_a |-> << >>]]

PortsInit ==
  /\ ports = [i \in PortSlots |-> ClosedPort] /\ channels = [i \in ChannelSlots |-> IdleChannel]
  /\ queue_initialized = {KERNEL}
  /\ next_port_id = 1 /\ next_channel_id = 1 /\ message_ids = 1
  /\ accepted = [l \in Lines |-> << >>] /\ delivered = [l \in Lines |-> << >>]
  /\ misdelivered = {}

ipc_process_init(pid) ==
  /\ queue_initialized' = queue_initialized \cup {pid}
  /\ UNCHANGED <<ports, channels, next_port_id, next_channel_id, message_ids, histories>>

FirstAmong(S) == CHOOSE i \in S : \A j \in S : i <= j
FreePorts == {i \in PortSlots : ~ports[i].open}
PortOf(id) == {i \in PortSlots : ports[i].open /\ ports[i].port_id = id}
PortNamed(name) == {i \in PortSlots : ports[i].open /\ ports[i].name = name}
FreeChannels == {i \in ChannelSlots : ~channels[i].is_active}
ChannelOf(id) == {i \in ChannelSlots : channels[i].is_active /\ channels[i].channel_id = id}

-----------------------------------------------------------------------------
(* The name is looked for as it is given and kept as far as it fits: a     *)
(* name that is too long is never found again, and the port made under it  *)
(* may bear the name of another.                                           *)
ipc_port_create(me, name) ==
  /\ PortNamed(name) = {} /\ FreePorts # {} /\ next_port_id <= MaxPortIds
  /\ ports' = [ports EXCEPT ![FirstAmong(FreePorts)] =
       [open |-> TRUE, port_id |-> next_port_id, owner_id |-> me, name |-> str_copy[name],
        queue |-> << >>]]
  /\ next_port_id' = next_port_id + 1
  /\ UNCHANGED <<channels, queue_initialized, next_channel_id, message_ids, histories>>

(* The owner or the kernel; what is queued goes with the port.             *)
Destroyed(p) == [p EXCEPT !.open = FALSE, !.port_id = 0, !.name = NoName, !.queue = << >>]
MayDestroy(me, p) == me \in {p.owner_id, KERNEL}

ipc_port_destroy(me, id) ==
  /\ PortOf(id) # {} /\ MayDestroy(me, ports[FirstAmong(PortOf(id))])
  /\ ports' = [ports EXCEPT ![FirstAmong(PortOf(id))] = Destroyed(@)]
  /\ UNCHANGED <<channels, queue_initialized, next_port_id, next_channel_id, message_ids, histories>>

(* On the end of pid, in the context of whoever reaps it: the ports of pid *)
(* are destroyed in that one's name, so they outlive it unless that is the *)
(* kernel or pid itself.                                                   *)
ipc_process_cleanup(me, pid) ==
  /\ pid \in queue_initialized \ {KERNEL}
  /\ queue_initialized' = queue_initialized \ {pid}
  /\ ports' = [i \in PortSlots |-> IF ports[i].open /\ ports[i].owner_id = pid /\ MayDestroy(me, ports[i])
                                     THEN Destroyed(ports[i]) ELSE ports[i]]
  /\ UNCHANGED <<channels, next_port_id, next_channel_id, message_ids, histories>>

Letter(from, to) == [sender_id |-> from, receiver_id |-> to, message_id |-> message_ids]

(* The queue refuses when it is full and when the heap has no entry; the   *)
(* id is used up either way.                                               *)
Accept(line, queue, letter) ==
  /\ Len(queue) < PortQueueMax
  /\ accepted' = [accepted EXCEPT ![line] = Append(@, letter)]

QueueRefuses ==
  /\ message_ids' = message_ids + 1
  /\ UNCHANGED <<ports, channels, queue_initialized, next_port_id, next_channel_id, histories>>

Deliver(me, line, letter) ==
  /\ delivered' = [delivered EXCEPT ![line] = Append(@, letter)]
  /\ misdelivered' = IF letter.receiver_id = me THEN misdelivered ELSE misdelivered \cup {letter}

ipc_port_send(me, id) ==
  LET i == FirstAmong(PortOf(id))   p == ports[i]   letter == Letter(me, p.owner_id)
  IN  /\ PortOf(id) # {} /\ message_ids <= MaxPortMessages
      /\ \/ QueueRefuses
         \/ /\ Accept(<<"port", id>>, p.queue, letter)
            /\ ports' = [ports EXCEPT ![i].queue = Append(@, letter)]
            /\ message_ids' = message_ids + 1
            /\ UNCHANGED <<channels, queue_initialized, next_port_id, next_channel_id,
                           delivered, misdelivered>>

(* The owner, and not even the kernel for it.                              *)
AnyoneReceives(me, p) == TRUE   \* mutant
MayReceive(me, p) == p.owner_id = me
ipc_port_receive(me, id) ==
  LET i == FirstAmong(PortOf(id))
  IN  /\ PortOf(id) # {} /\ MayReceive(me, ports[i]) /\ ports[i].queue # << >>
      /\ Deliver(me, <<"port", id>>, Head(ports[i].queue))
      /\ ports' = [ports EXCEPT ![i].queue = Tail(@)]
      /\ UNCHANGED <<channels, queue_initialized, next_port_id, next_channel_id, message_ids, accepted>>

-----------------------------------------------------------------------------
(* Anyone may connect any two processes, and disconnect them.              *)
ipc_channel_create(a, b) ==
  /\ FreeChannels # {} /\ next_channel_id <= MaxChannelIds
  /\ channels' = [channels EXCEPT ![FirstAmong(FreeChannels)] =
       [IdleChannel EXCEPT !.is_active = TRUE, !.channel_id = next_channel_id,
                           !.endpoint_a = a, !.endpoint_b = b]]
  /\ next_channel_id' = next_channel_id + 1
  /\ UNCHANGED <<ports, queue_initialized, next_port_id, message_ids, histories>>

ipc_channel_destroy(id) ==
  /\ ChannelOf(id) # {}
  /\ channels' = [channels EXCEPT ![FirstAmong(ChannelOf(id))] =
       [@ EXCEPT !.is_active = FALSE, !.channel_id = 0, !.queue = IdleChannel.queue]]
  /\ UNCHANGED <<ports, queue_initialized, next_port_id, next_channel_id, message_ids, histories>>

(* A process connected with itself sends as a, and receives as a what b    *)
(* has sent: nothing.                                                      *)
Outgoing(me, c) == IF me = c.endpoint_a THEN "a_to_b" ELSE "b_to_a"
BothWaysAlike(me, c) == Outgoing(me, c)   \* mutant: senders read back what they sent
Incoming(me, c) == IF me = c.endpoint_a THEN "b_to_a" ELSE "a_to_b"
OtherEnd(me, c) == IF me = c.endpoint_a THEN c.endpoint_b ELSE c.endpoint_a
Connects(me, c) == me \in {c.endpoint_a, c.endpoint_b}

ipc_channel_send(me, id) ==
  LET i == FirstAmong(ChannelOf(id))   c == channels[i]
      way == Outgoing(me, c)      letter == Letter(me, OtherEnd(me, c))
  IN  /\ ChannelOf(id) # {} /\ Connects(me, c) /\ message_ids <= MaxPortMessages
      /\ \/ QueueRefuses
         \/ /\ Accept(<<way, id>>, c.queue[way], letter)
            /\ channels' = [channels EXCEPT ![i].queue[way] = Append(@, letter)]
            /\ message_ids' = message_ids + 1
            /\ UNCHANGED <<ports, queue_initialized, next_port_id, next_channel_id,
                           delivered, misdelivered>>

ipc_channel_receive(me, id) ==
  LET i == FirstAmong(ChannelOf(id))   c == channels[i]   way == Incoming(me, c)
  IN  /\ ChannelOf(id) # {} /\ Connects(me, c) /\ c.queue[way] # << >>
      /\ Deliver(me, <<way, id>>, Head(c.queue[way]))
      /\ channels' = [channels EXCEPT ![i].queue[way] = Tail(@)]
      /\ UNCHANGED <<ports, queue_initialized, next_port_id, next_channel_id, message_ids, accepted>>

PortsNext ==
  \/ \E pid \in PortPids : ipc_process_init(pid)
  \/ \E me \in queue_initialized :
       \/ \E pid \in PortPids : ipc_process_cleanup(me, pid)
       \/ \E name \in PortNames : ipc_port_create(me, name)
       \/ \E id \in 1 .. MaxPortIds :
            ipc_port_destroy(me, id) \/ ipc_port_send(me, id) \/ ipc_port_receive(me, id)
       \/ \E id \in 1 .. MaxChannelIds : ipc_channel_send(me, id) \/ ipc_channel_receive(me, id)
  \/ \E a, b \in PortPids : ipc_channel_create(a, b)
  \/ \E id \in 1 .. MaxChannelIds : ipc_channel_destroy(id)

PortsSpec == PortsInit /\ [][PortsNext]_portsVars

-----------------------------------------------------------------------------
(* Every line delivers what it accepted, in that order, each message once  *)
(* and only to the process it was sent to; what it has accepted and not    *)
(* delivered is what its queue holds, until the port or channel is         *)
(* destroyed.  An id leads to one port or channel.                         *)
QueuesHoldTheRest ==
  /\ \A i \in PortSlots : ports[i].open =>
       LET l == <<"port", ports[i].port_id>> IN accepted[l] = delivered[l] \o ports[i].queue
  /\ \A i \in ChannelSlots : channels[i].is_active =>
       \A way \in {"a_to_b", "b_to_a"} :
         LET l == <<way, channels[i].channel_id>>
         IN  accepted[l] = delivered[l] \o channels[i].queue[way]

OneOfEach ==
  /\ \A i, j \in PortSlots : ports[i].open /\ ports[j].open /\ i # j =>
       ports[i].port_id # ports[j].port_id
  /\ \A i, j \in ChannelSlots :
       channels[i].is_active /\ channels[j].is_active /\ i # j =>
         channels[i].channel_id # channels[j].channel_id

LinesKeepOrder ==
  /\ QueuesHoldTheRest /\ OneOfEach /\ misdelivered = {}
  /\ \A l \in Lines : /\ Len(delivered[l]) <= Len(accepted[l])
                       /\ delivered[l] = SubSeq(accepted[l], 1, Len(delivered[l]))
=============================================================================

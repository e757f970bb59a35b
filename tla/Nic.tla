-------------------------------- MODULE Nic --------------------------------
(***************************************************************************)
(* The network drivers (kernel/src/virtio_net.c, e1000.c, rtl8139.c) under *)
(* netdev: descriptors the device fills by DMA while the driver runs, a    *)
(* drain into a software queue from the interrupt or from the poll, the    *)
(* pop by the net thread, and polled transmits with a bounded wait.  A     *)
(* frame is its number; a buffer holds one part of one frame.              *)
(***************************************************************************)
EXTENDS Integers, Sequences
LOCAL INSTANCE SequencesExt

CONSTANTS Drivers, QSZ, RXQ_SLOTS, NTX, MaxParts, MaxRxFrames, MaxTxFrames

NicConstants ==
    /\ Drivers \subseteq {"virtio", "e1000", "rtl8139"}
    /\ {QSZ, RXQ_SLOTS, NTX, MaxParts} \subseteq Nat \ {0}
    /\ RXQ_SLOTS > 1
    /\ {MaxRxFrames, MaxTxFrames} \subseteq Nat

ASSUME NicAssumption == NicConstants

VARIABLES nic,     \* the bound driver
          wire_arrived, \* frames the device took from the wire: the parts of each
          hold,    \* descriptors the device may fill, in order
          filled,  \* descriptors filled and not drained yet, in order
          rxbufs,  \* what each descriptor's buffer holds: <<frame, part>>
          drain,   \* rx_drain in progress
          swq,     \* the software queue: rxq_data, rxq_head, rxq_tail
          recv,    \* the pop in progress: the frame copied, or << >>
          up,      \* frames handed to the net thread
          tx,      \* transmit in progress, buffers, descriptors with the device
          onWire   \* frames the device sent

nicVars == <<nic, wire_arrived, hold, filled, rxbufs, drain, swq, recv, up, tx, onWire>>

Descs == 0 .. QSZ - 1
SwSlots == 0 .. RXQ_SLOTS - 1
NoDrain == [on |-> FALSE, left |-> 0, drop |-> FALSE, parts |-> << >>]

\* e1000_init: every descriptor is posted but the last, because the chip stops
\* at the tail register.  The other drivers post them all.
Posted == [i \in 1 .. (IF nic = "e1000" THEN QSZ - 1 ELSE QSZ) |-> i - 1]

\* rtl8139_init: no transmit descriptor is with the chip, the first is next.
IdleTx == [on |-> FALSE, cur |-> 0, bufs |-> [b \in 0 .. NTX - 1 |-> 0], queue |-> << >>,
           given |-> 0]

NicInit ==
    /\ nic \in Drivers
    /\ wire_arrived = << >>
    /\ hold = Posted
    /\ filled = << >>
    /\ rxbufs = [d \in Descs |-> <<0, 0>>]
    /\ drain = NoDrain
    /\ swq = [data |-> [s \in SwSlots |-> << >>], head |-> 0, tail |-> 0]
    /\ recv = << >>
    /\ up = << >>
    /\ tx = IdleTx
    /\ onWire = << >>

RxSame == UNCHANGED <<nic, tx, onWire>>
TxSame == UNCHANGED <<nic, wire_arrived, hold, filled, rxbufs, drain, swq, recv, up>>
----------------------------------------------------------------------------
(* Receive *)

\* DMA: a frame goes to as many descriptors as it needs, or is lost for want
\* of them; its entries are published together.
DeviceReceives(p) ==
    LET f == Len(wire_arrived) + 1
    IN  /\ f <= MaxRxFrames
        /\ p <= Len(hold) /\ (p > 1 => nic = "virtio")
        /\ wire_arrived' = Append(wire_arrived, [i \in 1 .. p |-> <<f, i>>])
        /\ rxbufs' = [d \in Descs |-> IF \E i \in 1 .. p : hold[i] = d
                                      THEN <<f, CHOOSE i \in 1 .. p : hold[i] = d>>
                                      ELSE rxbufs[d]]
        /\ filled' = filled \o [i \in 1 .. p |-> [d |-> hold[i], of |-> p]]
        /\ hold' = SubSeq(hold, p + 1, Len(hold))
        /\ UNCHANGED <<drain, swq, recv, up>> /\ RxSame

SwFull(nxt) == nxt = swq.head
NextSlot(s) == (s + 1) % RXQ_SLOTS

\* Only virtio's pop may be interrupted: the others pop with interrupts off.
MayInterrupt == recv # << >> => nic = "virtio"

\* rx_drain takes the next frame: from the interrupt, or from the poll of a
\* receive that found the queue empty.
rx_drain ==
    /\ ~drain.on /\ filled # << >>
    /\ MayInterrupt
    /\ drain' = [on |-> TRUE, left |-> Head(filled).of, parts |-> << >>,
                 drop |-> SwFull(NextSlot(swq.tail))]
    /\ UNCHANGED <<wire_arrived, hold, filled, rxbufs, swq, recv, up>> /\ RxSame

\* The descriptor the device gets when d is handed back: the e1000's tail
\* register names the first one it may not use.
HandedBack(d) == IF nic = "e1000" THEN (d + QSZ - 1) % QSZ ELSE d

Published(q, d) == Append(q, HandedBack(d))

CopiedAtStart(parts, d) == <<rxbufs[d]>>
Copied(parts, d) == Append(parts, rxbufs[d])

\* One part: copied out of its buffer, then its descriptor is handed back.
CopyPart ==
    /\ drain.on /\ drain.left > 0
    /\ LET d == Head(filled).d
       IN  /\ drain' = [drain EXCEPT !.left = @ - 1, !.parts = Copied(@, d)]
           /\ hold' = Published(hold, d)
    /\ filled' = Tail(filled)
    /\ UNCHANGED <<wire_arrived, rxbufs, swq, recv, up>> /\ RxSame

\* rxq_push: the frame enters the software queue, or is dropped when it is full.
DrainEnd ==
    /\ drain.on /\ drain.left = 0
    /\ swq' = IF drain.drop THEN swq
              ELSE [swq EXCEPT !.data[swq.tail] = drain.parts, !.tail = NextSlot(@)]
    /\ drain' = NoDrain
    /\ UNCHANGED <<wire_arrived, hold, filled, rxbufs, recv, up>> /\ RxSame

\* receive: copy the head entry out ...
ReceiveCopy ==
    /\ ~drain.on /\ recv = << >> /\ swq.head # swq.tail
    /\ recv' = swq.data[swq.head]
    /\ UNCHANGED <<wire_arrived, hold, filled, rxbufs, drain, swq, up>> /\ RxSame

\* ... and then move the head past it.
ReceivePop ==
    /\ ~drain.on /\ recv # << >>
    /\ up' = Append(up, recv)
    /\ recv' = << >>
    /\ swq' = [swq EXCEPT !.head = NextSlot(@)]
    /\ UNCHANGED <<wire_arrived, hold, filled, rxbufs, drain>> /\ RxSame
----------------------------------------------------------------------------
(* Transmit *)

\* Fill a transmit buffer, post its descriptor and begin to wait.
Posts(b, next) ==
    /\ ~tx.on /\ tx.given < MaxTxFrames
    /\ tx' = [tx EXCEPT !.on = TRUE, !.given = @ + 1, !.bufs[b] = tx.given + 1,
                        !.queue = Append(@, b), !.cur = next]
    /\ UNCHANGED onWire /\ TxSame

\* virtio has one buffer and one descriptor; the others take the next of a few.
virtio_net_transmit == nic = "virtio" /\ Posts(0, 0)
e1000_transmit == nic = "e1000" /\ Posts(tx.cur, (tx.cur + 1) % NTX)
rtl8139_transmit == nic = "rtl8139" /\ Posts(tx.cur, (tx.cur + 1) % NTX)

\* The device sends what the posted buffer holds when it gets to it.
DeviceSends ==
    /\ tx.queue # << >>
    /\ onWire' = Append(onWire, tx.bufs[Head(tx.queue)])
    /\ tx' = [tx EXCEPT !.queue = Tail(@)]
    /\ TxSame

\* The completion is seen or the polls run out: either way the driver returns,
\* and a descriptor the device has not got to stays with it.
TransmitReturns ==
    /\ tx.on
    /\ tx' = [tx EXCEPT !.on = FALSE]
    /\ UNCHANGED onWire /\ TxSame

NicNext ==
    \/ \E p \in 1 .. MaxParts : DeviceReceives(p)
    \/ rx_drain
    \/ CopyPart
    \/ DrainEnd
    \/ ReceiveCopy
    \/ ReceivePop
    \/ virtio_net_transmit \/ e1000_transmit \/ rtl8139_transmit
    \/ DeviceSends
    \/ TransmitReturns

NicSpec == NicInit /\ [][NicNext]_nicVars
----------------------------------------------------------------------------
RECURSIVE IsSubsequence(_, _)
IsSubsequence(s, t) ==
    \/ s = << >>
    \/ t # << >> /\ (IF Head(s) = Head(t) THEN IsSubsequence(Tail(s), Tail(t))
                     ELSE IsSubsequence(s, Tail(t)))

\* What the net thread gets are frames that arrived, whole, in order and once
\* each, while the device keeps writing into every descriptor it was handed back
\* and the interrupt's drain cuts into the pop (virtio_net.c:282, e1000.c:224).
FramesWhole == IsSubsequence(up, wire_arrived)

\* No descriptor is lost or held twice: what the device may fill, what it has
\* filled and, on the e1000, the one kept back are all of them.
DescriptorsKept ==
    LET inUse == hold \o [i \in 1 .. Len(filled) |-> filled[i].d]
    IN  /\ \A i, j \in 1 .. Len(inUse) : inUse[i] = inUse[j] => i = j
        /\ Len(inUse) = IF nic = "e1000" THEN QSZ - 1 ELSE QSZ

============================================================================

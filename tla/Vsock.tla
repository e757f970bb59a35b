------------------------------- MODULE Vsock -------------------------------
(***************************************************************************)
(* The vsock shell channel (kernel/src/virtio_vsock.c) and console_write's *)
(* choice between it and COM1: one connection with credit-based flow       *)
(* control on wrapping counters, a transmit that may time out and drops    *)
(* the device, a transport reset, and a poll that also runs inside the     *)
(* wait for credit.  Written bytes are numbered 1, 2, 3, ...               *)
(***************************************************************************)
EXTENDS Integers, Sequences

CONSTANTS VPorts, VsAllocs, VsWrap, TX_PAYLOAD, OUR_BUF_ALLOC,
          MaxWrite, MaxVsBytes, MaxVsSaid, MaxVsConnects, MaxVsRing, MaxVsFaults

VsockConstants ==
    /\ {VsWrap, TX_PAYLOAD, OUR_BUF_ALLOC} \subseteq Nat \ {0}
    /\ VsAllocs \subseteq 0 .. VsWrap - 1
    /\ {MaxWrite, MaxVsBytes, MaxVsSaid, MaxVsConnects, MaxVsRing, MaxVsFaults} \subseteq Nat

ASSUME VsockAssumption == VsockConstants

VARIABLES vs,     \* the driver: present, connected and the counters of the connection
          peers,  \* per port: the host's end of a connection
          vsRing, \* packets in the receive queue
          vsReset,\* a transport-reset event waits in the event queue
          cwrite, \* console_write in progress: next byte, last byte, waiting for credit
          vsOut,  \* where each byte went, in order: <<"com1" or a port, byte>>
          vsUsed  \* packets the host sent, connections and faults so far

vsockVars == <<vs, peers, vsRing, vsReset, cwrite, vsOut, vsUsed>>

NoWrite == [on |-> FALSE, next |-> 1, last |-> 0, wait |-> FALSE]
Shut == [st |-> "shut", alloc |-> 0, most |-> 0, got |-> 0, eaten |-> 0]

\* bring_up and virtio_vsock_init, on a machine that has the device.
VsockInit ==
    /\ vs = [present |-> TRUE, connected |-> FALSE, peer_port |-> "none", peer_buf_alloc |-> 0,
             peer_fwd_cnt |-> 0, tx_cnt |-> 0, fwd_cnt |-> 0, fwd_cnt_told |-> 0]
    /\ peers = [p \in VPorts |-> Shut]
    /\ vsRing = << >> /\ vsReset = FALSE
    /\ cwrite = NoWrite /\ vsOut = << >>
    /\ vsUsed = [said |-> 0, connects |-> 0, faults |-> 0]
----------------------------------------------------------------------------
(* The host *)

Packet(op, p) == [op |-> op, port |-> p, buf_alloc |-> peers[p].alloc, fwd_cnt |-> peers[p].eaten % VsWrap]
GuestSame == UNCHANGED <<vs, vsReset, cwrite, vsOut>>

HostSends(pkt) == Len(vsRing) < MaxVsRing /\ vsRing' = Append(vsRing, pkt)

HostSays(pkt) ==
    /\ HostSends(pkt)
    /\ vsUsed.said < MaxVsSaid
    /\ vsUsed' = [vsUsed EXCEPT !.said = @ + 1]

\* Ports are ephemeral: one with packets still queued is not taken again.
HostConnects(p, a) ==
    /\ \A i \in 1 .. Len(vsRing) : vsRing[i].port # p
    /\ peers[p].st = "shut" /\ vsUsed.connects < MaxVsConnects
    /\ peers' = [peers EXCEPT ![p] = [Shut EXCEPT !.st = "asking", !.alloc = a, !.most = a]]
    /\ HostSends([op |-> "REQUEST", port |-> p, buf_alloc |-> a, fwd_cnt |-> 0])
    /\ vsUsed' = [vsUsed EXCEPT !.connects = @ + 1]
    /\ GuestSame

HostTypes(p) ==
    /\ peers[p].st = "open"
    /\ HostSays(Packet("RW", p))
    /\ UNCHANGED peers /\ GuestSame

HostReads(p) ==
    /\ peers[p].st = "open" /\ peers[p].eaten < peers[p].got
    /\ peers' = [peers EXCEPT ![p].eaten = @ + 1]
    /\ UNCHANGED <<vsRing, vsUsed>> /\ GuestSame

\* It may grow or shrink its buffer, and says so with its next packet.
HostTells(p, a, op) ==
    /\ peers[p].st = "open"
    /\ peers' = [peers EXCEPT ![p].alloc = a, ![p].most = IF a > @ THEN a ELSE @]
    /\ HostSays([Packet(op, p) EXCEPT !.buf_alloc = a])
    /\ GuestSame

HostCloses(p, op) ==
    /\ peers[p].st = "open"
    /\ peers' = [peers EXCEPT ![p] = IF op = "RST" THEN Shut ELSE [@ EXCEPT !.st = "closing"]]
    /\ HostSends(Packet(op, p))
    /\ UNCHANGED vsUsed /\ GuestSame

\* A packet to another port, of another type or with an unknown operation.
HostStrays(p) ==
    /\ peers[p].st = "open"
    /\ HostSays(Packet("STRAY", p))
    /\ UNCHANGED peers /\ GuestSame

\* Snapshot restore: every connection is gone and the device says so.
TransportResets ==
    /\ vs.present /\ ~vsReset /\ vsUsed.faults < MaxVsFaults
    /\ vsReset' = TRUE
    /\ peers' = [p \in VPorts |-> Shut]
    /\ vsUsed' = [vsUsed EXCEPT !.faults = @ + 1]
    /\ UNCHANGED <<vs, vsRing, cwrite, vsOut>>
----------------------------------------------------------------------------
(* The driver *)

\* What a control packet does at the host's end; RST answers a request too.
Told(op, p) ==
    [peers EXCEPT ![p] =
        IF op = "RST" THEN (IF @.st \in {"asking", "closing"} THEN Shut ELSE @)
        ELSE IF op = "RESPONSE" /\ @.st = "asking" THEN [@ EXCEPT !.st = "open"] ELSE @]

\* tx_packet: sent, or timed out and the device dropped; the device may still
\* have sent it.  d is the driver as the caller leaves it on success.
TimedOut(d) == [d EXCEPT !.present = FALSE, !.connected = FALSE]

tx_packet(op, p, d) ==
    \/ /\ vs' = [d EXCEPT !.fwd_cnt_told = d.fwd_cnt]
       /\ peers' = Told(op, p)
       /\ UNCHANGED vsUsed
    \/ /\ vsUsed.faults < MaxVsFaults
       /\ vsUsed' = [vsUsed EXCEPT !.faults = @ + 1]
       /\ vs' = TimedOut([d EXCEPT !.fwd_cnt_told = d.fwd_cnt])
       /\ peers' \in {peers, Told(op, p)}

disconnect(d) == [d EXCEPT !.connected = FALSE, !.peer_port = "none"]

note_credit(d, h) == [d EXCEPT !.peer_buf_alloc = h.buf_alloc, !.peer_fwd_cnt = h.fwd_cnt]

Quiet(d) == vs' = d /\ UNCHANGED <<peers, vsUsed>>

\* The packet comes from the peer of the one connection.
Ours(h) == vs.connected /\ h.port = vs.peer_port

\* One shell at a time; a new connection starts its counters afresh.
OnRequest(h) ==
    IF vs.connected THEN tx_packet("RST", h.port, vs)
    ELSE tx_packet("RESPONSE", h.port,
                   note_credit([vs EXCEPT !.peer_port = h.port, !.tx_cnt = 0, !.fwd_cnt = 0,
                                          !.connected = TRUE], h))

\* Input goes to the console ring; the peer hears of it past half the buffer.
OnData(h) ==
    IF ~Ours(h) THEN tx_packet("RST", h.port, vs)
    ELSE LET d == [note_credit(vs, h) EXCEPT !.fwd_cnt = (@ + 1) % VsWrap]
         IN  IF (d.fwd_cnt - d.fwd_cnt_told) % VsWrap > OUR_BUF_ALLOC \div 2
             THEN tx_packet("CREDIT_UPDATE", h.port, d)
             ELSE Quiet(d)

rx_handle(h) ==
    CASE h.op = "REQUEST" -> OnRequest(h)
      [] h.op = "RW" -> OnData(h)
      [] h.op = "CREDIT_UPDATE" -> Quiet(IF Ours(h) THEN note_credit(vs, h) ELSE vs)
      [] h.op = "CREDIT_REQUEST" -> IF Ours(h) THEN tx_packet("CREDIT_UPDATE", h.port, note_credit(vs, h))
                                    ELSE Quiet(vs)
      [] h.op = "SHUTDOWN" -> IF Ours(h) THEN tx_packet("RST", h.port, disconnect(vs)) ELSE Quiet(vs)
      [] h.op = "RST" -> Quiet(IF Ours(h) THEN disconnect(vs) ELSE vs)
      [] OTHER -> tx_packet("RST_ELSEWHERE", h.port, vs)

\* virtio_vsock_poll, from the tick, from a read and from the wait for credit:
\* events first, then one packet.
Polls == vs.present /\ (cwrite.on => cwrite.wait)

PollEvent ==
    /\ Polls /\ vsReset
    /\ vsReset' = FALSE
    /\ Quiet(disconnect(vs))
    /\ UNCHANGED <<vsRing, cwrite, vsOut>>

PollPacket ==
    /\ Polls /\ ~vsReset /\ vsRing # << >>
    /\ rx_handle(Head(vsRing))
    /\ vsRing' = Tail(vsRing)
    /\ UNCHANGED <<vsReset, cwrite, vsOut>>
----------------------------------------------------------------------------
(* console_write and virtio_vsock_send *)

CreditUnsigned == (vs.peer_buf_alloc - (vs.tx_cnt - vs.peer_fwd_cnt)) % VsWrap

peer_credit ==
    LET in_flight == (vs.tx_cnt - vs.peer_fwd_cnt) % VsWrap
    IN  IF vs.peer_buf_alloc > in_flight THEN vs.peer_buf_alloc - in_flight ELSE 0

virtio_vsock_connected == vs.present /\ vs.connected

WriteBegins(n) ==
    /\ ~cwrite.on /\ cwrite.last + n <= MaxVsBytes
    /\ cwrite' = [on |-> TRUE, next |-> cwrite.last + 1, last |-> cwrite.last + n, wait |-> FALSE]
    /\ UNCHANGED <<vs, peers, vsRing, vsReset, vsOut, vsUsed>>

Smallest(S) == CHOOSE n \in S : \A m \in S : n <= m
BytesTo(where, n) == [i \in 1 .. n |-> <<where, cwrite.next + i - 1>>]

\* One OP_RW packet: as much as the payload and the credit allow.
SendChunk ==
    /\ cwrite.on /\ ~cwrite.wait /\ cwrite.next <= cwrite.last
    /\ virtio_vsock_connected /\ peer_credit > 0
    /\ LET n == Smallest({cwrite.last - cwrite.next + 1, TX_PAYLOAD, peer_credit})
           p == vs.peer_port
           arrives == IF peers[p].st \in {"open", "closing"} THEN [peers EXCEPT ![p].got = @ + n] ELSE peers
       IN  \/ /\ vs' = [vs EXCEPT !.tx_cnt = (@ + n) % VsWrap, !.fwd_cnt_told = vs.fwd_cnt]
              /\ peers' = arrives
              /\ vsOut' = vsOut \o BytesTo(p, n)
              /\ cwrite' = [cwrite EXCEPT !.next = @ + n]
              /\ UNCHANGED vsUsed
           \/ /\ vsUsed.faults < MaxVsFaults
              /\ vsUsed' = [vsUsed EXCEPT !.faults = @ + 1]
              /\ vs' = TimedOut(vs)
              /\ \/ peers' = arrives /\ vsOut' = vsOut \o BytesTo(p, n)
                 \/ UNCHANGED <<peers, vsOut>>
              /\ UNCHANGED cwrite
    /\ UNCHANGED <<vsRing, vsReset>>

\* No credit: ask, then poll.
AskCredit ==
    /\ cwrite.on /\ ~cwrite.wait /\ cwrite.next <= cwrite.last
    /\ virtio_vsock_connected /\ peer_credit = 0
    /\ tx_packet("CREDIT_REQUEST", vs.peer_port, vs)
    /\ cwrite' = [cwrite EXCEPT !.wait = TRUE]
    /\ UNCHANGED <<vsRing, vsReset, vsOut>>

RestToCom1(from) == vsOut \o [i \in 1 .. cwrite.last - from + 1 |-> <<"com1", from + i - 1>>]

\* The wait ends: with credit (whosever it is by now), or with the rest to COM1.
WaitEnds ==
    /\ cwrite.wait
    /\ LET goesOn == virtio_vsock_connected /\ peer_credit > 0
       IN  /\ cwrite' = [cwrite EXCEPT !.wait = FALSE, !.on = goesOn]
           /\ vsOut' = IF goesOn THEN vsOut ELSE RestToCom1(cwrite.next)
    /\ UNCHANGED <<vs, peers, vsRing, vsReset, vsUsed>>

\* Everything sent, or the connection gone: what is left goes to COM1.
WriteEnds ==
    /\ cwrite.on /\ ~cwrite.wait
    /\ cwrite.next > cwrite.last \/ ~virtio_vsock_connected
    /\ cwrite' = [cwrite EXCEPT !.on = FALSE]
    /\ vsOut' = RestToCom1(cwrite.next)
    /\ UNCHANGED <<vs, peers, vsRing, vsReset, vsUsed>>

VsockNext ==
    \/ \E p \in VPorts :
          \/ \E a \in VsAllocs : \/ HostConnects(p, a)
                                 \/ \E op \in {"CREDIT_UPDATE", "CREDIT_REQUEST"} : HostTells(p, a, op)
          \/ HostTypes(p)
          \/ HostReads(p)
          \/ \E op \in {"SHUTDOWN", "RST"} : HostCloses(p, op)
          \/ HostStrays(p)
    \/ TransportResets
    \/ PollEvent
    \/ PollPacket
    \/ \E n \in 1 .. MaxWrite : WriteBegins(n)
    \/ SendChunk
    \/ AskCredit
    \/ WaitEnds
    \/ WriteEnds

VsockSpec == VsockInit /\ [][VsockNext]_vsockVars
----------------------------------------------------------------------------
\* "Whatever vsock could not take falls through to COM1 below, so output is
\* never lost" (console.c:300): between writes every byte went somewhere, in
\* order, and once unless a transmit timed out, whatever the peer, the device
\* and a change of peer in the wait for credit did meanwhile.
OutputKept ==
    ~cwrite.on =>
        /\ \A b \in 1 .. cwrite.last : \E i \in 1 .. Len(vsOut) : vsOut[i][2] = b
        /\ vs.present => \A i \in 1 .. Len(vsOut) : vsOut[i][2] = i

\* The driver never has more unread at the host than the largest buffer this
\* connection was granted, through wrapping counters, a shrinking buffer and
\* connections that follow one another (virtio_vsock.c:472).
CreditKept ==
    \A p \in VPorts : peers[p].got - peers[p].eaten <= peers[p].most

\* The vsock console: no output is lost, whatever the peer does, and no byte
\* is sent beyond the peer's credit (console.c:300, virtio_vsock.c:472).
ConsoleOutputKept == OutputKept /\ CreditKept
============================================================================

------------------------------- MODULE Bridge -------------------------------
(***************************************************************************)
(* The serial bridge of swarm_svc (user/swarm_svc.c) over the COM2 driver  *)
(* (kernel/src/com2_uart.c): the frame parser with its accumulator, the    *)
(* PING and STATUS frames it answers, and the route to ghostd it learns    *)
(* once.  A frame is magic, type, length, payload and a check byte; bytes  *)
(* are small integers, the length is one byte and the check byte is a sum. *)
(* The host sends whole frames and noise; the line hands them over in      *)
(* pieces of any size.                                                     *)
(***************************************************************************)
EXTENDS Integers, Sequences
LOCAL INSTANCE SequencesExt

CONSTANTS SWARM_MAX_PAYLOAD, ReadCom2, HostPayloads, MaxHostFrames, MaxGhostLives

BridgeConstants ==
    /\ {SWARM_MAX_PAYLOAD, ReadCom2} \subseteq Nat \ {0}
    /\ {MaxHostFrames, MaxGhostLives} \subseteq Nat
    /\ \A p \in HostPayloads : Len(p) <= SWARM_MAX_PAYLOAD

ASSUME BridgeAssumption == BridgeConstants

VARIABLES uart,       \* ready, nodev and dead of the driver
          line,       \* bytes from the host not read yet
          rxbuf,      \* the accumulator
          parsing,    \* poll_com2 is in its frame loop
          dispatched, \* frames dispatched, in order
          hostSent,   \* what the host put on the line: frames and noise, in order
          out,        \* frames emitted on the line
          route       \* ghostd's pid now, and the one learned at _start

bridgeVars == <<uart, line, rxbuf, parsing, dispatched, hostSent, out, route>>

MAGIC == 5
PING == 3
STATUS == 2
SWARM_HDR_LEN == 3
NoFrame == << >>
RxSize == SWARM_HDR_LEN + SWARM_MAX_PAYLOAD + 1

\* swarm_crc8 over type, length and payload.
swarm_crc8(bytes) == FoldSeq(LAMBDA b, acc : (3 * acc + b) % 5, 1, bytes)

\* emit_frame: the bytes of one frame.
FrameBytes(type, payload) ==
    LET covered == <<type, Len(payload)>> \o payload
    IN  <<MAGIC>> \o covered \o <<swarm_crc8(covered)>>

\* com2_init: the probe finds a UART or not; discover_ghostd learns the pid or not.
BridgeInit ==
    /\ uart \in [nodev : BOOLEAN, dead : {FALSE}]
    /\ line = << >> /\ rxbuf = << >> /\ parsing = FALSE
    /\ dispatched = << >> /\ hostSent = << >> /\ out = << >>
    /\ route \in [pid : {1}, learned : {0, 1}]
----------------------------------------------------------------------------
\* The host keeps at most an accumulator's worth of bytes unparsed.
HostRoom(n) == Len(line) + Len(rxbuf) + n <= RxSize

HostPuts(bytes, what) ==
    /\ ~uart.nodev
    /\ Len(hostSent) < MaxHostFrames
    /\ HostRoom(Len(bytes))
    /\ line' = line \o bytes
    /\ hostSent' = Append(hostSent, what)
    /\ UNCHANGED <<uart, rxbuf, parsing, dispatched, out, route>>

HostPipes(type, payload) == HostPuts(FrameBytes(type, payload), <<type, payload>>)

\* A frame whose check byte was damaged, or noise.
HostDamaged(payload) ==
    LET b == FrameBytes(PING, payload)
    IN  HostPuts([b EXCEPT ![Len(b)] = (@ + 1) % 5], NoFrame)
HostNoise(b) == HostPuts(b, NoFrame)

\* Bytes that are no magic, and a magic with a length no frame has.
Noises == {<<1>>, <<3>>, <<MAGIC, 1, SWARM_MAX_PAYLOAD + 1>>}

Kept(n) == IF n > RxSize THEN RxSize ELSE n

\* com2_read and the append: up to a chunk, what does not fit is lost.
poll_com2 ==
    /\ ~parsing /\ line # << >>
    /\ \E n \in 1 .. ReadCom2 :
          /\ n <= Len(line)
          /\ line' = SubSeq(line, n + 1, Len(line))
          /\ rxbuf' = LET all == rxbuf \o SubSeq(line, 1, n)
                      IN  SubSeq(all, 1, Kept(Len(all)))
    /\ parsing' = TRUE
    /\ UNCHANGED <<uart, dispatched, hostSent, out, route>>

\* resync: drop up to the first magic.
Resynced(b) ==
    LET at == {i \in 1 .. Len(b) : b[i] = MAGIC}
    IN  IF at = {} THEN << >> ELSE SubSeq(b, CHOOSE i \in at : \A j \in at : i <= j, Len(b))

\* com2_send_all over com2_write: a wedged port swallows the rest for good.
Emit(type, payload) ==
    \/ ~uart.dead /\ out' = Append(out, <<type, payload>>) /\ UNCHANGED uart
    \/ ~uart.nodev /\ out' = out /\ uart' = [uart EXCEPT !.dead = TRUE]
    \/ uart.dead /\ UNCHANGED <<out, uart>>

\* ghost_query: the learned pid is the one asked; no route or no answer, no reply.
ghost_query ==
    \/ route.learned = route.pid /\ Emit(STATUS, <<0>>)
    \/ UNCHANGED <<out, uart>>

\* dispatch_frame: PING is echoed, a STATUS request asks ghostd, the rest is ignored.
dispatch_frame(type, payload) ==
    \/ type = PING /\ Emit(4, payload)
    \/ type = STATUS /\ ghost_query
    \/ type \notin {PING, STATUS} /\ UNCHANGED <<out, uart>>

RefusesLongest(len) == len >= SWARM_MAX_PAYLOAD
BogusLength(len) == len > SWARM_MAX_PAYLOAD

\* One turn of the frame loop on a synchronised buffer b.
ParseStep ==
    LET b     == Resynced(rxbuf)
        len   == b[3]
        total == SWARM_HDR_LEN + len + 1
        body  == SubSeq(b, SWARM_HDR_LEN + 1, SWARM_HDR_LEN + len)
    IN  /\ parsing
        /\ \/ /\ Len(b) < SWARM_HDR_LEN
              /\ rxbuf' = b /\ parsing' = FALSE /\ UNCHANGED <<dispatched, out, uart>>
           \/ /\ Len(b) >= SWARM_HDR_LEN /\ BogusLength(len)
              /\ rxbuf' = Tail(b) /\ UNCHANGED <<parsing, dispatched, out, uart>>
           \/ /\ Len(b) >= SWARM_HDR_LEN /\ ~BogusLength(len) /\ Len(b) < total
              /\ rxbuf' = b /\ parsing' = FALSE /\ UNCHANGED <<dispatched, out, uart>>
           \/ /\ Len(b) >= SWARM_HDR_LEN /\ ~BogusLength(len) /\ Len(b) >= total
              /\ rxbuf' = SubSeq(b, total + 1, Len(b)) /\ UNCHANGED parsing
              /\ IF swarm_crc8(SubSeq(b, 2, SWARM_HDR_LEN + len)) = b[total]
                 THEN /\ dispatched' = Append(dispatched, <<b[2], body>>)
                      /\ dispatch_frame(b[2], body)
                 ELSE UNCHANGED <<dispatched, out, uart>>
        /\ UNCHANGED <<line, hostSent, route>>

\* ghostd is reborn under another pid; nothing tells swarm_svc.
GhostReborn ==
    /\ route.pid < MaxGhostLives
    /\ route' = [route EXCEPT !.pid = @ + 1]
    /\ UNCHANGED <<uart, line, rxbuf, parsing, dispatched, hostSent, out>>

BridgeNext ==
    \/ \E p \in HostPayloads : \/ \E type \in {PING, STATUS, 1} : HostPipes(type, p)
                               \/ HostDamaged(p)
    \/ \E b \in Noises : HostNoise(b)
    \/ poll_com2
    \/ ParseStep
    \/ GhostReborn

BridgeSpec == BridgeInit /\ [][BridgeNext]_bridgeVars /\ WF_bridgeVars(poll_com2 \/ ParseStep)
----------------------------------------------------------------------------
Frames(what) == SelectSeq(what, LAMBDA w : w # NoFrame)

\* Whatever the sizes of the pieces, and with damaged frames, noise and magic
\* bytes inside payloads between them, every intact frame is dispatched exactly
\* once and in order, none other ever is, and the accumulator does not keep the
\* bytes of a finished frame (poll_com2, swarm_svc.c:597-634).
FramesDispatched ==
    /\ IsPrefix(dispatched, Frames(hostSent))
    /\ line = << >> /\ ~parsing => dispatched = Frames(hostSent) /\ rxbuf = << >>
============================================================================

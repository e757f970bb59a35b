-------------------------------- MODULE Tcp --------------------------------
(***************************************************************************)
(* The ring-3 TCP of kernel/src/net_tcp.c: one active-open connection      *)
(* block and a table of passive-open blocks per kernel.  Two kernels (or   *)
(* one) run the same code over a network that loses, duplicates and        *)
(* reorders segments.  The net thread owns the state machine; system calls *)
(* (interrupts off, hence atomic) read and write a few shared fields and   *)
(* post request flags.  The net thread is preemptible, and the two helpers *)
(* that wipe a block are the places where it is caught half way: a wipe is *)
(* three steps here, "call" (arguments read), the zeroing, and the final   *)
(* store of the state.                                                     *)
(*                                                                         *)
(* Timers are abstracted to a choice: a service pass finds the timer of a  *)
(* block due or not.  A byte of a stream is represented by its position in *)
(* that stream, so a lost, repeated or swapped byte is seen.               *)
(***************************************************************************)
EXTENDS Integers, Sequences, FiniteSets

CONSTANTS
  Hosts,         \* the kernels that run the stack
  Pids,          \* process ids; Home[p] is the kernel that runs p
  Home,
  Clients,       \* client blocks (tcb), one per kernel that connects
  Slots,         \* server blocks (tcb_srv[]), a set of naturals per kernel
  HostOf,        \* the kernel of a block
  Ports,         \* the ports programs may listen on or connect to
  MSS, TX_BUF, RX_BUF, IW, MAX_RETRIES,
  SeqMod,        \* the size of the sequence space (2^32 in the code)
  EPHEMERAL,     \* the first ephemeral port
  Stream,        \* bytes the program of a block sends on one connection (bound)
  MaxOpens,      \* connections opened by either side (bound)
  ClosesEarly,   \* FALSE: programs close only an open connection, after their bytes
  Troubles,      \* how many <<faults, deaths>> a behaviour may have (bound); a fault is
                 \* a loss, a duplication or a retransmission timeout
  NetCap,        \* segments in flight; a send past it loses one (bound)
  Duplicates     \* {FALSE}, or BOOLEAN: a delivered segment may stay in flight

Ends == Clients \cup Slots

ASSUME TcpConstants ==
  /\ {MSS, TX_BUF, RX_BUF, IW, NetCap} \subseteq Nat \ {0}
  /\ SeqMod > 2 * (TX_BUF + 2)
  /\ Clients \cap Slots = {} /\ HostOf \in [Ends -> Hosts]
  /\ Home \in [Pids -> Hosts] /\ 0 \notin Pids
  /\ Duplicates \subseteq BOOLEAN /\ Troubles \subseteq Nat \X Nat

VARIABLES
  tcb,       \* [Ends -> connection block]
  wipe,      \* [Hosts -> the wipe the net thread is in, or NoWipe]
  net,       \* segments in flight
  opens,     \* connections opened so far (drives ports and initial numbers)
  alive,     \* the process ids in use
  faults,    \* losses, duplications and timeouts so far
  deaths,    \* processes that died so far
  sentTo,    \* history: bytes SEND accepted on the block's connection
  got        \* history: the bytes RECV returned on the block's connection

tcpVars == <<tcb, wipe, net, opens, faults, alive, deaths, sentTo, got>>

NoAddr == <<"none", 0>>

NoWipe == [end |-> 0, to |-> "none", stage |-> "none", owner |-> 0, lport |-> 0]

(* A block after the byte loop of tcp_reset_closed: everything but the     *)
(* state is zero.                                                          *)
Blank(st) ==
  [state |-> st, owner |-> 0, raddr |-> NoAddr, lport |-> 0,
   mac |-> FALSE, iss |-> 0, una |-> 0, nxt |-> 0, rcv |-> 0,
   rxq |-> << >>, txq |-> << >>, fly |-> 0, wnd |-> 0, cwnd |-> 0,
   ssthresh |-> 0, recover |-> 0, dup |-> 0, fin |-> FALSE, eof |-> FALSE,
   adv |-> 0, retries |-> 0, connect |-> FALSE, close |-> FALSE,
   abort |-> FALSE, listen |-> FALSE, creq |-> NoAddr, lreq |-> 0]

TcpInit ==
  /\ tcb = [e \in Ends |-> Blank("CLOSED")]
  /\ wipe = [h \in Hosts |-> NoWipe]
  /\ net = {} /\ opens = 0 /\ faults = 0 /\ deaths = 0
  /\ alive = Pids
  /\ sentTo = [e \in Ends |-> 0] /\ got = [e \in Ends |-> << >>]

(***************************************************************************)
(* Sequence numbers: signed comparison of a wrapping difference.           *)
(***************************************************************************)
Plus(a, n) == (a + n) % SeqMod
Minus(a, b) == (a - b) % SeqMod
SEQ_GT(a, b) == Minus(a, b) \in 1 .. (SeqMod \div 2 - 1)

Least(a, b) == IF a < b THEN a ELSE b
Most(a, b) == IF a > b THEN a ELSE b

(* Initial send number: the tick times an odd constant; a later open never *)
(* meets the tick of an earlier one.                                       *)
InitialSeq == (opens * 5 + SeqMod - 2) % SeqMod

(***************************************************************************)
(* Output.                                                                 *)
(***************************************************************************)
tcp_rx_free(c) == RX_BUF - Len(c.rxq)

AdvertisedWindow(c) == IF tcp_rx_free(c) < MSS THEN 0 ELSE tcp_rx_free(c)

(* The segment tcp_xmit puts on the wire: nothing before the next hop is   *)
(* known.                                                                  *)
tcp_xmit(e, c, seq, flags, data) ==
  IF c.mac
    THEN {[dst |-> c.raddr, src |-> <<HostOf[e], c.lport>>, flags |-> flags,
           seq |-> seq, ack |-> c.rcv, wnd |-> AdvertisedWindow(c), data |-> data]}
    ELSE {}

(* ... and every segment with ACK refreshes the window last advertised.    *)
Advertised(c) == IF c.mac THEN [c EXCEPT !.adv = AdvertisedWindow(c)] ELSE c

tcp_ack(e, c) == tcp_xmit(e, c, c.nxt, {"ACK"}, << >>)

tcp_xmit_data(e, c, off, seq, len) ==
  tcp_xmit(e, c, seq, {"PSH", "ACK"}, SubSeq(c.txq, off + 1, off + len))

(* The first in-flight segment again (fast retransmit, partial ACK).       *)
tcp_retransmit_head(e, c) ==
  IF c.fly = 0 THEN {} ELSE tcp_xmit_data(e, c, 0, c.una, Least(c.fly, MSS))

tcp_send_init(c) ==
  [c EXCEPT !.txq = << >>, !.fly = 0, !.wnd = MSS, !.cwnd = IW,
            !.ssthresh = TX_BUF, !.recover = c.una, !.dup = 0]

(* What the network keeps of what is in flight and what is sent now.       *)
Carry(before, out) ==
  LET all == before \cup out
  IN  IF Cardinality(all) <= NetCap THEN {all}
      ELSE {S \in SUBSET all : Cardinality(S) = NetCap}

(* The result of a net-thread step on one block: the block, what it sends, *)
(* and the state the block is to be wiped to ("none": it is not wiped).    *)
Outcome(c, out, to) == [c |-> c, out |-> out, to |-> to]

(***************************************************************************)
(* tcp_send_window: retransmission timeout, zero-window probe, and the     *)
(* loop that fills min(peer window, congestion window).                    *)
(***************************************************************************)
(* Go back to the first unacknowledged byte with a one-segment window.     *)
GoBack(c) ==
  [c EXCEPT !.retries = @ + 1, !.ssthresh = Most(Minus(c.nxt, c.una) \div 2, 2 * MSS),
            !.cwnd = MSS, !.recover = c.nxt, !.nxt = c.una, !.fly = 0, !.dup = 0]

(* The lengths of the segments the fill loop cuts: never a full segment cut *)
(* down to a smaller hole while data is in flight.                          *)
Burst(staged0, out0, wnd) ==
  LET f[staged \in 0 .. staged0] ==
        LET out  == out0 + (staged0 - staged)
            want == Least(staged, MSS)
            len  == IF want <= wnd - out THEN want
                    ELSE IF out > 0 THEN 0 ELSE wnd - out
        IN  IF staged = 0 \/ out >= wnd \/ len = 0 THEN << >>
            ELSE <<len>> \o f[staged - len]
  IN  f[staged0]

(* Transmit n bytes of the staged ones, cut as `lens` says.                *)
Transmit(e, c, lens) ==
  LET before[i \in 0 .. Len(lens)] == IF i = 0 THEN 0 ELSE before[i - 1] + lens[i]
      total == before[Len(lens)]
  IN  Outcome([Advertised(c) EXCEPT !.nxt = Plus(c.nxt, total), !.fly = @ + total],
              UNION {tcp_xmit_data(e, c, c.fly + before[i - 1],
                                   Plus(c.nxt, before[i - 1]), lens[i]) : i \in 1 .. Len(lens)},
              "none")

tcp_send_window(e, c0, due) ==
  LET timeout == Minus(c0.nxt, c0.una) > 0 /\ due
      c       == IF timeout THEN GoBack(c0) ELSE c0
      staged  == Len(c.txq) - c.fly
      out     == Minus(c.nxt, c.una)
  IN  IF timeout /\ c.retries > MAX_RETRIES
        THEN Outcome([c0 EXCEPT !.state = "ERROR", !.retries = @ + 1], {}, "none")
      ELSE IF staged = 0 THEN Outcome(c, {}, "none")
      ELSE IF c.wnd = 0
        THEN IF out = 0 /\ due /\ ~timeout THEN Transmit(e, c, <<1>>) ELSE Outcome(c, {}, "none")
      ELSE LET lens == Burst(staged, out, Least(c.wnd, c.cwnd))
           IN  IF lens = << >> THEN Outcome(c, {}, "none") ELSE Transmit(e, c, lens)

(***************************************************************************)
(* tcp_rx_one: one ordered pass over a segment for a block it matches.     *)
(***************************************************************************)
Has(s, f) == f \in s.flags

Matches(e, s) ==
  LET c == tcb[e]
  IN  /\ c.state \notin {"CLOSED", "ERROR"}
      /\ s.dst = <<HostOf[e], c.lport>>
      /\ IF c.state = "LISTEN" THEN s.flags \cap {"SYN", "ACK", "RST"} = {"SYN"}
                               ELSE s.src = c.raddr

(* Passive open: answer the SYN from the frame's own addresses.            *)
RxListen(e, c, s) ==
  LET d == tcp_send_init([c EXCEPT !.raddr = s.src, !.mac = TRUE, !.rcv = Plus(s.seq, 1),
                                   !.iss = InitialSeq, !.una = Plus(InitialSeq, 1),
                                   !.nxt = Plus(InitialSeq, 1)])
      f == [Advertised(d) EXCEPT !.retries = 0, !.state = "SYN_RCVD"]
  IN  Outcome(f, tcp_xmit(e, f, f.iss, {"SYN", "ACK"}, << >>), "none")

(* A reset counts only where RFC 5961 lets it.                             *)
RxReset(c, s) ==
  LET ok == IF c.state = "SYN_SENT" THEN Has(s, "ACK") /\ s.ack = c.nxt ELSE s.seq = c.rcv
  IN  IF ~ok THEN Outcome(c, {}, "none")
      ELSE IF c.state = "SYN_RCVD" THEN Outcome(c, {}, "LISTEN")
      ELSE Outcome([c EXCEPT !.state = "ERROR"], {}, "none")

RxSynSent(e, c, s) ==
  IF {"SYN", "ACK"} \subseteq s.flags /\ s.ack = c.nxt
    THEN LET d == [c EXCEPT !.rcv = Plus(s.seq, 1), !.una = s.ack, !.wnd = s.wnd,
                            !.retries = 0, !.state = "ESTABLISHED"]
         IN  Outcome(Advertised(d), tcp_ack(e, d), "none")
    ELSE Outcome(c, {}, "none")

(* (1) an acknowledgement that advances: release the span, grow the window, *)
(* and on a partial one resend the next hole.                               *)
AckAdvances(e, c, s) ==
  LET acked == Minus(s.ack, c.una)
      grown == IF c.cwnd < c.ssthresh THEN c.cwnd + Least(acked, MSS)
                                      ELSE c.cwnd + (MSS * MSS) \div c.cwnd
      d     == [c EXCEPT !.una = s.ack, !.retries = 0, !.dup = 0]
      f     == [d EXCEPT !.txq = SubSeq(@, acked + 1, Len(@)), !.fly = @ - acked,
                         !.cwnd = Least(grown, TX_BUF)]
  IN  IF c.fin THEN Outcome(d, {}, "none")
      ELSE IF SEQ_GT(f.recover, f.una) /\ f.fly > 0
        THEN Outcome(Advertised(f), tcp_retransmit_head(e, f), "none")
      ELSE Outcome(f, {}, "none")

(* A duplicate one: the third halves the window and resends the head.      *)
AckDuplicate(e, c) ==
  LET d == [c EXCEPT !.dup = Least(@ + 1, 4)]   \* past 3 the count is never read
      t == Most(Minus(c.nxt, c.una) \div 2, 2 * MSS)
  IN  IF d.dup = 3 /\ ~SEQ_GT(c.recover, c.una)
        THEN Outcome(Advertised([d EXCEPT !.ssthresh = t, !.cwnd = t, !.recover = c.nxt]),
                     tcp_retransmit_head(e, d), "none")
        ELSE Outcome(d, {}, "none")

RxAck(e, c, s) ==
  LET advances == SEQ_GT(s.ack, c.una) /\ ~SEQ_GT(s.ack, c.nxt)
      repeats  == /\ s.ack = c.una /\ s.data = << >> /\ s.wnd = c.wnd /\ ~c.fin
                  /\ SEQ_GT(c.nxt, c.una)
      o == IF advances THEN AckAdvances(e, c, s)
           ELSE IF repeats THEN AckDuplicate(e, c) ELSE Outcome(c, {}, "none")
      d == IF s.ack = o.c.una THEN [o.c EXCEPT !.wnd = s.wnd, !.retries = 0] ELSE o.c
      finAcked == advances /\ d.una = d.nxt /\ d.fin
  IN  IF ~Has(s, "ACK") THEN Outcome(c, {}, "none")
      ELSE IF finAcked /\ d.state = "LAST_ACK" THEN Outcome(d, o.out, "CLOSED")
      ELSE IF finAcked /\ d.state = "FIN_WAIT_1"
        THEN Outcome([d EXCEPT !.state = "FIN_WAIT_2"], o.out, "none")
      ELSE IF finAcked /\ d.state = "CLOSING"
        THEN Outcome([d EXCEPT !.state = "TIME_WAIT"], o.out, "none")
      ELSE Outcome(d, o.out, "none")

(* A plausible bug: a repeated segment is appended again.                  *)
TakesRepeats(c, s) ==
  IF Len(s.data) > 0 /\ ~SEQ_GT(s.seq, c.rcv) /\ Len(s.data) <= tcp_rx_free(c)
    THEN [c EXCEPT !.rxq = @ \o s.data, !.rcv = Plus(@, Len(s.data))]
    ELSE c

(* (2) payload that starts exactly at rcv_nxt and fits.                    *)
RxPayload(c, s) ==
  IF Len(s.data) > 0 /\ s.seq = c.rcv /\ Len(s.data) <= tcp_rx_free(c)
    THEN [c EXCEPT !.rxq = @ \o s.data, !.rcv = Plus(@, Len(s.data))]
    ELSE c

(* (3) a FIN whose number is the next expected one.                        *)
RxFin(c, s) ==
  IF Has(s, "FIN") /\ Plus(s.seq, Len(s.data)) = c.rcv
    THEN [c EXCEPT !.rcv = Plus(@, 1), !.eof = TRUE,
                   !.state = CASE @ = "ESTABLISHED" -> "CLOSE_WAIT"
                               [] @ = "FIN_WAIT_1"  -> "CLOSING"
                               [] @ = "FIN_WAIT_2"  -> "TIME_WAIT"
                               [] OTHER             -> @]
    ELSE c

(* (1) to (4): the last part acknowledges whatever took sequence space.    *)
RxOrdered(e, c, s) ==
  LET o == RxAck(e, c, s)
      d == RxFin(RxPayload(o.c, s), s)
  IN  IF o.to # "none" THEN o
      ELSE IF s.data # << >> \/ Has(s, "FIN")
        THEN Outcome(Advertised(d), o.out \cup tcp_ack(e, d), "none")
        ELSE Outcome(d, o.out, "none")

RxSynRcvd(e, c, s) ==
  IF s.flags \cap {"SYN", "ACK"} = {"SYN"}
    THEN IF Plus(s.seq, 1) = c.rcv
           THEN Outcome(Advertised(c), tcp_xmit(e, c, c.iss, {"SYN", "ACK"}, << >>), "none")
           ELSE Outcome(c, {}, "none")
  ELSE IF ~Has(s, "ACK") \/ s.ack # c.nxt THEN Outcome(c, {}, "none")
  ELSE RxOrdered(e, [c EXCEPT !.state = "ESTABLISHED"], s)

tcp_rx_one(e, s) ==
  LET c == tcb[e]
  IN  IF c.state = "LISTEN" THEN RxListen(e, c, s)
      ELSE IF Has(s, "RST") THEN RxReset(c, s)
      ELSE IF c.state = "SYN_SENT" THEN RxSynSent(e, c, s)
      ELSE IF c.state = "SYN_RCVD" THEN RxSynRcvd(e, c, s)
      ELSE RxOrdered(e, c, s)

(***************************************************************************)
(* The net thread: what a step on one block does to the whole state.  A    *)
(* wipe is begun here and carried out by ZeroBlock and StoreState.         *)
(***************************************************************************)
Apply(e, o, flying) ==
  LET h == HostOf[e]
  IN  /\ tcb' = [tcb EXCEPT ![e] = o.c]
      /\ net' \in Carry(flying, o.out)
      /\ wipe' = IF o.to = "none" THEN wipe
                 ELSE [wipe EXCEPT ![h] =
                        [end |-> e, to |-> o.to, stage |-> "called",
                         owner |-> IF o.to = "LISTEN" THEN o.c.owner ELSE 0,
                         lport |-> IF o.to = "LISTEN" THEN o.c.lport ELSE 0]]

NetThreadFree(h) == wipe[h] = NoWipe

(* Client block first, then the server slots in order: the first match     *)
(* consumes the segment; one that matches nothing is dropped.              *)
Rank(e) == IF e \in Clients THEN 0 ELSE e
Consumes(e, s) ==
  /\ Matches(e, s)
  /\ \A f \in Ends : HostOf[f] = HostOf[e] /\ Rank(f) < Rank(e) => ~Matches(f, s)

Opened(e) ==
  /\ opens' = opens + 1
  /\ sentTo' = [sentTo EXCEPT ![e] = 0] /\ got' = [got EXCEPT ![e] = << >>]

tcp_rx_demux ==
  \E s \in net, stays \in Duplicates :
    /\ faults' = faults + (IF stays THEN 1 ELSE 0) /\ <<faults', deaths>> \in Troubles
    /\ s.dst[1] \in Hosts /\ NetThreadFree(s.dst[1])
    /\ LET rest == IF stays THEN net ELSE net \ {s}
       IN  \/ \E e \in Ends :
                /\ Consumes(e, s)
                /\ Apply(e, tcp_rx_one(e, s), rest)
                /\ IF tcb[e].state = "LISTEN" THEN opens < MaxOpens /\ Opened(e)
                                              ELSE UNCHANGED <<opens, sentTo, got>>
           \/ /\ \A e \in Ends : ~Matches(e, s)
              /\ net' = rest /\ UNCHANGED <<tcb, wipe, opens, sentTo, got>>
    /\ UNCHANGED <<alive, deaths>>

(* A lost segment.                                                         *)
Lose ==
  /\ faults' = faults + 1 /\ <<faults', deaths>> \in Troubles
  /\ \E s \in net : net' = net \ {s}
  /\ UNCHANGED <<tcb, wipe, opens, alive, deaths, sentTo, got>>

(* One retransmission of a control segment, or exhaustion.                 *)
Again(e, c, seq, flags, exhausted) ==
  LET d == [c EXCEPT !.retries = @ + 1]
  IN  IF d.retries > MAX_RETRIES THEN exhausted
      ELSE Outcome(IF "ACK" \in flags THEN Advertised(d) ELSE d,
                   tcp_xmit(e, d, seq, flags, << >>), "none")

Failed(c) == Outcome([c EXCEPT !.state = "ERROR", !.retries = @ + 1], {}, "none")

(* The tail of tcp_service_one for an open connection: data, then the FIN  *)
(* once every staged byte is acknowledged, then the window update.         *)
ServiceOpen(e, c0, due) ==
  LET o == tcp_send_window(e, c0, due)
      c == o.c
      closing == c.close /\ ~c.fin /\ c.txq = << >> /\ c.una = c.nxt
      d == [Advertised(c) EXCEPT !.nxt = Plus(@, 1), !.fin = TRUE, !.retries = 0,
                                 !.state = IF @ = "ESTABLISHED" THEN "FIN_WAIT_1" ELSE "LAST_ACK"]
  IN  IF c.state = "ERROR" THEN o
      ELSE IF closing
        THEN Outcome(d, o.out \cup tcp_xmit(e, c, c.nxt, {"FIN", "ACK"}, << >>), "none")
      ELSE IF tcp_rx_free(c) >= MSS /\ c.adv < MSS
        THEN Outcome(Advertised(c), o.out \cup tcp_ack(e, c), "none")
      ELSE o

(* A requested connect: next hop resolved, SYN out - or ERROR.             *)
ServiceConnect(e, c, resolved) ==
  LET r == [c EXCEPT !.connect = FALSE, !.raddr = c.creq]
      d == tcp_send_init([r EXCEPT !.mac = TRUE, !.iss = InitialSeq,
                                   !.una = Plus(InitialSeq, 1), !.nxt = Plus(InitialSeq, 1),
                                   !.rcv = 0, !.retries = 0, !.state = "SYN_SENT"])
  IN  IF ~resolved THEN Outcome([r EXCEPT !.state = "ERROR"], {}, "none")
      ELSE Outcome(d, tcp_xmit(e, d, d.iss, {"SYN"}, << >>), "none")

ServiceOutcome(e, c, due, resolved) ==
  IF c.abort
    THEN Outcome(c, IF c.state \in {"CLOSED", "SYN_SENT"} THEN {}
                    ELSE tcp_xmit(e, c, c.nxt, {"RST", "ACK"}, << >>), "CLOSED")
  ELSE IF c.state = "CLOSED" /\ c.listen
    THEN Outcome([c EXCEPT !.listen = FALSE, !.lport = c.lreq, !.state = "LISTEN"], {}, "none")
  ELSE IF c.state = "CLOSED" /\ c.connect THEN ServiceConnect(e, c, resolved)
  ELSE IF c.state = "SYN_SENT" /\ due THEN Again(e, c, c.iss, {"SYN"}, Failed(c))
  ELSE IF c.state = "SYN_RCVD" /\ due
    THEN Again(e, c, c.iss, {"SYN", "ACK"}, Outcome([c EXCEPT !.retries = @ + 1], {}, "LISTEN"))
  ELSE IF c.state \in {"ESTABLISHED", "CLOSE_WAIT"} THEN ServiceOpen(e, c, due)
  ELSE IF /\ c.state \in {"FIN_WAIT_1", "LAST_ACK", "CLOSING"} /\ due
          /\ c.fin /\ SEQ_GT(c.nxt, c.una)
    THEN Again(e, c, Minus(c.nxt, 1), {"FIN", "ACK"}, Failed(c))
  ELSE IF c.state = "TIME_WAIT" /\ due THEN Outcome(c, {}, "CLOSED")
  ELSE Outcome(c, {}, "none")

(* One block's turn of tcp_service.                                        *)
tcp_service_one(e) ==
  /\ NetThreadFree(HostOf[e])
  /\ \E due, resolved \in BOOLEAN :
       LET o == ServiceOutcome(e, tcb[e], due, resolved)
           starts == o.c.state = "SYN_SENT" /\ tcb[e].state = "CLOSED"
       IN  /\ faults' = faults + (IF o.c.retries > tcb[e].retries THEN 1 ELSE 0)
           /\ <<faults', deaths>> \in Troubles
           /\ Apply(e, o, net)
           /\ IF starts THEN opens < MaxOpens /\ Opened(e) ELSE UNCHANGED <<opens, sentTo, got>>
  /\ UNCHANGED <<alive, deaths>>

(* The byte loop of the wipe, up to but not including the state.           *)
ZeroBlock(h) ==
  /\ wipe[h].stage = "called"
  /\ tcb' = [tcb EXCEPT ![wipe[h].end] = Blank(@.state)]
  /\ wipe' = [wipe EXCEPT ![h].stage = "zeroed"]
  /\ UNCHANGED <<net, opens, faults, alive, deaths, sentTo, got>>

(* The last stores: the saved owner and port (tcp_rearm_listen), then the  *)
(* state, which is what makes the block visible again.                     *)
StoreState(h) ==
  /\ wipe[h].stage = "zeroed"
  /\ tcb' = [tcb EXCEPT ![wipe[h].end] =
               [@ EXCEPT !.owner = wipe[h].owner, !.lport = wipe[h].lport,
                         !.state = wipe[h].to]]
  /\ wipe' = [wipe EXCEPT ![h] = NoWipe]
  /\ UNCHANGED <<net, opens, faults, alive, deaths, sentTo, got>>

(***************************************************************************)
(* System calls.  A block is found by its owner id alone.                  *)
(***************************************************************************)
Owned(e, p) == tcb[e].owner = p /\ HostOf[e] = Home[p]

srv_owned_by(p) ==
  {e \in Slots : Owned(e, p) /\ (tcb[e].state # "CLOSED" \/ tcb[e].listen)}

srv_on_port(h, port) ==
  {e \in Slots : /\ HostOf[e] = h /\ (tcb[e].state # "CLOSED" \/ tcb[e].listen)
                 /\ tcb[e].lport = port \/ (tcb[e].listen /\ tcb[e].lreq = port)}

srv_free_slot(h) == {e \in Slots : HostOf[e] = h /\ tcb[e].state = "CLOSED" /\ ~tcb[e].listen}

FirstOf(S) == CHOOSE e \in S : \A f \in S : Rank(e) <= Rank(f)

(* The block a call of p works on: the client block before a slot.         *)
tcp_conn_for(p) ==
  LET mine == {e \in Clients : Owned(e, p)} \cup srv_owned_by(p)
  IN  IF mine = {} THEN {} ELSE {FirstOf(mine)}

Post(e, c) ==
  /\ tcb' = [tcb EXCEPT ![e] = c]
  /\ UNCHANGED <<wipe, net, opens, faults, alive, deaths, sentTo>>

net_tcp_connect(p, addr) ==
  /\ p \in alive /\ srv_owned_by(p) = {}
  /\ \E e \in Clients :
       LET c == tcb[e]
       IN  /\ HostOf[e] = Home[p]
           /\ \/ /\ c.state = "ERROR" /\ c.owner = p
                 /\ Post(e, [c EXCEPT !.abort = TRUE])
              \/ /\ c.state = "CLOSED" /\ ~c.connect /\ opens < MaxOpens
                 /\ Post(e, [c EXCEPT !.creq = addr, !.lport = EPHEMERAL + opens, !.owner = p, !.connect = TRUE])
  /\ UNCHANGED <<got>>

net_tcp_listen(p, port) ==
  /\ p \in alive
  /\ \A e \in Clients : ~Owned(e, p)
  /\ \/ /\ srv_owned_by(p) = {} /\ srv_on_port(Home[p], port) = {}
        /\ srv_free_slot(Home[p]) # {}
        /\ LET e == FirstOf(srv_free_slot(Home[p]))
           IN  Post(e, [tcb[e] EXCEPT !.owner = p, !.lreq = port,
                                      !.listen = TRUE])
     \/ \E e \in srv_owned_by(p) :
          /\ e = FirstOf(srv_owned_by(p))
          /\ tcb[e].state = "ERROR" /\ ~tcb[e].abort /\ ~tcb[e].close
          /\ Post(e, [tcb[e] EXCEPT !.abort = TRUE])
  /\ UNCHANGED <<got>>

(* SEND copies what fits in the ring and says how much.                    *)
net_tcp_send(p, len) ==
  /\ p \in alive
  /\ \E e \in tcp_conn_for(p) :
       LET c == tcb[e]
           n == Least(len, TX_BUF - Len(c.txq))
       IN  /\ c.state \in {"ESTABLISHED", "CLOSE_WAIT"} /\ n > 0 /\ sentTo[e] + n <= Stream[e]
           /\ tcb' = [tcb EXCEPT ![e].txq = @ \o [i \in 1 .. n |-> sentTo[e] + i]]
           /\ sentTo' = [sentTo EXCEPT ![e] = @ + n]
  /\ UNCHANGED <<wipe, net, opens, faults, alive, deaths, got>>

(* RECV drains up to maxlen bytes; with an empty ring it changes nothing   *)
(* (end of file, error or would-block).                                    *)
net_tcp_recv(p, maxlen) ==
  /\ p \in alive
  /\ \E e \in tcp_conn_for(p) :
       LET n == Least(maxlen, Len(tcb[e].rxq))
       IN  /\ n > 0
           /\ Post(e, [tcb[e] EXCEPT !.rxq = SubSeq(@, n + 1, Len(@))])
           /\ got' = [got EXCEPT ![e] = @ \o SubSeq(tcb[e].rxq, 1, n)]

net_tcp_close(p) ==
  /\ p \in alive
  /\ \E e \in tcp_conn_for(p) :
       LET c == tcb[e]
       IN  /\ c.state # "CLOSED" \/ c.listen \/ c.connect
           /\ ClosesEarly \/ (c.state \in {"ESTABLISHED", "CLOSE_WAIT"} /\ sentTo[e] = Stream[e])
           /\ Post(e, IF c.state \in {"ERROR", "LISTEN", "SYN_RCVD", "CLOSED"}
                        THEN [c EXCEPT !.abort = TRUE] ELSE [c EXCEPT !.close = TRUE])
  /\ UNCHANGED <<got>>

(* A process dies: every block it owns is told to abort.                   *)
net_tcp_cleanup(p) ==
  /\ p \in alive /\ <<faults, deaths + 1>> \in Troubles
  /\ tcb' = [e \in Ends |->
               IF Owned(e, p) /\ (tcb[e].state # "CLOSED" \/ tcb[e].listen \/ tcb[e].connect)
                 THEN [tcb[e] EXCEPT !.abort = TRUE] ELSE tcb[e]]
  /\ alive' = alive \ {p} /\ deaths' = deaths + 1
  /\ UNCHANGED <<wipe, net, opens, faults, sentTo, got>>

(* The process table hands the id out again (first fit).                   *)
Respawn(p) ==
  /\ p \notin alive /\ alive' = alive \cup {p}
  /\ UNCHANGED <<tcb, wipe, net, opens, faults, deaths, sentTo, got>>

Addresses == Hosts \X Ports
Lengths == 1 .. MSS + 1

TcpNext ==
  \/ tcp_rx_demux
  \/ Lose
  \/ \E e \in Ends : tcp_service_one(e)
  \/ \E h \in Hosts : ZeroBlock(h) \/ StoreState(h)
  \/ \E p \in Pids :
       \/ \E a \in Addresses : net_tcp_connect(p, a)
       \/ \E port \in Ports : net_tcp_listen(p, port)
       \/ \E n \in Lengths : net_tcp_send(p, n) \/ net_tcp_recv(p, n)
       \/ net_tcp_close(p)
       \/ net_tcp_cleanup(p)
       \/ Respawn(p)

(* The net thread runs for ever and its timers come due.                   *)
TcpSpec == TcpInit /\ [][TcpNext]_tcpVars

(***************************************************************************)
(* Properties.                                                             *)
(***************************************************************************)
(* What RECV returns is, byte for byte, a prefix of what the other end's   *)
(* SEND accepted: whatever the network loses, repeats or reorders, however *)
(* often tcp_send_window goes back, no byte is skipped, repeated or read   *)
(* from a reused part of the ring.                                         *)
StreamIntact ==
  \A e \in Ends : \A i \in 1 .. Len(got[e] \o tcb[e].rxq) : (got[e] \o tcb[e].rxq)[i] = i

(* The send counters agree in every state: sequence space in flight is the *)
(* bytes in flight plus the FIN, in-flight bytes are staged bytes, and the *)
(* ring never holds more than its size.                                    *)
SendCountersAgree ==
  \A e \in Ends : LET c == tcb[e] IN
    /\ Minus(c.nxt, c.una) = c.fly + (IF c.fin /\ c.una # c.nxt THEN 1 ELSE 0)
    /\ 0 <= c.fly /\ c.fly <= Len(c.txq) /\ Len(c.txq) <= TX_BUF
    /\ c.fin => c.txq = << >>

(* End of file means everything: a block that has seen its peer's FIN      *)
(* holds or has delivered every byte the peer's program was told were      *)
(* accepted (one connection between two blocks).                           *)
EofAfterAll ==
  \A e, f \in Ends :
    e # f /\ tcb[e].eof => Len(got[e]) + Len(tcb[e].rxq) = sentTo[f]

=============================================================================

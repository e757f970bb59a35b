------------------------------ MODULE NetThread ------------------------------
(***************************************************************************)
(* The kernel's network thread (kernel/src/net.c) and the UDP sockets it   *)
(* serves (kernel/src/net_udp.c): link bring-up (ARP, DHCP, ping, a first  *)
(* lookup), then for ever one pass after another: retire closing sockets,  *)
(* pump received frames, drain queued datagrams, serve a lookup.  Every    *)
(* wait inside a pass (for an ARP reply, for a DNS answer) pumps frames    *)
(* through the same net_rx.                                                *)
(*                                                                         *)
(* The thread is preempted by system calls anywhere: each value of `at` is *)
(* a point where calls are let in, and the copy of a datagram into a       *)
(* socket's ring is caught between the match and the publishing store.     *)
(* TCP is module Tcp, the grant is module Egress.                          *)
(***************************************************************************)
EXTENDS Integers, Sequences, FiniteSets

CONSTANTS
  Procs,          \* process ids of programs
  Socks,          \* socket slots, a set of naturals (tried in order)
  RXQ, TXQ,       \* ring depths
  UdpPorts,       \* ports programs bind
  OnLink, OffLink,\* destinations on this link and beyond it
  Gateway, DnsServer,
  HostNames,      \* names programs look up; AddrOf[n] is the right answer
  AddrOf,
  ArpSlots,       \* size of the ARP cache
  Workloads,      \* the calls programs make in one behaviour: sets of "udp", "dns"
  MaxBinds, MaxDatagrams, MaxSends, MaxQueries, MaxDeathsU   \* bounds

NoName == "none"

ASSUME NetThreadConstants ==
  /\ Socks \subseteq Nat /\ {RXQ, TXQ, ArpSlots} \subseteq Nat \ {0}
  /\ OnLink \cap OffLink = {} /\ Gateway \notin OffLink /\ NoName \notin HostNames

VARIABLES
  workload,   \* the calls of this behaviour
  at,         \* where the net thread is
  copying,    \* the datagram being copied into a ring, or NoCopy
  sock,       \* [Socks -> socket slot]
  txring, txHead, txTail,     \* the SENDTO ring and its counters
  arp,        \* sequence of cached addresses, by slot
  static_link, dhcp, lease,   \* addressing: static mode, client state, lease held
  res,        \* the lookup mailbox: [state, host, ip]
  query,      \* history of queries on the wire: query[q] is the name asked
  binds,      \* bindings made so far; names the binding a datagram came for
  arrived,    \* datagrams that arrived so far
  accepted, transmitted,      \* history: what SENDTO took, what went out
  asking,     \* [Procs -> the name a program is waiting for, or NoName]
  misdelivered, \* history: RECVFROM returned a datagram of another binding
  ended       \* processes that died so far

NoCopy == [sock |-> 0, d |-> <<0, 0>>]
FreeSock == [state |-> "FREE", owner |-> 0, lport |-> 0, gen |-> 0, ring |-> << >>]

udpVars == <<sock, txring, txHead, txTail, binds, accepted, misdelivered>>
resVars == <<res, asking>>
netVars == <<workload, at, copying, sock, txring, txHead, txTail, arp, static_link, dhcp, lease, res,
             query, binds, arrived, accepted, transmitted, asking, misdelivered, ended>>

NetInit ==
  /\ workload \in Workloads /\ static_link \in BOOLEAN
  /\ at = (IF static_link THEN "top" ELSE "bootarp")
  /\ copying = NoCopy /\ sock = [s \in Socks |-> FreeSock]
  /\ txring = [i \in 0 .. TXQ - 1 |-> <<0, 0>>] /\ txHead = 0 /\ txTail = 0
  /\ arp = << >> /\ dhcp = 0 /\ lease = FALSE
  /\ res = [state |-> "IDLE", host |-> NoName, ip |-> 0] /\ query = << >>
  /\ binds = 0 /\ arrived = 0 /\ accepted = << >> /\ transmitted = << >>
  /\ asking = [p \in Procs |-> NoName] /\ misdelivered = FALSE /\ ended = 0

net_has_addr == lease \/ static_link

(***************************************************************************)
(* The ARP cache: the same address in place, else the first free slot,     *)
(* else slot 0.                                                            *)
(***************************************************************************)
Cached(ip) == \E i \in 1 .. Len(arp) : arp[i] = ip

arp_cache_put(ip) ==
  IF Cached(ip) THEN arp
  ELSE IF Len(arp) < ArpSlots THEN Append(arp, ip)
  ELSE [arp EXCEPT ![1] = ip]

(* On-link directly; beyond it through the gateway; nowhere in static mode *)
(* without a lease.                                                        *)
NoHop == "nohop"
net_next_hop(d) ==
  IF net_has_addr /\ d \in OnLink THEN d
  ELSE IF static_link /\ ~lease THEN NoHop ELSE Gateway

(***************************************************************************)
(* System calls (atomic: interrupts are off).                              *)
(***************************************************************************)
FirstFree == CHOOSE s \in Socks : /\ sock[s].state = "FREE"
                                  /\ \A r \in Socks : r < s => sock[r].state # "FREE"

net_udp_bind(p, port) ==
  /\ \A s \in Socks : sock[s].state = "FREE" \/ sock[s].lport # port
  /\ binds < MaxBinds /\ \E s \in Socks : sock[s].state = "FREE"
  /\ sock' = [sock EXCEPT ![FirstFree] =
                [state |-> "ACTIVE", owner |-> p, lport |-> port, gen |-> binds + 1,
                 ring |-> << >>]]
  /\ binds' = binds + 1
  /\ UNCHANGED <<txring, txHead, txTail, accepted, misdelivered>>

udp_sock_of(p) == {s \in Socks : sock[s].state = "ACTIVE" /\ sock[s].owner = p}

(* The destination check of the system call: static mode has no gateway.   *)
net_udp_dst_ok(d) == net_next_hop(d) # NoHop

net_udp_sendto(p, d) ==
  /\ net_udp_dst_ok(d)
  /\ udp_sock_of(p) # {} /\ net_has_addr /\ Len(accepted) < MaxSends
  /\ txHead - txTail < TXQ
  /\ LET entry == <<d, Len(accepted) + 1>>
     IN  /\ txring' = [txring EXCEPT ![txHead % TXQ] = entry]
         /\ accepted' = Append(accepted, entry)
  /\ txHead' = txHead + 1
  /\ UNCHANGED <<sock, txTail, binds, misdelivered>>

net_udp_recvfrom(p) ==
  \E s \in udp_sock_of(p) :
    /\ sock[s].ring # << >>
    /\ misdelivered' = (misdelivered \/ Head(sock[s].ring)[2] # sock[s].gen)
    /\ sock' = [sock EXCEPT ![s].ring = Tail(@)]
    /\ UNCHANGED <<txring, txHead, txTail, binds, accepted>>

net_udp_close(p) ==
  \E s \in udp_sock_of(p) :
    /\ sock' = [sock EXCEPT ![s].state = "CLOSING"]
    /\ UNCHANGED <<txring, txHead, txTail, binds, accepted, misdelivered>>

(* Process teardown closes every socket of the process.                    *)
net_udp_cleanup(p) ==
  /\ ended < MaxDeathsU
  /\ sock' = [s \in Socks |-> IF s \in udp_sock_of(p) THEN [sock[s] EXCEPT !.state = "CLOSING"]
                                                    ELSE sock[s]]
  /\ UNCHANGED <<txring, txHead, txTail, binds, accepted, misdelivered>>

net_request_resolve(n) ==
  IF net_has_addr /\ res.state = "IDLE" THEN [state |-> "PENDING", host |-> n, ip |-> 0] ELSE res

(* The mailbox is emptied by whoever polls it.                             *)
net_poll_resolve == [res EXCEPT !.state = "IDLE"]

(* SYS_RESOLVE: take an answer or a failure that is ready, whoever asked;  *)
(* otherwise post the request unless one is in flight.                     *)
sys_resolve(p, n) ==
  /\ asking[p] \in {NoName, n}
  /\ \/ /\ res.state = "DONE"
        /\ res' = net_poll_resolve /\ asking' = [asking EXCEPT ![p] = NoName]
     \/ /\ res.state = "FAILED"
        /\ res' = net_poll_resolve /\ asking' = [asking EXCEPT ![p] = NoName]
     \/ /\ res.state \in {"IDLE", "PENDING"}
        /\ res' = net_request_resolve(n)
        /\ asking' = [asking EXCEPT ![p] = n]

Calls ==
  \E p \in Procs :
    \/ /\ "udp" \in workload
       /\ \/ \E port \in UdpPorts : net_udp_bind(p, port)
          \/ \E d \in OnLink \cup OffLink : net_udp_sendto(p, d)
          \/ net_udp_recvfrom(p)
          \/ net_udp_close(p)
       /\ UNCHANGED <<workload, at, copying, arp, static_link, dhcp, lease, resVars, query, arrived,
                      transmitted, ended>>
    \/ /\ net_udp_cleanup(p) /\ ended' = ended + 1
       /\ asking' = [asking EXCEPT ![p] = NoName]
       /\ UNCHANGED <<workload, at, copying, arp, static_link, dhcp, lease, res, query, arrived,
                      transmitted>>
    \/ /\ "dns" \in workload /\ \E n \in HostNames : sys_resolve(p, n)
       /\ UNCHANGED <<workload, at, copying, udpVars, arp, static_link, dhcp, lease, query, arrived,
                      transmitted, ended>>

(***************************************************************************)
(* net_rx: one frame off the device.  A datagram for a bound port is       *)
(* offered to its socket before anything else sees the frame.              *)
(***************************************************************************)
Pumping == {"pump", "drainarp", "dnsarp", "dnswait", "bootarp", "bootdhcp", "bootping",
            "bootdnsarp", "bootdns"}

TakesFrame == at \in Pumping /\ copying = NoCopy

(* udp_rx_demux up to the copy: an active socket on that port with room in *)
(* its ring; otherwise the datagram is dropped.                            *)
udp_rx_demux(port) ==
  /\ TakesFrame /\ "udp" \in workload /\ arrived < MaxDatagrams /\ arrived' = arrived + 1
  /\ LET to == {s \in Socks : sock[s].state = "ACTIVE" /\ sock[s].lport = port}
     IN  copying' = IF \E s \in to : Len(sock[s].ring) < RXQ
                      THEN LET s == CHOOSE s \in to : TRUE
                           IN  [sock |-> s, d |-> <<arrived + 1, sock[s].gen>>]
                      ELSE NoCopy
  /\ UNCHANGED <<workload, at, udpVars, arp, static_link, dhcp, lease, resVars, query, transmitted, ended>>

(* ... the publishing store of rx_head.                                    *)
udp_rx_publish ==
  /\ copying # NoCopy /\ copying' = NoCopy
  /\ sock' = [sock EXCEPT ![copying.sock].ring = Append(@, copying.d)]
  /\ UNCHANGED <<workload, at, txring, txHead, txTail, binds, accepted, misdelivered, arp,
                 static_link,
                 dhcp, lease, resVars, query, arrived, transmitted, ended>>

(* A peer asks for our address: remember it (and answer).                  *)
arp_maybe_reply(peer) ==
  /\ TakesFrame /\ net_has_addr /\ arp' = arp_cache_put(peer)
  /\ UNCHANGED <<workload, at, copying, udpVars, static_link, dhcp, lease, resVars, query, arrived,
                 transmitted, ended>>

(***************************************************************************)
(* The waits.  `Stay` is what every step of the thread outside UDP leaves. *)
(***************************************************************************)
Goto(next) ==
  /\ at' = next
  /\ UNCHANGED <<workload, copying, udpVars, static_link, arrived, ended>>

NextEntry == txring[txTail % TXQ]
Hop == net_next_hop(NextEntry[1])

(* Tail advances only after the entry is consumed completely.              *)
Consumed == /\ txTail' = txTail + 1
            /\ UNCHANGED <<sock, txring, txHead, binds, accepted, misdelivered>>

(* arp_resolve answered: the waited-for address is cached.                 *)
ArpReply ==
  /\ TakesFrame
  /\ \/ /\ at = "drainarp" /\ arp' = arp_cache_put(Hop) /\ Goto("send")
     \/ /\ at = "dnsarp" /\ arp' = arp_cache_put(DnsServer) /\ Goto("ask")
     \/ /\ at = "bootarp" /\ arp' = arp_cache_put(Gateway) /\ Goto("discover")
     \/ /\ at = "bootdnsarp" /\ arp' = arp_cache_put(DnsServer) /\ Goto("bootask")
  /\ UNCHANGED <<dhcp, lease, resVars, query, transmitted>>

(* ... or its 200 tries ran out.                                           *)
ArpTimeout ==
  /\ TakesFrame
  /\ \/ /\ at = "drainarp" /\ at' = "drain" /\ Consumed
        /\ UNCHANGED <<workload, copying, static_link, arrived, ended, res>>
     \/ /\ at = "dnsarp" /\ res' = [res EXCEPT !.state = "FAILED"] /\ Goto("top")
     \/ /\ at = "bootarp" /\ Goto("discover") /\ UNCHANGED res
     \/ /\ at = "bootdnsarp" /\ Goto("top") /\ UNCHANGED res
  /\ UNCHANGED <<arp, dhcp, lease, asking, query, transmitted>>

(* DHCP: an OFFER is answered by a REQUEST, an ACK gives the lease.        *)
(* Without the gateway's address the rest of the bring-up is skipped.      *)
dhcp_rx ==
  /\ TakesFrame /\ at = "bootdhcp"
  /\ \/ /\ dhcp = 1       \* OFFER
        /\ dhcp' = 2 /\ Goto("bootdhcp") /\ UNCHANGED lease
     \/ /\ dhcp = 2       \* ACK
        /\ lease' = TRUE /\ UNCHANGED dhcp
        /\ Goto(IF Cached(Gateway) THEN "bootping" ELSE "top")
  /\ UNCHANGED <<arp, resVars, query, transmitted>>

(* The DISCOVER, the only message that is repeated, and the end of 600     *)
(* tries without a lease.                                                  *)
DhcpStep ==
  /\ \/ /\ at = "discover" /\ dhcp' = 1 /\ Goto("bootdhcp")
     \/ /\ TakesFrame /\ at = "bootdhcp" /\ Goto("top") /\ UNCHANGED dhcp
  /\ UNCHANGED <<arp, lease, resVars, query, transmitted>>

(* Ping answered or not, then one lookup whose answer is only logged.      *)
BootPing ==
  /\ TakesFrame /\ at = "bootping"
  /\ Goto(IF Cached(DnsServer) THEN "bootask" ELSE "bootdnsarp")
  /\ UNCHANGED <<arp, dhcp, lease, resVars, query, transmitted>>

(***************************************************************************)
(* One pass of net_service_loop.                                           *)
(***************************************************************************)
(* Retire closing sockets, here only: no copy can be half done.            *)
udp_retire_closing ==
  /\ at = "top" /\ at' = "pump"
  /\ sock' = [s \in Socks |-> IF sock[s].state = "CLOSING" THEN FreeSock ELSE sock[s]]
  /\ UNCHANGED <<workload, copying, txring, txHead, txTail, binds, accepted, misdelivered, arp,
                 static_link, dhcp, lease, resVars, query, arrived, transmitted, ended>>

(* The device queue is empty.                                              *)
PumpDone ==
  /\ at = "pump" /\ copying = NoCopy /\ Goto("drain")
  /\ UNCHANGED <<arp, dhcp, lease, resVars, query, transmitted>>

(* The next queued datagram: its next hop is known or to be resolved (a    *)
(* destination without one never passes SENDTO).                           *)
udp_tx_drain ==
  /\ at = "drain"
  /\ \/ /\ txTail = txHead /\ Goto("lookup")
     \/ /\ txTail # txHead
        /\ Goto(IF Cached(Hop) THEN "send" ELSE "drainarp")
  /\ UNCHANGED <<arp, dhcp, lease, resVars, query, transmitted>>

(* Build the frame from the entry, transmit it, advance the tail.          *)
udp_tx_send ==
  /\ at = "send" /\ at' = "drain"
  /\ transmitted' = Append(transmitted, NextEntry) /\ Consumed
  /\ UNCHANGED <<workload, copying, arp, static_link, dhcp, lease, resVars, query, arrived, ended>>

(* A pending lookup: resolve the server's address, then ask it.            *)
LookupStart ==
  /\ at = "lookup"
  /\ Goto(IF res.state # "PENDING" THEN "top"
          ELSE IF Cached(DnsServer) THEN "ask" ELSE "dnsarp")
  /\ UNCHANGED <<arp, dhcp, lease, resVars, query, transmitted>>

(* A query with a fresh transaction id and source port.                    *)
SendQuery ==
  /\ at \in {"ask", "bootask"} /\ Len(query) < MaxQueries
  /\ query' = Append(query, IF at = "ask" THEN res.host ELSE NoName)
  /\ Goto(IF at = "ask" THEN "dnswait" ELSE "bootdns")
  /\ UNCHANGED <<arp, dhcp, lease, resVars, transmitted>>

(* A plausible bug: any answer from the server is taken.                   *)
AnyAnswer(q) == q <= Len(query)

(* An answer to query q, perhaps late.  dns_parse takes it only when it    *)
(* carries the transaction id and port of the query in hand.               *)
dns_parse(q) == q = Len(query)

DnsAnswer ==
  /\ TakesFrame /\ at \in {"dnswait", "bootdns"}
  /\ \E q \in 1 .. Len(query) :
       /\ dns_parse(q)
       /\ res' = IF at = "dnswait"
                   THEN [res EXCEPT !.state = "DONE",
                                    !.ip = IF query[q] = NoName THEN 0 ELSE AddrOf[query[q]]]
                   ELSE res
  /\ Goto("top")
  /\ UNCHANGED <<arp, dhcp, lease, asking, query, transmitted>>

DnsTimeout ==
  /\ TakesFrame /\ at \in {"dnswait", "bootdns"}
  /\ res' = IF at = "dnswait" THEN [res EXCEPT !.state = "FAILED"] ELSE res
  /\ Goto("top")
  /\ UNCHANGED <<arp, dhcp, lease, asking, query, transmitted>>

NetNext ==
  \/ Calls
  \/ \E port \in UdpPorts : udp_rx_demux(port)
  \/ udp_rx_publish
  \/ \E peer \in OnLink : arp_maybe_reply(peer)
  \/ ArpReply \/ ArpTimeout \/ dhcp_rx \/ DhcpStep \/ BootPing
  \/ udp_retire_closing \/ PumpDone \/ udp_tx_drain \/ udp_tx_send
  \/ LookupStart \/ SendQuery \/ DnsAnswer \/ DnsTimeout

NetSpec == NetInit /\ [][NetNext]_netVars

(***************************************************************************)
(* Properties.                                                             *)
(***************************************************************************)
(* RECVFROM returns only datagrams that arrived for the binding it reads:  *)
(* a socket closed, retired and bound again while the net thread was in    *)
(* the middle of a copy never shows the old binding's datagram to the new  *)
(* owner (the slot life cycle FREE, ACTIVE, CLOSING).                      *)
OwnDatagramsOnly == ~misdelivered

(* What goes out is what SENDTO queued, in order, each entry whole: an     *)
(* entry being drained, across an ARP wait of any length, is never         *)
(* overwritten by a call that interrupts the thread.                       *)
SentAsQueued ==
  /\ \A i \in 1 .. Len(transmitted) : \E j \in i .. Len(accepted) : transmitted[i] = accepted[j]
  /\ \A i, j \in 1 .. Len(transmitted) : i < j => transmitted[i][2] < transmitted[j][2]
  /\ txTail <= txHead /\ txHead - txTail <= TXQ

(* The answer in the mailbox is the answer to the question in it, late     *)
(* answers to an earlier query included.                                   *)
AnswerFitsQuestion == res.state = "DONE" => res.ip = AddrOf[res.host]

(* The three together: a socket's owner gets only its own datagrams,       *)
(* datagrams go out as they were queued, and an answer is to the question  *)
(* that was asked (net.c, net_udp.c).                                      *)
DatagramsFaithful == OwnDatagramsOnly /\ SentAsQueued /\ AnswerFitsQuestion
=============================================================================

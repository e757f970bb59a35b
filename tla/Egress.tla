------------------------------- MODULE Egress -------------------------------
(***************************************************************************)
(* The egress grant (kernel/src/egress.c) and its three clients: netdev    *)
(* (every frame), the UDP and TCP calls (every destination they check) and *)
(* the console escape by which a host replaces the grant.                  *)
(*                                                                         *)
(* A spec is the sequence of its fields; a grant is the record parse_grant *)
(* makes of one.  Interrupts are off while the net thread replaces the     *)
(* grant, and system calls run with interrupts off, so both are single     *)
(* steps; the escape arrives in an interrupt and is only recorded.         *)
(* Receipts to the audit ledger and the reasons shown to a user are left   *)
(* out.                                                                    *)
(***************************************************************************)
EXTENDS Integers, Sequences, FiniteSets

CONSTANTS
  Specs,       \* the specs a host may send: sequences of [field, value]
  BootSpec,    \* the spec on the command line
  MAX_ALLOW, MAX_LISTEN,
  KeyOnCmdline,\* BOOLEAN: egress_key= was given
  Dests,       \* destinations: <<address, port/protocol>>
  GrantAddrs,  \* addresses a spec may name
  Names,       \* host names; Resolves[n] are the addresses it may resolve to
  Resolves,
  FrameLen,    \* the lengths of frames
  MaxClock, MaxFrames, MaxOffers   \* bounds

CONSTANT None

ASSUME EgressConstants ==
  /\ FrameLen \subseteq Nat \ {0} /\ \E m \in FrameLen : \A l \in FrameLen : l <= m
  /\ \A spec \in Specs \cup {BootSpec} :
       /\ Len(spec) \in Nat /\ DOMAIN spec = 1 .. Len(spec)
       /\ \A i \in DOMAIN spec : spec[i].field \in {"ttl", "bytes"} => spec[i].value \in Nat
  /\ KeyOnCmdline \in BOOLEAN /\ {MAX_ALLOW, MAX_LISTEN} \subseteq Nat \ {0}
  /\ GrantAddrs \cap Names = {}

VARIABLES
  configured, over, startTick, bytesUsed, live,   \* the live grant
  offer,      \* the mailbox: [pending, refused, spec]
  clock,      \* timer ticks
  txq,        \* UDP destinations queued by SENDTO
  conns,      \* TCP destinations with an open connection
  listening,  \* ports bound by LISTEN
  wire,       \* bytes handed to or taken from the wire under the live grant
  frames,     \* frames so far (bound)
  offers      \* escapes so far (bound)

grantVars == <<configured, over, startTick, bytesUsed, live>>
egressVars == <<grantVars, offer, clock, txq, conns, listening, wire, frames, offers>>

(* Parsing a spec.                                                         *)

(* An allow entry of the table: ip is None until the name is resolved.     *)
AllowsAny == [any |-> TRUE, ip |-> None, port |-> 0, host |-> None]

(* As written: [name, port], the name an address, a host or "*"; a port of *)
(* 0 or without a protocol is refused (None).                              *)
parse_allow(e) ==
  CASE e.name = "*" -> AllowsAny
    [] e.name # "*" /\ e.port = 0 -> None
    [] e.name # "*" /\ e.port # 0 ->
         IF e.name \in GrantAddrs
           THEN [any |-> FALSE, ip |-> e.name, port |-> e.port, host |-> None]
           ELSE [any |-> FALSE, ip |-> None, port |-> e.port, host |-> e.name]

(* The places of a kind of field, and of the entries in its lists.         *)
Places(spec, f) == {i \in DOMAIN spec : spec[i].field = f}
Entries(spec, f) == UNION {{<<i, k>> : k \in DOMAIN spec[i].value} : i \in Places(spec, f)}
GrantEntry(spec, e) == spec[e[1]].value[e[2]]

(* The last ttl and the last bytes count; lists add up.                    *)
LastValue(spec, f) ==
  spec[CHOOSE i \in Places(spec, f) : \A j \in Places(spec, f) : j <= i].value

Refused(spec) ==
  \/ \E i \in DOMAIN spec : spec[i].field \notin {"ttl", "bytes", "allow", "listen"}
  \/ \E i \in Places(spec, "ttl") \cup Places(spec, "bytes") : spec[i].value = 0
  \/ \E e \in Entries(spec, "allow") : parse_allow(GrantEntry(spec, e)) = None
  \/ \E e \in Entries(spec, "listen") : GrantEntry(spec, e) = 0
  \/ Cardinality(Entries(spec, "allow")) > MAX_ALLOW
  \/ Cardinality(Entries(spec, "listen")) > MAX_LISTEN
  \/ Places(spec, "ttl") = {} \/ Places(spec, "bytes") = {}

parse_grant(spec) ==
  [ttl |-> LastValue(spec, "ttl"), bytes |-> LastValue(spec, "bytes"),
   allow |-> {parse_allow(GrantEntry(spec, e)) : e \in Entries(spec, "allow")},
   listen |-> {GrantEntry(spec, e) : e \in Entries(spec, "listen")}]

NoGrant == [ttl |-> 0, bytes |-> 0, allow |-> {}, listen |-> {}]
NoOffer == [pending |-> FALSE, refused |-> FALSE, spec |-> << >>]

EgressInit ==
  /\ configured = ~Refused(BootSpec) /\ over = FALSE
  /\ live = IF Refused(BootSpec) THEN NoGrant ELSE parse_grant(BootSpec)
  /\ startTick = 0 /\ bytesUsed = 0 /\ clock = 0
  /\ offer = NoOffer /\ txq = {} /\ conns = {} /\ listening = {}
  /\ wire = 0 /\ frames = 0 /\ offers = 0

(* egress_active marks an expired grant over as it answers.                *)
Expired == clock - startTick >= live.ttl
Active == configured /\ ~over /\ ~Expired
OverAfterAsking == over \/ (configured /\ Expired)

(* egress_check: any entry that allows everything, or the same address     *)
(* with the same port and protocol.                                        *)
Allows(g, d) ==
  \E a \in g.allow : a.any \/ (a.ip # None /\ a.ip = d[1] /\ a.port = d[2])

egress_check(d) == Active /\ Allows(live, d)
egress_listen_ok(p) == Active /\ p \in live.listen

Asked == over' = OverAfterAsking /\ UNCHANGED <<configured, startTick, bytesUsed, live>>

(* configure_from: parse, then commit in one go; a refused spec leaves the *)
(* live grant as it was.                                                   *)
configure_from(spec) ==
  IF Refused(spec) THEN UNCHANGED <<grantVars, wire>>
  ELSE /\ live' = parse_grant(spec) /\ startTick' = clock /\ bytesUsed' = 0
       /\ over' = FALSE /\ configured' = TRUE /\ wire' = 0

(* The console escape, in interrupt context: recorded, never applied.      *)
egress_offer(rightKey, spec) ==
  /\ offers < MaxOffers /\ offers' = offers + 1
  /\ offer' = IF KeyOnCmdline /\ rightKey
                THEN [pending |-> TRUE, refused |-> FALSE, spec |-> spec]
                ELSE [pending |-> TRUE, refused |-> TRUE, spec |-> << >>]
  /\ UNCHANGED <<grantVars, clock, txq, conns, listening, wire, frames>>

(* The net thread takes the mailbox and applies it.                        *)
egress_apply_pending ==
  /\ offer.pending /\ offer' = NoOffer
  /\ IF offer.refused THEN UNCHANGED <<grantVars, wire>> ELSE configure_from(offer.spec)
  /\ UNCHANGED <<clock, txq, conns, listening, frames, offers>>

(* A lookup finished: every entry for that name takes the address.         *)
egress_note_resolution(n, ip) ==
  /\ configured
  /\ live' = [live EXCEPT !.allow = {IF a.host = n THEN [a EXCEPT !.ip = ip] ELSE a : a \in @}]
  /\ UNCHANGED <<configured, over, startTick, bytesUsed, offer, clock, txq, conns, listening,
                 wire, frames, offers>>

(* A plausible bug: the budget may be reached without being exhausted.     *)
AccountPast(len) ==
  /\ bytesUsed' = bytesUsed + len
  /\ over' = (bytesUsed + len > live.bytes)
  /\ wire' = wire + len
  /\ UNCHANGED <<configured, startTick, live>>

(* netdev hands a frame over and then accounts for it.                     *)
Account(len) ==
  /\ bytesUsed' = bytesUsed + len
  /\ over' = (bytesUsed + len >= live.bytes)
  /\ wire' = wire + len
  /\ UNCHANGED <<configured, startTick, live>>

(* netdev_transmit for a queued datagram: no live grant, no frame; the     *)
(* queue entry is consumed either way.                                     *)
TransmitDatagram(d, len) ==
  /\ d \in txq /\ txq' = txq \ {d} /\ frames < MaxFrames /\ frames' = frames + 1
  /\ IF Active THEN Account(len) ELSE Asked /\ UNCHANGED wire
  /\ UNCHANGED <<offer, clock, conns, listening, offers>>

(* A segment of an open connection: data the program handed to SEND, which *)
(* asks the grant nothing; netdev asks whether one is live.                *)
TransmitSegment(d, len) ==
  /\ d \in conns /\ frames < MaxFrames /\ frames' = frames + 1
  /\ IF Active THEN Account(len) ELSE Asked /\ UNCHANGED wire
  /\ UNCHANGED <<offer, clock, txq, conns, listening, offers>>

(* netdev_receive: drained from the device regardless, dropped without a   *)
(* live grant, counted with one.                                           *)
netdev_receive(len) ==
  /\ frames < MaxFrames /\ frames' = frames + 1
  /\ IF Active THEN Account(len) ELSE Asked /\ UNCHANGED wire
  /\ UNCHANGED <<offer, clock, txq, conns, listening, offers>>

(* The calls that ask: SENDTO, CONNECT, LISTEN (and BIND to a named port). *)
Sendto(d) ==
  /\ Asked /\ txq' = IF egress_check(d) THEN txq \cup {d} ELSE txq
  /\ UNCHANGED <<offer, clock, conns, listening, wire, frames, offers>>

Connect(d) ==
  /\ Asked /\ conns' = IF egress_check(d) THEN conns \cup {d} ELSE conns
  /\ UNCHANGED <<offer, clock, txq, listening, wire, frames, offers>>

Listen(p) ==
  /\ Asked /\ listening' = IF egress_listen_ok(p) THEN listening \cup {p} ELSE listening
  /\ UNCHANGED <<offer, clock, txq, conns, wire, frames, offers>>

Disconnect(d) ==
  /\ d \in conns /\ conns' = conns \ {d}
  /\ UNCHANGED <<grantVars, offer, clock, txq, listening, wire, frames, offers>>

Tick ==
  /\ clock < MaxClock /\ clock' = clock + 1
  /\ UNCHANGED <<grantVars, offer, txq, conns, listening, wire, frames, offers>>

ListenPorts == UNION {{GrantEntry(g, e) : e \in Entries(g, "listen")} : g \in Specs} \cup {0}

EgressNext ==
  \/ \E rightKey \in BOOLEAN, spec \in Specs : egress_offer(rightKey, spec)
  \/ egress_apply_pending
  \/ \E n \in Names : \E ip \in Resolves[n] : egress_note_resolution(n, ip)
  \/ \E len \in FrameLen :
       \/ \E d \in Dests : TransmitDatagram(d, len) \/ TransmitSegment(d, len)
       \/ netdev_receive(len)
  \/ \E d \in Dests : Sendto(d) \/ Connect(d) \/ Disconnect(d)
  \/ \E p \in ListenPorts : Listen(p)
  \/ Tick

EgressSpec == EgressInit /\ [][EgressNext]_egressVars

(***************************************************************************)
(* Properties.                                                             *)
(***************************************************************************)
(* A grant is worth its budget: whatever order datagrams, segments and     *)
(* inbound frames come in, the bytes on the wire under one grant stay      *)
(* below the budget plus the frame that reached it, and a grant that is    *)
(* over or expired carries nothing until a new one is applied.             *)
BudgetBound ==
  configured => /\ wire < live.bytes + (CHOOSE m \in FrameLen : \A l \in FrameLen : l <= m)
                /\ wire >= live.bytes => over

=============================================================================

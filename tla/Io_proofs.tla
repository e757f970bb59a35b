------------------------------ MODULE Io_proofs ------------------------------
(***************************************************************************)
(* What Vfs.tla states of the open files, proved for any number of         *)
(* processes, descriptors, slots, blocks and paths, what Vsock.tla states  *)
(* of the console's output, for any ports, buffers and counter width,      *)
(* what NetThread.tla states of datagrams and lookups, for any sockets,    *)
(* rings, programs and names, what Persist.tla states of a saved archive,  *)
(* for any disk, layout, contents and checksum width, and what Audit.tla   *)
(* states of the authority ledger, for any ring and any events.            *)
(*                                                                         *)
(* OpenFilesStay is not inductive alone: a process is created with the     *)
(* descriptors its slot has, so the invariant adds that a free slot has    *)
(* none open, which is what process_destroy() sees to.                     *)
(*                                                                         *)
(* Nor is ConsoleOutputKept: that the wrapping difference of two counters  *)
(* is what is in flight needs the packets in the ring to tell of ever more *)
(* bytes read, and a connection to begin with a request alone in it.       *)
(*                                                                         *)
(* DatagramsFaithful needs a copy in progress to pin its socket's binding, *)
(* the undrained part of the ring to be what was accepted last, and a      *)
(* lookup in hand to stay pending while the thread works on it.            *)
(*                                                                         *)
(* ArchivesSound needs what a sync has written so far to be on the disk,   *)
(* step by step, and a section that is not torn to be where and what the   *)
(* superblock says.                                                        *)
(*                                                                         *)
(* LedgerFaithful needs the place in the history where each record still   *)
(* in the ring begins: between two of them lies what the record stands for.*)
(***************************************************************************)
EXTENDS Vfs, Vsock, NetThread, Persist, Audit, LeastNat_proofs, SequenceTheorems
-----------------------------------------------------------------------------
(* The vsock console.                                                      *)

(* Residues: there is one, and what lies within a modulus of it is it.     *)
LEMMA OneResidue ==
  ASSUME NEW W \in Nat \ {0}, NEW q \in Int, NEW r \in 0 .. W - 1
  PROVE  (q * W + r) % W = r
<1>1. PICK x \in Int : x = q * W + r
  OBVIOUS
<1>2. PICK d \in Int, m \in 0 .. W - 1 : x = d * W + m /\ x % W = m
  <2>1. x % W \in 0 .. W - 1 /\ x = (x \div W) * W + (x % W) /\ x \div W \in Int
    OBVIOUS
  <2> QED BY <2>1
<1>3. (q - d) * W = m - r
  BY <1>1, <1>2
<1>4. CASE q - d >= 1
  <2>1. (q - d) * W >= W
    BY <1>4
  <2> QED BY <2>1, <1>3
<1>5. CASE q - d <= -1
  <2>1. (q - d) * W <= -W
    BY <1>5
  <2> QED BY <2>1, <1>3
<1>6. CASE q - d = 0
  BY <1>1, <1>2, <1>3, <1>6
<1> QED BY <1>4, <1>5, <1>6

LEMMA Quotient ==
  ASSUME NEW W \in Nat \ {0}, NEW x \in Int
  PROVE  x % W \in 0 .. W - 1 /\ \E q \in Int : x = q * W + (x % W)
<1>1. x % W \in 0 .. W - 1 /\ x = (x \div W) * W + (x % W) /\ x \div W \in Int
  OBVIOUS
<1> QED BY <1>1

LEMMA ResidueGrows ==
  ASSUME NEW W \in Nat \ {0}, NEW x \in Int, NEW n \in Nat, (x % W) + n < W
  PROVE  (x + n) % W = (x % W) + n
<1>1. PICK q \in Int : x = q * W + (x % W)
  BY Quotient
<1>2. PICK r \in 0 .. W - 1 : r = x % W
  BY Quotient
<1>3. PICK s \in 0 .. W - 1 : s = r + n
  BY <1>2
<1>4. x + n = q * W + s
  BY <1>1, <1>2, <1>3
<1> QED BY <1>2, <1>3, <1>4, OneResidue

LEMMA ResidueOfSum ==
  ASSUME NEW W \in Nat \ {0}, NEW x \in Int, NEW y \in Int
  PROVE  ((x % W) + y) % W = (x + y) % W
<1>1. PICK q \in Int : x = q * W + (x % W)
  BY Quotient
<1>2. PICK r \in 0 .. W - 1 : r = x % W
  BY Quotient
<1>3. PICK p \in Int, s \in 0 .. W - 1 : r + y = p * W + s
  <2>1. r + y \in Int
    OBVIOUS
  <2> QED BY <2>1, Quotient
<1>4. (r + y) % W = s
  BY <1>3, OneResidue
<1>5. x + y = (q + p) * W + s
  <2>1. (q + p) * W = q * W + p * W
    OBVIOUS
  <2> QED BY <2>1, <1>1, <1>2, <1>3
<1>6. (x + y) % W = s
  <2>1. PICK c \in Int : c = q + p
    OBVIOUS
  <2>2. x + y = c * W + s
    BY <1>5, <2>1
  <2> QED BY <2>2, OneResidue
<1> QED BY <1>2, <1>4, <1>6

LEMMA ResidueOfDifference ==
  ASSUME NEW W \in Nat \ {0}, NEW a \in Nat, NEW b \in Nat, b <= a, a - b < W
  PROVE  (a - (b % W)) % W = a - b
<1>0. b \in Int
  OBVIOUS
<1>1. PICK q \in Int : b = q * W + (b % W)
  BY <1>0, Quotient
<1>2. PICK r \in 0 .. W - 1 : r = b % W
  BY <1>0, Quotient
<1>3. PICK d \in 0 .. W - 1 : d = a - b
  OBVIOUS
<1>4. a - r = q * W + d
  <2>1. q * W \in Int
    OBVIOUS
  <2>2. b = q * W + r
    BY <1>1, <1>2
  <2> QED BY <2>1, <2>2, <1>3
<1> QED BY <1>2, <1>3, <1>4, OneResidue

-----------------------------------------------------------------------------
Residues == 0 .. VsWrap - 1
PeerStates == {"shut", "asking", "open", "closing"}
PacketOps == {"REQUEST", "RW", "CREDIT_UPDATE", "CREDIT_REQUEST", "SHUTDOWN", "RST", "STRAY"}

Drivers == [present : BOOLEAN, connected : BOOLEAN, peer_port : VPorts \cup {"none"},
            peer_buf_alloc : Nat, peer_fwd_cnt : Nat, tx_cnt : Nat, fwd_cnt : Nat,
            fwd_cnt_told : Nat]
HostEnds == [st : PeerStates, alloc : Nat, most : Residues, got : Nat, eaten : Nat]
Packets == [op : PacketOps, port : VPorts, buf_alloc : Residues, fwd_cnt : Nat]
Placed == (VPorts \cup {"com1"}) \X Nat

DriverOK(d) == d \in Drivers /\ (d.connected => d.peer_port \in VPorts)
VsockTypes ==
  /\ DriverOK(vs) /\ peers \in [VPorts -> HostEnds] /\ vsRing \in Seq(Packets)
  /\ cwrite \in [on : BOOLEAN, next : Nat \ {0}, last : Nat, wait : BOOLEAN]
  /\ vsOut \in Seq(Placed)

(* Output: the bytes up to u went somewhere; up to u, each once, in order. *)
Covers(out, u) == \A b \in 1 .. u : \E i \in 1 .. Len(out) : out[i][2] = b
InOrder(out, u) == Len(out) = u /\ \A i \in 1 .. Len(out) : out[i][2] = i
UpTo == IF cwrite.on THEN cwrite.next - 1 ELSE cwrite.last

OutputInv ==
  /\ cwrite.next <= cwrite.last + 1 /\ (cwrite.wait => cwrite.on)
  /\ Covers(vsOut, UpTo) /\ (vs.present => InOrder(vsOut, UpTo))

(* What is in flight to a host end r if it has told of f bytes read, by    *)
(* the wrapping counters: no less than it has unread, no more than it has  *)
(* ever granted.                                                           *)
Linked(r) == r.st \in {"open", "closing"}
InFlight(r, f) == (r.got - f) % VsWrap
Possible(r, f) == r.got - r.eaten <= InFlight(r, f) /\ InFlight(r, f) <= r.most

EndOK(r) ==
  /\ r.alloc <= r.most /\ r.eaten <= r.got /\ r.got - r.eaten <= r.most
  /\ r.st = "asking" => r.got = 0

(* A packet of p in the ring, and a later one: a request comes first and   *)
(* alone, and later packets tell of no fewer bytes read.                   *)
PacketOK(r, h) ==
  /\ r.st # "shut" => h.buf_alloc <= r.most
  /\ h.op = "REQUEST" => ~Linked(r) /\ h.fwd_cnt = 0
  /\ r.st = "asking" => h.op = "REQUEST"
  /\ Linked(r) => Possible(r, h.fwd_cnt)
LaterOK(r, h, k) == k.op # "REQUEST" /\ (Linked(r) => InFlight(r, k.fwd_cnt) <= InFlight(r, h.fwd_cnt))

PortOK(p, r, q) ==
  /\ EndOK(r)
  /\ \A i \in 1 .. Len(q) : q[i].port = p => PacketOK(r, q[i])
  /\ \A i, j \in 1 .. Len(q) : i < j /\ q[i].port = p /\ q[j].port = p => LaterOK(r, q[i], q[j])

(* The driver's counters agree with the end it is connected to, and it has *)
(* heard of no more bytes read than any packet in the ring will tell.      *)
LinkOK(p, r, q, d) == Linked(r) =>
  /\ d.tx_cnt = r.got % VsWrap /\ d.peer_buf_alloc <= r.most
  /\ Possible(r, d.peer_fwd_cnt)
  /\ \A i \in 1 .. Len(q) : q[i].port = p => InFlight(r, q[i].fwd_cnt) <= InFlight(r, d.peer_fwd_cnt)

CreditOK(ends, q, d) ==
  /\ \A p \in VPorts : PortOK(p, ends[p], q)
  /\ d.present /\ d.connected => LinkOK(d.peer_port, ends[d.peer_port], q, d)

VsockInv == VsockTypes /\ OutputInv /\ CreditOK(peers, vsRing, vs)

LEMMA VsockNumbers ==
  /\ VsWrap \in Nat \ {0} /\ TX_PAYLOAD \in Nat \ {0} /\ 0 \in Residues /\ Residues \subseteq Nat
  /\ \A a \in VsAllocs : a \in Residues
BY VsockAssumption DEF VsockConstants, Residues

LEMMA FlightNumbers ==
  ASSUME NEW r \in HostEnds, NEW f \in Nat
  PROVE  InFlight(r, f) \in Residues /\ InFlight(r, f) \in Nat
<1>1. r.got - f \in Int
  BY DEF HostEnds
<1>2. PICK x \in Int : x = r.got - f
  BY <1>1
<1>3. x % VsWrap \in 0 .. VsWrap - 1
  BY VsockNumbers, Quotient
<1> QED BY <1>2, <1>3, VsockNumbers DEF InFlight, Residues

LEMMA EndNumbers ==
  ASSUME NEW r \in HostEnds
  PROVE  \E g, e, a, m \in Nat : g = r.got /\ e = r.eaten /\ a = r.alloc /\ m = r.most /\ m < VsWrap
<1>1. r.got \in Nat /\ r.eaten \in Nat /\ r.alloc \in Nat /\ r.most \in Residues
  BY DEF HostEnds
<1>2. PICK m \in Residues : m = r.most
  BY <1>1
<1>3. m \in Nat /\ m < VsWrap
  BY <1>2, VsockNumbers DEF Residues
<1> QED BY <1>1, <1>2, <1>3

LEMMA PacketNumbers ==
  ASSUME NEW q \in Seq(Packets), NEW i \in 1 .. Len(q)
  PROVE  q[i] \in Packets /\ q[i].fwd_cnt \in Nat /\ q[i].buf_alloc \in Nat
<1>1. q[i] \in Packets
  OBVIOUS
<1>2. PICK h \in Packets : h = q[i]
  BY <1>1
<1>3. h.fwd_cnt \in Nat /\ h.buf_alloc \in Residues
  BY DEF Packets
<1> QED BY <1>2, <1>3, VsockNumbers

(* Another port's packet, or one packet fewer, changes nothing.            *)
LEMMA OtherAppended ==
  ASSUME NEW q \in Seq(Packets), NEW k \in Packets, NEW p \in VPorts, k.port # p, NEW r, NEW d
  PROVE  /\ PortOK(p, r, q) => PortOK(p, r, Append(q, k))
         /\ LinkOK(p, r, q, d) => LinkOK(p, r, Append(q, k), d)
<1>1. /\ Len(Append(q, k)) = Len(q) + 1 /\ Append(q, k)[Len(q) + 1] = k
      /\ \A i \in 1 .. Len(q) : Append(q, k)[i] = q[i]
      /\ Len(q) \in Nat
  OBVIOUS
<1>2. \A i \in 1 .. Len(Append(q, k)) : Append(q, k)[i].port = p =>
        i \in 1 .. Len(q) /\ Append(q, k)[i] = q[i]
  BY <1>1
<1> QED BY <1>1, <1>2 DEF PortOK, LinkOK

LEMMA OneTaken ==
  ASSUME NEW q \in Seq(Packets), q # << >>, NEW p \in VPorts, NEW r, NEW d
  PROVE  /\ PortOK(p, r, q) => PortOK(p, r, Tail(q))
         /\ LinkOK(p, r, q, d) => LinkOK(p, r, Tail(q), d)
         /\ Tail(q) \in Seq(Packets) /\ Head(q) \in Packets
         /\ PortOK(Head(q).port, r, q) => PacketOK(r, Head(q))
<1>1. /\ Tail(q) \in Seq(Packets) /\ Head(q) \in Packets /\ Head(q) = q[1] /\ 1 \in 1 .. Len(q)
      /\ Len(Tail(q)) = Len(q) - 1 /\ Len(q) \in Nat
      /\ \A i \in 1 .. Len(Tail(q)) : Tail(q)[i] = q[i + 1] /\ i + 1 \in 1 .. Len(q)
  OBVIOUS
<1>2. PortOK(p, r, q) => PortOK(p, r, Tail(q))
  <2> SUFFICES ASSUME PortOK(p, r, q) PROVE PortOK(p, r, Tail(q))
    OBVIOUS
  <2>1. ASSUME NEW i \in 1 .. Len(Tail(q)), Tail(q)[i].port = p PROVE PacketOK(r, Tail(q)[i])
    BY <1>1, <2>1 DEF PortOK
  <2>2. ASSUME NEW i \in 1 .. Len(Tail(q)), NEW j \in 1 .. Len(Tail(q)), i < j,
               Tail(q)[i].port = p, Tail(q)[j].port = p
        PROVE  LaterOK(r, Tail(q)[i], Tail(q)[j])
    <3>1. i + 1 < j + 1
      BY <2>2
    <3> QED BY <1>1, <2>2, <3>1 DEF PortOK
  <2> QED BY <2>1, <2>2 DEF PortOK
<1>3. LinkOK(p, r, q, d) => LinkOK(p, r, Tail(q), d)
  BY <1>1 DEF LinkOK
<1>4. PortOK(Head(q).port, r, q) => PacketOK(r, Head(q))
  BY <1>1 DEF PortOK
<1> QED BY <1>1, <1>2, <1>3, <1>4

(* An end that is shut, or gone back to shut, is in no flight.             *)
LEMMA EndShut ==
  ASSUME NEW q \in Seq(Packets), NEW p \in VPorts, NEW r, PortOK(p, r, q), NEW d
  PROVE  Shut \in HostEnds /\ PortOK(p, Shut, q) /\ LinkOK(p, Shut, q, d)
<1>1. Shut \in HostEnds
  BY VsockNumbers DEF Shut, HostEnds, PeerStates
<1>2. Shut.st = "shut" /\ Shut.alloc = 0 /\ Shut.most = 0 /\ Shut.got = 0 /\ Shut.eaten = 0
  BY DEF Shut
<1>3. EndOK(Shut) /\ ~Linked(Shut)
  BY <1>2 DEF EndOK, Linked
<1>4. \A i \in 1 .. Len(q) : q[i].port = p => PacketOK(Shut, q[i])
  BY <1>2, <1>3 DEF PortOK, PacketOK
<1>5. \A i, j \in 1 .. Len(q) : i < j /\ q[i].port = p /\ q[j].port = p => LaterOK(Shut, q[i], q[j])
  BY <1>3 DEF PortOK, LaterOK
<1> QED BY <1>1, <1>3, <1>4, <1>5 DEF PortOK, LinkOK

(* A host that has read, grown or shrunk its buffer, or begun to close,    *)
(* and says so.                                                            *)
LEMMA EndChanged ==
  ASSUME NEW q \in Seq(Packets), NEW p \in VPorts, NEW r \in HostEnds, NEW s \in HostEnds,
         PortOK(p, r, q), NEW d \in Drivers, r.st = "open", Linked(s), EndOK(s),
         s.got = r.got, s.eaten >= r.eaten, s.most >= r.most
  PROVE  PortOK(p, s, q) /\ (LinkOK(p, r, q, d) => LinkOK(p, s, q, d))
<1>1. Linked(r) /\ s.st # "shut" /\ s.st # "asking"
  BY DEF Linked
<1>2. \A f : InFlight(s, f) = InFlight(r, f)
  BY DEF InFlight
<1>3. \A f \in Nat : Possible(r, f) => Possible(s, f)
  <2> SUFFICES ASSUME NEW f \in Nat, Possible(r, f) PROVE Possible(s, f)
    OBVIOUS
  <2>1. PICK w \in Nat : w = InFlight(r, f)
    BY FlightNumbers
  <2>2. PICK g, e, m \in Nat : g = r.got /\ e = r.eaten /\ m = r.most
    BY EndNumbers
  <2>3. PICK e2, m2 \in Nat : e2 = s.eaten /\ m2 = s.most
    BY EndNumbers
  <2>4. g - e <= w /\ w <= m /\ e2 >= e /\ m2 >= m
    BY <2>1, <2>2, <2>3 DEF Possible
  <2>5. g - e2 <= w /\ w <= m2
    BY <2>4
  <2> QED BY <1>2, <2>1, <2>2, <2>3, <2>5 DEF Possible
<1>4. ASSUME NEW i \in 1 .. Len(q), q[i].port = p PROVE PacketOK(s, q[i])
  <2>1. PacketOK(r, q[i]) /\ q[i].fwd_cnt \in Nat
    BY <1>4, PacketNumbers DEF PortOK
  <2>2. PICK b \in Nat : b = q[i].buf_alloc
    BY PacketNumbers
  <2>3. PICK m \in Nat : m = r.most
    BY EndNumbers
  <2>4. PICK m2 \in Nat : m2 = s.most
    BY EndNumbers
  <2>5. b <= m /\ r.st # "shut"
    BY <1>1, <2>1, <2>2, <2>3 DEF PacketOK
  <2>6. b <= m2
    BY <2>3, <2>4, <2>5
  <2>7. q[i].op # "REQUEST"
    BY <1>1, <2>1 DEF PacketOK
  <2> QED BY <1>1, <1>3, <2>1, <2>2, <2>4, <2>6, <2>7 DEF PacketOK
<1>5. \A i, j \in 1 .. Len(q) : i < j /\ q[i].port = p /\ q[j].port = p => LaterOK(s, q[i], q[j])
  BY <1>1, <1>2 DEF PortOK, LaterOK
<1>6. LinkOK(p, r, q, d) => LinkOK(p, s, q, d)
  <2> SUFFICES ASSUME LinkOK(p, r, q, d) PROVE LinkOK(p, s, q, d)
    OBVIOUS
  <2>1. d.peer_fwd_cnt \in Nat /\ d.peer_buf_alloc \in Nat
    BY DEF Drivers
  <2>2. d.tx_cnt = r.got % VsWrap /\ d.peer_buf_alloc <= r.most /\ Possible(r, d.peer_fwd_cnt)
        /\ \A i \in 1 .. Len(q) : q[i].port = p => InFlight(r, q[i].fwd_cnt) <= InFlight(r, d.peer_fwd_cnt)
    BY <1>1 DEF LinkOK
  <2>3. d.peer_buf_alloc <= s.most
    <3>1. PICK b, m, m2 \in Nat : b = d.peer_buf_alloc /\ m = r.most /\ m2 = s.most
      BY <2>1, EndNumbers
    <3>2. b <= m /\ m2 >= m
      BY <2>2, <3>1
    <3>3. b <= m2
      BY <3>2
    <3> QED BY <3>1, <3>3
  <2> QED BY <1>2, <1>3, <2>1, <2>2, <2>3 DEF LinkOK
<1> QED BY <1>4, <1>5, <1>6 DEF PortOK

LEMMA EndSays ==
  ASSUME NEW q \in Seq(Packets), NEW p \in VPorts, NEW r \in HostEnds, PortOK(p, r, q),
         NEW d \in Drivers, Linked(r), NEW k \in Packets, k.port = p, k.op # "REQUEST",
         k.buf_alloc <= r.most, k.fwd_cnt = r.eaten % VsWrap
  PROVE  PortOK(p, r, Append(q, k)) /\ (LinkOK(p, r, q, d) => LinkOK(p, r, Append(q, k), d))
<1>1. /\ Len(Append(q, k)) = Len(q) + 1 /\ Append(q, k)[Len(q) + 1] = k
      /\ \A i \in 1 .. Len(q) : Append(q, k)[i] = q[i]
      /\ Len(q) \in Nat
  OBVIOUS
<1>0. PICK g, e, m \in Nat : g = r.got /\ e = r.eaten /\ m = r.most /\ m < VsWrap
  BY EndNumbers
<1>2. e <= g /\ g - e <= m /\ r.st # "asking" /\ r.st # "shut"
  BY <1>0 DEF PortOK, EndOK, Linked
<1>3. InFlight(r, k.fwd_cnt) = g - e
  <2>1. g - e < VsWrap
    BY <1>0, <1>2, VsockNumbers
  <2>2. (g - (e % VsWrap)) % VsWrap = g - e
    BY <1>2, <2>1, VsockNumbers, ResidueOfDifference
  <2> QED BY <1>0, <2>2 DEF InFlight
<1>4. PacketOK(r, k) /\ \A f \in Nat : Possible(r, f) => InFlight(r, k.fwd_cnt) <= InFlight(r, f)
  <2>1. Possible(r, k.fwd_cnt)
    BY <1>0, <1>2, <1>3 DEF Possible
  <2>2. PacketOK(r, k)
    BY <1>2, <2>1 DEF PacketOK
  <2> QED BY <1>0, <1>3, <2>2 DEF Possible
<1>5. \A i \in 1 .. Len(Append(q, k)) : Append(q, k)[i].port = p => PacketOK(r, Append(q, k)[i])
  BY <1>1, <1>4 DEF PortOK
<1>6. ASSUME NEW i \in 1 .. Len(q), q[i].port = p PROVE LaterOK(r, q[i], k)
  <2>1. q[i].fwd_cnt \in Nat
    BY PacketNumbers
  <2>2. Possible(r, q[i].fwd_cnt)
    BY <1>6 DEF PortOK, PacketOK
  <2> QED BY <2>1, <2>2, <1>4 DEF LaterOK
<1>7. ASSUME NEW i \in 1 .. Len(Append(q, k)), NEW j \in 1 .. Len(Append(q, k)), i < j,
             Append(q, k)[i].port = p, Append(q, k)[j].port = p
      PROVE  LaterOK(r, Append(q, k)[i], Append(q, k)[j])
  <2>1. i \in 1 .. Len(q) /\ Append(q, k)[i] = q[i] /\ q[i].port = p
    BY <1>1, <1>7
  <2>2. CASE j = Len(q) + 1
    BY <1>1, <1>6, <2>1, <2>2
  <2>3. CASE j # Len(q) + 1
    <3>1. j \in 1 .. Len(q) /\ Append(q, k)[j] = q[j]
      BY <1>1, <2>3
    <3> QED BY <1>7, <2>1, <3>1 DEF PortOK
  <2> QED BY <2>2, <2>3
<1>8. LinkOK(p, r, q, d) => LinkOK(p, r, Append(q, k), d)
  <2> SUFFICES ASSUME LinkOK(p, r, q, d) PROVE LinkOK(p, r, Append(q, k), d)
    OBVIOUS
  <2>1. d.peer_fwd_cnt \in Nat /\ Possible(r, d.peer_fwd_cnt)
    BY DEF LinkOK, Drivers
  <2>2. \A i \in 1 .. Len(Append(q, k)) : Append(q, k)[i].port = p =>
          InFlight(r, Append(q, k)[i].fwd_cnt) <= InFlight(r, d.peer_fwd_cnt)
    BY <1>1, <1>4, <2>1 DEF LinkOK
  <2> QED BY <2>2 DEF LinkOK
<1> QED BY <1>5, <1>7, <1>8 DEF PortOK

(* A host asks for a connection on a port that nothing in the ring is of.  *)
LEMMA EndAsks ==
  ASSUME NEW q \in Seq(Packets), NEW p \in VPorts, \A i \in 1 .. Len(q) : q[i].port # p,
         NEW s \in HostEnds, s.st = "asking", s.got = 0, EndOK(s), NEW d,
         NEW k \in Packets, k.op = "REQUEST", k.fwd_cnt = 0, k.buf_alloc <= s.most
  PROVE  PortOK(p, s, Append(q, k)) /\ LinkOK(p, s, Append(q, k), d)
<1>1. /\ Len(Append(q, k)) = Len(q) + 1 /\ Append(q, k)[Len(q) + 1] = k
      /\ \A i \in 1 .. Len(q) : Append(q, k)[i] = q[i]
      /\ Len(q) \in Nat
  OBVIOUS
<1>2. ~Linked(s)
  BY DEF Linked
<1>3. \A i \in 1 .. Len(Append(q, k)) : Append(q, k)[i].port = p => i = Len(q) + 1
  BY <1>1
<1>4. PacketOK(s, k)
  BY <1>2 DEF PacketOK
<1> QED BY <1>1, <1>2, <1>3, <1>4 DEF PortOK, LinkOK

(* Its request is granted: it was the port's only packet.                  *)
LEMMA EndOpens ==
  ASSUME NEW q \in Seq(Packets), q # << >>, NEW r \in HostEnds, PortOK(Head(q).port, r, q),
         r.st = "asking", NEW s \in HostEnds, s.st = "open", s.got = r.got, s.eaten = r.eaten,
         s.most = r.most, s.alloc = r.alloc,
         NEW d \in Drivers, d.tx_cnt = 0, d.peer_fwd_cnt = 0, d.peer_buf_alloc <= r.most
  PROVE  PortOK(Head(q).port, s, Tail(q)) /\ LinkOK(Head(q).port, s, Tail(q), d)
<1> DEFINE p == Head(q).port
<1>1. /\ Head(q) = q[1] /\ 1 \in 1 .. Len(q) /\ Len(Tail(q)) = Len(q) - 1 /\ Len(q) \in Nat
      /\ \A i \in 1 .. Len(Tail(q)) : Tail(q)[i] = q[i + 1] /\ i + 1 \in 1 .. Len(q) /\ 1 < i + 1
  OBVIOUS
<1>2. ASSUME NEW i \in 1 .. Len(Tail(q)), Tail(q)[i].port = p PROVE FALSE
  <2>1. i + 1 \in 1 .. Len(q) /\ q[i + 1].port = p /\ q[1].port = p /\ 1 < i + 1
    BY <1>1, <1>2
  <2>2. PacketOK(r, q[i + 1]) /\ LaterOK(r, q[1], q[i + 1])
    BY <1>1, <2>1 DEF PortOK
  <2> QED BY <2>2 DEF PacketOK, LaterOK
<1>3. EndOK(s) /\ r.got = 0 /\ r.eaten = 0 /\ r.most \in Nat
  <2>1. PICK g, e, m \in Nat : g = r.got /\ e = r.eaten /\ m = r.most
    BY EndNumbers
  <2>2. EndOK(r) /\ r.got = 0
    BY DEF PortOK, EndOK
  <2>3. e <= g /\ g = 0
    BY <2>1, <2>2 DEF EndOK
  <2>4. e = 0
    BY <2>3
  <2>5. s.st # "asking"
    OBVIOUS
  <2>6. EndOK(s)
    BY <2>2, <2>5 DEF EndOK
  <2> QED BY <2>1, <2>2, <2>4, <2>6
<1>4. InFlight(s, 0) = 0 /\ s.got % VsWrap = 0
  <2>1. 0 % VsWrap = 0 /\ (0 - 0) % VsWrap = 0
    BY VsockNumbers
  <2> QED BY <1>3, <2>1 DEF InFlight
<1>5. Possible(s, 0)
  BY <1>3, <1>4 DEF Possible
<1> QED BY <1>2, <1>3, <1>4, <1>5 DEF PortOK, LinkOK

(* n bytes within the credit arrive.                                       *)
LEMMA EndGets ==
  ASSUME NEW q \in Seq(Packets), NEW p \in VPorts, NEW r \in HostEnds, PortOK(p, r, q), Linked(r),
         NEW d \in Drivers, LinkOK(p, r, q, d), NEW n \in Nat,
         InFlight(r, d.peer_fwd_cnt) + n <= d.peer_buf_alloc,
         NEW s \in HostEnds, s = [r EXCEPT !.got = @ + n],
         NEW e \in Drivers, e.tx_cnt = (d.tx_cnt + n) % VsWrap,
         e.peer_buf_alloc = d.peer_buf_alloc, e.peer_fwd_cnt = d.peer_fwd_cnt
  PROVE  PortOK(p, s, q) /\ LinkOK(p, s, q, e)
<1>1. /\ s.st = r.st /\ s.alloc = r.alloc /\ s.most = r.most /\ s.eaten = r.eaten
      /\ s.got = r.got + n /\ r.got \in Nat /\ r.eaten \in Nat /\ r.most \in Residues /\ r.most \in Nat
      /\ r.most < VsWrap
  BY VsockNumbers DEF HostEnds, Residues
<1>2. /\ d.tx_cnt = r.got % VsWrap /\ d.peer_buf_alloc <= r.most /\ Possible(r, d.peer_fwd_cnt)
      /\ \A i \in 1 .. Len(q) : q[i].port = p => InFlight(r, q[i].fwd_cnt) <= InFlight(r, d.peer_fwd_cnt)
      /\ d.peer_fwd_cnt \in Nat /\ d.peer_buf_alloc \in Nat
  BY DEF LinkOK, Drivers
<1>3. ASSUME NEW f \in Nat, InFlight(r, f) <= InFlight(r, d.peer_fwd_cnt)
      PROVE  InFlight(s, f) = InFlight(r, f) + n /\ (Possible(r, f) => Possible(s, f))
  <2>1. InFlight(r, f) \in Nat /\ InFlight(r, d.peer_fwd_cnt) \in Nat
    BY <1>2, FlightNumbers
  <2>2. InFlight(r, f) + n <= r.most /\ InFlight(r, f) + n < VsWrap
    <3>1. PICK w, w2, b, m \in Nat : w = InFlight(r, f) /\ w2 = InFlight(r, d.peer_fwd_cnt)
                                    /\ b = d.peer_buf_alloc /\ m = r.most
      BY <1>1, <1>2, <2>1
    <3>2. w <= w2 /\ w2 + n <= b /\ b <= m /\ m < VsWrap
      BY <1>1, <1>2, <1>3, <3>1
    <3>3. w + n <= m /\ w + n < VsWrap
      BY <3>2, VsockNumbers
    <3> QED BY <3>1, <3>3
  <2>3. PICK x \in Int : x = r.got - f
    BY <1>1
  <2>4. s.got - f = x + n
    BY <1>1, <2>3
  <2>5. (x + n) % VsWrap = (x % VsWrap) + n
    BY <2>2, <2>3, VsockNumbers, ResidueGrows DEF InFlight
  <2>6. InFlight(s, f) = InFlight(r, f) + n
    BY <2>3, <2>4, <2>5 DEF InFlight
  <2> QED BY <1>1, <2>1, <2>2, <2>6 DEF Possible
<1>4. InFlight(r, d.peer_fwd_cnt) \in Nat
  BY <1>2, FlightNumbers
<1>5. Possible(s, d.peer_fwd_cnt) /\ InFlight(s, d.peer_fwd_cnt) = InFlight(r, d.peer_fwd_cnt) + n
  BY <1>2, <1>3, <1>4
<1>6. EndOK(s) /\ Linked(s) /\ s.st # "asking"
  <2>1. r.got + n - r.eaten <= r.most
    BY <1>1, <1>2, <1>4 DEF Possible
  <2> QED BY <1>1, <2>1 DEF PortOK, EndOK, Linked
<1>7. ASSUME NEW i \in 1 .. Len(q), q[i].port = p
      PROVE  /\ PacketOK(s, q[i]) /\ InFlight(s, q[i].fwd_cnt) = InFlight(r, q[i].fwd_cnt) + n
             /\ InFlight(r, q[i].fwd_cnt) \in Nat
  <2>1. q[i].fwd_cnt \in Nat /\ PacketOK(r, q[i])
    BY <1>7, PacketNumbers DEF PortOK
  <2>2. InFlight(s, q[i].fwd_cnt) = InFlight(r, q[i].fwd_cnt) + n /\ Possible(s, q[i].fwd_cnt)
    BY <1>2, <1>3, <1>7, <2>1 DEF PacketOK
  <2>3. PacketOK(s, q[i])
    BY <1>1, <1>6, <2>1, <2>2 DEF PacketOK
  <2> QED BY <2>1, <2>2, <2>3, FlightNumbers
<1>8. ASSUME NEW i \in 1 .. Len(q), NEW j \in 1 .. Len(q), i < j, q[i].port = p, q[j].port = p
      PROVE  LaterOK(s, q[i], q[j])
  <2>1. LaterOK(r, q[i], q[j])
    BY <1>8 DEF PortOK
  <2>2. InFlight(s, q[j].fwd_cnt) <= InFlight(s, q[i].fwd_cnt)
    <3>1. PICK w, w2 \in Nat : w = InFlight(r, q[i].fwd_cnt) /\ w2 = InFlight(r, q[j].fwd_cnt)
      BY <1>7, <1>8
    <3>2. w2 <= w
      BY <2>1, <3>1 DEF LaterOK
    <3>3. w2 + n <= w + n
      BY <3>2
    <3> QED BY <1>7, <1>8, <3>1, <3>3
  <2> QED BY <2>1, <2>2 DEF LaterOK
<1>9. e.tx_cnt = s.got % VsWrap
  <2>1. r.got \in Int /\ n \in Int
    BY <1>1
  <2> QED BY <1>1, <1>2, <2>1, VsockNumbers, ResidueOfSum
<1>10. \A i \in 1 .. Len(q) : q[i].port = p => InFlight(s, q[i].fwd_cnt) <= InFlight(s, e.peer_fwd_cnt)
  BY <1>2, <1>4, <1>5, <1>7
<1>11. LinkOK(p, s, q, e)
  BY <1>1, <1>2, <1>5, <1>9, <1>10 DEF LinkOK
<1> QED BY <1>6, <1>7, <1>8, <1>11 DEF PortOK

(* The driver takes note of what the next packet of its peer tells.        *)
LEMMA CreditNoted ==
  ASSUME NEW q \in Seq(Packets), q # << >>, NEW r \in HostEnds, PortOK(Head(q).port, r, q),
         NEW d, LinkOK(Head(q).port, r, q, d), NEW e, e.tx_cnt = d.tx_cnt,
         e.peer_buf_alloc = Head(q).buf_alloc, e.peer_fwd_cnt = Head(q).fwd_cnt
  PROVE  LinkOK(Head(q).port, r, Tail(q), e)
<1> DEFINE p == Head(q).port
<1> SUFFICES ASSUME Linked(r) PROVE LinkOK(p, r, Tail(q), e)
  BY DEF LinkOK
<1>1. /\ Head(q) = q[1] /\ 1 \in 1 .. Len(q) /\ Len(Tail(q)) = Len(q) - 1 /\ Len(q) \in Nat
      /\ \A i \in 1 .. Len(Tail(q)) : Tail(q)[i] = q[i + 1] /\ i + 1 \in 1 .. Len(q) /\ 1 < i + 1
  OBVIOUS
<1>2. PacketOK(r, q[1]) /\ r.st # "shut"
  BY <1>1 DEF PortOK, Linked
<1>3. ASSUME NEW i \in 1 .. Len(Tail(q)), Tail(q)[i].port = p
      PROVE  InFlight(r, Tail(q)[i].fwd_cnt) <= InFlight(r, e.peer_fwd_cnt)
  <2>1. i + 1 \in 1 .. Len(q) /\ q[i + 1].port = p /\ q[1].port = p /\ 1 < i + 1
    BY <1>1, <1>3
  <2>2. LaterOK(r, q[1], q[i + 1])
    BY <1>1, <2>1 DEF PortOK
  <2> QED BY <1>1, <2>2 DEF LaterOK
<1> QED BY <1>1, <1>2, <1>3 DEF LinkOK, PacketOK

-----------------------------------------------------------------------------
(* One port's end, the ring and the driver change; other ports' ends do not. *)
LEMMA OneEndChanges ==
  ASSUME NEW ends \in [VPorts -> HostEnds], NEW q \in Seq(Packets), NEW d \in Drivers,
         NEW p \in VPorts, NEW s \in HostEnds, PortOK(p, s, q), d.connected => d.peer_port \in VPorts,
         \A x \in VPorts \ {p} : PortOK(x, ends[x], q),
         d.present /\ d.connected /\ d.peer_port = p => LinkOK(p, s, q, d),
         d.present /\ d.connected /\ d.peer_port # p => LinkOK(d.peer_port, ends[d.peer_port], q, d)
  PROVE  /\ [ends EXCEPT ![p] = s] \in [VPorts -> HostEnds]
         /\ CreditOK([ends EXCEPT ![p] = s], q, d)
<1>1. PICK new \in [VPorts -> HostEnds] : new = [ends EXCEPT ![p] = s]
  OBVIOUS
<1>2. new[p] = s /\ \A x \in VPorts \ {p} : new[x] = ends[x]
  BY <1>1
<1>3. \A x \in VPorts : PortOK(x, new[x], q)
  BY <1>2
<1>4. d.present /\ d.connected => LinkOK(d.peer_port, new[d.peer_port], q, d)
  BY <1>2
<1> QED BY <1>1, <1>3, <1>4 DEF CreditOK

(* What a link knows of the driver.                                        *)
LEMMA LinkOfDriver ==
  ASSUME NEW p, NEW r, NEW q, NEW d, NEW e, LinkOK(p, r, q, d), e.tx_cnt = d.tx_cnt,
         e.peer_buf_alloc = d.peer_buf_alloc, e.peer_fwd_cnt = d.peer_fwd_cnt
  PROVE  LinkOK(p, r, q, e)
BY DEF LinkOK

(* The host says something: its end may have changed in the saying.        *)
LEMMA HostSaid ==
  ASSUME NEW ends \in [VPorts -> HostEnds], NEW q \in Seq(Packets), NEW d, DriverOK(d),
         CreditOK(ends, q, d), NEW p \in VPorts, ends[p].st = "open",
         NEW s \in HostEnds, Linked(s), EndOK(s),
         s.got = ends[p].got, s.eaten = ends[p].eaten, s.most >= ends[p].most,
         NEW k \in Packets, k.port = p, k.op # "REQUEST", k.buf_alloc <= s.most,
         k.fwd_cnt = ends[p].eaten % VsWrap
  PROVE  /\ [ends EXCEPT ![p] = s] \in [VPorts -> HostEnds] /\ Append(q, k) \in Seq(Packets)
         /\ CreditOK([ends EXCEPT ![p] = s], Append(q, k), d)
         /\ PortOK(p, s, Append(q, k))
<1>1. d \in Drivers /\ (d.connected => d.peer_port \in VPorts)
  BY DEF DriverOK
<1>2. PICK r \in HostEnds : r = ends[p]
  OBVIOUS
<1>3. PortOK(p, r, q) /\ (d.present /\ d.connected /\ d.peer_port = p => LinkOK(p, r, q, d))
  BY <1>2 DEF CreditOK
<1>4. s.eaten >= r.eaten
  BY <1>2, EndNumbers
<1>5. PortOK(p, s, q) /\ (LinkOK(p, r, q, d) => LinkOK(p, s, q, d))
  BY <1>1, <1>2, <1>3, <1>4, EndChanged
<1>6. PortOK(p, s, Append(q, k)) /\ (LinkOK(p, s, q, d) => LinkOK(p, s, Append(q, k), d))
  BY <1>1, <1>2, <1>5, EndSays
<1>7. Append(q, k) \in Seq(Packets)
  OBVIOUS
<1>8. \A x \in VPorts \ {p} : PortOK(x, ends[x], Append(q, k))
  <2> SUFFICES ASSUME NEW x \in VPorts \ {p} PROVE PortOK(x, ends[x], Append(q, k))
    OBVIOUS
  <2>1. PortOK(x, ends[x], q) /\ k.port # x
    BY DEF CreditOK
  <2> QED BY <2>1, OtherAppended
<1>9. d.present /\ d.connected /\ d.peer_port # p =>
        LinkOK(d.peer_port, ends[d.peer_port], Append(q, k), d)
  <2> SUFFICES ASSUME d.present, d.connected, d.peer_port # p
               PROVE  LinkOK(d.peer_port, ends[d.peer_port], Append(q, k), d)
    OBVIOUS
  <2>1. d.peer_port \in VPorts /\ LinkOK(d.peer_port, ends[d.peer_port], q, d) /\ k.port # d.peer_port
    BY <1>1 DEF CreditOK
  <2> QED BY <2>1, OtherAppended
<1> QED BY <1>1, <1>3, <1>5, <1>6, <1>7, <1>8, <1>9, OneEndChanges

(* The driver took the next packet and left one end and itself as s and e. *)
LEMMA PacketTaken ==
  ASSUME NEW ends \in [VPorts -> HostEnds], NEW q \in Seq(Packets), q # << >>, NEW d, DriverOK(d),
         CreditOK(ends, q, d), NEW s \in HostEnds, PortOK(Head(q).port, s, Tail(q)),
         NEW e, DriverOK(e),
         e.present /\ e.connected /\ e.peer_port = Head(q).port => LinkOK(Head(q).port, s, Tail(q), e),
         e.present /\ e.connected /\ e.peer_port # Head(q).port =>
           /\ d.present /\ d.connected /\ d.peer_port = e.peer_port
           /\ e.tx_cnt = d.tx_cnt /\ e.peer_buf_alloc = d.peer_buf_alloc /\ e.peer_fwd_cnt = d.peer_fwd_cnt
  PROVE  /\ [ends EXCEPT ![Head(q).port] = s] \in [VPorts -> HostEnds] /\ Tail(q) \in Seq(Packets)
         /\ CreditOK([ends EXCEPT ![Head(q).port] = s], Tail(q), e)
<1>1. e \in Drivers /\ (e.connected => e.peer_port \in VPorts)
  BY DEF DriverOK
<1>2. PICK h \in Packets : h = Head(q)
  OBVIOUS
<1>3. PICK p \in VPorts : p = Head(q).port
  BY <1>2 DEF Packets
<1>4. Tail(q) \in Seq(Packets)
  OBVIOUS
<1>5. \A x \in VPorts \ {p} : PortOK(x, ends[x], Tail(q))
  BY OneTaken DEF CreditOK
<1>6. e.present /\ e.connected /\ e.peer_port # p => LinkOK(e.peer_port, ends[e.peer_port], Tail(q), e)
  <2> SUFFICES ASSUME e.present, e.connected, e.peer_port # p
               PROVE  LinkOK(e.peer_port, ends[e.peer_port], Tail(q), e)
    OBVIOUS
  <2>1. /\ d.present /\ d.connected /\ d.peer_port = e.peer_port /\ e.peer_port \in VPorts
        /\ e.tx_cnt = d.tx_cnt /\ e.peer_buf_alloc = d.peer_buf_alloc /\ e.peer_fwd_cnt = d.peer_fwd_cnt
    BY <1>1, <1>3
  <2>2. LinkOK(e.peer_port, ends[e.peer_port], q, d)
    BY <2>1 DEF CreditOK
  <2>3. LinkOK(e.peer_port, ends[e.peer_port], Tail(q), d)
    BY <2>1, <2>2, OneTaken
  <2> QED BY <2>1, <2>3, LinkOfDriver
<1> QED BY <1>1, <1>3, <1>4, <1>5, <1>6, OneEndChanges

(* What tx_packet may leave of the driver d it is called with and of the   *)
(* end of p: a device that is dropped need not have sent.                  *)
Answered(op, r) ==
  IF op = "RST" /\ r.st \in {"asking", "closing"} THEN Shut
  ELSE IF op = "RESPONSE" /\ r.st = "asking" THEN [r EXCEPT !.st = "open"] ELSE r

SentBy(d, e) ==
  /\ DriverOK(e)
  /\ e.present => /\ d.present /\ e.connected = d.connected /\ e.peer_port = d.peer_port
                  /\ e.tx_cnt = d.tx_cnt /\ e.peer_buf_alloc = d.peer_buf_alloc
                  /\ e.peer_fwd_cnt = d.peer_fwd_cnt

LEMMA AnsweredEnd ==
  ASSUME NEW op, NEW r \in HostEnds
  PROVE  Answered(op, r) \in HostEnds
BY VsockNumbers DEF Answered, Shut, HostEnds, PeerStates

LEMMA PacketSent ==
  ASSUME peers \in [VPorts -> HostEnds], NEW op, NEW p \in VPorts, NEW d, DriverOK(d),
         tx_packet(op, p, d)
  PROVE  /\ SentBy(d, vs')
         /\ \E r \in {peers[p], Answered(op, peers[p])} :
               peers' = [peers EXCEPT ![p] = r] /\ (vs'.present => r = Answered(op, peers[p]))
<1>1. PICK d2 \in Drivers : d2 = [d EXCEPT !.fwd_cnt_told = d.fwd_cnt]
  BY DEF DriverOK, Drivers
<1>2. /\ d2.present = d.present /\ d2.connected = d.connected /\ d2.peer_port = d.peer_port
      /\ d2.tx_cnt = d.tx_cnt /\ d2.peer_buf_alloc = d.peer_buf_alloc /\ d2.peer_fwd_cnt = d.peer_fwd_cnt
  BY <1>1 DEF DriverOK, Drivers
<1>4. DriverOK(d2)
  BY <1>2 DEF DriverOK
<1>5. SentBy(d, TimedOut(d2)) /\ ~TimedOut(d2).present
  <2>1. PICK d3 \in Drivers : d3 = TimedOut(d2)
    BY DEF TimedOut, Drivers
  <2>2. ~d3.present /\ ~d3.connected
    BY <2>1 DEF TimedOut, Drivers
  <2> QED BY <2>1, <2>2 DEF SentBy, DriverOK
<1>6. Told(op, p) = [peers EXCEPT ![p] = Answered(op, peers[p])]
  BY DEF Told, Answered
<1>7. peers = [peers EXCEPT ![p] = peers[p]]
  OBVIOUS
<1>8. CASE vs' = d2 /\ peers' = Told(op, p)
  <2>1. SentBy(d, d2)
    BY <1>2, <1>4 DEF SentBy
  <2> QED BY <1>6, <1>8, <2>1
<1>9. CASE vs' = TimedOut(d2) /\ peers' \in {peers, Told(op, p)}
  BY <1>5, <1>6, <1>7, <1>9
<1> QED BY <1>1, <1>8, <1>9 DEF tx_packet

-----------------------------------------------------------------------------
(* The host's steps.                                                       *)
LEMMA EndOf ==
  ASSUME VsockTypes, CreditOK(peers, vsRing, vs), NEW p \in VPorts
  PROVE  /\ peers[p] \in HostEnds /\ EndOK(peers[p]) /\ PortOK(p, peers[p], vsRing)
         /\ peers[p].alloc \in Residues
<1>1. PICK r \in HostEnds : r = peers[p]
  BY DEF VsockTypes
<1>2. PortOK(p, r, vsRing) /\ EndOK(r)
  BY <1>1 DEF CreditOK, PortOK
<1>3. PICK a, m \in Nat : a = r.alloc /\ m = r.most /\ m < VsWrap
  BY EndNumbers
<1>4. a <= m
  BY <1>2, <1>3 DEF EndOK
<1>5. a \in Residues
  BY <1>3, <1>4, VsockNumbers DEF Residues
<1> QED BY <1>1, <1>2, <1>3, <1>5

LEMMA PacketOf ==
  ASSUME VsockTypes, CreditOK(peers, vsRing, vs), NEW p \in VPorts, NEW op \in PacketOps
  PROVE  /\ Packet(op, p) \in Packets /\ Packet(op, p).port = p /\ Packet(op, p).op = op
         /\ Packet(op, p).buf_alloc = peers[p].alloc
         /\ Packet(op, p).fwd_cnt = peers[p].eaten % VsWrap
<1>1. PICK e \in Nat : e = peers[p].eaten
  BY EndOf, EndNumbers
<1>2. e % VsWrap \in Nat
  BY VsockNumbers
<1>3. peers[p].alloc \in Residues
  BY EndOf
<1> QED BY <1>1, <1>2, <1>3 DEF Packet, Packets

(* An unchanged end says something.                                        *)
LEMMA HostSaysKeeps ==
  ASSUME VsockTypes, CreditOK(peers, vsRing, vs), NEW p \in VPorts, peers[p].st = "open",
         NEW op \in PacketOps \ {"REQUEST"}, vsRing' = Append(vsRing, Packet(op, p)),
         UNCHANGED <<peers, vs>>
  PROVE  vsRing' \in Seq(Packets) /\ CreditOK(peers, vsRing', vs)
<1>1. PICK r \in HostEnds : r = peers[p] /\ EndOK(r)
  BY EndOf
<1>2. PICK m, a \in Nat : m = r.most /\ a = r.alloc
  BY EndNumbers
<1>3. m >= m /\ a <= m
  BY <1>1, <1>2 DEF EndOK
<1>4. Linked(r)
  BY <1>1 DEF Linked
<1>5. PICK k \in Packets : /\ k = Packet(op, p) /\ k.port = p /\ k.op # "REQUEST"
                           /\ k.buf_alloc <= r.most /\ k.fwd_cnt = peers[p].eaten % VsWrap
  BY <1>1, <1>2, <1>3, PacketOf
<1>6. [peers EXCEPT ![p] = r] = peers
  BY <1>1 DEF VsockTypes
<1>7. CreditOK([peers EXCEPT ![p] = r], Append(vsRing, k), vs) /\ Append(vsRing, k) \in Seq(Packets)
  BY <1>1, <1>2, <1>3, <1>4, <1>5, HostSaid DEF VsockTypes
<1> QED BY <1>5, <1>6, <1>7

LEMMA HostTellsKeeps ==
  ASSUME VsockTypes, CreditOK(peers, vsRing, vs), NEW p \in VPorts, NEW a \in VsAllocs,
         NEW op \in {"CREDIT_UPDATE", "CREDIT_REQUEST"}, HostTells(p, a, op)
  PROVE  /\ peers' \in [VPorts -> HostEnds] /\ vsRing' \in Seq(Packets)
         /\ CreditOK(peers', vsRing', vs)
<1>1. PICK r \in HostEnds : r = peers[p] /\ EndOK(r) /\ r.st = "open"
  BY EndOf DEF HostTells
<1>2. PICK s : s = [r EXCEPT !.alloc = a, !.most = IF a > @ THEN a ELSE @]
  OBVIOUS
<1>3. a \in Residues /\ a \in Nat
  BY VsockNumbers
<1>4. /\ s \in HostEnds /\ s.st = "open" /\ s.alloc = a /\ s.got = r.got /\ s.eaten = r.eaten
      /\ s.most = IF a > r.most THEN a ELSE r.most
  <2>1. PICK m0 \in Residues : m0 = r.most
    BY DEF HostEnds
  <2>2. PICK m2 \in Residues : m2 = IF a > m0 THEN a ELSE m0
    BY <1>3
  <2>3. s = [r EXCEPT !.alloc = a, !.most = m2]
    BY <1>2, <2>1, <2>2
  <2>4. s \in HostEnds
    BY <1>3, <2>3 DEF HostEnds
  <2>5. s.st = "open" /\ s.alloc = a /\ s.got = r.got /\ s.eaten = r.eaten /\ s.most = m2
    BY <1>1, <2>3 DEF HostEnds
  <2> QED BY <2>1, <2>2, <2>4, <2>5
<1>5. PICK g, e, m \in Nat : g = r.got /\ e = r.eaten /\ m = r.most
  BY EndNumbers
<1>6. PICK m2 \in Nat : m2 = s.most
  BY <1>4, EndNumbers
<1>7. m2 >= m /\ a <= m2
  BY <1>3, <1>4, <1>5, <1>6
<1>8. e <= g /\ g - e <= m2
  BY <1>1, <1>5, <1>7 DEF EndOK
<1>9. EndOK(s) /\ Linked(s)
  BY <1>4, <1>5, <1>6, <1>7, <1>8 DEF EndOK, Linked
<1>10. PICK k : k = [Packet(op, p) EXCEPT !.buf_alloc = a]
  OBVIOUS
<1>11. k \in Packets /\ k.port = p /\ k.op # "REQUEST" /\ k.buf_alloc = a
       /\ k.fwd_cnt = peers[p].eaten % VsWrap
  <2>1. PICK k0 \in Packets : /\ k0 = Packet(op, p) /\ k0.port = p /\ k0.op = op
                              /\ k0.fwd_cnt = peers[p].eaten % VsWrap
    BY PacketOf DEF PacketOps
  <2>2. k = [k0 EXCEPT !.buf_alloc = a]
    BY <1>10, <2>1
  <2> QED BY <1>3, <2>1, <2>2 DEF Packets
<1>12. peers' = [peers EXCEPT ![p] = s] /\ vsRing' = Append(vsRing, k)
  BY <1>1, <1>2, <1>10 DEF HostTells, HostSays, HostSends
<1>13. s.most >= peers[p].most /\ k.buf_alloc <= s.most
  BY <1>1, <1>5, <1>6, <1>7, <1>11
<1>14. /\ [peers EXCEPT ![p] = s] \in [VPorts -> HostEnds] /\ Append(vsRing, k) \in Seq(Packets)
       /\ CreditOK([peers EXCEPT ![p] = s], Append(vsRing, k), vs)
  BY <1>1, <1>4, <1>9, <1>11, <1>13, HostSaid DEF VsockTypes
<1> QED BY <1>12, <1>14

LEMMA HostClosesKeeps ==
  ASSUME VsockTypes, CreditOK(peers, vsRing, vs), NEW p \in VPorts,
         NEW op \in {"SHUTDOWN", "RST"}, HostCloses(p, op)
  PROVE  /\ peers' \in [VPorts -> HostEnds] /\ vsRing' \in Seq(Packets)
         /\ CreditOK(peers', vsRing', vs)
<1>1. PICK r \in HostEnds : r = peers[p] /\ EndOK(r) /\ r.st = "open"
  BY EndOf DEF HostCloses
<1>2. PICK s : s = [r EXCEPT !.st = "closing"]
  OBVIOUS
<1>3. /\ s \in HostEnds /\ s.st = "closing" /\ s.alloc = r.alloc /\ s.got = r.got /\ s.eaten = r.eaten
      /\ s.most = r.most
  BY <1>2 DEF HostEnds, PeerStates
<1>4. EndOK(s) /\ Linked(s)
  BY <1>1, <1>3 DEF EndOK, Linked
<1>5. PICK m, a \in Nat : m = r.most /\ a = r.alloc
  BY EndNumbers
<1>6. m >= m /\ a <= m
  BY <1>1, <1>5 DEF EndOK
<1>7. PICK k \in Packets : /\ k = Packet(op, p) /\ k.port = p /\ k.op # "REQUEST"
                           /\ k.buf_alloc <= s.most /\ k.fwd_cnt = peers[p].eaten % VsWrap
  BY <1>1, <1>3, <1>5, <1>6, PacketOf DEF PacketOps
<1>8. s.most >= peers[p].most
  BY <1>1, <1>3, <1>5, <1>6
<1>9. /\ [peers EXCEPT ![p] = s] \in [VPorts -> HostEnds] /\ Append(vsRing, k) \in Seq(Packets)
      /\ CreditOK([peers EXCEPT ![p] = s], Append(vsRing, k), vs) /\ PortOK(p, s, Append(vsRing, k))
  BY <1>1, <1>3, <1>4, <1>7, <1>8, HostSaid DEF VsockTypes
<1>10. vsRing' = Append(vsRing, k)
  BY <1>7 DEF HostCloses, HostSends
<1>11. CASE op # "RST"
  <2>1. peers' = [peers EXCEPT ![p] = s]
    BY <1>1, <1>2, <1>11 DEF HostCloses
  <2> QED BY <1>9, <1>10, <2>1
<1>12. CASE op = "RST"
  <2>1. peers' = [peers EXCEPT ![p] = Shut]
    BY <1>12 DEF HostCloses
  <2>2. PICK q \in Seq(Packets) : q = Append(vsRing, k)
    BY <1>9
  <2>3. PICK ends \in [VPorts -> HostEnds] : ends = [peers EXCEPT ![p] = s]
    BY <1>9
  <2>4. ends[p] = s /\ [ends EXCEPT ![p] = Shut] = [peers EXCEPT ![p] = Shut]
    BY <2>3 DEF VsockTypes
  <2>5. CreditOK(ends, q, vs) /\ PortOK(p, s, q)
    BY <1>9, <2>2, <2>3
  <2>6. Shut \in HostEnds /\ PortOK(p, Shut, q) /\ LinkOK(p, Shut, q, vs)
    BY <2>5, EndShut
  <2>7. /\ \A x \in VPorts \ {p} : PortOK(x, ends[x], q)
        /\ vs.present /\ vs.connected /\ vs.peer_port # p => LinkOK(vs.peer_port, ends[vs.peer_port], q, vs)
    BY <2>5 DEF CreditOK
  <2>8. vs \in Drivers /\ (vs.connected => vs.peer_port \in VPorts)
    BY DEF VsockTypes, DriverOK
  <2>9. /\ [ends EXCEPT ![p] = Shut] \in [VPorts -> HostEnds] /\ CreditOK([ends EXCEPT ![p] = Shut], q, vs)
    BY <2>6, <2>7, <2>8, OneEndChanges
  <2> QED BY <1>9, <1>10, <2>1, <2>2, <2>4, <2>9
<1> QED BY <1>11, <1>12

LEMMA HostConnectsKeeps ==
  ASSUME VsockTypes, CreditOK(peers, vsRing, vs), NEW p \in VPorts, NEW a \in VsAllocs,
         HostConnects(p, a)
  PROVE  /\ peers' \in [VPorts -> HostEnds] /\ vsRing' \in Seq(Packets)
         /\ CreditOK(peers', vsRing', vs)
<1>1. a \in Residues /\ a \in Nat
  BY VsockNumbers
<1>2. PICK s : s = [Shut EXCEPT !.st = "asking", !.alloc = a, !.most = a]
  OBVIOUS
<1>3. s \in HostEnds /\ s.st = "asking" /\ s.alloc = a /\ s.most = a /\ s.got = 0 /\ s.eaten = 0
  BY <1>1, <1>2 DEF Shut, HostEnds, PeerStates
<1>4. EndOK(s) /\ a <= s.most
  BY <1>1, <1>3 DEF EndOK
<1>5. PICK k : k = [op |-> "REQUEST", port |-> p, buf_alloc |-> a, fwd_cnt |-> 0]
  OBVIOUS
<1>6. k \in Packets /\ k.op = "REQUEST" /\ k.port = p /\ k.buf_alloc = a /\ k.fwd_cnt = 0
  BY <1>1, <1>5 DEF Packets, PacketOps
<1>7. peers' = [peers EXCEPT ![p] = s] /\ vsRing' = Append(vsRing, k)
      /\ \A i \in 1 .. Len(vsRing) : vsRing[i].port # p
  BY <1>2, <1>5 DEF HostConnects, HostSends
<1>8. PortOK(p, s, Append(vsRing, k)) /\ LinkOK(p, s, Append(vsRing, k), vs)
  BY <1>3, <1>4, <1>6, <1>7, EndAsks DEF VsockTypes
<1>9. vs \in Drivers /\ (vs.connected => vs.peer_port \in VPorts) /\ peers \in [VPorts -> HostEnds]
      /\ vsRing \in Seq(Packets)
  BY DEF VsockTypes, DriverOK
<1>10. \A x \in VPorts \ {p} : PortOK(x, peers[x], Append(vsRing, k))
  BY <1>6, <1>9, OtherAppended DEF CreditOK
<1>11. vs.present /\ vs.connected /\ vs.peer_port # p =>
         LinkOK(vs.peer_port, peers[vs.peer_port], Append(vsRing, k), vs)
  BY <1>6, <1>9, OtherAppended DEF CreditOK
<1>12. Append(vsRing, k) \in Seq(Packets)
  BY <1>6, <1>9
<1> QED BY <1>3, <1>7, <1>8, <1>9, <1>10, <1>11, <1>12, OneEndChanges

LEMMA HostReadsKeeps ==
  ASSUME VsockTypes, CreditOK(peers, vsRing, vs), NEW p \in VPorts, HostReads(p)
  PROVE  peers' \in [VPorts -> HostEnds] /\ CreditOK(peers', vsRing, vs)
<1>1. PICK r \in HostEnds : r = peers[p] /\ EndOK(r) /\ PortOK(p, r, vsRing) /\ r.st = "open"
  BY EndOf DEF HostReads
<1>2. PICK g, e, m \in Nat : g = r.got /\ e = r.eaten /\ m = r.most
  BY EndNumbers
<1>3. PICK s : s = [r EXCEPT !.eaten = @ + 1]
  OBVIOUS
<1>4. /\ s \in HostEnds /\ s.st = "open" /\ s.alloc = r.alloc /\ s.most = m /\ s.got = g /\ s.eaten = e + 1
  BY <1>1, <1>2, <1>3 DEF HostEnds
<1>5. e < g /\ g - e <= m
  BY <1>1, <1>2 DEF HostReads, EndOK
<1>6. e + 1 <= g /\ g - (e + 1) <= m /\ e + 1 >= e /\ m >= m
  BY <1>5
<1>7. EndOK(s) /\ Linked(s)
  BY <1>1, <1>2, <1>4, <1>6 DEF EndOK, Linked
<1>8. peers' = [peers EXCEPT ![p] = s]
  BY <1>1, <1>3 DEF HostReads
<1>9. vs \in Drivers /\ (vs.connected => vs.peer_port \in VPorts) /\ peers \in [VPorts -> HostEnds]
      /\ vsRing \in Seq(Packets)
  BY DEF VsockTypes, DriverOK
<1>10. PortOK(p, s, vsRing) /\ (LinkOK(p, r, vsRing, vs) => LinkOK(p, s, vsRing, vs))
  BY <1>1, <1>2, <1>4, <1>6, <1>7, <1>9, EndChanged
<1>11. /\ \A x \in VPorts \ {p} : PortOK(x, peers[x], vsRing)
       /\ vs.present /\ vs.connected => LinkOK(vs.peer_port, peers[vs.peer_port], vsRing, vs)
  BY DEF CreditOK
<1> QED BY <1>1, <1>4, <1>8, <1>9, <1>10, <1>11, OneEndChanges

LEMMA TransportResetsKeeps ==
  ASSUME VsockTypes, CreditOK(peers, vsRing, vs), TransportResets
  PROVE  peers' \in [VPorts -> HostEnds] /\ CreditOK(peers', vsRing, vs)
<1>1. peers' = [p \in VPorts |-> Shut]
  BY DEF TransportResets
<1>2. \A p \in VPorts : Shut \in HostEnds /\ PortOK(p, Shut, vsRing) /\ LinkOK(p, Shut, vsRing, vs)
  BY EndShut DEF VsockTypes, CreditOK
<1>3. vs.connected => vs.peer_port \in VPorts
  BY DEF VsockTypes, DriverOK
<1> QED BY <1>1, <1>2, <1>3 DEF CreditOK

-----------------------------------------------------------------------------
(* The driver takes a packet: what rx_handle leaves, operation by operation. *)
LEMMA EndAfterReset ==
  ASSUME NEW q \in Seq(Packets), NEW p \in VPorts, NEW r \in HostEnds, PortOK(p, r, q), NEW d,
         NEW s \in {r, Answered("RST", r)}
  PROVE  s \in HostEnds /\ PortOK(p, s, q) /\ (LinkOK(p, r, q, d) => LinkOK(p, s, q, d))
BY EndShut DEF Answered

(* The reply leaves the link as it was, or is of no consequence to it.     *)
LEMMA Replied ==
  ASSUME VsockTypes, CreditOK(peers, vsRing, vs), vs.present, vsRing # << >>,
         NEW op \in {"RST", "CREDIT_UPDATE", "RST_ELSEWHERE"}, NEW d, DriverOK(d),
         tx_packet(op, Head(vsRing).port, d),
         d.connected => vs.connected /\ d.peer_port = vs.peer_port /\ d.tx_cnt = vs.tx_cnt,
         d.connected => \/ d.peer_buf_alloc = vs.peer_buf_alloc /\ d.peer_fwd_cnt = vs.peer_fwd_cnt
                        \/ /\ d.peer_port = Head(vsRing).port
                           /\ d.peer_buf_alloc = Head(vsRing).buf_alloc
                           /\ d.peer_fwd_cnt = Head(vsRing).fwd_cnt
  PROVE  /\ DriverOK(vs') /\ peers' \in [VPorts -> HostEnds] /\ Tail(vsRing) \in Seq(Packets)
         /\ CreditOK(peers', Tail(vsRing), vs')
<1>1. PICK h \in Packets : h = Head(vsRing)
  BY DEF VsockTypes
<1>2. PICK p \in VPorts : p = h.port
  BY DEF Packets
<1>3. PICK e : e = vs'
  OBVIOUS
<1>0. tx_packet(op, p, d) /\ peers \in [VPorts -> HostEnds]
  BY <1>1, <1>2 DEF VsockTypes
<1>4. PICK s \in {peers[p], Answered(op, peers[p])} : peers' = [peers EXCEPT ![p] = s]
  <2>1. PICK c : c = op
    OBVIOUS
  <2>2. tx_packet(c, p, d)
    BY <1>0, <2>1
  <2>3. /\ SentBy(d, vs')
        /\ \E r \in {peers[p], Answered(c, peers[p])} :
               peers' = [peers EXCEPT ![p] = r] /\ (vs'.present => r = Answered(c, peers[p]))
    BY <1>0, <2>2, PacketSent
  <2> QED BY <2>1, <2>3
<1>5. SentBy(d, e)
  BY <1>0, <1>3, PacketSent
<1>6. PICK r \in HostEnds : r = peers[p] /\ PortOK(p, r, vsRing)
  BY EndOf
<1>7. s \in {r, Answered("RST", r)}
  BY <1>4, <1>6 DEF Answered
<1>8. PICK q \in Seq(Packets) : q = Tail(vsRing) /\ PortOK(p, r, q)
  BY <1>6, OneTaken DEF VsockTypes
<1>9. s \in HostEnds /\ PortOK(p, s, q) /\ (LinkOK(p, r, q, e) => LinkOK(p, s, q, e))
  BY <1>7, <1>8, EndAfterReset
<1>10. DriverOK(e)
  BY <1>5 DEF SentBy
<1>11. ASSUME e.present, e.connected, e.peer_port = p PROVE LinkOK(p, s, q, e)
  <2>1. /\ d.connected /\ vs.connected /\ vs.peer_port = p /\ e.tx_cnt = vs.tx_cnt
        /\ e.peer_buf_alloc = d.peer_buf_alloc /\ e.peer_fwd_cnt = d.peer_fwd_cnt
    BY <1>5, <1>11 DEF SentBy
  <2>2. LinkOK(p, r, vsRing, vs)
    BY <1>6, <2>1 DEF CreditOK
  <2>3. CASE d.peer_buf_alloc = vs.peer_buf_alloc /\ d.peer_fwd_cnt = vs.peer_fwd_cnt
    <3>1. LinkOK(p, r, q, vs)
      BY <1>8, <2>2, OneTaken DEF VsockTypes
    <3>2. LinkOK(p, r, q, e)
      BY <2>1, <2>3, <3>1, LinkOfDriver
    <3> QED BY <1>9, <3>2
  <2>4. CASE d.peer_buf_alloc = h.buf_alloc /\ d.peer_fwd_cnt = h.fwd_cnt
    <3>1. LinkOK(p, r, q, e)
      BY <1>1, <1>2, <1>6, <1>8, <2>1, <2>2, <2>4, CreditNoted DEF VsockTypes
    <3> QED BY <1>9, <3>1
  <2> QED BY <1>1, <2>1, <2>3, <2>4
<1>12. e.present /\ e.connected /\ e.peer_port # p =>
           /\ vs.present /\ vs.connected /\ vs.peer_port = e.peer_port
           /\ e.tx_cnt = vs.tx_cnt /\ e.peer_buf_alloc = vs.peer_buf_alloc
           /\ e.peer_fwd_cnt = vs.peer_fwd_cnt
  BY <1>1, <1>2, <1>5 DEF SentBy
<1>13. /\ [peers EXCEPT ![p] = s] \in [VPorts -> HostEnds]
       /\ CreditOK([peers EXCEPT ![p] = s], q, e)
  BY <1>1, <1>2, <1>8, <1>9, <1>10, <1>11, <1>12, PacketTaken DEF VsockTypes
<1> QED BY <1>3, <1>4, <1>8, <1>10, <1>13

(* No reply.                                                               *)
LEMMA NoReply ==
  ASSUME VsockTypes, CreditOK(peers, vsRing, vs), vs.present, vsRing # << >>, NEW d, Quiet(d), DriverOK(d),
         d.connected => vs.connected /\ d.peer_port = vs.peer_port /\ d.tx_cnt = vs.tx_cnt,
         d.connected => \/ d.peer_buf_alloc = vs.peer_buf_alloc /\ d.peer_fwd_cnt = vs.peer_fwd_cnt
                        \/ /\ d.peer_port = Head(vsRing).port
                           /\ d.peer_buf_alloc = Head(vsRing).buf_alloc
                           /\ d.peer_fwd_cnt = Head(vsRing).fwd_cnt
  PROVE  /\ DriverOK(vs') /\ peers' \in [VPorts -> HostEnds] /\ Tail(vsRing) \in Seq(Packets)
         /\ CreditOK(peers', Tail(vsRing), vs')
<1>1. PICK h \in Packets : h = Head(vsRing)
  BY DEF VsockTypes
<1>2. PICK p \in VPorts : p = h.port
  BY DEF Packets
<1>3. vs' = d /\ peers' = peers
  BY DEF Quiet
<1>4. PICK r \in HostEnds : r = peers[p] /\ PortOK(p, r, vsRing)
  BY EndOf
<1>5. PICK q \in Seq(Packets) : q = Tail(vsRing) /\ PortOK(p, r, q)
  BY <1>4, OneTaken DEF VsockTypes
<1>6. ASSUME d.present, d.connected, d.peer_port = p PROVE LinkOK(p, r, q, d)
  <2>1. vs.connected /\ vs.peer_port = p /\ d.tx_cnt = vs.tx_cnt
    BY <1>6
  <2>2. LinkOK(p, r, vsRing, vs)
    BY <1>4, <2>1 DEF CreditOK
  <2>3. CASE d.peer_buf_alloc = vs.peer_buf_alloc /\ d.peer_fwd_cnt = vs.peer_fwd_cnt
    <3>1. LinkOK(p, r, q, vs)
      BY <1>5, <2>2, OneTaken DEF VsockTypes
    <3> QED BY <2>1, <2>3, <3>1, LinkOfDriver
  <2>4. CASE d.peer_buf_alloc = h.buf_alloc /\ d.peer_fwd_cnt = h.fwd_cnt
    BY <1>1, <1>2, <1>4, <1>5, <2>1, <2>2, <2>4, CreditNoted DEF VsockTypes
  <2> QED BY <1>1, <1>6, <2>3, <2>4
<1>7. d.present /\ d.connected /\ d.peer_port # p =>
           /\ vs.present /\ vs.connected /\ vs.peer_port = d.peer_port
           /\ d.tx_cnt = vs.tx_cnt /\ d.peer_buf_alloc = vs.peer_buf_alloc
           /\ d.peer_fwd_cnt = vs.peer_fwd_cnt
  BY <1>1, <1>2
<1>8. [peers EXCEPT ![p] = r] = peers
  BY <1>4 DEF VsockTypes
<1>9. /\ [peers EXCEPT ![p] = r] \in [VPorts -> HostEnds]
      /\ CreditOK([peers EXCEPT ![p] = r], q, d)
  BY <1>1, <1>2, <1>4, <1>5, <1>6, <1>7, PacketTaken DEF VsockTypes
<1> QED BY <1>3, <1>5, <1>8, <1>9

(* A request when there is no connection.                                  *)
LEMMA RequestGranted ==
  ASSUME VsockTypes, CreditOK(peers, vsRing, vs), vs.present, vsRing # << >>,
         Head(vsRing).op = "REQUEST", ~vs.connected, OnRequest(Head(vsRing))
  PROVE  /\ DriverOK(vs') /\ peers' \in [VPorts -> HostEnds] /\ Tail(vsRing) \in Seq(Packets)
         /\ CreditOK(peers', Tail(vsRing), vs')
<1>1. PICK h \in Packets : h = Head(vsRing) /\ h.op = "REQUEST"
  BY DEF VsockTypes
<1>2. PICK p \in VPorts : p = h.port
  BY DEF Packets
<1>3. PICK d : d = note_credit([vs EXCEPT !.peer_port = p, !.tx_cnt = 0, !.fwd_cnt = 0,
                                         !.connected = TRUE], h)
  OBVIOUS
<1>4. h.buf_alloc \in Nat /\ h.fwd_cnt \in Nat
  <2>1. h.buf_alloc \in Residues /\ h.fwd_cnt \in Nat
    BY DEF Packets
  <2> QED BY <2>1, VsockNumbers
<1>5. /\ d \in Drivers /\ d.peer_port = p /\ d.tx_cnt = 0 /\ d.peer_buf_alloc = h.buf_alloc
      /\ d.peer_fwd_cnt = h.fwd_cnt
  BY <1>3, <1>4 DEF note_credit, VsockTypes, DriverOK, Drivers
<1>6. DriverOK(d)
  BY <1>5 DEF DriverOK
<1>7. tx_packet("RESPONSE", p, d)
  BY <1>1, <1>2, <1>3 DEF OnRequest
<1>8. PICK e : e = vs'
  OBVIOUS
<1>9. PICK s \in {peers[p], Answered("RESPONSE", peers[p])} :
        peers' = [peers EXCEPT ![p] = s] /\ (e.present => s = Answered("RESPONSE", peers[p]))
  BY <1>6, <1>7, <1>8, PacketSent DEF VsockTypes
<1>10. SentBy(d, e)
  BY <1>6, <1>7, <1>8, PacketSent DEF VsockTypes
<1>11. PICK r \in HostEnds : r = peers[p] /\ PortOK(p, r, vsRing)
  BY EndOf
<1>12. PICK q \in Seq(Packets) : q = Tail(vsRing) /\ PortOK(p, r, q) /\ PacketOK(r, h)
  BY <1>1, <1>2, <1>11, OneTaken DEF VsockTypes
<1>13. ~Linked(r) /\ h.fwd_cnt = 0 /\ r.st \in {"shut", "asking"}
  BY <1>1, <1>12 DEF PacketOK, Linked, HostEnds, PeerStates
<1>14. s \in HostEnds /\ PortOK(p, s, q) /\ (e.present => LinkOK(p, s, q, e))
  <2>1. CASE r.st = "shut"
    <3>1. s = r
      BY <1>9, <1>11, <2>1 DEF Answered
    <3>2. LinkOK(p, s, q, e)
      BY <1>13, <3>1 DEF LinkOK
    <3> QED BY <1>12, <3>1, <3>2
  <2>2. CASE r.st = "asking"
    <3>1. PICK o : o = [r EXCEPT !.st = "open"]
      OBVIOUS
    <3>2. /\ o \in HostEnds /\ o.st = "open" /\ o.got = r.got /\ o.eaten = r.eaten /\ o.most = r.most
          /\ o.alloc = r.alloc
      BY <3>1 DEF HostEnds, PeerStates
    <3>3. d.peer_buf_alloc <= r.most /\ d.peer_fwd_cnt = 0
      BY <1>5, <1>12, <1>13, <2>2 DEF PacketOK
    <3>4. PortOK(p, o, q) /\ LinkOK(p, o, q, d)
      BY <1>1, <1>2, <1>5, <1>11, <1>12, <2>2, <3>2, <3>3, EndOpens DEF VsockTypes
    <3>5. Answered("RESPONSE", r) = o
      BY <2>2, <3>1 DEF Answered
    <3>6. s \in {r, o} /\ (e.present => s = o)
      BY <1>9, <1>11, <3>5
    <3>7. e.present => LinkOK(p, s, q, e)
      <4> SUFFICES ASSUME e.present PROVE LinkOK(p, s, q, e)
        OBVIOUS
      <4>1. e.tx_cnt = d.tx_cnt /\ e.peer_buf_alloc = d.peer_buf_alloc /\ e.peer_fwd_cnt = d.peer_fwd_cnt
        BY <1>10 DEF SentBy
      <4> QED BY <3>4, <3>6, <4>1, LinkOfDriver
    <3> QED BY <1>12, <3>2, <3>4, <3>6, <3>7
  <2> QED BY <1>13, <2>1, <2>2
<1>15. DriverOK(e) /\ (e.present => e.peer_port = p)
  BY <1>5, <1>10 DEF SentBy
<1>16. /\ [peers EXCEPT ![p] = s] \in [VPorts -> HostEnds]
       /\ CreditOK([peers EXCEPT ![p] = s], q, e)
  BY <1>1, <1>2, <1>12, <1>14, <1>15, PacketTaken DEF VsockTypes
<1> QED BY <1>8, <1>9, <1>12, <1>15, <1>16

(* Whatever the packet says, the accounts of credit hold when it is dealt  *)
(* with.                                                                   *)
LEMMA NotedDriver ==
  ASSUME DriverOK(vs), NEW h \in Packets
  PROVE  /\ DriverOK(note_credit(vs, h)) /\ note_credit(vs, h).connected = vs.connected
         /\ note_credit(vs, h).peer_port = vs.peer_port /\ note_credit(vs, h).tx_cnt = vs.tx_cnt
         /\ note_credit(vs, h).peer_buf_alloc = h.buf_alloc
         /\ note_credit(vs, h).peer_fwd_cnt = h.fwd_cnt
         /\ DriverOK(disconnect(vs)) /\ ~disconnect(vs).connected
<1>1. h.buf_alloc \in Nat /\ h.fwd_cnt \in Nat
  <2>1. h.buf_alloc \in Residues /\ h.fwd_cnt \in Nat
    BY DEF Packets
  <2> QED BY <2>1, VsockNumbers
<1>2. PICK d : d = note_credit(vs, h)
  OBVIOUS
<1>3. /\ d \in Drivers /\ d.connected = vs.connected /\ d.peer_port = vs.peer_port /\ d.tx_cnt = vs.tx_cnt
      /\ d.peer_buf_alloc = h.buf_alloc /\ d.peer_fwd_cnt = h.fwd_cnt
  BY <1>1, <1>2 DEF note_credit, DriverOK, Drivers
<1>4. DriverOK(d)
  BY <1>3 DEF DriverOK
<1>5. PICK c : c = disconnect(vs)
  OBVIOUS
<1>6. c \in Drivers /\ ~c.connected
  BY <1>5 DEF disconnect, DriverOK, Drivers
<1>7. DriverOK(c)
  BY <1>6 DEF DriverOK
<1> QED BY <1>2, <1>3, <1>4, <1>5, <1>6, <1>7

LEMMA PacketHandled ==
  ASSUME VsockTypes, CreditOK(peers, vsRing, vs), vs.present, vsRing # << >>,
         rx_handle(Head(vsRing))
  PROVE  /\ DriverOK(vs') /\ peers' \in [VPorts -> HostEnds] /\ Tail(vsRing) \in Seq(Packets)
         /\ CreditOK(peers', Tail(vsRing), vs')
<1> DEFINE Goal == /\ DriverOK(vs') /\ peers' \in [VPorts -> HostEnds] /\ Tail(vsRing) \in Seq(Packets)
                   /\ CreditOK(peers', Tail(vsRing), vs')
<1>1. PICK h \in Packets : h = Head(vsRing)
  BY DEF VsockTypes
<1>2. PICK p \in VPorts : p = h.port
  BY DEF Packets
<1>3. DriverOK(vs)
  BY DEF VsockTypes
<1>4. PICK n : n = note_credit(vs, h)
  OBVIOUS
<1>5. /\ DriverOK(n) /\ n.connected = vs.connected /\ n.peer_port = vs.peer_port /\ n.tx_cnt = vs.tx_cnt
      /\ n.peer_buf_alloc = h.buf_alloc /\ n.peer_fwd_cnt = h.fwd_cnt
  BY <1>3, <1>4, NotedDriver
<1>6. DriverOK(disconnect(vs)) /\ ~disconnect(vs).connected
  BY <1>3, NotedDriver
<1>7. ASSUME NEW op \in {"RST", "RST_ELSEWHERE"}, tx_packet(op, h.port, vs) PROVE Goal
  BY <1>1, <1>3, <1>7, Replied
<1>8. ASSUME Quiet(vs) PROVE Goal
  BY <1>3, <1>8, NoReply
<1>9. CASE h.op = "REQUEST"
  <2>1. OnRequest(h)
    BY <1>1, <1>9 DEF rx_handle
  <2>2. CASE vs.connected
    BY <1>7, <2>1, <2>2 DEF OnRequest
  <2>3. CASE ~vs.connected
    BY <1>1, <1>9, <2>1, <2>3, RequestGranted
  <2> QED BY <2>2, <2>3
<1>10. CASE h.op = "RW"
  <2>1. OnData(h)
    BY <1>1, <1>10 DEF rx_handle
  <2>2. CASE ~Ours(h)
    BY <1>7, <2>1, <2>2 DEF OnData
  <2>3. CASE Ours(h)
    <3>1. PICK d : d = [n EXCEPT !.fwd_cnt = (@ + 1) % VsWrap]
      OBVIOUS
    <3>2. tx_packet("CREDIT_UPDATE", h.port, d) \/ Quiet(d)
      BY <1>4, <2>1, <2>3, <3>1 DEF OnData
    <3>3. (n.fwd_cnt + 1) % VsWrap \in Nat
      <4>1. PICK f \in Nat : f = n.fwd_cnt
        BY <1>5 DEF DriverOK, Drivers
      <4>2. (f + 1) % VsWrap \in Nat
        BY VsockNumbers
      <4> QED BY <4>1, <4>2
    <3>4. /\ d \in Drivers /\ d.connected = n.connected /\ d.peer_port = n.peer_port /\ d.tx_cnt = n.tx_cnt
          /\ d.peer_buf_alloc = n.peer_buf_alloc /\ d.peer_fwd_cnt = n.peer_fwd_cnt
      BY <1>5, <3>1, <3>3 DEF DriverOK, Drivers
    <3>5. DriverOK(d)
      BY <1>5, <3>4 DEF DriverOK
    <3>6. vs.connected /\ h.port = vs.peer_port
      BY <2>3 DEF Ours
    <3>7. CASE tx_packet("CREDIT_UPDATE", h.port, d)
      BY <1>1, <1>5, <3>4, <3>5, <3>6, <3>7, Replied
    <3>8. CASE Quiet(d)
      BY <1>1, <1>5, <3>4, <3>5, <3>6, <3>8, NoReply
    <3> QED BY <3>2, <3>7, <3>8
  <2> QED BY <2>2, <2>3
<1>11. ASSUME Quiet(n), Ours(h) PROVE Goal
  <2>1. vs.connected /\ h.port = vs.peer_port
    BY <1>11 DEF Ours
  <2> QED BY <1>1, <1>5, <1>11, <2>1, NoReply
<1>12. CASE h.op = "CREDIT_UPDATE"
  <2>1. Quiet(IF Ours(h) THEN n ELSE vs)
    BY <1>1, <1>4, <1>12 DEF rx_handle
  <2> QED BY <1>8, <1>11, <2>1
<1>13. CASE h.op = "CREDIT_REQUEST"
  <2>1. IF Ours(h) THEN tx_packet("CREDIT_UPDATE", h.port, n) ELSE Quiet(vs)
    BY <1>1, <1>4, <1>13 DEF rx_handle
  <2>2. CASE Ours(h)
    <3>1. vs.connected /\ h.port = vs.peer_port
      BY <2>2 DEF Ours
    <3> QED BY <1>1, <1>5, <2>1, <2>2, <3>1, Replied
  <2> QED BY <1>8, <2>1, <2>2
<1>14. ASSUME Quiet(disconnect(vs)) PROVE Goal
  BY <1>6, <1>14, NoReply
<1>15. CASE h.op = "SHUTDOWN"
  <2>1. IF Ours(h) THEN tx_packet("RST", h.port, disconnect(vs)) ELSE Quiet(vs)
    BY <1>1, <1>15 DEF rx_handle
  <2>2. CASE Ours(h)
    BY <1>1, <1>6, <2>1, <2>2, Replied
  <2> QED BY <1>8, <2>1, <2>2
<1>16. CASE h.op = "RST"
  <2>1. Quiet(IF Ours(h) THEN disconnect(vs) ELSE vs)
    BY <1>1, <1>16 DEF rx_handle
  <2> QED BY <1>8, <1>14, <2>1
<1>17. CASE h.op = "STRAY"
  <2>1. tx_packet("RST_ELSEWHERE", h.port, vs)
    BY <1>1, <1>17 DEF rx_handle
  <2> QED BY <1>7, <2>1
<1>18. h.op \in PacketOps
  BY DEF Packets
<1> QED BY <1>9, <1>10, <1>12, <1>13, <1>15, <1>16, <1>17, <1>18 DEF PacketOps

-----------------------------------------------------------------------------
(* The driver's other steps.                                               *)
LEMMA PollsKeep ==
  ASSUME VsockTypes, CreditOK(peers, vsRing, vs), PollEvent \/ PollPacket
  PROVE  /\ DriverOK(vs') /\ peers' \in [VPorts -> HostEnds] /\ vsRing' \in Seq(Packets)
         /\ CreditOK(peers', vsRing', vs')
<1>1. CASE PollEvent
  <2>1. vs' = disconnect(vs) /\ peers' = peers /\ vsRing' = vsRing
    BY <1>1 DEF PollEvent, Quiet
  <2>2. PICK d : d = disconnect(vs)
    OBVIOUS
  <2>3. d \in Drivers /\ ~d.connected
    BY <2>2 DEF VsockTypes, DriverOK, Drivers, disconnect
  <2>4. DriverOK(d) /\ CreditOK(peers, vsRing, d)
    BY <2>3 DEF DriverOK, CreditOK
  <2> QED BY <2>1, <2>2, <2>4 DEF VsockTypes
<1>2. CASE PollPacket
  <2>1. vs.present /\ vsRing # << >> /\ rx_handle(Head(vsRing)) /\ vsRing' = Tail(vsRing)
    BY <1>2 DEF PollPacket, Polls
  <2>2. /\ DriverOK(vs') /\ peers' \in [VPorts -> HostEnds] /\ Tail(vsRing) \in Seq(Packets)
        /\ CreditOK(peers', Tail(vsRing), vs')
    BY <2>1, PacketHandled
  <2> QED BY <2>1, <2>2
<1> QED BY <1>1, <1>2

LEMMA AskCreditKeeps ==
  ASSUME VsockTypes, CreditOK(peers, vsRing, vs), AskCredit
  PROVE  DriverOK(vs') /\ peers' = peers /\ CreditOK(peers, vsRing, vs')
<1>1. vs.present /\ vs.connected /\ DriverOK(vs) /\ peers \in [VPorts -> HostEnds]
  BY DEF AskCredit, virtio_vsock_connected, VsockTypes
<1>2. PICK p \in VPorts : p = vs.peer_port
  BY <1>1 DEF DriverOK
<1>3. tx_packet("CREDIT_REQUEST", p, vs)
  BY <1>2 DEF AskCredit
<1>4. /\ SentBy(vs, vs')
      /\ \E r \in {peers[p], Answered("CREDIT_REQUEST", peers[p])} :
            peers' = [peers EXCEPT ![p] = r] /\ (vs'.present => r = Answered("CREDIT_REQUEST", peers[p]))
  BY <1>1, <1>3, PacketSent
<1>5. Answered("CREDIT_REQUEST", peers[p]) = peers[p]
  BY DEF Answered
<1>6. peers' = [peers EXCEPT ![p] = peers[p]]
  BY <1>4, <1>5
<1>7. peers' = peers
  BY <1>1, <1>6
<1>8. PICK e : e = vs'
  OBVIOUS
<1>9. SentBy(vs, e)
  BY <1>4, <1>8
<1>10. e.present /\ e.connected => LinkOK(e.peer_port, peers[e.peer_port], vsRing, e)
  <2> SUFFICES ASSUME e.present, e.connected PROVE LinkOK(e.peer_port, peers[e.peer_port], vsRing, e)
    OBVIOUS
  <2>1. /\ e.peer_port = vs.peer_port /\ e.tx_cnt = vs.tx_cnt
        /\ e.peer_buf_alloc = vs.peer_buf_alloc /\ e.peer_fwd_cnt = vs.peer_fwd_cnt
    BY <1>9 DEF SentBy
  <2>2. LinkOK(vs.peer_port, peers[vs.peer_port], vsRing, vs)
    BY <1>1 DEF CreditOK
  <2> QED BY <2>1, <2>2, LinkOfDriver
<1>11. CreditOK(peers, vsRing, e) /\ DriverOK(e)
  BY <1>9, <1>10 DEF CreditOK, SentBy
<1> QED BY <1>7, <1>8, <1>11

(* The size of a chunk: no more than what is left, nor than the credit.    *)
Chunk == Smallest({cwrite.last - cwrite.next + 1, TX_PAYLOAD, peer_credit})

LEMMA ChunkSize ==
  ASSUME VsockTypes, cwrite.next <= cwrite.last, peer_credit > 0
  PROVE  /\ Chunk \in Nat /\ cwrite.next + Chunk <= cwrite.last + 1
         /\ ((vs.tx_cnt - vs.peer_fwd_cnt) % VsWrap) + Chunk <= vs.peer_buf_alloc
<1>1. PICK a, b \in Nat : a = cwrite.last /\ b = cwrite.next
  BY DEF VsockTypes
<1>2. PICK t, f, m \in Nat : t = vs.tx_cnt /\ f = vs.peer_fwd_cnt /\ m = vs.peer_buf_alloc
  BY DEF VsockTypes, DriverOK, Drivers
<1>3. PICK w \in Nat : w = (t - f) % VsWrap
  <2>1. t - f \in Int
    OBVIOUS
  <2>2. (t - f) % VsWrap \in 0 .. VsWrap - 1
    BY <2>1, VsockNumbers, Quotient
  <2> QED BY <2>2, VsockNumbers
<1>4. PICK c : c = peer_credit
  OBVIOUS
<1>5. c = IF m > w THEN m - w ELSE 0
  BY <1>2, <1>3, <1>4 DEF peer_credit
<1>6. c \in Nat /\ w + c <= m
  BY <1>4, <1>5
<1>7. PICK l \in Nat : l = a - b + 1
  BY <1>1
<1>8. PICK T \in Nat : T = TX_PAYLOAD
  BY VsockNumbers
<1>9. PICK S \in SUBSET Nat : S = {l, T, c}
  BY <1>6
<1>10. \E n \in S : \A k \in S : n <= k
  BY <1>9, LeastExists
<1>11. PICK n : n = Smallest(S)
  OBVIOUS
<1>12. n \in S /\ \A k \in S : n <= k
  BY <1>10, <1>11 DEF Smallest
<1>13. n \in Nat /\ n <= l /\ n <= c
  BY <1>9, <1>12
<1>14. b + n <= a + 1 /\ w + n <= m
  BY <1>6, <1>7, <1>13
<1>15. n = Chunk
  BY <1>1, <1>4, <1>7, <1>8, <1>9, <1>11 DEF Chunk
<1> QED BY <1>1, <1>2, <1>3, <1>13, <1>14, <1>15

Arrives(p, n) ==
  IF peers[p].st \in {"open", "closing"} THEN [peers EXCEPT ![p].got = @ + n] ELSE peers

LEMMA ChunkArrives ==
  ASSUME VsockTypes, CreditOK(peers, vsRing, vs), vs.present, vs.connected, NEW n \in Nat,
         ((vs.tx_cnt - vs.peer_fwd_cnt) % VsWrap) + n <= vs.peer_buf_alloc,
         NEW e \in Drivers, e.connected, e.peer_port = vs.peer_port, e.tx_cnt = (vs.tx_cnt + n) % VsWrap,
         e.peer_buf_alloc = vs.peer_buf_alloc, e.peer_fwd_cnt = vs.peer_fwd_cnt
  PROVE  /\ Arrives(vs.peer_port, n) \in [VPorts -> HostEnds]
         /\ CreditOK(Arrives(vs.peer_port, n), vsRing, e)
<1>1. /\ vs \in Drivers /\ (vs.connected => vs.peer_port \in VPorts) /\ peers \in [VPorts -> HostEnds]
      /\ vsRing \in Seq(Packets)
  BY DEF VsockTypes, DriverOK
<1>2. PICK p \in VPorts : p = vs.peer_port
  BY <1>1
<1>3. PICK r \in HostEnds : r = peers[p] /\ PortOK(p, r, vsRing)
  BY EndOf
<1>4. LinkOK(p, r, vsRing, vs)
  BY <1>2, <1>3 DEF CreditOK
<1>5. CASE ~Linked(r)
  <2>1. Arrives(p, n) = peers /\ LinkOK(p, r, vsRing, e)
    BY <1>3, <1>5 DEF Arrives, Linked, LinkOK
  <2> QED BY <1>1, <1>2, <1>3, <2>1 DEF CreditOK
<1>6. CASE Linked(r)
  <2>1. PICK s : s = [r EXCEPT !.got = @ + n]
    OBVIOUS
  <2>2. PICK g \in Nat : g = r.got
    BY EndNumbers
  <2>3. s \in HostEnds
    BY <2>1, <2>2 DEF HostEnds
  <2>4. InFlight(r, vs.peer_fwd_cnt) = (vs.tx_cnt - vs.peer_fwd_cnt) % VsWrap
    <3>1. PICK f \in Nat : f = vs.peer_fwd_cnt
      BY <1>1 DEF Drivers
    <3>2. PICK y \in Int : y = -f
      OBVIOUS
    <3>3. ((g % VsWrap) + y) % VsWrap = (g + y) % VsWrap
      <4>1. g \in Int
        OBVIOUS
      <4> QED BY <4>1, VsockNumbers, ResidueOfSum
    <3>4. vs.tx_cnt = g % VsWrap
      BY <1>4, <1>6, <2>2 DEF LinkOK
    <3>5. (g % VsWrap) \in Int
      BY VsockNumbers, Quotient
    <3>6. (g % VsWrap) + y = (g % VsWrap) - f /\ g + y = g - f
      BY <3>2, <3>5
    <3> QED BY <2>2, <3>1, <3>3, <3>4, <3>6 DEF InFlight
  <2>5. PortOK(p, s, vsRing) /\ LinkOK(p, s, vsRing, e)
    BY <1>1, <1>3, <1>4, <1>6, <2>1, <2>3, <2>4, EndGets
  <2>6. Arrives(p, n) = [peers EXCEPT ![p] = s]
    BY <1>1, <1>3, <1>6, <2>1 DEF Arrives, Linked
  <2>7. \A x \in VPorts \ {p} : PortOK(x, peers[x], vsRing)
    BY DEF CreditOK
  <2>8. /\ [peers EXCEPT ![p] = s] \in [VPorts -> HostEnds]
        /\ CreditOK([peers EXCEPT ![p] = s], vsRing, e)
    BY <1>1, <1>2, <2>3, <2>5, <2>7, OneEndChanges
  <2> QED BY <1>2, <2>6, <2>8
<1> QED BY <1>5, <1>6

LEMMA Concatenated ==
  ASSUME NEW S, NEW a \in Seq(S), NEW b \in Seq(S)
  PROVE  /\ a \o b \in Seq(S) /\ Len(a \o b) = Len(a) + Len(b) /\ Len(a) \in Nat /\ Len(b) \in Nat
         /\ \A i \in 1 .. Len(a) : (a \o b)[i] = a[i]
         /\ \A i \in Len(a) + 1 .. Len(a) + Len(b) : (a \o b)[i] = b[i - Len(a)]
OBVIOUS

(* Bytes appended in order, to wherever.                                   *)
LEMMA BytesAppended ==
  ASSUME NEW out \in Seq(Placed), NEW u \in Nat, NEW n \in Nat, Covers(out, u),
         NEW more \in Seq(Placed), Len(more) = n, \A i \in 1 .. n : more[i][2] = u + i
  PROVE  /\ out \o more \in Seq(Placed) /\ Covers(out \o more, u) /\ Covers(out \o more, u + n)
         /\ InOrder(out, u) => InOrder(out \o more, u + n)
<1>1. PICK l \in Nat : l = Len(out)
  OBVIOUS
<1>2. PICK all \in Seq(Placed) : all = out \o more
  BY Concatenated
<1>3. /\ Len(all) = l + n /\ \A i \in 1 .. l : all[i] = out[i]
      /\ \A i \in l + 1 .. l + n : all[i] = more[i - l]
  BY <1>1, <1>2, Concatenated
<1>4. ASSUME NEW i \in l + 1 .. l + n PROVE all[i][2] = u + (i - l)
  <2>1. i - l \in 1 .. n
    OBVIOUS
  <2> QED BY <1>3, <2>1
<1>5. Covers(all, u + n)
  <2> SUFFICES ASSUME NEW b \in 1 .. u + n PROVE \E i \in 1 .. Len(all) : all[i][2] = b
    BY DEF Covers
  <2>1. CASE b <= u
    <3>1. b \in 1 .. u
      BY <2>1
    <3>2. PICK i \in 1 .. l : out[i][2] = b
      BY <1>1, <3>1 DEF Covers
    <3>3. i \in 1 .. l + n
      OBVIOUS
    <3> QED BY <1>3, <3>2, <3>3
  <2>2. CASE b > u
    <3>1. PICK i \in Nat : i = l + (b - u)
      BY <2>2
    <3>2. i \in l + 1 .. l + n /\ i \in 1 .. l + n /\ u + (i - l) = b
      BY <2>2, <3>1
    <3> QED BY <1>3, <1>4, <3>2
  <2> QED BY <2>1, <2>2
<1>6. Covers(all, u)
  <2>1. 1 .. u \subseteq 1 .. u + n
    OBVIOUS
  <2> QED BY <1>5, <2>1 DEF Covers
<1>7. ASSUME InOrder(out, u) PROVE InOrder(all, u + n)
  <2>1. l = u /\ \A i \in 1 .. l : out[i][2] = i
    BY <1>1, <1>7 DEF InOrder
  <2>2. ASSUME NEW i \in 1 .. Len(all) PROVE all[i][2] = i
    <3>1. CASE i <= l
      BY <1>3, <2>1, <3>1
    <3>2. CASE i > l
      <4>1. i \in l + 1 .. l + n /\ l + (i - l) = i
        BY <1>3, <3>2
      <4> QED BY <1>4, <2>1, <4>1
    <3> QED BY <3>1, <3>2
  <2> QED BY <1>3, <2>1, <2>2 DEF InOrder
<1> QED BY <1>2, <1>5, <1>6, <1>7

LEMMA BytesPlaced ==
  ASSUME VsockTypes, NEW w \in VPorts \cup {"com1"}, NEW n \in Nat,
         NEW more, more = [i \in 1 .. n |-> <<w, cwrite.next + i - 1>>],
         cwrite.on, OutputInv
  PROVE  /\ vsOut \o more \in Seq(Placed) /\ Covers(vsOut \o more, cwrite.next - 1)
         /\ Covers(vsOut \o more, cwrite.next - 1 + n)
         /\ vs.present => InOrder(vsOut \o more, cwrite.next - 1 + n)
<1>1. PICK b \in Nat \ {0} : b = cwrite.next
  BY DEF VsockTypes
<1>2. PICK u \in Nat : u = b - 1
  BY <1>1
<1>3. vsOut \in Seq(Placed) /\ Covers(vsOut, u) /\ (vs.present => InOrder(vsOut, u))
  BY <1>1, <1>2 DEF OutputInv, UpTo, VsockTypes
<1>4. \A i \in 1 .. n : b + i - 1 \in Nat /\ b + i - 1 = u + i
  BY <1>2
<1>5. more \in Seq(Placed) /\ Len(more) = n
  BY <1>1, <1>4 DEF Placed
<1>6. \A i \in 1 .. n : more[i][2] = u + i
  BY <1>1, <1>4
<1>7. /\ vsOut \o more \in Seq(Placed) /\ Covers(vsOut \o more, u) /\ Covers(vsOut \o more, u + n)
      /\ InOrder(vsOut, u) => InOrder(vsOut \o more, u + n)
  BY <1>3, <1>5, <1>6, BytesAppended
<1> QED BY <1>1, <1>2, <1>3, <1>7

(* What is left goes to COM1: all of it is then somewhere.                 *)
LEMMA RestPlaced ==
  ASSUME VsockTypes, cwrite.on, OutputInv
  PROVE  /\ RestToCom1(cwrite.next) \in Seq(Placed) /\ Covers(RestToCom1(cwrite.next), cwrite.last)
         /\ vs.present => InOrder(RestToCom1(cwrite.next), cwrite.last)
<1>1. PICK b \in Nat \ {0}, a \in Nat : b = cwrite.next /\ a = cwrite.last /\ b <= a + 1
  BY DEF VsockTypes, OutputInv
<1>2. PICK n \in Nat : n = a - b + 1
  BY <1>1
<1>3. PICK more : more = [i \in 1 .. n |-> <<"com1", cwrite.next + i - 1>>]
  OBVIOUS
<1>4. RestToCom1(cwrite.next) = vsOut \o more
  BY <1>1, <1>2, <1>3 DEF RestToCom1
<1>5. b - 1 + n = a
  BY <1>2
<1>6. /\ vsOut \o more \in Seq(Placed) /\ Covers(vsOut \o more, b - 1 + n)
      /\ vs.present => InOrder(vsOut \o more, b - 1 + n)
  BY <1>1, <1>3, BytesPlaced
<1> QED BY <1>1, <1>4, <1>5, <1>6

LEMMA WriteEndsKeep ==
  ASSUME VsockInv, WaitEnds \/ WriteEnds
  PROVE  VsockInv'
<1>1. VsockTypes /\ OutputInv /\ cwrite.on /\ UNCHANGED <<vs, peers, vsRing>>
  BY DEF VsockInv, OutputInv, WaitEnds, WriteEnds
<1>2. CreditOK(peers, vsRing, vs)' /\ DriverOK(vs')
  BY <1>1 DEF VsockInv, VsockTypes
<1>3. CASE cwrite' = [cwrite EXCEPT !.wait = FALSE] /\ vsOut' = vsOut
  <2>1. PICK c : c = cwrite'
    OBVIOUS
  <2>2. /\ c \in [on : BOOLEAN, next : Nat \ {0}, last : Nat, wait : BOOLEAN] /\ ~c.wait
        /\ c.on = cwrite.on /\ c.next = cwrite.next /\ c.last = cwrite.last
    BY <1>1, <1>3, <2>1 DEF VsockTypes
  <2>3. VsockTypes'
    BY <1>1, <1>2, <1>3, <2>1, <2>2 DEF VsockTypes
  <2>4. UpTo' = UpTo
    BY <2>1, <2>2 DEF UpTo
  <2>5. OutputInv'
    BY <1>1, <1>3, <2>1, <2>2, <2>4 DEF OutputInv
  <2> QED BY <1>2, <2>3, <2>5 DEF VsockInv
<1>4. CASE (cwrite' = [cwrite EXCEPT !.on = FALSE, !.wait = FALSE] \/
            (~cwrite.wait /\ cwrite' = [cwrite EXCEPT !.on = FALSE])) /\ vsOut' = RestToCom1(cwrite.next)
  <2>1. PICK c : c = cwrite'
    OBVIOUS
  <2>2. /\ c \in [on : BOOLEAN, next : Nat \ {0}, last : Nat, wait : BOOLEAN] /\ ~c.wait
        /\ ~c.on /\ c.next = cwrite.next /\ c.last = cwrite.last
    BY <1>1, <1>4, <2>1 DEF VsockTypes
  <2>3. /\ vsOut' \in Seq(Placed) /\ Covers(vsOut', cwrite.last)
        /\ vs.present => InOrder(vsOut', cwrite.last)
    BY <1>1, <1>4, RestPlaced
  <2>4. VsockTypes'
    BY <1>1, <1>2, <2>1, <2>2, <2>3 DEF VsockTypes
  <2>5. UpTo' = cwrite.last
    BY <2>1, <2>2 DEF UpTo
  <2>6. OutputInv'
    BY <1>1, <2>1, <2>2, <2>3, <2>5 DEF OutputInv
  <2> QED BY <1>2, <2>4, <2>6 DEF VsockInv
<1>5. CASE WriteEnds
  BY <1>4, <1>5 DEF WriteEnds
<1>6. CASE WaitEnds
  <2>1. PICK goesOn \in BOOLEAN : goesOn = (virtio_vsock_connected /\ peer_credit > 0)
    OBVIOUS
  <2>2. /\ cwrite' = [cwrite EXCEPT !.wait = FALSE, !.on = goesOn]
        /\ vsOut' = IF goesOn THEN vsOut ELSE RestToCom1(cwrite.next)
    BY <1>6, <2>1 DEF WaitEnds
  <2>3. CASE goesOn
    <3>1. [cwrite EXCEPT !.wait = FALSE, !.on = TRUE] = [cwrite EXCEPT !.wait = FALSE]
      BY <1>1 DEF VsockTypes
    <3> QED BY <1>3, <2>2, <2>3, <3>1
  <2>4. CASE ~goesOn
    <3>1. [cwrite EXCEPT !.wait = FALSE, !.on = FALSE] = [cwrite EXCEPT !.on = FALSE, !.wait = FALSE]
      BY DEF VsockTypes
    <3>2. goesOn = FALSE
      BY <2>4
    <3>3. (cwrite' = [cwrite EXCEPT !.on = FALSE, !.wait = FALSE] \/
           (~cwrite.wait /\ cwrite' = [cwrite EXCEPT !.on = FALSE])) /\ vsOut' = RestToCom1(cwrite.next)
      BY <2>2, <3>1, <3>2
    <3> QED BY <1>4, <3>3
  <2> QED BY <2>3, <2>4
<1> QED BY <1>5, <1>6

LEMMA WriteBeginsKeeps ==
  ASSUME VsockInv, NEW n \in 1 .. MaxWrite, WriteBegins(n)
  PROVE  VsockInv'
<1>1. VsockTypes /\ OutputInv /\ ~cwrite.on /\ UNCHANGED <<vs, peers, vsRing, vsOut>>
  BY DEF VsockInv, WriteBegins
<1>2. CreditOK(peers, vsRing, vs)' /\ DriverOK(vs')
  BY <1>1 DEF VsockInv, VsockTypes
<1>3. PICK a \in Nat : a = cwrite.last
  BY <1>1 DEF VsockTypes
<1>4. n \in Nat
  BY VsockAssumption DEF VsockConstants
<1>5. PICK c : c = cwrite'
  OBVIOUS
<1>6. c.on /\ ~c.wait /\ c.next = a + 1 /\ c.last = a + n
      /\ c \in [on : BOOLEAN, next : Nat \ {0}, last : Nat, wait : BOOLEAN]
  BY <1>3, <1>4, <1>5 DEF WriteBegins
<1>7. VsockTypes'
  BY <1>1, <1>2, <1>5, <1>6 DEF VsockTypes
<1>8. UpTo' = a /\ UpTo = a
  BY <1>1, <1>3, <1>5, <1>6 DEF UpTo
<1>9. c.next <= c.last + 1
  BY <1>4, <1>6
<1>10. OutputInv'
  BY <1>1, <1>5, <1>6, <1>8, <1>9 DEF OutputInv
<1> QED BY <1>2, <1>7, <1>10 DEF VsockInv

LEMMA SendChunkKeeps ==
  ASSUME VsockInv, SendChunk
  PROVE  VsockInv'
<1>1. /\ VsockTypes /\ OutputInv /\ CreditOK(peers, vsRing, vs) /\ cwrite.on /\ ~cwrite.wait
      /\ cwrite.next <= cwrite.last /\ vs.present /\ vs.connected /\ peer_credit > 0 /\ UNCHANGED vsRing
  BY DEF VsockInv, SendChunk, virtio_vsock_connected
<1>2. /\ DriverOK(vs) /\ vs \in Drivers /\ peers \in [VPorts -> HostEnds] /\ vsRing \in Seq(Packets)
  BY <1>1 DEF VsockTypes, DriverOK
<1>3. PICK p \in VPorts : p = vs.peer_port
  BY <1>1, <1>2 DEF DriverOK
<1>4. PICK n \in Nat : /\ n = Chunk /\ cwrite.next + n <= cwrite.last + 1
                       /\ ((vs.tx_cnt - vs.peer_fwd_cnt) % VsWrap) + n <= vs.peer_buf_alloc
  BY <1>1, ChunkSize
<1>5. PICK b \in Nat \ {0}, a \in Nat : b = cwrite.next /\ a = cwrite.last /\ b + n <= a + 1
  BY <1>1, <1>4 DEF VsockTypes
<1>6. PICK more : more = BytesTo(p, n)
  OBVIOUS
<1>7. /\ vsOut \o more \in Seq(Placed) /\ Covers(vsOut \o more, b - 1)
      /\ Covers(vsOut \o more, b - 1 + n) /\ InOrder(vsOut \o more, b - 1 + n)
  BY <1>1, <1>5, <1>6, BytesPlaced DEF BytesTo
<1>8. PICK e : e = [vs EXCEPT !.tx_cnt = (@ + n) % VsWrap, !.fwd_cnt_told = vs.fwd_cnt]
  OBVIOUS
<1>9. /\ e \in Drivers /\ e.connected /\ e.peer_port = vs.peer_port /\ e.tx_cnt = (vs.tx_cnt + n) % VsWrap
      /\ e.peer_buf_alloc = vs.peer_buf_alloc /\ e.peer_fwd_cnt = vs.peer_fwd_cnt /\ e.present
  <2>1. PICK t \in Nat : t = vs.tx_cnt
    BY <1>2 DEF Drivers
  <2>2. PICK x \in Nat : x = (t + n) % VsWrap
    BY VsockNumbers
  <2>3. PICK f \in Nat : f = vs.fwd_cnt
    BY <1>2 DEF Drivers
  <2>4. e = [vs EXCEPT !.tx_cnt = x, !.fwd_cnt_told = f]
    BY <1>8, <2>1, <2>2, <2>3
  <2>5. e \in Drivers /\ e.tx_cnt = x
    BY <1>2, <2>4 DEF Drivers
  <2>6. /\ e.connected /\ e.peer_port = vs.peer_port /\ e.present
        /\ e.peer_buf_alloc = vs.peer_buf_alloc /\ e.peer_fwd_cnt = vs.peer_fwd_cnt
    BY <1>1, <1>2, <2>4 DEF Drivers
  <2> QED BY <2>1, <2>2, <2>5, <2>6
<1>10. PICK there : there = Arrives(p, n)
  OBVIOUS
<1>11. there \in [VPorts -> HostEnds] /\ CreditOK(there, vsRing, e)
  BY <1>1, <1>3, <1>4, <1>9, <1>10, ChunkArrives
<1>12. DriverOK(e)
  BY <1>2, <1>3, <1>9 DEF DriverOK
<1>13. PICK o : o = TimedOut(vs)
  OBVIOUS
<1>14. DriverOK(o) /\ ~o.present
  BY <1>2, <1>13 DEF TimedOut, DriverOK, Drivers
<1>15. CreditOK(there, vsRing, o) /\ CreditOK(peers, vsRing, o)
  BY <1>1, <1>11, <1>14 DEF CreditOK
<1>16. \/ vs' = e /\ peers' = there /\ vsOut' = vsOut \o more /\ cwrite' = [cwrite EXCEPT !.next = @ + n]
       \/ vs' = o /\ peers' = there /\ vsOut' = vsOut \o more /\ cwrite' = cwrite
       \/ vs' = o /\ peers' = peers /\ vsOut' = vsOut /\ cwrite' = cwrite
  BY <1>3, <1>4, <1>6, <1>8, <1>10, <1>13 DEF SendChunk, Arrives, Chunk
<1>17. CASE vs' = e /\ peers' = there /\ vsOut' = vsOut \o more /\ cwrite' = [cwrite EXCEPT !.next = @ + n]
  <2>1. PICK c : c = cwrite'
    OBVIOUS
  <2>2. /\ c \in [on : BOOLEAN, next : Nat \ {0}, last : Nat, wait : BOOLEAN] /\ ~c.wait
        /\ c.on /\ c.next = b + n /\ c.last = a
    <3>1. PICK w \in [on : BOOLEAN, next : Nat \ {0}, last : Nat, wait : BOOLEAN] :
            w = cwrite /\ w.on /\ ~w.wait /\ w.next = b /\ w.last = a
      BY <1>1, <1>5 DEF VsockTypes
    <3>2. PICK x \in Nat \ {0} : x = b + n
      OBVIOUS
    <3>3. c = [w EXCEPT !.next = x]
      BY <1>17, <2>1, <3>1, <3>2
    <3> QED BY <3>1, <3>2, <3>3
  <2>3. VsockTypes'
    BY <1>1, <1>2, <1>7, <1>11, <1>12, <1>17, <2>1, <2>2 DEF VsockTypes
  <2>4. UpTo' = b - 1 + n /\ c.next <= c.last + 1
    <3>1. (b + n) - 1 = b - 1 + n
      OBVIOUS
    <3> QED BY <1>5, <2>1, <2>2, <3>1 DEF UpTo
  <2>5. OutputInv'
    BY <1>7, <1>17, <2>1, <2>2, <2>4 DEF OutputInv
  <2>6. CreditOK(peers', vsRing', vs')
    BY <1>1, <1>11, <1>17
  <2> QED BY <2>3, <2>5, <2>6 DEF VsockInv
<1>18. CASE vs' = o /\ peers' \in {there, peers} /\ vsOut' \in {vsOut \o more, vsOut} /\ cwrite' = cwrite
  <2>1. UpTo' = UpTo /\ UpTo = b - 1
    BY <1>1, <1>5, <1>18 DEF UpTo
  <2>2. Covers(vsOut', b - 1) /\ vsOut' \in Seq(Placed)
    BY <1>1, <1>7, <1>18, <2>1 DEF OutputInv, VsockTypes
  <2>3. VsockTypes'
    BY <1>1, <1>2, <1>11, <1>14, <1>18, <2>2 DEF VsockTypes
  <2>4. OutputInv'
    BY <1>1, <1>14, <1>18, <2>1, <2>2 DEF OutputInv
  <2>5. CreditOK(peers', vsRing', vs')
    BY <1>1, <1>15, <1>18
  <2> QED BY <2>3, <2>4, <2>5 DEF VsockInv
<1> QED BY <1>16, <1>17, <1>18

-----------------------------------------------------------------------------
(* What the steps of host, device and poll leave of the console's write.   *)
LEMMA WriteUntouched ==
  ASSUME VsockInv, DriverOK(vs'), peers' \in [VPorts -> HostEnds], vsRing' \in Seq(Packets),
         CreditOK(peers', vsRing', vs'), UNCHANGED <<cwrite, vsOut>>, vs'.present => vs.present
  PROVE  VsockInv'
<1>1. VsockTypes'
  BY DEF VsockInv, VsockTypes
<1>2. UpTo' = UpTo
  BY DEF UpTo
<1>3. OutputInv'
  BY <1>2 DEF VsockInv, OutputInv
<1> QED BY <1>1, <1>3 DEF VsockInv

LEMMA VsockInvInit == VsockInit => VsockInv
<1> SUFFICES ASSUME VsockInit PROVE VsockInv
  OBVIOUS
<1>1. DriverOK(vs) /\ ~vs.connected
  BY DEF VsockInit, DriverOK, Drivers
<1>2. Shut \in HostEnds /\ EndOK(Shut) /\ peers = [p \in VPorts |-> Shut]
  <2>1. /\ Shut \in HostEnds /\ Shut.st = "shut" /\ Shut.alloc = 0 /\ Shut.most = 0 /\ Shut.got = 0
        /\ Shut.eaten = 0
    BY VsockNumbers DEF Shut, HostEnds, PeerStates
  <2> QED BY <2>1 DEF EndOK, VsockInit
<1>3. vsRing = << >> /\ vsRing \in Seq(Packets) /\ vsOut = << >> /\ vsOut \in Seq(Placed)
  BY DEF VsockInit
<1>4. VsockTypes
  BY <1>1, <1>2, <1>3 DEF VsockTypes, VsockInit, NoWrite
<1>5. UpTo = 0 /\ cwrite.next <= cwrite.last + 1 /\ ~cwrite.wait
  BY DEF UpTo, VsockInit, NoWrite
<1>6. OutputInv
  BY <1>3, <1>5 DEF OutputInv, Covers, InOrder
<1>7. ASSUME NEW p \in VPorts PROVE PortOK(p, peers[p], vsRing)
  <2>1. peers[p] = Shut /\ Len(vsRing) = 0 /\ 1 .. 0 = {}
    BY <1>2, <1>3
  <2> QED BY <1>2, <2>1 DEF PortOK
<1> QED BY <1>1, <1>4, <1>6, <1>7 DEF VsockInv, CreditOK

LEMMA VsockInvStep == VsockInv /\ [VsockNext]_vsockVars => VsockInv'
<1> SUFFICES ASSUME VsockInv, [VsockNext]_vsockVars PROVE VsockInv'
  OBVIOUS
<1>0. /\ VsockTypes /\ CreditOK(peers, vsRing, vs) /\ DriverOK(vs) /\ peers \in [VPorts -> HostEnds]
      /\ vsRing \in Seq(Packets)
  BY DEF VsockInv, VsockTypes
<1>1. ASSUME NEW p \in VPorts, NEW a \in VsAllocs, HostConnects(p, a) PROVE VsockInv'
  <2>1. UNCHANGED <<vs, cwrite, vsOut>>
    BY <1>1 DEF HostConnects, GuestSame
  <2> QED BY <1>0, <1>1, <2>1, HostConnectsKeeps, WriteUntouched
<1>2. ASSUME NEW p \in VPorts, NEW a \in VsAllocs, NEW op \in {"CREDIT_UPDATE", "CREDIT_REQUEST"},
             HostTells(p, a, op)
      PROVE  VsockInv'
  <2>1. UNCHANGED <<vs, cwrite, vsOut>>
    BY <1>2 DEF HostTells, GuestSame
  <2> QED BY <1>0, <1>2, <2>1, HostTellsKeeps, WriteUntouched
<1>3. ASSUME NEW p \in VPorts, HostTypes(p) PROVE VsockInv'
  <2>1. /\ UNCHANGED <<vs, peers, cwrite, vsOut>> /\ peers[p].st = "open"
        /\ vsRing' = Append(vsRing, Packet("RW", p))
    BY <1>3 DEF HostTypes, GuestSame, HostSays, HostSends
  <2>2. vsRing' \in Seq(Packets) /\ CreditOK(peers, vsRing', vs)
    BY <1>0, <2>1, HostSaysKeeps DEF PacketOps
  <2> QED BY <1>0, <2>1, <2>2, WriteUntouched
<1>4. ASSUME NEW p \in VPorts, HostReads(p) PROVE VsockInv'
  <2>1. UNCHANGED <<vs, vsRing, cwrite, vsOut>>
    BY <1>4 DEF HostReads, GuestSame
  <2>2. peers' \in [VPorts -> HostEnds] /\ CreditOK(peers', vsRing, vs)
    BY <1>0, <1>4, HostReadsKeeps
  <2> QED BY <1>0, <2>1, <2>2, WriteUntouched
<1>5. ASSUME NEW p \in VPorts, NEW op \in {"SHUTDOWN", "RST"}, HostCloses(p, op) PROVE VsockInv'
  <2>1. UNCHANGED <<vs, cwrite, vsOut>>
    BY <1>5 DEF HostCloses, GuestSame
  <2> QED BY <1>0, <1>5, <2>1, HostClosesKeeps, WriteUntouched
<1>6. ASSUME NEW p \in VPorts, HostStrays(p) PROVE VsockInv'
  <2>1. /\ UNCHANGED <<vs, peers, cwrite, vsOut>> /\ peers[p].st = "open"
        /\ vsRing' = Append(vsRing, Packet("STRAY", p))
    BY <1>6 DEF HostStrays, GuestSame, HostSays, HostSends
  <2>2. vsRing' \in Seq(Packets) /\ CreditOK(peers, vsRing', vs)
    BY <1>0, <2>1, HostSaysKeeps DEF PacketOps
  <2> QED BY <1>0, <2>1, <2>2, WriteUntouched
<1>7. CASE TransportResets
  <2>1. UNCHANGED <<vs, vsRing, cwrite, vsOut>>
    BY <1>7 DEF TransportResets
  <2>2. peers' \in [VPorts -> HostEnds] /\ CreditOK(peers', vsRing, vs)
    BY <1>0, <1>7, TransportResetsKeeps
  <2> QED BY <1>0, <2>1, <2>2, WriteUntouched
<1>8. CASE PollEvent \/ PollPacket
  <2>1. UNCHANGED <<cwrite, vsOut>> /\ vs.present
    BY <1>8 DEF PollEvent, PollPacket, Polls
  <2> QED BY <1>0, <1>8, <2>1, PollsKeep, WriteUntouched
<1>9. ASSUME NEW n \in 1 .. MaxWrite, WriteBegins(n) PROVE VsockInv'
  BY <1>9, WriteBeginsKeeps
<1>10. CASE SendChunk
  BY <1>10, SendChunkKeeps
<1>11. CASE AskCredit
  <2>1. /\ cwrite.on /\ ~cwrite.wait /\ vs.present /\ cwrite' = [cwrite EXCEPT !.wait = TRUE]
        /\ UNCHANGED <<vsRing, vsOut>>
    BY <1>11 DEF AskCredit, virtio_vsock_connected
  <2>2. DriverOK(vs') /\ peers' = peers /\ CreditOK(peers, vsRing, vs')
    BY <1>0, <1>11, AskCreditKeeps
  <2>3. PICK c : c = cwrite'
    OBVIOUS
  <2>4. /\ c \in [on : BOOLEAN, next : Nat \ {0}, last : Nat, wait : BOOLEAN]
        /\ c.on /\ c.next = cwrite.next /\ c.last = cwrite.last
    BY <1>0, <2>1, <2>3 DEF VsockTypes
  <2>5. VsockTypes'
    BY <1>0, <2>1, <2>2, <2>3, <2>4 DEF VsockTypes
  <2>6. UpTo' = UpTo
    BY <2>1, <2>3, <2>4 DEF UpTo
  <2>7. OutputInv'
    BY <2>1, <2>3, <2>4, <2>6 DEF VsockInv, OutputInv
  <2>8. CreditOK(peers', vsRing', vs')
    BY <2>1, <2>2
  <2> QED BY <2>5, <2>7, <2>8 DEF VsockInv
<1>12. CASE WaitEnds \/ WriteEnds
  BY <1>12, WriteEndsKeep
<1>13. CASE UNCHANGED vsockVars
  BY <1>0, <1>13, WriteUntouched DEF vsockVars
<1> QED BY <1>1, <1>2, <1>3, <1>4, <1>5, <1>6, <1>7, <1>8, <1>9, <1>10, <1>11, <1>12, <1>13 DEF VsockNext

(* Between writes every byte of the console has gone to vsock or to COM1,  *)
(* in order and once unless a transmit timed out, and the driver never has *)
(* more unread at its peer than that peer ever granted (console.c:300,     *)
(* virtio_vsock.c:472).                                                    *)
THEOREM ConsoleOutputIsKept == VsockSpec => []ConsoleOutputKept
<1>1. VsockInv => ConsoleOutputKept
  <2> SUFFICES ASSUME VsockInv PROVE OutputKept /\ CreditKept
    BY DEF ConsoleOutputKept
  <2>1. OutputKept
    BY DEF VsockInv, OutputInv, OutputKept, UpTo, Covers, InOrder
  <2>2. ASSUME NEW p \in VPorts PROVE peers[p].got - peers[p].eaten <= peers[p].most
    BY EndOf DEF VsockInv, EndOK
  <2> QED BY <2>1, <2>2 DEF CreditKept
<1> QED BY <1>1, VsockInvInit, VsockInvStep, PTL DEF VsockSpec

-----------------------------------------------------------------------------
(* The network thread and its sockets.                                     *)
NetPlaces == {"top", "pump", "drain", "drainarp", "send", "lookup", "dnsarp", "ask", "dnswait",
              "bootarp", "discover", "bootdhcp", "bootping", "bootdnsarp", "bootask", "bootdns"}
SocketRec == [state : {"FREE", "ACTIVE", "CLOSING"}, owner : Procs \cup {0},
              lport : UdpPorts \cup {0}, gen : Nat, ring : Seq(Nat \X Nat)]

(* What a ring holds came for the binding the slot has.                    *)
RingOwn(s) == \A i \in 1 .. Len(sock[s].ring) : sock[s].ring[i][2] = sock[s].gen

(* A copy in progress pins its socket: the thread is in a pump, so nobody  *)
(* retires the slot, and a slot that is not free is not bound again.       *)
CopyPinned == copying # NoCopy => /\ at \in Pumping
                                  /\ copying.sock \in Socks /\ copying.d \in Nat \X Nat
                                  /\ sock[copying.sock].state # "FREE"
                                  /\ copying.d[2] = sock[copying.sock].gen
SocketsOwn ==
  /\ at \in NetPlaces /\ binds \in Nat /\ arrived \in Nat
  /\ sock \in [Socks -> SocketRec]
  /\ \A s \in Socks : RingOwn(s)
  /\ CopyPinned
  /\ misdelivered = FALSE

LEMMA AppendIs ==
  ASSUME NEW S, NEW q \in Seq(S), NEW d \in S
  PROVE  /\ Append(q, d) \in Seq(S) /\ Len(Append(q, d)) = Len(q) + 1 /\ Len(q) \in Nat
         /\ Append(q, d)[Len(q) + 1] = d
         /\ \A i \in 1 .. Len(q) : Append(q, d)[i] = q[i]
OBVIOUS

LEMMA SocketsInit == ASSUME NetInit PROVE SocketsOwn
<1>1. FreeSock \in SocketRec /\ FreeSock.ring = << >>
  BY DEF FreeSock, SocketRec
<1>2. at \in NetPlaces
  BY DEF NetInit, NetPlaces
<1>3. sock \in [Socks -> SocketRec] /\ \A s \in Socks : sock[s].ring = << >>
  BY <1>1 DEF NetInit
<1> QED BY <1>2, <1>3 DEF NetInit, SocketsOwn, RingOwn, CopyPinned

(* Steps that leave the sockets alone: the thread moves only when no copy  *)
(* is in progress.                                                         *)
LEMMA SocketsSame ==
  ASSUME SocketsOwn, UNCHANGED <<sock, misdelivered, binds, copying>>, arrived' = arrived,
         at' \in NetPlaces, at' = at \/ copying = NoCopy
  PROVE  SocketsOwn'
BY DEF SocketsOwn, RingOwn, CopyPinned, Pumping, NoCopy

(* Calls that change sockets.                                              *)
LEMMA SocketsChange ==
  ASSUME SocketsOwn, UNCHANGED <<at, copying, arrived>>, binds' \in Nat, misdelivered' = FALSE,
         sock' \in [Socks -> SocketRec],
         \A s \in Socks : RingOwn(s)',
         \A s \in Socks : sock[s].state # "FREE" => /\ sock'[s].state # "FREE"
                                                    /\ sock'[s].gen = sock[s].gen
  PROVE  SocketsOwn'
BY DEF SocketsOwn, CopyPinned, Pumping, NoCopy

LEMMA BindOwn ==
  ASSUME SocketsOwn, NEW p \in Procs, NEW port \in UdpPorts, net_udp_bind(p, port),
         UNCHANGED <<at, copying, arrived>>
  PROVE  SocketsOwn'
<1>1. FirstFree \in Socks /\ sock[FirstFree].state = "FREE"
  <2> DEFINE F == {s \in Socks : sock[s].state = "FREE"}
  <2>1. F \in SUBSET Nat /\ F # {}
    BY NetThreadConstants DEF net_udp_bind
  <2>2. PICK m \in F : \A t \in F : m <= t
    <3> HIDE DEF F
    <3> QED BY <2>1, LeastExists
  <2>3. \A r \in Socks : r < m => sock[r].state # "FREE"
    BY <2>1, <2>2
  <2> QED BY <2>2, <2>3 DEF FirstFree
<1>2. PICK f \in Socks : f = FirstFree /\ sock[f].state = "FREE"
  BY <1>1
<1>3. PICK r : r = [state |-> "ACTIVE", owner |-> p, lport |-> port, gen |-> binds + 1,
                    ring |-> << >>]
  OBVIOUS
<1>4. r \in SocketRec /\ r.ring = << >>
  BY <1>3 DEF SocketsOwn, SocketRec
<1>5. sock' = [sock EXCEPT ![f] = r] /\ binds' = binds + 1 /\ misdelivered' = misdelivered
  BY <1>2, <1>3 DEF net_udp_bind
<1>6. sock' \in [Socks -> SocketRec]
  BY <1>4, <1>5 DEF SocketsOwn
<1>7. \A s \in Socks : sock'[s] = IF s = f THEN r ELSE sock[s]
  BY <1>5 DEF SocketsOwn
<1>8. \A s \in Socks : RingOwn(s)'
  BY <1>4, <1>7 DEF SocketsOwn, RingOwn
<1>9. \A s \in Socks : sock[s].state # "FREE" => sock'[s] = sock[s]
  BY <1>2, <1>7
<1>10. binds' \in Nat /\ misdelivered' = FALSE
  BY <1>5 DEF SocketsOwn
<1> QED BY <1>6, <1>8, <1>9, <1>10, SocketsChange

LEMMA RecvOwn ==
  ASSUME SocketsOwn, NEW p \in Procs, net_udp_recvfrom(p), UNCHANGED <<at, copying, arrived>>
  PROVE  SocketsOwn'
<1>1. PICK s \in Socks : /\ sock[s].ring # << >>
                         /\ misdelivered' = (misdelivered \/ Head(sock[s].ring)[2] # sock[s].gen)
                         /\ sock' = [sock EXCEPT ![s].ring = Tail(@)]
                         /\ UNCHANGED binds
  BY DEF net_udp_recvfrom, udp_sock_of
<1>2. PICK q \in Seq(Nat \X Nat) : q = sock[s].ring
  BY DEF SocketsOwn, SocketRec
<1>3. PICK g : g = sock[s].gen
  OBVIOUS
<1>4. /\ Len(q) \in Nat /\ Len(q) >= 1 /\ Head(q) = q[1]
      /\ Tail(q) \in Seq(Nat \X Nat) /\ Len(Tail(q)) = Len(q) - 1
      /\ \A i \in 1 .. Len(Tail(q)) : Tail(q)[i] = q[i + 1]
  BY <1>1, <1>2
<1>5. \A i \in 1 .. Len(q) : q[i][2] = g
  BY <1>2, <1>3 DEF SocketsOwn, RingOwn
<1>6. misdelivered' = FALSE
  <2>1. Head(q)[2] = g
    BY <1>4, <1>5
  <2>2. (Head(sock[s].ring)[2] # sock[s].gen) = FALSE
    BY <2>1, <1>2, <1>3
  <2> QED BY <2>2, <1>1 DEF SocketsOwn
<1>7. PICK w \in Seq(Nat \X Nat) : w = Tail(q) /\ \A i \in 1 .. Len(w) : w[i][2] = g
  <2>1. \A i \in 1 .. Len(Tail(q)) : i + 1 \in 1 .. Len(q)
    BY <1>4
  <2> QED BY <2>1, <1>4, <1>5
<1>8. sock' = [sock EXCEPT ![s].ring = w]
  BY <1>1, <1>2, <1>7
<1>9. sock' \in [Socks -> SocketRec]
  BY <1>8 DEF SocketsOwn, SocketRec
<1>10. \A t \in Socks : /\ sock'[t].state = sock[t].state /\ sock'[t].gen = sock[t].gen
                        /\ sock'[t].ring = IF t = s THEN w ELSE sock[t].ring
  BY <1>8 DEF SocketsOwn, SocketRec
<1>11. \A t \in Socks : RingOwn(t)'
  <2> SUFFICES ASSUME NEW t \in Socks PROVE RingOwn(t)'
    OBVIOUS
  <2>1. CASE t = s
    BY <1>3, <1>7, <1>10, <2>1 DEF RingOwn
  <2>2. CASE t # s
    BY <1>10, <2>2 DEF SocketsOwn, RingOwn
  <2> QED BY <2>1, <2>2
<1> QED BY <1>1, <1>6, <1>9, <1>10, <1>11, SocketsChange DEF SocketsOwn

LEMMA CloseOwn ==
  ASSUME SocketsOwn, NEW C \in SUBSET Socks,
         sock' = [s \in Socks |-> IF s \in C THEN [sock[s] EXCEPT !.state = "CLOSING"] ELSE sock[s]],
         UNCHANGED <<at, copying, arrived, binds, misdelivered>>
  PROVE  SocketsOwn'
<1>1. sock' \in [Socks -> SocketRec]
  BY DEF SocketsOwn, SocketRec
<1>2. \A s \in Socks : /\ sock'[s].ring = sock[s].ring /\ sock'[s].gen = sock[s].gen
                       /\ sock'[s].state \in {sock[s].state, "CLOSING"}
  BY DEF SocketsOwn, SocketRec
<1>3. \A s \in Socks : RingOwn(s)'
  BY <1>2 DEF SocketsOwn, RingOwn
<1> QED BY <1>1, <1>2, <1>3, SocketsChange DEF SocketsOwn

LEMMA DemuxOwn ==
  ASSUME SocketsOwn, NEW port \in UdpPorts, udp_rx_demux(port)
  PROVE  SocketsOwn'
<1> DEFINE to == {s \in Socks : sock[s].state = "ACTIVE" /\ sock[s].lport = port}
<1>1. /\ UNCHANGED <<sock, misdelivered, binds, at>> /\ arrived' = arrived + 1 /\ at \in Pumping
      /\ copying = NoCopy
  BY DEF udp_rx_demux, udpVars, TakesFrame
<1>2. CASE copying' = NoCopy
  BY <1>1, <1>2 DEF SocketsOwn, RingOwn, CopyPinned, NoCopy
<1>3. CASE copying' # NoCopy
  <2>1. PICK s \in to : copying' = [sock |-> s, d |-> <<arrived + 1, sock[s].gen>>]
    <3> DEFINE c == CHOOSE s \in to : TRUE
    <3>1. to # {} /\ copying' = [sock |-> c, d |-> <<arrived + 1, sock[c].gen>>]
      BY <1>3 DEF udp_rx_demux
    <3> QED BY <3>1
  <2>2. /\ copying'.sock = s /\ copying'.d = <<arrived + 1, sock[s].gen>>
        /\ copying'.d[2] = sock[s].gen /\ copying'.d \in Nat \X Nat
    BY <2>1 DEF SocketsOwn, SocketRec
  <2> QED BY <1>1, <2>1, <2>2 DEF SocketsOwn, RingOwn, CopyPinned, Pumping
<1> QED BY <1>2, <1>3

LEMMA PublishOwn ==
  ASSUME SocketsOwn, udp_rx_publish
  PROVE  SocketsOwn'
<1>1. PICK s \in Socks, d \in Nat \X Nat : /\ s = copying.sock /\ d = copying.d
                                           /\ d[2] = sock[s].gen /\ sock[s].state # "FREE"
  BY DEF udp_rx_publish, SocketsOwn, CopyPinned
<1>2. PICK q \in Seq(Nat \X Nat) : q = sock[s].ring
  BY DEF SocketsOwn, SocketRec
<1>3. PICK w \in Seq(Nat \X Nat) : /\ w = Append(q, d) /\ Len(w) = Len(q) + 1
                                    /\ w[Len(q) + 1] = d /\ Len(q) \in Nat
                                    /\ \A i \in 1 .. Len(q) : w[i] = q[i]
  <2>1. PICK S : S = Nat \X Nat
    OBVIOUS
  <2>2. q \in Seq(S) /\ d \in S
    BY <2>1
  <2>3. /\ Append(q, d) \in Seq(S) /\ Len(Append(q, d)) = Len(q) + 1 /\ Len(q) \in Nat
        /\ Append(q, d)[Len(q) + 1] = d
        /\ \A i \in 1 .. Len(q) : Append(q, d)[i] = q[i]
    BY <2>2, AppendIs
  <2> QED BY <2>1, <2>3
<1>4. \A i \in 1 .. Len(w) : w[i][2] = sock[s].gen
  <2>1. \A i \in 1 .. Len(q) : q[i][2] = sock[s].gen
    BY <1>2 DEF SocketsOwn, RingOwn
  <2> SUFFICES ASSUME NEW i \in 1 .. Len(w) PROVE w[i][2] = sock[s].gen
    OBVIOUS
  <2>2. CASE i = Len(q) + 1
    BY <2>2, <1>1, <1>3
  <2>3. CASE i \in 1 .. Len(q)
    BY <2>1, <2>3, <1>3
  <2> QED BY <2>2, <2>3, <1>3
<1>5. /\ sock' = [sock EXCEPT ![s].ring = w] /\ copying' = NoCopy
      /\ UNCHANGED <<at, misdelivered, binds, arrived>>
  BY <1>1, <1>2, <1>3 DEF udp_rx_publish
<1>6. sock' \in [Socks -> SocketRec]
  BY <1>5 DEF SocketsOwn, SocketRec
<1>7. \A t \in Socks : /\ sock'[t].gen = sock[t].gen
                       /\ sock'[t].ring = IF t = s THEN w ELSE sock[t].ring
  BY <1>5 DEF SocketsOwn, SocketRec
<1>8. \A t \in Socks : RingOwn(t)'
  <2> SUFFICES ASSUME NEW t \in Socks PROVE RingOwn(t)'
    OBVIOUS
  <2>1. CASE t = s
    BY <1>4, <1>7, <2>1 DEF RingOwn
  <2>2. CASE t # s
    BY <1>7, <2>2 DEF SocketsOwn, RingOwn
  <2> QED BY <2>1, <2>2
<1> QED BY <1>5, <1>6, <1>8 DEF SocketsOwn, CopyPinned

LEMMA RetireOwn ==
  ASSUME SocketsOwn, udp_retire_closing
  PROVE  SocketsOwn'
<1>1. copying = NoCopy /\ copying' = NoCopy /\ at' = "pump"
  BY DEF udp_retire_closing, SocketsOwn, CopyPinned, Pumping
<1>2. FreeSock \in SocketRec /\ FreeSock.ring = << >>
  BY DEF FreeSock, SocketRec
<1>3. sock' = [s \in Socks |-> IF sock[s].state = "CLOSING" THEN FreeSock ELSE sock[s]]
  BY DEF udp_retire_closing
<1>4. sock' \in [Socks -> SocketRec]
  BY <1>2, <1>3 DEF SocketsOwn
<1>5. \A s \in Socks : RingOwn(s)'
  BY <1>2, <1>3 DEF SocketsOwn, RingOwn
<1> QED BY <1>1, <1>4, <1>5 DEF udp_retire_closing, SocketsOwn, CopyPinned, NetPlaces

LEMMA SocketsStep ==
  ASSUME SocketsOwn, [NetNext]_netVars
  PROVE  SocketsOwn'
<1>1. CASE UNCHANGED netVars
  BY <1>1, SocketsSame DEF netVars, SocketsOwn
<1>2. CASE Calls
  <2>1. PICK p \in Procs :
          \/ /\ "udp" \in workload
             /\ \/ \E port \in UdpPorts : net_udp_bind(p, port)
                \/ \E d \in OnLink \cup OffLink : net_udp_sendto(p, d)
                \/ net_udp_recvfrom(p)
                \/ net_udp_close(p)
             /\ UNCHANGED <<at, copying, arrived>>
          \/ net_udp_cleanup(p) /\ UNCHANGED <<at, copying, arrived>>
          \/ UNCHANGED <<at, copying, udpVars, arrived>>
    BY <1>2 DEF Calls
  <2>2. ASSUME NEW d, net_udp_sendto(p, d), UNCHANGED <<at, copying, arrived>>
        PROVE  SocketsOwn'
    BY <2>2, SocketsSame DEF net_udp_sendto, SocketsOwn
  <2>3. ASSUME net_udp_close(p), UNCHANGED <<at, copying, arrived>> PROVE SocketsOwn'
    <3>1. PICK s \in Socks : /\ sock' = [sock EXCEPT ![s].state = "CLOSING"]
                             /\ UNCHANGED <<binds, misdelivered>>
      BY <2>3 DEF net_udp_close, udp_sock_of
    <3>2. sock' = [t \in Socks |-> IF t \in {s} THEN [sock[t] EXCEPT !.state = "CLOSING"]
                                                ELSE sock[t]]
      BY <3>1 DEF SocketsOwn
    <3>3. {s} \in SUBSET Socks
      OBVIOUS
    <3> QED BY <2>3, <3>1, <3>2, <3>3, CloseOwn
  <2>4. ASSUME net_udp_cleanup(p), UNCHANGED <<at, copying, arrived>> PROVE SocketsOwn'
    <3>1. udp_sock_of(p) \in SUBSET Socks
      BY DEF udp_sock_of
    <3> QED BY <2>4, <3>1, CloseOwn DEF net_udp_cleanup
  <2>5. CASE UNCHANGED <<at, copying, udpVars, arrived>>
    BY <2>5, SocketsSame DEF udpVars, SocketsOwn
  <2> QED BY <2>1, <2>2, <2>3, <2>4, <2>5, BindOwn, RecvOwn
<1>3. CASE \E port \in UdpPorts : udp_rx_demux(port)
  BY <1>3, DemuxOwn
<1>4. CASE udp_rx_publish
  BY <1>4, PublishOwn
<1>5. CASE \E peer \in OnLink : arp_maybe_reply(peer)
  BY <1>5, SocketsSame DEF arp_maybe_reply, udpVars, SocketsOwn
<1>6. ASSUME UNCHANGED <<sock, misdelivered, binds, copying, arrived>>, at' \in NetPlaces,
             copying = NoCopy
      PROVE  SocketsOwn'
  BY <1>6, SocketsSame
<1>7. at \notin Pumping => copying = NoCopy
  BY DEF SocketsOwn, CopyPinned
<1>8. CASE ArpReply
  BY <1>6, <1>8 DEF ArpReply, Goto, udpVars, TakesFrame, NetPlaces
<1>9. CASE ArpTimeout
  BY <1>6, <1>9 DEF ArpTimeout, Goto, Consumed, udpVars, TakesFrame, NetPlaces
<1>10. CASE dhcp_rx
  BY <1>6, <1>10 DEF dhcp_rx, Goto, udpVars, TakesFrame, NetPlaces
<1>11. CASE DhcpStep
  BY <1>6, <1>7, <1>11 DEF DhcpStep, Goto, udpVars, TakesFrame, NetPlaces, Pumping
<1>12. CASE BootPing
  BY <1>6, <1>12 DEF BootPing, Goto, udpVars, TakesFrame, NetPlaces
<1>13. CASE udp_retire_closing
  BY <1>13, RetireOwn
<1>14. CASE PumpDone \/ udp_tx_drain \/ LookupStart
  BY <1>6, <1>7, <1>14 DEF PumpDone, udp_tx_drain, LookupStart, Goto, udpVars, NetPlaces, Pumping
<1>15. CASE udp_tx_send
  BY <1>6, <1>7, <1>15 DEF udp_tx_send, Consumed, NetPlaces, Pumping
<1>16. CASE SendQuery
  BY <1>6, <1>7, <1>16 DEF SendQuery, Goto, udpVars, NetPlaces, Pumping
<1>17. CASE DnsAnswer \/ DnsTimeout
  BY <1>6, <1>17 DEF DnsAnswer, DnsTimeout, Goto, udpVars, TakesFrame, NetPlaces
<1> QED
  BY <1>1, <1>2, <1>3, <1>4, <1>5, <1>8, <1>9, <1>10, <1>11, <1>12, <1>13, <1>14, <1>15, <1>16, <1>17
  DEF NetNext

(* The SENDTO ring holds what was accepted and not drained yet, and the    *)
(* thread is at an entry only when there is one.                           *)
Entry == (OnLink \cup OffLink) \X Nat
Numbered == \A i \in 1 .. Len(accepted) : accepted[i][2] = i
RingHolds == \A k \in Nat : k >= txTail /\ k < txHead => txring[k % TXQ] = accepted[k + 1]
SentSoFar ==
  /\ \A i \in 1 .. Len(transmitted) :
       \E j \in i .. txTail : transmitted[i] = accepted[j] /\ transmitted[i][2] = j
  /\ \A i, j \in 1 .. Len(transmitted) : i < j => transmitted[i][2] < transmitted[j][2]
QueueKept ==
  /\ accepted \in Seq(Entry) /\ transmitted \in Seq(Entry) /\ DOMAIN txring = 0 .. TXQ - 1
  /\ txring = [k \in 0 .. TXQ - 1 |-> txring[k]]
  /\ txTail \in Nat /\ txHead \in Nat /\ txHead = Len(accepted)
  /\ txTail <= txHead /\ txHead - txTail <= TXQ
  /\ Len(transmitted) <= txTail
  /\ at \in {"send", "drainarp"} => txTail < txHead
  /\ Numbered /\ RingHolds /\ SentSoFar

LEMMA SlotsDiffer ==
  ASSUME NEW W \in Nat \ {0}, NEW j \in Nat, NEW k \in Nat, j < k, k - j < W
  PROVE  /\ j % W # k % W /\ j % W \in 0 .. W - 1 /\ k % W \in 0 .. W - 1
<1>1. PICK q \in Int, r \in 0 .. W - 1 : j = q * W + r /\ j % W = r
  <2>1. j \in Int
    OBVIOUS
  <2> QED BY <2>1, Quotient
<1>2. PICK p \in Int, s \in 0 .. W - 1 : k = p * W + s /\ k % W = s
  <2>1. k \in Int
    OBVIOUS
  <2> QED BY <2>1, Quotient
<1>3. ASSUME r = s PROVE FALSE
  <2>1. (p - q) * W = k - j
    BY <1>1, <1>2, <1>3
  <2>2. CASE p - q >= 1
    <3>1. (p - q) * W >= W
      BY <2>2
    <3> QED BY <3>1, <2>1
  <2>3. CASE p - q <= 0
    <3>1. (p - q) * W <= 0
      BY <2>3
    <3> QED BY <3>1, <2>1
  <2> QED BY <2>2, <2>3
<1> QED BY <1>1, <1>2, <1>3

LEMMA QueueInit == ASSUME NetInit PROVE QueueKept
<1>1. accepted = << >> /\ transmitted = << >> /\ txHead = 0 /\ txTail = 0
      /\ at \notin {"send", "drainarp"}
      /\ txring = [i \in 0 .. TXQ - 1 |-> <<0, 0>>]
  BY DEF NetInit
<1>2. TXQ \in Nat \ {0}
  BY NetThreadConstants
<1> QED BY <1>1, <1>2 DEF QueueKept, Numbered, RingHolds, SentSoFar

LEMMA QueueSame ==
  ASSUME QueueKept, UNCHANGED <<txring, txHead, txTail, accepted, transmitted>>,
         at' \in {"send", "drainarp"} => txTail < txHead
  PROVE  QueueKept'
BY DEF QueueKept, Numbered, RingHolds, SentSoFar

LEMMA SendtoKept ==
  ASSUME QueueKept, NEW p, NEW d \in OnLink \cup OffLink, net_udp_sendto(p, d),
         UNCHANGED <<at, transmitted>>
  PROVE  QueueKept'
<1>0. TXQ \in Nat \ {0}
  BY NetThreadConstants
<1>1. PICK n \in Nat : n = txHead /\ n = Len(accepted)
  BY DEF QueueKept
<1>2. PICK e : e = <<d, n + 1>>
  OBVIOUS
<1>3. e \in Entry /\ e[2] = n + 1
  BY <1>2 DEF Entry
<1>4. /\ txring' = [txring EXCEPT ![n % TXQ] = e] /\ accepted' = Append(accepted, e)
      /\ txHead' = n + 1 /\ txTail' = txTail /\ n - txTail < TXQ
  BY <1>1, <1>2 DEF net_udp_sendto
<1>5. /\ accepted' \in Seq(Entry) /\ Len(accepted') = n + 1 /\ accepted'[n + 1] = e
      /\ \A i \in 1 .. n : accepted'[i] = accepted[i]
  BY <1>1, <1>3, <1>4, AppendIs DEF QueueKept
<1>6. Numbered'
  <2> SUFFICES ASSUME NEW i \in 1 .. n + 1 PROVE accepted'[i][2] = i
    BY <1>5 DEF Numbered
  <2>1. CASE i = n + 1
    BY <2>1, <1>3, <1>5
  <2>2. CASE i \in 1 .. n
    BY <2>2, <1>1, <1>5 DEF QueueKept, Numbered
  <2> QED BY <2>1, <2>2
<1>7. n % TXQ \in 0 .. TXQ - 1
  BY <1>0
<1>8. \A x \in 0 .. TXQ - 1 : txring'[x] = IF x = n % TXQ THEN e ELSE txring[x]
  BY <1>4, <1>7 DEF QueueKept
<1>9. RingHolds'
  <2> SUFFICES ASSUME NEW k \in Nat, k >= txTail, k < n + 1
               PROVE  txring'[k % TXQ] = accepted'[k + 1]
    BY <1>4 DEF RingHolds
  <2>1. CASE k = n
    BY <2>1, <1>5, <1>7, <1>8
  <2>2. CASE k < n
    <3>1. n - k < TXQ
      BY <1>0, <1>4, <2>2 DEF QueueKept
    <3>2. k % TXQ # n % TXQ /\ k % TXQ \in 0 .. TXQ - 1
      BY <1>0, <2>2, <3>1, SlotsDiffer
    <3>3. txring'[k % TXQ] = txring[k % TXQ]
      BY <3>2, <1>8
    <3>4. accepted'[k + 1] = accepted[k + 1]
      BY <2>2, <1>5
    <3> QED BY <3>3, <3>4, <2>2, <1>1 DEF QueueKept, RingHolds
  <2> QED BY <2>1, <2>2
<1>10. SentSoFar'
  <2>1. \A j \in 1 .. txTail : accepted'[j] = accepted[j]
    BY <1>1, <1>5 DEF QueueKept
  <2>2. transmitted' = transmitted /\ txTail' = txTail /\ Len(transmitted) \in Nat /\ txTail \in Nat
    BY <1>4 DEF QueueKept
  <2>3. ASSUME NEW i \in 1 .. Len(transmitted)
        PROVE  \E j \in i .. txTail : transmitted[i] = accepted'[j] /\ transmitted[i][2] = j
    <3>1. PICK j \in i .. txTail : transmitted[i] = accepted[j] /\ transmitted[i][2] = j
      BY DEF QueueKept, SentSoFar
    <3>2. j \in 1 .. txTail
      BY <2>2
    <3> QED BY <3>1, <3>2, <2>1
  <2> QED BY <2>2, <2>3 DEF QueueKept, SentSoFar
<1>11. /\ DOMAIN txring' = 0 .. TXQ - 1 /\ txring' = [k \in 0 .. TXQ - 1 |-> txring'[k]]
  BY <1>4 DEF QueueKept
<1>12. /\ txTail' \in Nat /\ txHead' \in Nat /\ txHead' = Len(accepted') /\ txTail' <= txHead'
       /\ txHead' - txTail' <= TXQ /\ Len(transmitted') <= txTail'
       /\ transmitted' \in Seq(Entry)
       /\ at' \in {"send", "drainarp"} => txTail' < txHead'
  BY <1>0, <1>1, <1>4, <1>5 DEF QueueKept
<1> QED BY <1>5, <1>6, <1>9, <1>10, <1>11, <1>12 DEF QueueKept

(* The tail moves on: what was sent stays sent.                            *)
LEMMA TailMoves ==
  ASSUME QueueKept, txTail < txHead, txTail' = txTail + 1, UNCHANGED <<txring, txHead, accepted>>,
         at' = "drain", transmitted' \in Seq(Entry), Len(transmitted') <= txTail', SentSoFar'
  PROVE  QueueKept'
<1>0. TXQ \in Nat \ {0}
  BY NetThreadConstants
<1>1. RingHolds'
  <2> SUFFICES ASSUME NEW k \in Nat, k >= txTail + 1, k < txHead
               PROVE  txring[k % TXQ] = accepted[k + 1]
    BY DEF RingHolds
  <2>1. k >= txTail
    BY DEF QueueKept
  <2> QED BY <2>1 DEF QueueKept, RingHolds
<1>2. Numbered'
  BY DEF QueueKept, Numbered
<1> QED BY <1>0, <1>1, <1>2 DEF QueueKept

LEMMA GaveUp ==
  ASSUME QueueKept, txTail < txHead, Consumed, UNCHANGED transmitted, at' = "drain"
  PROVE  QueueKept'
<1>1. txTail' = txTail + 1 /\ UNCHANGED <<txring, txHead, accepted>>
  BY DEF Consumed
<1>2. SentSoFar'
  <2>1. ASSUME NEW i \in 1 .. Len(transmitted)
        PROVE  \E j \in i .. txTail + 1 : transmitted[i] = accepted[j] /\ transmitted[i][2] = j
    <3>1. PICK j \in i .. txTail : transmitted[i] = accepted[j] /\ transmitted[i][2] = j
      BY DEF QueueKept, SentSoFar
    <3>2. j \in i .. txTail + 1
      BY DEF QueueKept
    <3> QED BY <3>1, <3>2
  <2> QED BY <1>1, <2>1 DEF QueueKept, SentSoFar
<1> QED BY <1>1, <1>2, TailMoves DEF QueueKept

LEMMA SendKept ==
  ASSUME QueueKept, udp_tx_send
  PROVE  QueueKept'
<1>1. /\ txTail' = txTail + 1 /\ UNCHANGED <<txring, txHead, accepted>> /\ at' = "drain"
      /\ at = "send" /\ transmitted' = Append(transmitted, txring[txTail % TXQ])
  BY DEF udp_tx_send, Consumed, NextEntry
<1>2. txTail \in Nat /\ txTail < txHead /\ txHead = Len(accepted) /\ accepted \in Seq(Entry)
  BY <1>1 DEF QueueKept
<1>3. txring[txTail % TXQ] = accepted[txTail + 1]
  <2>1. PICK k \in Nat : k = txTail /\ k >= txTail /\ k < txHead
    BY <1>2
  <2>2. txring[k % TXQ] = accepted[k + 1]
    BY <2>1 DEF QueueKept, RingHolds
  <2> QED BY <2>1, <2>2
<1>4. PICK t \in Nat : t = txTail + 1 /\ t \in 1 .. Len(accepted)
  BY <1>2
<1>5. PICK e \in Entry : e = accepted[t]
  BY <1>2, <1>4
<1>6. e[2] = t
  BY <1>4, <1>5 DEF QueueKept, Numbered
<1>7. PICK m \in Nat : m = Len(transmitted) /\ m < t
  BY <1>4 DEF QueueKept
<1>8. transmitted' = Append(transmitted, e)
  BY <1>1, <1>3, <1>4, <1>5
<1>9. /\ transmitted' \in Seq(Entry) /\ Len(transmitted') = m + 1 /\ transmitted'[m + 1] = e
      /\ \A i \in 1 .. m : transmitted'[i] = transmitted[i]
  BY <1>7, <1>8, AppendIs DEF QueueKept
<1>10. \A i \in 1 .. m : \E j \in i .. txTail : transmitted[i] = accepted[j] /\ transmitted[i][2] = j
  BY <1>7 DEF QueueKept, SentSoFar
<1>11. SentSoFar'
  <2>1. ASSUME NEW i \in 1 .. m + 1
        PROVE  \E j \in i .. t : transmitted'[i] = accepted[j] /\ transmitted'[i][2] = j
    <3>1. CASE i = m + 1
      <4>1. t \in i .. t
        BY <3>1, <1>7
      <4> QED BY <4>1, <3>1, <1>5, <1>6, <1>9
    <3>2. CASE i \in 1 .. m
      <4>1. PICK j \in i .. txTail : transmitted[i] = accepted[j] /\ transmitted[i][2] = j
        BY <3>2, <1>10
      <4>2. j \in i .. t
        BY <1>2, <1>4
      <4> QED BY <3>2, <4>1, <4>2, <1>9
    <3> QED BY <3>1, <3>2
  <2>2. ASSUME NEW i \in 1 .. m + 1, NEW j \in 1 .. m + 1, i < j
        PROVE  transmitted'[i][2] < transmitted'[j][2]
    <3>1. i \in 1 .. m /\ transmitted'[i] = transmitted[i]
      BY <2>2, <1>9
    <3>2. CASE j = m + 1
      <4>1. PICK x \in i .. txTail : transmitted[i][2] = x
        BY <3>1, <1>10
      <4>2. x < t
        BY <1>2, <1>4
      <4> QED BY <3>1, <3>2, <4>1, <4>2, <1>6, <1>9
    <3>3. CASE j \in 1 .. m
      BY <2>2, <3>1, <3>3, <1>7, <1>9 DEF QueueKept, SentSoFar
    <3> QED BY <3>2, <3>3
  <2> QED BY <2>1, <2>2, <1>1, <1>4, <1>9 DEF SentSoFar
<1>12. Len(transmitted') <= txTail'
  BY <1>1, <1>4, <1>7, <1>9
<1> QED BY <1>1, <1>2, <1>9, <1>11, <1>12, TailMoves

LEMMA QueueStep ==
  ASSUME QueueKept, [NetNext]_netVars
  PROVE  QueueKept'
<1>1. ASSUME UNCHANGED <<txring, txHead, txTail, accepted, transmitted>>,
             at' = at \/ at' \notin {"send", "drainarp"}
      PROVE  QueueKept'
  BY <1>1, QueueSame DEF QueueKept
<1>2. CASE UNCHANGED netVars
  BY <1>1, <1>2 DEF netVars
<1>3. CASE Calls
  <2>1. PICK p \in Procs :
          \/ /\ \/ \E port \in UdpPorts : net_udp_bind(p, port)
                \/ \E d \in OnLink \cup OffLink : net_udp_sendto(p, d)
                \/ net_udp_recvfrom(p)
                \/ net_udp_close(p)
             /\ UNCHANGED <<at, transmitted>>
          \/ net_udp_cleanup(p) /\ UNCHANGED <<at, transmitted>>
          \/ UNCHANGED <<at, udpVars, transmitted>>
    BY <1>3 DEF Calls
  <2>2. ASSUME NEW port, net_udp_bind(p, port), UNCHANGED <<at, transmitted>> PROVE QueueKept'
    BY <2>2, <1>1 DEF net_udp_bind
  <2>3. CASE net_udp_recvfrom(p) /\ UNCHANGED <<at, transmitted>>
    BY <2>3, <1>1 DEF net_udp_recvfrom
  <2>4. CASE net_udp_close(p) /\ UNCHANGED <<at, transmitted>>
    BY <2>4, <1>1 DEF net_udp_close
  <2>5. CASE net_udp_cleanup(p) /\ UNCHANGED <<at, transmitted>>
    BY <2>5, <1>1 DEF net_udp_cleanup
  <2>6. CASE UNCHANGED <<at, udpVars, transmitted>>
    BY <2>6, <1>1 DEF udpVars
  <2> QED BY <2>1, <2>2, <2>3, <2>4, <2>5, <2>6, SendtoKept
<1>4. CASE \E port \in UdpPorts : udp_rx_demux(port)
  BY <1>1, <1>4 DEF udp_rx_demux, udpVars
<1>5. CASE udp_rx_publish \/ \E peer \in OnLink : arp_maybe_reply(peer)
  BY <1>1, <1>5 DEF udp_rx_publish, arp_maybe_reply, udpVars
<1>6. CASE ArpReply
  <2>1. UNCHANGED <<txring, txHead, txTail, accepted, transmitted>>
    BY <1>6 DEF ArpReply, Goto, udpVars
  <2>2. at' \in {"send", "drainarp"} => at = "drainarp"
    BY <1>6 DEF ArpReply, Goto
  <2> QED BY <2>1, <2>2, QueueSame DEF QueueKept
<1>7. CASE ArpTimeout
  <2>1. CASE at = "drainarp"
    <3>1. Consumed /\ at' = "drain" /\ UNCHANGED transmitted
      BY <1>7, <2>1 DEF ArpTimeout, Goto
    <3>2. txTail < txHead
      BY <2>1 DEF QueueKept
    <3> QED BY <3>1, <3>2, GaveUp
  <2>2. CASE at # "drainarp"
    BY <1>1, <1>7, <2>2 DEF ArpTimeout, Goto, udpVars
  <2> QED BY <2>1, <2>2
<1>8. CASE dhcp_rx \/ DhcpStep \/ BootPing
  BY <1>1, <1>8 DEF dhcp_rx, DhcpStep, BootPing, Goto, udpVars
<1>9. CASE udp_retire_closing
  BY <1>1, <1>9 DEF udp_retire_closing
<1>10. CASE PumpDone \/ LookupStart \/ SendQuery
  BY <1>1, <1>10 DEF PumpDone, LookupStart, SendQuery, Goto, udpVars
<1>11. CASE udp_tx_drain
  <2>1. UNCHANGED <<txring, txHead, txTail, accepted, transmitted>>
    BY <1>11 DEF udp_tx_drain, Goto, udpVars
  <2>2. txTail = txHead => at' = "lookup"
    BY <1>11 DEF udp_tx_drain, Goto
  <2> QED BY <2>1, <2>2, QueueSame DEF QueueKept
<1>12. CASE udp_tx_send
  BY <1>12, SendKept
<1>13. CASE DnsAnswer \/ DnsTimeout
  BY <1>1, <1>13 DEF DnsAnswer, DnsTimeout, Goto, udpVars
<1> QED
  BY <1>2, <1>3, <1>4, <1>5, <1>6, <1>7, <1>8, <1>9, <1>10, <1>11, <1>12, <1>13 DEF NetNext

(* A lookup in hand is pending, so no call changes the question, and the   *)
(* query on the wire asks it.                                              *)
Asked == HostNames \cup {NoName}
LookupKept ==
  /\ res = [state |-> res.state, host |-> res.host, ip |-> res.ip]
  /\ query \in Seq(Asked)
  /\ res.state = "PENDING" => res.host \in HostNames
  /\ at \in {"dnsarp", "ask", "dnswait"} => res.state = "PENDING"
  /\ at = "dnswait" => Len(query) > 0 /\ query[Len(query)] = res.host
  /\ AnswerFitsQuestion

LEMMA LookupInit == ASSUME NetInit PROVE LookupKept
BY DEF NetInit, LookupKept, Asked, AnswerFitsQuestion

(* The thread is elsewhere, or where it was.                               *)
LEMMA LookupSame ==
  ASSUME LookupKept, UNCHANGED <<res, query>>, at' = at \/ at' \notin {"dnsarp", "ask", "dnswait"}
  PROVE  LookupKept'
BY DEF LookupKept, AnswerFitsQuestion

LEMMA ResolveKept ==
  ASSUME LookupKept, NEW p, NEW n \in HostNames, sys_resolve(p, n), UNCHANGED <<at, query>>
  PROVE  LookupKept'
<1>1. CASE res' = res
  BY <1>1, LookupSame
<1>2. CASE res.state # "PENDING" /\ res' = [res EXCEPT !.state = "IDLE"]
  <2>1. /\ res' = [state |-> "IDLE", host |-> res.host, ip |-> res.ip]
        /\ at \notin {"dnsarp", "ask", "dnswait"}
    BY <1>2 DEF LookupKept
  <2> QED BY <2>1 DEF LookupKept, AnswerFitsQuestion
<1>3. CASE res.state = "IDLE" /\ res' = [state |-> "PENDING", host |-> n, ip |-> 0]
  BY <1>3 DEF LookupKept, AnswerFitsQuestion
<1> QED BY <1>1, <1>2, <1>3 DEF sys_resolve, net_poll_resolve, net_request_resolve

(* The thread answers or gives up, and is back at the top.                 *)
LEMMA Failed ==
  ASSUME LookupKept, res' \in {res, [res EXCEPT !.state = "FAILED"]}, UNCHANGED query, at' = "top"
  PROVE  LookupKept'
<1>1. CASE res' = res
  BY <1>1, LookupSame
<1>2. CASE res' = [res EXCEPT !.state = "FAILED"]
  <2>1. res' = [state |-> "FAILED", host |-> res.host, ip |-> res.ip]
    BY <1>2 DEF LookupKept
  <2> QED BY <2>1 DEF LookupKept, AnswerFitsQuestion
<1> QED BY <1>1, <1>2

LEMMA AnswerKept ==
  ASSUME LookupKept, DnsAnswer
  PROVE  LookupKept'
<1>1. at' = "top" /\ UNCHANGED query
  BY DEF DnsAnswer, Goto
<1>2. CASE at # "dnswait"
  <2>1. res' = res
    BY <1>2 DEF DnsAnswer
  <2> QED BY <1>1, <2>1, LookupSame
<1>3. CASE at = "dnswait"
  <2>1. PICK h \in HostNames : h = res.host /\ query[Len(query)] = h /\ h # NoName
    BY <1>3, NetThreadConstants DEF LookupKept
  <2>2. res' = [res EXCEPT !.state = "DONE", !.ip = AddrOf[h]]
    BY <1>3, <2>1 DEF DnsAnswer, dns_parse
  <2>3. res' = [state |-> "DONE", host |-> h, ip |-> AddrOf[h]]
    BY <2>1, <2>2 DEF LookupKept
  <2> QED BY <1>1, <2>1, <2>3 DEF LookupKept, AnswerFitsQuestion
<1> QED BY <1>2, <1>3

LEMMA AskKept ==
  ASSUME LookupKept, SendQuery
  PROVE  LookupKept'
<1>1. res' = res /\ at \in {"ask", "bootask"} /\ at' = (IF at = "ask" THEN "dnswait" ELSE "bootdns")
  BY DEF SendQuery, Goto, resVars
<1>2. PICK h \in Asked : query' = Append(query, h) /\ (at = "ask" => h = res.host)
  <2>1. at = "ask" => res.host \in HostNames
    BY DEF LookupKept
  <2> QED BY <2>1, <1>1 DEF SendQuery, Asked
<1>3. query' \in Seq(Asked) /\ Len(query') > 0 /\ query'[Len(query')] = h
  <2>1. /\ query' \in Seq(Asked) /\ Len(query') = Len(query) + 1 /\ Len(query) \in Nat
        /\ query'[Len(query) + 1] = h
    BY <1>2, AppendIs DEF LookupKept
  <2> QED BY <2>1
<1>4. CASE at = "ask"
  <2>1. res.state = "PENDING" /\ h = res.host /\ at' = "dnswait"
    BY <1>1, <1>2, <1>4 DEF LookupKept
  <2> QED BY <1>1, <1>3, <2>1 DEF LookupKept, AnswerFitsQuestion
<1>5. CASE at # "ask"
  BY <1>1, <1>3, <1>5 DEF LookupKept, AnswerFitsQuestion
<1> QED BY <1>4, <1>5

LEMMA LookupStep ==
  ASSUME LookupKept, [NetNext]_netVars
  PROVE  LookupKept'
<1>1. CASE UNCHANGED netVars
  BY <1>1, LookupSame DEF netVars
<1>2. CASE Calls
  <2>1. PICK p \in Procs : \/ UNCHANGED <<at, query, res>>
                           \/ /\ \E n \in HostNames : sys_resolve(p, n)
                              /\ UNCHANGED <<at, query>>
    BY <1>2 DEF Calls, resVars
  <2>2. CASE UNCHANGED <<at, query, res>>
    BY <2>2, LookupSame
  <2> QED BY <2>1, <2>2, ResolveKept
<1>3. CASE (\E port \in UdpPorts : udp_rx_demux(port)) \/ udp_rx_publish
  BY <1>3, LookupSame DEF udp_rx_demux, udp_rx_publish, resVars
<1>4. CASE \E peer \in OnLink : arp_maybe_reply(peer)
  BY <1>4, LookupSame DEF arp_maybe_reply, resVars
<1>5. CASE ArpReply
  <2>1. UNCHANGED <<res, query>> /\ at' \notin {"dnsarp", "dnswait"} /\ (at' = "ask" => at = "dnsarp")
    BY <1>5 DEF ArpReply, Goto, resVars
  <2> QED BY <2>1 DEF LookupKept, AnswerFitsQuestion
<1>6. CASE ArpTimeout
  <2>1. UNCHANGED query
    BY <1>6 DEF ArpTimeout
  <2>2. CASE at = "dnsarp"
    BY <1>6, <2>1, <2>2, Failed DEF ArpTimeout, Goto
  <2>3. CASE at # "dnsarp"
    BY <1>6, <2>1, <2>3, LookupSame DEF ArpTimeout, Goto
  <2> QED BY <2>2, <2>3
<1>7. CASE dhcp_rx \/ DhcpStep \/ BootPing
  BY <1>7, LookupSame DEF dhcp_rx, DhcpStep, BootPing, Goto, resVars
<1>8. CASE udp_retire_closing \/ PumpDone \/ udp_tx_drain \/ udp_tx_send
  BY <1>8, LookupSame DEF udp_retire_closing, PumpDone, udp_tx_drain, udp_tx_send, Goto, resVars
<1>9. CASE LookupStart
  <2>1. /\ UNCHANGED <<res, query>> /\ at' \in {"top", "ask", "dnsarp"}
        /\ res.state # "PENDING" => at' = "top"
    BY <1>9 DEF LookupStart, Goto, resVars
  <2> QED BY <2>1 DEF LookupKept, AnswerFitsQuestion
<1>10. CASE DnsTimeout
  BY <1>10, Failed DEF DnsTimeout, Goto
<1> QED
  BY <1>1, <1>2, <1>3, <1>4, <1>5, <1>6, <1>7, <1>8, <1>9, <1>10, AskKept, AnswerKept DEF NetNext

(* A socket's owner reads only its own datagrams, datagrams go out as they *)
(* were queued, and an answer is to the question that was asked (net.c,    *)
(* net_udp.c), whatever the calls that interrupt the thread.               *)
THEOREM DatagramsAreFaithful == NetSpec => []DatagramsFaithful
<1>1. NetInit => SocketsOwn /\ QueueKept /\ LookupKept
  BY SocketsInit, QueueInit, LookupInit
<1>2. SocketsOwn /\ QueueKept /\ LookupKept /\ [NetNext]_netVars
        => (SocketsOwn /\ QueueKept /\ LookupKept)'
  BY SocketsStep, QueueStep, LookupStep
<1>3. SocketsOwn /\ QueueKept /\ LookupKept => DatagramsFaithful
  <2> SUFFICES ASSUME SocketsOwn, QueueKept, LookupKept PROVE DatagramsFaithful
    OBVIOUS
  <2>1. ASSUME NEW i \in 1 .. Len(transmitted)
        PROVE  \E j \in i .. Len(accepted) : transmitted[i] = accepted[j]
    <3>1. PICK j \in i .. txTail : transmitted[i] = accepted[j]
      BY DEF QueueKept, SentSoFar
    <3>2. j \in i .. Len(accepted)
      BY DEF QueueKept
    <3> QED BY <3>1, <3>2
  <2>2. SentAsQueued
    BY <2>1 DEF SentAsQueued, QueueKept, SentSoFar
  <2> QED BY <2>2 DEF DatagramsFaithful, OwnDatagramsOnly, SocketsOwn, LookupKept
<1> QED BY <1>1, <1>2, <1>3, PTL DEF NetSpec

-----------------------------------------------------------------------------
(* The archives on the disk.                                               *)

(* What is saved on the disk.                                              *)
AuditHome(n) == n - AuditTop
FieldHome(n) == n - AuditTop - Reserve
Roomy(n) == n >= AuditTop + Reserve + 2
HomeIn(s, n) == IF s = "fs" THEN 1 ELSE IF s = "field" THEN FieldHome(n) ELSE AuditHome(n)
FitsIn(t, n) == 1 + t <= (IF Roomy(n) THEN FieldHome(n) ELSE n - 1)

(* The sectors a section may occupy, and the last one, which the self test *)
(* uses.                                                                   *)
Zone(s, n) ==
  CASE s = "fs" -> 1 .. ((IF Roomy(n) THEN FieldHome(n) ELSE n - 1) - 1)
    [] s = "field" -> FieldHome(n) .. AuditHome(n) - 1
    [] s = "audit" -> AuditHome(n) .. n - 2
    [] s = "last" -> {n - 1}

(* Disk d holds a section from sector first on.                            *)
Holds(d, first, blob) == \A i \in 1 .. Len(blob) : d[first + i - 1] = blob[i]

SectionsOK(m) ==
  /\ m.fs \in Seq(Sectors) /\ Len(m.fs) >= MinTar
  /\ m.field \in Seq(Sectors) /\ Len(m.field) = FieldLen
  /\ m.audit \in Seq(Sectors) /\ Len(m.audit) = AuditLen

(* Superblock b describes what was saved last, and of that the sections    *)
(* that are not torn are still on disk d of n sectors.                     *)
FsDescribed(n, b, v, t, d) ==
  /\ b.tar = Len(v.fs) /\ b.csum = archive_checksum(v.fs) /\ FitsIn(b.tar, n)
  /\ "fs" \notin t => Holds(d, 1, v.fs)
FieldDescribed(n, b, v, t, d) ==
  IF Roomy(n) THEN /\ b.field_lba = FieldHome(n) /\ b.field_csum = archive_checksum(v.field)
                   /\ "field" \notin t => Holds(d, FieldHome(n), v.field)
              ELSE b.field_lba = 0 /\ v.field = ColdField
AuditDescribed(n, b, v, t, d) ==
  \/ b.audit_lba = 0 /\ v.audit = ColdAudit
  \/ /\ Roomy(n) /\ b.audit_lba = AuditHome(n) /\ b.audit_csum = archive_checksum(v.audit)
     /\ "audit" \notin t => Holds(d, AuditHome(n), v.audit)
Described(n, b, v, t, d) ==
  IF b.magic = "QDSK1"
  THEN FsDescribed(n, b, v, t, d) /\ FieldDescribed(n, b, v, t, d) /\ AuditDescribed(n, b, v, t, d)
  ELSE v = Cold

(* What a sync at step p has written of the contents m.                    *)
SyncSoFar(n, p, k, m, d) ==
  /\ p \in {"off", "idle", "fs", "field", "audit", "sb"} /\ k \in BOOLEAN
  /\ p \in {"fs", "field", "audit", "sb"} => FitsIn(Len(m.fs), n)
  /\ p \in {"field", "audit"} => Roomy(n)
  /\ p \in {"field", "audit", "sb"} => Holds(d, 1, m.fs)
  /\ p = "audit" \/ (p = "sb" /\ Roomy(n)) => Holds(d, FieldHome(n), m.field)
  /\ p \in {"fs", "field", "audit"} => ~k
  /\ p = "sb" /\ k => Roomy(n) /\ Holds(d, AuditHome(n), m.audit)

DiskOf(n) == n \in Nat /\ n >= 2 /\ disk \in [1 .. n - 1 -> Sectors]
PersistBody(n) ==
  /\ DiskOf(n) /\ SectionsOK(mem) /\ SectionsOK(saved)
  /\ Described(n, sb, saved, torn, disk)
  /\ SyncSoFar(n, pc, kept, mem, disk)
PersistInv == \E n \in Nat : PersistBody(n)

LEMMA Contents ==
  /\ {AuditTop, Reserve, FieldLen, AuditLen, MinTar} \subseteq Nat \ {0}
  /\ SectionsOK(Cold)
  /\ \A a \in Archives : a \in Seq(Sectors) /\ Len(a) >= MinTar
  /\ \A f \in Fields : f \in Seq(Sectors) /\ Len(f) = FieldLen
  /\ \A f \in Audits : f \in Seq(Sectors) /\ Len(f) = AuditLen
<1>1. FieldLen \in Nat /\ AuditLen \in Nat
  BY LayoutAssumption
<1>2. ASSUME NEW L \in Nat, NEW f \in [1 .. L -> Sectors] PROVE f \in Seq(Sectors) /\ Len(f) = L
  OBVIOUS
<1>3. \A f \in Fields : f \in Seq(Sectors) /\ Len(f) = FieldLen
  BY <1>1, <1>2, ContentsAssumption
<1>4. \A f \in Audits : f \in Seq(Sectors) /\ Len(f) = AuditLen
  BY <1>1, <1>2, ContentsAssumption
<1>5. SectionsOK(Cold)
  BY <1>3, <1>4, ContentsAssumption DEF SectionsOK, Cold
<1> QED BY <1>3, <1>4, <1>5, LayoutAssumption, ContentsAssumption

LEMMA LayoutIs ==
  ASSUME NEW n \in Nat, DiskOf(n)
  PROVE  /\ N = n /\ DOMAIN disk = 1 .. n - 1
         /\ audit_home_lba = AuditHome(n) /\ field_home_lba = FieldHome(n)
         /\ audit_disk_fits <=> Roomy(n)
         /\ \A s \in Sections : HomeOf(s) = HomeIn(s, n)
         /\ \A t \in Nat : Fits(t) <=> FitsIn(t, n)
<1>1. DOMAIN disk = 1 .. n - 1
  BY DEF DiskOf
<1>2. Cardinality(1 .. n - 1) = n - 1
  BY FS_Interval DEF DiskOf
<1>3. N = n
  BY <1>1, <1>2 DEF N
<1>4. audit_home_lba = AuditHome(n) /\ field_home_lba = FieldHome(n)
  BY <1>3, Contents DEF audit_home_lba, field_home_lba, AuditHome, FieldHome
<1>5. audit_disk_fits <=> Roomy(n)
  BY <1>3 DEF audit_disk_fits, Roomy
<1> QED BY <1>1, <1>3, <1>4, <1>5 DEF HomeOf, HomeIn, Fits, FitsIn

(* A section stays within its zone, and zones do not meet.                 *)
LEMMA ZonesApart ==
  ASSUME NEW n \in Nat, n >= 2, NEW s \in Sections \cup {"last"}, NEW r \in Sections, s # r,
         {s, r} \cap {"field", "audit"} # {} => Roomy(n)
  PROVE  Zone(s, n) \cap Zone(r, n) = {} /\ Zone(r, n) \subseteq 1 .. n - 1
<1>1. AuditTop \in Nat \ {0} /\ Reserve \in Nat \ {0}
  BY Contents
<1>2. CASE Roomy(n)
  BY <1>1, <1>2 DEF Zone, Sections, AuditHome, FieldHome, Roomy
<1>3. CASE ~ Roomy(n)
  <2>1. r = "fs" /\ s = "last"
    BY <1>3 DEF Sections
  <2> QED BY <1>3, <2>1 DEF Zone
<1> QED BY <1>2, <1>3

LEMMA InZone ==
  ASSUME NEW n \in Nat, n >= 2, NEW m, SectionsOK(m), NEW s \in Sections,
         IF s = "fs" THEN FitsIn(Len(m.fs), n) ELSE Roomy(n)
  PROVE  \A i \in 1 .. Len(m[s]) : HomeIn(s, n) + i - 1 \in Zone(s, n)
<1>1. /\ AuditTop \in Nat \ {0} /\ Reserve \in Nat \ {0} /\ FieldLen \in Nat /\ AuditLen \in Nat
      /\ AuditLen < AuditTop /\ FieldLen <= Reserve
  BY LayoutAssumption
<1>2. CASE s = "fs"
  <2>1. PICK t \in Nat : t = Len(m.fs)
    BY DEF SectionsOK
  <2>2. CASE Roomy(n)
    BY <1>1, <1>2, <2>1, <2>2 DEF HomeIn, Zone, FitsIn, FieldHome
  <2>3. CASE ~ Roomy(n)
    BY <1>2, <2>1, <2>3 DEF HomeIn, Zone, FitsIn
  <2> QED BY <2>2, <2>3
<1>3. CASE s = "field"
  BY <1>1, <1>3 DEF HomeIn, Zone, FieldHome, AuditHome, SectionsOK
<1>4. CASE s = "audit"
  BY <1>1, <1>4 DEF HomeIn, Zone, AuditHome, SectionsOK
<1> QED BY <1>2, <1>3, <1>4 DEF Sections

(* What changes only in one zone leaves every other section.               *)
OnlyIn(s, n, d, e) == \A l \in 1 .. n - 1 : l \notin Zone(s, n) => e[l] = d[l]

LEMMA OthersHold ==
  ASSUME NEW n \in Nat, n >= 2, NEW d, NEW e, NEW s \in Sections \cup {"last"}, OnlyIn(s, n, d, e),
         NEW r \in Sections, s # r, {s, r} \cap {"field", "audit"} # {} => Roomy(n),
         NEW m, SectionsOK(m), r = "fs" => FitsIn(Len(m.fs), n),
         Holds(d, HomeIn(r, n), m[r])
  PROVE  Holds(e, HomeIn(r, n), m[r])
<1>1. r # "fs" => Roomy(n)
  BY DEF Sections
<1>2. \A i \in 1 .. Len(m[r]) : HomeIn(r, n) + i - 1 \in Zone(r, n)
  BY <1>1, InZone
<1>3. Zone(s, n) \cap Zone(r, n) = {} /\ Zone(r, n) \subseteq 1 .. n - 1
  BY ZonesApart
<1> QED BY <1>2, <1>3 DEF Holds, OnlyIn

(* A write of some sectors of section s, whole or torn.                    *)
LEMMA WritingStep ==
  ASSUME NEW n \in Nat, DiskOf(n), SectionsOK(mem), SectionsOK(saved), NEW s \in Sections,
         IF s = "fs" THEN FitsIn(Len(mem.fs), n) ELSE Roomy(n),
         NEW W \in SUBSET LbasOf(s), Writing(s, W), Described(n, sb, saved, torn, disk)
  PROVE  /\ DiskOf(n)' /\ OnlyIn(s, n, disk, disk')
         /\ Described(n, sb, saved, torn', disk')
         /\ W = LbasOf(s) => Holds(disk', HomeIn(s, n), mem[s])
<1>0. n >= 2 /\ disk \in [1 .. n - 1 -> Sectors]
  BY DEF DiskOf
<1>1. PICK h \in Int : h = HomeIn(s, n) /\ h = HomeOf(s)
  <2>1. HomeIn(s, n) \in Int
    BY Contents DEF HomeIn, FieldHome, AuditHome
  <2> QED BY <2>1, LayoutIs
<1>2. PICK b \in Seq(Sectors) : b = mem[s]
  BY DEF SectionsOK, Sections
<1>3. LbasOf(s) = h .. h + Len(b) - 1
  BY <1>1, <1>2 DEF LbasOf, Area
<1>4. \A i \in 1 .. Len(b) : h + i - 1 \in Zone(s, n)
  BY <1>0, <1>1, <1>2, InZone
<1>5. \A l \in W : l - h + 1 \in 1 .. Len(b) /\ l \in Zone(s, n)
  <2> SUFFICES ASSUME NEW l \in W PROVE l - h + 1 \in 1 .. Len(b) /\ l \in Zone(s, n)
    OBVIOUS
  <2>1. PICK i \in 1 .. Len(b) : i = l - h + 1 /\ l = h + i - 1
    BY <1>3
  <2> QED BY <2>1, <1>4
<1>6. disk' = [l \in 1 .. n - 1 |-> IF l \in W THEN b[l - h + 1] ELSE disk[l]]
  BY <1>1, <1>2, LayoutIs DEF Writing
<1>7. DiskOf(n)'
  BY <1>0, <1>2, <1>5, <1>6 DEF DiskOf
<1>8. OnlyIn(s, n, disk, disk')
  BY <1>5, <1>6 DEF OnlyIn
<1>9. \/ torn' = torn /\ disk' = disk
      \/ torn' = torn \cup {s}
  <2>1. CASE \A l \in W : disk[l] = b[l - h + 1]
    <3>1. torn' = torn
      BY <1>1, <1>2, <2>1 DEF Writing
    <3>2. disk' = disk
      BY <1>0, <1>6, <2>1
    <3> QED BY <3>1, <3>2
  <2>2. CASE ~ \A l \in W : disk[l] = b[l - h + 1]
    BY <1>1, <1>2, <2>2 DEF Writing
  <2> QED BY <2>1, <2>2
<1>10. ASSUME NEW r \in Sections, r \notin torn', IF r = "fs" THEN FitsIn(Len(saved.fs), n) ELSE Roomy(n),
              r \notin torn => Holds(disk, HomeIn(r, n), saved[r])
       PROVE  Holds(disk', HomeIn(r, n), saved[r])
  <2>1. CASE torn' = torn /\ disk' = disk
    BY <1>10, <2>1
  <2>2. CASE torn' = torn \cup {s}
    <3>1. r # s /\ r \notin torn
      BY <1>10, <2>2
    <3>2. {s, r} \cap {"field", "audit"} # {} => Roomy(n)
      BY <1>10
    <3> QED BY <1>0, <1>8, <1>10, <3>1, <3>2, OthersHold
  <2> QED BY <1>9, <2>1, <2>2
<1>11. Described(n, sb, saved, torn', disk')
  <2> SUFFICES ASSUME sb.magic = "QDSK1"
               PROVE  /\ FsDescribed(n, sb, saved, torn', disk')
                      /\ FieldDescribed(n, sb, saved, torn', disk')
                      /\ AuditDescribed(n, sb, saved, torn', disk')
    BY DEF Described
  <2>1. /\ FsDescribed(n, sb, saved, torn, disk) /\ FieldDescribed(n, sb, saved, torn, disk)
        /\ AuditDescribed(n, sb, saved, torn, disk)
    BY DEF Described
  <2>2. {"fs", "field", "audit"} \subseteq Sections
    BY DEF Sections
  <2>3. FsDescribed(n, sb, saved, torn', disk')
    BY <1>10, <2>1, <2>2 DEF FsDescribed, HomeIn
  <2>4. FieldDescribed(n, sb, saved, torn', disk')
    BY <1>10, <2>1, <2>2 DEF FieldDescribed, HomeIn
  <2>5. AuditDescribed(n, sb, saved, torn', disk')
    BY <1>10, <2>1, <2>2 DEF AuditDescribed, HomeIn
  <2> QED BY <2>3, <2>4, <2>5
<1>12. ASSUME W = LbasOf(s) PROVE Holds(disk', HomeIn(s, n), mem[s])
  <2> SUFFICES ASSUME NEW i \in 1 .. Len(b) PROVE disk'[h + i - 1] = b[i]
    BY <1>1, <1>2 DEF Holds
  <2>1. PICK l \in Int : l = h + i - 1 /\ l - h + 1 = i
    OBVIOUS
  <2>2. l \in W
    BY <1>3, <1>12, <2>1
  <2>3. l \in 1 .. n - 1
    <3>1. l \in Zone(s, n)
      BY <1>5, <2>2
    <3>2. Zone(s, n) \subseteq 1 .. n - 1
      <4>1. {"last", s} \cap {"field", "audit"} # {} => Roomy(n)
        OBVIOUS
      <4>2. s # "last"
        BY DEF Sections
      <4> QED BY <1>0, <4>1, <4>2, ZonesApart
    <3> QED BY <3>1, <3>2
  <2> QED BY <1>6, <2>1, <2>2, <2>3
<1> QED BY <1>7, <1>8, <1>11, <1>12

(* What a sync wrote so far is not touched by its next write.              *)
LEMMA WrittenBefore ==
  ASSUME NEW n \in Nat, DiskOf(n), SectionsOK(mem), NEW s \in Sections, pc = s,
         SyncSoFar(n, pc, kept, mem, disk), NEW e, OnlyIn(s, n, disk, e)
  PROVE  /\ s \in {"field", "audit"} => Holds(e, 1, mem.fs)
         /\ s = "audit" => Holds(e, FieldHome(n), mem.field)
<1>0. n >= 2
  BY DEF DiskOf
<1>1. ASSUME s \in {"field", "audit"} PROVE Holds(e, HomeIn("fs", n), mem["fs"])
  <2>1. /\ Holds(disk, HomeIn("fs", n), mem["fs"]) /\ FitsIn(Len(mem.fs), n) /\ Roomy(n)
        /\ "fs" \in Sections /\ s # "fs"
    BY <1>1 DEF SyncSoFar, HomeIn, Sections
  <2> QED BY <1>0, <2>1, OthersHold
<1>2. ASSUME s = "audit" PROVE Holds(e, HomeIn("field", n), mem["field"])
  <2>1. /\ Holds(disk, HomeIn("field", n), mem["field"]) /\ Roomy(n)
        /\ "field" \in Sections /\ s # "field"
    BY <1>2 DEF SyncSoFar, HomeIn, Sections
  <2> QED BY <1>0, <2>1, OthersHold
<1> QED BY <1>1, <1>2 DEF HomeIn

LEMMA MayWrite ==
  ASSUME NEW n, SyncSoFar(n, pc, kept, mem, disk), NEW s \in Sections, pc = s
  PROVE  (IF s = "fs" THEN FitsIn(Len(mem.fs), n) ELSE Roomy(n)) /\ ~ kept
BY DEF SyncSoFar, Sections

LEMMA WriteSectionStep ==
  ASSUME NEW n \in Nat, PersistBody(n), NEW s \in Sections, WriteSection(s)
  PROVE  PersistBody(n)'
<1>1. /\ DiskOf(n) /\ SectionsOK(mem) /\ SectionsOK(saved) /\ Described(n, sb, saved, torn, disk)
      /\ SyncSoFar(n, pc, kept, mem, disk) /\ pc = s /\ Writing(s, LbasOf(s))
      /\ pc' = After(s) /\ kept' = (s = "audit") /\ UNCHANGED <<sb, mem, saved>>
  BY DEF PersistBody, WriteSection
<1>2. (IF s = "fs" THEN FitsIn(Len(mem.fs), n) ELSE Roomy(n)) /\ ~ kept
  BY <1>1, MayWrite
<1>3. /\ DiskOf(n)' /\ OnlyIn(s, n, disk, disk') /\ Described(n, sb, saved, torn', disk')
      /\ Holds(disk', HomeIn(s, n), mem[s])
  BY <1>1, <1>2, WritingStep
<1>4. audit_disk_fits <=> Roomy(n)
  BY <1>1, LayoutIs
<1>5. SyncSoFar(n, pc', kept', mem, disk')
  <2>1. CASE s = "fs"
    BY <1>1, <1>2, <1>3, <1>4, <2>1 DEF SyncSoFar, After, HomeIn
  <2>2. CASE s = "field"
    <3>1. Holds(disk', 1, mem.fs)
      BY <1>1, <1>3, <2>2, WrittenBefore
    <3> QED BY <1>1, <1>2, <1>3, <2>2, <3>1 DEF SyncSoFar, After, HomeIn
  <2>3. CASE s = "audit"
    <3>1. Holds(disk', 1, mem.fs) /\ Holds(disk', FieldHome(n), mem.field)
      BY <1>1, <1>3, <2>3, WrittenBefore
    <3> QED BY <1>1, <1>2, <1>3, <2>3, <3>1 DEF SyncSoFar, After, HomeIn
  <2> QED BY <2>1, <2>2, <2>3 DEF Sections
<1> QED BY <1>1, <1>3, <1>5 DEF PersistBody

LEMMA WriteFailsStep ==
  ASSUME NEW n \in Nat, PersistBody(n), NEW s \in Sections, WriteFails(s)
  PROVE  PersistBody(n)'
<1>1. /\ DiskOf(n) /\ SectionsOK(mem) /\ SectionsOK(saved) /\ Described(n, sb, saved, torn, disk)
      /\ SyncSoFar(n, pc, kept, mem, disk) /\ pc = s
      /\ pc' = (IF s = "audit" THEN "sb" ELSE "idle") /\ UNCHANGED <<sb, mem, saved, kept>>
  BY DEF PersistBody, WriteFails
<1>2. PICK W \in SUBSET LbasOf(s) : Writing(s, W)
  <2>1. \A W \in Reached(s) : W \in SUBSET LbasOf(s)
    BY DEF Reached
  <2> QED BY <2>1 DEF WriteFails
<1>3. (IF s = "fs" THEN FitsIn(Len(mem.fs), n) ELSE Roomy(n)) /\ ~ kept
  BY <1>1, MayWrite
<1>4. /\ DiskOf(n)' /\ OnlyIn(s, n, disk, disk') /\ Described(n, sb, saved, torn', disk')
  BY <1>1, <1>2, <1>3, WritingStep
<1>5. SyncSoFar(n, pc', kept, mem, disk')
  <2>1. CASE s = "audit"
    <3>1. Holds(disk', 1, mem.fs) /\ Holds(disk', FieldHome(n), mem.field)
      BY <1>1, <1>4, <2>1, WrittenBefore
    <3> QED BY <1>1, <1>3, <2>1, <3>1 DEF SyncSoFar
  <2>2. CASE s # "audit"
    BY <1>1, <2>2 DEF SyncSoFar
  <2> QED BY <2>1, <2>2
<1> QED BY <1>1, <1>4, <1>5 DEF PersistBody

(* The superblock describes what the sync has put on the disk.             *)
LEMMA CommittedStep ==
  ASSUME NEW n \in Nat, PersistBody(n), pc = "sb", Committed, UNCHANGED <<mem, kept>>,
         pc' \in {"off", "idle"}
  PROVE  PersistBody(n)'
<1>1. /\ DiskOf(n) /\ SectionsOK(mem) /\ SyncSoFar(n, "sb", kept, mem, disk)
  BY DEF PersistBody
<1>2. /\ sb' = Superblock /\ disk' = disk /\ torn' = {}
      /\ saved' = [fs |-> mem.fs, field |-> IF audit_disk_fits THEN mem.field ELSE ColdField,
                   audit |-> IF kept THEN mem.audit ELSE ColdAudit]
  BY DEF Committed
<1>3. SectionsOK(saved')
  BY <1>1, <1>2, Contents DEF SectionsOK, Cold
<1>4. (audit_disk_fits <=> Roomy(n)) /\ audit_home_lba = AuditHome(n) /\ field_home_lba = FieldHome(n)
  BY <1>1, LayoutIs
<1>5. FsDescribed(n, sb', saved', torn', disk')
  BY <1>1, <1>2 DEF FsDescribed, SyncSoFar, Superblock
<1>6. FieldDescribed(n, sb', saved', torn', disk')
  BY <1>1, <1>2, <1>4 DEF FieldDescribed, SyncSoFar, Superblock
<1>7. AuditDescribed(n, sb', saved', torn', disk')
  <2>1. CASE kept
    BY <1>1, <1>2, <1>4, <2>1 DEF AuditDescribed, SyncSoFar, Superblock
  <2>2. CASE ~ kept
    BY <1>2, <2>2 DEF AuditDescribed, Superblock
  <2> QED BY <2>1, <2>2
<1>8. Described(n, sb', saved', torn', disk')
  BY <1>2, <1>5, <1>6, <1>7 DEF Described, Superblock
<1>9. SyncSoFar(n, pc', kept', mem', disk')
  BY <1>1 DEF SyncSoFar
<1> QED BY <1>1, <1>2, <1>3, <1>8, <1>9 DEF PersistBody, DiskOf

LEMMA CrashStep ==
  ASSUME NEW n \in Nat, PersistBody(n), Crash
  PROVE  PersistBody(n)'
<1>1. /\ DiskOf(n) /\ SectionsOK(mem) /\ SectionsOK(saved) /\ Described(n, sb, saved, torn, disk)
      /\ SyncSoFar(n, pc, kept, mem, disk) /\ pc' = "off" /\ UNCHANGED <<mem, present, kept>>
  BY DEF PersistBody, Crash
<1>2. SyncSoFar(n, pc', kept', mem', disk')
  BY <1>1 DEF SyncSoFar
<1>3. CASE Unchanged
  BY <1>1, <1>2, <1>3 DEF PersistBody, Unchanged, DiskOf
<1>4. CASE pc = "sb" /\ Committed
  BY <1>1, <1>4, CommittedStep
<1>5. CASE /\ pc \in {"fs", "field", "audit"}
           /\ \E W \in SUBSET LbasOf(pc) : Writing(pc, W)
           /\ UNCHANGED <<sb, saved>>
  <2>1. PICK s \in Sections : s = pc
    BY <1>5 DEF Sections
  <2>2. PICK W \in SUBSET LbasOf(s) : Writing(s, W)
    BY <1>5, <2>1
  <2>3. IF s = "fs" THEN FitsIn(Len(mem.fs), n) ELSE Roomy(n)
    BY <1>1, <2>1, MayWrite
  <2>4. DiskOf(n)' /\ Described(n, sb, saved, torn', disk')
    BY <1>1, <2>2, <2>3, WritingStep
  <2> QED BY <1>1, <1>2, <1>5, <2>4 DEF PersistBody
<1> QED BY <1>3, <1>4, <1>5 DEF Crash

LEMMA BootCrashStep ==
  ASSUME NEW n \in Nat, PersistBody(n), BootCrash
  PROVE  PersistBody(n)'
<1>1. /\ DiskOf(n) /\ SectionsOK(mem) /\ SectionsOK(saved) /\ Described(n, sb, saved, torn, disk)
      /\ SyncSoFar(n, pc, kept, mem, disk) /\ pc = "off"
      /\ UNCHANGED <<sb, mem, pc, kept, saved, torn>>
  BY DEF PersistBody, BootCrash
<1>2. n >= 2 /\ disk \in [1 .. n - 1 -> Sectors] /\ disk' = [disk EXCEPT ![n - 1] = Pattern]
  BY <1>1, LayoutIs DEF DiskOf, BootCrash
<1>3. DiskOf(n)'
  BY <1>2 DEF DiskOf, Pattern, Sectors
<1>4. OnlyIn("last", n, disk, disk')
  BY <1>2 DEF OnlyIn, Zone
<1>5. ASSUME NEW r \in Sections, IF r = "fs" THEN FitsIn(Len(saved.fs), n) ELSE Roomy(n),
             Holds(disk, HomeIn(r, n), saved[r])
      PROVE  Holds(disk', HomeIn(r, n), saved[r])
  <2>1. "last" # r /\ "last" \in Sections \cup {"last"}
    BY DEF Sections
  <2>2. {"last", r} \cap {"field", "audit"} # {} => Roomy(n)
    BY <1>5
  <2> QED BY <1>1, <1>2, <1>4, <1>5, <2>1, <2>2, OthersHold
<1>6. Described(n, sb, saved, torn, disk')
  <2> SUFFICES ASSUME sb.magic = "QDSK1"
               PROVE  /\ FsDescribed(n, sb, saved, torn, disk')
                      /\ FieldDescribed(n, sb, saved, torn, disk')
                      /\ AuditDescribed(n, sb, saved, torn, disk')
    BY <1>1 DEF Described
  <2>1. /\ FsDescribed(n, sb, saved, torn, disk) /\ FieldDescribed(n, sb, saved, torn, disk)
        /\ AuditDescribed(n, sb, saved, torn, disk)
    BY <1>1 DEF Described
  <2>2. {"fs", "field", "audit"} \subseteq Sections
    BY DEF Sections
  <2>3. FsDescribed(n, sb, saved, torn, disk')
    BY <1>5, <2>1, <2>2 DEF FsDescribed, HomeIn
  <2>4. FieldDescribed(n, sb, saved, torn, disk')
    BY <1>5, <2>1, <2>2 DEF FieldDescribed, HomeIn
  <2>5. AuditDescribed(n, sb, saved, torn, disk')
    BY <1>5, <2>1, <2>2 DEF AuditDescribed, HomeIn
  <2> QED BY <2>3, <2>4, <2>5
<1>7. SyncSoFar(n, pc, kept, mem, disk')
  BY <1>1 DEF SyncSoFar
<1> QED BY <1>1, <1>3, <1>6, <1>7 DEF PersistBody

(* What a boot finds where a section should be is as long as the section.  *)
LEMMA StoredIs ==
  ASSUME NEW n \in Nat, DiskOf(n), NEW a \in Int, NEW L \in Nat,
         \A i \in 1 .. L : a + i - 1 \in 1 .. n - 1
  PROVE  /\ Stored(a, L) \in Seq(Sectors) /\ Len(Stored(a, L)) = L
         /\ \A i \in 1 .. L : Stored(a, L)[i] = disk[a + i - 1]
<1>1. Stored(a, L) = [i \in 1 .. L |-> disk[a + i - 1]]
  BY DEF Stored
<1>2. Stored(a, L) \in [1 .. L -> Sectors]
  BY <1>1 DEF DiskOf
<1>3. ASSUME NEW f \in [1 .. L -> Sectors] PROVE f \in Seq(Sectors) /\ Len(f) = L
  OBVIOUS
<1> QED BY <1>1, <1>2, <1>3

LEMMA SectionRange ==
  ASSUME NEW n \in Nat, n >= 2, NEW s \in {"field", "audit"}, Roomy(n)
  PROVE  /\ HomeIn(s, n) \in Int
         /\ \A i \in 1 .. (IF s = "field" THEN FieldLen ELSE AuditLen) :
              HomeIn(s, n) + i - 1 \in 1 .. n - 1
<1>1. /\ AuditTop \in Nat \ {0} /\ Reserve \in Nat \ {0} /\ FieldLen \in Nat /\ AuditLen \in Nat
      /\ AuditLen < AuditTop /\ FieldLen <= Reserve
  BY LayoutAssumption
<1> QED BY <1>1 DEF HomeIn, FieldHome, AuditHome, Roomy

LEMMA RestoredOK ==
  ASSUME NEW n \in Nat, PersistBody(n)
  PROVE  SectionsOK(persist_restore)
<1>1. DiskOf(n) /\ SectionsOK(saved) /\ Described(n, sb, saved, torn, disk) /\ n >= 2
  BY DEF PersistBody, DiskOf
<1>2. CASE sb.magic # "QDSK1"
  BY <1>2, Contents DEF persist_restore
<1>3. CASE sb.magic = "QDSK1"
  <2>1. /\ FsDescribed(n, sb, saved, torn, disk) /\ FieldDescribed(n, sb, saved, torn, disk)
    BY <1>1, <1>3 DEF Described
  <2>2. PICK t \in Nat : t = sb.tar
    BY <1>1, <2>1 DEF FsDescribed, SectionsOK
  <2>s. \A a \in Int, m \in Nat : (\A i \in 1 .. m : a + i - 1 \in 1 .. n - 1)
                                 => Stored(a, m) \in Seq(Sectors) /\ Len(Stored(a, m)) = m
    <3>1. TAKE a \in Int, m \in Nat
    <3>2. HAVE \A i \in 1 .. m : a + i - 1 \in 1 .. n - 1
    <3>3. DiskOf(n)
      BY <1>1
    <3> QED BY <3>2, <3>3, StoredIs
  <2>3. restore_fs_section \in Seq(Sectors) /\ Len(restore_fs_section) >= MinTar
    <3>1. CASE restore_fs_section = NoFiles
      BY <3>1, Contents DEF SectionsOK, Cold
    <3>2. CASE t >= MinTar /\ t <= N - 1 /\ restore_fs_section = Stored(1, t)
      <4>1. \A i \in 1 .. t : 1 + i - 1 \in 1 .. n - 1
        BY <1>1, <3>2, LayoutIs
      <4>2. PICK a \in Int : a = 1 /\ \A i \in 1 .. t : a + i - 1 \in 1 .. n - 1
        BY <4>1
      <4>3. Stored(a, t) \in Seq(Sectors) /\ Len(Stored(a, t)) = t
        BY <2>s, <4>2
      <4> QED BY <3>2, <4>2, <4>3
    <3> QED BY <2>2, <3>1, <3>2 DEF restore_fs_section
  <2>4. restore_field_section \in Seq(Sectors) /\ Len(restore_field_section) = FieldLen
    <3>1. CASE restore_field_section = ColdField
      BY <3>1, Contents DEF SectionsOK, Cold
    <3>2. CASE sb.field_lba # 0 /\ restore_field_section = Stored(sb.field_lba, FieldLen)
      <4>1. Roomy(n) /\ sb.field_lba = HomeIn("field", n)
        BY <2>1, <3>2 DEF FieldDescribed, HomeIn
      <4>2. PICK a \in Int, m \in Nat : /\ a = sb.field_lba /\ m = FieldLen
                                        /\ \A i \in 1 .. m : a + i - 1 \in 1 .. n - 1
        BY <1>1, <4>1, SectionRange, LayoutAssumption
      <4>3. Stored(a, m) \in Seq(Sectors) /\ Len(Stored(a, m)) = m
        BY <2>s, <4>2
      <4> QED BY <3>2, <4>2, <4>3
    <3> QED BY <3>1, <3>2 DEF restore_field_section
  <2>5. restore_audit_section \in Seq(Sectors) /\ Len(restore_audit_section) = AuditLen
    <3>1. CASE restore_audit_section = ColdAudit
      BY <3>1, Contents DEF SectionsOK, Cold
    <3>2. CASE /\ audit_disk_fits /\ sb.audit_lba = audit_home_lba
               /\ restore_audit_section = Stored(sb.audit_lba, AuditLen)
      <4>1. Roomy(n) /\ sb.audit_lba = HomeIn("audit", n)
        BY <1>1, <3>2, LayoutIs DEF HomeIn
      <4>2. PICK a \in Int, m \in Nat : /\ a = sb.audit_lba /\ m = AuditLen
                                        /\ \A i \in 1 .. m : a + i - 1 \in 1 .. n - 1
        BY <1>1, <4>1, SectionRange, LayoutAssumption
      <4>3. Stored(a, m) \in Seq(Sectors) /\ Len(Stored(a, m)) = m
        BY <2>s, <4>2
      <4> QED BY <3>2, <4>2, <4>3
    <3> QED BY <3>1, <3>2 DEF restore_audit_section
  <2> QED BY <1>3, <2>3, <2>4, <2>5 DEF persist_restore, SectionsOK
<1> QED BY <1>2, <1>3

LEMMA BootStep ==
  ASSUME NEW n \in Nat, PersistBody(n), Boot
  PROVE  PersistBody(n)'
<1>1. PICK failed \in SUBSET Sections :
        mem' = [s \in Sections |-> IF s \in failed THEN Cold[s] ELSE persist_restore[s]]
  BY DEF Boot
<1>2. SectionsOK(persist_restore) /\ SectionsOK(Cold)
  BY RestoredOK, Contents
<1>3. SectionsOK(mem')
  <2>1. mem'.fs \in {Cold.fs, persist_restore.fs} /\ mem'.field \in {Cold.field, persist_restore.field}
        /\ mem'.audit \in {Cold.audit, persist_restore.audit}
    BY <1>1 DEF Sections
  <2> QED BY <1>2, <2>1 DEF SectionsOK
<1>4. SyncSoFar(n, pc', kept', mem', disk')
  BY DEF Boot, PersistBody, SyncSoFar
<1> QED BY <1>3, <1>4 DEF Boot, PersistBody, DiskOf

LEMMA ChangeStep ==
  ASSUME NEW n \in Nat, PersistBody(n), Change
  PROVE  PersistBody(n)'
<1>1. PICK fs \in Archives, field \in Fields, audit \in Audits :
        mem' = [fs |-> fs, field |-> field, audit |-> audit]
  BY DEF Change
<1>2. SectionsOK(mem')
  BY <1>1, Contents DEF SectionsOK
<1>3. SyncSoFar(n, pc', kept', mem', disk')
  BY DEF Change, PersistBody, SyncSoFar
<1> QED BY <1>2, <1>3 DEF Change, PersistBody, DiskOf

LEMMA PersistStep ==
  ASSUME PersistInv, [PersistNext]_persistVars
  PROVE  PersistInv'
<1>1. PICK n \in Nat : PersistBody(n)
  BY DEF PersistInv
<1>2. PersistBody(n)'
  <2>1. CASE UNCHANGED persistVars
    BY <1>1, <2>1 DEF persistVars, PersistBody, DiskOf
  <2>2. CASE SyncStarts
    <3>1. DiskOf(n) /\ SectionsOK(mem) /\ Len(mem.fs) \in Nat
      BY <1>1 DEF PersistBody, SectionsOK
    <3>2. FitsIn(Len(mem.fs), n)
      BY <2>2, <3>1, LayoutIs DEF SyncStarts
    <3>3. SyncSoFar(n, pc', kept', mem', disk')
      BY <1>1, <2>2, <3>2 DEF SyncStarts, PersistBody, SyncSoFar
    <3> QED BY <1>1, <2>2, <3>3 DEF SyncStarts, PersistBody, DiskOf
  <2>3. CASE Commit
    BY <1>1, <2>3, CommittedStep DEF Commit
  <2>4. CASE CommitFails
    <3>1. CASE Committed
      BY <1>1, <2>4, <3>1, CommittedStep DEF CommitFails
    <3>2. CASE Unchanged
      <4>1. SyncSoFar(n, pc', kept', mem', disk')
        BY <1>1, <2>4, <3>2 DEF CommitFails, Unchanged, PersistBody, SyncSoFar
      <4> QED BY <1>1, <2>4, <3>2, <4>1 DEF CommitFails, Unchanged, PersistBody, DiskOf
    <3> QED BY <2>4, <3>1, <3>2 DEF CommitFails
  <2>5. CASE \E s \in Sections : WriteSection(s) \/ WriteFails(s)
    BY <1>1, <2>5, WriteSectionStep, WriteFailsStep
  <2> QED
    BY <1>1, <2>1, <2>2, <2>3, <2>4, <2>5, CrashStep, BootCrashStep, BootStep, ChangeStep
    DEF PersistNext
<1> QED BY <1>2 DEF PersistInv

LEMMA PersistInvInit == ASSUME PersistInit PROVE PersistInv
<1>1. PICK n \in DiskSizes, s \in Sectors, last \in Sectors :
        /\ disk = [l \in 1 .. (n - 1) |-> IF l = n - 1 THEN last ELSE s]
        /\ sb = IF s = {} THEN BlankSector ELSE Foreign
  BY DEF PersistInit
<1>2. n \in Nat /\ n >= 2
  BY LayoutAssumption
<1>3. DiskOf(n)
  BY <1>1, <1>2 DEF DiskOf
<1>4. sb.magic # "QDSK1"
  BY <1>1 DEF BlankSector, Foreign
<1>5. Described(n, sb, saved, torn, disk)
  BY <1>4 DEF Described, PersistInit
<1>6. SyncSoFar(n, pc, kept, mem, disk)
  BY DEF PersistInit, SyncSoFar
<1> QED BY <1>2, <1>3, <1>5, <1>6, Contents DEF PersistInit, PersistBody, PersistInv

(* What is on the disk is what comes back.                                 *)
LEMMA StoredHeld ==
  ASSUME NEW n \in Nat, DiskOf(n), NEW a \in Int, NEW blob \in Seq(Sectors), Holds(disk, a, blob)
  PROVE  Stored(a, Len(blob)) = blob
<1>1. PICK L \in Nat : L = Len(blob)
  OBVIOUS
<1>2. Stored(a, L) = [i \in 1 .. L |-> disk[a + i - 1]]
  BY DEF Stored
<1>3. blob = [i \in 1 .. L |-> blob[i]]
  BY <1>1
<1>4. \A i \in 1 .. L : disk[a + i - 1] = blob[i]
  BY <1>1 DEF Holds
<1> QED BY <1>1, <1>2, <1>3, <1>4

LEMMA SavedComesBack == ASSUME PersistInv PROVE SavedIsRestored
<1>1. PICK n \in Nat : PersistBody(n)
  BY DEF PersistInv
<1>2. DiskOf(n) /\ SectionsOK(saved) /\ Described(n, sb, saved, torn, disk) /\ n >= 2
  BY <1>1 DEF PersistBody, DiskOf
<1>3. CASE sb.magic # "QDSK1"
  BY <1>2, <1>3 DEF Described, persist_restore, SavedIsRestored
<1>4. CASE sb.magic = "QDSK1"
  <2>1. /\ FsDescribed(n, sb, saved, torn, disk) /\ FieldDescribed(n, sb, saved, torn, disk)
        /\ AuditDescribed(n, sb, saved, torn, disk)
    BY <1>2, <1>4 DEF Described
  <2>2. /\ (audit_disk_fits <=> Roomy(n)) /\ audit_home_lba = AuditHome(n)
        /\ field_home_lba = FieldHome(n) /\ N = n
    BY <1>2, LayoutIs
  <2>3. /\ AuditTop \in Nat \ {0} /\ Reserve \in Nat \ {0} /\ FieldLen \in Nat /\ AuditLen \in Nat
        /\ MinTar \in Nat
    BY Contents
  <2>4. ASSUME "fs" \notin torn PROVE restore_fs_section = saved.fs
    <3>1. PICK b \in Seq(Sectors) : b = saved.fs /\ Len(b) >= MinTar /\ sb.tar = Len(b)
      BY <1>2, <2>1 DEF SectionsOK, FsDescribed
    <3>2. Holds(disk, 1, b) /\ FitsIn(Len(b), n) /\ sb.csum = archive_checksum(b)
      BY <2>1, <2>4, <3>1 DEF FsDescribed
    <3>3. Stored(1, sb.tar) = b
      BY <1>2, <3>1, <3>2, StoredHeld
    <3>4. sb.tar <= N - 1
      <4>1. PICK t \in Nat : t = Len(b)
        OBVIOUS
      <4> QED BY <1>2, <2>2, <2>3, <3>1, <3>2, <4>1 DEF FitsIn, FieldHome
    <3> QED BY <3>1, <3>2, <3>3, <3>4 DEF restore_fs_section
  <2>5. ASSUME "field" \notin torn PROVE restore_field_section = saved.field
    <3>1. CASE ~ Roomy(n)
      BY <2>1, <3>1 DEF FieldDescribed, restore_field_section
    <3>2. CASE Roomy(n)
      <4>1. /\ Holds(disk, FieldHome(n), saved.field) /\ sb.field_lba = FieldHome(n)
            /\ sb.field_csum = archive_checksum(saved.field)
        BY <2>1, <2>5, <3>2 DEF FieldDescribed
      <4>2. FieldHome(n) \in Int /\ FieldHome(n) # 0
        BY <2>3, <3>2 DEF FieldHome, Roomy
      <4>3. Stored(sb.field_lba, FieldLen) = saved.field
        BY <1>2, <4>1, <4>2, StoredHeld DEF SectionsOK
      <4> QED BY <2>2, <4>1, <4>2, <4>3 DEF restore_field_section
    <3> QED BY <3>1, <3>2
  <2>6. ASSUME "audit" \notin torn PROVE restore_audit_section = saved.audit
    <3>1. CASE sb.audit_lba = 0 /\ saved.audit = ColdAudit
      BY <3>1 DEF restore_audit_section
    <3>2. CASE /\ Roomy(n) /\ sb.audit_lba = AuditHome(n)
               /\ sb.audit_csum = archive_checksum(saved.audit)
               /\ Holds(disk, AuditHome(n), saved.audit)
      <4>1. AuditHome(n) \in Int /\ AuditHome(n) # 0
        BY <2>3, <3>2 DEF AuditHome, Roomy
      <4>2. Stored(sb.audit_lba, AuditLen) = saved.audit
        BY <1>2, <3>2, <4>1, StoredHeld DEF SectionsOK
      <4> QED BY <2>2, <3>2, <4>1, <4>2 DEF restore_audit_section
    <3> QED BY <2>1, <2>6, <3>1, <3>2 DEF AuditDescribed
  <2> QED BY <1>4, <2>4, <2>5, <2>6 DEF SavedIsRestored, Sections, persist_restore
<1> QED BY <1>3, <1>4

(* One sector that differs changes the parity of a bit.                    *)
LEMMA OneDifferenceShows ==
  ASSUME NEW L \in Nat, NEW a \in Seq(Sectors), NEW b \in Seq(Sectors), Len(a) = L, Len(b) = L,
         NEW k \in 1 .. L, a[k] # b[k], \A i \in 1 .. L : i # k => a[i] = b[i]
  PROVE  archive_checksum(a) # archive_checksum(b)
<1>1. DOMAIN a = 1 .. L /\ DOMAIN b = 1 .. L
  OBVIOUS
<1>2. a[k] \subseteq Bits /\ b[k] \subseteq Bits
  BY DEF Sectors
<1>3. PICK x \in Bits : ~ (x \in a[k] <=> x \in b[k])
  BY <1>2
<1>i. IsFiniteSet(1 .. L)
  <2>1. \A m \in Nat : IsFiniteSet(1 .. m)
    BY FS_Interval
  <2> QED BY <2>1
<1> DEFINE P == {i \in 1 .. L : x \in a[i]}
           Q == {i \in 1 .. L : x \in b[i]}
<1>4. IsFiniteSet(P) /\ IsFiniteSet(Q)
  <2>1. P \subseteq 1 .. L /\ Q \subseteq 1 .. L
    OBVIOUS
  <2> HIDE DEF P, Q
  <2> QED BY <1>i, <2>1, FS_Subset
<1>5. \/ k \notin P /\ Q = P \cup {k}
      \/ k \notin Q /\ P = Q \cup {k}
  BY <1>3
<1>6. Cardinality(P) = Cardinality(Q) + 1 \/ Cardinality(Q) = Cardinality(P) + 1
  <2> HIDE DEF P, Q
  <2> QED BY <1>4, <1>5, FS_AddElement
<1>7. PICK p \in Nat, q \in Nat : p = Cardinality(P) /\ q = Cardinality(Q)
  <2> HIDE DEF P, Q
  <2> QED BY <1>4, FS_CardinalityType
<1>8. ~ (Odd(P) <=> Odd(Q))
  <2> HIDE DEF P, Q
  <2>1. (p = q + 1 \/ q = p + 1) => ~ (p % 2 = 1 <=> q % 2 = 1)
    OBVIOUS
  <2> QED BY <1>6, <1>7, <2>1 DEF Odd
<1>9. (x \in archive_checksum(a) <=> Odd(P)) /\ (x \in archive_checksum(b) <=> Odd(Q))
  BY <1>1 DEF archive_checksum
<1> QED BY <1>8, <1>9

(* ... so a section with one torn sector does not pass for the saved one.  *)
LEMMA TearShows ==
  ASSUME NEW n \in Nat, DiskOf(n), NEW s \in Sections, HomeOf(s) \in Int, saved[s] \in Seq(Sectors),
         NEW L \in Nat, Len(saved[s]) = L,
         \A i \in 1 .. L : HomeOf(s) + i - 1 \in 1 .. n - 1,
         Cardinality(Differences(s)) = 1
  PROVE  archive_checksum(Stored(HomeOf(s), L)) # archive_checksum(saved[s])
<1>1. PICK h \in Int : h = HomeOf(s)
  OBVIOUS
<1>2. PICK v \in Seq(Sectors) : v = saved[s] /\ DOMAIN v = 1 .. L
  OBVIOUS
<1>3. Differences(s) = {i \in 1 .. L : disk[h + i - 1] # v[i]}
  BY <1>1, <1>2 DEF Differences
<1>4. PICK k : Differences(s) = {k}
  <2>1. IsFiniteSet(Differences(s))
    <3>1. IsFiniteSet(1 .. L)
      BY FS_Interval
    <3> QED BY <1>3, <3>1, FS_Subset
  <2> QED BY <2>1, FS_Singleton
<1>5. k \in 1 .. L /\ disk[h + k - 1] # v[k] /\ \A i \in 1 .. L : i # k => disk[h + i - 1] = v[i]
  BY <1>3, <1>4
<1>6. PICK w \in Seq(Sectors) : /\ w = Stored(h, L) /\ Len(w) = L
                                /\ \A i \in 1 .. L : w[i] = disk[h + i - 1]
  BY <1>1, StoredIs
<1>7. w[k] # v[k] /\ \A i \in 1 .. L : i # k => w[i] = v[i]
  BY <1>5, <1>6
<1>8. Len(v) = L
  BY <1>2
<1>9. archive_checksum(w) # archive_checksum(v)
  BY <1>5, <1>6, <1>7, <1>8, OneDifferenceShows
<1> QED BY <1>1, <1>2, <1>6, <1>9

LEMMA TornStartsCold == ASSUME PersistInv PROVE OneSectorTearDetected
<1>1. PICK n \in Nat : PersistBody(n)
  BY DEF PersistInv
<1>2. DiskOf(n) /\ SectionsOK(saved) /\ Described(n, sb, saved, torn, disk) /\ n >= 2
  BY <1>1 DEF PersistBody, DiskOf
<1> SUFFICES ASSUME sb.magic = "QDSK1", NEW s \in Sections, Cardinality(Differences(s)) = 1
             PROVE  persist_restore[s] = Cold[s]
  BY DEF OneSectorTearDetected
<1>3. /\ FsDescribed(n, sb, saved, torn, disk) /\ FieldDescribed(n, sb, saved, torn, disk)
      /\ AuditDescribed(n, sb, saved, torn, disk)
  BY <1>2 DEF Described
<1>4. /\ audit_home_lba = AuditHome(n) /\ field_home_lba = FieldHome(n)
      /\ \A r \in Sections : HomeOf(r) = HomeIn(r, n)
  BY <1>2, LayoutIs
<1>5. CASE s = "fs"
  <2>1. PICK L \in Nat : L = Len(saved.fs)
    BY <1>2 DEF SectionsOK
  <2>2. sb.tar = L /\ sb.csum = archive_checksum(saved.fs) /\ FitsIn(L, n)
    BY <1>3, <2>1 DEF FsDescribed
  <2>3. HomeOf("fs") = 1
    BY DEF HomeOf
  <2>4. \A i \in 1 .. L : 1 + i - 1 \in 1 .. n - 1
    <3>1. L <= n - 1
      BY <1>2, <2>2, Contents DEF FitsIn, FieldHome
    <3> QED BY <3>1
  <2>5. archive_checksum(Stored(1, L)) # archive_checksum(saved.fs)
    <3>1. saved["fs"] \in Seq(Sectors) /\ Len(saved["fs"]) = L /\ "fs" \in Sections
      BY <1>2, <2>1 DEF SectionsOK, Sections
    <3>2. Cardinality(Differences("fs")) = 1
      BY <1>5
    <3>3. archive_checksum(Stored(HomeOf("fs"), L)) # archive_checksum(saved["fs"])
      BY <1>2, <2>3, <2>4, <3>1, <3>2, TearShows
    <3> QED BY <2>3, <3>3
  <2>6. restore_fs_section = NoFiles
    BY <2>2, <2>5 DEF restore_fs_section
  <2> QED BY <1>5, <2>6 DEF persist_restore, Cold
<1>6. CASE s = "field"
  <2>1. CASE ~ Roomy(n)
    <3>1. restore_field_section = ColdField
      BY <1>3, <2>1 DEF FieldDescribed, restore_field_section
    <3> QED BY <1>6, <3>1 DEF persist_restore, Cold
  <2>2. CASE Roomy(n)
    <3>1. PICK h \in Int : h = FieldHome(n) /\ \A i \in 1 .. FieldLen : h + i - 1 \in 1 .. n - 1
      <4>1. "field" \in {"field", "audit"} /\ HomeIn("field", n) = FieldHome(n)
        BY DEF HomeIn
      <4> QED BY <1>2, <2>2, <4>1, SectionRange
    <3>2. HomeOf("field") = h
      BY <1>4, <3>1 DEF HomeIn, Sections
    <3>3. saved["field"] \in Seq(Sectors) /\ Len(saved["field"]) = FieldLen /\ "field" \in Sections
      BY <1>2 DEF SectionsOK, Sections
    <3>4. Cardinality(Differences("field")) = 1 /\ FieldLen \in Nat
      BY <1>6, Contents
    <3>5. archive_checksum(Stored(HomeOf("field"), FieldLen)) # archive_checksum(saved["field"])
      BY <1>2, <3>1, <3>2, <3>3, <3>4, TearShows
    <3>6. sb.field_lba = h /\ sb.field_csum = archive_checksum(saved.field)
      BY <1>3, <2>2, <3>1 DEF FieldDescribed
    <3>7. restore_field_section = ColdField
      BY <3>2, <3>5, <3>6 DEF restore_field_section
    <3> QED BY <1>6, <3>7 DEF persist_restore, Cold
  <2> QED BY <2>1, <2>2
<1>7. CASE s = "audit"
  <2>1. CASE sb.audit_lba = 0
    <3>1. restore_audit_section = ColdAudit
      BY <2>1 DEF restore_audit_section
    <3> QED BY <1>7, <3>1 DEF persist_restore, Cold
  <2>2. CASE sb.audit_lba # 0
    <3>0. /\ Roomy(n) /\ sb.audit_lba = AuditHome(n)
          /\ sb.audit_csum = archive_checksum(saved.audit)
      BY <1>3, <2>2 DEF AuditDescribed
    <3>1. PICK h \in Int : h = AuditHome(n) /\ \A i \in 1 .. AuditLen : h + i - 1 \in 1 .. n - 1
      <4>1. "audit" \in {"field", "audit"} /\ HomeIn("audit", n) = AuditHome(n)
        BY DEF HomeIn
      <4> QED BY <1>2, <3>0, <4>1, SectionRange
    <3>2. HomeOf("audit") = h
      BY <1>4, <3>1 DEF HomeIn, Sections
    <3>3. saved["audit"] \in Seq(Sectors) /\ Len(saved["audit"]) = AuditLen /\ "audit" \in Sections
      BY <1>2 DEF SectionsOK, Sections
    <3>4. Cardinality(Differences("audit")) = 1 /\ AuditLen \in Nat
      BY <1>7, Contents
    <3>5. archive_checksum(Stored(HomeOf("audit"), AuditLen)) # archive_checksum(saved["audit"])
      BY <1>2, <3>1, <3>2, <3>3, <3>4, TearShows
    <3>6. sb.audit_lba = h
      BY <3>0, <3>1
    <3>7. restore_audit_section = ColdAudit
      BY <3>0, <3>2, <3>5, <3>6 DEF restore_audit_section
    <3> QED BY <1>7, <3>7 DEF persist_restore, Cold
  <2> QED BY <2>1, <2>2
<1> QED BY <1>5, <1>6, <1>7 DEF Sections

(* SYS_SYNC and the restore at boot (ramfs.c): whatever fails and wherever *)
(* the machine stops, a section comes back as the last completed sync left *)
(* it unless other contents were being written over it, and one torn       *)
(* sector makes it start cold.                                             *)
THEOREM ArchivesAreSound == PersistSpec => []ArchivesSound
<1>1. PersistInit => PersistInv
  BY PersistInvInit
<1>2. PersistInv /\ [PersistNext]_persistVars => PersistInv'
  BY PersistStep
<1>3. PersistInv => ArchivesSound
  BY SavedComesBack, TornStartsCold DEF ArchivesSound
<1> QED BY <1>1, <1>2, <1>3, PTL DEF PersistSpec
-----------------------------------------------------------------------------
(* The open files.                                                         *)
NothingLeftOpen ==
  \A p \in Pids, d \in Fds : state[p] = "UNUSED" => ~ fds[p][d].used

IInv == TypeOK /\ OneFilePerName /\ OpenFilesStay /\ NothingLeftOpen

USE PidsAssumption, IndexAssumption, NamesAssumption, FileMaxAssumption
-----------------------------------------------------------------------------
(* What install_fd() leaves in the table: one descriptor, which was free,  *)
(* is opened and the others stay.                                          *)
LEMMA Installed ==
  ASSUME TypeOK,
         NEW p \in Pids, NEW data \in Blocks \cup {NULL, Rom}, NEW size \in 0 .. FileMax,
         NEW writable \in BOOLEAN, NEW idx \in Slots \cup {NONE}, NEW n \in Names,
         install_fd(p, data, size, writable, idx, n)
  PROVE  /\ fds' \in [Pids -> [Fds -> Descriptors]]
         /\ \A q \in Pids, e \in Fds : fds'[q][e].offset <= fds'[q][e].size
         /\ \E d \in Fds :
              /\ fds'[p][d].used /\ fds'[p][d].data = data
              /\ fds'[p][d].ram_idx = idx /\ fds'[p][d].name = n
              /\ \A q \in Pids, e \in Fds : q # p \/ e # d => fds'[q][e] = fds[q][e]
  <1> DEFINE new == [used |-> TRUE, data |-> data, size |-> size, offset |-> 0,
                     writable |-> writable, ram_idx |-> idx, name |-> n]
  <1>1. PICK d \in Fds : fds' = [fds EXCEPT ![p][d] = new]
    BY DEF install_fd, FreeFds
  <1>2. new \in Descriptors /\ new.offset <= new.size
    BY DEF Descriptors
  <1>3. /\ new.used /\ new.data = data /\ new.ram_idx = idx /\ new.name = n
    OBVIOUS
  <1> HIDE DEF new
  <1>4. fds \in [Pids -> [Fds -> Descriptors]]
    BY DEF TypeOK
  <1>5. fds' \in [Pids -> [Fds -> Descriptors]]
    BY <1>1, <1>2, <1>4
  <1>6. /\ fds'[p][d] = new
        /\ \A q \in Pids, e \in Fds : q # p \/ e # d => fds'[q][e] = fds[q][e]
    BY <1>1, <1>4
  <1>7. \A q \in Pids, e \in Fds : fds'[q][e].offset <= fds'[q][e].size
    BY <1>2, <1>6 DEF TypeOK
  <1> QED BY <1>3, <1>5, <1>6, <1>7

(* How many bytes an append takes.                                         *)
LEMMA AppendFits ==
  ASSUME NEW size \in 0 .. FileMax, NEW len \in Lengths
  PROVE  size + Appended(size, len) \in 0 .. FileMax
  BY DEF Appended, Lengths

File == [used : BOOLEAN, name : Names \cup {NULL}, data : Blocks \cup {NULL},
         size : 0 .. FileMax]

(* No process, no open file and an empty overlay satisfy the invariant ... *)
LEMMA InitIInv == Init => IInv
  <1> SUFFICES ASSUME Init PROVE IInv
    OBVIOUS
  <1>1. ClosedFd \in Descriptors /\ ClosedFd.offset <= ClosedFd.size /\ ~ ClosedFd.used
    BY DEF ClosedFd, Descriptors
  <1>2. NoFile \in File /\ ~ NoFile.used
    BY DEF NoFile, File
  <1>3. TypeOK
    BY <1>1, <1>2 DEF Init, TypeOK, File
  <1>4. OneFilePerName
    BY <1>2 DEF Init, OneFilePerName
  <1>5. OpenFilesStay /\ NothingLeftOpen
    BY <1>1 DEF Init, OpenFilesStay, NothingLeftOpen
  <1> QED BY <1>3, <1>4, <1>5 DEF IInv

(* A call that opens a file of the overlay leaves the files but for their  *)
(* sizes, and installs a descriptor for one of them.                       *)
LEMMA OpenKeeps ==
  ASSUME IInv, NEW p \in Pids, NEW n \in Names, NEW i \in Slots, NEW data, NEW size \in 0 .. FileMax,
         NEW writable \in BOOLEAN,
         install_fd(p, data, size, writable, i, n),
         state[p] = "LIVE", UNCHANGED state,
         files' \in [Slots -> File],
         files'[i].used, files'[i].name = n, files'[i].data = data, data \in Blocks \cup {NULL},
         OneFilePerName',
         \A j \in Slots : files[j].used =>
           files'[j].used /\ files'[j].name = files[j].name /\ files'[j].data = files[j].data
  PROVE  IInv'
  <1>1. /\ fds' \in [Pids -> [Fds -> Descriptors]]
        /\ \A q \in Pids, e \in Fds : fds'[q][e].offset <= fds'[q][e].size
        /\ \E d \in Fds :
              /\ fds'[p][d].used /\ fds'[p][d].data = data
              /\ fds'[p][d].ram_idx = i /\ fds'[p][d].name = n
              /\ \A q \in Pids, e \in Fds : q # p \/ e # d => fds'[q][e] = fds[q][e]
    BY Installed DEF IInv
  <1>2. PICK d \in Fds :
              /\ fds'[p][d].used /\ fds'[p][d].data = data
              /\ fds'[p][d].ram_idx = i /\ fds'[p][d].name = n
              /\ \A q \in Pids, e \in Fds : q # p \/ e # d => fds'[q][e] = fds[q][e]
    BY <1>1
  <1>3. TypeOK'
    BY <1>1 DEF IInv, TypeOK, File
  <1>4. OpenFilesStay'
    <2> SUFFICES ASSUME NEW q \in Pids, NEW e \in Fds, state[q] = "LIVE", fds'[q][e].used,
                        fds'[q][e].ram_idx # NONE
                 PROVE  /\ files'[fds'[q][e].ram_idx].used
                        /\ files'[fds'[q][e].ram_idx].data = fds'[q][e].data
                        /\ files'[fds'[q][e].ram_idx].name = fds'[q][e].name
      BY DEF OpenFilesStay
    <2>1. CASE q = p /\ e = d
      BY <1>2, <2>1
    <2>2. CASE q # p \/ e # d
      <3>1. fds'[q][e] = fds[q][e]
        BY <1>2, <2>2
      <3>2. fds[q][e].ram_idx \in Slots
        BY <3>1 DEF IInv, TypeOK, Descriptors
      <3>3. /\ files[fds[q][e].ram_idx].used
            /\ files[fds[q][e].ram_idx].data = fds[q][e].data
            /\ files[fds[q][e].ram_idx].name = fds[q][e].name
        BY <3>1 DEF IInv, OpenFilesStay
      <3> QED BY <3>1, <3>2, <3>3
    <2> QED BY <2>1, <2>2
  <1>5. NothingLeftOpen'
    BY <1>2 DEF IInv, NothingLeftOpen
  <1> QED BY <1>3, <1>4, <1>5 DEF IInv

(* So does one that opens a file of the initrd.                            *)
LEMMA RomKeeps ==
  ASSUME IInv, NEW p \in Pids, NEW n \in Names,
         install_fd(p, Rom, FileMax, FALSE, NONE, n),
         state[p] = "LIVE", UNCHANGED state, UNCHANGED files
  PROVE  IInv'
  <1> DEFINE new == [used |-> TRUE, data |-> Rom, size |-> FileMax, offset |-> 0,
                     writable |-> FALSE, ram_idx |-> NONE, name |-> n]
  <1>1. PICK d \in Fds : fds' = [fds EXCEPT ![p][d] = new]
    BY DEF install_fd, FreeFds
  <1>2. new \in Descriptors /\ new.offset <= new.size /\ new.ram_idx = NONE
    BY DEF Descriptors
  <1> HIDE DEF new
  <1>3. fds \in [Pids -> [Fds -> Descriptors]]
    BY DEF IInv, TypeOK
  <1>4. /\ fds' \in [Pids -> [Fds -> Descriptors]]
        /\ fds'[p][d] = new
        /\ \A q \in Pids, e \in Fds : q # p \/ e # d => fds'[q][e] = fds[q][e]
    BY <1>1, <1>2, <1>3
  <1>5. TypeOK' /\ OneFilePerName'
    BY <1>2, <1>4 DEF IInv, TypeOK, OneFilePerName
  <1>6. OpenFilesStay' /\ NothingLeftOpen'
    BY <1>2, <1>4 DEF IInv, OpenFilesStay, NothingLeftOpen
  <1> QED BY <1>5, <1>6 DEF IInv

(* ... and every call and every death preserves it.                        *)
LEMMA NextIInv == IInv /\ [Next]_vars => IInv'
  <1> SUFFICES ASSUME IInv, [Next]_vars PROVE IInv'
    OBVIOUS
  <1> USE DEF IInv
  <1>0. files \in [Slots -> File] /\ fds \in [Pids -> [Fds -> Descriptors]]
        /\ state \in [Pids -> {"UNUSED", "LIVE", "TERMINATED"}]
    BY DEF TypeOK, File
  <1>closed. ClosedFd \in Descriptors /\ ClosedFd.offset <= ClosedFd.size /\ ~ ClosedFd.used
    BY DEF ClosedFd, Descriptors
  <1>1. ASSUME NEW p \in Pids, Create(p) PROVE IInv'
    <2>1. /\ \A d \in Fds : fds'[p][d] = ClosedFd
          /\ \A q \in Pids \ {p} : fds'[q] = fds[q] /\ state'[q] = state[q]
          /\ fds' \in [Pids -> [Fds -> Descriptors]]
      BY <1>1, <1>0, <1>closed DEF Create
    <2>2. TypeOK' /\ OneFilePerName'
      BY <1>1, <2>1, <1>closed DEF Create, TypeOK, OneFilePerName
    <2>3. NothingLeftOpen' /\ OpenFilesStay'
      BY <1>1, <2>1, <1>closed DEF Create, NothingLeftOpen, OpenFilesStay
    <2> QED BY <2>2, <2>3
  <1>2. ASSUME NEW p \in Pids, Exit(p) PROVE IInv'
    <2>1. TypeOK' /\ OneFilePerName'
      BY <1>2 DEF Exit, TypeOK, OneFilePerName
    <2>2. NothingLeftOpen'
      BY <1>2, <1>0 DEF Exit, NothingLeftOpen
    <2>3. OpenFilesStay'
      BY <1>2, <1>0 DEF Exit, OpenFilesStay
    <2> QED BY <2>1, <2>2, <2>3
  <1>3. ASSUME NEW p \in Pids, Destroy(p) PROVE IInv'
    <2>1. /\ \A d \in Fds : fds'[p][d] = ClosedFd
          /\ \A q \in Pids \ {p} : fds'[q] = fds[q] /\ state'[q] = state[q]
          /\ fds' \in [Pids -> [Fds -> Descriptors]]
      BY <1>3, <1>0, <1>closed DEF Destroy
    <2>2. TypeOK' /\ OneFilePerName'
      BY <1>3, <2>1, <1>closed DEF Destroy, TypeOK, OneFilePerName
    <2>3. NothingLeftOpen' /\ OpenFilesStay'
      BY <1>3, <2>1, <1>closed DEF Destroy, NothingLeftOpen, OpenFilesStay
    <2> QED BY <2>2, <2>3
  <1>4. ASSUME NEW p \in Pids, NEW n \in Names, OpenAppend(p, n) PROVE IInv'
    <2>1. PICK i \in Found(n) : install_fd(p, files[i].data, files[i].size, TRUE, i, n)
      BY <1>4 DEF OpenAppend
    <2>2. i \in Slots /\ files[i].used /\ files[i].name = n
      BY DEF Found
    <2>3. files[i].size \in 0 .. FileMax /\ files[i].data \in Blocks \cup {NULL}
      BY <1>0, <2>2 DEF File
    <2>4. files' = files /\ UNCHANGED state /\ state[p] = "LIVE"
      BY <1>4 DEF OpenAppend
    <2>5. OneFilePerName'
      BY <2>4 DEF OneFilePerName
    <2> QED BY <1>0, <2>1, <2>2, <2>3, <2>4, <2>5, OpenKeeps
  <1>5. ASSUME NEW p \in Pids, NEW n \in Names, OpenTruncate(p, n) PROVE IInv'
    <2>1. PICK i \in Found(n) : /\ files' = [files EXCEPT ![i].size = 0]
                                /\ install_fd(p, files[i].data, 0, TRUE, i, n)
      BY <1>5 DEF OpenTruncate
    <2>2. i \in Slots /\ files[i].used /\ files[i].name = n
      BY DEF Found
    <2>3. files[i].data \in Blocks \cup {NULL} /\ 0 \in 0 .. FileMax
      BY <1>0, <2>2 DEF File
    <2>4. UNCHANGED state /\ state[p] = "LIVE"
      BY <1>5 DEF OpenTruncate
    <2>5. /\ files' \in [Slots -> File]
          /\ \A j \in Slots : /\ files'[j].used = files[j].used
                              /\ files'[j].name = files[j].name /\ files'[j].data = files[j].data
      BY <1>0, <2>1, <2>2, <2>3 DEF File
    <2>6. OneFilePerName'
      BY <1>0, <2>5 DEF OneFilePerName, File
    <2> QED BY <2>1, <2>2, <2>3, <2>4, <2>5, <2>6, OpenKeeps
  <1>6. ASSUME NEW p \in Pids, NEW n \in Names, OpenCreate(p, n) PROVE IInv'
    <2>1. PICK i \in FreeFiles, b \in FreeBlocks :
            /\ files' = [files EXCEPT ![i] = [used |-> TRUE, name |-> n, data |-> b, size |-> 0]]
            /\ install_fd(p, b, 0, TRUE, i, n)
      BY <1>6 DEF OpenCreate
    <2>2. /\ i \in Slots /\ ~ files[i].used
          /\ b \in Blocks /\ \A j \in Slots : files[j].data # b
      BY DEF FreeFiles, FreeBlocks
    <2>3. \A j \in Slots : files[j].used => files[j].name # n
      BY <1>6 DEF OpenCreate, Missing, Found
    <2>4. UNCHANGED state /\ state[p] = "LIVE"
      BY <1>6 DEF OpenCreate
    <2>5. /\ files' \in [Slots -> File]
          /\ files'[i].used /\ files'[i].name = n /\ files'[i].data = b
          /\ \A j \in Slots \ {i} : files'[j] = files[j]
      BY <1>0, <2>1, <2>2 DEF File
    <2>6. OneFilePerName'
      BY <1>0, <2>2, <2>3, <2>5 DEF OneFilePerName, File
    <2>7. \A j \in Slots : files[j].used =>
            files'[j].used /\ files'[j].name = files[j].name /\ files'[j].data = files[j].data
      BY <2>2, <2>5
    <2>8. 0 \in 0 .. FileMax /\ b \in Blocks \cup {NULL}
      BY <2>2
    <2> QED BY <2>1, <2>2, <2>4, <2>5, <2>6, <2>7, <2>8, OpenKeeps
  <1>7. ASSUME NEW p \in Pids, NEW n \in Names, OpenRead(p, n) PROVE IInv'
    <2>1. files' = files /\ UNCHANGED state /\ state[p] = "LIVE"
      BY <1>7 DEF OpenRead
    <2>2. OneFilePerName'
      BY <2>1 DEF OneFilePerName
    <2>3. ASSUME NEW i \in Found(n), install_fd(p, files[i].data, files[i].size, FALSE, i, n)
          PROVE  IInv'
      <3>1. i \in Slots /\ files[i].used /\ files[i].name = n
        BY DEF Found
      <3>2. files[i].size \in 0 .. FileMax /\ files[i].data \in Blocks \cup {NULL}
        BY <1>0, <3>1 DEF File
      <3> QED BY <1>0, <2>1, <2>2, <2>3, <3>1, <3>2, OpenKeeps
    <2>4. ASSUME install_fd(p, Rom, FileMax, FALSE, NONE, n) PROVE IInv'
      <3> QED BY <2>1, <2>2, <2>4, RomKeeps
    <2> QED BY <1>7, <2>3, <2>4 DEF OpenRead
  <1>8. ASSUME NEW p \in Pids, NEW d \in Fds, NEW len \in Lengths, Write(p, d, len) PROVE IInv'
    <2> DEFINE i == fds[p][d].ram_idx
    <2>1. /\ i \in Slots
          /\ files' = [files EXCEPT ![i].size = @ + Appended(@, len)]
          /\ UNCHANGED <<state, fds>>
      BY <1>8 DEF Write
    <2>2. files[i].size + Appended(files[i].size, len) \in 0 .. FileMax
      BY <1>0, <2>1, AppendFits DEF File
    <2> HIDE DEF i
    <2>3. /\ files' \in [Slots -> File]
          /\ \A j \in Slots : /\ files'[j].used = files[j].used
                              /\ files'[j].name = files[j].name /\ files'[j].data = files[j].data
      BY <1>0, <2>1, <2>2 DEF File
    <2>4. TypeOK' /\ OneFilePerName' /\ NothingLeftOpen'
      BY <2>1, <2>3 DEF TypeOK, OneFilePerName, NothingLeftOpen, File
    <2>5. OpenFilesStay'
      BY <2>1, <2>3, <1>0 DEF OpenFilesStay, Descriptors
    <2> QED BY <2>4, <2>5
  <1>9. ASSUME NEW p \in Pids, NEW d \in Fds, NEW len \in Lengths, Read(p, d, len) PROVE IInv'
    <2> DEFINE remaining == fds[p][d].size - fds[p][d].offset
               new == [fds[p][d] EXCEPT !.offset = @ + (IF len > remaining THEN remaining ELSE len)]
    <2>1. /\ fds' = [fds EXCEPT ![p][d] = new]
          /\ UNCHANGED <<state, files>>
      BY <1>9, <1>0 DEF Read
    <2>2. fds[p][d] \in Descriptors /\ fds[p][d].offset <= fds[p][d].size
      BY <1>0 DEF TypeOK
    <2>3. /\ new \in Descriptors /\ new.offset <= new.size
          /\ new.used = fds[p][d].used /\ new.data = fds[p][d].data
          /\ new.ram_idx = fds[p][d].ram_idx /\ new.name = fds[p][d].name
      BY <2>2 DEF Descriptors, Lengths
    <2> HIDE DEF new
    <2>4. /\ fds' \in [Pids -> [Fds -> Descriptors]]
          /\ fds'[p][d] = new
          /\ \A q \in Pids, e \in Fds : q # p \/ e # d => fds'[q][e] = fds[q][e]
      BY <1>0, <2>1, <2>3
    <2>5. TypeOK' /\ OneFilePerName'
      BY <2>1, <2>3, <2>4 DEF TypeOK, OneFilePerName
    <2>6. OpenFilesStay' /\ NothingLeftOpen'
      BY <2>1, <2>3, <2>4 DEF OpenFilesStay, NothingLeftOpen
    <2> QED BY <2>5, <2>6
  <1>10. ASSUME NEW p \in Pids, NEW d \in Fds, Close(p, d) PROVE IInv'
    <2>1. /\ fds' \in [Pids -> [Fds -> Descriptors]]
          /\ fds'[p][d] = ClosedFd
          /\ \A q \in Pids, e \in Fds : q # p \/ e # d => fds'[q][e] = fds[q][e]
          /\ UNCHANGED <<state, files>>
      BY <1>0, <1>10, <1>closed DEF Close
    <2>2. TypeOK' /\ OneFilePerName'
      BY <2>1, <1>closed DEF TypeOK, OneFilePerName
    <2>3. OpenFilesStay' /\ NothingLeftOpen'
      BY <2>1, <1>closed DEF OpenFilesStay, NothingLeftOpen
    <2> QED BY <2>2, <2>3
  <1>11. ASSUME NEW p \in Pids, NEW n \in Names, Unlink(p, n) PROVE IInv'
    <2>1. PICK i \in Slots : /\ ~ process_any_fd_references(files[i].data)
                             /\ files' = [files EXCEPT ![i] = NoFile]
      BY <1>11 DEF Unlink, Found
    <2>2. NoFile \in File /\ ~ NoFile.used
      BY DEF NoFile, File
    <2>3. UNCHANGED <<state, fds>>
      BY <1>11 DEF Unlink
    <2>4. /\ files' \in [Slots -> File]
          /\ ~ files'[i].used
          /\ \A j \in Slots \ {i} : files'[j] = files[j]
      BY <1>0, <2>1, <2>2
    <2>5. TypeOK' /\ OneFilePerName' /\ NothingLeftOpen'
      BY <2>3, <2>4 DEF TypeOK, OneFilePerName, NothingLeftOpen, File
    <2>6. OpenFilesStay'
      <3> SUFFICES ASSUME NEW q \in Pids, NEW e \in Fds, state[q] = "LIVE", fds[q][e].used,
                          fds[q][e].ram_idx # NONE
                   PROVE  /\ files'[fds[q][e].ram_idx].used
                          /\ files'[fds[q][e].ram_idx].data = fds[q][e].data
                          /\ files'[fds[q][e].ram_idx].name = fds[q][e].name
        BY <2>3 DEF OpenFilesStay
      <3>1. fds[q][e].ram_idx \in Slots
        BY <1>0 DEF Descriptors
      <3>2. files[fds[q][e].ram_idx].data = fds[q][e].data
        BY DEF OpenFilesStay
      <3>3. fds[q][e].ram_idx # i
        BY <2>1, <3>2 DEF process_any_fd_references
      <3>4. files'[fds[q][e].ram_idx] = files[fds[q][e].ram_idx]
        BY <2>4, <3>1, <3>3
      <3> QED BY <3>4 DEF OpenFilesStay
    <2> QED BY <2>5, <2>6
  <1>12. CASE UNCHANGED vars
    BY <1>12 DEF vars, TypeOK, OneFilePerName, OpenFilesStay, NothingLeftOpen
  <1> QED BY <1>1, <1>2, <1>3, <1>4, <1>5, <1>6, <1>7, <1>8, <1>9, <1>10, <1>11, <1>12 DEF Next

(* So it holds in every reachable state.                                   *)
LEMMA Inductive == Spec => []IInv
  BY InitIInv, NextIInv, PTL DEF Spec
-----------------------------------------------------------------------------
(* Sizes and read positions stay within the block that kmalloc() returned, *)
(* so no copy of sys_read() or ramfs_append() leaves it.                    *)
THEOREM TypeCorrect == Spec => []TypeOK
  BY Inductive, PTL DEF IInv

(* find_by_name() and kmalloc() keep paths and blocks apart.               *)
THEOREM PathsAreUnique == Spec => []OneFilePerName
  BY Inductive, PTL DEF IInv

(* The refusal of sys_unlink() is enough: no open file of a live process   *)
(* dangles or is exchanged for another.                                    *)
THEOREM OpenFilesAreSafe == Spec => []OpenFilesStay
  BY Inductive, PTL DEF IInv
(* Together, for every number of processes, files and blocks: a path leads *)
(* to one file, and a descriptor to the file its path led to.              *)
THEOREM FilesAreSound == Spec => []FilesSound
  BY PathsAreUnique, OpenFilesAreSafe, PTL DEF FilesSound
-----------------------------------------------------------------------------
(* The authority ledger.                                                   *)

(* Less than a turn of the ring apart, records have slots of their own;    *)
(* a turn apart they share one.                                            *)
LEMMA TurnOfTheRing ==
  ASSUME NEW W \in Nat \ {0}, NEW a \in Int, NEW b \in Int
  PROVE  /\ a < b /\ b - a < W => a % W # b % W
         /\ (a - W) % W = a % W
<1>1. PICK p \in Int, r \in 0 .. W - 1 : a = p * W + r /\ r = a % W
  BY Quotient
<1>2. PICK q \in Int, s \in 0 .. W - 1 : b = q * W + s /\ s = b % W
  BY Quotient
<1>3. ASSUME a < b, b - a < W, r = s PROVE FALSE
  <2>1. (q - p) * W = q * W - p * W
    OBVIOUS
  <2>2. PICK d \in Int : d = q - p
    OBVIOUS
  <2>3. d * W > 0 /\ d * W < W
    BY <1>1, <1>2, <1>3, <2>1, <2>2
  <2>4. CASE d >= 1
    <3>1. d * W >= W
      BY <2>4
    <3> QED BY <2>3, <3>1
  <2>5. CASE d <= 0
    <3>1. d * W <= 0
      BY <2>5
    <3> QED BY <2>3, <3>1
  <2> QED BY <2>4, <2>5
<1>4. (a - W) % W = r
  <2>1. (p - 1) * W = p * W - W
    OBVIOUS
  <2>2. PICK d \in Int : d = p - 1
    OBVIOUS
  <2>3. a - W = d * W + r
    BY <1>1, <2>1, <2>2
  <2> QED BY <2>3, OneResidue
<1> QED BY <1>1, <1>2, <1>3, <1>4

LEMMA RingSlots ==
  /\ AUDIT_LOG_ENTRIES \in Nat /\ AUDIT_LOG_ENTRIES >= 1
  /\ \A q \in Int : Slot(q) \in Slots0
  /\ \A a, b \in Nat : a < b /\ b - a < AUDIT_LOG_ENTRIES => Slot(a) # Slot(b)
  /\ \A a, b \in Int : Slot(Slot(a) + b) = Slot(a + b)
  /\ \A a \in Int : Slot(a - AUDIT_LOG_ENTRIES) = Slot(a)
<1>1. AUDIT_LOG_ENTRIES \in Nat \ {0}
  BY AuditConstants
<1>2. \A q \in Int : Slot(q) \in Slots0
  BY <1>1, Quotient DEF Slot, Slots0
<1>3. \A a, b \in Nat : a < b /\ b - a < AUDIT_LOG_ENTRIES => Slot(a) # Slot(b)
  <2> SUFFICES ASSUME NEW a \in Nat, NEW b \in Nat, a < b /\ b - a < AUDIT_LOG_ENTRIES
               PROVE  Slot(a) # Slot(b)
    OBVIOUS
  <2>1. a \in Int /\ b \in Int
    OBVIOUS
  <2> QED BY <1>1, <2>1, TurnOfTheRing DEF Slot
<1>4. \A a, b \in Int : Slot(Slot(a) + b) = Slot(a + b)
  BY <1>1, ResidueOfSum DEF Slot
<1>5. \A a \in Int : Slot(a - AUDIT_LOG_ENTRIES) = Slot(a)
  BY <1>1, TurnOfTheRing DEF Slot
<1> QED BY <1>1, <1>2, <1>3, <1>4, <1>5

(* The records that are still in a ring after n of them, and what they say *)
(* of the events t: record q stands for t[cut[q] + 1 .. cut[q + 1]].       *)
Recent(n) == {q \in 0 .. n - 1 : q >= n - AUDIT_LOG_ENTRIES}
Records == [seq : Nat, tick : Nat, event : Events \cup {"none"}, count : Nat]
Rings == [Slots0 -> Records]
Tells(r, n, t, cut) ==
  /\ cut \in [Nat -> 0 .. Len(t)]
  /\ cut[n] = Len(t)
  /\ n <= AUDIT_LOG_ENTRIES => cut[0] = 0
  /\ \A q \in Recent(n) :
       /\ cut[q] <= cut[q + 1]
       /\ r[Slot(q)].seq = q /\ r[Slot(q)].count = cut[q + 1] - cut[q]
       /\ \A k \in cut[q] + 1 .. cut[q + 1] : t[k] = r[Slot(q)].event

Sealed ==
  \A i \in Slots0 :
    /\ ring[i].tick <= auditNow
    /\ ring[i].seq < coalesce_floor =>
         ring[i].tick = 0 /\ ring[i] = [stored.ring[i] EXCEPT !.tick = 0]
AuditTypes ==
  /\ ring \in Rings /\ total \in Nat /\ auditNow \in Nat
  /\ coalesce_floor \in Nat /\ coalesce_floor <= total
  /\ stored \in [ring : Rings, total : Nat]
  /\ truth \in Seq(Events) /\ storedTruth \in Seq(Events)
AuditInv ==
  /\ AuditTypes /\ Sealed
  /\ \E cut : Tells(ring, total, truth, cut)
  /\ \E cut : Tells(stored.ring, stored.total, storedTruth, cut)

LEMMA EmptyTells ==
  /\ EmptyRing \in Rings
  /\ <<>> \in Seq(Events)
  /\ \E cut : Tells(EmptyRing, 0, <<>>, cut)
<1>1. EmptyRing \in Rings
  BY DEF EmptyRing, NoEntry, Rings, Records
<1>2. Tells(EmptyRing, 0, <<>>, [q \in Nat |-> 0])
  BY DEF Tells, Recent
<1> QED BY <1>1, <1>2

LEMMA StartsAudit == AuditInit => AuditInv
<1> SUFFICES ASSUME AuditInit PROVE AuditInv
  OBVIOUS
<1>1. \A i \in Slots0 : ring[i].tick = 0 /\ ring[i].seq = 0
  BY DEF AuditInit, EmptyRing, NoEntry
<1>2. AuditTypes
  BY EmptyTells DEF AuditTypes, AuditInit
<1>3. Sealed
  BY <1>1 DEF Sealed, AuditInit
<1>4. stored.ring = EmptyRing /\ stored.total = 0
  BY DEF AuditInit
<1> QED BY <1>2, <1>3, <1>4, EmptyTells DEF AuditInv, AuditInit

(* A record that coalesces: the newest one counts one more.                *)
LEMMA Appended1 ==
  ASSUME NEW S, NEW t \in Seq(S), NEW e \in S
  PROVE  /\ Append(t, e) \in Seq(S) /\ Len(Append(t, e)) = Len(t) + 1 /\ Len(t) \in Nat
         /\ Append(t, e)[Len(t) + 1] = e
         /\ \A k \in 1 .. Len(t) : Append(t, e)[k] = t[k]
OBVIOUS

Moved(c, cut, n, m) == c[n] = m + 1 /\ \A q \in Nat : q # n => c[q] = cut[q]
LEMMA CutMoved ==
  ASSUME NEW m \in Nat, NEW cut \in [Nat -> 0 .. m], NEW n \in Nat
  PROVE  \E c \in [Nat -> 0 .. m + 1] : Moved(c, cut, n, m)
<1>1. PICK b \in Nat : b = m + 1
  OBVIOUS
<1>2. \A q \in Nat : cut[q] \in 0 .. b
  <2> SUFFICES ASSUME NEW q \in Nat PROVE cut[q] \in 0 .. b
    OBVIOUS
  <2>1. PICK x \in 0 .. m : x = cut[q]
    OBVIOUS
  <2> QED BY <1>1, <2>1
<1>3. b \in 0 .. b
  OBVIOUS
<1>4. [cut EXCEPT ![n] = b] \in [Nat -> 0 .. b]
  BY <1>2, <1>3
<1> QED BY <1>1, <1>4 DEF Moved

Counted(r, n, now) ==
  [r EXCEPT ![Slot(n - 1)].count = @ + 1, ![Slot(n - 1)].tick = now]
LEMMA TellsMore ==
  ASSUME NEW r \in Rings, NEW n \in Nat \ {0}, NEW t \in Seq(Events), NEW cut,
         Tells(r, n, t, cut), NEW e \in Events, r[Slot(n - 1)].event = e,
         NEW now \in Nat
  PROVE  \E c : Tells(Counted(r, n, now), n, Append(t, e), c)
<1>0. PICK s : s = Counted(r, n, now)
  OBVIOUS
<1>1. PICK u \in Seq(Events), m \in Nat :
         u = Append(t, e) /\ m = Len(t) /\ Len(u) = m + 1
         /\ u[m + 1] = e /\ \A k \in 1 .. m : u[k] = t[k]
  <2>1. /\ Append(t, e) \in Seq(Events) /\ Len(Append(t, e)) = Len(t) + 1 /\ Len(t) \in Nat
        /\ Append(t, e)[Len(t) + 1] = e
        /\ \A k \in 1 .. Len(t) : Append(t, e)[k] = t[k]
    BY Appended1
  <2> QED BY <2>1
<1>2. cut \in [Nat -> 0 .. m] /\ cut[n] = m
  BY <1>1 DEF Tells
<1>3. PICK c \in [Nat -> 0 .. m + 1] :
         c[n] = m + 1 /\ \A q \in Nat : q # n => c[q] = cut[q]
  <2>1. \E c \in [Nat -> 0 .. m + 1] : Moved(c, cut, n, m)
    BY <1>2, CutMoved
  <2> QED BY <2>1 DEF Moved
<1>4. PICK l \in Int : l = n - 1 /\ l \in Nat /\ l + 1 = n
  OBVIOUS
<1>5. l \in Recent(n)
  BY <1>4, RingSlots DEF Recent
<1>6. /\ s[Slot(l)].seq = r[Slot(l)].seq /\ s[Slot(l)].count = r[Slot(l)].count + 1
      /\ s[Slot(l)].event = e
      /\ \A i \in Slots0 : i # Slot(l) => s[i] = r[i]
  <2>1. Slot(l) \in Slots0
    BY <1>4, RingSlots
  <2>2. r[Slot(l)] \in Records /\ r \in [Slots0 -> Records] /\ r[Slot(l)].event = e
    BY <2>1, <1>4 DEF Rings
  <2>3. s = [r EXCEPT ![Slot(l)].count = @ + 1, ![Slot(l)].tick = now]
    BY <1>0, <1>4 DEF Counted
  <2> QED BY <2>1, <2>2, <2>3 DEF Records
<1>7. ASSUME NEW q \in Recent(n)
      PROVE  /\ c[q] <= c[q + 1]
             /\ s[Slot(q)].seq = q /\ s[Slot(q)].count = c[q + 1] - c[q]
             /\ \A k \in c[q] + 1 .. c[q + 1] : u[k] = s[Slot(q)].event
  <2>1. q \in Nat /\ q + 1 \in Nat /\ q # n /\ c[q] = cut[q] /\ cut[q] \in 0 .. m
    BY <1>2, <1>3 DEF Recent
  <2>2. /\ cut[q] <= cut[q + 1]
        /\ r[Slot(q)].seq = q /\ r[Slot(q)].count = cut[q + 1] - cut[q]
        /\ \A k \in cut[q] + 1 .. cut[q + 1] : t[k] = r[Slot(q)].event
    BY DEF Tells
  <2>5. PICK x \in 0 .. m, y \in 0 .. m, z \in 0 .. m + 1 :
           x = cut[q] /\ y = cut[q + 1] /\ z = c[q + 1] /\ c[q] = x /\ x <= y
    BY <1>2, <1>3, <2>1, <2>2
  <2>3. CASE q = l
    <3>1. c[q + 1] = m + 1 /\ cut[q + 1] = m /\ y = m /\ z = m + 1
      BY <1>2, <1>3, <1>4, <2>3, <2>5
    <3>2. s[Slot(q)].count = c[q + 1] - c[q]
      <4>1. s[Slot(q)].count = (y - x) + 1
        BY <1>6, <2>2, <2>3, <2>5
      <4>2. (y - x) + 1 = z - x
        <5>1. x \in Int /\ m \in Int
          OBVIOUS
        <5>2. (m - x) + 1 = (m + 1) - x
          BY <5>1
        <5> QED BY <3>1, <5>2
      <4> QED BY <2>5, <4>1, <4>2
    <3>3. \A k \in c[q] + 1 .. c[q + 1] : u[k] = s[Slot(q)].event
      <4> SUFFICES ASSUME NEW k \in c[q] + 1 .. c[q + 1] PROVE u[k] = s[Slot(q)].event
        OBVIOUS
      <4>1. k = m + 1 \/ (k \in 1 .. m /\ k \in cut[q] + 1 .. cut[q + 1])
        <5>1. k \in x + 1 .. z
          BY <2>5
        <5>2. k = m + 1 \/ (k \in 1 .. m /\ k \in x + 1 .. y)
          BY <5>1, <3>1
        <5> QED BY <2>5, <5>2
      <4>2. r[Slot(q)].event = e /\ s[Slot(q)].event = e
        BY <1>4, <1>6, <2>3
      <4> QED BY <1>1, <2>2, <4>1, <4>2
    <3>4. s[Slot(q)].seq = q
      BY <1>6, <2>2, <2>3
    <3>5. c[q] <= c[q + 1]
      <4>1. x <= z
        BY <3>1
      <4> QED BY <2>5, <4>1
    <3> QED BY <3>2, <3>3, <3>4, <3>5
  <2>4. CASE q # l
    <3>1. q + 1 # n /\ c[q + 1] = cut[q + 1]
      <4>1. q + 1 # n
        BY <1>4, <2>1, <2>4
      <4> QED BY <1>3, <2>1, <4>1
    <3>2. q < l /\ l - q < AUDIT_LOG_ENTRIES
      BY <1>4, <2>1, <2>4, RingSlots DEF Recent
    <3>3. Slot(q) # Slot(l) /\ Slot(q) \in Slots0
      BY <1>4, <2>1, <3>2, RingSlots
    <3>4. s[Slot(q)] = r[Slot(q)]
      BY <1>6, <3>3
    <3>5. \A k \in cut[q] + 1 .. cut[q + 1] : k \in 1 .. m
      <4>1. \A k \in x + 1 .. y : k \in 1 .. m
        OBVIOUS
      <4> QED BY <2>5, <4>1
    <3> QED BY <1>1, <2>1, <2>2, <3>1, <3>4, <3>5
  <2> QED BY <2>3, <2>4
<1>8. n <= AUDIT_LOG_ENTRIES => c[0] = 0
  BY <1>3 DEF Tells
<1>9. Tells(s, n, u, c)
  BY <1>1, <1>3, <1>7, <1>8 DEF Tells
<1> QED BY <1>0, <1>1, <1>9

(* A record of its own.                                                    *)
NewRecord(n, now, e) == [seq |-> n, tick |-> now, event |-> e, count |-> 1]
Logged(r, n, now, e) == [r EXCEPT ![Slot(n)] = NewRecord(n, now, e)]
LEMMA TellsNew ==
  ASSUME NEW r \in Rings, NEW n \in Nat, NEW t \in Seq(Events), NEW cut,
         Tells(r, n, t, cut), NEW e \in Events, NEW now \in Nat
  PROVE  \E c : Tells(Logged(r, n, now, e), n + 1, Append(t, e), c)
<1>0. PICK d : d = NewRecord(n, now, e)
  OBVIOUS
<1>9. d.seq = n /\ d.event = e /\ d.count = 1
  BY <1>0 DEF NewRecord
<1>1. PICK u \in Seq(Events), m \in Nat :
         u = Append(t, e) /\ m = Len(t) /\ Len(u) = m + 1
         /\ u[m + 1] = e /\ \A k \in 1 .. m : u[k] = t[k]
  <2>1. /\ Append(t, e) \in Seq(Events) /\ Len(Append(t, e)) = Len(t) + 1 /\ Len(t) \in Nat
        /\ Append(t, e)[Len(t) + 1] = e
        /\ \A k \in 1 .. Len(t) : Append(t, e)[k] = t[k]
    BY Appended1
  <2> QED BY <2>1
<1>2. cut \in [Nat -> 0 .. m] /\ cut[n] = m
  BY <1>1 DEF Tells
<1>3. PICK l \in Nat : l = n + 1 /\ l # 0 /\ l # n
  OBVIOUS
<1>4. PICK c \in [Nat -> 0 .. m + 1] :
         c[l] = m + 1 /\ \A q \in Nat : q # l => c[q] = cut[q]
  <2>1. \E c \in [Nat -> 0 .. m + 1] : Moved(c, cut, l, m)
    BY <1>2, CutMoved
  <2> QED BY <2>1 DEF Moved
<1>10. PICK s : s = [r EXCEPT ![Slot(n)] = d]
  OBVIOUS
<1>5. s[Slot(n)] = d /\ \A i \in Slots0 : i # Slot(n) => s[i] = r[i]
  <2>1. Slot(n) \in Slots0
    BY RingSlots
  <2> QED BY <1>10, <2>1 DEF Rings
<1>6. ASSUME NEW q \in Recent(l)
      PROVE  /\ c[q] <= c[q + 1]
             /\ s[Slot(q)].seq = q /\ s[Slot(q)].count = c[q + 1] - c[q]
             /\ \A k \in c[q] + 1 .. c[q + 1] : u[k] = s[Slot(q)].event
  <2>1. q \in Nat /\ q # l /\ q + 1 \in Nat
    BY <1>3 DEF Recent
  <2>2. CASE q = n
    <3>1. c[q] = m /\ c[q + 1] = m + 1
      BY <1>2, <1>3, <1>4, <2>2
    <3>2. m <= m + 1 /\ (m + 1) - m = 1 /\ \A k \in m + 1 .. m + 1 : k = m + 1
      OBVIOUS
    <3>3. s[Slot(q)].seq = q /\ s[Slot(q)].event = e /\ s[Slot(q)].count = 1
      BY <1>5, <1>9, <2>2
    <3> QED BY <1>1, <3>1, <3>2, <3>3
  <2>3. CASE q # n
    <3>1. q \in Recent(n) /\ q + 1 # l /\ q < n /\ n - q < AUDIT_LOG_ENTRIES
      BY <1>3, <2>1, <2>3, RingSlots DEF Recent
    <3>2. c[q] = cut[q] /\ c[q + 1] = cut[q + 1]
      BY <1>4, <2>1, <3>1
    <3>3. PICK x \in 0 .. m, y \in 0 .. m : x = cut[q] /\ y = cut[q + 1]
      BY <1>2, <2>1
    <3>4. Slot(q) # Slot(n) /\ Slot(q) \in Slots0
      BY <2>1, <3>1, RingSlots
    <3>5. s[Slot(q)] = r[Slot(q)]
      BY <1>5, <3>4
    <3>6. \A k \in x + 1 .. y : k \in 1 .. m
      OBVIOUS
    <3>7. /\ cut[q] <= cut[q + 1]
          /\ r[Slot(q)].seq = q /\ r[Slot(q)].count = cut[q + 1] - cut[q]
          /\ \A k \in cut[q] + 1 .. cut[q + 1] : t[k] = r[Slot(q)].event
      BY <3>1 DEF Tells
    <3> QED BY <1>1, <3>2, <3>3, <3>5, <3>6, <3>7
  <2> QED BY <2>2, <2>3
<1>7. l <= AUDIT_LOG_ENTRIES => c[0] = 0
  <2>1. l <= AUDIT_LOG_ENTRIES => n <= AUDIT_LOG_ENTRIES
    BY <1>3, RingSlots
  <2>2. c[0] = cut[0]
    BY <1>3, <1>4
  <2> QED BY <2>1, <2>2 DEF Tells
<1>8. Tells(s, l, u, c)
  BY <1>1, <1>4, <1>6, <1>7 DEF Tells
<1> QED BY <1>0, <1>1, <1>3, <1>8, <1>10 DEF Logged

(* Without its times a ring tells the same.                                *)
LEMMA TellsUntimed ==
  ASSUME NEW r \in Rings, NEW n \in Nat, NEW t, NEW cut, Tells(r, n, t, cut)
  PROVE  /\ Untimed(r) \in Rings
         /\ \A i \in Slots0 : Untimed(r)[i] = [r[i] EXCEPT !.tick = 0] /\ Untimed(r)[i].tick = 0
         /\ Tells(Untimed(r), n, t, cut)
<1>1. PICK s : s = Untimed(r)
  OBVIOUS
<1>2. \A i \in Slots0 : s[i] = [r[i] EXCEPT !.tick = 0]
  BY <1>1 DEF Untimed
<1>3. \A i \in Slots0 :
        s[i] \in Records /\ s[i].seq = r[i].seq /\ s[i].count = r[i].count
        /\ s[i].event = r[i].event /\ s[i].tick = 0
  <2> SUFFICES ASSUME NEW i \in Slots0
               PROVE  s[i] \in Records /\ s[i].seq = r[i].seq /\ s[i].count = r[i].count
                      /\ s[i].event = r[i].event /\ s[i].tick = 0
    OBVIOUS
  <2>1. r[i] \in Records /\ s[i] = [r[i] EXCEPT !.tick = 0]
    BY <1>2 DEF Rings
  <2> QED BY <2>1 DEF Records
<1>4. s \in Rings
  <2>1. s = [i \in Slots0 |-> s[i]]
    BY <1>1 DEF Untimed
  <2> QED BY <1>3, <2>1 DEF Rings
<1>5. \A q \in Recent(n) : Slot(q) \in Slots0
  BY RingSlots DEF Recent
<1>6. Tells(s, n, t, cut)
  BY <1>3, <1>5 DEF Tells
<1> QED BY <1>1, <1>2, <1>3, <1>4, <1>6

LEMMA CountedIs ==
  ASSUME NEW r \in Rings, NEW n \in Nat \ {0}, NEW now \in Nat
  PROVE  /\ Counted(r, n, now) \in Rings /\ Slot(n - 1) \in Slots0
         /\ Counted(r, n, now)[Slot(n - 1)].tick = now
         /\ Counted(r, n, now)[Slot(n - 1)].seq = r[Slot(n - 1)].seq
         /\ \A i \in Slots0 : i # Slot(n - 1) => Counted(r, n, now)[i] = r[i]
<1>1. PICK i \in Slots0 : i = Slot(n - 1)
  BY RingSlots
<1>2. r[i] \in Records /\ r \in [Slots0 -> Records]
  BY DEF Rings
<1>3. PICK d : d = [r[i] EXCEPT !.count = @ + 1, !.tick = now]
  OBVIOUS
<1>8. r[i].count \in Nat /\ r[i].count + 1 \in Nat
  BY <1>2 DEF Records
<1>6. d \in Records /\ d.tick = now /\ d.seq = r[i].seq
  BY <1>2, <1>3, <1>8 DEF Records
<1>4. Counted(r, n, now) = [r EXCEPT ![i] = d]
  BY <1>1, <1>2, <1>3 DEF Counted
<1>5. PICK s : s = [r EXCEPT ![i] = d]
  OBVIOUS
<1>7. s \in [Slots0 -> Records] /\ s[i] = d /\ \A j \in Slots0 : j # i => s[j] = r[j]
  BY <1>2, <1>5, <1>6
<1> QED BY <1>1, <1>4, <1>5, <1>6, <1>7 DEF Rings

LEMMA PlacedIs ==
  ASSUME NEW r \in Rings, NEW n \in Nat, NEW now \in Nat, NEW e \in Events
  PROVE  /\ Logged(r, n, now, e) \in Rings
         /\ Logged(r, n, now, e)[Slot(n)].tick = now /\ Logged(r, n, now, e)[Slot(n)].seq = n
         /\ \A i \in Slots0 : i # Slot(n) => Logged(r, n, now, e)[i] = r[i]
<1>1. PICK i \in Slots0 : i = Slot(n)
  BY RingSlots
<1>5. PICK d, s : d = NewRecord(n, now, e) /\ s = Logged(r, n, now, e)
  OBVIOUS
<1>2. d \in Records /\ d.tick = now /\ d.seq = n
  BY <1>5 DEF NewRecord, Records
<1>3. r \in [Slots0 -> Records] /\ s = [r EXCEPT ![i] = d]
  BY <1>1, <1>5 DEF Rings, Logged
<1>4. s \in [Slots0 -> Records] /\ s[i] = d /\ \A j \in Slots0 : j # i => s[j] = r[j]
  BY <1>2, <1>3
<1> QED BY <1>1, <1>2, <1>4, <1>5 DEF Rings

LEMMA RecordKeeps ==
  ASSUME AuditInv, NEW e \in Events, audit_record(e)
  PROVE  AuditInv'
<1>1. /\ ring \in Rings /\ total \in Nat /\ auditNow \in Nat
      /\ coalesce_floor \in Nat /\ coalesce_floor <= total /\ truth \in Seq(Events)
  BY DEF AuditInv, AuditTypes
<1>2. PICK cut : Tells(ring, total, truth, cut)
  BY DEF AuditInv
<1>3. /\ truth' = Append(truth, e)
      /\ coalesce_floor' = coalesce_floor /\ auditNow' = auditNow
      /\ stored' = stored /\ storedTruth' = storedTruth
  BY DEF audit_record
<1>4. truth' \in Seq(Events)
  BY <1>1, <1>3, Appended1
<1>5. \E c : Tells(stored'.ring, stored'.total, storedTruth', c)
  BY <1>3 DEF AuditInv
<1>6. PICK r \in Rings, n \in Nat, now \in Nat, f \in Nat :
         r = ring /\ n = total /\ now = auditNow /\ f = coalesce_floor
  BY <1>1
<1>7. \A i \in Slots0 : /\ r[i].tick <= now
                        /\ r[i].seq < f => r[i].tick = 0 /\ r[i] = [stored.ring[i] EXCEPT !.tick = 0]
  BY <1>6 DEF AuditInv, Sealed
<1>8. CASE /\ Coalesces(e)
           /\ ring' = [ring EXCEPT ![Slot(total - 1)].count = @ + 1, ![Slot(total - 1)].tick = auditNow]
           /\ total' = total
  <2>1. n \in Nat \ {0} /\ n > f /\ r[Slot(n - 1)].event = e
    BY <1>6, <1>8 DEF Coalesces
  <2>2. PICK s : s = Counted(r, n, now)
    OBVIOUS
  <2>3. ring' = s
    BY <1>6, <1>8, <2>2 DEF Counted
  <2>4. \E c : Tells(s, n, Append(truth, e), c)
    BY <1>1, <1>2, <1>6, <2>1, <2>2, TellsMore
  <2>5. /\ s \in Rings /\ Slot(n - 1) \in Slots0
        /\ s[Slot(n - 1)].tick = now /\ s[Slot(n - 1)].seq = r[Slot(n - 1)].seq
        /\ \A i \in Slots0 : i # Slot(n - 1) => s[i] = r[i]
    BY <2>1, <2>2, CountedIs
  <2>6. r[Slot(n - 1)].seq = n - 1
    <3>1. n - 1 \in Recent(n)
      BY <2>1, RingSlots DEF Recent
    <3> QED BY <1>2, <1>6, <3>1 DEF Tells
  <2>7. \A i \in Slots0 : /\ s[i].tick <= now
                          /\ s[i].seq < f => s[i].tick = 0 /\ s[i] = [stored.ring[i] EXCEPT !.tick = 0]
    <3> SUFFICES ASSUME NEW i \in Slots0
                 PROVE  /\ s[i].tick <= now
                        /\ s[i].seq < f => s[i].tick = 0 /\ s[i] = [stored.ring[i] EXCEPT !.tick = 0]
      OBVIOUS
    <3>1. CASE i = Slot(n - 1)
      <4>1. s[i].seq = n - 1 /\ s[i].tick = now
        BY <2>5, <2>6, <3>1
      <4>2. ~ (n - 1 < f) /\ now <= now
        BY <2>1
      <4> QED BY <4>1, <4>2
    <3>2. CASE i # Slot(n - 1)
      BY <1>7, <2>5, <3>2
    <3> QED BY <3>1, <3>2
  <2>8. Sealed'
    BY <1>3, <1>6, <2>3, <2>7 DEF Sealed
  <2>9. AuditTypes'
    BY <1>1, <1>3, <1>4, <1>8, <2>3, <2>5 DEF AuditInv, AuditTypes
  <2>10. \E c : Tells(ring', total', truth', c)
    BY <1>3, <1>6, <1>8, <2>3, <2>4
  <2> QED BY <1>5, <2>8, <2>9, <2>10 DEF AuditInv
<1>9. CASE /\ ring' = [ring EXCEPT ![Slot(total)] =
                        [seq |-> total, tick |-> auditNow, event |-> e, count |-> 1]]
           /\ total' = total + 1
  <2>1. PICK s : s = Logged(r, n, now, e)
    OBVIOUS
  <2>2. ring' = s
    BY <1>6, <1>9, <2>1 DEF NewRecord, Logged
  <2>3. \E c : Tells(s, n + 1, Append(truth, e), c)
    BY <1>1, <1>2, <1>6, <2>1, TellsNew
  <2>4. /\ s \in Rings /\ s[Slot(n)].tick = now /\ s[Slot(n)].seq = n
        /\ \A i \in Slots0 : i # Slot(n) => s[i] = r[i]
    BY <2>1, PlacedIs
  <2>5. f <= n /\ now <= now /\ ~ (n < f) /\ n + 1 \in Nat /\ f <= n + 1
    BY <1>1, <1>6
  <2>6. \A i \in Slots0 : /\ s[i].tick <= now
                          /\ s[i].seq < f => s[i].tick = 0 /\ s[i] = [stored.ring[i] EXCEPT !.tick = 0]
    <3> SUFFICES ASSUME NEW i \in Slots0
                 PROVE  /\ s[i].tick <= now
                        /\ s[i].seq < f => s[i].tick = 0 /\ s[i] = [stored.ring[i] EXCEPT !.tick = 0]
      OBVIOUS
    <3>1. CASE i = Slot(n)
      BY <2>4, <2>5, <3>1
    <3>2. CASE i # Slot(n)
      BY <1>7, <2>4, <3>2
    <3> QED BY <3>1, <3>2
  <2>7. Sealed'
    BY <1>3, <1>6, <2>2, <2>6 DEF Sealed
  <2>8. AuditTypes'
    BY <1>1, <1>3, <1>4, <1>6, <1>9, <2>2, <2>4, <2>5 DEF AuditInv, AuditTypes
  <2>9. \E c : Tells(ring', total', truth', c)
    BY <1>3, <1>6, <1>9, <2>2, <2>3
  <2> QED BY <1>5, <2>7, <2>8, <2>9 DEF AuditInv
<1> QED BY <1>8, <1>9 DEF audit_record

LEMMA TickKeeps == AuditInv /\ AuditTick => AuditInv'
<1> SUFFICES ASSUME AuditInv, AuditTick PROVE AuditInv'
  OBVIOUS
<1>1. /\ auditNow' = auditNow + 1 /\ ring' = ring /\ total' = total
      /\ coalesce_floor' = coalesce_floor /\ stored' = stored
      /\ truth' = truth /\ storedTruth' = storedTruth
  BY DEF AuditTick
<1>2. auditNow \in Nat /\ \A i \in Slots0 : ring[i].tick \in Nat
  BY DEF AuditInv, AuditTypes, Rings, Records
<1>3. \A x \in Nat : x <= auditNow => x <= auditNow + 1
  BY <1>2
<1>4. Sealed'
  BY <1>1, <1>2, <1>3 DEF AuditInv, Sealed
<1>5. AuditTypes'
  BY <1>1, <1>2 DEF AuditInv, AuditTypes
<1> QED BY <1>1, <1>4, <1>5 DEF AuditInv

LEMMA SerializeKeeps == AuditInv /\ audit_serialize => AuditInv'
<1> SUFFICES ASSUME AuditInv, audit_serialize PROVE AuditInv'
  OBVIOUS
<1>1. /\ auditNow' = auditNow /\ ring' = ring /\ total' = total
      /\ coalesce_floor' = coalesce_floor /\ truth' = truth /\ storedTruth' = truth
      /\ stored' = [ring |-> ring, total |-> total]
  BY DEF audit_serialize
<1>2. stored'.ring = ring /\ stored'.total = total
  BY <1>1
<1>3. AuditTypes'
  BY <1>1 DEF AuditInv, AuditTypes
<1>4. Sealed'
  <2> SUFFICES ASSUME NEW i \in Slots0
               PROVE  /\ ring[i].tick <= auditNow
                      /\ ring[i].seq < coalesce_floor =>
                           ring[i].tick = 0 /\ ring[i] = [ring[i] EXCEPT !.tick = 0]
    BY <1>1, <1>2 DEF Sealed
  <2>1. ring[i] \in Records
    BY DEF AuditInv, AuditTypes, Rings
  <2>2. ring[i].tick = 0 => ring[i] = [ring[i] EXCEPT !.tick = 0]
    BY <2>1 DEF Records
  <2> QED BY <2>2 DEF AuditInv, Sealed
<1> QED BY <1>1, <1>2, <1>3, <1>4 DEF AuditInv

LEMMA RebootKeeps == AuditInv /\ AuditReboot => AuditInv'
<1> SUFFICES ASSUME AuditInv, AuditReboot PROVE AuditInv'
  OBVIOUS
<1>1. auditNow' = 0 /\ stored' = stored /\ storedTruth' = storedTruth
  BY DEF AuditReboot
<1>2. /\ stored.ring \in Rings /\ stored.total \in Nat /\ storedTruth \in Seq(Events)
      /\ stored \in [ring : Rings, total : Nat]
  BY DEF AuditInv, AuditTypes
<1>3. PICK cut : Tells(stored.ring, stored.total, storedTruth, cut)
  BY DEF AuditInv
<1>4. CASE audit_load
  <2>1. /\ ring' = Untimed(stored.ring) /\ total' = stored.total /\ coalesce_floor' = stored.total
        /\ truth' = storedTruth
    BY <1>4 DEF audit_load, Restarted
  <2>2. /\ Untimed(stored.ring) \in Rings
        /\ \A i \in Slots0 : /\ Untimed(stored.ring)[i] = [stored.ring[i] EXCEPT !.tick = 0]
                             /\ Untimed(stored.ring)[i].tick = 0
        /\ Tells(Untimed(stored.ring), stored.total, storedTruth, cut)
    BY <1>2, <1>3, TellsUntimed
  <2>3. AuditTypes'
    BY <1>1, <1>2, <2>1, <2>2 DEF AuditTypes
  <2>4. Sealed'
    BY <1>1, <2>1, <2>2 DEF Sealed
  <2> QED BY <1>1, <1>3, <2>1, <2>2, <2>3, <2>4 DEF AuditInv
<1>5. CASE Restarted(AsStored, [ring |-> EmptyRing, total |-> 0], <<>>)
  <2>1. ring' = EmptyRing /\ total' = 0 /\ coalesce_floor' = 0 /\ truth' = <<>>
    BY <1>5 DEF Restarted, AsStored
  <2>2. \A i \in Slots0 : ring'[i].tick = 0 /\ ring'[i].seq = 0
    BY <2>1 DEF EmptyRing, NoEntry
  <2>3. AuditTypes'
    BY <1>1, <1>2, <2>1, EmptyTells DEF AuditTypes
  <2>4. Sealed'
    BY <1>1, <2>1, <2>2 DEF Sealed
  <2> QED BY <1>1, <1>3, <2>1, <2>3, <2>4, EmptyTells DEF AuditInv
<1> QED BY <1>4, <1>5 DEF AuditReboot

LEMMA KeepsAudit == AuditInv /\ [AuditNext]_auditVars => AuditInv'
<1> SUFFICES ASSUME AuditInv, [AuditNext]_auditVars PROVE AuditInv'
  OBVIOUS
<1>1. CASE UNCHANGED auditVars
  BY <1>1 DEF auditVars, AuditInv, AuditTypes, Sealed
<1>2. CASE AuditNext
  BY <1>2, RecordKeeps, TickKeeps, SerializeKeeps, RebootKeeps DEF AuditNext
<1> QED BY <1>1, <1>2

(* The printed log is the records from the oldest on.                      *)
LEMMA PrintsRecent ==
  ASSUME ring \in Rings, total \in Nat
  PROVE  \E first \in Nat, n \in Nat :
           /\ first + n = total /\ n <= AUDIT_LOG_ENTRIES
           /\ total <= AUDIT_LOG_ENTRIES => first = 0
           /\ audit_format \in [1 .. n -> Records]
           /\ \A i \in 1 .. n : /\ first + (i - 1) \in Recent(total)
                                /\ audit_format[i] = ring[Slot(first + (i - 1))]
<1> DEFINE live == IF total < AUDIT_LOG_ENTRIES THEN total ELSE AUDIT_LOG_ENTRIES
<1>1. PICK first \in Nat, n \in Nat :
         /\ n = live /\ first = total - live /\ first + n = total /\ n <= AUDIT_LOG_ENTRIES
         /\ total <= AUDIT_LOG_ENTRIES => first = 0
         /\ total > AUDIT_LOG_ENTRIES => first = total - AUDIT_LOG_ENTRIES
  <2>1. CASE total < AUDIT_LOG_ENTRIES
    <3>1. live = total /\ total - live = 0 /\ 0 + live = total
      BY <2>1
    <3> HIDE DEF live
    <3>2. total <= AUDIT_LOG_ENTRIES /\ ~ (total > AUDIT_LOG_ENTRIES)
      BY <2>1, RingSlots
    <3> QED BY <3>1, <3>2
  <2>2. CASE ~ (total < AUDIT_LOG_ENTRIES)
    <3>1. live = AUDIT_LOG_ENTRIES
      BY <2>2
    <3> HIDE DEF live
    <3>2. /\ total - AUDIT_LOG_ENTRIES \in Nat
          /\ (total - AUDIT_LOG_ENTRIES) + AUDIT_LOG_ENTRIES = total
          /\ total <= AUDIT_LOG_ENTRIES => total - AUDIT_LOG_ENTRIES = 0
          /\ AUDIT_LOG_ENTRIES <= AUDIT_LOG_ENTRIES
      BY <2>2, RingSlots
    <3> QED BY <3>1, <3>2, RingSlots
  <2> QED BY <2>1, <2>2
<1>2. PICK start \in Int : start = IF total <= AUDIT_LOG_ENTRIES THEN 0 ELSE Slot(total)
  BY RingSlots DEF Slots0
<1>3. audit_format = [i \in 1 .. n |-> ring[Slot(start + i - 1)]]
  BY <1>1, <1>2 DEF audit_format, LogFrom
<1>4. ASSUME NEW i \in 1 .. n
      PROVE  /\ first + (i - 1) \in Recent(total)
             /\ Slot(start + i - 1) = Slot(first + (i - 1))
             /\ Slot(start + i - 1) \in Slots0
  <2>1. first + (i - 1) \in Recent(total)
    BY <1>1, RingSlots DEF Recent
  <2>2. start + i - 1 \in Int /\ start + i - 1 = start + (i - 1) /\ i - 1 \in Int /\ first \in Int
    OBVIOUS
  <2>3. CASE total <= AUDIT_LOG_ENTRIES
    <3>1. start = first
      BY <1>1, <1>2, <2>3
    <3> QED BY <2>1, <2>2, <3>1, RingSlots
  <2>4. CASE total > AUDIT_LOG_ENTRIES
    <3>1. start = Slot(total)
      BY <1>2, <2>4, RingSlots
    <3>2. Slot(start + (i - 1)) = Slot(total + (i - 1))
      BY <2>2, <3>1, RingSlots
    <3>3. PICK x \in Int : x = total + (i - 1) /\ x - AUDIT_LOG_ENTRIES = first + (i - 1)
      BY <1>1, <2>4, RingSlots
    <3>4. Slot(x - AUDIT_LOG_ENTRIES) = Slot(x)
      BY RingSlots
    <3> QED BY <2>1, <2>2, <3>2, <3>3, <3>4, RingSlots
  <2> QED BY <2>3, <2>4, RingSlots
<1>5. \A i \in 1 .. n : ring[Slot(start + i - 1)] \in Records
  BY <1>4 DEF Rings
<1> QED BY <1>1, <1>3, <1>4, <1>5

(* As many copies of an event as were counted are a piece of the history.  *)
LEMMA CopiesAre ==
  ASSUME NEW t \in Seq(Events), NEW a \in 0 .. Len(t), NEW b \in 0 .. Len(t), a <= b,
         NEW e, \A k \in a + 1 .. b : t[k] = e
  PROVE  Times(e, b - a) = SubSeq(t, a + 1, b)
<1>1. PICK m \in Nat : m = Len(t)
  OBVIOUS
<1>2. b - a \in Nat /\ a + 1 \in Int /\ b \in Int
  OBVIOUS
<1>3. \A i \in a + 1 .. b : t[i] \in Events
  <2>1. \A i \in a + 1 .. b : i \in 1 .. Len(t)
    BY <1>1
  <2> QED BY <2>1
<1>4. /\ SubSeq(t, a + 1, b) \in Seq(Events)
      /\ Len(SubSeq(t, a + 1, b)) = IF a + 1 <= b THEN b - (a + 1) + 1 ELSE 0
      /\ \A i \in 1 .. b - (a + 1) + 1 : SubSeq(t, a + 1, b)[i] = t[(a + 1) + i - 1]
  BY <1>2, <1>3, SubSeqProperties
<1>5. PICK u \in Seq(Events), n \in Nat : u = SubSeq(t, a + 1, b) /\ n = b - a /\ Len(u) = n
  <2>1. (IF a + 1 <= b THEN b - (a + 1) + 1 ELSE 0) = b - a
    OBVIOUS
  <2> QED BY <1>2, <1>4, <2>1
<1>6. \A i \in 1 .. n : u[i] = e
  <2> SUFFICES ASSUME NEW i \in 1 .. n PROVE u[i] = e
    OBVIOUS
  <2>1. i \in 1 .. b - (a + 1) + 1 /\ (a + 1) + i - 1 \in a + 1 .. b
    BY <1>5
  <2> QED BY <1>4, <1>5, <2>1
<1>7. u = [i \in 1 .. n |-> e]
  <2>1. u = [i \in 1 .. n |-> u[i]]
    BY <1>5
  <2> QED BY <1>6, <2>1
<1> QED BY <1>5, <1>7 DEF Times

(* The loop that expands the log.                                          *)
Unrolls(f, g, n) ==
  g = [i \in 0 .. n |-> IF i = 0 THEN <<>> ELSE g[i - 1] \o Times(f[i].event, f[i].count)]

Joined(f, g, n) == Unrolls(f, g, n) /\ \A h : Unrolls(f, h, n) => h[n] = g[n]
LEMMA PiecesJoin ==
  ASSUME NEW t \in Seq(Events), NEW n \in Nat, NEW f, NEW c \in [0 .. n -> 0 .. Len(t)],
         \A i \in 1 .. n :
           c[0] <= c[i - 1] /\ Times(f[i].event, f[i].count) = SubSeq(t, c[i - 1] + 1, c[i])
           /\ c[i - 1] <= c[i]
  PROVE  Joined(f, [i \in 0 .. n |-> SubSeq(t, c[0] + 1, c[i])], n)
<1> DEFINE g == [i \in 0 .. n |-> SubSeq(t, c[0] + 1, c[i])]
<1>1. g[0] = <<>>
  <2>1. 0 \in 0 .. n /\ c[0] \in Int /\ c[0] + 1 \in Int /\ c[0] < c[0] + 1
    OBVIOUS
  <2>2. SubSeq(t, c[0] + 1, c[0]) = <<>>
    BY <2>1, SubSeqEmpty
  <2> QED BY <2>1, <2>2
<1>2. ASSUME NEW i \in 1 .. n
      PROVE  g[i] = g[i - 1] \o Times(f[i].event, f[i].count)
  <2>1. i - 1 \in 0 .. n /\ i \in 0 .. n
    OBVIOUS
  <2>2. PICK x, y, z :
           /\ x = c[0] + 1 /\ y = c[i - 1] /\ z = c[i]
           /\ x \in 1 .. Len(t) + 1 /\ y \in x - 1 .. Len(t) /\ z \in y .. Len(t)
    <3>1. PICK m \in Nat : m = Len(t)
      OBVIOUS
    <3>5. c \in [0 .. n -> 0 .. m] /\ 0 \in 0 .. n
      BY <3>1
    <3>2. PICK u \in 0 .. m, v \in 0 .. m, w \in 0 .. m : u = c[0] /\ v = c[i - 1] /\ w = c[i]
      <4> HIDE DEF g
      <4> QED BY <2>1, <3>5
    <3>3. u <= v /\ v <= w
      BY <3>2
    <3>4. u + 1 \in 1 .. m + 1 /\ v \in (u + 1) - 1 .. m /\ w \in v .. m
      BY <3>3
    <3> QED BY <3>1, <3>2, <3>4
  <2>3. SubSeq(t, x, y) \o SubSeq(t, y + 1, z) = SubSeq(t, x, z)
    BY <2>2, ConcatAdjacentSubSeq
  <2> QED BY <2>1, <2>2, <2>3
<1>3. Unrolls(f, g, n)
  <2>1. g = [i \in 0 .. n |-> g[i]]
    OBVIOUS
  <2>2. \A i \in 0 .. n : g[i] = IF i = 0 THEN <<>> ELSE g[i - 1] \o Times(f[i].event, f[i].count)
    <3> SUFFICES ASSUME NEW i \in 0 .. n
                 PROVE  g[i] = IF i = 0 THEN <<>> ELSE g[i - 1] \o Times(f[i].event, f[i].count)
      OBVIOUS
    <3>1. i = 0 \/ i \in 1 .. n
      OBVIOUS
    <3> HIDE DEF g
    <3> QED BY <1>1, <1>2, <3>1
  <2> HIDE DEF g
  <2> QED BY <2>1, <2>2 DEF Unrolls
<1>4. ASSUME NEW h, Unrolls(f, h, n) PROVE h[n] = g[n]
  <2> HIDE DEF g
  <2> DEFINE B == {i \in 0 .. n : h[i] = g[i]}
  <2>1. \A i \in 0 .. n : h[i] = IF i = 0 THEN <<>> ELSE h[i - 1] \o Times(f[i].event, f[i].count)
    BY <1>4 DEF Unrolls
  <2>2. 0 \in B
    BY <1>1, <2>1
  <2>3. ASSUME NEW i \in 1 .. n, i - 1 \in B PROVE i \in B
    <3>1. i \in 0 .. n /\ i # 0
      OBVIOUS
    <3> QED BY <1>2, <2>1, <2>3, <3>1
  <2>4. \A i \in 0 .. n : i \in B
    <3> HIDE DEF B
    <3> QED BY <2>2, <2>3, LoopInduction
  <2>5. n \in 0 .. n
    OBVIOUS
  <2> QED BY <2>4, <2>5
<1> QED BY <1>3, <1>4 DEF Joined

LEMMA ExpandsTheEnd ==
  ASSUME NEW cut, AuditTypes, Tells(ring, total, truth, cut)
  PROVE  \E a \in 0 .. Len(truth) :
           Expanded = SubSeq(truth, a + 1, Len(truth)) /\ (total <= AUDIT_LOG_ENTRIES => a = 0)
<1>1. ring \in Rings /\ total \in Nat /\ truth \in Seq(Events)
  BY DEF AuditTypes
<1>2. PICK first \in Nat, n \in Nat :
         /\ first + n = total /\ n <= AUDIT_LOG_ENTRIES
         /\ total <= AUDIT_LOG_ENTRIES => first = 0
         /\ audit_format \in [1 .. n -> Records]
         /\ \A i \in 1 .. n : /\ first + (i - 1) \in Recent(total)
                              /\ audit_format[i] = ring[Slot(first + (i - 1))]
  BY <1>1, PrintsRecent
<1>3. PICK f : f = audit_format
  OBVIOUS
<1>4. Len(f) = n
  BY <1>2, <1>3
<1>5. PICK m \in Nat : m = Len(truth)
  BY <1>1
<1>6. cut \in [Nat -> 0 .. m] /\ cut[total] = m /\ (total <= AUDIT_LOG_ENTRIES => cut[0] = 0)
  BY <1>5 DEF Tells
<1>7. PICK c : c = [i \in 0 .. n |-> cut[first + i]]
  OBVIOUS
<1>8. c \in [0 .. n -> 0 .. m] /\ \A i \in 0 .. n : c[i] = cut[first + i]
  <2>1. \A i \in 0 .. n : first + i \in Nat
    OBVIOUS
  <2> QED BY <1>6, <1>7, <2>1
<1>9. ASSUME NEW i \in 1 .. n
      PROVE  /\ c[i - 1] <= c[i]
             /\ Times(f[i].event, f[i].count) = SubSeq(truth, c[i - 1] + 1, c[i])
  <2>1. PICK q \in Nat : q = first + (i - 1) /\ q + 1 = first + i
    OBVIOUS
  <2>2. i - 1 \in 0 .. n /\ i \in 0 .. n
    OBVIOUS
  <2>3. c[i - 1] = cut[q] /\ c[i] = cut[q + 1]
    BY <1>8, <2>1, <2>2
  <2>4. q \in Recent(total) /\ f[i] = ring[Slot(q)]
    BY <1>2, <1>3, <2>1
  <2>5. /\ cut[q] <= cut[q + 1] /\ f[i].count = cut[q + 1] - cut[q]
        /\ \A k \in cut[q] + 1 .. cut[q + 1] : truth[k] = f[i].event
    BY <2>4 DEF Tells
  <2>6. PICK a, b : /\ a = c[i - 1] /\ b = c[i] /\ a \in 0 .. Len(truth) /\ b \in 0 .. Len(truth)
    BY <1>5, <1>8, <2>2
  <2>7. a <= b /\ \A k \in a + 1 .. b : truth[k] = f[i].event
    BY <2>3, <2>5, <2>6
  <2>8. Times(f[i].event, b - a) = SubSeq(truth, a + 1, b)
    BY <1>1, <2>6, <2>7, CopiesAre
  <2>9. f[i].count = b - a
    BY <2>3, <2>5, <2>6
  <2> QED BY <2>6, <2>7, <2>8, <2>9
<1>10. \A i \in 0 .. n : c[0] <= c[i]
  <2> DEFINE B == {i \in 0 .. n : c[0] <= c[i]}
  <2>1. 0 \in B
    BY <1>8
  <2>2. ASSUME NEW i \in 1 .. n, i - 1 \in B PROVE i \in B
    <3>1. PICK x \in 0 .. m, y \in 0 .. m, z \in 0 .. m : x = c[0] /\ y = c[i - 1] /\ z = c[i]
      <4>1. 0 \in 0 .. n /\ i - 1 \in 0 .. n /\ i \in 0 .. n
        OBVIOUS
      <4> QED BY <1>8, <4>1
    <3>2. x <= y /\ y <= z
      BY <1>9, <2>2, <3>1
    <3>3. x <= z /\ i \in 0 .. n
      BY <3>2
    <3> QED BY <3>1, <3>3
  <2>3. \A i \in 0 .. n : i \in B
    <3> HIDE DEF B
    <3> QED BY <2>1, <2>2, LoopInduction
  <2> QED BY <2>3
<1>11. PICK g : g = [i \in 0 .. n |-> SubSeq(truth, c[0] + 1, c[i])]
  OBVIOUS
<1>12. Unrolls(f, g, n) /\ \A h : Unrolls(f, h, n) => h[n] = g[n]
  <2>1. \A i \in 1 .. n :
          c[0] <= c[i - 1] /\ Times(f[i].event, f[i].count) = SubSeq(truth, c[i - 1] + 1, c[i])
          /\ c[i - 1] <= c[i]
    <3>1. \A i \in 1 .. n : i - 1 \in 0 .. n
      OBVIOUS
    <3> QED BY <1>9, <1>10, <3>1
  <2>2. c \in [0 .. n -> 0 .. Len(truth)]
    BY <1>5, <1>8
  <2>3. Joined(f, [i \in 0 .. n |-> SubSeq(truth, c[0] + 1, c[i])], n)
    BY <1>1, <2>1, <2>2, PiecesJoin
  <2> QED BY <1>11, <2>3 DEF Joined
<1>13. Expanded = g[n]
  <2>1. Expanded = (CHOOSE h : Unrolls(f, h, n))[n]
    BY <1>3, <1>4 DEF Expanded, Unrolls
  <2>2. Unrolls(f, CHOOSE h : Unrolls(f, h, n), n)
    BY <1>12
  <2> QED BY <1>12, <2>1, <2>2
<1>14. c[n] = m /\ g[n] = SubSeq(truth, c[0] + 1, c[n]) /\ c[0] = cut[first] /\ c[0] \in 0 .. m
  <2>1. 0 \in 0 .. n /\ n \in 0 .. n /\ first + 0 = first
    OBVIOUS
  <2> QED BY <1>2, <1>6, <1>8, <1>11, <2>1
<1> QED BY <1>2, <1>5, <1>6, <1>13, <1>14

LEMMA InvTellsTheEnd ==
  ASSUME AuditInv
  PROVE  LedgerIsTheEnd
<1>1. ring \in Rings /\ total \in Nat /\ truth \in Seq(Events) /\ AuditTypes
  BY DEF AuditInv, AuditTypes
<1>2. PICK cut : Tells(ring, total, truth, cut)
  BY DEF AuditInv
<1>3. PICK m \in Nat : m = Len(truth)
  BY <1>1
<1>4. PICK a \in 0 .. m :
         Expanded = SubSeq(truth, a + 1, m) /\ (total <= AUDIT_LOG_ENTRIES => a = 0)
  BY <1>1, <1>2, <1>3, ExpandsTheEnd
<1>5. Len(Expanded) = m - a
  <2>1. a + 1 \in Int /\ m \in Int
    OBVIOUS
  <2>2. \A i \in a + 1 .. m : truth[i] \in Events
    <3>1. \A i \in a + 1 .. m : i \in 1 .. m
      OBVIOUS
    <3> QED BY <1>1, <1>3, <3>1
  <2>3. Len(SubSeq(truth, a + 1, m)) = IF a + 1 <= m THEN m - (a + 1) + 1 ELSE 0
    BY <2>1, <2>2, SubSeqProperties
  <2>4. (IF a + 1 <= m THEN m - (a + 1) + 1 ELSE 0) = m - a
    OBVIOUS
  <2> QED BY <1>4, <2>3, <2>4
<1>6. m - a <= m /\ m - (m - a) + 1 = a + 1
  OBVIOUS
<1>7. total <= AUDIT_LOG_ENTRIES => Expanded = truth
  <2>1. SubSeq(truth, 1, Len(truth)) = truth
    BY <1>1, SubSeqFull
  <2>2. 0 + 1 = 1
    OBVIOUS
  <2> QED BY <1>3, <1>4, <2>1, <2>2
<1>8. \A i \in DOMAIN audit_format : audit_format[i].seq = total - Len(audit_format) + i - 1
  <2>1. PICK first \in Nat, n \in Nat :
           /\ first + n = total /\ n <= AUDIT_LOG_ENTRIES
           /\ total <= AUDIT_LOG_ENTRIES => first = 0
           /\ audit_format \in [1 .. n -> Records]
           /\ \A i \in 1 .. n : /\ first + (i - 1) \in Recent(total)
                                /\ audit_format[i] = ring[Slot(first + (i - 1))]
    BY <1>1, PrintsRecent
  <2>2. DOMAIN audit_format = 1 .. n /\ Len(audit_format) = n
    BY <2>1
  <2>3. ASSUME NEW i \in 1 .. n PROVE audit_format[i].seq = total - n + i - 1
    <3>1. PICK q : q = first + (i - 1)
      OBVIOUS
    <3>2. q \in Recent(total) /\ audit_format[i] = ring[Slot(q)]
      BY <2>1, <3>1
    <3>3. ring[Slot(q)].seq = q
      BY <1>2, <3>2 DEF Tells
    <3>4. q = total - n + i - 1
      BY <1>1, <2>1, <3>1
    <3> QED BY <3>2, <3>3, <3>4
  <2> QED BY <2>2, <2>3
<1>9. Len(Expanded) <= Len(truth) /\ Expanded = SubSeq(truth, Len(truth) - Len(Expanded) + 1, Len(truth))
  BY <1>3, <1>4, <1>5, <1>6
<1> QED BY <1>7, <1>8, <1>9 DEF LedgerIsTheEnd

(* Whatever is recorded, saved, restored or started cold, in rings of any  *)
(* size: what the ledger prints is the end of its lineage's history, each  *)
(* event once and in order, and what an earlier boot left is as it was     *)
(* restored (audit.c: audit_record, audit_format, audit_load).             *)
THEOREM LedgerTellsTheTruth == AuditSpec => []LedgerFaithful
<1>1. AuditInv => LedgerFaithful
  <2>1. AuditInv => EarlierBootsSealed
    BY DEF AuditInv, Sealed, EarlierBootsSealed
  <2> QED BY <2>1, InvTellsTheEnd DEF LedgerFaithful
<1> QED BY <1>1, StartsAudit, KeepsAudit, PTL DEF AuditSpec
=============================================================================

------------------------------ MODULE Servers ------------------------------
(***************************************************************************)
(* The two network servers in ring 3 (user/httpd.c, user/modbusd.c): arm   *)
(* the listener, accept, read one request under a deadline taken once, act *)
(* on it, answer in one piece, close with a bound, start again.  The       *)
(* kernel's TCP is its calls' results; a peer sends a request in parts,    *)
(* stalls, ends its stream or resets the connection at any point.          *)
(***************************************************************************)
EXTENDS Integers, Sequences

CONSTANTS Programs, ReqCap, ReqDeadline, MB_NREG, MbRequests, MaxConnections, MaxRequestParts

Httpd == "httpd"
Modbusd == "modbusd"
FC_READ == "read"
FC_WRITE == "write"
REG_REQUESTS == 1
REG_REFUSALS == 2
REG_SETPOINT == 3
REG_PROTO_ERR == 4
REG_VERSION == 6

ServersConstants ==
    /\ Programs \subseteq {Httpd, Modbusd}
    /\ {ReqCap, ReqDeadline, MB_NREG} \subseteq Nat \ {0}
    /\ {MaxConnections, MaxRequestParts} \subseteq Nat
    /\ \A r \in MbRequests : {r.addr, r.qty, r.len} \subseteq Nat

ASSUME ServersAssumption == ServersConstants

VARIABLES server,  \* the program, its step, what it has of the request, its deadline
          client,    \* the connection: open, the request, parts sent and not read, ended
          bank,    \* counters and registers
          sent,    \* answers sent: the first register told, the values, writes asked by then
          wrote,   \* control writes that were asked of it
          opened    \* connections so far

serversVars == <<server, client, bank, sent, wrote, opened>>

NoRequest == [fc |-> "none", addr |-> 0, qty |-> 0, len |-> 0, valid |-> FALSE, proto |-> TRUE]
NoConn == [st |-> "none", req |-> NoRequest, left |-> 0, in |-> 0, eof |-> FALSE]

ServersInit ==
    /\ \E p \in Programs : server = [prog |-> p, step |-> "listen", got |-> 0, late |-> 0]
    /\ client = NoConn
    /\ bank = [served |-> 0, refusals |-> 0, proto_err |-> 0, setpoint |-> 0]
    /\ sent = << >> /\ wrote = 0 /\ opened = 0
----------------------------------------------------------------------------
(* The peer *)

ServerSame == UNCHANGED <<server, bank, sent, wrote>>

\* A peer of the armed listener with a request of some length, whole or not.
PeerConnects(r) ==
    /\ server.step = "accept" /\ client = NoConn /\ opened < MaxConnections
    /\ client' = [NoConn EXCEPT !.st = "open", !.req = r, !.left = r.len]
    /\ opened' = opened + 1
    /\ ServerSame

PeerSends(n) ==
    /\ client.st = "open" /\ n <= client.left /\ ~client.eof
    /\ client' = [client EXCEPT !.left = @ - n, !.in = @ + n]
    /\ UNCHANGED opened /\ ServerSame

PeerEnds == client.st = "open" /\ ~client.eof /\ client' = [client EXCEPT !.eof = TRUE] /\ UNCHANGED opened /\ ServerSame

PeerResets == client.st = "open" /\ client' = [client EXCEPT !.st = "reset"] /\ UNCHANGED opened /\ ServerSame
----------------------------------------------------------------------------
(* The server *)

Goto(step) == server' = [server EXCEPT !.step = step]
QuietStep == UNCHANGED <<client, bank, sent, wrote, opened>>

\* TCP_LISTEN until it answers: armed, or refused for good (no network, no
\* capability, the listener held by another): idle with heartbeats.
Listens == server.step = "listen" /\ (Goto("accept") \/ Goto("idle")) /\ QuietStep

\* TCP_ACCEPT until a peer is there; a connection that needs retiring is closed.
Accepts ==
    /\ server.step = "accept" /\ client.st # "none"
    /\ server' = [server EXCEPT !.step = IF client.st = "open" THEN "read" ELSE "close", !.got = 0, !.late = 0]
    /\ QuietStep

\* The request is whole: the header's end for httpd, the length in the frame's
\* header for modbusd.  A length the frame cannot have ends it there.
Whole(got) == got >= client.req.len
BadLength(got) == server.prog = Modbusd /\ got > 0 /\ ~client.req.valid

NeverLate == FALSE
\* The deadline was taken once, before the first byte.
Late == server.late >= ReqDeadline

\* One TCP_RECV: bytes, end of stream or an error; httpd serves a request that
\* ends with the stream, modbusd drops it.
Reads ==
    /\ server.step = "read" /\ ~Late /\ server.got < ReqCap
    /\ \/ \E n \in 1 .. client.in :
             /\ client.st = "open" /\ server.got + n <= ReqCap
             /\ client' = [client EXCEPT !.in = @ - n]
             /\ server' = [server EXCEPT !.got = @ + n,
                               !.step = IF BadLength(server.got + n) THEN "close"
                                        ELSE IF Whole(server.got + n) THEN "serve" ELSE "read"]
             /\ bank' = [bank EXCEPT !.proto_err = IF BadLength(server.got + n) THEN @ + 1 ELSE @]
       \/ /\ client.st = "open" /\ client.in = 0 /\ client.eof
          /\ Goto(IF server.prog = Httpd THEN "serve" ELSE "close")
          /\ UNCHANGED <<client, bank>>
       \/ /\ client.st = "reset"
          /\ Goto("close")
          /\ UNCHANGED <<client, bank>>
    /\ UNCHANGED <<sent, wrote, opened>>

\* Too slow, or too long.
ReadsNoMore ==
    /\ server.step = "read" /\ (Late \/ server.got >= ReqCap)
    /\ Goto("close")
    /\ bank' = [bank EXCEPT !.proto_err = IF server.prog = Modbusd /\ ~Late THEN @ + 1 ELSE @]
    /\ UNCHANGED <<client, sent, wrote, opened>>

TimePasses ==
    /\ server.step = "read" /\ server.late < ReqDeadline
    /\ server' = [server EXCEPT !.late = @ + 1]
    /\ QuietStep

FirstOnly(r) == r.addr < MB_NREG
\* The whole run of registers lies in the bank.
InBank(r) == r.qty # 0 /\ r.qty <= MB_NREG /\ r.addr < MB_NREG /\ r.addr + r.qty <= MB_NREG

\* The value a register has now; the uptime is left at 0, and the bank is
\* never armed.
reg_read(b, n) ==
    CASE n = REG_REQUESTS -> b.served
      [] n = REG_REFUSALS -> b.refusals
      [] n = REG_SETPOINT -> b.setpoint
      [] n = REG_PROTO_ERR -> b.proto_err
      [] n = REG_VERSION -> 1
      [] OTHER -> 0

\* handle_pdu: reads answer registers computed now; a control write is refused
\* and the refusal counted first; anything else is an illegal function.  No
\* values stand for an exception, and an empty PDU has no answer at all.
handle_pdu(r, b) ==
    CASE r.fc = FC_READ ->
             [b |-> b, values |-> IF InBank(r) THEN [i \in 1 .. r.qty |-> reg_read(b, r.addr + i - 1)] ELSE << >>]
      [] r.fc = FC_WRITE -> [b |-> [b EXCEPT !.refusals = @ + 1], values |-> << >>]
      [] r.fc \in {"short", "empty"} -> [b |-> [b EXCEPT !.proto_err = @ + 1], values |-> << >>]
      [] OTHER -> [b |-> b, values |-> << >>]

\* A whole frame of another protocol is dropped.
NotModbus ==
    /\ server.step = "serve" /\ server.prog = Modbusd /\ ~client.req.proto
    /\ bank' = [bank EXCEPT !.proto_err = @ + 1]
    /\ Goto("close")
    /\ UNCHANGED <<client, sent, wrote, opened>>

\* The send of an answer may fail or run out of time.
Answered(first, values, asked) ==
    sent' = Append(sent, [first |-> first, values |-> values, asked |-> asked]) \/ UNCHANGED sent

\* httpd: every request is counted and answered with the status page.
ServesPage ==
    /\ server.step = "serve" /\ server.prog = Httpd
    /\ bank' = [bank EXCEPT !.served = @ + 1]
    /\ Answered(0, << >>, wrote)
    /\ Goto("close")
    /\ UNCHANGED <<client, wrote, opened>>

\* modbusd: count the request, act on it, send what there is to send.
ServesPdu ==
    /\ server.step = "serve" /\ server.prog = Modbusd /\ client.req.proto
    /\ wrote' = IF client.req.fc = FC_WRITE THEN wrote + 1 ELSE wrote
    /\ LET h == handle_pdu(client.req, [bank EXCEPT !.served = @ + 1])
       IN  /\ bank' = h.b
           /\ IF client.req.fc = "empty" THEN UNCHANGED sent
              ELSE Answered(client.req.addr, h.values, wrote')
    /\ Goto("close")
    /\ UNCHANGED <<client, opened>>

\* http_close, mb_close: until TCP_CLOSE answers, or the bound.
Closes == server.step = "close" /\ Goto("listen") /\ client' = NoConn /\ UNCHANGED <<bank, sent, wrote, opened>>

ServerStep == Listens \/ Accepts \/ Reads \/ ReadsNoMore \/ NotModbus \/ ServesPage \/ ServesPdu \/ Closes

ServersNext ==
    \/ \E r \in MbRequests : PeerConnects(r)
    \/ \E n \in 1 .. MaxRequestParts : PeerSends(n)
    \/ PeerEnds \/ PeerResets
    \/ TimePasses
    \/ ServerStep

\* The scheduler runs the server again and again, and the clock goes on.
ServersFairness == WF_serversVars(ServerStep) /\ WF_serversVars(TimePasses)

ServersSpec == ServersInit /\ [][ServersNext]_serversVars /\ ServersFairness
----------------------------------------------------------------------------
\* Every control write that was asked is refused and counted by the time anyone
\* reads the count, an answer tells registers of the bank only, and the setpoint
\* never moves (modbusd.c:203).
RefusalsCounted ==
    /\ bank.refusals = wrote /\ bank.setpoint = 0
    /\ \A i \in DOMAIN sent : \A k \in DOMAIN sent[i].values :
         /\ sent[i].first + k - 1 < MB_NREG
         /\ sent[i].first + k - 1 = REG_REFUSALS => sent[i].values[k] = sent[i].asked

\* A peer that dribbles, stalls or vanishes holds the server no longer than
\* its deadline: an accepted connection is always given up for the next one
\* (httpd.c:20).
ServesAgain == (server.step = "read") ~> (server.step = "listen")
============================================================================

------------------------------- MODULE Swarm -------------------------------
(***************************************************************************)
(* The swarm plane of one node: swarm_svc, which holds the serial line to  *)
(* the host (user/swarm_svc.c), and fieldsyncd, which exchanges phases     *)
(* with a peer node over UDP (user/fieldsyncd.c).  The host admits a group *)
(* key; swarm_svc keeps it to authenticate its replies and forwards it to  *)
(* fieldsyncd; either citizen may die and be reborn with no memory at any  *)
(* point, and the datagrams of the peer are lost, repeated and reordered.  *)
(* A tag is the key it was computed with: a frame [key, seq] carries a     *)
(* valid tag for exactly that key, key 0 the zero tag.                     *)
(***************************************************************************)
EXTENDS Integers, Sequences, FiniteSets

CONSTANTS Keys, Nonces, BoxLen, SEND_TICKS, SNAPSHOT_TRIES,
          MaxSwarmTicks, MaxAdmits, MaxRebirths, MaxPeerSeq

SwarmConstants ==
    /\ Keys \subseteq Nat \ {0}
    /\ Nonces \subseteq Nat \ {0}
    /\ {BoxLen, SEND_TICKS, SNAPSHOT_TRIES} \subseteq Nat \ {0}
    /\ {MaxSwarmTicks, MaxAdmits, MaxRebirths, MaxPeerSeq} \subseteq Nat

ASSUME SwarmAssumption == SwarmConstants

VARIABLES svc,      \* swarm_svc: session_key, key_fwd_pid, the outstanding QSUBMIT
          fs,       \* fieldsyncd: pid, session_key, tx_seq, peer_last_seq, its snapshot wait
          box,      \* fieldsyncd's mailbox
          swarm_asked, \* requests on the line: nonce -> how the host framed it
          replies,  \* replies put on the line
          coupled,  \* frames folded into ghostd since the last key installation
          stamped,  \* <<key, seq>> of every frame this node authenticated
          swarmNow, \* SYS_TICKS
          faults    \* admissions and rebirths so far

swarmVars == <<svc, fs, box, swarm_asked, replies, coupled, stamped, swarmNow, faults>>

NewSvc == [key |-> 0, fwd |-> 0, jid |-> 0, authed |-> FALSE, nonce |-> 0]

SeedZero(tick) == 0
Seed(tick) == tick

\* _start: the sequence is seeded from the tick, the first send is due at once.
NewFs(pid, tick) ==
    [pid |-> pid, up |-> TRUE, key |-> 0, tx |-> Seed(tick), water |-> 0,
     due |-> tick, tries |-> 0, agg |-> 0, died |-> 0]

NotAsked == [job |-> FALSE, keyed |-> FALSE]

SwarmInit ==
    /\ svc = NewSvc
    /\ fs = NewFs(1, 0)
    /\ box = << >>
    /\ swarm_asked = [n \in Nonces |-> NotAsked]
    /\ replies = {}
    /\ coupled = [f \in {} |-> 0]
    /\ stamped = {}
    /\ swarmNow = 0
    /\ faults = [admits |-> 0, rebirths |-> 0]
----------------------------------------------------------------------------
(* swarm_svc *)

\* find_fieldsyncd_pid: the row of the process list, or none.
find_fieldsyncd_pid == IF fs.up THEN fs.pid ELSE 0

\* send_to reaches a live pid whose mailbox has room.
Deliverable == fs.up /\ Len(box) < BoxLen

\* forward_key_to: the pid is recorded only when the send succeeded.
forward_key_to(key, pid) ==
    /\ pid # 0
    /\ Deliverable
    /\ box' = Append(box, [op |-> "K", key |-> key])

ForwardOrNot(key, pid, s) ==
    \/ forward_key_to(key, pid) /\ svc' = [s EXCEPT !.fwd = pid]
    \/ (pid = 0 \/ ~Deliverable) /\ svc' = s /\ UNCHANGED box

\* SWARM_OP_KEY: stored first, then forwarded when fieldsyncd can be found.
admit_key(key) ==
    /\ faults.admits < MaxAdmits
    /\ faults' = [faults EXCEPT !.admits = @ + 1]
    /\ ForwardOrNot(key, find_fieldsyncd_pid, [svc EXCEPT !.key = key])
    /\ UNCHANGED <<fs, swarm_asked, replies, coupled, stamped, swarmNow>>

NeverAgain(pid) == svc.fwd = 0
NeedsKey(pid) == pid # 0 /\ pid # svc.fwd

\* key_reforward_step, in a pass where its two seconds are over.
key_reforward_step ==
    /\ svc.key # 0
    /\ NeedsKey(find_fieldsyncd_pid)
    /\ forward_key_to(svc.key, find_fieldsyncd_pid)
    /\ svc' = [svc EXCEPT !.fwd = find_fieldsyncd_pid]
    /\ UNCHANGED <<fs, swarm_asked, replies, coupled, stamped, swarmNow, faults>>

\* emit_authed_reply: the body, and for a nonce its echo and a tag.
emit_authed_reply(of, nonce) == replies' = replies \cup {[of |-> of, nonce |-> nonce]}

\* The host asks once under a nonce; whether the answer is to be authenticated
\* is settled here.
Asks(n, keyed) ==
    /\ ~swarm_asked[n].job
    /\ swarm_asked' = [swarm_asked EXCEPT ![n] = [job |-> TRUE, keyed |-> keyed]]

\* SWARM_OP_STATUS: the nonce is optional; without ghostd there is no answer.
handle_status(n, framed) ==
    /\ Asks(n, svc.key # 0 /\ framed)
    /\ emit_authed_reply(n, IF svc.key # 0 /\ framed THEN n ELSE 0) \/ UNCHANGED replies
    /\ UNCHANGED <<svc, fs, box, coupled, stamped, swarmNow, faults>>

\* SWARM_OP_RECALL is answered in the clear, keyed or not.
handle_recall(n) ==
    /\ Asks(n, FALSE)
    /\ emit_authed_reply(n, 0) \/ UNCHANGED replies
    /\ UNCHANGED <<svc, fs, box, coupled, stamped, swarmNow, faults>>

\* SWARM_OP_QSUBMIT: a keyed node drops a request without a nonce, answers a
\* malformed or second one at once, and stashes the nonce of one it submitted.
qsubmit(n, framed, valid) ==
    LET nonce == IF svc.key # 0 THEN n ELSE 0
    IN  /\ framed \/ svc.key = 0
        /\ Asks(n, svc.key # 0)
        /\ \/ /\ valid /\ svc.jid = 0
              /\ svc' = [svc EXCEPT !.jid = n, !.authed = nonce # 0,
                                    !.nonce = IF nonce # 0 THEN nonce ELSE @]
              /\ UNCHANGED replies
           \/ /\ emit_authed_reply(n, nonce)     \* malformed, busy or refused by the broker
              /\ UNCHANGED svc
        /\ UNCHANGED <<fs, box, coupled, stamped, swarmNow, faults>>

\* The reply is framed by whether the node is keyed when the job ends.
StashedNonce == IF svc.authed THEN svc.nonce ELSE 0

\* qsub_poll_step on a finished job: the stashed context frames the reply.
qsub_poll_step ==
    /\ svc.jid # 0
    /\ emit_authed_reply(svc.jid, StashedNonce)
    /\ svc' = [svc EXCEPT !.jid = 0, !.authed = FALSE, !.nonce = 0]
    /\ UNCHANGED <<fs, box, swarm_asked, coupled, stamped, swarmNow, faults>>

\* swarm_svc dies and is reborn: key, stash and job are gone.
RebirthSvc ==
    /\ faults.rebirths < MaxRebirths
    /\ faults' = [faults EXCEPT !.rebirths = @ + 1]
    /\ svc' = NewSvc
    /\ UNCHANGED <<fs, box, swarm_asked, replies, coupled, stamped, swarmNow>>
----------------------------------------------------------------------------
(* fieldsyncd *)

\* note_key: install the key, clear the replay watermark.
note_key(m) ==
    /\ m.op = "K"
    /\ fs' = [fs EXCEPT !.key = m.key, !.water = 0]
    /\ coupled' = [f \in {} |-> 0]

\* note_aggregate
note_aggregate(m) ==
    /\ m.op = "A"
    /\ fs' = [fs EXCEPT !.agg = 1]
    /\ UNCHANGED coupled

\* The main loop's drain: one message per pass; a late snapshot is dropped.
DrainOne ==
    /\ fs.up /\ fs.tries = 0 /\ box # << >>
    /\ box' = Tail(box)
    /\ \/ note_key(Head(box))
       \/ note_aggregate(Head(box))
       \/ Head(box).op = "S" /\ UNCHANGED <<fs, coupled>>
    /\ UNCHANGED <<svc, swarm_asked, replies, stamped, swarmNow, faults>>

\* agentd hands over its aggregate, ghostd answers a snapshot request.
ToFieldsyncd(op) ==
    /\ Deliverable
    /\ (op = "S" => fs.tries > 0) /\ (op = "A" => fs.agg = 0)
    /\ \A i \in 1 .. Len(box) : box[i].op # op
    /\ box' = Append(box, [op |-> op, key |-> 0])
    /\ UNCHANGED <<svc, fs, swarm_asked, replies, coupled, stamped, swarmNow, faults>>

AnyAuthentic(f) == TRUE
FreshSeq(f) == f.seq > fs.water

\* A datagram from the peer: unkeyed, it is coupled as it is; keyed, it needs
\* the key's tag and a sequence above the watermark.
RecvFrame(f) ==
    /\ fs.up /\ fs.tries = 0
    /\ fs.key # 0 => f.key = fs.key /\ FreshSeq(f)
    /\ fs' = IF fs.key # 0 THEN [fs EXCEPT !.water = f.seq] ELSE fs
    /\ coupled' = IF f \in DOMAIN coupled
                  THEN [coupled EXCEPT ![f] = IF @ < 2 THEN @ + 1 ELSE @]
                  ELSE [g \in DOMAIN coupled \cup {f} |-> IF g = f THEN 1 ELSE coupled[g]]
    /\ UNCHANGED <<svc, box, swarm_asked, replies, stamped, swarmNow, faults>>

\* The send cycle begins: the aggregate, if there is one, is sent again as it
\* is, and a snapshot is asked for and awaited.
AskSnapshot ==
    /\ fs.up /\ fs.tries = 0 /\ swarmNow >= fs.due
    /\ fs' = [fs EXCEPT !.due = swarmNow + SEND_TICKS, !.tries = 1]
    /\ UNCHANGED <<svc, box, swarm_asked, replies, coupled, stamped, swarmNow, faults>>

\* Its answer ends the wait: a keyed node stamps a fresh sequence and the tag.
GotSnapshot ==
    /\ Head(box).op = "S"
    /\ fs' = [fs EXCEPT !.tries = 0, !.tx = IF fs.key # 0 THEN @ + 1 ELSE @]
    /\ stamped' = IF fs.key # 0 THEN stamped \cup {<<fs.key, fs.tx + 1, fs.pid>>} ELSE stamped
    /\ UNCHANGED coupled

\* Another message met during the wait is captured, not dropped.
CaptureOther(m) == note_key(m) \/ note_aggregate(m)

OtherMessage ==
    /\ CaptureOther(Head(box))
    /\ UNCHANGED stamped

SnapshotStep ==
    /\ fs.up /\ fs.tries > 0
    /\ \/ box # << >> /\ box' = Tail(box) /\ (GotSnapshot \/ OtherMessage)
       \/ /\ box = << >> /\ UNCHANGED <<box, coupled, stamped>>
          /\ fs' = [fs EXCEPT !.tries = IF @ < SNAPSHOT_TRIES THEN @ + 1 ELSE 0]
    /\ UNCHANGED <<svc, swarm_asked, replies, swarmNow, faults>>

\* fieldsyncd dies: its mailbox goes with it.
KillFs ==
    /\ fs.up /\ faults.rebirths < MaxRebirths /\ swarmNow < MaxSwarmTicks
    /\ faults' = [faults EXCEPT !.rebirths = @ + 1]
    /\ fs' = [fs EXCEPT !.up = FALSE, !.died = swarmNow]
    /\ box' = << >>
    /\ UNCHANGED <<svc, swarm_asked, replies, coupled, stamped, swarmNow>>

\* The health pass restarts it under a new pid, in a later tick.
RestartFs ==
    /\ ~fs.up /\ swarmNow > fs.died
    /\ fs' = NewFs(fs.pid + 1, swarmNow)
    /\ coupled' = [f \in {} |-> 0]
    /\ UNCHANGED <<svc, box, swarm_asked, replies, stamped, swarmNow, faults>>

SwarmTick ==
    /\ swarmNow < MaxSwarmTicks
    /\ swarmNow' = swarmNow + 1
    /\ UNCHANGED <<svc, fs, box, swarm_asked, replies, coupled, stamped, faults>>

\* Every frame the peer may ever send; any of them arrives any number of times.
PeerFrames == {[key |-> 0, seq |-> 0]} \cup [key : Keys, seq : 1 .. MaxPeerSeq]

SwarmNext ==
    \/ \E k \in Keys : admit_key(k)
    \/ key_reforward_step
    \/ \E n \in Nonces, framed, valid \in BOOLEAN : qsubmit(n, framed, valid)
    \/ \E n \in Nonces : \/ handle_recall(n)
                         \/ \E framed \in BOOLEAN : handle_status(n, framed)
    \/ qsub_poll_step
    \/ RebirthSvc
    \/ DrainOne
    \/ \E op \in {"A", "S"} : ToFieldsyncd(op)
    \/ \E f \in PeerFrames : RecvFrame(f)
    \/ AskSnapshot
    \/ SnapshotStep
    \/ KillFs
    \/ RestartFs
    \/ SwarmTick

\* Both citizens run: the scheduler gives every ready process its turn, and the
\* health pass restarts a dead service.
SwarmFairness ==
    /\ WF_swarmVars(key_reforward_step)
    /\ WF_swarmVars(DrainOne)
    /\ WF_swarmVars(SnapshotStep)
    /\ WF_swarmVars(RestartFs)
    /\ WF_swarmVars(SwarmTick)

SwarmSpec == SwarmInit /\ [][SwarmNext]_swarmVars /\ SwarmFairness
----------------------------------------------------------------------------
\* Once a key is installed, every frame folded in carries its tag and none is
\* folded in twice before the next installation, in whatever order and number
\* the datagrams arrive (fieldsyncd.c:316-332).
CoupledOnceAndAuthentic ==
    fs.up /\ fs.key # 0 => \A f \in DOMAIN coupled : f.key = fs.key /\ coupled[f] = 1

\* No sequence number is stamped under one key by two lives of fieldsyncd: the
\* tick seed of a rebirth is above all its predecessor sent (fieldsyncd.c:81-85).
SequencesNeverReused ==
    \A s, t \in stamped : s[1] = t[1] /\ s[2] = t[2] => s = t

\* A reply echoes the nonce of the request it answers, and is authenticated
\* exactly when a keyed node took a request that asks for it, although keys are
\* admitted while a submitted job runs (swarm_svc.c:72-77).
RepliesAsAsked ==
    \A r \in replies : r.nonce = IF swarm_asked[r.of].keyed THEN r.of ELSE 0

\* What passes between the node and its peers: a peer's frame is coupled once
\* and only when authentic, no sequence number is used twice, and a reply is made
\* as it was asked for.
PeersSound == CoupledOnceAndAuthentic /\ SequencesNeverReused /\ RepliesAsAsked

\* A keyed swarm_svc does not leave fieldsyncd keyless: through full mailboxes,
\* deaths and snapshot waits a key arrives, or swarm_svc itself has lost its own
\* (the keyless-but-wired partition of swarm_svc.c:52-56).
KeyArrives == (svc.key # 0) ~> (svc.key = 0 \/ fs.key # 0)

============================================================================

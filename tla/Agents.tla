------------------------------- MODULE Agents -------------------------------
(***************************************************************************)
(* The self-assembled society (user/agentd.c, agentsub.c): the             *)
(* orchestrator spawns its specialists, waits until each is ready, hands   *)
(* each a read-only slice of the shared region and a workspace of its own, *)
(* and counts proofs by sender.  Every wait is bounded and may run out; an *)
(* orchestrator that gives up exits, and its death revokes what it         *)
(* derived while specialists are still at work.                            *)
(***************************************************************************)
EXTENDS Integers, Sequences, FiniteSets

CONSTANTS AGENT_SUBS, MaxStrays

AgentsConstants == AGENT_SUBS \in Nat \ {0, 1} /\ MaxStrays \in Nat

ASSUME AgentsAssumption == AgentsConstants

VARIABLES agentd,    \* the orchestrator: step, index, results, who is ready and proven
          specialist,\* per specialist: step, workspace, what it saw
          agMail,    \* messages waiting: at the orchestrator, at each specialist
          agCaps,    \* field capabilities derived: <<holder, region, permission>>
          regions,   \* what is imprinted, in order: who imprinted what
          strays     \* messages of other children so far

agentsVars == <<agentd, specialist, agMail, agCaps, regions, strays>>

Subs == 1 .. AGENT_SUBS
AGENT_REGION == 3
Workspace(i) == 3 + i
Stranger == 0
Phrase == 1
Intruder == 2
Idler == [step |-> "none", ws |-> 0, recalled |-> FALSE, refused |-> 0, published |-> FALSE]

AgentsInit ==
    /\ agentd = [step |-> "qpu", i |-> 1, ok |-> [q |-> FALSE, f |-> FALSE, s |-> FALSE, d |-> FALSE],
                 spawned |-> {}, ready_from |-> {}, proven_from |-> {}, counted |-> 0]
    /\ specialist = [s \in Subs |-> Idler]
    /\ agMail = [orch |-> << >>, sub |-> [s \in Subs |-> << >>]]
    /\ agCaps = {}
    /\ regions = [r \in AGENT_REGION .. Workspace(AGENT_SUBS) |-> << >>]
    /\ strays = 0
----------------------------------------------------------------------------
(* The orchestrator *)

Steps(step) == agentd' = [agentd EXCEPT !.step = step]
SocietySame == UNCHANGED <<specialist, agMail, agCaps, regions, strays>>

\* do_qpu, do_field, do_spawn: each may fail, and the next runs all the same.
do_qpu ==
    /\ agentd.step = "qpu"
    /\ \E b \in BOOLEAN : agentd' = [agentd EXCEPT !.ok.q = b, !.step = "field"]
    /\ SocietySame

\* The phrase imprinted one region too far.
NextRegion ==
    /\ agentd.step = "field"
    /\ \/ /\ agentd' = [agentd EXCEPT !.ok.f = TRUE, !.step = "spawn"]
          /\ regions' = [regions EXCEPT ![Workspace(1)] = <<Phrase>>]
          /\ UNCHANGED <<specialist, agMail, agCaps, strays>>
       \/ Steps("spawn") /\ SocietySame

do_field ==
    /\ agentd.step = "field"
    /\ \/ /\ agentd' = [agentd EXCEPT !.ok.f = TRUE, !.step = "spawn"]
          /\ regions' = [regions EXCEPT ![AGENT_REGION] = <<Phrase>>]
          /\ UNCHANGED <<specialist, agMail, agCaps, strays>>
       \/ Steps("spawn") /\ SocietySame

do_spawn ==
    /\ agentd.step = "spawn"
    /\ \E b \in BOOLEAN : agentd' = [agentd EXCEPT !.ok.s = b, !.step = "assemble"]
    /\ SocietySame

\* do_delegate returns: the verdict, and exit, whose cleanup revokes what was
\* derived.
Finish(d) ==
    /\ agentd' = [agentd EXCEPT !.ok.d = d, !.step = "exited"]
    /\ agCaps' = {}
    /\ UNCHANGED <<specialist, agMail, regions, strays>>

Assemble ==
    /\ agentd.step = "assemble"
    /\ \/ /\ LET i == agentd.i
             IN  /\ agentd' = [agentd EXCEPT !.spawned = @ \cup {i}, !.i = IF i = AGENT_SUBS THEN 1 ELSE i + 1,
                                             !.step = IF i = AGENT_SUBS THEN "ready" ELSE @]
                 /\ specialist' = [specialist EXCEPT ![i].step = "start"]
          /\ UNCHANGED <<agMail, agCaps, regions, strays>>
       \/ Finish(FALSE)

TakeMail == agMail' = [agMail EXCEPT !.orch = Tail(@)]

\* A "ready" counts once for each of our own spawns.
CollectReady ==
    /\ agentd.step = "ready" /\ agMail.orch # << >>
    /\ LET m == Head(agMail.orch)
           r == IF m.k = "r" THEN agentd.ready_from \cup ({m.from} \cap agentd.spawned) ELSE agentd.ready_from
       IN  agentd' = [agentd EXCEPT !.ready_from = r, !.step = IF Cardinality(r) = AGENT_SUBS THEN "delegate" ELSE @]
    /\ TakeMail
    /\ UNCHANGED <<specialist, agCaps, regions, strays>>

Slices(i) == {<<i, AGENT_REGION, "READ">>, <<i, Workspace(i), "READ">>, <<i, Workspace(i), "WRITE">>}

\* Two slices for the next specialist, then its addressed "go"; a derivation
\* may fail.
Delegate ==
    /\ agentd.step = "delegate"
    /\ LET i == agentd.i
       IN  \/ Finish(FALSE)
           \/ /\ agCaps' = agCaps \cup Slices(i)
                /\ agMail' = [agMail EXCEPT !.sub[i] = Append(@, Workspace(i))]
                /\ agentd' = [agentd EXCEPT !.i = IF i = AGENT_SUBS THEN 1 ELSE i + 1,
                                            !.step = IF i = AGENT_SUBS THEN "collect" ELSE @]
                /\ UNCHANGED <<specialist, regions, strays>>

\* A proof counts for one of our delegates that has not proven yet.
ProofCounts(m) == m.from \in agentd.spawned \ agentd.proven_from

CollectProof ==
    /\ agentd.step = "collect" /\ agMail.orch # << >>
    /\ LET m == Head(agMail.orch)
           n == agentd.counted + 1
       IN  agentd' = IF m.k = "p" /\ ProofCounts(m)
                     THEN [agentd EXCEPT !.proven_from = @ \cup {m.from}, !.counted = n,
                                         !.step = IF n = AGENT_SUBS THEN "verify" ELSE @]
                     ELSE agentd
    /\ TakeMail
    /\ UNCHANGED <<specialist, agCaps, regions, strays>>

\* Each workspace holds exactly one pattern, and it is its specialist's.
Verify ==
    /\ agentd.step = "verify"
    /\ IF \A i \in Subs : regions[Workspace(i)] = <<Workspace(i)>>
       THEN Steps("handoff") /\ SocietySame
       ELSE Finish(FALSE)

\* The aggregate goes to fieldsyncd, if it runs and its mailbox has room.
HandOff == agentd.step = "handoff" /\ \E b \in BOOLEAN : Finish(b)

\* A bounded wait runs out.
GivesUp == agentd.step \in {"ready", "collect"} /\ agMail.orch = << >> /\ Finish(FALSE)
----------------------------------------------------------------------------
(* A specialist *)

\* authorize: a capability over exactly this region.
authorize(s, r, perm) == <<s, r, perm>> \in agCaps

ToOrch(s, k) == agMail' = [agMail EXCEPT !.orch = IF agentd.step = "exited" THEN @ ELSE Append(@, [from |-> s, k |-> k])]

SubReady(s) ==
    /\ specialist[s].step = "start"
    /\ specialist' = [specialist EXCEPT ![s].step = "wait"]
    /\ ToOrch(s, "r")
    /\ UNCHANGED <<agentd, agCaps, regions, strays>>

\* "g<digit>" names the workspace; the wait for it may run out, and then it
\* yields for ever.
SubGo(s) ==
    /\ specialist[s].step = "wait"
    /\ \/ /\ agMail.sub[s] # << >>
          /\ specialist' = [specialist EXCEPT ![s].step = "recall", ![s].ws = Head(agMail.sub[s])]
          /\ agMail' = [agMail EXCEPT !.sub[s] = Tail(@)]
       \/ /\ agMail.sub[s] = << >>
          /\ specialist' = [specialist EXCEPT ![s].step = "stuck"]
          /\ UNCHANGED agMail
    /\ UNCHANGED <<agentd, agCaps, regions, strays>>

\* sub_recall: the phrase comes back from a noisy probe if it was imprinted.
SubRecall(s) ==
    /\ specialist[s].step = "recall"
    /\ specialist' = [specialist EXCEPT ![s].step = "shared",
                          ![s].recalled = authorize(s, AGENT_REGION, "READ") /\ regions[AGENT_REGION] = <<Phrase>>]
    /\ UNCHANGED <<agentd, agMail, agCaps, regions, strays>>

Sibling(ws) == Workspace(1) + ((ws - Workspace(1) + 1) % AGENT_SUBS)
Imprint(s, r, what) ==
    regions' = IF authorize(s, r, "WRITE") THEN [regions EXCEPT ![r] = Append(@, what)] ELSE regions

\* The shared region and the sibling's workspace must refuse a write.
SubProbes(s, step, r, next) ==
    /\ specialist[s].step = step
    /\ Imprint(s, r, Intruder)
    /\ specialist' = [specialist EXCEPT ![s].step = next,
                          ![s].refused = IF authorize(s, r, "WRITE") THEN @ ELSE @ + 1]
    /\ UNCHANGED <<agentd, agMail, agCaps, strays>>

SubPublishes(s) ==
    /\ specialist[s].step = "publish"
    /\ Imprint(s, specialist[s].ws, specialist[s].ws)
    /\ specialist' = [specialist EXCEPT ![s].step = "sibling", ![s].published = authorize(s, specialist[s].ws, "WRITE")]
    /\ UNCHANGED <<agentd, agMail, agCaps, strays>>

\* The proof is sent only when everything was as it should be; then exit.
SubAcks(s) ==
    /\ specialist[s].step = "ack"
    /\ LET x == specialist[s]
       IN  IF x.recalled /\ x.refused = 2 /\ x.published THEN ToOrch(s, "p") ELSE UNCHANGED agMail
    /\ specialist' = [specialist EXCEPT ![s].step = "gone"]
    /\ UNCHANGED <<agentd, agCaps, regions, strays>>

\* Another child of the orchestrator has a channel to it as well.
StrayMessage(k) ==
    /\ strays < MaxStrays /\ agentd.step # "exited"
    /\ strays' = strays + 1
    /\ agMail' = [agMail EXCEPT !.orch = Append(@, [from |-> Stranger, k |-> k])]
    /\ UNCHANGED <<agentd, specialist, agCaps, regions>>

AgentsNext ==
    \/ do_qpu \/ do_field \/ do_spawn \/ Assemble \/ CollectReady
    \/ Delegate \/ CollectProof \/ Verify \/ HandOff \/ GivesUp
    \/ \E s \in Subs : \/ SubReady(s) \/ SubGo(s) \/ SubRecall(s)
                       \/ SubProbes(s, "shared", AGENT_REGION, "publish")
                       \/ SubPublishes(s)
                       \/ SubProbes(s, "sibling", Sibling(specialist[s].ws), "ack")
                       \/ SubAcks(s)
    \/ \E k \in {"r", "p"} : StrayMessage(k)

AgentsSpec == AgentsInit /\ [][AgentsNext]_agentsVars
----------------------------------------------------------------------------
\* A society that reports success has a proof from every specialist: each
\* recalled the phrase, published in its own workspace and was refused
\* elsewhere, whatever other children sent meanwhile (agentd.c:279).
DemoMeansAll ==
    agentd.ok.d => \A s \in Subs : /\ specialist[s].recalled
                                   /\ specialist[s].refused = 2
                                   /\ regions[Workspace(s)] = <<Workspace(s)>>

\* No region ever holds what an uninvited writer imprinted, at whatever moment
\* the orchestrator delegates, gives up and dies (agentsub.c:100).
WorkspacesOwn ==
    /\ \A s \in Subs : regions[Workspace(s)] \in {<< >>, <<Workspace(s)>>}
    /\ regions[AGENT_REGION] \in {<< >>, <<Phrase>>}

\* Both: success means that every specialist proved itself, and a specialist
\* writes only the workspace it was given.
AgentsSound == DemoMeansAll /\ WorkspacesOwn
============================================================================

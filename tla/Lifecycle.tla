----------------------------- MODULE Lifecycle -----------------------------
(***************************************************************************)
(* Processes, services and the authority they hold: the process table      *)
(* (process.c), the service manager and its health monitor (service.c),    *)
(* the intent manifests (manifest.c) and the system calls that create      *)
(* processes and pass authority on (syscall.c: SYS_EXIT, SYS_SPAWN,        *)
(* SYS_CAP_DERIVE), over the capability table of module CapTable.          *)
(*                                                                         *)
(* One CPU.  A system call, start_slot's and service_stop's brackets and   *)
(* the idle loop's reaper run with interrupts off, so each is one step;    *)
(* the health monitor is an ordinary thread, so between its brackets any   *)
(* other process may run.  Pids are slots of the process table, handed out *)
(* first-fit and recycled; a slot's generation tells the incarnations      *)
(* apart.  The boot sequence runs with interrupts off before anything else.*)
(*                                                                         *)
(* Only ring-3 processes are modelled.  Whether a service misses its       *)
(* heartbeats is left open: the monitor may find any running monitored     *)
(* service unresponsive.                                                   *)
(***************************************************************************)
EXTENDS CapTable, Sequences, Functions

CONSTANTS
  Pids,         \* the process slots ring-3 processes can get
  Services,     \* the registered services in the order they are started
  Def,          \* their definitions: grants, spawn_max, spawn_channel,
                \*   monitored, max_restarts
  Peers,        \* their declared IPC peers, service by service in that
                \*   order: [of, peer, to, from]
  HandWired,    \* channels that boot mints by hand (citizens.c)
  MaxRows,      \* MANIFEST_MAX_ENTRIES (8)
  Requests,     \* what delegators ask for: [res, perms]
  Expirations,  \* expirations they ask for, 0 = never
  MaxTicks,     \* bound on the clock
  MaxGen        \* bound on the incarnations of a pid

Names == Range(Services)

ASSUME PidsAssumption == Pids \subseteq Nat \ {0} /\ IsFiniteSet(Pids)
(* service_register() takes a name once.  What a service may do to another *)
(* is declared as a peer, not as a grant, and never carries the right to   *)
(* pass it on; and a pair is declared by one of its two sides only         *)
(* ("single-sided declaration", start_slot) or wired by hand.              *)
ASSUME ServicesAssumption ==
  /\ Services \in Seq(Names)
  /\ \A i, j \in DOMAIN Services : Services[i] = Services[j] => i = j
ASSUME MaxRowsAssumption == MaxRows \in Nat
ASSUME ExpirationsAssumption == Expirations \subseteq Nat
ASSUME DefAssumption ==
  \A s \in Names :
    /\ Def[s].grants \in Seq(Range(Def[s].grants))
    /\ Len(Def[s].grants) <= MaxRows
    /\ \A g \in Range(Def[s].grants) : g.res[1] # "IPC"
    /\ Def[s].spawn_max \in Nat /\ Def[s].spawn_channel \in BOOLEAN
    /\ Def[s].max_restarts \in Nat \ {0}
ASSUME PeersAssumption ==
  /\ Peers \in Seq(Range(Peers)) /\ HandWired \in Seq(Names \X Names)
  /\ \A d \in Range(Peers) : /\ {d.of, d.peer} \subseteq Names /\ d.of # d.peer
                             /\ "GRANT" \notin d.to \cup d.from
  /\ \A i, j \in DOMAIN Peers :
       {Peers[i].of, Peers[i].peer} = {Peers[j].of, Peers[j].peer} => i = j
  /\ \A d \in Range(Peers), w \in Range(HandWired) : {d.of, d.peer} # {w[1], w[2]}

VARIABLES
  boot,   \* how many services boot has started; one more once it has wired
  proc,   \* process_table: state and generation of every slot, and as a
          \*   history the (pid, generation) that spawned it with a channel
  man,    \* manifest_table
  ct,     \* cap_table
  svc,    \* services[]: state, pid, pid_generation, restart_count
  mon,    \* the health monitor: where in service_restart it is, for whom
  now     \* timer_get_ticks()

vars == <<boot, proc, man, ct, svc, mon, now>>

SPAWN == <<"PROCESS", 0>>       \* (CAP_RESOURCE_PROCESS, SPAWN_RESOURCE_ID)
RW == {"READ", "WRITE"}
Nobody == <<0, 0>>
Idle == [pc |-> "idle", s |-> "none"]

NoManifest == [bound |-> FALSE, rows |-> {}, spawn_max |-> 0,
               spawn_channel |-> FALSE, spawn_used |-> 0]

Init ==
  /\ boot = 0
  /\ proc = [p \in Pids |-> [state |-> "UNUSED", generation |-> 0,
                             spawner |-> Nobody]]
  /\ man = [p \in Pids |-> NoManifest]
  /\ ct = EmptyTable
  /\ svc = [s \in Names |-> [state |-> "STOPPED", pid |-> 0,
                             generation |-> 0, restarts |-> 0]]
  /\ mon = Idle
  /\ now = 0

Booted == boot > Len(Services)
(* Op(t), written so that TLC evaluates t only once: the brackets below    *)
(* make a dozen changes to the table one after the other.                  *)
Then(t, Op(_)) == CHOOSE r \in {Op(v) : v \in {t}} : TRUE
-----------------------------------------------------------------------------
(* Processes.                                                              *)

Unused == {p \in Pids : proc[p].state = "UNUSED"}
Live(p) == proc[p].state = "LIVE"     \* READY or RUNNING; nothing blocks
find_free_pid == Lowest(Unused)

(* process_create() for pid p: the next incarnation of the slot ...        *)
Create(p, spawner) ==
  [proc EXCEPT ![p] = [state |-> "LIVE", generation |-> @.generation + 1,
                       spawner |-> spawner]]
(* ... its root capability, full authority over itself.                    *)
RootCap(t, p) == cap_create(t, p, <<"PROCESS", p>>, Perms, 0)

(* The manifest finalize_user_process() binds to every ring-3 process.     *)
DefaultManifest == [NoManifest EXCEPT !.bound = TRUE]

(* Mutant: process_destroy() without the unlink of the surviving peers'    *)
(* capabilities.                                                           *)
SweepWithoutUnlink(t, dead) == cap_revoke_all_for_process(t, dead)

(* What process_destroy() of the pids in dead does to the capability table *)
Sweep(t, dead) ==
  Then(cap_revoke_all_for_process(t, dead),
       LAMBDA v : cap_revoke_ipc_targets(v, dead))

(* process_destroy(), for a set of pids destroyed one after the other with *)
(* interrupts off.                                                         *)
Destroy(dead) ==
  /\ ct' = Sweep(ct, dead)
  /\ man' = [p \in Pids |-> IF p \in dead THEN NoManifest ELSE man[p]]
  /\ proc' = [p \in Pids |->
                IF p \in dead
                THEN [proc[p] EXCEPT !.state = "UNUSED", !.spawner = Nobody]
                ELSE proc[p]]

(* sys_exit(), a contained user fault, the CPU-quota kill.                 *)
Exit(p) ==
  /\ Booted
  /\ Live(p)
  /\ proc' = [proc EXCEPT ![p].state = "TERMINATED"]
  /\ UNCHANGED <<boot, man, ct, svc, mon, now>>

(* process_reap(), from the idle loop.                                     *)
Terminated == {p \in Pids : proc[p].state = "TERMINATED"}
Reap ==
  /\ Booted
  /\ Terminated # {}
  /\ Destroy(Terminated)
  /\ UNCHANGED <<boot, svc, mon, now>>

Tick == /\ Booted
        /\ now < MaxTicks
        /\ now' = now + 1
        /\ UNCHANGED <<boot, proc, man, ct, svc, mon>>
-----------------------------------------------------------------------------
(* Services.                                                               *)

(* The process in slot p is the one that was started for service s.        *)
Holds(p, s) ==
  /\ p \in Pids \ Unused
  /\ svc[s].pid = p
  /\ svc[s].generation = proc[p].generation

slot_peer_live(s) == svc[s].state = "RUNNING" /\ Holds(svc[s].pid, s)

service_pid_is_monitored(p) ==
  \E s \in Names : /\ svc[s].state = "RUNNING"
                   /\ Holds(p, s)
                   /\ Def[s].monitored

(* One direction of a pair; an empty permission word is skipped.           *)
Offer(t, owner, target, perms) ==
  IF perms = {} THEN t
  ELSE Then(t, LAMBDA v : cap_create(v, owner, IpcTo(target), perms, 0))

(* mint_ipc_pair(): both directions or none.                               *)
Full(t, perms) == perms # {} /\ FreeSlots(t) = {}
MintBack(t, t1, a, b, to, from) ==
  CASE Full(t, to)                                   -> t
    [] ~ Full(t, to) /\ ~ Full(t1, from)             -> Offer(t1, b, a, from)
    [] ~ Full(t, to) /\ Full(t1, from) /\ t1 = t     -> t
    [] ~ Full(t, to) /\ Full(t1, from) /\ t1 # t     ->
         cap_revoke(t1, FirstFree(t), a)
mint_ipc_pair(t, a, b, to, from) ==
  Then(t, LAMBDA v : Then(Offer(v, a, b, to),
                          LAMBDA v1 : MintBack(v, v1, a, b, to, from)))

(* Root capabilities minted one after the other: [owner, res, perms].      *)
MintAll(t, roots) ==
  LET minted[i \in 0 .. Len(roots)] ==
        IF i = 0 THEN t
        ELSE Then(minted[i - 1],
                  LAMBDA v : cap_create(v, roots[i].owner, roots[i].res, roots[i].perms, 0))
  IN  minted[Len(roots)]

(* The capabilities start_slot() mints for the process p of service s: the *)
(* service's own and the declared grants ...                               *)
Grants(s, p) ==
  [i \in 1 .. Len(Def[s].grants) + 1 |->
     IF i = 1 THEN [owner |-> p, res |-> <<"SERVICE", s>>, perms |-> RW]
     ELSE [owner |-> p, res |-> Def[s].grants[i - 1].res, perms |-> Def[s].grants[i - 1].perms]]
MintGrants(t, s, p) == MintAll(t, Grants(s, p))

(* ... and the declared pairs in Which between p, which is to serve s, and *)
(* the processes of the services at their other ends:                      *)
PidOf(o, s, p) == IF o = s THEN p ELSE svc[o].pid
WirePairs(t, Which, s, p) ==
  LET wired[i \in 0 .. Len(Peers)] ==
        IF i = 0 THEN t
        ELSE IF i \notin Which THEN wired[i - 1]
        ELSE LET d == Peers[i]
             IN  Then(wired[i - 1],
                      LAMBDA v : mint_ipc_pair(v, PidOf(d.of, s, p), PidOf(d.peer, s, p),
                                               d.to, d.from))
  IN  wired[Len(Peers)]

(* Pass 1, the pairs s declares with peers that are up ...                 *)
Pass1Pairs(s) == {i \in DOMAIN Peers : Peers[i].of = s /\ slot_peer_live(Peers[i].peer)}
Pass1(t, s, p) == WirePairs(t, Pass1Pairs(s), s, p)

(* Mutant: Pass 2 looks at the first declaration of each service only.     *)
FirstPairs(s) ==
  {i \in DOMAIN Peers : /\ Peers[i].peer = s /\ slot_peer_live(Peers[i].of)
                        /\ \A j \in 1 .. i - 1 : Peers[j].of # Peers[i].of}
(* ... and Pass 2, the pairs that services that are up declare with s.     *)
Pass2Pairs(s) == {i \in DOMAIN Peers : Peers[i].peer = s /\ slot_peer_live(Peers[i].of)}
Pass2(t, s, p) == WirePairs(t, Pass2Pairs(s), s, p)

GrantManifest(s) ==
  [bound |-> TRUE, rows |-> {g.res : g \in Range(Def[s].grants)},
   spawn_max |-> Def[s].spawn_max, spawn_channel |-> Def[s].spawn_channel,
   spawn_used |-> 0]

(* start_slot()'s bracket: spawn, mint, bind, wire, record.                *)
StartCommit(s) ==
  /\ Unused # {}
  /\ LET p == find_free_pid
     IN  /\ proc' = Create(p, Nobody)
         /\ ct' = Then(Pass1(MintGrants(RootCap(ct, p), s, p), s, p),
                       LAMBDA v : Pass2(v, s, p))
         /\ man' = [man EXCEPT ![p] = GrantManifest(s)]
         /\ svc' = [svc EXCEPT ![s].state = "RUNNING", ![s].pid = p,
                               ![s].generation = proc'[p].generation]

(* ... or the spawn fails (no free pid, no memory): the slot is left       *)
(* CRASHED and nothing else changes.                                       *)
StartFails(s) ==
  /\ svc' = [svc EXCEPT ![s].state = "CRASHED"]
  /\ UNCHANGED <<proc, man, ct>>

(* Boot: every service in order, then the channels minted by hand.         *)
BootStart ==
  /\ boot < Len(Services)
  /\ StartCommit(Services[boot + 1])
  /\ boot' = boot + 1
  /\ UNCHANGED <<mon, now>>

BootWire ==
  /\ boot = Len(Services)
  /\ ct' = MintAll(ct, [i \in DOMAIN HandWired |->
                           [owner |-> svc[HandWired[i][1]].pid,
                            res |-> IpcTo(svc[HandWired[i][2]].pid), perms |-> RW]])
  /\ boot' = boot + 1
  /\ UNCHANGED <<proc, man, svc, mon, now>>

(* Mutant: the scan looks only at services whose process is still there.   *)
TripAlive(s) ==
  /\ Booted
  /\ mon = Idle
  /\ Def[s].monitored
  /\ slot_peer_live(s)
  /\ svc' = [svc EXCEPT ![s].state = "CRASHED"]
  /\ mon' = [pc |-> "stop", s |-> s]
  /\ UNCHANGED <<boot, proc, man, ct, now>>
(* health_monitor_scan() finds a monitored service unresponsive.           *)
Trip(s) ==
  /\ Booted
  /\ mon = Idle
  /\ Def[s].monitored
  /\ svc[s].state = "RUNNING"
  /\ svc' = [svc EXCEPT ![s].state = "CRASHED"]
  /\ mon' = [pc |-> "stop", s |-> s]
  /\ UNCHANGED <<boot, proc, man, ct, now>>

(* Mutant: service_stop() destroys whatever has the pid now.               *)
RetiredByPid(s) == {svc[s].pid} \cap (Pids \ Unused)
(* The process service_stop() destroys: the one it started, if it is still *)
(* there, and never another that has got its pid.                          *)
Retired(s) == {p \in {svc[s].pid} : Holds(p, s)}

(* The restart budget of service_restart().                                *)
BudgetSpent(s) == svc[s].restarts >= Def[s].max_restarts

(* service_stop(), called from service_restart(), which gives up when the  *)
(* restart budget is spent and otherwise goes on to start_slot().          *)
Stop(s) ==
  /\ mon = [pc |-> "stop", s |-> s]
  /\ Destroy(Retired(s))
  /\ \/ /\ BudgetSpent(s)
        /\ svc' = [svc EXCEPT ![s].state = "STOPPED", ![s].pid = 0]
        /\ mon' = Idle
     \/ /\ ~ BudgetSpent(s)
        /\ svc' = [svc EXCEPT ![s].state = "STOPPED", ![s].pid = 0,
                              ![s].restarts = @ + 1]
        /\ mon' = [pc |-> "start", s |-> s]
  /\ UNCHANGED <<boot, now>>

(* The start_slot() that follows it.                                       *)
Restart(s) ==
  /\ mon = [pc |-> "start", s |-> s]
  /\ StartCommit(s) \/ StartFails(s)
  /\ mon' = Idle
  /\ UNCHANGED <<boot, now>>
-----------------------------------------------------------------------------
(* System calls that pass authority on.                                    *)

manifest_check(p, res) == ~ man[p].bound \/ res \in man[p].rows
authorize(p, res, perm) ==
  cap_find_resource(ct, p, res, perm, now) /\ manifest_check(p, res)

manifest_spawn_precheck(p) ==
  ~ man[p].bound \/ man[p].spawn_max = 0 \/ man[p].spawn_used < man[p].spawn_max

(* The capacity check of sys_spawn() when the caller opted into a channel. *)
ChannelFits(p) == man[p].spawn_channel => ct.active + 2 <= MaxCaps

Channel(t, p, c) == Offer(Offer(t, p, c, RW), c, p, RW)

(* sys_spawn() by process p.                                               *)
SysSpawn(p) ==
  /\ Booted
  /\ Live(p)
  /\ authorize(p, SPAWN, {"EXECUTE"})
  /\ manifest_spawn_precheck(p)
  /\ ChannelFits(p)
  /\ Unused # {}
  /\ LET c  == find_free_pid
         t  == RootCap(ct, c)
         by == IF man[p].spawn_channel THEN <<p, proc[p].generation>>
                                       ELSE Nobody
     IN  /\ proc[c].generation < MaxGen
         /\ proc' = Create(c, by)
         /\ ct' = IF man[p].spawn_channel THEN Channel(t, p, c) ELSE t
         /\ man' = [man EXCEPT ![c] = DefaultManifest, ![p].spawn_used = @ + 1]
  /\ UNCHANGED <<boot, svc, mon, now>>

(* Mutant: no room check before the mint.                                  *)
RoomForOneMore(p) == man[p].bound /\ Cardinality(man[p].rows) <= MaxRows
manifest_has_room(p) == man[p].bound /\ Cardinality(man[p].rows) < MaxRows

(* manifest_grant(): idempotent, and refused when the manifest is full.    *)
manifest_grant(m, res) ==
  IF m.bound /\ Cardinality(m.rows) < MaxRows
  THEN [m EXCEPT !.rows = @ \cup {res}] ELSE m

(* Whom SYS_CAP_DERIVE lets p delegate to: another live ring-3 process it  *)
(* holds a send capability for, and not a monitored service.               *)
MayDelegateTo(p, q) ==
  /\ q \in Pids \ {p}
  /\ Live(q)
  /\ ~ service_pid_is_monitored(q)
  /\ cap_find_resource(ct, p, IpcTo(q), {"WRITE"}, now)

(* sys_cap_derive() by p: a narrowed capability for process q.             *)
SysCapDerive(p, q, req, exp) ==
  /\ Booted
  /\ Live(p)
  /\ req.perms # {} /\ req.perms \cap {"GRANT", "REVOKE"} = {}
  /\ MayDelegateTo(p, q)
  /\ manifest_check(p, req.res)
  /\ ~ cap_find_resource(ct, q, req.res, req.perms, now)
  /\ cap_find_resource(ct, p, req.res, req.perms \cup {"GRANT"}, now)
  /\ manifest_has_room(q)
  /\ LET parent == cap_find_id(ct, p, req.res, req.perms \cup {"GRANT"}, now)
     IN  /\ MayDerive(ct, parent, p, req.perms, now)
         /\ FreeSlots(ct) # {}
         /\ ct' = cap_derive(ct, parent, p, q, req.perms, exp, now)
  /\ man' = [man EXCEPT ![q] = manifest_grant(@, req.res)]
  /\ UNCHANGED <<boot, proc, svc, mon, now>>
-----------------------------------------------------------------------------
Next ==
  \/ BootStart \/ BootWire \/ Reap \/ Tick
  \/ \E p \in Pids : Exit(p) \/ SysSpawn(p)
  \/ \E p, q \in Pids, r \in Requests, e \in Expirations : SysCapDerive(p, q, r, e)
  \/ \E s \in Names : Trip(s) \/ Stop(s) \/ Restart(s)

Spec == Init /\ [][Next]_vars

(* The reaper's loop and the monitor thread are in the scheduler's         *)
(* rotation, so each keeps taking its steps; a service whose process is    *)
(* gone no longer heartbeats, so the monitor finds it.                     *)
Gone(s) == svc[s].state = "RUNNING"
             /\ ~ \E p \in Pids : Live(p) /\ Holds(p, s)
Fairness ==
  /\ WF_vars(BootStart) /\ WF_vars(BootWire) /\ WF_vars(Reap)
  /\ \A s \in Names : /\ WF_vars(Gone(s) /\ Trip(s))
                      /\ WF_vars(Stop(s))
                      /\ WF_vars(Restart(s))
FairSpec == Spec /\ Fairness
-----------------------------------------------------------------------------
(* The resources a manifest row can name.                                  *)
Rows == {g.res : g \in Requests \cup UNION {Range(Def[s].grants) : s \in Names}}

TypeOK ==
  /\ boot \in 0 .. Len(Services) + 1
  /\ proc \in [Pids -> [state : {"UNUSED", "LIVE", "TERMINATED"},
                        generation : Nat, spawner : ({0} \cup Pids) \X Nat]]
  /\ man \in [Pids -> [bound : BOOLEAN, rows : SUBSET Rows, spawn_max : Nat,
                       spawn_channel : BOOLEAN, spawn_used : Nat]]
  /\ \A p \in Pids : Cardinality(man[p].rows) <= MaxRows
  /\ TableShape(ct)
  /\ svc \in [Names -> [state : {"STOPPED", "RUNNING", "CRASHED"},
                        pid : {0} \cup Pids, generation : Nat, restarts : Nat]]
  /\ \A s \in Names : svc[s].restarts <= Def[s].max_restarts
  /\ mon \in {Idle} \cup [pc : {"stop", "start"}, s : Names]
  /\ now \in Nat

(* The pair of declared permission words between services a and b, seen    *)
(* from the side of a: what a may hold on b.                               *)
DeclaredTo(a, b, perms) ==
  \E d \in Range(Peers) : \/ d.of = a /\ d.peer = b /\ d.to = perms
                          \/ d.of = b /\ d.peer = a /\ d.from = perms
Incarnation(p) == <<p, proc[p].generation>>

(* No process ever holds a channel that was wired for another one.  Both   *)
(* ends of every IPC capability exist, and either they are the processes   *)
(* now serving two services whose definitions (or the boot script) pair    *)
(* them with exactly these permissions, or one is the very incarnation     *)
(* that spawned the other with a channel.  Pids are recycled first-fit at  *)
(* any time, before the monitor notices a death and in the middle of a     *)
(* restart (process_destroy's unlink, slot_peer_live's generation guard).  *)
ChannelIsMeant(owner, target, perms) ==
  /\ {owner, target} \subseteq Pids \ Unused
  /\ \/ \E a, b \in Names :
          /\ Holds(owner, a) /\ Holds(target, b)
          /\ \/ DeclaredTo(a, b, perms)
             \/ <<a, b>> \in Range(HandWired) /\ perms = RW
     \/ proc[target].spawner = Incarnation(owner) /\ perms = RW
     \/ proc[owner].spawner = Incarnation(target) /\ perms = RW
ChannelsAreMeant ==
  \A s \in InUse(ct) :
    LET c == ct.cap[s] IN
    c.res[1] = "IPC" => ChannelIsMeant(c.owner, c.res[2], c.perms)

(* Nor any other authority: what a process holds is its root capability,   *)
(* what the definition of the service it now serves grants, or what a      *)
(* process that still has a channel to it derived for it, in one hop and   *)
(* never with CAP_GRANT or CAP_REVOKE.  Nothing survives its owner and     *)
(* nothing passes to the next holder of the pid (start_slot, SYS_SPAWN,    *)
(* SYS_CAP_DERIVE, process_destroy).                                       *)
Delegated(s) ==
  \E p \in InUse(ct) :
    /\ IsChildOf(ct, s, p)
    /\ ct.cap[p].parent = CAP_ID_INVALID
    /\ ct.cap[s].perms \cap {"GRANT", "REVOKE"} = {}
    /\ \E t \in InUse(ct) : /\ ct.cap[t].owner = ct.cap[p].owner
                            /\ ct.cap[t].res = IpcTo(ct.cap[s].owner)
                            /\ "WRITE" \in ct.cap[t].perms
Granted(c) ==
  \/ c.res = <<"PROCESS", c.owner>>
  \/ \E s \in Names :
       /\ Holds(c.owner, s)
       /\ \/ c.res = <<"SERVICE", s>>
          \/ \E g \in Range(Def[s].grants) : c.res = g.res /\ c.perms = g.perms
AuthorityIsMeant ==
  \A s \in InUse(ct) :
    LET c == ct.cap[s] IN
    /\ c.owner \in Pids \ Unused
    /\ c.res[1] # "IPC" =>
         IF s \in Derived(ct) THEN Delegated(s) ELSE Granted(c)

(* Intent covers authority: a process can use every resource capability it *)
(* holds, because its manifest has a row for it, and it holds one for      *)
(* nothing it did not declare or was not delegated.  In particular the     *)
(* manifest never fills up between the room check and the extension that   *)
(* makes a delegated capability usable (SYS_CAP_DERIVE, manifest_grant).   *)
IntentCoversAuthority ==
  \A s \in InUse(ct) :
    LET c == ct.cap[s] IN
    (c.res[1] \in {"IPC", "SERVICE"} \/ c.res = <<"PROCESS", c.owner>>)
      \/ c.res \in man[c.owner].rows

(* The number of channels from the process of a to the process of b.       *)
Channels(a, b) ==
  Cardinality({s \in InUse(ct) : /\ ct.cap[s].owner = svc[a].pid
                                 /\ ct.cap[s].res = IpcTo(svc[b].pid)})
Needed(perms) == IF perms = {} THEN 0 ELSE 1
Up(s) == svc[s].state = "RUNNING" /\ Live(svc[s].pid) /\ Holds(svc[s].pid, s)

(* Whenever both ends of a declared pair are up, the pair is wired, once   *)
(* in each declared direction, in whatever order the two died, were        *)
(* reaped and were started again (Pass 1 and Pass 2 of start_slot; the     *)
(* singleton invariant of #176).  Needs a capability table with room.      *)
PairsWired ==
  Booted => \A d \in Range(Peers) : Up(d.of) /\ Up(d.peer) =>
    /\ Channels(d.of, d.peer) = Needed(d.to)
    /\ Channels(d.peer, d.of) = Needed(d.from)

(* Even with no room in the table a declared pair is whole or absent.      *)
PairsWhole ==
  \A d \in Range(Peers) : Up(d.of) /\ Up(d.peer) =>
    \/ Channels(d.of, d.peer) = 0 /\ Channels(d.peer, d.of) = 0
    \/ /\ Channels(d.of, d.peer) = Needed(d.to)
       /\ Channels(d.peer, d.of) = Needed(d.from)

(* Whatever a process can do or send, somebody meant it to, and what a     *)
(* declaration or a spawn pairs is not left half open.                     *)
AuthoritySound == AuthorityIsMeant /\ ChannelsAreMeant /\ PairsWhole

(* A reborn service regains the authority its definition grants, given     *)
(* room in the table: a process that serves s can exercise every grant.    *)
GrantsHeld ==
  \A s \in Names : Up(s) =>
    \A g \in Range(Def[s].grants) : authorize(svc[s].pid, g.res, g.perms)

(* What a declaration promises a service that is up: its peers and its     *)
(* grants, through every order of deaths and restarts.                     *)
WiringSound == PairsWired /\ GrantsHeld

(* The monitor never harms an innocent process: what service_stop destroys *)
(* was started for the service it stops, although the pid in the slot may  *)
(* have been recycled meanwhile.                                           *)
InnocentsSurvive ==
  [][\A s \in Names : Stop(s) =>
       \A p \in Pids \ Unused : proc'[p].state = "UNUSED" => Holds(p, s)]_vars

(* A monitored service whose process is gone is eventually up again,       *)
(* unless the monitor gave up on it (its restarts are used up) or the      *)
(* spawn failed.  A restart is not lost when the pid is reaped and         *)
(* recycled, or when other services are restarted, in between.             *)
GivenUp(s) == svc[s].state = "STOPPED" /\ mon.s # s
                /\ svc[s].restarts = Def[s].max_restarts
SpawnFailed(s) == svc[s].state = "CRASHED" /\ mon.s # s
ServicesComeBack ==
  \A s \in Names : Def[s].monitored =>
    (Gone(s) ~> (Up(s) \/ GivenUp(s) \/ SpawnFailed(s)))

(* A dead process does not hold on to its pid and its capabilities: again  *)
(* and again no slot waits for the reaper or the monitor, which race for   *)
(* it.                                                                     *)
DeadAreReaped == (Terminated # {}) ~> (Terminated = {})

(* Nothing is forgotten: neither a service that is gone nor a process that *)
(* is dead (health_monitor_thread, process_reap).                          *)
ServicesRecover == ServicesComeBack /\ DeadAreReaped

(* syscall.c (sys_spawn): "a returned pid ALWAYS carries a fully wired     *)
(* bidirectional channel".                                                 *)
SpawnChannelWhole ==
  \A p, c \in Pids \ Unused :
    proc[c].spawner = Incarnation(p) =>
      /\ \E s \in InUse(ct) : ct.cap[s].owner = p /\ ct.cap[s].res = IpcTo(c)
      /\ \E s \in InUse(ct) : ct.cap[s].owner = c /\ ct.cap[s].res = IpcTo(p)
=============================================================================

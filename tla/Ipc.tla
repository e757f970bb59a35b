-------------------------------- MODULE Ipc --------------------------------
(***************************************************************************)
(* Message passing between processes (kernel/src/ipc/ipc.c): one doubly    *)
(* linked list of queue entries per process slot, entries recycled through *)
(* a free list, and the system calls and process events that use them.     *)
(*                                                                         *)
(* Pointers are addresses, 0 is NIL.   System calls, the reaper and        *)
(* service_stop run with interrupts off, so each is one step.  A message   *)
(* is its sender_id and message_id; its bytes pass through untouched.  The *)
(* boost that a successful ipc_send() gives its receiver is modelled in    *)
(* Scheduler, the capability table in CapTable: here it is the set of      *)
(* pairs <<owner, target>> of the IPC capabilities with CAP_WRITE.         *)
(* Statistics (dropped, total_sent, ...) are left out: nothing reads them. *)
(***************************************************************************)
EXTENDS Naturals, FiniteSets, SequencesExt

CONSTANTS MailPids,       \* process slots of ring-3 processes
          MaxQueue,   \* IPC_MAX_QUEUE_SIZE (64)
          MaxEntries, \* how many queue entries the kernel heap has room for
          MaxSends,   \* bound on next_message_id
          MailChannels,   \* the pairs that are ever wired
          ANY,        \* IPC_PID_ANY
          CLOSED      \* no process

ASSUME MailPidsAssumption == MailPids \subseteq Nat \ {0} /\ IsFiniteSet(MailPids)
ASSUME ChannelsAssumption == MailChannels \subseteq MailPids \X MailPids
ASSUME MailBoundsAssumption == {MaxQueue, MaxEntries, MaxSends} \subseteq Nat \ {0}
ASSUME ClosedAssumption == CLOSED \notin Seq([sender_id : MailPids, message_id : Nat])

NIL == 0
Entries == 1 .. MaxEntries
NoLetter == [sender_id |-> ANY, message_id |-> 0]

VARIABLES
  mstate,           \* process_table[pid].state: unused, live or terminated
  may,             \* who holds a send capability for whom
  queue,           \* process_queues[pid] and queue_initialized[pid]
  mem,             \* the queue entries: next, prev and message
  entry_free_list, \* the first free entry
  entries_allocated,       \* how many entries kmalloc() has handed out: 1 .. entries_allocated
  next_message_id,
  told,            \* what the last system call told its caller
  peak             \* history: the most messages that were ever queued at once

mailVars == <<mstate, may, queue, mem, entry_free_list, entries_allocated,
          next_message_id, told, peak>>
lists == <<queue, mem, entry_free_list, entries_allocated>>

EmptyQueue(open) == [head |-> NIL, tail |-> NIL, count |-> 0, open |-> open]
Present == {p \in MailPids : mstate[p] # "unused"}
Least(S) == CHOOSE s \in S : \A t \in S : s <= t

(* The memory of the lists as one value, so that an operation can be       *)
(* composed of the code's steps.                                           *)
Heap == [queue |-> queue, mem |-> mem, free |-> entry_free_list,
         allocated |-> entries_allocated]
SetLists(h) == /\ queue' = h.queue
              /\ mem' = h.mem
              /\ entry_free_list' = h.free
              /\ entries_allocated' = h.allocated

(* kmalloc(): the heap serves the rest of the kernel too, so it may fail   *)
(* at any time; the entries it hands out are numbered in that order.       *)
kmalloc_entry(h) ==
  {<<NIL, h>>} \cup
  (IF h.allocated < MaxEntries
   THEN {<<h.allocated + 1, [h EXCEPT !.allocated = @ + 1]>>}
   ELSE {})

(* The entries queue_alloc_entry() may return, each with the heap after it.*)
AllocNeverRecycles(h) == kmalloc_entry(h)   \* mutant: the free list is never used
queue_alloc_entry(h) ==
  IF h.free # NIL THEN {<<h.free, [h EXCEPT !.free = h.mem[h.free].next]>>}
                   ELSE kmalloc_entry(h)

(* The message a free entry still holds is never read: it is left out.     *)
queue_free_entry(h, e) ==
  [h EXCEPT !.mem[e] = [next |-> h.free, prev |-> NIL, message |-> NoLetter],
            !.free = e]

QueueFull(q) == q.count >= MaxQueue

(* The rest of queue_enqueue(), once it has an entry.                      *)
Link(h, p, e, letter) ==
  LET q  == h.queue[p]
      t  == q.tail
      m  == [h.mem EXCEPT ![e] = [next |-> NIL, prev |-> t, message |-> letter]]
  IN  [h EXCEPT !.mem = IF t # NIL THEN [m EXCEPT ![t].next = e] ELSE m,
                !.queue[p] = [q EXCEPT !.head = IF t # NIL THEN @ ELSE e,
                                       !.tail = e,
                                       !.count = @ + 1]]

(* The entries that next pointers lead to from e, in order; a walk that    *)
(* would not end is cut off.                                               *)
Chain(m, e) ==
  LET walk[n \in 0 .. MaxEntries + 1] ==
        [x \in Entries \cup {NIL} |->
           IF n = 0 \/ x = NIL THEN <<>> ELSE <<x>> \o walk[n - 1][m[x].next]]
  IN  walk[MaxEntries + 1][e]

(* The entry queue_dequeue() settles on, NIL when there is none.           *)
Wanted(h, p, filter) ==
  LET c == Chain(h.mem, h.queue[p].head)
      W == {i \in DOMAIN c :
              filter \in {ANY, h.mem[c[i]].message.sender_id}}
  IN  IF h.queue[p].count = 0 \/ W = {} THEN NIL ELSE c[Least(W)]

(* queue_dequeue() takes an entry out of the list.                         *)
TakenOut(h, p, e) ==
  LET q == h.queue[p]   b == h.mem[e].prev   a == h.mem[e].next
      m == IF b # NIL THEN [h.mem EXCEPT ![b].next = a] ELSE h.mem
  IN  [h EXCEPT !.mem = IF a # NIL THEN [m EXCEPT ![a].prev = b] ELSE m,
                !.queue[p] = [q EXCEPT !.head = IF b # NIL THEN @ ELSE a,
                                       !.tail = IF a # NIL THEN @ ELSE b,
                                       !.count = @ - 1]]
-----------------------------------------------------------------------------
ipc_process_init(h, p) ==
  IF h.queue[p].open THEN h ELSE [h EXCEPT !.queue[p] = EmptyQueue(TRUE)]

(* The flush frees from the head on.                                       *)
Flush(h, p) ==
  LET c == Chain(h.mem, h.queue[p].head)
      freed[i \in 0 .. Len(c)] == IF i = 0 THEN h ELSE queue_free_entry(freed[i - 1], c[i])
  IN  freed[Len(c)]

(* Mutant: a death that keeps the mail for the next process in the slot.   *)
CleanupKeepsMail(h, p) == h
ipc_process_cleanup(h, p) ==
  IF h.queue[p].open THEN [Flush(h, p) EXCEPT !.queue[p] = EmptyQueue(FALSE)]
  ELSE h
-----------------------------------------------------------------------------
MailInit ==
  /\ mstate = [p \in MailPids |-> "unused"]
  /\ may = {}
  /\ queue = [p \in MailPids |-> EmptyQueue(FALSE)]
  /\ mem = [e \in Entries |->
              [next |-> NIL, prev |-> NIL, message |-> NoLetter]]
  /\ entry_free_list = NIL
  /\ entries_allocated = 0
  /\ next_message_id = 1
  /\ told = "nothing"
  /\ peak = 0

(* process_create(): the first unused slot.                                *)
MailCreate ==
  /\ Present # MailPids
  /\ LET p == Least(MailPids \ Present)
     IN  /\ mstate' = [mstate EXCEPT ![p] = "live"]
         /\ SetLists(ipc_process_init(Heap, p))
  /\ UNCHANGED <<may, next_message_id, told, peak>>

(* sys_exit(): until it is reaped, the process still takes mail.           *)
MailExit(p) ==
  /\ mstate[p] = "live"
  /\ mstate' = [mstate EXCEPT ![p] = "terminated"]
  /\ UNCHANGED <<may, lists, next_message_id, told, peak>>

(* process_destroy() from the reaper (terminated) or service_stop (either):*)
(* the queue, then the capabilities it owns and those that name it.        *)
MailDestroy(p) ==
  /\ mstate[p] # "unused"
  /\ SetLists(ipc_process_cleanup(Heap, p))
  /\ may' = {m \in may : m[1] # p /\ m[2] # p}
  /\ mstate' = [mstate EXCEPT ![p] = "unused"]
  /\ UNCHANGED <<next_message_id, told, peak>>

(* Channels come and go: module Lifecycle says when.                       *)
Wire(p, q) ==
  /\ {p, q} \subseteq Present /\ <<p, q>> \in MailChannels
  /\ may' = may \cup {<<p, q>>}
  /\ UNCHANGED <<mstate, lists, next_message_id, told, peak>>
Unwire(p, q) ==
  /\ <<p, q>> \in may
  /\ may' = may \ {<<p, q>>}
  /\ UNCHANGED <<mstate, lists, next_message_id, told, peak>>

Queued(h) == Cardinality({m \in MailPids \X (1 .. MaxQueue) : m[2] <= h.queue[m[1]].count})

Reject == told' = "refused" /\ UNCHANGED <<lists, peak>>

(* ipc_send(): the message gets its number before the queue is tried.      *)
ipc_send(p, q) ==
  IF ~ queue[q].open THEN Reject /\ UNCHANGED next_message_id
  ELSE /\ next_message_id' = next_message_id + 1
       /\ \/ QueueFull(queue[q]) /\ Reject
          \/ /\ ~ QueueFull(queue[q])
             /\ \E a \in queue_alloc_entry(Heap) :
                  \/ a[1] = NIL /\ Reject
                  \/ /\ a[1] # NIL
                     /\ LET h == Link(a[2], q, a[1],
                                   [sender_id |-> p,
                                    message_id |-> next_message_id])
                        IN  /\ SetLists(h)
                            /\ peak' = IF Queued(h) > peak THEN Queued(h)
                                                           ELSE peak
                     /\ told' = "sent"

(* sys_send() writes to the first address the caller holds (which of them  *)
(* is left open here), sys_send_to() to the one it names.                  *)
sys_send(p) ==
  /\ mstate[p] = "live" /\ next_message_id <= MaxSends
  /\ IF \E q \in MailPids : <<p, q>> \in may
     THEN \E q \in MailPids : <<p, q>> \in may /\ ipc_send(p, q)
     ELSE Reject /\ UNCHANGED next_message_id
  /\ UNCHANGED <<mstate, may>>
sys_send_to(p, q) ==
  /\ mstate[p] = "live" /\ next_message_id <= MaxSends
  /\ IF <<p, q>> \in may THEN ipc_send(p, q)
     ELSE Reject /\ UNCHANGED next_message_id
  /\ UNCHANGED <<mstate, may>>

(* ipc_receive(): the oldest message, or the oldest of one sender.         *)
ipc_receive(p, filter) ==
  LET e == Wanted(Heap, p, filter)
  IN  IF e = NIL THEN told' = "nothing" /\ UNCHANGED lists
      ELSE /\ told' = "got"
           /\ SetLists(queue_free_entry(TakenOut(Heap, p, e), e))

(* sys_recv() looks at the caller's buffer before it takes anything out.   *)
sys_recv(p) ==
  /\ mstate[p] = "live"
  /\ Reject \/ ipc_receive(p, ANY)
  /\ UNCHANGED <<mstate, may, next_message_id, peak>>

(* The second half of ipc_call(), in the kernel only: the first half is an *)
(* ipc_send() to the same pid, and it does not wait for the answer.        *)
ipc_call_reply(p, q) ==
  /\ mstate[p] = "live"
  /\ ipc_receive(p, q)
  /\ UNCHANGED <<mstate, may, next_message_id, peak>>

MailNext ==
  \/ MailCreate
  \/ \E p \in MailPids :
       \/ MailExit(p) \/ MailDestroy(p) \/ sys_send(p) \/ sys_recv(p)
       \/ \E q \in MailPids : \/ Wire(p, q) \/ Unwire(p, q)
                         \/ sys_send_to(p, q) \/ ipc_call_reply(p, q)

MailSpec == MailInit /\ [][MailNext]_mailVars
-----------------------------------------------------------------------------
ListOf(p) == Chain(mem, queue[p].head)

(* A list c is whole: its entries are different ones, the back links       *)
(* mirror the forward links, and tail and count agree with it.             *)
Whole(q, c) ==
  /\ IsInjective(c)
  /\ q.count = Len(c)
  /\ q.tail = IF c = <<>> THEN NIL ELSE Last(c)
  /\ \A i \in DOMAIN c :
       mem[c[i]].prev = IF i = 1 THEN NIL ELSE c[i - 1]

(* Every entry that was ever allocated is in exactly one list, of one      *)
(* process or the free list: sending, taking out of the middle and the     *)
(* flush at death neither lose an entry nor hand one out twice ("a lost or *)
(* double-allocated entry", ipc.c:135), and every list stays whole.        *)
ListsWhole ==
  LET list == [p \in MailPids |-> ListOf(p)]
      free == Chain(mem, entry_free_list)
  IN  /\ \A p \in MailPids : Whole(queue[p], list[p])
      /\ IsInjective(free)
      /\ \A e \in Entries :
           Cardinality({p \in MailPids : e \in Range(list[p])})
             = IF e <= entries_allocated /\ e \notin Range(free) THEN 1 ELSE 0
      /\ Range(free) \subseteq 1 .. entries_allocated

(* Heap usage grows only to the high-water mark of the messages in flight  *)
(* (ipc.c:125), across any number of processes that die with mail waiting. *)
HeapIsHighWater == entries_allocated = peak

(* Entries are neither lost nor shared nor asked from the heap too often.  *)
ListsSound == ListsWhole /\ HeapIsHighWater

(* The lists give every incarnation of a process the bounded, ordered      *)
(* mailbox of module Mailbox: nothing is lost, doubled, reordered or shown *)
(* to another process, nor to the next process in the same slot.           *)
Box == [p \in MailPids |->
          IF queue[p].open
          THEN LET c == ListOf(p)
               IN  [i \in DOMAIN c |-> mem[c[i]].message]
          ELSE CLOSED]
M == INSTANCE Mailbox WITH Pids <- MailPids, box <- Box, serial <- next_message_id
KeepsMailboxes == M!Spec
=============================================================================

------------------------------- MODULE Frames -------------------------------
(***************************************************************************)
(* Physical frames and address spaces (kernel/src/memory.c: pmm_*;         *)
(* vmspace.c; elf.c; the spawn paths of syscall.c).  A spawn and a         *)
(* teardown are one step each: system calls, service_stop(), start_slot()  *)
(* and the reaper's loop run them with interrupts off.  A table is its set *)
(* of present user entries; the shared kernel half is left out.            *)
(***************************************************************************)
EXTENDS Integers, Sequences, FiniteSets
LOCAL INSTANCE SequencesExt

CONSTANTS total_frames,
          Reserved,      \* the kernel image, the bitmap and the heap
          Spaces,        \* process slots
          Programs,      \* the page addresses an image loads, in order
          USER_STACK,    \* the stack's pages and the argument page
          ReadOnly,      \* pages mapped without PG_RW
          TableSpan,     \* pages one page table covers
          PageBytes,     \* PAGE_SIZE
          MaxSpawns      \* bound

ASSUME FramesConstants ==
  /\ total_frames \in Nat \ {0} /\ Reserved \subseteq 0 .. (total_frames - 1)
  /\ {TableSpan, PageBytes} \subseteq Nat \ {0}
  /\ \A p \in Programs : \A i, j \in DOMAIN p : i # j => p[i] # p[j]

VARIABLES bitmap,        \* the frames marked used
          pmm_alloc_hint, free_frames,
          entries,       \* frame -> its entries [at, to], as a table
          root,          \* process slot -> its PML4, or NoFrame
          lost,          \* history: what a half-made space left behind
          spawns         \* bound

framesVars == <<bitmap, pmm_alloc_hint, free_frames, entries, root, lost, spawns>>

Frame == 0 .. (total_frames - 1)
NoFrame == total_frames

(* pmm_init(); vmm_init() then takes one frame for good.                   *)
FramesInit ==
  /\ bitmap = Reserved
  /\ free_frames = total_frames - Cardinality(Reserved)
  /\ pmm_alloc_hint = 0
  /\ entries = [f \in Frame |-> {}]
  /\ root = [s \in Spaces |-> NoFrame]
  /\ lost = {} /\ spawns = 0

(* The allocator and the tables as one value, for the steps of a spawn.    *)
Memory == [bitmap |-> bitmap, hint |-> pmm_alloc_hint, free |-> free_frames, tab |-> entries]
SetMemory(m) ==
  /\ bitmap' = m.bitmap /\ pmm_alloc_hint' = m.hint
  /\ free_frames' = m.free /\ entries' = m.tab
-----------------------------------------------------------------------------
(* The first free frame from the rover on, wrapping once; NoFrame if none. *)
Scan(m) ==
  LET at(k) == (m.hint + k) % total_frames
      S == {k \in 0 .. (total_frames - 1) : at(k) \notin m.bitmap}
  IN  IF S = {} THEN NoFrame ELSE at(CHOOSE k \in S : \A j \in S : k <= j)

(* pmm_alloc_frame() and the memset of the frame.                          *)
pmm_alloc_frame(m, f) ==
  [bitmap |-> m.bitmap \cup {f}, hint |-> (f + 1) % total_frames, free |-> m.free - 1,
   tab |-> [m.tab EXCEPT ![f] = {}]]

pmm_free_frame(m, f) ==
  IF f \notin m.bitmap THEN m
  ELSE [m EXCEPT !.bitmap = @ \ {f}, !.free = @ + 1, !.hint = IF f < @ THEN f ELSE @]

Entry(m, table, at) ==
  LET S == {e \in m.tab[table] : e.at = at}
  IN  IF S = {} THEN NoFrame ELSE (CHOOSE e \in S : TRUE).to
SetEntry(m, table, at, to) ==
  [m EXCEPT !.tab[table] = {e \in @ : e.at # at} \cup {[at |-> at, to |-> to]}]

(* One level of vmspace_map_page(): the table at `at`, made if missing.    *)
(* A step's result is [ok, m, to].                                         *)
Descend(m, table, at) ==
  IF Entry(m, table, at) # NoFrame THEN [ok |-> TRUE, m |-> m, to |-> Entry(m, table, at)]
  ELSE LET f == Scan(m)
       IN  IF f = NoFrame THEN [ok |-> FALSE, m |-> m, to |-> NoFrame]
           ELSE [ok |-> TRUE, m |-> SetEntry(pmm_alloc_frame(m, f), table, at, f), to |-> f]

PdOf(m, pml4) == Descend(m, Entry(m, pml4, 0), 1)
vmspace_map_page(m, pml4, va, frame) ==
  LET pd == PdOf(m, pml4)
      pt == Descend(pd.m, pd.to, va \div TableSpan)
  IN  IF ~pd.ok THEN pd ELSE IF ~pt.ok THEN pt
      ELSE [ok |-> TRUE, m |-> SetEntry(pt.m, pt.to, va, frame), to |-> frame]

(* map_fresh_page(), and a page of load_segment(): a frame that could not  *)
(* be mapped is given back.                                                *)
GiveBack(m, frame) == pmm_free_frame(m, frame)
map_fresh_page(m, pml4, va) ==
  LET f == Scan(m) IN
  IF f = NoFrame THEN [ok |-> FALSE, m |-> m, to |-> NoFrame]
  ELSE LET r == vmspace_map_page(pmm_alloc_frame(m, f), pml4, va, f)
       IN  IF r.ok THEN r ELSE [r EXCEPT !.m = GiveBack(r.m, f)]

(* vmspace_create(): the PML4 and the PDPT.                                *)
vmspace_create(m) ==
  LET pml4 == Scan(m) IN
  IF pml4 = NoFrame THEN [ok |-> FALSE, m |-> m, to |-> NoFrame]
  ELSE LET m1 == pmm_alloc_frame(m, pml4)
           pdpt == Scan(m1)
       IN  IF pdpt = NoFrame THEN [ok |-> FALSE, m |-> m1, to |-> pml4]
           ELSE [ok |-> TRUE, m |-> SetEntry(pmm_alloc_frame(m1, pdpt), pml4, 0, pdpt), to |-> pml4]

(* elf_load() or the flat copy, then the stack and the argument page.      *)
Build(m, pml4, pages) ==
  FoldLeft(LAMBDA r, va : IF r.ok THEN map_fresh_page(r.m, pml4, va) ELSE r,
           [ok |-> TRUE, m |-> m, to |-> pml4], pages)
-----------------------------------------------------------------------------
To(m, table) == {e.to : e \in m.tab[table]}

(* Everything below a PML4, and what is left when the directories are      *)
(* forgotten.                                                              *)
WithoutDirectories(m, pml4) ==
  LET pdpt == Entry(m, pml4, 0)
      pts == UNION {To(m, d) : d \in To(m, pdpt)}
  IN  {pml4, pdpt} \cup pts \cup UNION {To(m, t) : t \in pts}
Below(m, pml4) ==
  LET pdpt == Entry(m, pml4, 0)
      pds == To(m, pdpt)
      pts == UNION {To(m, d) : d \in pds}
  IN  {pml4, pdpt} \cup pds \cup pts \cup UNION {To(m, t) : t \in pts}

(* vmspace_destroy(): each is freed once, and the rover goes back to the   *)
(* lowest.                                                                 *)
FreeAll(m, S) ==
  [m EXCEPT !.bitmap = @ \ S, !.free = @ + Cardinality(S \cap m.bitmap),
            !.hint = CHOOSE f \in S \cup {@} : \A g \in S \cup {@} : f <= g]
vmspace_destroy(m, pml4) == FreeAll(m, Below(m, pml4))

(* spawn_elf_args() and user_process_spawn() through                       *)
(* finalize_user_process(); process_create() may fail, and nothing stays.  *)
Spawn(s) ==
  /\ root[s] = NoFrame
  /\ spawns < MaxSpawns /\ spawns' = spawns + 1
  /\ \E program \in Programs, created \in BOOLEAN :
       LET as == vmspace_create(Memory)
           r == Build(as.m, as.to, program \o USER_STACK)
       IN  \/ /\ ~as.ok
              /\ SetMemory(as.m)
              /\ lost' = lost \cup ({as.to} \ {NoFrame})   \* "frame leaks"
              /\ UNCHANGED root
           \/ /\ as.ok /\ ~(r.ok /\ created)
              /\ SetMemory(vmspace_destroy(r.m, as.to))
              /\ UNCHANGED <<root, lost>>
           \/ /\ as.ok /\ r.ok /\ created
              /\ SetMemory(r.m)
              /\ root' = [root EXCEPT ![s] = as.to]
              /\ UNCHANGED lost

(* process_destroy() of a process that is not running.                     *)
Destroy(s) ==
  /\ root[s] # NoFrame
  /\ SetMemory(vmspace_destroy(Memory, root[s]))
  /\ root' = [root EXCEPT ![s] = NoFrame]
  /\ UNCHANGED <<lost, spawns>>

FramesNext == \E s \in Spaces : Spawn(s) \/ Destroy(s)

FramesSpec == FramesInit /\ [][FramesNext]_framesVars
-----------------------------------------------------------------------------
(* The frames of a slot's address space.                                   *)
Owns(s) == IF root[s] = NoFrame THEN {} ELSE Below(Memory, root[s])

(* No physical frame backs two address spaces, or an address space and the *)
(* kernel, whatever the order in which spaces come, fail half-way and go;  *)
(* and none is lost: a frame is marked used exactly while it is the        *)
(* kernel's or some space's, but for the one vmspace_create() says it      *)
(* leaks.                                                                  *)
FramesOwnedOnce ==
  /\ \A s, t \in Spaces : s # t => Owns(s) \cap Owns(t) = {}
  /\ \A s \in Spaces : Owns(s) \cap (Reserved \cup lost) = {}
  /\ bitmap = Reserved \cup lost \cup UNION {Owns(s) : s \in Spaces}
  /\ free_frames = total_frames - Cardinality(bitmap)
-----------------------------------------------------------------------------
(* vmspace_user_ok(): the pages from the first byte's to the last byte's.  *)
Mapped(s, page, write) ==
  LET pd == Entry(Memory, Entry(Memory, root[s], 0), 1)
      pt == IF pd = NoFrame THEN NoFrame ELSE Entry(Memory, pd, page \div TableSpan)
  IN  /\ pt # NoFrame /\ Entry(Memory, pt, page) # NoFrame
      /\ write => page \notin ReadOnly
Pages == UNION {{p[i] : i \in DOMAIN p} : p \in Programs \cup {USER_STACK}}
Limit == CHOOSE n \in Pages : \A m \in Pages : m <= n
vmspace_user_ok(s, addr, len, write) ==
  \/ len = 0
  \/ /\ addr + len <= (Limit + 1) * PageBytes
     /\ \A p \in (addr \div PageBytes) .. ((addr + len - 1) \div PageBytes) : Mapped(s, p, write)

(* user_ok() accepts exactly the spans all of whose bytes the process has  *)
(* mapped: no byte of the next page, none of a read-only one for a copy    *)
(* out.                                                                    *)
UserSpanExact ==
  \A s \in Spaces : root[s] # NoFrame =>
    \A addr \in 0 .. ((Limit + 1) * PageBytes - 1), len \in 0 .. (PageBytes + 1), w \in BOOLEAN :
      vmspace_user_ok(s, addr, len, w) <=>
        \A b \in addr .. (addr + len - 1) :
          b < (Limit + 1) * PageBytes /\ Mapped(s, b \div PageBytes, w)

(* A page belongs to one space, and a pointer is accepted for the pages of *)
(* its own space only.                                                     *)
FramesSound == FramesOwnedOnce /\ UserSpanExact
=============================================================================

------------------------------- MODULE Heaps -------------------------------
(***************************************************************************)
(* The two heaps.  The kernel's (kernel/src/memory.c: kheap_init, kmalloc, *)
(* kfree, krealloc) is an address-ordered list of blocks, each behind a    *)
(* header, first fit, split when the rest is worth it and merged with its  *)
(* free neighbours when freed.  Sizes count 16-byte units, the unit of     *)
(* ALIGN_UP; each call runs with interrupts off, but for kfree()'s test    *)
(* for a second free, which is made before.                                *)
(***************************************************************************)
EXTENDS Integers, Sequences, FiniteSets

CONSTANTS KHDR,          \* a header
          HeapSize,      \* the .heap region
          Requests,      \* the sizes asked for
          Users          \* who holds at most one block each

ASSUME KheapConstants == KHDR \in Nat \ {0} /\ HeapSize > KHDR

VARIABLES blocks,        \* the list: [at, size, free]
          ptr,           \* each user's block (its header's address) or NoBlock
          want           \* each user's request, what it may write

kheapVars == <<blocks, ptr, want>>
NoBlock == -1

KheapInit ==
  /\ blocks = <<[at |-> 0, size |-> HeapSize - KHDR, free |-> TRUE]>>
  /\ ptr = [u \in Users |-> NoBlock] /\ want = [u \in Users |-> 0]
-----------------------------------------------------------------------------
Splice(s, i, j, mid) == SubSeq(s, 1, i - 1) \o mid \o SubSeq(s, j + 1, Len(s))

(* Whether what is left can hold a header and a payload.                   *)
WorthSplitting(b, size) == b.size >= size + KHDR + 1

Taken(i, size) ==
  LET b == blocks[i]
  IN  IF WorthSplitting(b, size)
      THEN Splice(blocks, i, i,
                  <<[b EXCEPT !.size = size, !.free = FALSE],
                    [at |-> b.at + KHDR + size, size |-> b.size - size - KHDR, free |-> TRUE]>>)
      ELSE [blocks EXCEPT ![i].free = FALSE]

FitsIn(size) == {i \in DOMAIN blocks : blocks[i].free /\ blocks[i].size >= size}
FirstFit(size) == CHOOSE i \in FitsIn(size) : \A j \in FitsIn(size) : i <= j

kmalloc(u) ==
  /\ ptr[u] = NoBlock
  /\ \E size \in Requests :
       /\ FitsIn(size) # {}    \* else NULL: nothing changes
       /\ blocks' = Taken(FirstFit(size), size)
       /\ ptr' = [ptr EXCEPT ![u] = blocks[FirstFit(size)].at]
       /\ want' = [want EXCEPT ![u] = size]

(* The list after the block at position i is freed; the mutant looks at    *)
(* the following block only.                                               *)
MergeNext(bs, i) ==
  IF i < Len(bs) /\ bs[i + 1].free
  THEN Splice(bs, i, i + 1, <<[bs[i] EXCEPT !.size = @ + KHDR + bs[i + 1].size]>>)
  ELSE bs
MergePrev(bs, i) == IF i > 1 /\ bs[i - 1].free THEN MergeNext(bs, i - 1) ELSE bs
FreedForward(bs, i) == MergeNext([bs EXCEPT ![i].free = TRUE], i)
Freed(bs, i) == MergePrev(MergeNext([bs EXCEPT ![i].free = TRUE], i), i)

At(bs, addr) == CHOOSE i \in DOMAIN bs : bs[i].at = addr

kfree(u) ==
  /\ ptr[u] # NoBlock
  /\ blocks' = Freed(blocks, At(blocks, ptr[u]))
  /\ ptr' = [ptr EXCEPT ![u] = NoBlock] /\ want' = [want EXCEPT ![u] = 0]

(* The block grows in place only if it already holds enough; otherwise a   *)
(* new one is taken, the old contents copied and the old block freed.      *)
krealloc(u) ==
  /\ ptr[u] # NoBlock
  /\ \E size \in Requests :
       /\ want' = [want EXCEPT ![u] = size]
       /\ \/ /\ blocks[At(blocks, ptr[u])].size >= size
             /\ UNCHANGED <<blocks, ptr>>
          \/ /\ blocks[At(blocks, ptr[u])].size < size
             /\ FitsIn(size) # {}
             /\ LET new == blocks[FirstFit(size)].at
                    taken == Taken(FirstFit(size), size)
                IN  /\ blocks' = Freed(taken, At(taken, ptr[u]))
                    /\ ptr' = [ptr EXCEPT ![u] = new]

KheapNext == \E u \in Users : kmalloc(u) \/ kfree(u) \/ krealloc(u)

KheapSpec == KheapInit /\ [][KheapNext]_kheapVars
-----------------------------------------------------------------------------
Held == {i \in DOMAIN blocks : ~blocks[i].free}
HeldBy(u) == blocks[At(blocks, ptr[u])]

(* The blocks tile the heap whatever the order of the calls: each starts   *)
(* where the one before it ends and the last ends with the heap, no two    *)
(* neighbours are both free, and the blocks in use are exactly the ones    *)
(* the callers hold, one each, as large as was asked for.                  *)
HeapTiled ==
  /\ blocks[1].at = 0
  /\ \A i \in DOMAIN blocks :
       /\ blocks[i].size > 0
       /\ blocks[i].at + KHDR + blocks[i].size =
            (IF i = Len(blocks) THEN HeapSize ELSE blocks[i + 1].at)
       /\ i < Len(blocks) => ~(blocks[i].free /\ blocks[i + 1].free)
  /\ {blocks[i].at : i \in Held} = {ptr[u] : u \in Users} \ {NoBlock}
  /\ \A u \in Users : ptr[u] # NoBlock => HeldBy(u).size >= want[u]
  /\ Cardinality(Held) = Cardinality({u \in Users : ptr[u] # NoBlock})

-----------------------------------------------------------------------------
(***************************************************************************)
(* The heap of a ring-3 program (user/libq/heap.c): one arena carved into  *)
(* blocks with a header and a mirrored size at the end of each, a free     *)
(* list newest first, and merging in both directions through those tags.   *)
(* Block addresses and sizes are in units of 16 bytes, requests in bytes.  *)
(* The owner of a block writes every byte it asked for, so a tag inside    *)
(* those bytes is lost.                                                    *)
(***************************************************************************)
CONSTANTS ArenaUnits,     \* LIBQ_HEAP_SIZE in units
          ByteRequests,   \* the sizes asked for
          SizeModulus,    \* 2^64, where size_t wraps
          HeapUsers       \* who holds at most one block each

ASSUME LibqHeapConstants ==
  /\ ArenaUnits \in Nat /\ ArenaUnits >= 12 /\ SizeModulus > 16 * ArenaUnits
  /\ ByteRequests \subseteq 1 .. SizeModulus - 1

VARIABLES arena,          \* [tag, foot, list]: headers, footers, the free list
          uptr,           \* each user's block or NoPtr
          uask,           \* the bytes each user may write
          freed           \* the last pointer freed while nothing was allocated since

libqVars == <<arena, uptr, uask, freed>>

NoPtr == -1
Units == 0 .. ArenaUnits - 1
USED_OVERHEAD == 24
MIN_BLOCK == 3
Garbage == [size |-> 0, used |-> 2]

align16(n) == ((n + 15) % SizeModulus) \div 16
BareHeader == 16                       \* mutant: the footer is forgotten
NeedForgetful(n) ==
  LET a == align16((n + BareHeader) % SizeModulus) IN IF a < MIN_BLOCK THEN MIN_BLOCK ELSE a
Need(n) ==
  LET a == align16((n + USED_OVERHEAD) % SizeModulus) IN IF a < MIN_BLOCK THEN MIN_BLOCK ELSE a

set_block(h, b, size, used) ==
  [h EXCEPT !.tag[b] = [size |-> size, used |-> used], !.foot[b + size - 1] = size]
fl_insert(h, b) == [h EXCEPT !.list = <<b>> \o @]
fl_remove(h, b) == [h EXCEPT !.list = SelectSeq(@, LAMBDA x : x # b)]

heap_init ==
  fl_insert(set_block([tag |-> [k \in Units |-> [size |-> 0, used |-> 0]],
                       foot |-> [k \in Units |-> 0], list |-> <<>>], 0, ArenaUnits, 0), 0)

(* The first malloc() sets the arena up; nothing reads it before.          *)
LibqInit ==
  /\ arena = heap_init /\ freed = NoPtr
  /\ uptr = [u \in HeapUsers |-> NoPtr] /\ uask = [u \in HeapUsers |-> 0]
-----------------------------------------------------------------------------
(* The block at b, or b and its free neighbour, cut to need units when the *)
(* rest can be a block.                                                    *)
Cut(h, b, size, need) ==
  IF size - need >= MIN_BLOCK
    THEN fl_insert(set_block(set_block(h, b, need, 1), b + need, size - need, 0), b + need)
    ELSE set_block(h, b, size, 1)

Fitting(h, need) == {i \in DOMAIN h.list : h.tag[h.list[i]].size >= need}
Fits(h, n) == n <= 16 * ArenaUnits /\ Fitting(h, Need(n)) # {}
Chosen(h, n) ==
  h.list[CHOOSE i \in Fitting(h, Need(n)) : \A j \in Fitting(h, Need(n)) : i <= j]
Allocated(h, n) ==
  LET b == Chosen(h, n) IN Cut(fl_remove(h, b), b, h.tag[b].size, Need(n))

(* free(): the block is merged with what follows it, then with what the    *)
(* footer before it says precedes it.                                      *)
MergedForward(h, b) ==
  LET n == b + h.tag[b].size
  IN  IF n < ArenaUnits /\ h.tag[n].used = 0
        THEN set_block(fl_remove(h, n), b, h.tag[b].size + h.tag[n].size, 0) ELSE h
Before(h, b) == b - h.foot[b - 1]
MergesBack(h, b) == b > 0 /\ Before(h, b) >= 0 /\ h.tag[Before(h, b)].used = 0
Coalesced(h, b) ==
  LET f == MergedForward([h EXCEPT !.tag[b].used = 0], b)
      p == Before(f, b)
  IN  IF MergesBack(f, b)
        THEN fl_insert(set_block(fl_remove(f, p), p, f.tag[p].size + f.tag[b].size, 0), p)
        ELSE fl_insert(set_block(f, b, f.tag[b].size, 0), b)

valid_used_block(h, b) ==
  /\ b <= ArenaUnits - MIN_BLOCK /\ h.tag[b].used = 1
  /\ h.tag[b].size >= MIN_BLOCK /\ b + h.tag[b].size <= ArenaUnits
  /\ h.foot[b + h.tag[b].size - 1] = h.tag[b].size

(* The owner writes the n bytes it was given, 16 bytes after the header.   *)
Written(h, b, n) ==
  [h EXCEPT !.tag = [k \in Units |-> IF k > b /\ 16 * (k - b - 1) < n THEN Garbage ELSE @[k]],
            !.foot = [k \in Units |-> IF k > b /\ 16 * (k - b - 1) + 8 < n THEN 0 ELSE @[k]]]

Grant(u, h, b, n) ==
  /\ arena' = Written(h, b, n) /\ uptr' = [uptr EXCEPT ![u] = b]
  /\ uask' = [uask EXCEPT ![u] = n] /\ freed' = NoPtr

-----------------------------------------------------------------------------
(* malloc(), and calloc() of a product that does not wrap; NULL changes    *)
(* nothing.                                                                *)
malloc(u) ==
  /\ uptr[u] = NoPtr
  /\ \E n \in ByteRequests : Fits(arena, n) /\ Grant(u, Allocated(arena, n), Chosen(arena, n), n)

free(u) ==
  /\ uptr[u] # NoPtr /\ valid_used_block(arena, uptr[u])
  /\ arena' = Coalesced(arena, uptr[u]) /\ freed' = uptr[u]
  /\ uptr' = [uptr EXCEPT ![u] = NoPtr] /\ uask' = [uask EXCEPT ![u] = 0]

(* The same pointer again: the header left behind must not pass as a block *)
(* in use.                                                                 *)
free_again ==
  /\ freed # NoPtr
  /\ arena' = IF valid_used_block(arena, freed) THEN Coalesced(arena, freed) ELSE arena
  /\ UNCHANGED <<uptr, uask, freed>>

(* realloc() of a held block: kept if it is large enough, grown into a     *)
(* free neighbour, or moved; the old block stays when there is no room.    *)
realloc(u) ==
  /\ uptr[u] # NoPtr /\ valid_used_block(arena, uptr[u])
  /\ \E n \in ByteRequests :
       LET b == uptr[u]
           size == arena.tag[b].size
           next == b + size
           grows == next < ArenaUnits /\ arena.tag[next].used = 0
                    /\ size + arena.tag[next].size >= Need(n)
           moved == Allocated(arena, n)
       IN  \/ Need(n) <= size /\ Grant(u, arena, b, n)
           \/ /\ Need(n) > size /\ grows
              /\ Grant(u, Cut(fl_remove(arena, next), b, size + arena.tag[next].size, Need(n)), b, n)
           \/ /\ Need(n) > size /\ ~grows /\ Fits(arena, n)
              /\ Grant(u, Coalesced(Written(moved, Chosen(arena, n), n), b), Chosen(arena, n), n)

LibqNext == free_again \/ \E u \in HeapUsers : malloc(u) \/ free(u) \/ realloc(u)
LibqSpec == LibqInit /\ [][LibqNext]_libqVars
-----------------------------------------------------------------------------
(* The block starts found by walking the sizes from the first header.      *)
BlockStarts ==
  LET walk[k \in Units] ==
        IF k = 0 THEN {0}
        ELSE LET w == walk[k - 1] IN w \cup {b + arena.tag[b].size : b \in w \cap Units}
  IN  walk[ArenaUnits - 1]

(* A pointer that malloc() or realloc() returned can hold what was asked   *)
(* for: "return NULL on exhaustion or size overflow" (libq.h:59).          *)
RequestsHonoured ==
  \A u \in HeapUsers :
    uptr[u] # NoPtr => uask[u] + USED_OVERHEAD <= 16 * arena.tag[uptr[u]].size

(* Whatever the order of the calls, a second free included, and whatever   *)
(* the owners write into their blocks, the tags describe blocks that tile  *)
(* the arena, no two free ones side by side; the free list holds each free *)
(* block once, and the others are held, one each, and large enough         *)
(* (heap.c: malloc, free, realloc).                                        *)
ArenaTiled ==
  LET starts == BlockStarts \ {ArenaUnits}
      unheld == {b \in starts : arena.tag[b].used = 0}
  IN  /\ RequestsHonoured
      /\ \A b \in starts :
           /\ arena.tag[b].size >= MIN_BLOCK /\ b + arena.tag[b].size <= ArenaUnits
           /\ arena.foot[b + arena.tag[b].size - 1] = arena.tag[b].size
           /\ b \in unheld => b + arena.tag[b].size \notin unheld
      /\ {arena.list[i] : i \in DOMAIN arena.list} = unheld
      /\ Len(arena.list) = Cardinality(unheld)
      /\ starts \ unheld = {uptr[u] : u \in HeapUsers} \ {NoPtr}
      /\ Cardinality(starts \ unheld) = Cardinality({u \in HeapUsers : uptr[u] # NoPtr})
=============================================================================

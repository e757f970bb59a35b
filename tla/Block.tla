------------------------------- MODULE Block -------------------------------
(***************************************************************************)
(* The block drivers behind blkdev (kernel/src/virtio_blk.c, ata.c):       *)
(* one request at a time, posted and polled with a bounded wait, through   *)
(* one bounce buffer.  The device has a volatile write cache, works at its *)
(* own pace and may finish a request after the driver gave up on it; it    *)
(* reads and writes the bounce buffer when it does.  A sector is a value;  *)
(* addresses are Wrap-modular like the 32-bit ones of the code.            *)
(***************************************************************************)
EXTENDS Integers, Sequences

CONSTANTS disk_sectors, Wrap, CHUNK_SECTORS, SectorValues, MaxCalls

BlockConstants ==
    /\ {disk_sectors, Wrap, CHUNK_SECTORS} \subseteq Nat \ {0}
    /\ disk_sectors < Wrap
    /\ MaxCalls \in Nat

ASSUME BlockAssumption == BlockConstants

VARIABLES platter,   \* the bound driver: kind, present, read_only, can_flush
          media,  \* what survives a power cut
          cached, \* what a read returns: media under the write cache
          posted, \* requests the device has and has not finished
          bounce, \* the one buffer
          done,   \* used->idx - last_used, with the status of the last completion
          bcall,  \* the call in progress
          bres,   \* the last call and what it returned
          calls   \* calls so far, at most MaxCalls

blockVars == <<platter, media, cached, posted, bounce, done, bcall, bres, calls>>

BlkSectors == 0 .. disk_sectors - 1
NoCall == [op |-> "none", lba |-> 0, count |-> 0, at |-> 0, data |-> << >>, step |-> "none"]
NoResult == [op |-> "none", ok |-> FALSE, lba |-> 0, data |-> << >>]

\* ata_init: a drive that identified itself and has sectors; it can flush.
AtaDisks == [kind : {"ata"}, present : {TRUE}, read_only : {FALSE}, can_flush : {TRUE}]

\* bring_up: features are what the device offers; no flush bit means a
\* write-through device.
VirtioDisks == [kind : {"virtio"}, present : {TRUE}, read_only : BOOLEAN, can_flush : BOOLEAN]

BlockInit ==
    /\ platter \in VirtioDisks \cup AtaDisks
    /\ media \in [BlkSectors -> SectorValues]
    /\ cached = media
    /\ posted = << >> /\ bounce = << >>
    /\ done = [n |-> 0, ok |-> TRUE]
    /\ bcall = NoCall /\ bres = NoResult
    /\ calls = 0
----------------------------------------------------------------------------

\* in_range, with its test that the sum did not wrap.
in_range(lba, count) ==
    LET end == (lba + count) % Wrap
    IN  count # 0 /\ end >= lba /\ end <= disk_sectors

\* A run goes out in chunks; ATA moves one sector at a time.
ChunkLen(left) ==
    LET most == IF platter.kind = "ata" THEN 1 ELSE CHUNK_SECTORS
    IN  IF left < most THEN left ELSE most

\* submit: fill in the chain and offer it.
submit(op, lba, n) ==
    posted' = Append(posted, [op |-> op, lba |-> lba, n |-> n])

Return(ok, data) ==
    /\ bres' = [op |-> bcall.op, ok |-> ok, lba |-> bcall.lba, data |-> data]
    /\ bcall' = NoCall

\* What the buffer holds when the chunk goes out, and what a read takes from it.
Filled(c, n) == IF c.op = "write" THEN SubSeq(c.data, c.at + 1, c.at + n) ELSE bounce
Fetched(c) == IF c.op = "read" THEN c.data \o bounce ELSE c.data

\* Post the next chunk of the call c: a write fills the bounce buffer first.
PostChunk(c) ==
    LET n == ChunkLen(c.count - c.at)
    IN  /\ submit(c.op, c.lba + c.at, n)
        /\ bounce' = Filled(c, n)
        /\ bcall' = [c EXCEPT !.step = "wait"]

\* virtio_blk_read, ata_read, virtio_blk_write, ata_write: the checks and the first chunk.
blk_call(op, lba, count, data) ==
    /\ bcall = NoCall /\ calls < MaxCalls
    /\ calls' = calls + 1
    /\ IF platter.present /\ ~(op = "write" /\ platter.read_only) /\ in_range(lba, count)
       THEN /\ PostChunk([op |-> op, lba |-> lba, count |-> count, at |-> 0,
                          data |-> data, step |-> "post"])
            /\ UNCHANGED bres
       ELSE /\ bres' = [op |-> op, ok |-> FALSE, lba |-> lba, data |-> << >>]
            /\ UNCHANGED <<posted, bounce, bcall>>
    /\ UNCHANGED <<platter, media, cached, done>>

\* ata_fault: any error drops the drive for good, an error status of the
\* virtio disk only fails the call.
PresentAfterError == platter.kind # "ata"

\* The completion is seen: copy a read out of the bounce buffer, then the next
\* chunk, the flush of a write, or the end of the call.
SeeDone ==
    /\ bcall.step = "wait" /\ done.n > 0
    /\ done' = [done EXCEPT !.n = 0]
    /\ LET n    == ChunkLen(bcall.count - bcall.at)
           next == [bcall EXCEPT !.at = @ + n, !.data = Fetched(bcall)]
       IN  \/ /\ ~done.ok
              /\ Return(FALSE, << >>) /\ UNCHANGED <<posted, bounce>>
              /\ platter' = [platter EXCEPT !.present = PresentAfterError]
           \/ /\ done.ok /\ next.at < bcall.count
              /\ PostChunk(next) /\ UNCHANGED <<platter, bres>>
           \/ /\ done.ok /\ next.at = bcall.count /\ bcall.op = "write" /\ platter.can_flush
              /\ submit("flush", 0, 0) /\ bcall' = [bcall EXCEPT !.step = "flush"]
              /\ UNCHANGED <<platter, bres, bounce>>
           \/ /\ done.ok /\ next.at = bcall.count /\ ~(bcall.op = "write" /\ platter.can_flush)
              /\ Return(TRUE, next.data) /\ UNCHANGED <<posted, bounce, platter>>
    /\ UNCHANGED <<media, cached, calls>>

SeeFlushed ==
    /\ bcall.step = "flush" /\ done.n > 0
    /\ done' = [done EXCEPT !.n = 0]
    /\ Return(done.ok, bcall.data)
    /\ platter' = [platter EXCEPT !.present = done.ok \/ PresentAfterError]
    /\ UNCHANGED <<media, cached, posted, bounce, calls>>

StillPresent == TRUE
PresentAfterTimeout == FALSE

\* The wait runs out: the device is dropped for good.
GiveUp ==
    /\ bcall.step \in {"wait", "flush"} /\ done.n = 0
    /\ platter' = [platter EXCEPT !.present = PresentAfterTimeout]
    /\ Return(FALSE, << >>)
    /\ UNCHANGED <<media, cached, posted, bounce, done, calls>>

\* The device finishes its oldest request, early or late, with or without error.
DeviceDone ==
    /\ posted # << >>
    /\ LET r == Head(posted)
           written == [s \in BlkSectors |-> IF s \in r.lba .. r.lba + r.n - 1
                                            /\ s - r.lba + 1 <= Len(bounce)
                                         THEN bounce[s - r.lba + 1] ELSE cached[s]]
       IN  /\ posted' = Tail(posted)
           /\ \/ /\ r.op = "read"
                 /\ bounce' = [i \in 1 .. r.n |-> cached[r.lba + i - 1]]
                 /\ UNCHANGED <<cached, media>> /\ done' = [n |-> done.n + 1, ok |-> TRUE]
              \/ /\ r.op = "write"
                 /\ cached' = written
                 /\ media' = IF platter.can_flush THEN media ELSE written
                 /\ UNCHANGED bounce /\ done' = [n |-> done.n + 1, ok |-> TRUE]
              \/ /\ r.op = "flush"
                 /\ media' = cached
                 /\ UNCHANGED <<cached, bounce>> /\ done' = [n |-> done.n + 1, ok |-> TRUE]
              \/ /\ UNCHANGED <<cached, media, bounce>>
                 /\ done' = [n |-> done.n + 1, ok |-> FALSE]
    /\ UNCHANGED <<platter, bcall, bres, calls>>

BlockNext ==
    \/ \E lba, count \in 0 .. Wrap - 1 : blk_call("read", lba, count, << >>)
    \/ \E lba \in 0 .. Wrap - 1, data \in [1 .. 2 -> SectorValues] \cup [1 .. 1 -> SectorValues] :
          blk_call("write", lba, Len(data), data)
    \/ SeeDone
    \/ SeeFlushed
    \/ GiveUp
    \/ DeviceDone

BlockSpec == BlockInit /\ [][BlockNext]_blockVars
----------------------------------------------------------------------------
\* Every request stays on the disk; a read that returns success returned the
\* sectors asked for, and a write that returns success is on the medium and not
\* in the cache, although the device may finish a request after the driver gave
\* up on it and shares one buffer among all of them (virtio_blk.c:184, ata.c:199).
BlocksFaithful ==
    /\ \A i \in 1 .. Len(posted) : posted[i].lba + posted[i].n <= disk_sectors
    /\ bres.ok => bres.lba + Len(bres.data) <= disk_sectors
    /\ bres.ok => \A i \in 1 .. Len(bres.data) :
          /\ bres.op = "write" => (bcall = NoCall /\ posted = << >>
                                       => media[bres.lba + i - 1] = bres.data[i])
          /\ bres.op = "read" => (bcall = NoCall => cached[bres.lba + i - 1] = bres.data[i])
============================================================================

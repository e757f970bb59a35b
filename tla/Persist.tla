------------------------------ MODULE Persist ------------------------------
(***************************************************************************)
(* SYS_SYNC and the restore at boot (kernel/src/ramfs.c: persist_sync,     *)
(* persist_restore; blkdev.c).  A sync writes three sections in place, the *)
(* archive of the overlay files, the field blob and the audit ledger, and  *)
(* then the superblock, which describes them: the commit point.  The       *)
(* machine may stop, or a write may fail, at any moment, with any of the   *)
(* sectors of the write in hand on the disk: the drive's cache is flushed  *)
(* only at its end.  One sector is written whole or not at all.            *)
(*                                                                         *)
(* A sector is the set of bits it contributes to the section's checksum:   *)
(* the checksum rotates a 32-bit word by one bit per byte, a sector has    *)
(* 512 bytes, so it is the exclusive or of what the sectors contribute.    *)
(***************************************************************************)
EXTENDS Integers, Sequences, FiniteSets

CONSTANTS DiskSizes,  \* in sectors
          AuditTop,   \* AUDIT_HOME_TOP_OFFSET
          Reserve,    \* FIELD_HOME_RESERVE_SECTORS
          FieldLen,   \* FIELD_BLOB_SECTORS
          AuditLen,   \* AUDIT_BLOB_SECTORS
          Bits,       \* of a checksum word
          MinTar,     \* the two blocks that end an archive
          Archives,   \* the overlays' archives, each a sequence of sectors,
          Fields,     \*   the field blobs
          Audits,     \*   and the ledgers
          NoFiles, ColdField, ColdAudit    \* what a cold start has

Sections == {"fs", "field", "audit"}
Sectors == SUBSET Bits
Area(first, len) == first .. (first + len - 1)

ASSUME LayoutAssumption ==
  /\ {AuditTop, Reserve, FieldLen, AuditLen, MinTar} \subseteq Nat \ {0}
  /\ AuditLen < AuditTop /\ FieldLen <= Reserve
  /\ \A n \in DiskSizes : n \in Nat /\ n >= 2
ASSUME ContentsAssumption ==
  /\ NoFiles \in Archives /\ ColdField \in Fields /\ ColdAudit \in Audits
  /\ \A a \in Archives : a \in Seq(Sectors) /\ Len(a) >= MinTar
  /\ Fields \subseteq [1 .. FieldLen -> Sectors]
  /\ Audits \subseteq [1 .. AuditLen -> Sectors]

VARIABLES sb,        \* sector 0
          disk,      \* the other sectors
          mem,       \* what the kernel holds: fs, field, audit
          pc,        \* where a sync is; "off": the machine is off
          present,   \* blkdev_present()
          kept,      \* audit_lba, of the sync in progress: was it written
          saved,     \* history: what the last superblock describes, and
          torn       \*   the sections overwritten with something else since

persistVars == <<sb, disk, mem, pc, present, kept, saved, torn>>

BlankSector == [magic |-> "blank", tar |-> 0, csum |-> {}, field_lba |-> 0, field_csum |-> {},
          audit_lba |-> 0, audit_csum |-> {}]
Foreign == [BlankSector EXCEPT !.magic = "foreign"]
Cold == [fs |-> NoFiles, field |-> ColdField, audit |-> ColdAudit]

(* A blank disk, or somebody else's.                                       *)
PersistInit ==
  /\ \E n \in DiskSizes, s, last \in Sectors :
       /\ disk = [l \in 1 .. (n - 1) |-> IF l = n - 1 THEN last ELSE s]
       /\ sb = IF s = {} THEN BlankSector ELSE Foreign
  /\ mem = Cold /\ saved = Cold /\ torn = {}
  /\ pc = "off" /\ present = TRUE /\ kept = FALSE

N == Cardinality(DOMAIN disk) + 1   \* blkdev_sector_count()
-----------------------------------------------------------------------------
(* archive_checksum().                                                     *)
Odd(S) == Cardinality(S) % 2 = 1
archive_checksum(blob) == {b \in Bits : Odd({i \in DOMAIN blob : b \in blob[i]})}

(* Where the sections live.                                                *)
audit_home_lba == N - AuditTop
field_home_lba == audit_home_lba - Reserve
audit_disk_fits == N >= AuditTop + Reserve + 2

HomeOf(s) == IF s = "fs" THEN 1 ELSE IF s = "field" THEN field_home_lba ELSE audit_home_lba
LbasOf(s) == Area(HomeOf(s), Len(mem[s]))

(* The archive must end below the lowest home.                             *)
Fits(tar) == 1 + tar <= (IF audit_disk_fits THEN field_home_lba ELSE N - 1)

(* The guard on sector 0.                                                  *)
OurDisk == sb.magic \in {"QDSK1", "blank"}

(* persist_sync() up to its first write.                                   *)
SyncStarts ==
  /\ pc = "idle" /\ present
  /\ OurDisk
  /\ Fits(Len(mem.fs))
  /\ pc' = "fs" /\ kept' = FALSE
  /\ UNCHANGED <<sb, disk, mem, present, saved, torn>>

(* The sectors W of section s are on the disk.                             *)
Writing(s, W) ==
  /\ disk' = [l \in DOMAIN disk |-> IF l \in W THEN mem[s][l - HomeOf(s) + 1] ELSE disk[l]]
  /\ torn' = IF \A l \in W : disk[l] = mem[s][l - HomeOf(s) + 1] THEN torn ELSE torn \cup {s}

After(s) ==
  IF s = "fs" /\ audit_disk_fits THEN "field" ELSE IF s = "field" THEN "audit" ELSE "sb"

(* What may be on the disk when a write does not end well.  After a failed *)
(* write the ATA driver gives the disk up until the next boot; virtio does *)
(* so only when the device does not answer.                                *)
Reached(s) == IF present THEN SUBSET LbasOf(s) ELSE {{}}
MayLatch == present' \in {present, FALSE}

(* blkdev_write() of a section succeeds ...                                *)
WriteSection(s) ==
  /\ pc = s /\ present
  /\ Writing(s, LbasOf(s))
  /\ pc' = After(s)
  /\ kept' = (s = "audit")
  /\ UNCHANGED <<sb, mem, present, saved>>

(* ... or fails: the sync gives up, but not for the audit ledger.  The     *)
(* mutant records the ledger all the same.                                 *)
FailsUnnoticed(s) ==
  /\ pc = s
  /\ \E W \in Reached(s) : Writing(s, W)
  /\ pc' = IF s = "audit" THEN "sb" ELSE "idle"
  /\ MayLatch
  /\ kept' = (s = "audit")
  /\ UNCHANGED <<sb, mem, saved>>
WriteFails(s) ==
  /\ pc = s
  /\ \E W \in Reached(s) : Writing(s, W)
  /\ pc' = IF s = "audit" THEN "sb" ELSE "idle"
  /\ MayLatch
  /\ UNCHANGED <<sb, mem, kept, saved>>

(* The superblock.                                                         *)
Superblock ==
  [magic |-> "QDSK1", tar |-> Len(mem.fs), csum |-> archive_checksum(mem.fs),
   field_lba |-> IF audit_disk_fits THEN field_home_lba ELSE 0,
   field_csum |-> IF audit_disk_fits THEN archive_checksum(mem.field) ELSE {},
   audit_lba |-> IF kept THEN audit_home_lba ELSE 0,
   audit_csum |-> IF kept THEN archive_checksum(mem.audit) ELSE {}]
Committed ==
  /\ sb' = Superblock
  /\ saved' = [fs |-> mem.fs, field |-> IF audit_disk_fits THEN mem.field ELSE ColdField,
               audit |-> IF kept THEN mem.audit ELSE ColdAudit]
  /\ torn' = {}
  /\ UNCHANGED disk
Unchanged == UNCHANGED <<sb, saved, torn, disk>>

Commit ==
  /\ pc = "sb" /\ pc' = "idle"
  /\ present
  /\ Committed
  /\ UNCHANGED <<mem, present, kept>>

CommitFails ==
  /\ pc = "sb" /\ pc' = "idle"
  /\ \/ present /\ Committed
     \/ Unchanged
  /\ MayLatch
  /\ UNCHANGED <<mem, kept>>

(* The machine stops; a write in hand may have reached the disk in part.   *)
Crash ==
  /\ pc # "off" /\ pc' = "off"
  /\ \/ /\ pc \in {"fs", "field", "audit"} /\ present
        /\ \E W \in SUBSET LbasOf(pc) : Writing(pc, W)
        /\ UNCHANGED <<sb, saved>>
     \/ pc = "sb" /\ present /\ Committed
     \/ Unchanged
  /\ UNCHANGED <<mem, present, kept>>
-----------------------------------------------------------------------------
(* blk_rw_selftest(): a pattern in the last sector, put back at once unless *)
(* the machine stops in between.                                           *)
Pattern == Bits
SelfTest == disk[N - 1] = {} \/ sb.magic = "QDSK1"
BootCrash ==
  /\ pc = "off"
  /\ SelfTest
  /\ disk' = [disk EXCEPT ![N - 1] = Pattern]
  /\ UNCHANGED <<sb, mem, pc, present, kept, saved, torn>>

(* What restore_fs_section() and its two siblings find.                    *)
Stored(lba, len) == [i \in 1 .. len |-> disk[lba + i - 1]]
restore_fs_section ==
  IF /\ sb.tar >= MinTar /\ sb.tar <= N - 1
     /\ archive_checksum(Stored(1, sb.tar)) = sb.csum
  THEN Stored(1, sb.tar) ELSE NoFiles
restore_field_section ==
  IF /\ sb.field_lba # 0 /\ sb.field_lba = field_home_lba
     /\ archive_checksum(Stored(sb.field_lba, FieldLen)) = sb.field_csum
  THEN Stored(sb.field_lba, FieldLen) ELSE ColdField
restore_audit_section ==
  IF /\ sb.audit_lba # 0 /\ audit_disk_fits /\ sb.audit_lba = audit_home_lba
     /\ archive_checksum(Stored(sb.audit_lba, AuditLen)) = sb.audit_csum
  THEN Stored(sb.audit_lba, AuditLen) ELSE ColdAudit
persist_restore ==
  IF sb.magic # "QDSK1" THEN Cold
  ELSE [fs |-> restore_fs_section, field |-> restore_field_section,
        audit |-> restore_audit_section]

(* A section that cannot be read starts cold.                              *)
Boot ==
  /\ pc = "off" /\ pc' = "idle"
  /\ \E failed \in SUBSET Sections :
       /\ mem' = [s \in Sections |-> IF s \in failed THEN Cold[s] ELSE persist_restore[s]]
       /\ present' \in {TRUE, failed = {}}
  /\ UNCHANGED <<sb, disk, kept, saved, torn>>

(* Files, field and ledger change between syncs.                           *)
Change ==
  /\ pc = "idle"
  /\ \E fs \in Archives, field \in Fields, audit \in Audits :
       mem' = [fs |-> fs, field |-> field, audit |-> audit]
  /\ UNCHANGED <<sb, disk, pc, present, kept, saved, torn>>

PersistNext ==
  \/ SyncStarts \/ Commit \/ CommitFails \/ Crash \/ BootCrash \/ Boot \/ Change
  \/ \E s \in Sections : WriteSection(s) \/ WriteFails(s)

PersistSpec == PersistInit /\ [][PersistNext]_persistVars
-----------------------------------------------------------------------------
(* A section is restored as the last completed sync left it, unless it was *)
(* itself overwritten with other contents since: neither an archive that   *)
(* grew, nor the self test, nor a crash or a failed write in another       *)
(* section, nor a sync of unchanged contents costs it.                     *)
SavedIsRestored ==
  \A s \in Sections \ torn : persist_restore[s] = saved[s]

(* A write that tears one sector is always detected: the section starts    *)
(* cold, it is not read as truth.                                          *)
Differences(s) == {i \in DOMAIN saved[s] : disk[HomeOf(s) + i - 1] # saved[s][i]}
OneSectorTearDetected ==
  sb.magic = "QDSK1" =>
    \A s \in Sections : Cardinality(Differences(s)) = 1 =>
      persist_restore[s] = Cold[s]

(* Somebody else's disk is not overwritten: "refuse loudly, destroy        *)
(* nothing"; only its last sector, and only when that is zero, is used.    *)
ForeignUntouched ==
  [][sb = Foreign =>
       sb' = sb /\ \A l \in 1 .. (N - 2) : disk'[l] = disk[l]]_persistVars

(* What was saved comes back, and what was torn does not pass for it.      *)
ArchivesSound == SavedIsRestored /\ OneSectorTearDetected
=============================================================================

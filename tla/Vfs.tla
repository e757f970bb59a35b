-------------------------------- MODULE Vfs --------------------------------
(***************************************************************************)
(* The file system calls over the writable RAM overlay (kernel/src/        *)
(* syscall.c, ramfs.c) and the open-file tables in the process table       *)
(* (process.c).                                                            *)
(*                                                                         *)
(* An open file is a snapshot of an overlay file's data pointer and size,  *)
(* with the index of its slot; the calls use them without looking the name *)
(* up again.  Slots, heap blocks, descriptors and pids are all recycled    *)
(* while other processes hold files open, so what keeps a snapshot good is *)
(* that sys_unlink() refuses a file some live process has open.            *)
(*                                                                         *)
(* Each step is one system call, with interrupts off, or the death of a    *)
(* process.  A call that fails returns an error and changes nothing.  File *)
(* contents are left out, lengths are in units of a write.                 *)
(***************************************************************************)
EXTENDS Integers

CONSTANTS Pids,      \* process slots
          Writers,   \* those with the file system write capability
          Fds,       \* 0 .. PROCESS_MAX_FDS - 1
          Slots,     \* 0 .. RAMFS_MAX_FILES - 1
          Blocks,    \* heap blocks kmalloc() may return
          Names,     \* normalized paths
          Initrd,    \* those of them that the initrd has
          FileMax    \* RAMFS_FILE_MAX

ASSUME PidsAssumption == Writers \subseteq Pids
ASSUME IndexAssumption == Fds \subseteq Nat /\ Slots \subseteq Nat
ASSUME NamesAssumption == Initrd \subseteq Names
ASSUME FileMaxAssumption == FileMax \in Nat

VARIABLES state,   \* of each pid
          fds,     \* process_table[].fds
          files    \* ramfs.c: files[]

vars == <<state, fds, files>>

NULL == "NULL"
Rom == "ROM"       \* the initrd's bytes, which nothing moves
NONE == -1

(* name in a descriptor is history: the path it was opened with.           *)
ClosedFd == [used |-> FALSE, data |-> NULL, size |-> 0, offset |-> 0,
             writable |-> FALSE, ram_idx |-> NONE, name |-> NULL]
NoFile == [used |-> FALSE, name |-> NULL, data |-> NULL, size |-> 0]

Init ==
  /\ state = [p \in Pids |-> "UNUSED"]
  /\ fds = [p \in Pids |-> [d \in Fds |-> ClosedFd]]
  /\ files = [i \in Slots |-> NoFile]
-----------------------------------------------------------------------------
(* Processes.  init_process_pcb() clears the whole control block, the      *)
(* table of descriptors with it.                                           *)
Create(p) ==
  /\ state[p] = "UNUSED"
  /\ state' = [state EXCEPT ![p] = "LIVE"]
  /\ fds' = [fds EXCEPT ![p] = [d \in Fds |-> ClosedFd]]
  /\ UNCHANGED files

(* sys_exit() or a kill: the descriptors stay until the slot is destroyed. *)
Exit(p) ==
  /\ state[p] = "LIVE"
  /\ state' = [state EXCEPT ![p] = "TERMINATED"]
  /\ UNCHANGED <<fds, files>>

(* process_destroy(), by the reaper or, of a live process, service_stop(). *)
Destroy(p) ==
  /\ state[p] # "UNUSED"
  /\ state' = [state EXCEPT ![p] = "UNUSED"]
  /\ fds' = [fds EXCEPT ![p] = [d \in Fds |-> ClosedFd]]
  /\ UNCHANGED files
-----------------------------------------------------------------------------
(* The overlay.                                                            *)
Found(n) == {i \in Slots : files[i].used /\ files[i].name = n}   \* find_by_name()
FreeFiles == {i \in Slots : ~ files[i].used}
FreeBlocks == Blocks \ {files[i].data : i \in Slots}
IsFirst(i, S) == i \in S /\ \A j \in S : i <= j

(* install_fd() in the first free descriptor.                              *)
FreeFds(p) == {d \in Fds : ~ fds[p][d].used}
install_fd(p, data, size, writable, ram_idx, n) ==
  \E d \in FreeFds(p) :
    /\ IsFirst(d, FreeFds(p))
    /\ fds' = [fds EXCEPT ![p][d] =
                 [used |-> TRUE, data |-> data, size |-> size, offset |-> 0,
                  writable |-> writable, ram_idx |-> ram_idx, name |-> n]]

(* sys_open() for writing a file the overlay has: append to it, or ...     *)
OpenAppend(p, n) ==
  /\ state[p] = "LIVE" /\ p \in Writers
  /\ \E i \in Found(n) : install_fd(p, files[i].data, files[i].size, TRUE, i, n)
  /\ UNCHANGED <<state, files>>

(* ... with O_TRUNC: ramfs_create() empties it in place.                   *)
OpenTruncate(p, n) ==
  /\ state[p] = "LIVE" /\ p \in Writers
  /\ \E i \in Found(n) :
       /\ files' = [files EXCEPT ![i].size = 0]
       /\ install_fd(p, files[i].data, 0, TRUE, i, n)
  /\ UNCHANGED state

(* sys_open() for writing a new file: ramfs_create() takes the first free  *)
(* slot and any heap block.                                                *)
Missing(n) == Found(n) = {}
OpenCreate(p, n) ==
  /\ state[p] = "LIVE" /\ p \in Writers
  /\ Missing(n)
  /\ \E i \in FreeFiles, b \in FreeBlocks :
       /\ IsFirst(i, FreeFiles)
       /\ files' = [files EXCEPT ![i] = [used |-> TRUE, name |-> n, data |-> b, size |-> 0]]
       /\ install_fd(p, b, 0, TRUE, i, n)
  /\ UNCHANGED state

(* sys_open() for reading: the overlay shadows the initrd.                 *)
OpenRead(p, n) ==
  /\ state[p] = "LIVE"
  /\ \/ \E i \in Found(n) : install_fd(p, files[i].data, files[i].size, FALSE, i, n)
     \/ /\ Found(n) = {} /\ n \in Initrd
        /\ install_fd(p, Rom, FileMax, FALSE, NONE, n)
  /\ UNCHANGED <<state, files>>

(* ramfs_append() takes what fits.                                         *)
Appended(size, len) == IF len > FileMax - size THEN FileMax - size ELSE len

(* sys_fwrite(): the slot comes from the descriptor, not from the name.    *)
Write(p, d, len) ==
  /\ state[p] = "LIVE" /\ fds[p][d].used /\ fds[p][d].writable
  /\ LET i == fds[p][d].ram_idx IN
       /\ i \in Slots /\ files[i].used
       /\ files' = [files EXCEPT ![i].size = @ + Appended(@, len)]
  /\ UNCHANGED <<state, fds>>

(* sys_read(): from the snapshot, up to its size.                          *)
Read(p, d, len) ==
  /\ state[p] = "LIVE" /\ fds[p][d].used
  /\ LET remaining == fds[p][d].size - fds[p][d].offset IN
       fds' = [fds EXCEPT ![p][d].offset = @ + (IF len > remaining THEN remaining ELSE len)]
  /\ UNCHANGED <<state, files>>

Close(p, d) ==
  /\ state[p] = "LIVE" /\ fds[p][d].used
  /\ fds' = [fds EXCEPT ![p][d] = ClosedFd]
  /\ UNCHANGED <<state, files>>

(* process_any_fd_references(); the mutant overlooks readers.              *)
WritersOnly(data) ==
  \E p \in Pids, d \in Fds :
    state[p] = "LIVE" /\ fds[p][d].used /\ fds[p][d].writable /\ fds[p][d].data = data
process_any_fd_references(data) ==
  \E p \in Pids, d \in Fds :
    state[p] = "LIVE" /\ fds[p][d].used /\ fds[p][d].data = data

(* sys_unlink().                                                           *)
Unlink(p, n) ==
  /\ state[p] = "LIVE" /\ p \in Writers
  /\ \E i \in Found(n) :
       /\ ~ process_any_fd_references(files[i].data)
       /\ files' = [files EXCEPT ![i] = NoFile]
  /\ UNCHANGED <<state, fds>>

Lengths == 1 .. FileMax
Next ==
  \E p \in Pids :
    \/ Create(p) \/ Exit(p) \/ Destroy(p)
    \/ \E n \in Names : \/ OpenAppend(p, n) \/ OpenTruncate(p, n) \/ OpenCreate(p, n)
                        \/ OpenRead(p, n) \/ Unlink(p, n)
    \/ \E d \in Fds : Close(p, d)
    \/ \E d \in Fds, len \in Lengths : Write(p, d, len) \/ Read(p, d, len)

Spec == Init /\ [][Next]_vars
-----------------------------------------------------------------------------
(* Sizes stay below the size of a heap block and a read position never     *)
(* passes the size of its snapshot, so no copy leaves the block.           *)
Descriptors ==
  [used : BOOLEAN, data : Blocks \cup {NULL, Rom}, size : 0 .. FileMax,
   offset : 0 .. FileMax, writable : BOOLEAN, ram_idx : Slots \cup {NONE},
   name : Names \cup {NULL}]
TypeOK ==
  /\ state \in [Pids -> {"UNUSED", "LIVE", "TERMINATED"}]
  /\ fds \in [Pids -> [Fds -> Descriptors]]
  /\ \A p \in Pids, d \in Fds : fds[p][d].offset <= fds[p][d].size
  /\ files \in [Slots -> [used : BOOLEAN, name : Names \cup {NULL},
                          data : Blocks \cup {NULL}, size : 0 .. FileMax]]

(* A path names one file and a heap block holds one file, whatever was     *)
(* unlinked and created again in between.                                  *)
OneFilePerName ==
  \A i, j \in Slots : files[i].used /\ files[j].used /\ i # j =>
    files[i].name # files[j].name /\ files[i].data # files[j].data

(* An open file stays the file that was opened: as long as its process     *)
(* lives, the slot a write goes to and the block a read comes from belong  *)
(* to the path that was opened, and the block has not been freed, although *)
(* slots, blocks and descriptors are recycled around it.                   *)
OpenFilesStay ==
  \A p \in Pids, d \in Fds :
    LET f == fds[p][d] IN
    state[p] = "LIVE" /\ f.used /\ f.ram_idx # NONE =>
      /\ files[f.ram_idx].used
      /\ files[f.ram_idx].data = f.data
      /\ files[f.ram_idx].name = f.name

(* Together: a path leads to one file, and a descriptor to the file its    *)
(* path led to when it was opened (sys_open, sys_unlink, sys_close).       *)
FilesSound == OneFilePerName /\ OpenFilesStay
=============================================================================

------------------------------- MODULE Audit -------------------------------
(***************************************************************************)
(* The authority ledger (kernel/src/audit.c): a ring of the last           *)
(* AUDIT_LOG_ENTRIES records, in which a record equal to the newest one    *)
(* only counts up, saved with the disk's other sections and restored at    *)
(* boot.  A record's kind, pid, verdict and resource are one model value.  *)
(***************************************************************************)
EXTENDS Naturals, Sequences

CONSTANTS Events,        \* what is recorded
          AUDIT_LOG_ENTRIES,
          MaxRecords,    \* bound: records of one lineage
          MaxAuditTicks, MaxReboots   \* bounds

ASSUME AuditConstants ==
  /\ AUDIT_LOG_ENTRIES \in Nat \ {0}
  /\ {MaxRecords, MaxAuditTicks, MaxReboots} \subseteq Nat

VARIABLES ring, total, coalesce_floor,
          auditNow,       \* timer_get_ticks()
          stored,    \* the section on the disk: ring and total
          truth,     \* history: every event of this ledger, oldest first,
          storedTruth,   \* as it was when the section was stored
          reboots

auditVars == <<ring, total, coalesce_floor, auditNow, stored, truth, storedTruth, reboots>>

Slots0 == 0 .. (AUDIT_LOG_ENTRIES - 1)
NoEntry == [seq |-> 0, tick |-> 0, event |-> "none", count |-> 0]
EmptyRing == [i \in Slots0 |-> NoEntry]

AuditInit ==
  /\ ring = EmptyRing /\ total = 0 /\ coalesce_floor = 0
  /\ auditNow = 0 /\ reboots = 0
  /\ stored = [ring |-> EmptyRing, total |-> 0]
  /\ truth = <<>> /\ storedTruth = <<>>
-----------------------------------------------------------------------------
Slot(seq) == seq % AUDIT_LOG_ENTRIES

(* Whether the newest record is this boot's own and the same; the mutant   *)
(* forgets the boundary of the restore.                                    *)
CoalescesAny(event) == total > 0 /\ ring[Slot(total - 1)].event = event
Coalesces(event) == total > coalesce_floor /\ ring[Slot(total - 1)].event = event

audit_record(event) ==
  /\ Len(truth) < MaxRecords
  /\ \/ /\ Coalesces(event)
        /\ ring' = [ring EXCEPT ![Slot(total - 1)].count = @ + 1,
                                ![Slot(total - 1)].tick = auditNow]
        /\ UNCHANGED total
     \/ /\ ~Coalesces(event)
        /\ ring' = [ring EXCEPT ![Slot(total)] =
                      [seq |-> total, tick |-> auditNow, event |-> event, count |-> 1]]
        /\ total' = total + 1
  /\ truth' = Append(truth, event)
  /\ UNCHANGED <<coalesce_floor, auditNow, stored, storedTruth, reboots>>

(* The timer interrupt.                                                    *)
AuditTick ==
  /\ auditNow < MaxAuditTicks /\ auditNow' = auditNow + 1
  /\ UNCHANGED <<ring, total, coalesce_floor, stored, truth, storedTruth, reboots>>

(* persist_sync() stores the ledger ...                                    *)
audit_serialize ==
  /\ stored' = [ring |-> ring, total |-> total] /\ storedTruth' = truth
  /\ UNCHANGED <<ring, total, coalesce_floor, auditNow, truth, reboots>>

(* ... and a boot restores it, or starts cold when the section is not this *)
(* build's or fails its checksum.                                          *)
Restarted(ringOf(_), from, events) ==
  /\ ring' = ringOf(from.ring)
  /\ total' = from.total /\ coalesce_floor' = from.total
  /\ truth' = events
AsStored(r) == r
Untimed(r) == [i \in Slots0 |-> [r[i] EXCEPT !.tick = 0]]
audit_load == Restarted(Untimed, stored, storedTruth)

AuditReboot ==
  /\ reboots < MaxReboots /\ reboots' = reboots + 1
  /\ auditNow' = 0
  /\ audit_load \/ Restarted(AsStored, [ring |-> EmptyRing, total |-> 0], <<>>)
  /\ UNCHANGED <<stored, storedTruth>>

AuditNext ==
  \/ \E event \in Events : audit_record(event)
  \/ AuditTick \/ audit_serialize \/ AuditReboot

AuditSpec == AuditInit /\ [][AuditNext]_auditVars
-----------------------------------------------------------------------------
(* audit_format() with room for every line: the live entries, oldest       *)
(* first.  The mutant starts a wrapped ring one entry late.                *)
LogFrom(start) ==
  LET live == IF total < AUDIT_LOG_ENTRIES THEN total ELSE AUDIT_LOG_ENTRIES
  IN  [i \in 1 .. live |-> ring[Slot(start + i - 1)]]
LateFormat == LogFrom(IF total <= AUDIT_LOG_ENTRIES THEN 0 ELSE Slot(total + 1))
audit_format == LogFrom(IF total <= AUDIT_LOG_ENTRIES THEN 0 ELSE Slot(total))

Times(event, n) == [i \in 1 .. n |-> event]
Expanded ==
  LET upTo[i \in 0 .. Len(audit_format)] ==
        IF i = 0 THEN <<>>
        ELSE upTo[i - 1] \o Times(audit_format[i].event, audit_format[i].count)
  IN  upTo[Len(audit_format)]

(* What the ledger prints is the end of what really happened: every event  *)
(* once, in order, with consecutive numbers up to the newest, through      *)
(* coalescing, the ring's wrap-around, saves, restores and cold starts.    *)
LedgerIsTheEnd ==
  /\ Len(Expanded) <= Len(truth)
  /\ Expanded = SubSeq(truth, Len(truth) - Len(Expanded) + 1, Len(truth))
  /\ total <= AUDIT_LOG_ENTRIES => Expanded = truth
  /\ \A i \in DOMAIN audit_format : audit_format[i].seq = total - Len(audit_format) + i - 1

(* "The first append after a restore cannot fold a boot-2 event into a     *)
(* durable boot-1 tail entry": what an earlier boot left in the ring is    *)
(* still exactly what was restored, and no entry bears a time to come.     *)
EarlierBootsSealed ==
  \A i \in Slots0 :
    /\ ring[i].tick <= auditNow
    /\ ring[i].seq < coalesce_floor =>
         ring[i] = [stored.ring[i] EXCEPT !.tick = 0]

(* The ledger tells the truth about the end of its lineage and seals what  *)
(* earlier boots left (audit_record, audit_format, audit_load).            *)
LedgerFaithful == LedgerIsTheEnd /\ EarlierBootsSealed
=============================================================================

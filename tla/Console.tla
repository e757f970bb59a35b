------------------------------ MODULE Console ------------------------------
(***************************************************************************)
(* Console input (kernel/src/console.c): bytes of COM1, and of the vsock   *)
(* shell channel, pass a parser that takes the host's two escape sequences *)
(* out of the stream (a session reseed and an egress grant) and lets       *)
(* everything else through into a ring; the keyboard writes to the ring    *)
(* directly; SYS_CONS_READ drains it.  Each step runs with interrupts off. *)
(* The prefixes keep where they differ and are otherwise shortened.        *)
(*                                                                         *)
(* And the serial log, which the host parses by the start of a line: what  *)
(* SYS_WRITE (kernel/src/syscall.c) makes of a citizen's bytes, between    *)
(* the kernel's own lines, which it may cut in two.                        *)
(***************************************************************************)
EXTENDS Integers, Sequences, FiniteSets

CONSTANTS OSC_QSEED, OSC_EGRESS,   \* the two prefixes
          RESEED_HEX_LEN, OSC_MAX,
          HexBytes, SpecBytes,     \* hex_val(), egress_spec_char()
          Bytes,                   \* what COM1 may receive
          CONSOLE_RING_SIZE,
          ReadMax,                 \* the buffer of a SYS_CONS_READ
          LogPids, LogMessages,    \* who writes to the log, and what
          WriteMax, SEG_MAX,       \* of a message, and of a line, at most
          MaxBytes, MaxKeys, MaxLogWrites   \* bounds

ASSUME ConsoleConstants ==
  /\ CONSOLE_RING_SIZE > 1 /\ OSC_MAX >= Len(OSC_EGRESS)
  /\ OSC_QSEED[1] = "ESC" /\ OSC_EGRESS[1] = "ESC"
  /\ "ESC" \notin HexBytes \cup SpecBytes
  /\ SEG_MAX > 0 /\ 0 \notin LogPids

VARIABLES input,         \* the ring's contents, oldest first
          osc_buf, osc_cand,
          ring_dropped,
          kbd_e0, kbd_shift,
          typed,         \* history: COM1's bytes, those read, what was done
          read_out, commands, keys,
         bootlog,       \* the serial log, its bytes [by, byte, names]; 0 is the kernel
         log_open,      \* the kernel is in the middle of a line
         said           \* history: what each citizen wrote, writes, half lines of the kernel

logVars == <<bootlog, log_open, said>>
consoleVars == <<input, osc_buf, osc_cand, ring_dropped, kbd_e0, kbd_shift,
                 typed, read_out, commands, keys>>

ConsoleInit ==
  /\ input = <<>> /\ osc_buf = <<>> /\ osc_cand = {} /\ ring_dropped = 0
  /\ kbd_e0 = FALSE /\ kbd_shift = FALSE
  /\ typed = <<>> /\ read_out = <<>> /\ commands = <<>> /\ keys = 0
-----------------------------------------------------------------------------
(* ring_push() of several bytes: the newest are dropped when it is full.   *)
Room == CONSOLE_RING_SIZE - 1 - Len(input)
ring_push(bytes) ==
  LET n == IF Len(bytes) < Room THEN Len(bytes) ELSE Room
  IN  /\ input' = input \o SubSeq(bytes, 1, n)
      /\ ring_dropped' = ring_dropped + Len(bytes) - n

Hold(b, cand) ==
  /\ osc_buf' = Append(osc_buf, b) /\ osc_cand' = cand
  /\ UNCHANGED <<input, ring_dropped, commands>>

(* The byte does not continue the sequence: what was held is input, and an *)
(* ESC may start the next one.  The mutant forgets that it may.            *)
RejectPlainly(b) ==
  /\ ring_push(Append(osc_buf, b)) /\ osc_buf' = <<>> /\ osc_cand' = {}
  /\ UNCHANGED commands
osc_reject(b) ==
  /\ IF b = "ESC"
     THEN ring_push(osc_buf) /\ osc_buf' = <<b>> /\ osc_cand' = {"qseed", "egress"}
     ELSE ring_push(Append(osc_buf, b)) /\ osc_buf' = <<>> /\ osc_cand' = {}
  /\ UNCHANGED commands

(* quantum_session_reseed() or egress_offer().                             *)
Does(command) ==
  /\ commands' = Append(commands, command)
  /\ osc_buf' = <<>> /\ osc_cand' = {}
  /\ UNCHANGED <<input, ring_dropped>>

Prefix(c) == IF c = "qseed" THEN OSC_QSEED ELSE OSC_EGRESS
InPrefix == {c \in osc_cand : Len(osc_buf) < Len(Prefix(c))}
Continues(b) == {c \in InPrefix : Prefix(c)[Len(osc_buf) + 1] = b}
Payload(c) == SubSeq(osc_buf, Len(Prefix(c)) + 1, Len(osc_buf))

com1_rx_byte(b) ==
  \/ /\ osc_buf = <<>>
     /\ IF b = "ESC" THEN Hold(b, {"qseed", "egress"})
        ELSE ring_push(<<b>>) /\ UNCHANGED <<osc_buf, osc_cand, commands>>
  \/ /\ osc_buf # <<>> /\ InPrefix # {}
     /\ IF Continues(b) = {} THEN osc_reject(b) ELSE Hold(b, Continues(b))
  \/ /\ osc_buf # <<>> /\ InPrefix = {} /\ "qseed" \in osc_cand
     /\ IF Len(Payload("qseed")) < RESEED_HEX_LEN
        THEN IF b \in HexBytes THEN Hold(b, osc_cand) ELSE osc_reject(b)
        ELSE IF b = "BEL" THEN Does(<<"qseed", Payload("qseed")>>) ELSE osc_reject(b)
  \/ /\ osc_buf # <<>> /\ InPrefix = {} /\ "qseed" \notin osc_cand
     /\ IF b = "BEL" THEN Does(<<"egress", Payload("egress")>>)
        ELSE IF b \in SpecBytes /\ Len(osc_buf) < OSC_MAX THEN Hold(b, osc_cand)
        ELSE osc_reject(b)

(* console_com1_irq() and console_input_bytes(), a byte at a time.         *)
console_com1_irq ==
  /\ Len(typed) < MaxBytes
  /\ \E b \in Bytes : com1_rx_byte(b) /\ typed' = Append(typed, b)
  /\ UNCHANGED <<kbd_e0, kbd_shift, read_out, keys>>

(* A scancode: the extended prefix, a key after it, a shift key pressed or *)
(* released, another release, or a key.                                    *)
console_kbd_irq ==
  /\ keys < MaxKeys /\ keys' = keys + 1
  /\ \E sc \in {"E0", "shift", "unshift", "break", "make"} :
       /\ kbd_e0' = (sc = "E0")
       /\ kbd_shift' = IF kbd_e0 \/ sc \notin {"shift", "unshift"} THEN kbd_shift ELSE sc = "shift"
       /\ IF sc = "make" /\ ~kbd_e0 THEN ring_push(<<IF kbd_shift THEN "KEY" ELSE "key">>)
          ELSE UNCHANGED <<input, ring_dropped>>
  /\ UNCHANGED <<osc_buf, osc_cand, typed, read_out, commands>>

console_read ==
  /\ input # <<>>
  /\ LET n == IF Len(input) < ReadMax THEN Len(input) ELSE ReadMax IN
       read_out' = read_out \o SubSeq(input, 1, n) /\ input' = SubSeq(input, n + 1, Len(input))
  /\ UNCHANGED <<osc_buf, osc_cand, ring_dropped, kbd_e0, kbd_shift, typed, commands, keys>>

ConsoleNext == console_com1_irq \/ console_kbd_irq \/ console_read

ConsoleSpec == ConsoleInit /\ [][ConsoleNext]_consoleVars
-----------------------------------------------------------------------------
(* The serial log.                                                         *)

LogInit ==
  /\ bootlog = <<>> /\ log_open = FALSE
  /\ said = [bytes |-> [p \in LogPids |-> <<>>], writes |-> 0, lines |-> 0]

By(p, bytes) == [i \in DOMAIN bytes |-> [by |-> p, byte |-> bytes[i], names |-> p]]
UserPrefix(p) == <<[by |-> 0, byte |-> "PREFIX", names |-> p]>>
CrLf == By(0, <<"CRLF">>)

(* Where the segment that starts after place p of msg ends: at a newline,  *)
(* at the end, or full; and where the run of newlines after n ends.        *)
SegmentEnd(msg, p) ==
  CHOOSE n \in p .. Len(msg) :
    /\ n - p <= SEG_MAX /\ \A i \in p + 1 .. n : msg[i] # "NL"
    /\ n = Len(msg) \/ n - p = SEG_MAX \/ msg[n + 1] = "NL"
AfterNewlines(msg, n) ==
  CHOOSE q \in n .. Len(msg) :
    /\ \A i \in n + 1 .. q : msg[i] = "NL"
    /\ q = Len(msg) \/ msg[q + 1] # "NL"

(* The mutant writes the message as it is, with one prefix.                *)
PrefixOnce(pid, msg) == UserPrefix(pid) \o By(pid, msg) \o CrLf
(* A prefix of its own for every line of the message.                      *)
user_console_write(pid, msg) ==
  LET from[p \in 0 .. Len(msg)] ==
        LET n == SegmentEnd(msg, p)
            q == AfterNewlines(msg, n)
        IN  UserPrefix(pid) \o By(pid, SubSeq(msg, p + 1, n)) \o CrLf
              \o (IF q < Len(msg) THEN from[q] ELSE <<>>)
  IN  from[0]

(* SYS_WRITE: the string, cut to the kernel's buffer.                      *)
sys_write(pid, msg) ==
  /\ said.writes < MaxLogWrites
  /\ LET taken == SubSeq(msg, 1, IF Len(msg) < WriteMax THEN Len(msg) ELSE WriteMax)
     IN  /\ bootlog' = bootlog \o user_console_write(pid, taken)
         /\ said' = [said EXCEPT !.writes = @ + 1, !.bytes[pid] = @ \o taken]
  /\ UNCHANGED log_open

(* boot_log: the marker and the text, then the end of the line.  A kernel  *)
(* thread has interrupts on and may be preempted between the two.          *)
boot_log ==
  /\ said.lines < 2 * MaxLogWrites
  /\ bootlog' = bootlog \o (IF log_open THEN CrLf ELSE By(0, <<"MARK">>))
  /\ log_open' = ~log_open
  /\ said' = [said EXCEPT !.lines = @ + 1]

LogNext ==
  \/ \E pid \in LogPids, msg \in LogMessages : sys_write(pid, msg)
  \/ boot_log
-----------------------------------------------------------------------------
(* The reference: what a complete sequence is, anywhere in the stream.     *)
Part(a, b) == SubSeq(typed, a, b)
PayloadOf(c, a, b) == Part(a + Len(Prefix(c)), b - 1)
Sequence(c, a, b) ==
  /\ typed[b] = "BEL"
  /\ b - a >= Len(Prefix(c)) /\ Part(a, a + Len(Prefix(c)) - 1) = Prefix(c)
  /\ LET p == PayloadOf(c, a, b)
         ok == IF c = "qseed" THEN HexBytes ELSE SpecBytes
     IN  /\ \A i \in DOMAIN p : p[i] \in ok
         /\ IF c = "qseed" THEN Len(p) = RESEED_HEX_LEN ELSE b - a <= OSC_MAX
Complete == {<<c, a, b>> \in {"qseed", "egress"} \X (DOMAIN typed) \X (DOMAIN typed) :
               Sequence(c, a, b)}
Outside(sequences) ==
  LET keep[n \in 0 .. Len(typed)] ==
        IF n = 0 THEN <<>>
        ELSE IF \E s \in sequences : n \in s[2] .. s[3] THEN keep[n - 1]
        ELSE Append(keep[n - 1], typed[n])
  IN  keep[Len(typed)]

(* Every byte that is not part of a complete sequence reaches the reader,  *)
(* once and in order: a sequence that breaks off half way is input from    *)
(* its ESC on, and what the keyboard types in between costs nothing.  Only *)
(* a full ring loses bytes, and it counts them.  A complete sequence       *)
(* reaches its handler whole, and nothing of it the reader.                *)
FromSerial(s) == SelectSeq(s, LAMBDA b : b \notin {"key", "KEY"})
InputFaithful ==
  LET arrived == FromSerial(read_out \o input)
      complete == Complete
      plain == Outside(complete)
  IN
  /\ ring_dropped = 0 => arrived \o osc_buf = plain
  /\ Len(arrived) + Len(osc_buf) + ring_dropped >= Len(plain)
  /\ Len(commands) = Cardinality(complete)
  /\ {commands[i] : i \in DOMAIN commands} =
       {<<s[1], PayloadOf(s[1], s[2], s[3])>> : s \in complete}

(* "No citizen byte can ever land at column 0 of the serial log"           *)
(* (syscall.c:142): whatever a citizen writes, and wherever it cuts into a *)
(* line of the kernel, its bytes stand behind a prefix that names it, on   *)
(* the same line, and none is lost but the newlines.                       *)
LogUnforged ==
  /\ \A i \in DOMAIN bootlog : bootlog[i].by # 0 =>
       \E j \in 1 .. i - 1 : /\ bootlog[j].byte = "PREFIX" /\ bootlog[j].names = bootlog[i].by
                             /\ \A k \in j + 1 .. i : bootlog[k].by = bootlog[i].by
                                                      /\ bootlog[k].byte # "NL"
  /\ \A p \in LogPids :
       [i \in DOMAIN SelectSeq(bootlog, LAMBDA e : e.by = p) |->
          SelectSeq(bootlog, LAMBDA e : e.by = p)[i].byte]
         = SelectSeq(said.bytes[p], LAMBDA b : b # "NL")

=============================================================================

-------------------------------- MODULE Qsh --------------------------------
(***************************************************************************)
(* The shell (user/qsh.c): its line editor over the console's byte stream, *)
(* the question and answer with the host's quantum broker that share that  *)
(* stream, and the commands that take descriptors and sockets and poll the *)
(* kernel with a bound.  A byte is its class and who sent it; a command    *)
(* line may be any command.  The kernel's answers are nondeterministic.    *)
(***************************************************************************)
EXTENDS Integers, Sequences

CONSTANTS ConsoleRing, Chunk, AwaitChunk, LineMax, QpuReplyMax, Keystrokes, ShellCommands,
          MaxKeystrokes, MaxAsks, MaxShellCommands

QshConstants ==
    /\ {ConsoleRing, Chunk, AwaitChunk, LineMax, QpuReplyMax} \subseteq Nat \ {0}
    /\ Keystrokes \subseteq {"ESC", "[", "]", "a", " ", "CR", "LF", "BS", "BEL", "^C"}
    /\ ShellCommands \subseteq {"write", "cat", "udping", "net2", "http", "tcpput", "nslookup", "qpu"}
    /\ {MaxKeystrokes, MaxAsks, MaxShellCommands} \subseteq Nat

ASSUME QshAssumption == QshConstants

VARIABLES serial,  \* bytes on their way from the terminal and the host
          cons,    \* the kernel's console ring
          editor,  \* _start: line, esc, prev_cr and the rest of the chunk
          job,     \* the command running: its name and step
          await,   \* qpu_await: tag, bytes of the prefix matched, in a body, the body
          asked,   \* requests the host has not answered
          answer,  \* the last answer qpu_await returned, with the tag it waited for
          held,    \* descriptors, UDP sockets and the TCP connection the shell has
          shUsed   \* keys typed, requests sent and commands run so far

qshVars == <<serial, cons, editor, job, await, asked, answer, held, shUsed>>

Byte(k, by, t) == [k |-> k, by |-> by, tag |-> t]
NoJob == [name |-> "none", step |-> "none"]
NoAwait == [tag |-> 0, pi |-> 0, in |-> FALSE, body |-> << >>]
NoAnswer == [tag |-> 0, of |-> 0]

QshInit ==
    /\ serial = << >> /\ cons = << >>
    /\ editor = [line |-> << >>, esc |-> 0, prev_cr |-> FALSE, chunk |-> << >>]
    /\ job = NoJob /\ await = NoAwait
    /\ asked = {} /\ answer = NoAnswer
    /\ held = [fds |-> 0, udp |-> 0, tcp |-> "none"]
    /\ shUsed = [keys |-> 0, asks |-> 0, commands |-> 0]
----------------------------------------------------------------------------
(* The terminal, the host and the console ring *)

Type(k) ==
    /\ shUsed.keys < MaxKeystrokes
    /\ shUsed' = [shUsed EXCEPT !.keys = @ + 1]
    /\ serial' = Append(serial, Byte(k, "user", 0))
    /\ UNCHANGED <<cons, editor, job, await, asked, answer, held>>

\* The broker's answer to request t: ESC ] qres ; <tag> ; ... BEL.
Answer(t) == [i \in 1 .. 5 |-> Byte(<<"ESC", "]", "qres", "tag", "BEL">>[i], "host", t)]

HostAnswers(t) ==
    /\ t \in asked
    /\ asked' = asked \ {t}
    /\ serial' = serial \o Answer(t)
    /\ UNCHANGED <<cons, editor, job, await, answer, held, shUsed>>

\* A byte reaches the ring, or is dropped when the ring is full.
Deliver ==
    /\ serial # << >>
    /\ serial' = Tail(serial)
    /\ cons' = IF Len(cons) < ConsoleRing THEN Append(cons, Head(serial)) ELSE cons
    /\ UNCHANGED <<editor, job, await, asked, answer, held, shUsed>>

Least2(a, b) == IF a < b THEN a ELSE b
Taken(n) == SubSeq(cons, 1, Least2(n, Len(cons)))
Left(n) == SubSeq(cons, Least2(n, Len(cons)) + 1, Len(cons))
----------------------------------------------------------------------------
(* The main loop *)

ReadChunk ==
    /\ job = NoJob /\ editor.chunk = << >> /\ cons # << >>
    /\ editor' = [editor EXCEPT !.chunk = Taken(Chunk)]
    /\ cons' = Left(Chunk)
    /\ UNCHANGED <<serial, job, await, asked, answer, held, shUsed>>

IsLetter(b) == b.k \in {"a", "qres", "tag"}

\* Escape sequences are swallowed: ESC x, ESC [ ... letter, ESC ] ... BEL.
EscStep(e, b) ==
    CASE e.esc = 1 -> [e EXCEPT !.esc = IF b.k = "[" THEN 2 ELSE IF b.k = "]" THEN 3 ELSE 0]
      [] e.esc = 3 -> [e EXCEPT !.esc = IF b.k \in {"BEL", "CR", "LF"} THEN 0
                                        ELSE IF b.k = "ESC" THEN 1 ELSE 3]
      [] e.esc = 2 -> [e EXCEPT !.esc = IF IsLetter(b) THEN 0 ELSE 2]

IsEnter(e, b) == b.k = "CR" \/ (b.k = "LF" /\ ~e.prev_cr)

\* One byte of the chunk that is not Enter: swallowed, erasing, or appended.
EditStep(e, b) ==
    IF e.esc # 0 THEN EscStep(e, b)
    ELSE IF b.k = "ESC" THEN [e EXCEPT !.esc = 1]
    ELSE IF b.k = "LF" /\ e.prev_cr THEN [e EXCEPT !.prev_cr = FALSE]
    ELSE IF b.k = "BS" THEN [e EXCEPT !.prev_cr = FALSE, !.line = IF @ = << >> THEN @ ELSE SubSeq(@, 1, Len(@) - 1)]
    ELSE IF b.k \in {"BEL", "^C"} \/ Len(e.line) >= LineMax - 1 THEN [e EXCEPT !.prev_cr = FALSE]
    ELSE [e EXCEPT !.prev_cr = FALSE, !.line = Append(@, b)]

EditByte ==
    /\ job = NoJob /\ editor.chunk # << >>
    /\ LET b == Head(editor.chunk)
       IN  /\ editor.esc # 0 \/ ~IsEnter(editor, b)
           /\ editor' = [EditStep(editor, b) EXCEPT !.chunk = Tail(@)]
    /\ UNCHANGED <<serial, cons, job, await, asked, answer, held, shUsed>>

\* Enter: execute the line, empty or any command.
execute ==
    /\ job = NoJob /\ editor.chunk # << >> /\ editor.esc = 0
    /\ IsEnter(editor, Head(editor.chunk))
    /\ editor' = [editor EXCEPT !.chunk = Tail(@), !.line = << >>,
                                !.prev_cr = (Head(editor.chunk).k = "CR")]
    /\ \/ UNCHANGED <<job, shUsed>>
       \/ /\ editor.line # << >> /\ shUsed.commands < MaxShellCommands
          /\ shUsed' = [shUsed EXCEPT !.commands = @ + 1]
          /\ \E c \in ShellCommands : job' = [name |-> c, step |-> "begin"]
    /\ UNCHANGED <<serial, cons, await, asked, answer, held>>
----------------------------------------------------------------------------
(* qpu: ask the host, wait for the answer with the tag *)

JobSame == UNCHANGED <<serial, held>>

qpu_ask ==
    /\ job.name = "qpu" /\ job.step \in {"begin", "poll"} /\ shUsed.asks < MaxAsks
    /\ LET t == shUsed.asks + 1
       IN  /\ asked' = asked \cup {t}
           /\ await' = [NoAwait EXCEPT !.tag = t]
           /\ shUsed' = [shUsed EXCEPT !.asks = t]
    /\ job' = [job EXCEPT !.step = "await"]
    /\ UNCHANGED <<cons, editor, answer>> /\ JobSame

ReplyMark == <<"ESC", "]", "qres">>

\* The body begins with the tag that is waited for.
TagMatches(w) == w.body # << >> /\ w.body[1].k = "tag" /\ w.body[1].tag = w.tag

\* One byte while waiting: match the prefix, then collect the body; an
\* oversized body or one with another tag is dropped.
AwaitStep(w, b) ==
    IF ~w.in THEN
        IF b.k = ReplyMark[w.pi + 1]
        THEN IF w.pi + 1 = Len(ReplyMark) THEN [w EXCEPT !.in = TRUE, !.body = << >>, !.pi = 0]
             ELSE [w EXCEPT !.pi = @ + 1]
        ELSE [w EXCEPT !.pi = IF b.k = "ESC" THEN 1 ELSE 0]
    ELSE IF b.k = "BEL" THEN [w EXCEPT !.in = FALSE]
    ELSE IF Len(w.body) < QpuReplyMax - 1 THEN [w EXCEPT !.body = Append(@, b)]
    ELSE [w EXCEPT !.in = FALSE]

Stops(w, b) == ~w.in /\ b.k = "^C"
Answers(w, b) == w.in /\ b.k = "BEL" /\ TagMatches(w)

\* The states of the wait over a chunk, and the first byte that ends it.
WaitAfter(bs) == LET w[i \in 0 .. Len(bs)] == IF i = 0 THEN await ELSE AwaitStep(w[i - 1], bs[i])
                 IN  w
Ends(bs) == {i \in 1 .. Len(bs) : Stops(WaitAfter(bs)[i - 1], bs[i]) \/ Answers(WaitAfter(bs)[i - 1], bs[i])}

\* qpu_await reads a chunk: it goes on waiting, or returns and drops the rest.
qpu_await ==
    /\ job.name = "qpu" /\ job.step = "await" /\ cons # << >>
    /\ cons' = Left(AwaitChunk)
    /\ LET bs == Taken(AwaitChunk)
           w == WaitAfter(bs)
       IN  IF Ends(bs) = {}
           THEN await' = w[Len(bs)] /\ UNCHANGED <<job, answer>>
           ELSE LET i == CHOOSE i \in Ends(bs) : \A j \in Ends(bs) : i <= j
                IN  /\ await' = NoAwait
                    /\ IF bs[i].k = "^C" THEN job' = NoJob /\ UNCHANGED answer
                       ELSE /\ answer' = [tag |-> await.tag, of |-> w[i - 1].body[1].tag]
                            /\ job' \in {NoJob, [job EXCEPT !.step = "poll"]}
    /\ UNCHANGED <<editor, asked, shUsed>> /\ JobSame

\* The wait, or the polling of a simulator job, runs out of time.
QpuTimesOut ==
    /\ job.name = "qpu"
    /\ job.step \in {"await", "poll"} \/ shUsed.asks = MaxAsks
    /\ job' = NoJob /\ await' = NoAwait
    /\ UNCHANGED <<cons, editor, asked, answer, shUsed>> /\ JobSame
----------------------------------------------------------------------------
(* Commands that hold something *)

QshRuns(names, step) == job.name \in names /\ job.step = step
Goes(step) == job' = [job EXCEPT !.step = step]
ShellSame == UNCHANGED <<serial, cons, editor, await, asked, answer, shUsed>>

\* cmd_write, print_file: open, or refused.
FileOpens(name) ==
    /\ QshRuns({name}, "begin")
    /\ \/ held' = [held EXCEPT !.fds = @ + 1] /\ Goes("copy")
       \/ job' = NoJob /\ UNCHANGED held
    /\ ShellSame

WriteOpens == FileOpens("write")
CatOpens == FileOpens("cat")

\* The copy, until done or a short count: whatever it came to, close.
FileCloses(name) ==
    /\ QshRuns({name}, "copy")
    /\ held' = [held EXCEPT !.fds = @ - 1] /\ job' = NoJob
    /\ ShellSame

WriteCloses == FileCloses("write")
CatCloses == FileCloses("cat")

\* A UDP socket, or none: no capability, no grant, no socket left.
Binds ==
    /\ \/ held' = [held EXCEPT !.udp = @ + 1] /\ Goes("send")
       \/ job' = NoJob /\ UNCHANGED held
    /\ ShellSame

UdpingBinds == QshRuns({"udping"}, "begin") /\ Binds
Net2Binds == QshRuns({"net2"}, "begin") /\ Binds

LeavesOnFailure == job' = NoJob /\ UNCHANGED held
ClosesOnFailure == job' = NoJob /\ held' = [held EXCEPT !.udp = @ - 1]

\* What is left after the retries while the send queue is full.
udping_send == {"sent", "WOULDBLOCK", "EEGRESS", "failed"}

\* A name that does not fit, or a query that is not sent: close and give up.
UdpingSends ==
    /\ QshRuns({"udping"}, "send")
    /\ \E r \in udping_send \cup {"too long"} :
         IF r = "sent" THEN Goes("poll") /\ UNCHANGED held ELSE ClosesOnFailure
    /\ ShellSame

\* An answer, an error or the end of the time.  The retransmission on the way
\* changes nothing the shell holds.
UdpingCloses ==
    /\ QshRuns({"udping"}, "poll")
    /\ held' = [held EXCEPT !.udp = @ - 1] /\ job' = NoJob
    /\ ShellSame

\* A probe each round, sent or not, until the peer is heard or time is up.
Net2Polls ==
    /\ QshRuns({"net2"}, "send")
    /\ Goes("heard") \/ Goes("silent")
    /\ UNCHANGED held /\ ShellSame

\* One last probe for a peer that was heard, then close.
Net2Closes ==
    /\ job.name = "net2" /\ job.step \in {"heard", "silent"}
    /\ held' = [held EXCEPT !.udp = @ - 1] /\ job' = NoJob
    /\ ShellSame

\* cmd_nslookup; cmd_http's first step for a name: SYS_RESOLVE until it answers.
Resolves ==
    /\ QshRuns({"nslookup", "http"}, "begin")
    /\ \/ job.name = "http" /\ Goes("connect")
       \/ job' = NoJob
    /\ UNCHANGED held /\ ShellSame

\* TCP_CONNECT polled with a bound.  The kernel may have taken the one
\* connection for us and not be done; any failure goes through the close.
TcpConnects ==
    /\ QshRuns({"http"}, "connect") \/ QshRuns({"tcpput"}, "begin")
    /\ \/ held' = [held EXCEPT !.tcp = "open"] /\ Goes("transfer")
       \/ held' \in {held, [held EXCEPT !.tcp = "open"]} /\ Goes("close")
    /\ ShellSame

\* SEND and RECV until done, end of file, reset or idle too long.
TcpTransfers ==
    /\ QshRuns({"http", "tcpput"}, "transfer")
    /\ Goes("close") /\ UNCHANGED held
    /\ ShellSame

\* http_close: TCP_CLOSE until it answers or time is up.  The kernel goes on
\* closing after that.
http_close ==
    /\ QshRuns({"http", "tcpput"}, "close")
    /\ held' \in {[held EXCEPT !.tcp = "none"],
                  [held EXCEPT !.tcp = IF @ = "none" THEN "none" ELSE "closing"]}
    /\ job' = NoJob
    /\ ShellSame

\* The kernel finishes a close on its own.
KernelCloses ==
    /\ held.tcp = "closing"
    /\ held' = [held EXCEPT !.tcp = "none"]
    /\ UNCHANGED job /\ ShellSame

QshNext ==
    \/ \E k \in Keystrokes : Type(k)
    \/ \E t \in 1 .. MaxAsks : HostAnswers(t)
    \/ Deliver
    \/ ReadChunk \/ EditByte \/ execute
    \/ qpu_ask \/ qpu_await \/ QpuTimesOut
    \/ WriteOpens \/ WriteCloses \/ CatOpens \/ CatCloses
    \/ UdpingBinds \/ UdpingSends \/ UdpingCloses
    \/ Net2Binds \/ Net2Polls \/ Net2Closes
    \/ Resolves \/ TcpConnects \/ TcpTransfers \/ http_close \/ KernelCloses

QshSpec == QshInit /\ [][QshNext]_qshVars
----------------------------------------------------------------------------
\* An answer is only taken for the request it answers, whatever earlier
\* answers come late, cut short by a full ring or in the middle of a wait
\* (qsh.c:1783).
AnswersMatchTags == answer.of = answer.tag

\* "qsh never exits, so a slot leaked on any path here would be leaked for
\* good" (qsh.c:968): at the prompt the shell holds no descriptor, no UDP
\* socket and no connection it has not asked to close.
NothingHeld == job = NoJob => held.fds = 0 /\ held.udp = 0 /\ held.tcp # "open"

============================================================================

------------------------------ MODULE Terminal ------------------------------
(***************************************************************************)
(* One terminal of phase4.c: the processes in TermRead_handler and         *)
(* TermWrite_handler, past their argument checks, term_daemon with         *)
(* termWriting and termReading, the two mailboxes between them, and the    *)
(* device.                                                                 *)
(*                                                                         *)
(* A C string is the sequence of its characters before the NUL; the texts  *)
(* that are written hold no NUL.  Callers share nothing with the daemon    *)
(* but the mailboxes, so they may have any priority.  The device may       *)
(* interrupt the daemon at any step (late), or is so slow that the daemon  *)
(* is back in waitDevice before its next interrupt.                        *)
(***************************************************************************)
EXTENDS Buffers, SequencesExt

CONSTANTS
    Procs,          \* the processes that write
    Chars,          \* ordinary characters
    NL, NUL,        \* newline and the NUL character
    Nothing,        \* no character in the receive half of a status
    Keys,           \* the characters that may be typed
    Texts,          \* the buffers passed to TermWrite, as sequences
    MaxLine,        \* MAXLINE, 80 in the code
    MaxBuffers,     \* MAX_TERM_BUFFERS, 10 in the code
    MaxInput,       \* bound of the model: characters typed
    MaxCalls        \* bound of the model: texts that are written

Char == Chars \cup {NL}

ASSUME TerminalAssumption ==
    /\ NL \notin Chars /\ NUL \notin Char /\ Nothing \notin Char \cup {NUL}
    /\ Keys \subseteq Char \cup {NUL}
    /\ Texts \subseteq Seq(Char)
    /\ MaxLine \in Nat \ {0} /\ MaxBuffers \in Nat \ {0}
    /\ MaxInput \in Nat /\ MaxCalls \in Nat

VARIABLES
    pc,             \* a process: "user", or "write": in MboxSend
    calls,          \* calls of TermWrite that have been made
    text,           \* the buffer of its TermWrite
    lines, taken,   \* read_mb: the lines sent to it, and how many were received
    write_mb,       \* the mailbox of one text
    dpc,            \* term_daemon: "wait", and in termWriting "send", "sent"
    received,       \* the character in the daemon's status, while it writes
    to_write, w,    \* the text it holds, and how much of it termWriting has sent
    buffer,         \* the line being typed
    slot,           \* the terminal's interrupt mailbox, one slot
    xmit, sending,  \* the transmitter, and the character in it
    row,            \* the characters transmitted since a row was ended
    input,          \* the characters typed
    kept,           \* history: those that can be in a line and have not been lost
    late            \* may the device interrupt outside waitDevice?

callVars == <<pc, calls, text>>
mailVars == <<lines, taken, write_mb>>
daemonVars == <<dpc, received, to_write, w, buffer>>
deviceVars == <<slot, xmit, sending, row, input>>
vars == <<callVars, mailVars, daemonVars, deviceVars, kept, late>>

-----------------------------------------------------------------------------
(***************************************************************************)
(* The device and its interrupt handler, which posts the status register   *)
(* and drops it when the slot is full.                                     *)
(***************************************************************************)
Status == [xmit : {"READY", "BUSY"}, recv : Char \cup {NUL, Nothing}]

\* The characters of a sequence that can be in a line.
Visible(s) ==
    FlattenSeq([i \in DOMAIN s |-> IF s[i] \in {Nothing, NUL} THEN <<>> ELSE <<s[i]>>])

\* The history without the k characters behind the first n.
Without(n, k) == [i \in 1 .. Len(kept) - k |-> kept[IF i <= n THEN i ELSE i + k]]

Waiting == dpc \in {"wait", "sent"} /\ slot = <<>>

\* A newline (or a NUL) ends a row; the next character begins another.
Open(r) == IF r # <<>> /\ r[Len(r)] \in {NL, NUL} THEN <<>> ELSE r

\* An interrupt: a character may have come (c), the one in the transmitter may
\* have gone (done), or the idle transmitter asks for one.
Tick(c, done) ==
    /\ late \/ Waiting
    /\ done => xmit = "BUSY"
    /\ c = Nothing /\ ~done => xmit = "READY"
    /\ xmit' = IF done THEN "READY" ELSE xmit
    /\ row' = IF done THEN Append(Open(row), sending) ELSE row
    /\ input' = IF c = Nothing THEN input ELSE Append(input, c)
    /\ slot' = IF slot = <<>> THEN <<[xmit |-> xmit', recv |-> c]>> ELSE slot
    /\ kept' = IF slot = <<>> THEN kept \o Visible(<<c>>) ELSE kept
    /\ UNCHANGED <<callVars, mailVars, daemonVars, sending, late>>

Type == \E c \in Keys, done \in BOOLEAN : Len(input) < MaxInput /\ Tick(c, done)

Transmit == \E done \in BOOLEAN : Tick(Nothing, done)

\* USLOSS_DeviceOutput of a character; what a busy transmitter does is not
\* defined, so it keeps either character.
DeviceOutput(c) ==
    /\ xmit' = "BUSY"
    /\ sending' \in IF xmit = "READY" THEN {c} ELSE {c, sending}

-----------------------------------------------------------------------------
(***************************************************************************)
(* TermRead_handler and TermWrite_handler.                                 *)
(***************************************************************************)
\* What lies in read_mb.
unread == SubSeq(lines, taken + 1, Len(lines))

\* A process in TermRead_handler: MboxRecv takes the oldest line.  Until there is
\* one it makes no difference whether a process waits for it.
Read ==
    /\ unread # <<>>
    /\ taken' = taken + 1
    /\ UNCHANGED <<callVars, lines, write_mb, daemonVars, deviceVars, kept, late>>

CallWrite(p) ==
    \E t \in Texts :
        /\ pc[p] = "user"
        /\ calls < MaxCalls
        /\ calls' = calls + 1
        /\ Len(t) <= MaxLine
        /\ text' = [text EXCEPT ![p] = t]
        /\ pc' = [pc EXCEPT ![p] = "write"]
        /\ UNCHANGED <<mailVars, daemonVars, deviceVars, kept, late>>

\* MboxSend finds the slot of write_mb free and copies the text; TermWrite
\* returns.
EndWrite(p) ==
    /\ pc[p] = "write"
    /\ write_mb = <<>>
    /\ write_mb' = <<text[p]>>
    /\ text' = [text EXCEPT ![p] = <<>>]
    /\ pc' = [pc EXCEPT ![p] = "user"]
    /\ UNCHANGED <<calls, lines, taken, daemonVars, deviceVars, kept, late>>

-----------------------------------------------------------------------------
(***************************************************************************)
(* term_daemon.  The body of its loop is one step when it writes nothing;  *)
(* else termWriting divides it at each character it sends and waits for.   *)
(* The terminal's lock has no other user, so its holder never waits.       *)
(***************************************************************************)
\* What to_write holds once MboxCondRecv has looked into write_mb.
Taken == IF write_mb = <<>> THEN to_write ELSE Overwritten(to_write, Head(write_mb))

\* The transmitter is ready and there is something to write.
MayWrite(st) == st.xmit = "READY" /\ Len(Taken) > 0

\* Mutant of Typed: takes the NUL into the line.
TypedAsIs(c) == Append(buffer, c)

\* The line as termReading's strcpy sees it.
Typed(c) == IF c = NUL THEN buffer ELSE Append(buffer, c)

\* Mutant of EndsLine: one character later.
EndsLineLate(c) == c \in {NUL, NL} \/ Len(buffer) + 1 > MaxLine

EndsLine(c) == c \in {NUL, NL} \/ Len(buffer) + 1 >= MaxLine

\* Mutant of Post: keeps a line that cannot be sent.
PostKept(line) ==
    IF Len(unread) < MaxBuffers
    THEN buffer' = <<>> /\ lines' = Append(lines, line) /\ kept' = kept
    ELSE buffer' = line /\ lines' = lines /\ kept' = Without(Len(FlattenSeq(lines)), Len(line))

\* termReading: clears the line buffer and sends the line by MboxCondSend, which
\* drops it when MAX_TERM_BUFFERS lines are unread.
Post(line) ==
    /\ buffer' = <<>>
    /\ IF Len(unread) < MaxBuffers
       THEN lines' = Append(lines, line) /\ kept' = kept
       ELSE lines' = lines /\ kept' = Without(Len(FlattenSeq(lines)), Len(line))

\* The end of the loop's body: the character received with the status.
Receive(c) ==
    \/ /\ c = Nothing
       /\ UNCHANGED <<buffer, lines, kept>>
    \/ /\ c # Nothing /\ ~EndsLine(c)
       /\ buffer' = Typed(c)
       /\ UNCHANGED <<lines, kept>>
    \/ /\ c # Nothing /\ EndsLine(c)
       /\ Post(Typed(c))

\* waitDevice returns, and there is nothing to write or no way to.
DaemonPass ==
    /\ dpc = "wait"
    /\ slot # <<>>
    /\ slot' = <<>>
    /\ ~MayWrite(Head(slot))
    /\ to_write' = Taken /\ write_mb' = <<>>
    /\ Receive(Head(slot).recv)
    /\ UNCHANGED <<callVars, taken, dpc, received, w, xmit, sending, row, input, late>>

\* waitDevice returns, and termWriting is called.
StartWriting ==
    /\ dpc = "wait"
    /\ slot # <<>>
    /\ slot' = <<>>
    /\ MayWrite(Head(slot))
    /\ to_write' = Taken /\ write_mb' = <<>>
    /\ received' = Head(slot).recv
    /\ w' = 0
    /\ dpc' = "send"
    /\ UNCHANGED <<callVars, lines, taken, buffer, xmit, sending, row, input, kept, late>>

\* *w is the NUL or a newline.
AtEnd == w = Len(to_write) \/ to_write[w + 1] = NL

SendChar ==
    /\ dpc = "send"
    /\ ~AtEnd
    /\ DeviceOutput(to_write[w + 1])
    /\ dpc' = "sent"
    /\ UNCHANGED <<callVars, mailVars, received, to_write, w, buffer, slot, row,
                   input, kept, late>>

\* The history without the character that came last.
Unheard(c) == LET k == Len(Visible(<<c>>)) IN Without(Len(kept) - k, k)

\* Mutants of AwaitSent: takes any status for the end of the transmission; goes
\* on when the transmitter is busy.
AwaitAny ==
    /\ dpc = "sent"
    /\ slot # <<>>
    /\ slot' = <<>>
    /\ kept' = Unheard(Head(slot).recv)
    /\ dpc' = "send" /\ w' = w + 1
    /\ UNCHANGED <<callVars, mailVars, received, to_write, buffer, xmit, sending,
                   row, input, late>>

AwaitBusy ==
    /\ dpc = "sent"
    /\ slot # <<>>
    /\ slot' = <<>>
    /\ kept' = Unheard(Head(slot).recv)
    /\ IF Head(slot).xmit = "READY"
       THEN UNCHANGED <<dpc, w>>
       ELSE dpc' = "send" /\ w' = w + 1
    /\ UNCHANGED <<callVars, mailVars, received, to_write, buffer, xmit, sending,
                   row, input, late>>

\* Behind the character: waitDevice, whose status is looked at for the
\* transmitter only.
AwaitSent ==
    /\ dpc = "sent"
    /\ slot # <<>>
    /\ slot' = <<>>
    /\ kept' = Unheard(Head(slot).recv)
    /\ IF Head(slot).xmit = "BUSY"
       THEN UNCHANGED <<dpc, w>>
       ELSE dpc' = "send" /\ w' = w + 1
    /\ UNCHANGED <<callVars, mailVars, received, to_write, buffer, xmit, sending,
                   row, input, late>>

\* Mutant of SendEnd: leaves the text in to_write.
SendEndKept ==
    /\ dpc = "send"
    /\ AtEnd
    /\ DeviceOutput(IF w = Len(to_write) THEN NUL ELSE NL)
    /\ w' = 0
    /\ Receive(received)
    /\ received' = Nothing
    /\ dpc' = "wait"
    /\ UNCHANGED <<callVars, taken, write_mb, to_write, slot, row, input, late>>

\* The character at the end is sent and not waited for, to_write is cleared, and
\* the daemon goes on to the character it received before it began to write.
SendEnd ==
    /\ dpc = "send"
    /\ AtEnd
    /\ DeviceOutput(IF w = Len(to_write) THEN NUL ELSE NL)
    /\ to_write' = <<>> /\ w' = 0
    /\ Receive(received)
    /\ received' = Nothing
    /\ dpc' = "wait"
    /\ UNCHANGED <<callVars, taken, write_mb, slot, row, input, late>>

-----------------------------------------------------------------------------
Init ==
    /\ pc = [p \in Procs |-> "user"]
    /\ calls = 0
    /\ text = [p \in Procs |-> <<>>]
    /\ lines = <<>> /\ taken = 0 /\ write_mb = <<>>
    /\ dpc = "wait"
    /\ received = Nothing
    /\ to_write = <<>> /\ w = 0
    /\ buffer = <<>>
    /\ slot = <<>>
    /\ xmit = "READY" /\ sending = NUL
    /\ row = <<>> /\ input = <<>>
    /\ kept = <<>>
    /\ late \in BOOLEAN

Write(p) == CallWrite(p) \/ EndWrite(p)

Daemon == DaemonPass \/ StartWriting \/ SendChar \/ AwaitSent \/ SendEnd

Next == (\E p \in Procs : Write(p)) \/ Read \/ Type \/ Transmit \/ Daemon

Spec == Init /\ [][Next]_vars

\* The daemon has the highest priority; with its interrupts enabled a transmitter
\* that is ready keeps asking and one that is busy gets ready; a process whose
\* mailbox is ready runs once the daemon waits.  Nothing makes anybody type or
\* call.
Fairness ==
    /\ WF_vars(Daemon)
    /\ WF_vars(Transmit)
    /\ \A p \in Procs : WF_vars(EndWrite(p))

FairSpec == Spec /\ Fairness

-----------------------------------------------------------------------------
(***************************************************************************)
(* Properties.                                                             *)
(***************************************************************************)
\* The type of every variable.
TypeOK ==
    /\ pc \in [Procs -> {"user", "write"}]
    /\ calls \in Nat
    /\ text \in [Procs -> Seq(Char)]
    /\ lines \in Seq(Seq(Char)) /\ taken \in 0 .. Len(lines)
    /\ write_mb \in Seq(Seq(Char))
    /\ dpc \in {"wait", "send", "sent"}
    /\ received \in Char \cup {NUL, Nothing}
    /\ to_write \in Seq(Char) /\ w \in 0 .. Len(to_write)
    /\ buffer \in Seq(Char)
    /\ slot \in Seq(Status)
    /\ xmit \in {"READY", "BUSY"} /\ sending \in Char \cup {NUL}
    /\ row \in Seq(Char \cup {NUL}) /\ input \in Seq(Char \cup {NUL})
    /\ kept \in Seq(Char)
    /\ late \in BOOLEAN

\* "This line will either end with a newline, or be exactly MAXLINE characters
\* long" (180), unless a NUL is typed, which ends a line too; the line buffer has
\* room for one more character when the daemon stores one (443-446).
LineShape ==
    /\ Len(buffer) < MaxLine
    /\ \A i \in DOMAIN buffer : buffer[i] # NL
    /\ \A k \in DOMAIN lines :
          /\ Len(lines[k]) <= MaxLine
          /\ \A i \in DOMAIN lines[k] : lines[k][i] = NL => i = Len(lines[k])
          /\ \/ Len(lines[k]) = MaxLine
             \/ Len(lines[k]) > 0 /\ lines[k][Len(lines[k])] = NL
             \/ \E i \in DOMAIN input : input[i] = NUL

\* What waits for the daemon: the character in its status and those in the slot.
InFlight == Visible(<<received>> \o [i \in DOMAIN slot |-> slot[i].recv])

\* What is typed is what is read: the lines, the line being typed and what is under
\* way are the characters typed, each once and in its order, but for those that came
\* while the interrupt mailbox was full or while a line was being transmitted
\* (466-468), and the lines finished with MAX_TERM_BUFFERS unread, which are dropped
\* whole (483): the line behind begins with what is typed then.
LinesAreInput == FlattenSeq(lines) \o buffer \o InFlight = kept

\* The daemon sends a character only to a transmitter that is ready, if no
\* interrupt comes before it is back in waitDevice (433, 463-468).
OutputReady == ~late => (dpc = "send" => xmit = "READY")

\* "All of the character of the buffer will be written atomically" (225) does not
\* wait for the writing: a process that calls TermWrite returns (246-249, 432).
EveryWriterReturns == \A p \in Procs : pc[p] = "write" ~> pc[p] = "user"
=============================================================================

---------------------------- MODULE SocketReader ----------------------------
(***************************************************************************)
(* SocketReader as operators on the state of one reader: the buffer is     *)
(* counted in bytes, and every call of recv is a step, which may return    *)
(* fewer bytes than it is asked for, and none at the end of the stream.    *)
(***************************************************************************)
EXTENDS Integers

CONSTANTS
    Load,       \* load_size of fillBuffer: 1100
    Width,      \* 2 to the number of bits of size_t
    FirstLine,  \* bytes of a header up to the end of its first line,
    LengthLine, \* of the second, which announces the length if one does,
    Header,     \* and of the third, which is empty
    NoLength    \* the header has no Content-Length

ASSUME LoadAssumption ==
    /\ {Load, FirstLine, LengthLine, Header} \subseteq Nat \ {0}
    /\ FirstLine < LengthLine /\ LengthLine < Header
ASSUME WidthAssumption == Width \in Nat /\ Width > Load
ASSUME NoLengthAssumption == NoLength \notin Nat

\* What the next recv is for: a line of the header, the loop of readBulk, the
\* fillBuffer after that loop; or the request has been read.
Phases == {"header", "loop", "rest", "done"}

\* buf counts the bytes in the buffer, with the lines of a header that is still
\* being read, size is the announced length of the body
\* (0 before the header is read), data the length that is handed on; routed says
\* that the first line of the header is there, by which a handler is chosen.
Readers == [phase : Phases, buf : Nat, size : Nat, data : Nat, routed : BOOLEAN]

NewReader == [phase |-> "header", buf |-> 0, size |-> 0, data |-> 0, routed |-> FALSE]

\* size - buffer.size() > 1100, computed without a sign.
LoopsOn(size, buf) == (size - buf) % Width > Load

\* More of a body is wanted; or all of it is there, as far as the reader knows.
Wants(phase, size, buf) ==
    [phase |-> phase, buf |-> buf, size |-> size, data |-> 0, routed |-> TRUE]

Done(size, buf, data) ==
    [phase |-> "done", buf |-> buf, size |-> size, data |-> data, routed |-> TRUE]

\* Plausible mistakes for ReadBulk: the rest is not asked for; or the buffer is
\* taken to hold enough.
ReadBulkNoRest(size, buf) ==
    IF LoopsOn(size, buf) THEN Wants("loop", size, buf)
    ELSE IF size > buf THEN Done(size, 0, buf)
    ELSE Done(size, buf - size, size)

ReadBulkUnchecked(size, buf) ==
    IF LoopsOn(size, buf) THEN Wants("loop", size, buf)
    ELSE Done(size, buf - size, size)

\* readBulk at its start and after every turn of its loop.
ReadBulk(size, buf) ==
    IF LoopsOn(size, buf) THEN Wants("loop", size, buf)
    ELSE IF size > buf THEN Wants("rest", size, buf)
    ELSE Done(size, buf - size, size)

\* readData after a header that announces a length, or none.
ReadData(announced, buf) ==
    IF announced = NoLength THEN Done(0, buf, 0) ELSE ReadBulk(announced, buf)

\* The stream ends within the header: readData takes the lines that are complete
\* for all of it, and what is behind them for the beginning of the body.
CutHeader(r, announced) ==
    IF r.buf >= LengthLine THEN ReadData(announced, r.buf - LengthLine)
    ELSE IF r.buf >= FirstLine THEN ReadData(NoLength, r.buf - FirstLine)
    ELSE [r EXCEPT !.phase = "done"]

\* How many bytes the next recv asks for.
Asked(r) == IF r.phase = "rest" THEN r.size - r.buf ELSE Load

\* A plausible mistake for Filled: the header is looked for in the bytes before
\* the last one.
FilledPastHeader(r, announced, n) ==
    LET buf == r.buf + n
    IN  CASE r.phase = "header" /\ buf > Header -> ReadData(announced, buf - Header)
          [] r.phase = "header" /\ buf <= Header ->
                IF n = 0 THEN CutHeader(r, announced) ELSE [r EXCEPT !.buf = buf]
          [] r.phase = "loop" -> ReadBulk(r.size, buf)
          [] r.phase = "rest" -> Done(r.size, 0, buf)

\* fillBuffer has received n bytes.  At the end of the stream (n = 0) the
\* header is what there is of it, the loop of readBulk goes on, the rest is left
\* out.
Filled(r, announced, n) ==
    LET buf == r.buf + n
    IN  CASE r.phase = "header" /\ buf >= Header -> ReadData(announced, buf - Header)
          [] r.phase = "header" /\ buf < Header ->
                IF n = 0 THEN CutHeader(r, announced) ELSE [r EXCEPT !.buf = buf]
          [] r.phase = "loop" -> ReadBulk(r.size, buf)
          [] r.phase = "rest" -> Done(r.size, 0, buf)

=============================================================================

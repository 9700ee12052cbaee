------------------------------ MODULE LogLines ------------------------------
(***************************************************************************)
(* DaemonProcess::emitBufferedLines: the daemon's output arrives in chunks *)
(* cut anywhere, and the log shows it line by line.                        *)
(***************************************************************************)
EXTENDS Naturals, Sequences, SequencesExt

CONSTANTS
    Outputs     \* the texts the daemon may write, sequences of character codes

VARIABLES
    written,    \* everything the daemon writes to its stdout
    delivered,  \* how much of it QProcess has handed over
    process,    \* m_process # nullptr: the daemon's process has not ended
    buffer,     \* m_stdoutBuffer
    logged      \* the lines given to logLine()

logVars == <<written, delivered, process, buffer, logged>>

LineFeed == 10
Return == 13

\* The line ends of a text, in order.
LineEnds(text) == SelectSeq([i \in DOMAIN text |-> i], LAMBDA i : text[i] = LineFeed)

\* A '\r' before the line end is chopped off.
Chop(line) == IF line # <<>> /\ Last(line) = Return THEN Front(line) ELSE line

\* The complete lines of a text, and what is left after the last of them.
CompleteLines(text) ==
    LET ends == LineEnds(text)
    IN  [k \in DOMAIN ends |->
            Chop(SubSeq(text, IF k = 1 THEN 1 ELSE ends[k - 1] + 1, ends[k] - 1))]

DropsTail(text) == <<>>                                                \* mutant
Remainder(text) ==
    LET ends == LineEnds(text)
    IN  IF ends = <<>> THEN text ELSE SubSeq(text, Last(ends) + 1, Len(text))

\* onReadyReadStandardOutput: emitBufferedLines(m_stdoutBuffer, readAll()).
OnReadyRead(n) ==
    /\ process
    /\ delivered + n <= Len(written)
    /\ LET text == buffer \o SubSeq(written, delivered + 1, delivered + n)
       IN  /\ logged' = logged \o CompleteLines(text)
           /\ buffer' = Remainder(text)
    /\ delivered' = delivered + n
    /\ UNCHANGED <<written, process>>

\* onFinished: QProcess hands over what was written before it says that the process
\* ended.  The rest in the buffer, a last line without an end, is not logged.
OnFinished ==
    /\ process
    /\ delivered = Len(written)
    /\ process' = FALSE
    /\ UNCHANGED <<written, delivered, buffer, logged>>

LogInit ==
    /\ written \in Outputs
    /\ delivered = 0
    /\ process = TRUE
    /\ buffer = <<>>
    /\ logged = <<>>

LogNext ==
    \/ \E n \in 1..Len(written) : OnReadyRead(n)
    \/ OnFinished

\* However the output was cut into chunks, the lines logged and the rest still
\* buffered are exactly the output so far, line ends normalised: no line is lost,
\* split, doubled or reordered.  Once the process has ended every line it ended is
\* in the log; only a last line without an end is not.
NothingLost ==
    LET prefix == SubSeq(written, 1, delivered)
        kept == SelectSeq([i \in DOMAIN prefix |-> i],
                    LAMBDA i : ~(prefix[i] = Return /\ i < Len(prefix) /\ prefix[i + 1] = LineFeed))
        shown == FlattenSeq([k \in DOMAIN logged |-> Append(logged[k], LineFeed)])
    IN  /\ shown \o buffer = [k \in DOMAIN kept |-> prefix[kept[k]]]
        /\ ~process => Len(logged) = Len(LineEnds(written))
=============================================================================

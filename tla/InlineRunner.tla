---------------------------- MODULE InlineRunner ----------------------------
(***************************************************************************)
(* The Execute button: DzPythonBridgePane's editor and console,            *)
(* InlineRunner's POST /run, daemon/inline_runner.py and the one-shot      *)
(* interpreter of daemon/inline_runtime.py.  The script travels as the     *)
(* "code" field of a JSON body (JsonStd), through a pipe in text mode into *)
(* the interpreter, and its result comes back as JSON.  InlineRunner sets  *)
(* no timeout on its request; the only one is that of subprocess.run.      *)
(***************************************************************************)
EXTENDS JsonStd

CONSTANTS
    Scripts,    \* the scripts execute() may be given: [text, deed, value], where text
                \* is a sequence of character codes, deed is explained at Completed and
                \* value is what the script evaluates to, if it does
    Hosts       \* the machines: [windows, encodes, sdk]: the platform, the characters
                \* of the locale's encoding, and DAZ_SDK_MAJOR_VERSION

VARIABLES
    host,       \* the machine, one of Hosts
    editor,     \* the script in the editor
    run,        \* the request in flight: InlineRunner::m_requestInFlight and its data
    execute,    \* the Execute button is enabled
    console,    \* what the console shows, and of which script
    daemon      \* "up", "down" (connections are refused or reset), or "hung"

runVars == <<host, editor, run, execute, console, daemon>>

NoRun == [phase |-> "none"]
Code == <<99, 111, 100, 101>>
LF == 10
CR == 13

-----------------------------------------------------------------------------
(* daemon/inline_runner.py and inline_runtime.py *)

\* What the interpreter leaves: its exit code, whether its output is text in the
\* locale's encoding, and the lines of it, one of which is the envelope main()
\* writes.  A script can print past the redirected stdout before that, or at
\* interpreter exit; SystemExit escapes the handler in _run and leaves no envelope.
\* A script that hangs, or that leaves a child process holding its output open, does
\* not complete.
Leaves(code, lines) == [code |-> code, decodes |-> TRUE, lines |-> lines]
Completed(deed) ==
    CASE deed = "evaluates" -> Leaves(0, <<"success">>)
      [] deed = "noisy"     -> Leaves(0, <<"noise", "success">>)
      [] deed = "raises"    -> Leaves(0, <<"failure">>)
      [] deed = "exits"     -> Leaves(0, <<>>)
      [] deed = "aborts"    -> Leaves(1, <<"success">>)
      [] deed = "lateNoise" -> Leaves(0, <<"success", "noise">>)
      [] deed = "garbles"   -> [code |-> 0, decodes |-> FALSE, lines |-> <<"noise", "success">>]
Endless == {"hangs", "leavesChild"}

IgnoresExitCode(c) == ~c.decodes \/ c.lines = <<>>                     \* mutant
\* run_inline: the cases decided without reading the envelope.  Output that cannot
\* be decoded raises inside subprocess.run (an error 500).
NoEnvelope(c) == ~c.decodes \/ c.code # 0 \/ c.lines = <<>>

\* run_inline: otherwise the last line is the envelope.
RunInline(deed) ==
    LET c == Completed(deed)
    IN  IF ~NoEnvelope(c) /\ Last(c.lines) = "success" THEN "ok" ELSE "error"

\* text=True: on Windows every LF is written to the pipe as CR LF and the
\* interpreter reads CR, LF and CR LF as LF; elsewhere line ends pass as they are.
Expand(text) == FlattenSeq([i \in DOMAIN text |->
                    IF text[i] = LF THEN <<CR, LF>> ELSE <<text[i]>>])
Universal(text) == FlattenSeq([i \in DOMAIN text |->
                    CASE text[i] = LF /\ i > 1 /\ text[i - 1] = CR -> <<>>
                      [] text[i] = CR -> <<LF>>
                      [] OTHER -> <<text[i]>>])
Piped(text) == IF host.windows THEN Universal(Expand(text)) ELSE text

-----------------------------------------------------------------------------
(* The pane and InlineRunner *)

\* execute: ignored while a request is in flight.
Execute ==
    IF run # NoRun THEN UNCHANGED run
    ELSE run' = [phase |-> "sent",
                 payload |-> VariantToJson([t |-> "map", v |->
                     <<<<Code, [t |-> "string", v |-> editor.text]>>>>])]

OnExecuteClicked ==
    /\ execute
    /\ execute' = FALSE
    /\ console' = [shows |-> "Running..."]
    /\ Execute
    /\ UNCHANGED <<host, editor, daemon>>

\* The daemon takes the request: the body is read and the text of its code field is
\* written to a new interpreter, or cannot be encoded (an error 500).
RunReceived ==
    /\ run.phase = "sent" /\ daemon = "up"
    /\ \E body \in {ParseObject(run.payload)} :
          LET code == body.v[1][2].v
          IN  run' = IF body.t = "map" /\ Range(code) \subseteq host.encodes
                     THEN [phase |-> "running", received |-> Piped(code)]
                     ELSE [phase |-> "error"]
    /\ UNCHANGED <<host, editor, execute, console, daemon>>

\* A daemon that is down, or rejects the token, is a network error.
RunRefused ==
    /\ run.phase = "sent" /\ daemon = "down"
    /\ run' = [phase |-> "error"]
    /\ UNCHANGED <<host, editor, execute, console, daemon>>

\* The interpreter ends, and the envelope is answered.
Completes ==
    /\ run.phase = "running" /\ daemon = "up"
    /\ editor.deed \notin Endless
    /\ run' = [run EXCEPT !.phase = RunInline(editor.deed)]
    /\ UNCHANGED <<host, editor, execute, console, daemon>>

NeverTimesOut == run.phase = "timed out" /\ UNCHANGED runVars          \* mutant
\* TimeoutExpired: the interpreter is killed, also one that was about to end.  On
\* Windows subprocess.run then waits for its output to be closed, which a child the
\* script left behind does not do.
TimesOut ==
    /\ run.phase = "running" /\ daemon = "up"
    /\ ~(host.windows /\ editor.deed = "leavesChild")
    /\ run' = [run EXCEPT !.phase = "error"]
    /\ UNCHANGED <<host, editor, execute, console, daemon>>

\* parseObject: every number is a double in QtScript (SDK 4); Qt 6 makes an integer
\* that fits a qlonglong one.
FromJson(d) ==
    LET n == d[1] * 10^d[2]
    IN  IF host.sdk >= 6 /\ d[2] >= 0 /\ Size(n) <= LongMax
        THEN [t |-> "int", v |-> n]
        ELSE [t |-> "double", v |-> Rounded(d, DoubleDigits)]
RECURSIVE Parsed(_)
Parsed(x) ==
    CASE x.t = "number" -> FromJson(x.v)
      [] x.t = "list"   -> [x EXCEPT !.v = [i \in DOMAIN x.v |-> Parsed(x.v[i])]]
      [] x.t = "map"    -> [x EXCEPT !.v = [i \in DOMAIN x.v |-> <<x.v[i][1], Parsed(x.v[i][2])>>]]
      [] OTHER          -> x

\* jsonText: a string is shown as it is, anything else as its JSON text.
JsonText(x) == IF x.t = "string" THEN x.v ELSE VariantToJson(x)

\* onReplyFinished: the request is over.
OnReplyFinished ==
    /\ run.phase \in {"ok", "error"}
    /\ run' = NoRun

\* It emits runFinished(), which the pane's onRunFinished handles.
OnRunFinished ==
    /\ OnReplyFinished
    /\ execute' = TRUE
    /\ console' = IF run.phase = "ok"
                  THEN [shows |-> "=>", text |-> JsonText(Parsed(editor.value))]
                  ELSE [shows |-> "Error"]
    /\ UNCHANGED <<host, editor, daemon>>

\* The daemon goes away, with every request it had not answered, hangs, or comes
\* back.
DaemonChanges(state) ==
    /\ daemon # state /\ ~(daemon = "down" /\ state = "hung")
    /\ daemon' = state
    /\ run' = IF state = "down" /\ run.phase \in {"sent", "running"}
              THEN [phase |-> "error"] ELSE run
    /\ UNCHANGED <<host, editor, execute, console>>

\* Bound: the script is not edited between two clicks.
RunInit ==
    /\ host \in Hosts
    /\ editor \in Scripts
    /\ run = NoRun
    /\ execute = TRUE
    /\ console = [shows |-> ""]
    /\ daemon = "up"

RunNext ==
    \/ OnExecuteClicked
    \/ RunReceived \/ RunRefused
    \/ Completes \/ TimesOut
    \/ OnRunFinished
    \/ \E state \in {"up", "down", "hung"} : DaemonChanges(state)

\* A daemon that is up takes the request and waits for the interpreter, at most
\* until the timeout; a reply is handled.  Nothing says that a daemon is up.
RunFairness ==
    /\ WF_runVars(RunReceived \/ RunRefused)
    /\ WF_runVars(Completes \/ TimesOut)
    /\ WF_run(OnReplyFinished)

-----------------------------------------------------------------------------
(* Properties *)

\* A text with every run of line ends, of whichever kind, as one LF: its lines, but
\* for the empty ones.
Lines(text) ==
    LET ends(c) == c \in {CR, LF}
        kept == SelectSeq([i \in DOMAIN text |-> i],
                    LAMBDA i : ~(ends(text[i]) /\ i > 1 /\ ends(text[i - 1])))
    IN  [k \in DOMAIN kept |-> IF ends(text[kept[k]]) THEN LF ELSE text[kept[k]]]

\* The interpreter runs a script only if the encoding of the pipe has every character
\* of it, and is then given the text in the editor, whatever quotes, backslashes,
\* control characters or characters outside ASCII it holds; with a CR on Windows, the
\* same lines but for empty ones.
RunsWhatWasTyped ==
    "received" \in DOMAIN run =>
        /\ Range(editor.text) \subseteq host.encodes
        /\ Lines(run.received) = Lines(editor.text)
        /\ ~host.windows \/ CR \notin Range(editor.text) => run.received = editor.text

\* x is d, if d has no more digits than are printed or is an integer that SDK 6 keeps
\* whole, and differs from it by less than one unit of the last digit printed otherwise.
IsNear(x, d) ==
    LET length == Len(Digits(Size(d[1])))
        unit == length + d[2] - Significant
        low == Min({x[2], d[2], unit})
    IN  IF \/ length <= Significant
           \/ host.sdk >= 6 /\ d[2] >= 0 /\ Size(d[1]) * 10^d[2] <= LongMax
        THEN x = d
        ELSE Size(x[1] * 10^(x[2] - low) - d[1] * 10^(d[2] - low)) < 10^(unit - low)

RECURSIVE IsShown(_, _)
IsShown(x, value) ==
    /\ x.t = value.t
    /\ CASE x.t = "number" -> IsNear(x.v, value.v)
         [] x.t = "list"   -> /\ DOMAIN x.v = DOMAIN value.v
                              /\ \A i \in DOMAIN x.v : IsShown(x.v[i], value.v[i])
         [] x.t = "map"    -> /\ DOMAIN x.v = DOMAIN value.v
                              /\ \A i \in DOMAIN x.v : /\ x.v[i][1] = value.v[i][1]
                                                      /\ IsShown(x.v[i][2], value.v[i][2])
         [] OTHER          -> x = value

\* The Execute button and the runner's own guard agree, and the console claims a
\* result only for a script that evaluated to one and whose process ended well;
\* unless it is a string, the text shown is JSON that reads back as that value, its
\* numbers to the digits printed.
ResultHonest ==
    /\ execute <=> run = NoRun
    /\ console.shows = "=>" =>
         /\ editor.deed \in {"evaluates", "noisy"}
         /\ editor.value.t # "string" =>
              \E x \in {Read(console.text)} : IsShown(x, editor.value)

\* Every click ends with the button enabled again, unless the daemon is hung for good
\* (or never stops hanging): a script that hangs, exits or kills its interpreter
\* and a daemon that is down included.  On Windows a script that leaves a child
\* behind is the exception TimesOut names.
RunEnds ==
    <>[](daemon # "hung") =>
        (~execute ~> execute \/ (host.windows /\ editor.deed = "leavesChild"))
=============================================================================

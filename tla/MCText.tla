------------------------------- MODULE MCText -------------------------------
(***************************************************************************)
(* InlineRunner with JsonStd, and LogLines, for TLC.  The two share no     *)
(* state: subject says which of them a behaviour is about, so that their   *)
(* state spaces add up instead of multiplying.                             *)
(***************************************************************************)
EXTENDS InlineRunner, LogLines

VARIABLE subject
textVars == <<subject, runVars, logVars>>

CONSTANTS
    Characters,     \* the characters of scripts
    TextLength,     \* bound: characters in a script
    LogCharacters,  \* the characters of the daemon's output
    LogLength       \* bound: characters of output

\* Sequences over S of at most n elements.
UpTo(S, n) == UNION {[1..k -> S] : k \in 0..n}

SomeOutputs == UpTo(LogCharacters, LogLength)

Num(m, e) == [t |-> "number", v |-> <<m, e>>]
Numbers == {Num(0, 0), Num(-42, 0), Num(123, 0), Num(15, 1), Num(-125, -2), Num(996, -1),
            Num(1, -4), Num(-128, -7), Num(5, 4), Num(33333, 0)}
Scalars == {[t |-> "null"], [t |-> "bool", v |-> 1], Num(0, 0), Num(-125, -2), Num(123, 0),
            [t |-> "string", v |-> <<Quote, 1>>]}
Flat == Scalars \union {[t |-> "list", v |-> l] : l \in UpTo(Scalars, 2)}
SomeValues == Flat \union Numbers \union
    {[t |-> "map", v |-> <<>>]} \union
    {[t |-> "map", v |-> <<<<<<Backslash>>, y>>, <<<<97>>, x>>>>] : x \in Flat, y \in Scalars}

Null == [t |-> "null"]
Deeds == {"evaluates", "noisy", "raises", "exits", "aborts", "lateNoise", "garbles",
          "hangs", "leavesChild"}
\* Every text, every deed and every value, without their product.
SomeScripts ==
    [text : UpTo(Characters, TextLength), deed : {"evaluates"}, value : {Null}] \union
    [text : {<<>>}, deed : Deeds, value : Scalars] \union
    [text : {<<>>}, deed : {"evaluates"}, value : SomeValues]

\* A UTF-8 locale; a Windows code page without the last character, with either SDK.
SomeHosts ==
    {[windows |-> FALSE, encodes |-> Characters, sdk |-> 6]} \union
    [windows : {TRUE}, encodes : {Characters \ {20013}}, sdk : {4, 6}]

TextInit ==
    /\ RunInit /\ LogInit
    /\ subject \in {"run", "log"}
    /\ IF subject = "run" THEN written = <<>>
       ELSE /\ editor = [text |-> <<>>, deed |-> "raises", value |-> Null]
            /\ host.encodes = Characters
TextNext ==
    /\ UNCHANGED subject
    /\ \/ subject = "run" /\ RunNext /\ UNCHANGED logVars
       \/ subject = "log" /\ LogNext /\ UNCHANGED runVars
TextSpec == TextInit /\ [][TextNext]_textVars /\ RunFairness
=============================================================================

---------------------------- MODULE TerminalInput ----------------------------
(***************************************************************************)
(* From the keyboard to the shell: the handlers mountXterm installs        *)
(* (TerminalPanel.tsx) with the input method, whose text is sent while it  *)
(* is composed, and the commands of terminal.rs that pass it on and keep   *)
(* the history.                                                            *)
(*                                                                         *)
(* A text is a sequence of characters.  DEL takes back the last one.  The  *)
(* screen shows a prompt, which ends in a prompt character and a space,    *)
(* and after it the line, with the cursor at its end.  The commands are    *)
(* asynchronous: those under way may overtake one another.                 *)
(***************************************************************************)
EXTENDS Naturals, Sequences, SequencesExt

CONSTANTS
    Char,           \* characters
    PromptChar,     \* promptChars: those of them that end a prompt
    MaxText,        \* bound on the length of a composed text and of a line
    MaxBuffer,      \* bound on the text that waits for the timer
    MaxCalls,       \* bound on the calls under way
    MaxLines,       \* bound on the lines that are run
    Patient,        \* TRUE: the user waits for the timers and the echo
    Erases,         \* TRUE: the user takes back all of a composed text
    PastesLines     \* TRUE: the user pastes a text with a line break

DEL == "del"
ETX == "etx"
CR == "cr"
InputAssumption ==
    {DEL, ETX, CR} \cap Char = {} /\ PromptChar \subseteq Char /\ {MaxText, MaxBuffer, MaxCalls, MaxLines} \subseteq Nat

VARIABLES
    composing,      \* isComposing
    last,           \* lastImeText
    pty,            \* ptyBuffer
    timer,          \* flushTimer is set
    ends,           \* timers of compositionend that have not fired
    calls,          \* commands under way, in the order they were invoked
    inputBuf,       \* input_buf of the session
    history,        \* terminal_history of the session
    line,           \* the line the shell reads
    shown,          \* the line of the screen: the echo of a line
    ime,            \* what the user composes: [on, text]
    typed,          \* what the user has typed on this line before that, less
                    \* what a Backspace that got through took back
    ran             \* the lines the user has entered and the shell has run

inputVars == <<composing, last, pty, timer, ends, calls, inputBuf, history,
               line, shown, ime, typed, ran>>
imeVars == <<composing, last, pty, timer, ends>>
shellVars == <<inputBuf, history, line, shown, ran>>

Text == BoundedSeq(Char, MaxText)
Write(s) == [cmd |-> "write", text |-> s]
ToShell(s) == [cmd |-> "send", text |-> s]
Sync(s) == [cmd |-> "sync", text |-> s]
Settled == calls = <<>> /\ ~timer /\ ends = 0 /\ shown = line
Free == Patient => Settled
Invoke(c) == Len(calls) < MaxCalls /\ calls' = Append(calls, c)
Times(n, c) == [i \in 1..n |-> c]

\* Where the prompt ends for the handlers: they look for the last prompt
\* character on the screen, which may be one of the line, and skip one more.
Boundary(l) == LET marks == {i \in DOMAIN l : l[i] \in PromptChar}
               IN  IF marks = {} THEN 0 ELSE 1 + Max(marks)
Command(l) == SubSeq(l, Boundary(l) + 1, Len(l))

\* What is left of a line after a text with DELs: the line discipline.
Read(l, s) ==
    FoldLeft(LAMBDA acc, c : IF c # DEL THEN Append(acc, c) ELSE IF acc = <<>> THEN acc ELSE Front(acc), l, s)

Init ==
    /\ composing = FALSE /\ last = <<>> /\ pty = <<>> /\ timer = FALSE /\ ends = 0
    /\ calls = <<>>
    /\ inputBuf = <<>> /\ history = <<>>
    /\ line = <<>> /\ shown = <<>>
    /\ ime = [on |-> FALSE, text |-> <<>>]
    /\ typed = <<>> /\ ran = <<>>

----------------------------------------------------------------------------
(* The input method.                                                       *)

CompositionStart ==
    /\ Free /\ ~ime.on
    /\ ime' = [on |-> TRUE, text |-> <<>>]
    /\ composing' = TRUE
    /\ last' = <<>> /\ pty' = <<>> /\ timer' = FALSE
    /\ UNCHANGED <<ends, calls, shellVars, typed>>

\* As it would be if the last text were taken for a prefix of the new one.
CorrectionOfLonger(t) == SubSeq(t, Len(last) + 1, Len(t))

\* What turns the last composed text into the new one.
Correction(t) ==
    IF IsPrefix(last, t) THEN SubSeq(t, Len(last) + 1, Len(t))
    ELSE Times(Len(last), DEL) \o t

CompositionUpdate(t) ==
    /\ ime.on
    /\ Patient => calls = <<>>
    /\ t # ime.text /\ Len(typed) + Len(t) <= MaxText
    /\ t = <<>> => Erases
    /\ ime' = [ime EXCEPT !.text = t]
    /\ last' = t
    /\ IF t = <<>> THEN UNCHANGED <<pty, timer>>
       ELSE pty' = pty \o Correction(t) /\ timer' = (timer \/ pty' # <<>>)
    /\ Len(pty') <= MaxBuffer
    /\ UNCHANGED <<composing, ends, calls, shellVars, typed>>

\* flushPty, two milliseconds later.
Flush ==
    /\ timer
    /\ timer' = FALSE
    /\ IF pty = <<>> THEN UNCHANGED <<pty, calls>>
       ELSE pty' = <<>> /\ Invoke(Write(pty))
    /\ UNCHANGED <<composing, last, ends, shellVars, ime, typed>>

\* The rest of the buffer goes at once; that the composition is over is
\* noted 50 ms later.
CompositionEnd ==
    /\ ime.on
    /\ ime' = [on |-> FALSE, text |-> <<>>]
    /\ typed' = typed \o ime.text
    /\ ends < 2 /\ ends' = ends + 1
    /\ timer' = FALSE
    /\ IF pty = <<>> THEN UNCHANGED <<pty, calls>>
       ELSE pty' = <<>> /\ Invoke(Write(pty))
    /\ UNCHANGED <<composing, last, shellVars>>

EndTimer ==
    /\ ends > 0
    /\ ends' = ends - 1
    /\ composing' = FALSE
    /\ last' = <<>>
    /\ UNCHANGED <<pty, timer, calls, shellVars, ime, typed>>

----------------------------------------------------------------------------
(* The keys.                                                               *)

\* onData: while composing only white space gets through, here none.
TypeChar(c) ==
    /\ Free /\ ~ime.on
    /\ Len(typed) < MaxText
    /\ typed' = Append(typed, c)
    /\ IF composing THEN UNCHANGED calls ELSE Invoke(Write(<<c>>))
    /\ UNCHANGED <<imeVars, shellVars, ime>>

\* A line break passes while composing; otherwise it first tells the
\* backend the command that the screen shows.
Enter ==
    /\ Free /\ ~ime.on
    /\ Len(ran) < MaxLines
    /\ Invoke(IF composing THEN Write(<<CR>>) ELSE Sync(Command(shown)))
    /\ UNCHANGED <<imeVars, shellVars, ime, typed>>

\* The key handler swallows it at or before the end of the prompt.
Backspace ==
    /\ Free /\ ~ime.on
    /\ typed # <<>>
    /\ Len(shown) > Boundary(shown)
    /\ typed' = Front(typed)
    /\ IF composing THEN UNCHANGED calls ELSE Invoke(Write(<<DEL>>))
    /\ UNCHANGED <<imeVars, shellVars, ime>>

\* Without a selection the key reaches the shell, which drops its line.
CtrlC ==
    /\ Free /\ ~ime.on
    /\ typed' = <<>>
    /\ IF composing THEN UNCHANGED calls ELSE Invoke(Write(<<ETX>>))
    /\ UNCHANGED <<imeVars, shellVars, ime>>

Paste(s) ==
    /\ Free /\ ~ime.on
    /\ s # <<>> /\ Len(typed) + Len(s) <= MaxText
    /\ typed' = typed \o s
    /\ \E breaks \in {b \in BOOLEAN : b => PastesLines} :
          Invoke(Write(IF breaks THEN Append(s, CR) ELSE s))
    /\ UNCHANGED <<imeVars, shellVars, ime>>

----------------------------------------------------------------------------
(* The commands.                                                           *)

\* sync_terminal_input_buf; its answer invokes the write of the line break.
SyncWorks(i) ==
    /\ calls[i].cmd = "sync"
    /\ inputBuf' = calls[i].text
    /\ calls' = Append(RemoveAt(calls, i), Write(<<CR>>))
    /\ UNCHANGED <<imeVars, history, line, shown, ran, ime, typed>>

Remembered(cmd) ==
    IF cmd = <<>> \/ (history # <<>> /\ Last(history) = cmd) THEN history ELSE Append(history, cmd)

\* write_to_terminal_session under the lock: a line break goes on alone, if
\* the check of the sandbox allows the command, and as ^C if not.
WriteWorks(i, ok) ==
    LET s == calls[i].text
        Goes(t) == calls' = [calls EXCEPT ![i] = ToShell(t)]
    IN
    /\ calls[i].cmd = "write"
    /\ \/ /\ Contains(s, CR) /\ (ok \/ inputBuf # <<>>)
          /\ inputBuf' = <<>>
          /\ history' = IF ok THEN Remembered(inputBuf) ELSE history
          /\ Goes(IF ok THEN <<CR>> ELSE <<ETX>>)
       \/ /\ s = <<ETX>> /\ ok
          /\ inputBuf' = <<>>
          /\ Goes(s)
          /\ UNCHANGED history
       \/ /\ ~Contains(s, CR) /\ s # <<ETX>> /\ ok
          /\ Goes(s)
          /\ UNCHANGED <<inputBuf, history>>
    /\ UNCHANGED <<imeVars, line, shown, ran, ime, typed>>

\* The rest of it, without the lock: the shell reads what it is sent.
SendWorks(i) ==
    LET s == calls[i].text IN
    /\ calls[i].cmd = "send"
    /\ calls' = RemoveAt(calls, i)
    /\ IF s \in {<<CR>>, <<ETX>>}
       THEN /\ ran' = IF s = <<CR>> THEN Append(ran, line) ELSE ran
            /\ line' = <<>>
            /\ typed' = <<>>
       ELSE /\ line' = Read(line, s)
            /\ UNCHANGED <<ran, typed>>
    /\ UNCHANGED <<imeVars, inputBuf, history, shown, ime>>

\* The output of the shell reaches the screen.
Echo ==
    /\ shown # line
    /\ shown' = line
    /\ UNCHANGED <<imeVars, calls, inputBuf, history, line, ran, ime, typed>>

Next ==
    \/ CompositionStart \/ CompositionEnd \/ Flush \/ EndTimer
    \/ \E t \in Text : CompositionUpdate(t) \/ Paste(t)
    \/ \E c \in Char : TypeChar(c)
    \/ Enter \/ Backspace \/ CtrlC
    \/ \E i \in DOMAIN calls : SyncWorks(i) \/ SendWorks(i)
                              \/ \E ok \in BOOLEAN : WriteWorks(i, ok)
    \/ Echo

Spec == Init /\ [][Next]_inputVars

----------------------------------------------------------------------------
\* For a user who waits, the shell's line is what was typed, composed texts
\* included, however each was corrected (TerminalPanel.tsx:779-804).
LineIsTyped == Settled /\ ~composing => line = typed

\* The history has the command of every line that was run, without
\* repetitions and empty ones (TerminalPanel.tsx:890-905, terminal.rs:86-100).
HistoryIsRun ==
    Settled => history = FoldLeft(LAMBDA h, l :
        IF Command(l) = <<>> \/ (h # <<>> /\ Last(h) = Command(l)) THEN h
        ELSE Append(h, Command(l)), <<>>, ran)

\* What is run is what was typed and pasted.
RunIsTyped == [][ran' # ran => Last(ran') = typed]_inputVars

\* A Backspace takes back the last character, whatever it is.
BackspaceErases == Settled /\ typed # <<>> => Len(shown) > Boundary(shown)

\* The history has the lines that were run.
HistoryHasLines == Settled => ToSet(ran) \ {<<>>} \subseteq ToSet(history)
=============================================================================

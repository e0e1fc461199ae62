------------------------------- MODULE Widget -------------------------------
(***************************************************************************)
(* The PowerShell widget (shell/powershell/cl-ai.psm1): the candidates it  *)
(* cycles through, against a line editor in which the user goes on typing  *)
(* and accepting lines, and a daemon that answers with what it likes.      *)
(*                                                                         *)
(* Everything here runs on the shell's one thread, a handler at a time.    *)
(* The line editor (PSReadLine) is known by the text in its buffer;        *)
(* RevertLine empties it, and Insert puts text in an empty buffer.         *)
(***************************************************************************)
EXTENDS Integers, Sequences

CONSTANTS
    Line,       \* what a line may read
    Command,    \* the lines that the daemon suggests
    Blank,      \* the lines of nothing but white space, the empty one with them
    Empty,      \* the empty line
    Null,       \* PowerShell's $null
    SameText,   \* pairs of lines that -eq takes for equal: it ignores case
    Limit       \* at most so many candidates in a reply (-Limit 5)

ASSUME LineAssumption ==
    /\ Empty \in Blank
    /\ Blank \subseteq Line
    /\ Command \subseteq Line \ Blank
    /\ Null \notin Line
ASSUME SameTextAssumption ==
    SameText \subseteq Line \X Line /\ \A l \in Line : <<l, l>> \in SameText
ASSUME LimitAssumption == Limit \in Nat

VARIABLES
    buffer,      \* the line as it stands
    candidates,  \* $script:Candidates, by their commands
    index,       \* $script:Index, from 0
    original,    \* $script:OriginalLine
    typed,       \* the line of this prompt that the candidates are for, or
                 \* Null if there is none (history)
    ours,        \* the buffer holds what the widget put there last (history)
    pressed      \* the last key (history)

state == <<candidates, index, original>>
vars == <<buffer, candidates, index, original, typed, ours, pressed>>

Keys == {"Tab", "Up", "Down", "Escape", "Enter", "other"}

TypeOK ==
    /\ buffer \in Line
    /\ candidates \in Seq(Command)
    /\ index \in Int
    /\ original \in Line \cup {Null}
    /\ typed \in Line \cup {Null}
    /\ ours \in BOOLEAN
    /\ pressed \in Keys

Init ==
    /\ buffer = Empty
    /\ candidates = <<>>
    /\ index = -1
    /\ original = Null
    /\ typed = Null
    /\ ours = FALSE
    /\ pressed = "other"

\* The replies with ok and suggestions in them.
Suggestions == UNION {[1 .. n -> Command] : n \in 1 .. Limit}

-----------------------------------------------------------------------------
(* Helpers of the handlers *)

\* Reset-ClAiCycle
ResetCycle ==
    /\ candidates' = <<>>
    /\ index' = -1
    /\ original' = Null

\* Show-ClAiCandidate: RevertLine, then Insert.
Show(cs, i) ==
    /\ buffer' = cs[i + 1]
    /\ ours' = TRUE

\* A function of the line editor changes the line.
Elsewhere(l) ==
    /\ buffer' = l
    /\ ours' = FALSE

-----------------------------------------------------------------------------
(* Tab, Invoke-ClAiComplete *)

\* The line is still the candidate shown.
Cycling == candidates # <<>> /\ <<buffer, candidates[index + 1]>> \in SameText

\* Mutant: the candidate is shown before the index moves on.
ShowThenAdvance ==
    /\ Cycling
    /\ index' = (index + 1) % Len(candidates)
    /\ Show(candidates, index)
    /\ pressed' = "Tab"
    /\ UNCHANGED <<candidates, original, typed>>

\* On to the next candidate, without asking again.
TabCycles ==
    /\ Cycling
    /\ index' = (index + 1) % Len(candidates)
    /\ Show(candidates, index')
    /\ pressed' = "Tab"
    /\ UNCHANGED <<candidates, original, typed>>

\* The daemon has suggestions for the line.
TabAsks(cs) ==
    /\ ~Cycling
    /\ buffer \notin Blank
    /\ candidates' = cs
    /\ original' = buffer
    /\ index' = 0
    /\ Show(cs, 0)
    /\ typed' = buffer
    /\ pressed' = "Tab"

\* A blank line, no daemon, no answer in time, a refusal, nothing found:
\* TabCompleteNext, which may complete the line or leave it.
TabDeclined(l) ==
    /\ ~Cycling
    /\ ResetCycle
    /\ Elsewhere(l)
    /\ typed' = Null
    /\ pressed' = "Tab"

\* PowerShell hands over an array of one or none unrolled, and under strict
\* mode some versions refuse to count what is left: the handler ends there.
TabRaises ==
    /\ ~Cycling
    /\ ResetCycle
    /\ Elsewhere(buffer)
    /\ typed' = Null
    /\ pressed' = "Tab"

-----------------------------------------------------------------------------
(* The other keys *)

\* Down, Invoke-ClAiNext; without candidates NextHistory.
Down(l) ==
    /\ pressed' = "Down"
    /\ \/ /\ candidates # <<>>
          /\ index' = (index + 1) % Len(candidates)
          /\ Show(candidates, index')
          /\ UNCHANGED <<candidates, original, typed>>
       \/ /\ candidates = <<>>
          /\ Elsewhere(l)
          /\ UNCHANGED <<state, typed>>

\* Mutant: the count is not added before the remainder is taken, which in
\* PowerShell is negative then; and so is the element counted from the end.
UpWithoutCount(l) ==
    /\ pressed' = "Up"
    /\ \/ /\ candidates # <<>>
          /\ index' = IF index = 0 THEN -1 ELSE index - 1
          /\ Show(candidates, IF index = 0 THEN Len(candidates) - 1 ELSE index - 1)
          /\ UNCHANGED <<candidates, original, typed>>
       \/ /\ candidates = <<>>
          /\ Elsewhere(l)
          /\ UNCHANGED <<state, typed>>

\* Up, Invoke-ClAiPrevious; without candidates PreviousHistory.
Up(l) ==
    /\ pressed' = "Up"
    /\ \/ /\ candidates # <<>>
          /\ index' = (index - 1 + Len(candidates)) % Len(candidates)
          /\ Show(candidates, index')
          /\ UNCHANGED <<candidates, original, typed>>
       \/ /\ candidates = <<>>
          /\ Elsewhere(l)
          /\ UNCHANGED <<state, typed>>

\* Mutant: the cycle is reset before the original line is taken from it.
ResetThenRestore ==
    /\ pressed' = "Escape"
    /\ Elsewhere(Empty)
    /\ ResetCycle
    /\ typed' = Null

\* Mutant: the original line is inserted though there may be none.
RestoreUnchecked ==
    /\ pressed' = "Escape"
    /\ Elsewhere(original)
    /\ ResetCycle
    /\ typed' = Null

\* Escape, Invoke-ClAiDismiss; without candidates RevertLine alone.
Dismiss ==
    /\ pressed' = "Escape"
    /\ Elsewhere(IF candidates # <<>> /\ original # Null THEN original ELSE Empty)
    /\ IF candidates # <<>> THEN ResetCycle ELSE UNCHANGED state
    /\ typed' = Null

\* The user types, deletes or pastes.
Edit(l) ==
    /\ pressed' = "other"
    /\ l # buffer
    /\ Elsewhere(l)
    /\ UNCHANGED <<state, typed>>

\* Enter: the line is run and a new prompt begins.  No handler of the widget
\* is bound to it.
AcceptLine ==
    /\ pressed' = "Enter"
    /\ Elsewhere(Empty)
    /\ typed' = Null
    /\ UNCHANGED state

Next ==
    \/ TabCycles
    \/ \E cs \in Suggestions : TabAsks(cs)
    \/ TabRaises
    \/ \E l \in Line : TabDeclined(l) \/ Down(l) \/ Up(l) \/ Edit(l)
    \/ Dismiss
    \/ AcceptLine

Spec == Init /\ [][Next]_vars

-----------------------------------------------------------------------------
\* Candidates, highlighted index and original line come and go together, and
\* the index is one of the candidates' (Tab, Up and Down index blindly, under
\* strict mode).
CycleInShape ==
    IF candidates = <<>>
    THEN index = -1 /\ original = Null
    ELSE index \in 0 .. Len(candidates) - 1 /\ original # Null

\* What the widget last put on the line is the highlighted candidate, so that
\* the next Tab takes the line for its own and moves on from it.
ShownIsHighlighted ==
    ours => candidates # <<>> /\ buffer = candidates[index + 1]

\* Escape puts back the line the user typed, however long they cycled
\* (Invoke-ClAiDismiss), at the prompt at which they typed it.
EscapeRestores == 
    [][pressed' = "Escape" /\ typed # Null => buffer' = typed]_vars

=============================================================================

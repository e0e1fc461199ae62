---------------------------- MODULE WidgetProofs ----------------------------
(***************************************************************************)
(* The safety of Widget for any lines, replies of any length and any keys. *)
(***************************************************************************)
EXTENDS Widget, TLAPS

(***************************************************************************)
(* At a prompt whose line the candidates are for, they are those of that   *)
(* line: nothing but a new reply or a reset touches the original line.     *)
(***************************************************************************)
OriginalIsTyped == typed # Null => candidates # <<>> /\ original = typed

Inv == TypeOK /\ CycleInShape /\ ShownIsHighlighted /\ OriginalIsTyped

USE LineAssumption, SameTextAssumption, LimitAssumption

\* Stepping through the candidates in either direction stays among them.
LEMMA Wraps ==
    ASSUME NEW n \in Nat \ {0}, NEW i \in 0 .. n - 1
    PROVE  /\ (i + 1) % n \in 0 .. n - 1
           /\ (i - 1 + n) % n \in 0 .. n - 1
<1>1. ASSUME NEW k \in Int  PROVE k % n \in 0 .. n - 1
    OBVIOUS
<1>2. QED  BY <1>1

\* Showing one of the candidates keeps the invariant.
LEMMA ShowStep ==
    ASSUME Inv, candidates # <<>>, index' \in 0 .. Len(candidates) - 1,
           Show(candidates, index'), pressed' \in Keys,
           UNCHANGED <<candidates, original, typed>>
    PROVE  Inv'
<1>1. candidates[index' + 1] \in Command
    BY DEF Inv, TypeOK
<1>2. TypeOK'
    BY <1>1 DEF Inv, TypeOK, Show
<1>3. CycleInShape' /\ ShownIsHighlighted' /\ OriginalIsTyped'
    BY DEF Inv, CycleInShape, ShownIsHighlighted, OriginalIsTyped, Show
<1>4. QED  BY <1>2, <1>3 DEF Inv

\* So does forgetting the candidates.
LEMMA ResetStep ==
    ASSUME Inv, ResetCycle, NEW l \in Line, Elsewhere(l), typed' = Null,
           pressed' \in Keys
    PROVE  Inv'
<1>1. candidates' = <<>> /\ candidates' \in Seq(Command)
    BY DEF ResetCycle
<1>2. TypeOK'
    <2>1. index' \in Int /\ original' \in Line \cup {Null}
        BY DEF ResetCycle
    <2>2. buffer' \in Line /\ ours' \in BOOLEAN /\ typed' \in Line \cup {Null}
        BY DEF Elsewhere
    <2>3. QED  BY <1>1, <2>1, <2>2, Zenon DEF TypeOK
<1>3. CycleInShape' /\ ShownIsHighlighted' /\ OriginalIsTyped'
    BY DEF CycleInShape, ShownIsHighlighted, OriginalIsTyped, ResetCycle, Elsewhere
<1>4. QED  BY <1>2, <1>3 DEF Inv

\* So does a change of the line that leaves the candidates alone.
LEMMA LineStep ==
    ASSUME Inv, NEW l \in Line, Elsewhere(l), UNCHANGED state,
           typed' \in {typed, Null}, pressed' \in Keys
    PROVE  Inv'
BY DEF Inv, TypeOK, CycleInShape, ShownIsHighlighted, OriginalIsTyped,
       Elsewhere, state

LEMMA InvInit == Init => Inv
<1> SUFFICES ASSUME Init PROVE Inv
    OBVIOUS
<1>1. candidates = <<>> /\ candidates \in Seq(Command)
    BY DEF Init
<1>2. TypeOK
    <2>1. buffer \in Line /\ index \in Int /\ pressed \in Keys
        BY DEF Init, Keys
    <2>2. original \in Line \cup {Null} /\ typed \in Line \cup {Null}
              /\ ours \in BOOLEAN
        BY DEF Init
    <2>3. QED  BY <1>1, <2>1, <2>2, Zenon DEF TypeOK
<1>3. CycleInShape /\ ShownIsHighlighted /\ OriginalIsTyped
    BY DEF Init, CycleInShape, ShownIsHighlighted, OriginalIsTyped
<1>4. QED  BY <1>2, <1>3 DEF Inv

LEMMA InvStep == Inv /\ [Next]_vars => Inv'
<1> SUFFICES ASSUME Inv, [Next]_vars PROVE Inv'
    OBVIOUS
<1>0. candidates # <<>> =>
          /\ Len(candidates) \in Nat \ {0}
          /\ index \in 0 .. Len(candidates) - 1
    BY DEF Inv, TypeOK, CycleInShape
<1>1. CASE TabCycles
    BY <1>0, <1>1, Wraps, ShowStep DEF TabCycles, Cycling, Keys
<1>2. ASSUME NEW cs \in Suggestions, TabAsks(cs)  PROVE Inv'
    <2>1. cs \in Seq(Command) /\ cs # <<>> /\ Len(cs) \in Nat \ {0}
        BY DEF Suggestions
    <2>2. cs[1] \in Command
        BY <2>1
    <2>3. buffer \in Line /\ Null \notin Line
        BY DEF Inv, TypeOK
    <2>4. QED  BY <1>2, <2>1, <2>2, <2>3 DEF TabAsks, Show, Inv, TypeOK,
                   CycleInShape, ShownIsHighlighted, OriginalIsTyped, Keys
<1>3. ASSUME NEW l \in Line, TabDeclined(l)  PROVE Inv'
    BY <1>3, ResetStep DEF TabDeclined, Keys
<1>4. CASE TabRaises
    BY <1>4, ResetStep DEF TabRaises, Keys, Inv, TypeOK
<1>5. ASSUME NEW l \in Line, Down(l) \/ Up(l)  PROVE Inv'
    <2>1. pressed' \in Keys
        BY <1>5 DEF Down, Up, Keys
    <2>2. CASE candidates # <<>>
        BY <1>0, <1>5, <2>1, <2>2, Wraps, ShowStep DEF Down, Up
    <2>3. CASE candidates = <<>>
        BY <1>5, <2>1, <2>3, LineStep DEF Down, Up
    <2>4. QED  BY <2>2, <2>3
<1>6. ASSUME NEW l \in Line, Edit(l)  PROVE Inv'
    BY <1>6, LineStep DEF Edit, Keys
<1>7. CASE Dismiss
    <2>1. pressed' \in Keys /\ typed' = Null
        BY <1>7 DEF Dismiss, Keys
    <2>2. CASE candidates # <<>>
        <3>1. original \in Line /\ Empty \in Line
            BY <2>2 DEF Inv, TypeOK, CycleInShape
        <3>2. QED  BY <1>7, <2>1, <2>2, <3>1, ResetStep DEF Dismiss
    <2>3. CASE candidates = <<>>
        BY <1>7, <2>1, <2>3, LineStep DEF Dismiss
    <2>4. QED  BY <2>2, <2>3
<1>8. CASE AcceptLine
    BY <1>8, LineStep DEF AcceptLine, Keys
<1>9. CASE UNCHANGED vars
    BY <1>9 DEF vars, state, Inv, TypeOK, CycleInShape, ShownIsHighlighted,
               OriginalIsTyped
<1>10. QED  BY <1>1, <1>2, <1>3, <1>4, <1>5, <1>6, <1>7, <1>8, <1>9 DEF Next

LEMMA Invariance == Spec => []Inv
BY InvInit, InvStep, PTL DEF Spec

\* The widget's state and the line have their types, of any length the replies
\* are (TabAsks takes what Get-ClAiSuggestion returns).
THEOREM TypeCorrect == Spec => []TypeOK
<1>1. Inv => TypeOK
    BY DEF Inv
<1>2. QED  BY <1>1, Invariance, PTL

\* The cycle is in shape whatever keys are pressed (Tab, Up and Down never
\* index past the candidates).
THEOREM CycleKeepsItsShape == Spec => []CycleInShape
<1>1. Inv => CycleInShape
    BY DEF Inv
<1>2. QED  BY <1>1, Invariance, PTL

\* What the widget put on the line is the candidate it highlights.
THEOREM HighlightIsTrue == Spec => []ShownIsHighlighted
<1>1. Inv => ShownIsHighlighted
    BY DEF Inv
<1>2. QED  BY <1>1, Invariance, PTL

\* Escape gives the typed line back after any number of other keys at that
\* prompt (Invoke-ClAiDismiss).
THEOREM EscapeGivesBack == Spec => EscapeRestores
<1>1. Inv /\ [Next]_vars
          => [pressed' = "Escape" /\ typed # Null => buffer' = typed]_vars
    <2> SUFFICES ASSUME Inv, Next, pressed' = "Escape", typed # Null
                 PROVE  buffer' = typed
        OBVIOUS
    <2>1. Dismiss
        BY DEF Next, TabCycles, TabAsks, TabDeclined, TabRaises, Down, Up, Edit,
               AcceptLine
    <2>2. candidates # <<>> /\ original = typed
        BY DEF Inv, OriginalIsTyped
    <2>3. QED  BY <2>1, <2>2 DEF Dismiss, Elsewhere
<1>2. QED  BY <1>1, Invariance, PTL DEF Spec, EscapeRestores

=============================================================================

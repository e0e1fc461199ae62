-------------------------- MODULE CorpusFetchProofs --------------------------
(***************************************************************************)
(* What CorpusFetch promises of fetches that do not overlap, for any       *)
(* number of fetches and faults.                                           *)
(***************************************************************************)
EXTENDS CorpusFetch, FiniteSetTheorems, TLAPS

USE TreeAssumption, FaultAssumption

\* A corpus that was there is at the destination, or beside an empty one.
Kept ==
    (\E f \in Fetch : Had(f))
        => dest \in Release \/ (dest = Nothing /\ old \in Release)

\* What a fetch finds at the destination and beside it, by where it is.
Course(f) ==
    /\ pc[f] \in {"begin", "download", "look", "remove", "removing", "aside"}
           => dest = before[f]
    /\ pc[f] \in {"remove", "removing", "aside"} => dest # Nothing /\ f \in backup
    /\ pc[f] \in {"idle", "begin", "download", "look"} => f \notin backup
    /\ pc[f] \in {"look", "remove", "removing", "aside", "install", "restore"}
           => staged[f] \in Release
    /\ pc[f] = "install" => dest = Nothing
    /\ pc[f] = "install" /\ f \in backup =>
           old = before[f] /\ old \in Release \cup {Other}
    /\ pc[f] = "install" /\ f \notin backup => before[f] = Nothing
    /\ pc[f] = "restore" =>
           /\ dest = Nothing /\ old = before[f] /\ old \in Release \cup {Other}
           /\ faults[f] >= 1
    /\ pc[f] \in {"drop", "dropping"} => dest \in Release
    /\ pc[f] \in {"idle", "begin", "download"} \cup Swapping => outcome[f] = "fetched"
    /\ pc[f] = "cleanup" /\ outcome[f] = "raised" /\ faults[f] <= 1
           => dest = before[f]

\* One fetch at a time, and each on its course.
OneRuns ==
    \A f, g \in Fetch : pc[f] \in Running /\ pc[g] \in Running => f = g

Alone ==
    /\ OneRuns
    /\ dest # Rest
    /\ Kept
    /\ \A f \in Fetch : Course(f)

Inv == TypeOK /\ (~overlapped => Alone)

LEMMA InvInit == Init => Inv
<1> SUFFICES ASSUME Init PROVE Inv
    OBVIOUS
<1>1. TypeOK
    <2>1. dest \in Place /\ old \in Place
        BY DEF Init, Place, Tree
    <2>2. /\ staged \in [Fetch -> Place] /\ before \in [Fetch -> Place]
          /\ outcome \in [Fetch -> Ended] /\ faults \in [Fetch -> 0 .. MaxFaults]
        BY <2>1 DEF Init, Place, Ended
    <2>3. QED  BY <2>1, <2>2 DEF Init, TypeOK
<1>2. OneRuns /\ dest # Rest /\ Kept
    BY DEF Init, OneRuns, Running, Swapping, Kept, Had
<1>3. \A f \in Fetch : Course(f)
    BY DEF Init, Course, Swapping
<1>4. QED  BY <1>1, <1>2, <1>3 DEF Inv, Alone

\* A step of the one fetch that runs keeps the others where they are.
LEMMA Frame ==
    ASSUME Inv, ~overlapped, NEW f \in Fetch, pc[f] \in Running,
           NEW l, l # "idle", Goto(f, l), backup' \in {backup, backup \cup {f}},
           \A g \in Fetch \ {f} : outcome'[g] = outcome[g]
    PROVE  /\ OneRuns'
           /\ \A g \in Fetch \ {f} : Course(g)'
<1>1. \A g \in Fetch \ {f} :
          /\ pc'[g] = pc[g] /\ pc[g] \notin Running
          /\ g \in backup' <=> g \in backup
          /\ outcome'[g] = outcome[g]
    BY DEF Inv, TypeOK, Alone, OneRuns, Goto
<1>2. OneRuns'
    BY <1>1 DEF OneRuns
<1>3. \A g \in Fetch \ {f} : Course(g)'
    BY <1>1 DEF Inv, Alone, Course, Running, Swapping
<1>4. QED  BY <1>2, <1>3

\* So it is left to show what the step does to the two places and to its own
\* fetch.
LEMMA Lone ==
    ASSUME Inv, TypeOK', UNCHANGED history, NEW f \in Fetch, pc[f] \in Running,
           NEW l, l # "idle", Goto(f, l), backup' \in {backup, backup \cup {f}},
           \A g \in Fetch \ {f} : outcome'[g] = outcome[g],
           ~overlapped => dest' # Rest /\ Kept' /\ Course(f)'
    PROVE  Inv'
BY Frame DEF Inv, Alone, history

LEMMA BeginStep ==
    ASSUME Inv, NEW f \in Fetch, Begin(f)
    PROVE  Inv'
<1>1. TypeOK'
    BY DEF Begin, Goto, Inv, TypeOK, Running, Ended
<1>2. ASSUME ~overlapped'  PROVE Alone'
    <2>1. Alone /\ \A g \in Fetch : pc[g] \notin Running
        BY <1>2 DEF Begin, Inv, TypeOK
    <2>2. OneRuns'
        BY <2>1 DEF Begin, Goto, Inv, TypeOK, OneRuns
    <2>3. dest' # Rest /\ Kept'
        BY <2>1 DEF Begin, Inv, TypeOK, Alone, Kept, Had
    <2>4. Course(f)'
        BY <2>1 DEF Begin, Goto, Inv, TypeOK, Alone, Course, Swapping
    <2>5. ASSUME NEW g \in Fetch \ {f}  PROVE Course(g)'
        <3>1. pc'[g] = pc[g] /\ pc[g] \notin Running
              /\ UNCHANGED <<backup, outcome>>
            BY <2>1 DEF Begin, Goto, Inv, TypeOK
        <3>2. QED  BY <2>1, <3>1 DEF Alone, Course, Running, Swapping
    <2>6. QED  BY <2>2, <2>3, <2>4, <2>5 DEF Alone
<1>3. QED  BY <1>1, <1>2 DEF Inv

LEMMA StagingStep ==
    ASSUME Inv, NEW f \in Fetch, MakeStaging(f) \/ Download(f)
    PROVE  Inv'
<1>1. pc[f] \in Running /\ UNCHANGED <<dest, old, backup, faults, history>>
    BY DEF MakeStaging, Download, Running
<1>2. TypeOK'
    BY DEF MakeStaging, Download, Leave, Goto, history, Inv, TypeOK, Place, Tree,
           Running, Swapping, Ended
<1>3. PICK l \in {"download", "raised", "look", "cleanup"} : Goto(f, l)
    BY DEF MakeStaging, Download, Leave
<1>4. ASSUME ~overlapped  PROVE dest' # Rest /\ Kept' /\ Course(f)'
    <2>1. dest' # Rest /\ Kept'
        BY <1>1, <1>4 DEF history, Inv, Alone, Kept, Had
    <2>2. Course(f)'
        BY <1>1, <1>4 DEF MakeStaging, Download, Leave, Goto, history, Inv, TypeOK,
               Alone, Course, Swapping
    <2>3. QED  BY <2>1, <2>2
<1>5. \A g \in Fetch \ {f} : outcome'[g] = outcome[g]
    BY DEF MakeStaging, Download, Leave, Inv, TypeOK
<1>6. QED  BY <1>1, <1>2, <1>3, <1>4, <1>5, Lone

LEMMA LookStep ==
    ASSUME Inv, NEW f \in Fetch, LookAt(f)
    PROVE  Inv'
<1>1. pc[f] \in Running /\ UNCHANGED <<dest, old, staged, outcome, faults, history>>
    BY DEF LookAt, Running, Swapping
<1>2. TypeOK'
    BY DEF LookAt, Goto, history, Inv, TypeOK, Running, Swapping
<1>3. PICK l \in {"remove", "install"} : Goto(f, l)
    BY DEF LookAt
<1>4. backup' \in {backup, backup \cup {f}}
    BY DEF LookAt
<1>5. ASSUME ~overlapped  PROVE dest' # Rest /\ Kept' /\ Course(f)'
    <2>1. dest' # Rest /\ Kept'
        BY <1>1, <1>5 DEF history, Inv, Alone, Kept, Had
    <2>2. Course(f)'
        BY <1>1, <1>5 DEF LookAt, Goto, history, Inv, TypeOK, Alone,
               Course, Swapping
    <2>3. QED  BY <2>1, <2>2
<1>6. \A g \in Fetch \ {f} : outcome'[g] = outcome[g]
    BY DEF LookAt, Inv, TypeOK
<1>7. QED  BY <1>1, <1>2, <1>3, <1>4, <1>5, <1>6, Lone

\* The old copy is removed while there is something at the destination.
LEMMA RemovalStep ==
    ASSUME Inv, NEW f \in Fetch, BeginRemoval(f) \/ EndRemoval(f)
    PROVE  Inv'
<1>1. /\ pc[f] \in Running
      /\ pc[f] \in {"remove", "removing", "drop", "dropping"}
      /\ UNCHANGED <<dest, staged, backup, history>>
    BY DEF BeginRemoval, EndRemoval, Running, Swapping
<1>2. TypeOK'
    BY DEF BeginRemoval, EndRemoval, Leave, Goto, Fault, history, Inv, TypeOK,
           Place, Tree, Running, Swapping, Ended
<1>3. PICK l \in {"removing", "dropping", "aside", "cleanup"} : Goto(f, l)
    BY DEF BeginRemoval, EndRemoval, Leave
<1>4. ASSUME ~overlapped  PROVE dest' # Rest /\ Kept' /\ Course(f)'
    <2>1. dest # Nothing
        BY <1>1, <1>4 DEF Inv, Alone, Course
    <2>2. dest' # Rest /\ Kept'
        BY <1>1, <1>4, <2>1 DEF history, Inv, Alone, Kept, Had
    <2>3. Course(f)'
        BY <1>1, <1>4 DEF BeginRemoval, EndRemoval, Leave, Goto, history, Inv,
               TypeOK, Alone, Course, Swapping
    <2>4. QED  BY <2>2, <2>3
<1>5. \A g \in Fetch \ {f} : outcome'[g] = outcome[g]
    BY DEF BeginRemoval, EndRemoval, Leave, Inv, TypeOK
<1>6. QED  BY <1>1, <1>2, <1>3, <1>4, <1>5, Lone

LEMMA AsideStep ==
    ASSUME Inv, NEW f \in Fetch, MoveAside(f)
    PROVE  Inv'
<1>1. /\ pc[f] \in Running /\ pc[f] = "aside"
      /\ UNCHANGED <<staged, backup, history>>
    BY DEF MoveAside, Running, Swapping
<1>2. TypeOK'
    BY DEF MoveAside, Leave, Goto, Fault, history, Inv, TypeOK,
           Place, Running, Swapping, Ended
<1>3. PICK l \in {"install", "cleanup"} : Goto(f, l)
    BY DEF MoveAside, Leave
<1>4. ASSUME ~overlapped  PROVE dest' # Rest /\ Kept' /\ Course(f)'
    <2>1. /\ dest = before[f] /\ dest \in Release \cup {Other}
          /\ staged[f] \in Release
        BY <1>1, <1>4 DEF Inv, TypeOK, Place, Tree, Alone, Course
    <2>2. dest' # Rest /\ Kept'
        BY <1>1, <1>4, <2>1 DEF MoveAside, history, Inv, Alone, Kept, Had
    <2>3. Course(f)'
        BY <1>1, <1>4, <2>1 DEF MoveAside, Leave, Goto, history, Inv, TypeOK,
               Alone, Course, Swapping
    <2>4. QED  BY <2>2, <2>3
<1>5. \A g \in Fetch \ {f} : outcome'[g] = outcome[g]
    BY DEF MoveAside, Leave, Inv, TypeOK
<1>6. QED  BY <1>1, <1>2, <1>3, <1>4, <1>5, Lone

LEMMA InstallStep ==
    ASSUME Inv, NEW f \in Fetch, Install(f)
    PROVE  Inv'
<1>1. /\ pc[f] \in Running /\ pc[f] = "install"
      /\ UNCHANGED <<old, backup, history>>
    BY DEF Install, Running, Swapping
<1>2. TypeOK'
    BY DEF Install, InstallFails, Leave, Goto, Fault, history, Inv, TypeOK,
           Place, Tree, Running, Swapping, Ended
<1>3. PICK l \in {"drop", "cleanup", "restore"} : Goto(f, l)
    BY DEF Install, InstallFails, Leave
<1>4. ASSUME ~overlapped  PROVE dest' # Rest /\ Kept' /\ Course(f)'
    <2>1. staged[f] \in Release /\ dest = Nothing
        BY <1>1, <1>4 DEF Inv, Alone, Course
    <2>2. dest' # Rest /\ Kept'
        BY <1>1, <1>4, <2>1 DEF Install, InstallFails, history, Inv, Alone, Kept, Had
    <2>3. ASSUME dest' = staged[f], UNCHANGED outcome,
                 Goto(f, IF f \in backup THEN "drop" ELSE "cleanup")
          PROVE  Course(f)'
        BY <1>1, <1>4, <2>1, <2>3 DEF Goto, Inv, TypeOK, Alone, Course, Swapping
    <2>4. ASSUME Fault(f), InstallFails(f)  PROVE Course(f)'
        BY <1>1, <1>4, <2>1, <2>4 DEF InstallFails, Fault, Leave, Goto, history,
               Inv, TypeOK, Alone, Course, Swapping
    <2>5. QED  BY <2>1, <2>2, <2>3, <2>4 DEF Install
<1>5. \A g \in Fetch \ {f} : outcome'[g] = outcome[g]
    BY DEF Install, InstallFails, Leave, Inv, TypeOK
<1>6. QED  BY <1>1, <1>2, <1>3, <1>4, <1>5, Lone

LEMMA RestoreStep ==
    ASSUME Inv, NEW f \in Fetch, Restore(f)
    PROVE  Inv'
<1>1. /\ pc[f] \in Running /\ pc[f] = "restore"
      /\ UNCHANGED <<staged, backup, history>>
    BY DEF Restore, Running, Swapping
<1>2. TypeOK'
    BY DEF Restore, Leave, Goto, Fault, history, Inv, TypeOK, Place, Running, Ended
<1>3. Goto(f, "cleanup")
    BY DEF Restore, Leave
<1>4. ASSUME ~overlapped  PROVE dest' # Rest /\ Kept' /\ Course(f)'
    <2>1. /\ dest = Nothing /\ old = before[f] /\ old \in Release \cup {Other}
          /\ faults[f] \in Nat /\ faults[f] >= 1
        BY <1>1, <1>4 DEF Inv, TypeOK, Alone, Course
    <2>2. dest' # Rest /\ Kept'
        BY <1>1, <1>4, <2>1 DEF Restore, history, Inv, Alone, Kept, Had
    <2>3. faults'[f] \in Nat /\ (dest' = before'[f] \/ faults'[f] > 1)
        BY <1>1, <2>1 DEF Restore, Fault, history, Inv, TypeOK
    <2>4. Course(f)'
        BY <1>1, <1>3, <2>1, <2>3 DEF Goto, Inv, TypeOK, Course, Swapping
    <2>5. QED  BY <2>2, <2>4
<1>5. \A g \in Fetch \ {f} : outcome'[g] = outcome[g]
    BY DEF Restore, Leave, Inv, TypeOK
<1>6. QED  BY <1>1, <1>2, <1>3, <1>4, <1>5, Lone

\* The ends of a fetch leave both places alone.
LEMMA EndStep ==
    ASSUME Inv, NEW f \in Fetch, CleanUp(f) \/ Interrupt(f) \/ Kill(f)
    PROVE  Inv'
<1>1. pc[f] \in Running /\ UNCHANGED <<dest, old, backup, history>>
    BY DEF CleanUp, Interrupt, Kill, Running
<1>2. TypeOK'
    BY DEF CleanUp, Interrupt, Kill, Leave, Goto, Fault, history, Inv, TypeOK,
           Place, Running, Ended
<1>3. PICK l \in Ended \cup {"cleanup"} : Goto(f, l)
    BY DEF CleanUp, Interrupt, Kill, Leave, Inv, TypeOK, Ended
<1>4. ASSUME ~overlapped  PROVE dest' # Rest /\ Kept' /\ Course(f)'
    <2>1. dest' # Rest /\ Kept'
        BY <1>1, <1>4 DEF history, Inv, Alone, Kept, Had
    <2>2. l = "cleanup" => outcome'[f] = "interrupted"
        BY <1>1, <1>3 DEF CleanUp, Interrupt, Kill, Leave, Goto, Inv, TypeOK, Ended
    <2>3. Course(f)'
        BY <1>3, <2>2 DEF Goto, Inv, TypeOK, Course, Swapping, Ended
    <2>4. QED  BY <2>1, <2>3
<1>5. l # "idle"
    BY DEF Ended
<1>6. \A g \in Fetch \ {f} : outcome'[g] = outcome[g]
    BY DEF CleanUp, Interrupt, Kill, Leave, Inv, TypeOK
<1>7. QED  BY <1>1, <1>2, <1>3, <1>4, <1>5, <1>6, Lone

LEMMA InvStep == Inv /\ [Next]_vars => Inv'
<1> SUFFICES ASSUME Inv, [Next]_vars PROVE Inv'
    OBVIOUS
<1>1. ASSUME NEW f \in Fetch, Step(f)  PROVE Inv'
    BY <1>1, BeginStep, StagingStep, LookStep, RemovalStep, AsideStep,
       InstallStep, RestoreStep, EndStep DEF Step
<1>2. CASE UNCHANGED vars
    <2>1. TypeOK'
        BY <1>2 DEF vars, history, Inv, TypeOK
    <2>2. ~overlapped' => Alone'
        BY <1>2 DEF vars, history, Inv, Alone, OneRuns, Kept, Had, Course
    <2>3. QED  BY <2>1, <2>2 DEF Inv
<1>3. QED  BY <1>1, <1>2 DEF Next

LEMMA Invariance == Spec => []Inv
BY InvInit, InvStep, PTL DEF Spec

\* Whatever the fetches do to each other, the destination, the copy beside it
\* and each staging directory hold a tree, the rest of one, or nothing (fetch).
THEOREM TypeCorrect == Spec => []TypeOK
<1>1. Inv => TypeOK
    BY DEF Inv
<1>2. QED  BY <1>1, Invariance, PTL

\* Fetches that take turns lose no corpus, whatever goes wrong (fetch).
THEOREM CorpusIsKept == Spec => []NeverLost
<1>1. Inv => NeverLost
    BY DEF Inv, Alone, Kept, NeverLost
<1>2. QED  BY <1>1, Invariance, PTL

\* Nor do they ever put half a tree at the destination (fetch).
THEOREM DestinationIsWhole == Spec => []NeverHalf
<1>1. Inv => NeverHalf
    BY DEF Inv, Alone, NeverHalf
<1>2. QED  BY <1>1, Invariance, PTL

\* A fetch that raises after at most one error has put back what was there:
\* only at the end of its `finally`, or before anything was staged, does a
\* fetch raise.
THEOREM FailurePutsBack == Spec => FailureRestores
<1> DEFINE Restores ==
        \A f \in Fetch :
            pc'[f] = "raised" /\ pc[f] # "raised" /\ ~overlapped /\ faults[f] <= 1
                => dest' = before[f]
<1>1. Inv /\ [Next]_vars => [Restores]_vars
    <2> SUFFICES ASSUME Inv, NEW g \in Fetch, Step(g), NEW f \in Fetch,
                        pc'[f] = "raised", pc[f] # "raised", ~overlapped,
                        faults[f] <= 1
                 PROVE  dest' = before[f]
        BY DEF Next
    <2>1. CASE MakeStaging(g)
        BY <2>1 DEF MakeStaging, Goto, Inv, TypeOK, Alone, Course
    <2>2. CASE CleanUp(g)
        BY <2>2 DEF CleanUp, Goto, Inv, TypeOK, Alone, Course
    <2>3. CASE Begin(g)
        BY <2>3 DEF Begin, Goto, Inv, TypeOK
    <2>4. CASE Download(g) \/ LookAt(g)
        BY <2>4 DEF Download, LookAt, Leave, Goto, Inv, TypeOK
    <2>5. CASE BeginRemoval(g) \/ EndRemoval(g)
        BY <2>5 DEF BeginRemoval, EndRemoval, Leave, Goto, Inv, TypeOK
    <2>6. CASE MoveAside(g) \/ Install(g) \/ Restore(g)
        BY <2>6 DEF MoveAside, Install, InstallFails, Restore, Leave, Goto, Inv, TypeOK
    <2>7. CASE Interrupt(g) \/ Kill(g)
        BY <2>7 DEF Interrupt, Kill, Leave, Goto, Inv, TypeOK
    <2>8. QED  BY <2>1, <2>2, <2>3, <2>4, <2>5, <2>6, <2>7 DEF Step
<1>2. QED  BY <1>1, Invariance, PTL DEF Spec, FailureRestores

-----------------------------------------------------------------------------
(* Fetches that overlap, with nothing going wrong but each other             *)

Started == {f \in Fetch : pc[f] # "idle"}

FewRace ==
    /\ \A f \in Fetch : faults[f] = 0
    /\ \A a, b, c, d \in Started :
          a = b \/ a = c \/ a = d \/ b = c \/ b = d \/ c = d

\* f has moved the destination aside and has put nothing there since.
Keeps(f) == f \in backup /\ pc[f] \in {"install", "restore"}

\* f has put its corpus where there was nothing to move aside.
Newcomer(f) ==
    /\ f \notin backup
    /\ pc[f] = "fetched" \/ (pc[f] = "cleanup" /\ outcome[f] = "fetched")

\* What a fetch does by itself.
OwnCourse(f) ==
    /\ pc[f] \in {"idle", "begin", "download"} \cup Swapping => outcome[f] = "fetched"
    /\ pc[f] \in {"idle", "begin", "download", "look"} => f \notin backup
    /\ pc[f] \in {"look", "remove", "removing", "aside", "install"}
           => staged[f] \in Release
    /\ pc[f] \in {"remove", "removing", "aside", "restore", "drop", "dropping"}
           => f \in backup

\* Two trees set aside, or one with another at the destination, take a newcomer
\* to have brought the second.  So a fetch that is to put its copy back where
\* there is nothing has two others beside it, one that is about to install and
\* the newcomer, and neither of them removes the copy.
Crossing(f) ==
    /\ Keeps(f) /\ dest # Nothing =>
           dest \in Release /\ \E n \in Fetch : Newcomer(n)
    /\ \A g \in Fetch \ {f} : Keeps(f) /\ Keeps(g) => \E n \in Fetch : Newcomer(n)
    /\ pc[f] = "restore" /\ dest = Nothing =>
           old \in Release /\ \E g \in Fetch : Keeps(g) /\ pc[g] = "install"

\* A corpus that was there, or somebody about to install one.
Replaced ==
    (\E f \in Fetch : Had(f)) =>
        dest \in Release \/ (dest = Nothing /\ \E g \in Fetch : pc[g] = "install")

Race == Replaced /\ \A f \in Fetch : OwnCourse(f) /\ Crossing(f)

RaceInv == IsFiniteSet(Started) /\ (FewRace => Race)

LEMMA RaceInit == Init => RaceInv
<1> SUFFICES ASSUME Init PROVE RaceInv
    OBVIOUS
<1>1. Started = {}
    BY DEF Init, Started
<1>2. Race
    BY DEF Init, Race, Replaced, Had, OwnCourse, Crossing, Keeps, Swapping
<1>3. QED  BY <1>1, <1>2, FS_EmptySet DEF RaceInv

\* A step is its own fetch's: the others stay where they are, and a newcomer
\* remains one.
LEMMA RaceFrame ==
    ASSUME TypeOK, NEW f \in Fetch, Step(f), OwnCourse(f)
    PROVE  /\ \A g \in Fetch \ {f} :
                 /\ pc'[g] = pc[g] /\ staged'[g] = staged[g]
                 /\ outcome'[g] = outcome[g] /\ (g \in backup' <=> g \in backup)
           /\ pc'[f] # "idle"
           /\ UNCHANGED faults => \A n \in Fetch : Newcomer(n) => Newcomer(n)'
<1>1. \A g \in Fetch \ {f} :
          /\ pc'[g] = pc[g] /\ staged'[g] = staged[g]
          /\ outcome'[g] = outcome[g] /\ (g \in backup' <=> g \in backup)
    <2>1. CASE Begin(f) \/ MakeStaging(f) \/ Download(f) \/ LookAt(f)
        BY <2>1 DEF Begin, MakeStaging, Download, LookAt, Leave, Goto, TypeOK
    <2>2. CASE BeginRemoval(f) \/ EndRemoval(f) \/ MoveAside(f) \/ Restore(f)
        BY <2>2 DEF BeginRemoval, EndRemoval, MoveAside, Restore, Leave, Goto, TypeOK
    <2>3. CASE Install(f) \/ CleanUp(f) \/ Interrupt(f) \/ Kill(f)
        BY <2>3 DEF Install, InstallFails, CleanUp, Interrupt, Kill, Leave, Goto, TypeOK
    <2>4. QED  BY <2>1, <2>2, <2>3 DEF Step
<1>2. pc'[f] # "idle"
    <2>1. CASE Begin(f) \/ MakeStaging(f) \/ Download(f) \/ LookAt(f)
        BY <2>1 DEF Begin, MakeStaging, Download, LookAt, Leave, Goto, TypeOK
    <2>2. CASE BeginRemoval(f) \/ EndRemoval(f) \/ MoveAside(f) \/ Restore(f)
        BY <2>2 DEF BeginRemoval, EndRemoval, MoveAside, Restore, Leave, Goto, TypeOK
    <2>3. CASE Install(f) \/ CleanUp(f) \/ Interrupt(f) \/ Kill(f)
        BY <2>3 DEF Install, InstallFails, CleanUp, Interrupt, Kill, Leave, Goto,
               TypeOK, Ended
    <2>4. QED  BY <2>1, <2>2, <2>3 DEF Step
<1>3. ASSUME UNCHANGED faults, Newcomer(f)  PROVE Newcomer(f)'
    <2>1. pc[f] \in {"fetched", "cleanup"} /\ f \notin backup
        BY <1>3 DEF Newcomer
    <2>2. ~Fault(f)
        BY <1>3 DEF Fault, TypeOK
    <2>3. CleanUp(f)
        BY <2>1, <2>2 DEF Step, Begin, MakeStaging, Download, LookAt, BeginRemoval,
               EndRemoval, MoveAside, Install, Restore, Interrupt, Kill
    <2>4. QED  BY <1>3, <2>3 DEF CleanUp, Goto, Newcomer, TypeOK
<1>4. QED  BY <1>1, <1>2, <1>3 DEF Newcomer

\* What a step without a fault must show, besides its own course: that the
\* crossing of its fetch is right, and what becomes of the two places.
LEMMA RaceStep ==
    ASSUME TypeOK, FewRace, Race, NEW f \in Fetch, Step(f), UNCHANGED faults,
           OwnCourse(f)', Crossing(f)', Replaced',
           \A g \in Fetch \ {f} : Crossing(g)'
    PROVE  Race'
<1>1. ASSUME NEW g \in Fetch \ {f}  PROVE OwnCourse(g)'
    BY <1>1, RaceFrame DEF Race, OwnCourse, Swapping
<1>2. QED  BY <1>1 DEF Race

\* A fetch without a fault keeps its own course.
LEMMA OwnStep ==
    ASSUME TypeOK, NEW f \in Fetch, Step(f), UNCHANGED faults, OwnCourse(f)
    PROVE  OwnCourse(f)'
<1>1. ~Fault(f)
    BY DEF Fault, TypeOK
<1>2. CASE Begin(f) \/ MakeStaging(f) \/ Download(f) \/ LookAt(f)
    BY <1>2 DEF Begin, MakeStaging, Download, LookAt, Leave, Goto, TypeOK, OwnCourse,
           Swapping
<1>3. CASE BeginRemoval(f) \/ EndRemoval(f) \/ MoveAside(f) \/ Restore(f)
    BY <1>1, <1>3 DEF BeginRemoval, EndRemoval, MoveAside, Restore, Leave, Goto,
           TypeOK, OwnCourse, Swapping
<1>4. CASE Install(f) \/ CleanUp(f)
    BY <1>1, <1>4 DEF Install, InstallFails, CleanUp, Leave, Goto, TypeOK, OwnCourse,
           Swapping, Ended
<1>5. QED  BY <1>1, <1>2, <1>3, <1>4 DEF Step, Interrupt, Kill

\* Nobody is about to remove or to replace the copy while somebody is about to
\* put it back where there is nothing: these would be four.
LEMMA NoCrowd ==
    ASSUME TypeOK, FewRace, Race, NEW f \in Fetch, NEW r \in Fetch,
           pc[f] \in {"remove", "removing", "aside", "drop", "dropping"},
           pc[r] = "restore", dest = Nothing
    PROVE  FALSE
<1>1. r \in backup /\ f \in backup
    BY DEF Race, OwnCourse
<1>2. PICK g \in Fetch : Keeps(g) /\ pc[g] = "install"
    BY DEF Race, Crossing
<1>3. PICK n \in Fetch : Newcomer(n)
    BY <1>1, <1>2 DEF Race, Crossing, Keeps
<1>4. /\ f # r /\ f # g /\ r # g
      /\ n # f /\ n # r /\ n # g
    BY <1>1, <1>2, <1>3 DEF Keeps, Newcomer
<1>5. {f, r, g, n} \subseteq Started
    BY <1>2, <1>3 DEF Started, Newcomer
<1>6. QED  BY <1>4, <1>5 DEF FewRace

\* A step that leaves the destination alone and neither sets aside nor comes to
\* put back or to install.
LEMMA QuietStep ==
    ASSUME TypeOK, FewRace, Race, NEW f \in Fetch, Step(f), UNCHANGED <<dest, faults>>,
           pc[f] # "install", ~Keeps(f)', pc'[f] # "restore",
           \/ UNCHANGED old
           \/ pc[f] \in {"remove", "removing", "drop", "dropping"},
           pc[f] = "idle" \/ UNCHANGED before
    PROVE  Race'
<1>1. /\ \A g \in Fetch \ {f} :
             /\ pc'[g] = pc[g] /\ (g \in backup' <=> g \in backup)
             /\ Keeps(g)' <=> Keeps(g)
      /\ \A n \in Fetch : Newcomer(n) => Newcomer(n)'
    BY RaceFrame DEF Race, Keeps
<1>2. OwnCourse(f)'
    BY OwnStep DEF Race
<1>3. Crossing(f)'
    BY DEF Crossing
<1>4. ASSUME NEW g \in Fetch \ {f}  PROVE Crossing(g)'
    <2>1. Crossing(g)
        BY DEF Race
    <2>2. pc[g] = "restore" /\ dest = Nothing => UNCHANGED old
        BY NoCrowd
    <2>3. \A h \in Fetch : Keeps(h) /\ pc[h] = "install"
                               => Keeps(h)' /\ pc'[h] = "install"
        BY <1>1
    <2>4. (Keeps(g) /\ dest # Nothing => dest \in Release /\ \E n \in Fetch : Newcomer(n))'
        BY <1>1, <2>1 DEF Crossing
    <2>5. (\A h \in Fetch \ {g} : Keeps(g) /\ Keeps(h) => \E n \in Fetch : Newcomer(n))'
        BY <1>1, <2>1 DEF Crossing
    <2>6. (pc[g] = "restore" /\ dest = Nothing =>
              old \in Release /\ \E h \in Fetch : Keeps(h) /\ pc[h] = "install")'
        BY <1>1, <2>1, <2>2, <2>3 DEF Crossing
    <2>7. QED  BY <2>4, <2>5, <2>6 DEF Crossing
<1>5. Replaced'
    <2>1. (\E g \in Fetch : Had(g))' => (\E g \in Fetch : Had(g)) \/ dest \in Release
        BY DEF Step, Begin, MakeStaging, Download, LookAt, BeginRemoval, EndRemoval,
               MoveAside, Install, Restore, CleanUp, Interrupt, Kill, history, Had, TypeOK
    <2>2. \A g \in Fetch : pc[g] = "install" => pc'[g] = "install"
        BY <1>1
    <2>3. QED  BY <2>1, <2>2 DEF Race, Replaced
<1>6. QED  BY <1>2, <1>3, <1>4, <1>5, RaceStep

\* A step that puts a corpus where there was none.
LEMMA PutStep ==
    ASSUME TypeOK, FewRace, Race, NEW f \in Fetch, Step(f), UNCHANGED faults,
           dest \notin Release, dest' \in Release, ~Keeps(f)', pc'[f] # "restore",
           Keeps(f) \/ Newcomer(f)'
    PROVE  Race'
<1>1. /\ \A g \in Fetch \ {f} :
             /\ pc'[g] = pc[g] /\ (g \in backup' <=> g \in backup)
             /\ Keeps(g)' <=> Keeps(g)
      /\ \A n \in Fetch : Newcomer(n) => Newcomer(n)'
    BY RaceFrame DEF Race, Keeps
<1>2. OwnCourse(f)'
    BY OwnStep DEF Race
<1>3. Crossing(f)'
    BY DEF Crossing
<1>4. ASSUME NEW g \in Fetch \ {f}  PROVE Crossing(g)'
    <2>1. Keeps(g) => \E n \in Fetch : Newcomer(n)'
        BY <1>1 DEF Race, Crossing
    <2>2. QED  BY <1>1, <2>1 DEF Crossing
<1>5. Replaced'
    BY DEF Replaced
<1>6. QED  BY <1>2, <1>3, <1>4, <1>5, RaceStep

LEMMA AsideRace ==
    ASSUME TypeOK, FewRace, Race, NEW f \in Fetch, MoveAside(f), UNCHANGED faults
    PROVE  Race'
<1>1. Step(f) /\ pc[f] = "aside" /\ UNCHANGED <<backup, before>>
    BY DEF Step, MoveAside, history
<1>2. ~Fault(f)
    BY DEF Fault, TypeOK
<1>3. CASE Leave(f, "raised") /\ UNCHANGED <<dest, old>>
    BY <1>1, <1>3, QuietStep DEF Leave, Goto, TypeOK, Keeps
<1>4. CASE dest # Nothing /\ old' = dest /\ dest' = Nothing /\ Goto(f, "install")
    <2>1. /\ \A g \in Fetch \ {f} : pc'[g] = pc[g] /\ (Keeps(g)' <=> Keeps(g))
          /\ \A n \in Fetch : Newcomer(n) => Newcomer(n)'
        BY <1>1, RaceFrame DEF Race, Keeps
    <2>2. pc'[f] = "install" /\ Keeps(f)'
        BY <1>1, <1>4 DEF Goto, Keeps, TypeOK, Race, OwnCourse
    <2>3. OwnCourse(f)'
        BY <1>1, OwnStep DEF Race
    <2>4. ASSUME NEW g \in Fetch \ {f}, Keeps(g)
          PROVE  dest \in Release /\ \E n \in Fetch : Newcomer(n)'
        BY <1>4, <2>1, <2>4 DEF Race, Crossing
    <2>5. Crossing(f)'
        BY <1>4, <2>1, <2>2, <2>4 DEF Crossing
    <2>6. ASSUME NEW g \in Fetch \ {f}  PROVE Crossing(g)'
        <3>1. pc[g] = "restore" => Keeps(g)
            BY DEF Race, OwnCourse, Keeps
        <3>2. QED  BY <1>4, <2>1, <2>2, <2>4, <3>1 DEF Crossing
    <2>7. Replaced'
        BY <1>4, <2>2 DEF Replaced
    <2>8. QED  BY <1>1, <2>3, <2>5, <2>6, <2>7, RaceStep
<1>5. QED  BY <1>2, <1>3, <1>4 DEF MoveAside

LEMMA InstallRace ==
    ASSUME TypeOK, FewRace, Race, NEW f \in Fetch, Install(f), UNCHANGED faults
    PROVE  Race'
<1>1. /\ Step(f) /\ pc[f] = "install" /\ UNCHANGED <<old, backup, before>>
      /\ staged[f] \in Release /\ outcome[f] = "fetched"
    BY DEF Step, Install, history, Race, OwnCourse, Swapping
<1>2. ~Fault(f)
    BY DEF Fault, TypeOK
<1>3. CASE /\ MayGiveWay(dest) /\ dest' = staged[f] /\ UNCHANGED outcome
           /\ Goto(f, IF f \in backup THEN "drop" ELSE "cleanup")
    BY <1>1, <1>3, PutStep DEF MayGiveWay, Goto, TypeOK, Keeps, Newcomer
<1>4. CASE dest # Nothing /\ InstallFails(f)
    <2>1. /\ \A g \in Fetch \ {f} : pc'[g] = pc[g] /\ (Keeps(g)' <=> Keeps(g))
          /\ \A n \in Fetch : Newcomer(n) => Newcomer(n)'
          /\ UNCHANGED dest
        BY <1>1, <1>4, RaceFrame DEF Race, Keeps, InstallFails
    <2>2. Keeps(f)' => Keeps(f)
        BY <1>1 DEF Keeps
    <2>3. ASSUME NEW g \in Fetch  PROVE Crossing(g)'
        <3>1. Keeps(g)' => Keeps(g)
            BY <2>1, <2>2
        <3>2. QED  BY <1>4, <2>1, <2>2, <3>1 DEF Race, Crossing
    <2>4. Replaced'
        BY <1>1, <1>4, <2>1 DEF Race, Replaced, Had
    <2>5. OwnCourse(f)'
        BY <1>1, OwnStep DEF Race
    <2>6. QED  BY <1>1, <2>3, <2>4, <2>5, RaceStep
<1>5. QED  BY <1>2, <1>3, <1>4 DEF Install

LEMMA RestoreRace ==
    ASSUME TypeOK, FewRace, Race, NEW f \in Fetch, Restore(f), UNCHANGED faults
    PROVE  Race'
<1>1. /\ Step(f) /\ pc[f] = "restore" /\ pc'[f] = "cleanup" /\ ~Keeps(f)'
      /\ UNCHANGED before /\ Keeps(f)
    BY DEF Step, Restore, history, Leave, Goto, TypeOK, Keeps, Race, OwnCourse
<1>2. CASE UNCHANGED <<dest, old>>
    BY <1>1, <1>2, QuietStep
<1>3. CASE MayGiveWay(dest) /\ dest' = old
    BY <1>1, <1>3, PutStep DEF MayGiveWay, Race, Crossing
<1>4. QED  BY <1>2, <1>3 DEF Restore

LEMMA RaceNext ==
    ASSUME TypeOK, RaceInv, [Next]_vars
    PROVE  RaceInv'
<1>1. CASE UNCHANGED vars
    BY <1>1 DEF vars, history, RaceInv, Started, FewRace, Race, Replaced, Had,
           OwnCourse, Crossing, Keeps, Newcomer
<1>2. ASSUME NEW f \in Fetch, Step(f)  PROVE RaceInv'
    <2>1. /\ \A g \in Fetch \ {f} : pc'[g] = pc[g]
          /\ pc[f] # "idle" => pc'[f] # "idle"
        BY <1>2 DEF Step, Begin, MakeStaging, Download, LookAt, BeginRemoval,
               EndRemoval, MoveAside, Install, InstallFails, Restore, CleanUp,
               Interrupt, Kill, Leave, Goto, TypeOK, Ended
    <2>2. Started \subseteq Started' /\ Started' \subseteq Started \cup {f}
        BY <2>1 DEF Started
    <2>3. IsFiniteSet(Started')
        BY <2>2, FS_AddElement, FS_Subset DEF RaceInv
    <2>4. ASSUME FewRace'  PROVE Race'
        <3>1. ~Fault(f) /\ UNCHANGED faults
            <4>1. ~Fault(f)
                BY <2>4 DEF Fault, TypeOK, FewRace
            <4>2. QED  BY <1>2, <4>1 DEF Step, Begin, MakeStaging, Download, LookAt,
                          BeginRemoval, EndRemoval, MoveAside, Install, Restore,
                          CleanUp, Interrupt, Kill
        <3>2. FewRace /\ Race
            BY <2>2, <2>4, <3>1 DEF FewRace, RaceInv
        <3>3. CASE Begin(f) \/ MakeStaging(f) \/ Download(f) \/ LookAt(f)
            <4>1. /\ UNCHANGED <<dest, old>> /\ pc[f] # "install"
                  /\ ~Keeps(f)' /\ pc'[f] # "restore"
                  /\ pc[f] = "idle" \/ UNCHANGED before
                BY <3>2, <3>3 DEF Begin, MakeStaging, Download, LookAt, Leave, Goto,
                       TypeOK, Keeps, history, Race, OwnCourse
            <4>2. QED  BY <1>2, <3>1, <3>2, <4>1, QuietStep
        <3>4. CASE BeginRemoval(f) \/ EndRemoval(f) \/ CleanUp(f)
            <4>1. /\ UNCHANGED <<dest, before>> /\ pc[f] # "install"
                  /\ ~Keeps(f)' /\ pc'[f] # "restore"
                  /\ \/ UNCHANGED old
                     \/ pc[f] \in {"remove", "removing", "drop", "dropping"}
                BY <3>4 DEF BeginRemoval, EndRemoval, CleanUp, Leave, Goto,
                       TypeOK, Keeps, history, Ended
            <4>2. QED  BY <1>2, <3>1, <3>2, <4>1, QuietStep
        <3>5. CASE MoveAside(f) \/ Install(f) \/ Restore(f)
            BY <3>1, <3>2, <3>5, AsideRace, InstallRace, RestoreRace
        <3>6. QED  BY <1>2, <3>1, <3>3, <3>4, <3>5 DEF Step, Interrupt, Kill
    <2>5. QED  BY <2>3, <2>4 DEF RaceInv
<1>3. QED  BY <1>1, <1>2 DEF Next

\* Four different fetches are more than three.
LEMMA AtMostThree ==
    ASSUME IsFiniteSet(Started), Cardinality(Started) <= 3,
           NEW a \in Started, NEW b \in Started, NEW c \in Started, NEW d \in Started
    PROVE  a = b \/ a = c \/ a = d \/ b = c \/ b = d \/ c = d
<1> SUFFICES ASSUME a # b, a # c, a # d, b # c, b # d, c # d  PROVE FALSE
    OBVIOUS
<1>1. IsFiniteSet({a}) /\ Cardinality({a}) = 1 /\ b \notin {a}
    BY FS_Singleton
<1>2. IsFiniteSet({a} \cup {b}) /\ Cardinality({a} \cup {b}) = 1 + 1
    BY <1>1, FS_AddElement
<1>3. c \notin {a} \cup {b} /\ d \notin {a} \cup {b} \cup {c}
    OBVIOUS
<1>4. /\ IsFiniteSet({a} \cup {b} \cup {c})
      /\ Cardinality({a} \cup {b} \cup {c}) = 1 + 1 + 1
    BY <1>2, <1>3, FS_AddElement
<1>5. Cardinality({a} \cup {b} \cup {c} \cup {d}) = 1 + 1 + 1 + 1
    BY <1>3, <1>4, FS_AddElement
<1>6. Cardinality({a} \cup {b} \cup {c} \cup {d}) <= Cardinality(Started)
    <2>1. {a} \cup {b} \cup {c} \cup {d} \subseteq Started
        OBVIOUS
    <2>2. QED  BY <2>1, FS_Subset
<1>7. Cardinality(Started) \in Nat
    BY FS_CardinalityType
<1>8. QED  BY <1>5, <1>6, <1>7

\* Up to three fetches that run at once and meet nothing but each other leave a
\* corpus where there was one (fetch).
THEOREM RacersLeaveACorpus == Spec => []RaceEndsWell
<1>1. TypeOK /\ RaceInv => RaceEndsWell
    <2> SUFFICES ASSUME TypeOK, RaceInv, \E f \in Fetch : Had(f),
                        Cardinality(Started) <= 3,
                        \A f \in Fetch : faults[f] = 0 /\ pc[f] \in {"idle"} \cup Ended
                 PROVE  dest \in Release
        BY DEF RaceEndsWell, Started
    <2>1. FewRace
        BY AtMostThree DEF FewRace, RaceInv
    <2>2. QED  BY <2>1 DEF RaceInv, Race, Replaced, Ended
<1>2. Inv => TypeOK
    BY DEF Inv
<1>3. TypeOK /\ RaceInv /\ [Next]_vars => RaceInv'
    BY RaceNext
<1>4. QED  BY <1>1, <1>2, <1>3, RaceInit, Invariance, PTL DEF Spec

=============================================================================

----------------------------- MODULE CorpusFetch -----------------------------
(***************************************************************************)
(* `cl-ai fetch` (catalog/fetch.py): fetches, one process each, that stage *)
(* a corpus beside the destination and swap it in, with the old corpus set *)
(* aside under one name that all of them use.  What goes wrong on the way  *)
(* is a fault: an operation of the file system that fails, a Ctrl-C, a     *)
(* kill.  Faults of the download fall before the swap and cost nothing.    *)
(*                                                                         *)
(* A directory is known by what is in it.                                  *)
(***************************************************************************)
EXTENDS Naturals, FiniteSets

CONSTANTS
    Fetch,      \* the fetches; each is done once
    Release,    \* corpora with English pages
    Other,      \* a directory that is no corpus
    Rest,       \* what there is of a tree half removed or half written
    Nothing,    \* no directory
    MaxFaults   \* at most so many faults in one fetch

Tree == Release \cup {Other, Rest}
Place == Tree \cup {Nothing}

ASSUME TreeAssumption ==
    /\ {Other, Rest, Nothing} \cap Release = {}
    /\ Other # Rest /\ Other # Nothing /\ Rest # Nothing
ASSUME FaultAssumption == MaxFaults \in Nat

VARIABLES
    dest,       \* the destination
    old,        \* destination.name + ".old", beside it
    staged,     \* staged[f]: the tree that f has downloaded
    pc,         \* pc[f]: where f is
    backup,     \* the fetches whose backup is not None
    outcome,    \* outcome[f]: how f will end
    faults,     \* faults[f]: how many faults f has had (history)
    before,     \* before[f]: the destination when f began (history)
    overlapped  \* two fetches have run at the same time (history)

history == <<before, overlapped>>
vars == <<dest, old, staged, pc, backup, outcome, faults, history>>

Ended == {"fetched", "refused", "raised", "interrupted", "killed"}
Swapping == {"look", "remove", "removing", "aside", "install", "restore",
             "drop", "dropping"}
Running == {"begin", "download"} \cup Swapping \cup {"cleanup"}

TypeOK ==
    /\ dest \in Place
    /\ old \in Place
    /\ staged \in [Fetch -> Place]
    /\ pc \in [Fetch -> {"idle"} \cup Running \cup Ended]
    /\ backup \subseteq Fetch
    /\ outcome \in [Fetch -> Ended]
    /\ faults \in [Fetch -> 0 .. MaxFaults]
    /\ before \in [Fetch -> Place]
    /\ overlapped \in BOOLEAN

Init ==
    /\ dest \in {Nothing, Other} \cup Release
    /\ old = Nothing
    /\ staged = [f \in Fetch |-> Nothing]
    /\ pc = [f \in Fetch |-> "idle"]
    /\ backup = {}
    /\ outcome = [f \in Fetch |-> "fetched"]
    /\ faults = [f \in Fetch |-> 0]
    /\ before = [f \in Fetch |-> dest]
    /\ overlapped = FALSE

\* A rename succeeds onto nothing and, on POSIX, onto an empty directory; what
\* is no corpus, or what is left of one, may be empty.
MayGiveWay(place) == place \notin Release

Goto(f, label) == pc' = [pc EXCEPT ![f] = label]

\* f goes on to its `finally`, and then ends in such a way.
Leave(f, how) ==
    /\ Goto(f, "cleanup")
    /\ outcome' = [outcome EXCEPT ![f] = how]

Fault(f) ==
    /\ faults[f] < MaxFaults
    /\ faults' = [faults EXCEPT ![f] = @ + 1]

-----------------------------------------------------------------------------
(* Staging *)

\* Nothing is begun at a corpus that is there, without force.
Begin(f) ==
    /\ pc[f] = "idle"
    /\ \E force \in BOOLEAN :
          Goto(f, IF dest \in Release /\ ~force THEN "refused" ELSE "begin")
    /\ before' = [before EXCEPT ![f] = dest]
    /\ overlapped' = (overlapped \/ \E g \in Fetch : pc[g] \in Running)
    /\ UNCHANGED <<dest, old, staged, backup, outcome, faults>>

\* mkdtemp beside the destination, or no such directory can be made.
MakeStaging(f) ==
    /\ pc[f] = "begin"
    /\ \/ /\ staged' = [staged EXCEPT ![f] = Rest]
          /\ Goto(f, "download")
       \/ /\ Goto(f, "raised")
          /\ UNCHANGED staged
    /\ UNCHANGED <<dest, old, backup, outcome, faults, history>>

\* A download and all the reasons to refuse it: too large, no zip archive, an
\* unsafe path, no pages.
Download(f) ==
    /\ pc[f] = "download"
    /\ \/ /\ \E r \in Release : staged' = [staged EXCEPT ![f] = r]
          /\ Goto(f, "look")
          /\ UNCHANGED outcome
       \/ /\ Leave(f, "raised")
          /\ UNCHANGED staged
    /\ UNCHANGED <<dest, old, backup, faults, history>>

-----------------------------------------------------------------------------
(* The swap *)

\* destination.exists()
LookAt(f) ==
    /\ pc[f] = "look"
    /\ IF dest # Nothing
       THEN backup' = backup \cup {f} /\ Goto(f, "remove")
       ELSE Goto(f, "install") /\ UNCHANGED backup
    /\ UNCHANGED <<dest, old, staged, outcome, faults, history>>

\* rmtree(backup) sets out, before the swap and after it.
BeginRemoval(f) ==
    /\ \/ pc[f] = "remove" /\ Goto(f, "removing")
       \/ pc[f] = "drop" /\ Goto(f, "dropping")
    /\ old' = IF old = Nothing THEN Nothing ELSE Rest
    /\ UNCHANGED <<dest, staged, backup, outcome, faults, history>>

\* It is through.  Errors are ignored: a tree that came in between is removed,
\* or not, or in part.
EndRemoval(f) ==
    /\ \/ /\ old' \in IF old \in {Nothing, Rest} THEN {Nothing}
                      ELSE {Nothing, Rest, old}
          /\ UNCHANGED faults
       \/ /\ Fault(f)
          /\ UNCHANGED old
    /\ \/ pc[f] = "removing" /\ Goto(f, "aside") /\ UNCHANGED outcome
       \/ pc[f] = "dropping" /\ Leave(f, "fetched")
    /\ UNCHANGED <<dest, staged, backup, history>>

\* Mutant: the old corpus is removed, not moved aside.
RemoveOld(f) ==
    /\ pc[f] = "aside"
    /\ dest' = Nothing
    /\ Goto(f, "install")
    /\ UNCHANGED <<old, staged, backup, outcome, faults, history>>

\* os.replace(destination, backup)
MoveAside(f) ==
    /\ pc[f] = "aside"
    /\ \/ /\ dest # Nothing /\ MayGiveWay(old)
          /\ old' = dest
          /\ dest' = Nothing
          /\ Goto(f, "install")
          /\ UNCHANGED <<outcome, faults>>
       \/ /\ dest = Nothing \/ old # Nothing
          /\ Leave(f, "raised")
          /\ UNCHANGED <<dest, old, faults>>
       \/ /\ Fault(f)
          /\ Leave(f, "raised")
          /\ UNCHANGED <<dest, old>>
    /\ UNCHANGED <<staged, backup, history>>

\* Mutant: nothing is put back.
GiveUp(f) ==
    /\ Leave(f, "raised")
    /\ UNCHANGED <<dest, staged>>

\* What an OSError of the second os.replace leads to.
InstallFails(f) ==
    /\ IF f \in backup
       THEN Goto(f, "restore") /\ UNCHANGED outcome
       ELSE Leave(f, "raised")
    /\ UNCHANGED <<dest, staged>>

\* Mutant: the tree is copied, which may fail half-way.
InstallByCopy(f) ==
    /\ pc[f] = "install"
    /\ \/ /\ dest = Nothing
          /\ dest' = staged[f]
          /\ Goto(f, IF f \in backup THEN "drop" ELSE "cleanup")
          /\ UNCHANGED <<staged, outcome, faults>>
       \/ /\ Fault(f)
          /\ dest' = Rest
          /\ Leave(f, "raised")
          /\ UNCHANGED staged
    /\ UNCHANGED <<old, backup, history>>

\* Mutant: shutil.move, which moves a tree into one that is there.
InstallByMove(f) ==
    /\ pc[f] = "install"
    /\ dest' = IF dest = Nothing THEN staged[f] ELSE {dest, staged[f]}
    /\ staged' = [staged EXCEPT ![f] = Rest]
    /\ Goto(f, IF f \in backup THEN "drop" ELSE "cleanup")
    /\ UNCHANGED <<old, backup, outcome, faults, history>>

\* os.replace(root, destination)
Install(f) ==
    /\ pc[f] = "install"
    /\ \/ /\ MayGiveWay(dest)
          /\ dest' = staged[f]
          /\ staged' = [staged EXCEPT ![f] = Rest]
          /\ Goto(f, IF f \in backup THEN "drop" ELSE "cleanup")
          /\ UNCHANGED <<outcome, faults>>
       \/ dest # Nothing /\ InstallFails(f) /\ UNCHANGED faults
       \/ Fault(f) /\ InstallFails(f)
    /\ UNCHANGED <<old, backup, history>>

\* Mutant: the destination is cleared for what is put back.
RestoreByForce(f) ==
    /\ pc[f] = "restore"
    /\ dest' = old
    /\ old' = Nothing
    /\ Leave(f, "raised")
    /\ UNCHANGED <<staged, backup, faults, history>>

\* os.replace(backup, destination), and the error is raised, or the next one.
Restore(f) ==
    /\ pc[f] = "restore"
    /\ \/ /\ MayGiveWay(dest) /\ old # Nothing
          /\ dest' = old
          /\ old' = Nothing
          /\ UNCHANGED faults
       \/ /\ dest # Nothing \/ old = Nothing
          /\ UNCHANGED <<dest, old, faults>>
       \/ /\ Fault(f)
          /\ UNCHANGED <<dest, old>>
    /\ Leave(f, "raised")
    /\ UNCHANGED <<staged, backup, history>>

-----------------------------------------------------------------------------
(* The end *)

\* rmtree(staging)
CleanUp(f) ==
    /\ pc[f] = "cleanup"
    /\ staged' = [staged EXCEPT ![f] = Nothing]
    /\ Goto(f, outcome[f])
    /\ UNCHANGED <<dest, old, backup, outcome, faults, history>>

\* Ctrl-C: no OSError, so nothing but `finally` runs.
Interrupt(f) ==
    /\ pc[f] \in {"download"} \cup Swapping
    /\ Fault(f)
    /\ Leave(f, "interrupted")
    /\ UNCHANGED <<dest, old, staged, backup, history>>

\* The process is killed.
Kill(f) ==
    /\ pc[f] \in Running
    /\ Fault(f)
    /\ Goto(f, "killed")
    /\ UNCHANGED <<dest, old, staged, backup, outcome, history>>

Step(f) ==
    \/ Begin(f) \/ MakeStaging(f) \/ Download(f)
    \/ LookAt(f) \/ BeginRemoval(f) \/ EndRemoval(f)
    \/ MoveAside(f) \/ Install(f) \/ Restore(f)
    \/ CleanUp(f) \/ Interrupt(f) \/ Kill(f)

Next == \E f \in Fetch : Step(f)

Spec == Init /\ [][Next]_vars

-----------------------------------------------------------------------------
\* A corpus that is there when a fetch begins.
Had(f) == before[f] \in Release

\* Whatever goes wrong, a fetch that runs alone loses no corpus: there is a
\* whole one at the destination or beside it.
NeverLost ==
    (\E f \in Fetch : Had(f)) /\ ~overlapped => dest \in Release \/ old \in Release

\* Up to three fetches that run at once, and into nothing but each other, leave
\* a corpus where there was one.  Four may not: they share the name of the copy
\* they set aside, and one may put back what another has begun to remove.
RaceEndsWell ==
    /\ \E f \in Fetch : Had(f)
    /\ Cardinality({f \in Fetch : pc[f] # "idle"}) <= 3
    /\ \A f \in Fetch : faults[f] = 0 /\ pc[f] \in {"idle"} \cup Ended
    => dest \in Release

\* The destination never holds "a half-extracted mixture of two releases",
\* whatever goes wrong with a fetch that runs alone.
NeverHalf == ~overlapped => dest # Rest

\* "Ordered so that a failure never leaves nothing there": a fetch that runs
\* alone and raises after one error leaves the destination as it was.
FailureRestores ==
    [][\A f \in Fetch :
          pc'[f] = "raised" /\ pc[f] # "raised" /\ ~overlapped /\ faults[f] <= 1
              => dest' = before[f]]_vars

=============================================================================

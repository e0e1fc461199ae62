---------------------------- MODULE CatalogStore ----------------------------
(***************************************************************************)
(* The catalog file and the processes that share it: `cl-ai index`, the    *)
(* engine of `cl-ai suggest` (cli.py, _Engine.build) and the daemon's      *)
(* warm-up, which all build through catalog/build.py and save and load     *)
(* through catalog/store.py, while commands come and go on PATH and        *)
(* sources of the catalog come and go on disk.                             *)
(*                                                                         *)
(* A catalog is known by what it was made from: the commands asked for and *)
(* the sources that answered.  It has tools iff a source answered.         *)
(***************************************************************************)
EXTENDS FiniteSets

CONSTANTS
    Proc,      \* the processes; each does one job
    Path,      \* what discover() may find on PATH
    All,       \* "every command the sources know" (index --all)
    Tier,      \* the sources of default_sources()
    SourcesRaise, \* a source may raise when it is asked
    Absent,    \* no file
    Torn       \* a file that has not been written to its end

Key == [entries : Path, extra : SUBSET Tier]
Catalog == [key : Key, of : Path \cup {All}, used : SUBSET Tier]

ASSUME PathAssumption == All \notin Path
ASSUME RaiseAssumption == SourcesRaise \in BOOLEAN
ASSUME FileAssumption ==
    Absent \notin Catalog /\ Torn \notin Catalog /\ Absent # Torn

VARIABLES
    path,      \* what is on PATH now
    tiers,     \* the sources that are available now
    file,      \* catalog.json
    tmp,       \* the temporary files beside it, by the process that made them
    pc,        \* pc[p]: where process p is
    entries,   \* entries[p]: what discover() found for p
    draft,     \* draft[p]: the catalog p has built, or loaded
    loaded,    \* the processes that use the file's catalog
    fresh      \* fresh[p]: the sources available when p looked (history)

world == <<path, tiers>>
mine == <<entries, draft, loaded, fresh>>
vars == <<path, tiers, file, tmp, pc, entries, draft, loaded, fresh>>

States == {"idle", "load", "harvest", "harvest all", "save", "write",
           "replace", "done", "failed", "littered", "crashed"}

TypeOK ==
    /\ path \in Path
    /\ tiers \subseteq Tier
    /\ file \in Catalog \cup {Absent, Torn}
    /\ tmp \in [Proc -> Catalog \cup {Absent, Torn}]
    /\ pc \in [Proc -> States]
    /\ entries \in [Proc -> Path]
    /\ draft \in [Proc -> Catalog \cup {Absent}]
    /\ loaded \subseteq Proc
    /\ fresh \in [Proc -> SUBSET Tier]

\* Mutant: the key is over the commands alone.
KeyOfCommands(e, used) == [entries |-> e, extra |-> {}]

\* cache_key(entries, extra="+".join(used))
CacheKey(e, used) == [entries |-> e, extra |-> used]

\* is_valid_for, for the key _Engine.build asks with.
ValidFor(f, e) ==
    /\ f \notin {Absent, Torn}
    /\ f.key = [entries |-> e, extra |-> {}]

\* The commands that a catalog suggests: none without a source.
Tools(c) == IF c.used = {} THEN {} ELSE {c.of}

\* Mutant: every save goes through the same temporary file.
OneName(p) == CHOOSE q \in Proc : TRUE

\* mkstemp: a name of the process's own.
TempName(p) == p

Goto(p, label) == pc' = [pc EXCEPT ![p] = label]

Init ==
    /\ path \in Path
    /\ tiers \in SUBSET Tier
    /\ file = Absent
    /\ tmp = [p \in Proc |-> Absent]
    /\ pc = [p \in Proc |-> "idle"]
    /\ entries = [p \in Proc |-> path]
    /\ draft = [p \in Proc |-> Absent]
    /\ loaded = {}
    /\ fresh = [p \in Proc |-> {}]

-----------------------------------------------------------------------------
(* The machine *)

\* Commands are installed and removed.
PathChanges ==
    /\ path' \in Path \ {path}
    /\ UNCHANGED <<tiers, file, tmp, pc, mine>>

\* A corpus is fetched, or removed.
TiersChange ==
    /\ tiers' \in (SUBSET Tier) \ {tiers}
    /\ UNCHANGED <<path, file, tmp, pc, mine>>

\* "A cache is data the user may delete freely" (default_path).
FileDeleted ==
    /\ file # Absent
    /\ file' = Absent
    /\ UNCHANGED <<world, tmp, pc, mine>>

-----------------------------------------------------------------------------
(* The jobs *)

\* discover(), and on: to the file (suggest), or straight to a build of the
\* commands found (index, the daemon, suggest --rebuild) or of every command.
Begin(p) ==
    /\ pc[p] = "idle"
    /\ entries' = [entries EXCEPT ![p] = path]
    /\ \E job \in {"load", "harvest", "harvest all"} : Goto(p, job)
    /\ UNCHANGED <<world, file, tmp, draft, loaded, fresh>>

\* load(), and is_valid_for.
Load(p) ==
    /\ pc[p] = "load"
    /\ fresh' = [fresh EXCEPT ![p] = tiers]
    /\ IF ValidFor(file, entries[p])
       THEN /\ draft' = [draft EXCEPT ![p] = file]
            /\ loaded' = loaded \cup {p}
            /\ Goto(p, "done")
       ELSE /\ Goto(p, "harvest")
            /\ UNCHANGED <<draft, loaded>>
    /\ UNCHANGED <<world, file, tmp, entries>>

\* Mutant: the key is over the commands that were asked for.
HarvestKeyedByRequest(p) ==
    /\ pc[p] \in {"harvest", "harvest all"}
    /\ \E of \in {IF pc[p] = "harvest" THEN entries[p] ELSE All} :
          draft' = [draft EXCEPT ![p] =
              [key |-> CacheKey(of, tiers), of |-> of, used |-> tiers]]
    /\ Goto(p, "save")
    /\ UNCHANGED <<world, file, tmp, entries, loaded, fresh>>

\* build(): a source that raises is skipped like one that is not there.
Harvest(p) ==
    /\ pc[p] \in {"harvest", "harvest all"}
    /\ \E used \in IF SourcesRaise THEN SUBSET tiers ELSE {tiers} :
          draft' = [draft EXCEPT ![p] =
              [key |-> CacheKey(entries[p], used),
               of |-> IF pc[p] = "harvest" THEN entries[p] ELSE All,
               used |-> used]]
    /\ Goto(p, "save")
    /\ UNCHANGED <<world, file, tmp, entries, loaded, fresh>>

\* save(): mkstemp in the file's own directory ...
MakeTemp(p) ==
    /\ pc[p] = "save"
    /\ tmp' = [tmp EXCEPT ![TempName(p)] = Torn]
    /\ Goto(p, "write")
    /\ UNCHANGED <<world, file, mine>>

\* ... write, flush, fsync ...
Write(p) ==
    /\ pc[p] = "write"
    /\ tmp' = [tmp EXCEPT ![TempName(p)] = draft[p]]
    /\ Goto(p, "replace")
    /\ UNCHANGED <<world, file, mine>>

\* ... os.replace.
Replace(p) ==
    /\ pc[p] = "replace"
    /\ file' = tmp[TempName(p)]
    /\ tmp' = [tmp EXCEPT ![TempName(p)] = Absent]
    /\ Goto(p, "done")
    /\ UNCHANGED <<world, mine>>

\* Mutant: only what goes wrong before the rename is cleaned up after.
RaiseWithTemp(p) ==
    /\ pc[p] \in {"save", "write", "replace"}
    /\ tmp' = IF pc[p] = "replace" THEN tmp
              ELSE [tmp EXCEPT ![TempName(p)] = Absent]
    /\ Goto(p, "failed")
    /\ UNCHANGED <<world, file, mine>>

\* The directory cannot be written, the disk is full, or Ctrl-C: save cleans
\* up and raises, and with it build().
SaveRaises(p) ==
    /\ pc[p] \in {"save", "write", "replace"}
    /\ tmp' = [tmp EXCEPT ![TempName(p)] = Absent]
    /\ Goto(p, "failed")
    /\ UNCHANGED <<world, file, mine>>

\* The error of an unlink that fails too is suppressed: the file stays.
CleanupFails(p) ==
    /\ pc[p] \in {"write", "replace"}
    /\ Goto(p, "littered")
    /\ UNCHANGED <<world, file, tmp, mine>>

\* The process is killed.
Crash(p) ==
    /\ pc[p] \notin {"idle", "done", "failed", "littered", "crashed"}
    /\ Goto(p, "crashed")
    /\ UNCHANGED <<world, file, tmp, mine>>

Step(p) ==
    \/ Begin(p) \/ Load(p) \/ Harvest(p)
    \/ MakeTemp(p) \/ Write(p) \/ Replace(p)
    \/ SaveRaises(p) \/ CleanupFails(p) \/ Crash(p)

Next ==
    \/ PathChanges \/ TiersChange \/ FileDeleted
    \/ \E p \in Proc : Step(p)

Spec == Init /\ [][Next]_vars

-----------------------------------------------------------------------------
\* "A reader never observes a half-written catalog" (save), whoever saves at
\* the same time and wherever a save is cut short: the file is, to the end, the
\* catalog of one process that has finished its save.
FileIsWhole ==
    file # Absent =>
        \E p \in Proc \ loaded : pc[p] = "done" /\ file = draft[p]

\* "An interrupted save must not leave a stray .tmp file" (save): what remains
\* beside the catalog is of saves under way, of killed processes, and of those
\* whose unlink failed as well.
NoLitter ==
    \A p \in Proc : tmp[p] # Absent =>
        pc[p] \in {"write", "replace", "littered", "crashed"}

\* "A stale one would suggest tools that are gone" (_Engine.build): the tools
\* of a catalog that is reused are those of the commands on PATH, although
\* `index --all` saves one of every command under the key of those on PATH.
NothingGoneSuggested ==
    \A p \in loaded : Tools(draft[p]) \subseteq {entries[p]}

\* "A key over everything that should invalidate a built catalog", "the tier
\* set" with it (cache_key): a catalog is reused only if it was made from the
\* sources that are there.
ReusedIsOfTheseTiers == \A p \in loaded : draft[p].used = fresh[p]

=============================================================================

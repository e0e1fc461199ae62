------------------------------ MODULE Discovery ------------------------------
(***************************************************************************)
(* One scan of PATH (catalog/discovery.py): the entries in order, each     *)
(* directory's listing taken at once and its files then examined one by    *)
(* one, while installers may change the directories.                       *)
(***************************************************************************)
EXTENDS Naturals, Sequences, FiniteSets

CONSTANTS
    Dirs,        \* the directories PATH entries may stand for
    DirState,    \* Dirs -> {"dir", "missing", "file", "unreadable"}
    DirOf,       \* PATH entry -> the directory it spells, or "empty"
    Paths,       \* the values of PATH, sequences of entries
    Files,       \* file names in sorted order: [file, stem, ext], ext the place
                 \* of the suffix in PATHEXT, 0 if it is not there
    Lower,       \* a name in lower case
    Trees,       \* the initial contents: Dirs -> [DOMAIN Files -> Kinds]
    Platforms,   \* subset of BOOLEAN: may the machine run Windows?
    Builtins,    \* the names of the shell's builtin family
    MaxEntries,  \* max_entries
    MaxChanges   \* bound: how often a file changes during the scan

\* A hollow file runs nothing: it has no execute bit, or it is an App
\* Execution Alias.
Kinds == {"absent", "program", "hollow", "dir"}

ASSUME DiscoveryAssumption ==
    /\ "empty" \notin Dirs
    /\ DOMAIN Files \subseteq Nat
    /\ Paths \subseteq Seq(DOMAIN DirOf)
    /\ \A entry \in DOMAIN DirOf : DirOf[entry] \in Dirs \cup {"empty"}
    /\ DirState \in [Dirs -> {"dir", "missing", "file", "unreadable"}]
    /\ Trees \subseteq [Dirs -> [DOMAIN Files -> Kinds]]
    /\ Platforms \subseteq BOOLEAN
    /\ MaxEntries \in Nat /\ MaxChanges \in Nat

\* A name is listed once.
ASSUME NamesAssumption ==
    \A f, g \in DOMAIN Files : Files[f].file = Files[g].file => f = g

VARIABLES
    windows,    \* os.name == "nt"
    path,       \* $PATH
    tree,       \* what is on disk
    scanned,    \* PATH entries done
    seen,       \* directories met so far
    listing,    \* what is left of the current listing: tuples <<dir, file, kind>>
    winners,    \* key -> [name, kind, at]
    shadowed,   \* key -> later matches
    skipped,    \* the reasons given, one per skipped entry
    truncated,  \* max_entries was reached
    scanning,   \* discover() has not returned
    inventory,  \* the entries it returned
    touched,    \* keys whose files changed during the scan
    changes

diskVars == <<windows, path, tree, touched, changes>>
scanVars == <<scanned, seen, listing, winners, shadowed, skipped, truncated>>

Init ==
    /\ windows \in Platforms
    /\ path \in Paths
    /\ tree \in Trees
    /\ scanned = 0
    /\ seen = {}
    /\ listing = {}
    /\ winners = <<>>
    /\ shadowed = <<>>
    /\ skipped = <<>>
    /\ truncated = FALSE
    /\ inventory = {}
    /\ scanning = TRUE
    /\ touched = {}
    /\ changes = 0

-----------------------------------------------------------------------------
\* _fold: Windows looks commands up without regard to case.
Fold(name) == IF windows THEN Lower[name] ELSE name

\* _invocable_name: what a user would type for a file, if anything.
Invocable(f) == windows => Files[f].ext /= 0
NameOf(f) == IF windows THEN Files[f].stem ELSE Files[f].file

\* A file the scan takes for a command: on POSIX the execute bit decides.
Runs(kind) == kind = "program" \/ (windows /\ kind \in {"hollow", "absent"})

Skip(reason) ==
    /\ skipped' = Append(skipped, reason)
    /\ UNCHANGED <<listing, winners, shadowed, truncated>>

\* scandir(), sorted: the files are examined by ascending number.
Listing(d) == {<<d, f, tree[d][f]>> : f \in {g \in DOMAIN Files : tree[d][g] /= "absent"}}

\* Mutant: forget that a directory was scanned already.
ScanAgain ==
    /\ scanning /\ listing = {} /\ scanned < Len(path)
    /\ LET d == DirOf[path[scanned + 1]]
       IN /\ IF d /= "empty" /\ DirState[d] = "dir" /\ ~truncated
             THEN /\ listing' = Listing(d)
                  /\ UNCHANGED <<winners, shadowed, skipped, truncated>>
             ELSE Skip("other")
          /\ seen' = seen \cup {d}
    /\ scanned' = scanned + 1
    /\ UNCHANGED <<scanning, inventory, diskVars>>

\* Why an entry is skipped, or "none": iter_path_dirs's tests, then discover's.
Reason(d) ==
    IF d = "empty" THEN "empty_path_entry"
    ELSE IF d \in seen THEN "duplicate"
    ELSE IF DirState[d] = "missing" THEN "missing"
    ELSE IF DirState[d] = "file" THEN "not_a_directory"
    ELSE IF truncated THEN "budget_exhausted"
    ELSE IF DirState[d] = "unreadable" THEN "unreadable" ELSE "none"

\* iter_path_dirs yields the next entry and discover() skips or lists it.
NextEntry ==
    /\ scanning /\ listing = {} /\ scanned < Len(path)
    /\ LET d == DirOf[path[scanned + 1]]
       IN /\ IF Reason(d) /= "none" THEN Skip(Reason(d))
             ELSE /\ listing' = Listing(d)
                  /\ UNCHANGED <<winners, shadowed, skipped, truncated>>
          /\ seen' = seen \cup ({d} \ {"empty"})
    /\ scanned' = scanned + 1
    /\ UNCHANGED <<scanning, inventory, diskVars>>

\* A dictionary with one more key, or another value of one.
With(f, key, value) ==
    [k \in DOMAIN f \cup {key} |-> IF k = key THEN value ELSE f[k]]

\* A match is the winner of its key or shadowed by the one that there is.
Record(f, at, kind) ==
    LET key == Fold(NameOf(f))
    IN IF key \in DOMAIN winners
       THEN /\ shadowed' = With(shadowed, key, Append(shadowed[key], at))
            /\ UNCHANGED winners
       ELSE /\ winners' = With(winners, key,
                  [name |-> NameOf(f), at |-> at,
                   kind |-> IF kind = "hollow" THEN "stub" ELSE "executable"])
            /\ shadowed' = With(shadowed, key, <<>>)

\* Examine the next file of the listing.  Its type is the one the listing
\* gave; the execute bit and the reparse tag are read now.
Examine ==
    /\ scanning
    /\ \E x \in listing :
          /\ \A y \in listing : x[2] <= y[2]
          /\ LET d == x[1]
                 f == x[2]
             IN IF Cardinality(DOMAIN winners) >= MaxEntries
                THEN /\ truncated' = TRUE
                     /\ listing' = {}
                     /\ UNCHANGED <<winners, shadowed>>
                ELSE /\ listing' = listing \ {x}
                     /\ UNCHANGED truncated
                     /\ IF x[3] = "dir" \/ ~Invocable(f) \/ ~Runs(tree[d][f])
                        THEN UNCHANGED <<winners, shadowed>>
                        ELSE Record(f, <<d, f>>, tree[d][f])
    /\ UNCHANGED <<scanned, seen, skipped, scanning, inventory, diskVars>>

\* discover() adds the builtins no file shadows and returns.
Return ==
    /\ scanning /\ listing = {} /\ scanned = Len(path)
    /\ scanning' = FALSE
    /\ inventory' =
          {[name |-> winners[k].name, kind |-> winners[k].kind] : k \in DOMAIN winners}
          \cup {[name |-> b, kind |-> "builtin"] :
                   b \in {c \in Builtins : Fold(c) \notin DOMAIN winners}}
    /\ UNCHANGED <<scanVars, diskVars>>

\* An installer adds, removes or replaces a file while the scan runs.
Install ==
    /\ scanning /\ scanned > 0 /\ changes < MaxChanges
    /\ \E d \in Dirs, f \in DOMAIN Files, kind \in {"absent", "program"} :
          /\ DirState[d] = "dir" /\ tree[d][f] /= kind
          /\ tree' = [tree EXCEPT ![d][f] = kind]
          /\ touched' = touched \cup {Fold(NameOf(f))}
    /\ changes' = changes + 1
    /\ UNCHANGED <<windows, path, scanning, inventory, scanVars>>

Scan == NextEntry \/ Examine \/ Return \/ Install

\* Inventory.names: the gate of every suggestion.
Names(inv) == {e.name : e \in {x \in inv : x.kind /= "stub"}}

-----------------------------------------------------------------------------
Keys == {Fold(NameOf(f)) : f \in DOMAIN Files}

\* The files that run when a key is typed: <<dir, file>>.
Matches(key) ==
    {x \in Dirs \X DOMAIN Files :
        /\ \E i \in DOMAIN path : DirOf[path[i]] = x[1]
        /\ DirState[x[1]] = "dir"
        /\ Invocable(x[2]) /\ Fold(NameOf(x[2])) = key
        /\ \/ tree[x[1]][x[2]] = "program"
           \/ windows /\ tree[x[1]][x[2]] = "hollow"}

\* Of two files of one name a shell takes x rather than y: its directory
\* comes earlier on PATH, or its suffix, in one directory, earlier in PATHEXT.
Before(x, y) ==
    \/ windows /\ x[1] = y[1] /\ Files[x[2]].ext < Files[y[2]].ext
    \/ \E i \in DOMAIN path : /\ DirOf[path[i]] = x[1]
                             /\ \A j \in 1 .. i : DirOf[path[j]] /= y[1]

\* One directory holds a command under two suffixes: there the scan goes by
\* the file's name (discovery.py:313), and the shell need not.
Twins(x, y) == windows /\ x[1] = y[1] /\ x[2] < y[2]

Resolution(key) ==
    IF key \in DOMAIN winners THEN <<winners[key].at>> \o shadowed[key] ELSE <<>>

(***************************************************************************)
(* "The shell takes the first match in PATH order, so discovery must agree *)
(* with it or every later stage is wrong" (discovery.py:296-297).  Every   *)
(* command whose files no installer touched during the scan resolves as    *)
(* the shell resolves it, with everything it shadows in order, but for the *)
(* order among twins: the directory is always the shell's, and so is the   *)
(* file, unless on Windows that directory has the command under two        *)
(* suffixes.  A scan cut short by max_entries knows a beginning of that    *)
(* list, never another winner that it looked past.                         *)
(***************************************************************************)
AgreesWithPath ==
    ~scanning =>
       \A key \in Keys \ touched :
          LET found == Resolution(key)
              known == {found[i] : i \in DOMAIN found}
              Leads(x, y) == Before(x, y) \/ Twins(x, y)
          IN /\ known \subseteq Matches(key)
             /\ \A i, j \in DOMAIN found : i < j => Leads(found[i], found[j])
             /\ \A x \in Matches(key) \ known :
                   truncated /\ \A y \in known : Leads(y, x)
=============================================================================

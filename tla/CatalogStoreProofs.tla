------------------------- MODULE CatalogStoreProofs -------------------------
(***************************************************************************)
(* The safety of CatalogStore for any number of processes, states of PATH  *)
(* and sources.                                                            *)
(***************************************************************************)
EXTENDS CatalogStore, TLAPS

\* A process that is about to rename has the whole of its catalog in its
\* temporary file, and only those that have finished use a catalog.
SaveInOrder ==
    \A p \in Proc :
        /\ pc[p] = "replace" => tmp[p] = draft[p]
        /\ pc[p] \in {"save", "write", "replace"} => draft[p] # Absent
        /\ p \in loaded => pc[p] = "done"

\* The key of a catalog names the sources it was made from.
KeyNamesSources ==
    /\ file \in Catalog => file.key.extra = file.used
    /\ \A p \in Proc : draft[p] \in Catalog => draft[p].key.extra = draft[p].used

\* What is loaded is a catalog, made from no source at all.
LoadedIsEmpty ==
    \A p \in loaded : draft[p] \in Catalog /\ draft[p].used = {}

Inv ==
    /\ TypeOK
    /\ SaveInOrder
    /\ FileIsWhole
    /\ NoLitter
    /\ KeyNamesSources
    /\ LoadedIsEmpty

USE PathAssumption, RaiseAssumption, FileAssumption

LEMMA InvInit == Init => Inv
BY DEF Init, Inv, TypeOK, SaveInOrder, FileIsWhole, NoLitter, KeyNamesSources,
       LoadedIsEmpty, States, Catalog

\* The steps that change neither the files nor what a process holds.
LEMMA QuietStep ==
    ASSUME Inv, NEW p \in Proc, UNCHANGED <<file, tmp, draft, loaded>>,
           path' = path, tiers' = tiers,
           entries' \in [Proc -> Path], fresh' \in [Proc -> SUBSET Tier],
           NEW l \in States, Goto(p, l),
           pc[p] \notin {"done", "littered", "crashed"},
           l \notin {"save", "write", "replace"},
           l \in {"littered", "crashed"} \/ pc[p] \notin {"write", "replace"}
    PROVE  Inv'
<1>1. TypeOK'
    BY DEF Inv, TypeOK, Goto
<1>2. SaveInOrder' /\ KeyNamesSources' /\ LoadedIsEmpty'
    BY DEF Inv, TypeOK, Goto, SaveInOrder, KeyNamesSources, LoadedIsEmpty
<1>3. FileIsWhole' /\ NoLitter'
    BY DEF Inv, TypeOK, Goto, FileIsWhole, NoLitter
<1>4. QED  BY <1>1, <1>2, <1>3 DEF Inv

\* The machine changes under the processes.
LEMMA WorldStep ==
    ASSUME Inv, PathChanges \/ TiersChange \/ FileDeleted
    PROVE  Inv'
BY DEF PathChanges, TiersChange, FileDeleted, world, mine, Inv, TypeOK,
       SaveInOrder, FileIsWhole, NoLitter, KeyNamesSources, LoadedIsEmpty

LEMMA LoadStep ==
    ASSUME Inv, NEW p \in Proc, Load(p)
    PROVE  Inv'
<1>1. fresh' \in [Proc -> SUBSET Tier]
    BY DEF Load, Inv, TypeOK
<1>2. CASE ValidFor(file, entries[p])
    <2>1. file \in Catalog /\ file.key.extra = {} /\ file.used = {}
        BY <1>2 DEF ValidFor, Inv, TypeOK, KeyNamesSources, Catalog, Key
    <2>2. /\ draft' = [draft EXCEPT ![p] = file]
          /\ loaded' = loaded \cup {p}
          /\ pc' = [pc EXCEPT ![p] = "done"]
          /\ pc[p] = "load"
          /\ UNCHANGED <<path, tiers, file, tmp, entries>>
        BY <1>2 DEF Load, Goto, world
    <2>3. TypeOK'
        BY <1>1, <2>1, <2>2 DEF Inv, TypeOK, States
    <2>4. SaveInOrder' /\ NoLitter'
        BY <2>2 DEF Inv, TypeOK, SaveInOrder, NoLitter
    <2>5. FileIsWhole'
        <3>1. PICK q \in Proc \ loaded : pc[q] = "done" /\ file = draft[q]
            BY <2>1 DEF Inv, FileIsWhole
        <3>2. q # p /\ q \notin loaded' /\ pc'[q] = "done" /\ draft'[q] = file'
            BY <2>2, <3>1 DEF Inv, TypeOK
        <3>3. QED  BY <3>2 DEF FileIsWhole
    <2>6. KeyNamesSources' /\ LoadedIsEmpty'
        BY <2>1, <2>2 DEF Inv, TypeOK, KeyNamesSources, LoadedIsEmpty
    <2>7. QED  BY <2>3, <2>4, <2>5, <2>6 DEF Inv
<1>3. CASE ~ValidFor(file, entries[p])
    BY <1>1, <1>3, QuietStep DEF Load, world, Inv, TypeOK, States
<1>4. QED  BY <1>2, <1>3

LEMMA HarvestStep ==
    ASSUME Inv, NEW p \in Proc, Harvest(p)
    PROVE  Inv'
<1>1. PICK used \in SUBSET Tier, of \in Path \cup {All} :
          draft' = [draft EXCEPT ![p] =
              [key |-> CacheKey(entries[p], used), of |-> of, used |-> used]]
    BY DEF Harvest, Inv, TypeOK
<1> DEFINE c == [key |-> CacheKey(entries[p], used), of |-> of, used |-> used]
<1>2. c \in Catalog /\ c.key.extra = c.used /\ c # Absent
    BY DEF Inv, TypeOK, Catalog, Key, CacheKey
<1>3. /\ draft' = [draft EXCEPT ![p] = c]
      /\ pc' = [pc EXCEPT ![p] = "save"]
      /\ pc[p] \in {"harvest", "harvest all"}
      /\ UNCHANGED <<path, tiers, file, tmp, entries, loaded, fresh>>
    BY <1>1 DEF Harvest, Goto, world
<1> HIDE DEF c
<1>4. TypeOK'
    BY <1>2, <1>3 DEF Inv, TypeOK, States
<1>5. SaveInOrder' /\ FileIsWhole' /\ NoLitter'
    BY <1>2, <1>3 DEF Inv, TypeOK, SaveInOrder, FileIsWhole, NoLitter
<1>6. KeyNamesSources' /\ LoadedIsEmpty'
    BY <1>2, <1>3 DEF Inv, TypeOK, SaveInOrder, KeyNamesSources, LoadedIsEmpty
<1>7. QED  BY <1>4, <1>5, <1>6 DEF Inv

\* mkstemp, the write, and the clean-up change the process's own temporary
\* file only.
LEMMA TempStep ==
    ASSUME Inv, NEW p \in Proc, NEW t \in {Absent, Torn, draft[p]},
           NEW l \in {"write", "replace", "failed"},
           tmp' = [tmp EXCEPT ![p] = t], Goto(p, l),
           pc[p] \in {"save", "write", "replace"},
           l = "replace" => t = draft[p],
           l = "failed" => t = Absent,
           UNCHANGED <<world, file, mine>>
    PROVE  Inv'
<1>1. t \in Catalog \cup {Absent, Torn} /\ l \in States
    BY DEF Inv, TypeOK, States
<1>2. TypeOK'
    BY <1>1 DEF Inv, TypeOK, Goto, world, mine
<1>3. SaveInOrder' /\ KeyNamesSources' /\ LoadedIsEmpty'
    BY DEF Inv, TypeOK, Goto, mine, SaveInOrder, KeyNamesSources, LoadedIsEmpty
<1>4. FileIsWhole' /\ NoLitter'
    BY DEF Inv, TypeOK, Goto, mine, FileIsWhole, NoLitter
<1>5. QED  BY <1>2, <1>3, <1>4 DEF Inv

LEMMA ReplaceStep ==
    ASSUME Inv, NEW p \in Proc, Replace(p)
    PROVE  Inv'
<1>1. /\ file' = draft[p]
      /\ tmp' = [tmp EXCEPT ![p] = Absent]
      /\ pc' = [pc EXCEPT ![p] = "done"]
      /\ pc[p] = "replace"
      /\ UNCHANGED <<path, tiers, entries, draft, loaded, fresh>>
    BY DEF Replace, TempName, Goto, world, mine, Inv, SaveInOrder
<1>2. TypeOK' /\ draft[p] \in Catalog /\ p \notin loaded
    BY <1>1 DEF Inv, TypeOK, States, SaveInOrder
<1>3. SaveInOrder' /\ NoLitter'
    BY <1>1 DEF Inv, TypeOK, SaveInOrder, NoLitter
<1>4. FileIsWhole'
    <2>1. p \in Proc \ loaded' /\ pc'[p] = "done" /\ file' = draft'[p]
        BY <1>1, <1>2 DEF Inv, TypeOK
    <2>2. QED  BY <2>1 DEF FileIsWhole
<1>5. KeyNamesSources' /\ LoadedIsEmpty'
    BY <1>1, <1>2 DEF Inv, KeyNamesSources, LoadedIsEmpty
<1>6. QED  BY <1>2, <1>3, <1>4, <1>5 DEF Inv

LEMMA InvStep == Inv /\ [Next]_vars => Inv'
<1> SUFFICES ASSUME Inv, [Next]_vars PROVE Inv'
    OBVIOUS
<1>1. CASE PathChanges \/ TiersChange \/ FileDeleted
    BY <1>1, WorldStep
<1>2. ASSUME NEW p \in Proc, Step(p)  PROVE Inv'
    <2>1. CASE Begin(p)
        BY <2>1, QuietStep DEF Begin, world, Inv, TypeOK, States
    <2>2. CASE Load(p)
        BY <2>2, LoadStep
    <2>3. CASE Harvest(p)
        BY <2>3, HarvestStep
    <2>4. CASE MakeTemp(p)
        BY <2>4, TempStep DEF MakeTemp, TempName
    <2>5. CASE Write(p)
        BY <2>5, TempStep DEF Write, TempName
    <2>6. CASE Replace(p)
        BY <2>6, ReplaceStep
    <2>7. CASE SaveRaises(p)
        BY <2>7, TempStep DEF SaveRaises, TempName
    <2>8. CASE Crash(p)
        BY <2>8, QuietStep DEF Crash, world, mine, Inv, TypeOK, States
    <2>9. CASE CleanupFails(p)
        BY <2>9, QuietStep DEF CleanupFails, world, mine, Inv, TypeOK, States
    <2>10. QED
        BY <1>2, <2>1, <2>2, <2>3, <2>4, <2>5, <2>6, <2>7, <2>8, <2>9 DEF Step
<1>3. CASE UNCHANGED vars
    BY <1>3 DEF vars, Inv, TypeOK, SaveInOrder, FileIsWhole, NoLitter,
               KeyNamesSources, LoadedIsEmpty
<1>4. QED  BY <1>1, <1>2, <1>3 DEF Next

LEMMA Invariance == Spec => []Inv
BY InvInit, InvStep, PTL DEF Spec

\* Whoever saves at the same time and wherever a save is cut short, the file
\* is the whole catalog of one process (save).
THEOREM ReadersSeeWholeCatalogs == Spec => []FileIsWhole
<1>1. Inv => FileIsWhole
    BY DEF Inv
<1>2. QED  BY <1>1, Invariance, PTL

\* What the store reads and writes is a catalog for a key, or nothing, for any
\* number of processes (load, save).
THEOREM TypeCorrect == Spec => []TypeOK
<1>1. Inv => TypeOK
    BY DEF Inv
<1>2. QED  BY <1>1, Invariance, PTL

\* Only saves under way, killed processes and those that could not remove it
\* have a temporary file (save).
THEOREM NothingIsLeftBehind == Spec => []NoLitter
<1>1. Inv => NoLitter
    BY DEF Inv
<1>2. QED  BY <1>1, Invariance, PTL

\* No catalog that is reused has tools of commands that are gone
\* (_Engine.build): none that has tools is.
THEOREM ReuseSuggestsNothingGone == Spec => []NothingGoneSuggested
<1>1. Inv => NothingGoneSuggested
    BY DEF Inv, LoadedIsEmpty, NothingGoneSuggested, Tools
<1>2. QED  BY <1>1, Invariance, PTL

=============================================================================

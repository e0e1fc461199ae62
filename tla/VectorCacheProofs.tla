-------------------------- MODULE VectorCacheProofs --------------------------
(***************************************************************************)
(* Vectors are never mixed and the model is loaded once, for any number of *)
(* processes, threads, models, documents, and any layout and bound.        *)
(***************************************************************************)
EXTENDS VectorCache, TLAPS

USE ModelAssumption, LayoutAssumption, ThreadAssumption, TextAssumption

Keys == {Key[m] : m \in Models} \cup {"none"}
Vector == [model : Models, text : Text, under : Keys]
Row == Vector \cup {Missing}
Stored == [key : Keys, dim : Nat, rows : SUBSET Vector]
Loaded == [up : BOOLEAN, key : Keys, dim : Nat, rows : SUBSET Vector, dirty : BOOLEAN]
Model == [model : Models, live : BOOLEAN]
Places == {"idle", "embed", "construct", "run", "filled", "save", "replace",
           "done", "failed", "ranked", "closing"}
Local == [pc : Places, task : {"none", "build", "rerank"}, texts : Seq(Text),
          matrix : Seq(Row), results : Seq(Row), left : SUBSET Text,
          fresh : SUBSET Vector, using : Nat, payload : Stored]

TypeOK ==
    /\ procOf \in [Threads -> Procs]
    /\ weights \in Models
    /\ files \in [Paths -> Stored]
    /\ proc \in [Procs -> Loaded]
    /\ agents \in [Procs -> Seq(Model)]
    /\ agent \in [Procs -> Nat]
    /\ lock \in [Procs -> Threads \cup {"free"}]
    /\ matrix \in [Procs -> Seq(Row)]
    /\ thread \in [Threads -> Local]

\* The models that are in use are among those that were loaded.
AgentsKnown ==
    /\ \A p \in Procs : agent[p] \in 0 .. Len(agents[p])
    /\ \A c \in Threads : thread[c].pc \in {"run", "closing"}
           => thread[c].using \in 1 .. Len(agents[procOf[c]])

LEMMA IdleType == Idle \in Local /\ Absent \in Stored /\ Down \in Loaded
BY DEF Idle, Absent, Down, Local, Stored, Loaded, Keys, Places

LEMMA TypeInit == Init => TypeOK
BY IdleType DEF Init, TypeOK

\* A lookup in the cache finds a row of the text that is asked for.
LEMMA Lookup ==
    ASSUME NEW rows, NEW t \in TextsOf(rows)
    PROVE  LET v == CHOOSE v \in rows : v.text = t
           IN v \in rows /\ v.text = t
BY DEF TextsOf

\* The local variables of a call that sets out.
LEMMA EncodeType ==
    ASSUME TypeOK, NEW c \in Threads, NEW task \in {"build", "rerank"},
           NEW texts \in Seq(Text), Encode(c, task, texts)
    PROVE  thread' \in [Threads -> Local]
<1> DEFINE p == procOf[c]
           known == TextsOf(proc[p].rows)
           wanted == {texts[i] : i \in DOMAIN texts} \ known
           hit(i) == IF texts[i] \in known
                     THEN CHOOSE v \in proc[p].rows : v.text = texts[i]
                     ELSE Missing
           results == [i \in DOMAIN texts |-> hit(i)]
<1>1. p \in Procs /\ proc[p].rows \subseteq Vector /\ matrix[p] \in Seq(Row)
    BY DEF TypeOK, Loaded
<1>2. wanted \subseteq Text
    OBVIOUS
<1>3. results \in Seq(Row)
    <2>1. \A i \in DOMAIN texts : hit(i) \in Row
        BY <1>1, Lookup DEF Row
    <2> HIDE DEF hit
    <2>2. results \in [1 .. Len(texts) -> Row]
        BY <2>1
    <2>3. QED  BY <2>2
<1>4. thread' = [thread EXCEPT ![c] =
          [Idle EXCEPT !.pc = IF wanted = {} THEN "done" ELSE "embed",
             !.task = task, !.texts = texts, !.matrix = matrix[p],
             !.results = results, !.left = wanted]]
    BY DEF Encode, Becomes
<1>5. QED
    <2> HIDE DEF p, wanted, hit, results
    <2>1. QED  BY <1>1, <1>2, <1>3, <1>4, IdleType DEF Local, Places, TypeOK

\* What a thread's own record may become without leaving its type.
LEMMA LocalType ==
    ASSUME NEW t \in Local
    PROVE  /\ \A l \in Places : [t EXCEPT !.pc = l] \in Local
           /\ \A u \in Nat : [t EXCEPT !.pc = "run", !.using = u] \in Local
           /\ \A f \in Stored : [t EXCEPT !.pc = "save", !.payload = f] \in Local
           /\ [t EXCEPT !.pc = "done", !.payload = Absent] \in Local
           /\ \A l \in Places : [Idle EXCEPT !.pc = l] \in Local
           /\ \A u \in Nat : [Idle EXCEPT !.pc = "closing", !.using = u] \in Local
<1>1. Idle \in Local /\ Absent \in Stored
    BY IdleType
<1>2. QED  BY <1>1 DEF Local, Places

LEMMA ThreadType ==
    ASSUME TypeOK, NEW c \in Threads, NEW t \in Local, Becomes(c, t)
    PROVE  thread' \in [Threads -> Local]
BY DEF TypeOK, Becomes

\* A cache is still one after a put.
LEMMA PutType ==
    ASSUME NEW cache \in Loaded, NEW v \in Vector
    PROVE  Put(cache, v) \in Loaded
<1>1. Width[v.model] \in Nat
    BY DEF Vector
<1>2. QED  BY <1>1 DEF Put, Loaded

LEMMA LoadType ==
    ASSUME TypeOK, NEW m \in Models
    PROVE  Load(Key[m]) \in Stored
<1>1. PathOf(Key[m]) \in Paths
    BY DEF PathOf, Paths
<1>2. files[PathOf(Key[m])] \in Stored
    BY <1>1 DEF TypeOK
<1>3. [Absent EXCEPT !.key = Key[m]] \in Stored
    BY DEF Absent, Stored, Keys
<1>4. QED  BY <1>2, <1>3 DEF Load

LEMMA TypeStep == TypeOK /\ AgentsKnown /\ [Next]_vars => TypeOK'
<1> SUFFICES ASSUME TypeOK, AgentsKnown, [Next]_vars PROVE TypeOK'
    OBVIOUS
<1> USE DEF diskVars, fixedVars, boundVars
<1>1. ASSUME NEW p \in Procs, Start(p) PROVE TypeOK'
    <2> DEFINE loaded == Load(Key[weights])
    <2>1. loaded \in Stored
        BY LoadType DEF TypeOK
    <2>2. [up |-> TRUE, key |-> loaded.key, dim |-> loaded.dim, rows |-> loaded.rows,
           dirty |-> FALSE] \in Loaded
        BY <2>1 DEF Stored, Loaded
    <2>3. proc' \in [Procs -> Loaded]
        BY <1>1, <2>2 DEF Start, TypeOK
    <2>4. QED  BY <1>1, <2>3 DEF Start, TypeOK
<1>2. ASSUME NEW p \in Procs, Exit(p) PROVE TypeOK'
    BY <1>2, IdleType DEF Exit, TypeOK
<1>3. CASE ReplaceWeights
    BY <1>3 DEF ReplaceWeights, TypeOK
<1>4. ASSUME NEW c \in Threads, Call(c) PROVE TypeOK'
    <2>1. <<QueryText>> \in Seq(Text)
        OBVIOUS
    <2>2. thread' \in [Threads -> Local]
        BY <1>4, <2>1, EncodeType DEF Call
    <2>3. QED  BY <1>4, <2>2 DEF Call, TypeOK
<1> DEFINE t(c) == thread[c]
           p(c) == procOf[c]
<1>t. \A c \in Threads : t(c) \in Local /\ p(c) \in Procs
    BY DEF TypeOK
<1>5. ASSUME NEW c \in Threads, LoadModel(c) PROVE TypeOK'
    <2>1. thread' \in [Threads -> Local]
        BY <1>5, <1>t, LocalType, ThreadType DEF LoadModel, Goto, TypeOK, Places
    <2>2. QED  BY <1>5, <1>t, <2>1 DEF LoadModel, TypeOK
<1>6. ASSUME NEW c \in Threads, Construct(c) PROVE TypeOK'
    <2>1. CASE Fail(c) /\ UNCHANGED <<agents, agent>>
        <3>1. thread' \in [Threads -> Local]
            BY <2>1, <1>t, LocalType, ThreadType DEF Fail, Places
        <3>2. QED  BY <1>6, <1>t, <2>1, <3>1 DEF Construct, TypeOK
    <2>2. CASE ~(Fail(c) /\ UNCHANGED <<agents, agent>>)
        <3> DEFINE new == Len(agents[p(c)]) + 1
        <3>1. agents[p(c)] \in Seq(Model) /\ new \in Nat
            BY <1>t DEF TypeOK
        <3>2. [model |-> weights, live |-> TRUE] \in Model
            BY DEF Model, TypeOK
        <3> DEFINE m == [model |-> weights, live |-> TRUE]
        <3>3. agents' \in [Procs -> Seq(Model)]
            <4>1. agents' = [agents EXCEPT ![p(c)] = Append(@, m)]
                BY <1>6, <2>2 DEF Construct
            <4>2. Append(agents[p(c)], m) \in Seq(Model)
                BY <3>1, <3>2
            <4> HIDE DEF m
            <4>3. QED  BY <4>1, <4>2 DEF TypeOK
        <3>4. thread' \in [Threads -> Local]
            BY <1>6, <2>2, <3>1, <1>t, LocalType, ThreadType DEF Construct
        <3>5. agent' \in [Procs -> Nat] /\ lock' \in [Procs -> Threads \cup {"free"}]
            <4>1. /\ agent' = [agent EXCEPT ![p(c)] = new]
                  /\ lock' = [lock EXCEPT ![p(c)] = "free"]
                BY <1>6, <2>2 DEF Construct
            <4> HIDE DEF new
            <4>2. QED  BY <1>t, <3>1, <4>1 DEF TypeOK
        <3>6. QED  BY <1>6, <3>3, <3>4, <3>5 DEF Construct, TypeOK
    <2>3. QED  BY <2>1, <2>2
<1>7. ASSUME NEW c \in Threads, Embed(c) PROVE TypeOK'
    <2>1. CASE Fail(c)
        <3>1. thread' \in [Threads -> Local]
            BY <2>1, <1>t, LocalType, ThreadType DEF Fail, Places
        <3>2. QED  BY <1>7, <3>1 DEF Embed, TypeOK
    <2>2. CASE ~Fail(c)
        <3>1. PICK x \in FirstOf(c, Wanted(c)) :
                 Becomes(c, [t(c) EXCEPT !.pc = "embed", !.using = 0,
                    !.fresh = @ \cup {[model |-> agents[p(c)][t(c).using].model,
                                      text |-> x, under |-> proc[p(c)].key]}])
            BY <1>7, <2>2 DEF Embed
        <3>2. x \in Text
            BY <1>t DEF FirstOf, Wanted, Local
        <3>3. agents[p(c)][t(c).using] \in Model
            <4>1. agents[p(c)] \in Seq(Model) /\ t(c).using \in 1 .. Len(agents[p(c)])
                BY <1>7, <1>t DEF Embed, At, AgentsKnown, TypeOK
            <4>2. QED  BY <4>1
        <3>4. [t(c) EXCEPT !.pc = "embed", !.using = 0,
                 !.fresh = @ \cup {[model |-> agents[p(c)][t(c).using].model,
                                   text |-> x, under |-> proc[p(c)].key]}] \in Local
            <4> DEFINE v == [model |-> agents[p(c)][t(c).using].model, text |-> x,
                             under |-> proc[p(c)].key]
            <4>1. v \in Vector
                <5>1. proc[p(c)].key \in Keys
                    BY <1>t DEF TypeOK, Loaded
                <5>2. QED  BY <3>2, <3>3, <5>1 DEF Vector, Model
            <4> HIDE DEF v
            <4>2. [t(c) EXCEPT !.pc = "embed", !.using = 0,
                               !.fresh = @ \cup {v}] \in Local
                BY <1>t, <4>1 DEF Local, Places
            <4>3. QED  BY <4>2 DEF v
        <3>5. thread' \in [Threads -> Local]
            BY <3>1, <3>4, ThreadType
        <3>6. QED  BY <1>7, <3>5 DEF Embed, TypeOK
    <2>3. QED  BY <2>1, <2>2
<1>8. ASSUME NEW c \in Threads, Fill(c) PROVE TypeOK'
    <2>1. PICK v \in t(c).fresh :
             /\ proc' = [proc EXCEPT ![p(c)] = Put(@, v)]
             /\ Becomes(c, [t(c) EXCEPT
                   !.pc = IF t(c).left = {v.text} THEN "filled" ELSE "embed",
                   !.left = @ \ {v.text}, !.fresh = @ \ {v},
                   !.results = [i \in DOMAIN @ |->
                                  IF t(c).texts[i] = v.text THEN v ELSE @[i]]])
        BY <1>8 DEF Fill
    <2>2. v \in Vector
        BY <1>t DEF Local
    <2>3. proc' \in [Procs -> Loaded]
        BY <1>t, <2>1, <2>2, PutType DEF TypeOK
    <2> DEFINE results == [i \in DOMAIN t(c).results |->
                             IF t(c).texts[i] = v.text THEN v ELSE t(c).results[i]]
    <2>4. results \in [1 .. Len(t(c).results) -> Row] /\ Len(t(c).results) \in Nat
        BY <1>t, <2>2 DEF Local, Row
    <2>5. results \in Seq(Row)
        BY <2>4
    <2>6. [t(c) EXCEPT !.pc = IF t(c).left = {v.text} THEN "filled" ELSE "embed",
                       !.left = @ \ {v.text}, !.fresh = @ \ {v},
                       !.results = results] \in Local
        <3> HIDE DEF results
        <3>1. QED  BY <1>t, <2>5 DEF Local, Places
    <2>7. thread' \in [Threads -> Local]
        BY <2>1, <2>6, ThreadType
    <2>8. QED  BY <1>8, <2>3, <2>7 DEF Fill, TypeOK
<1>9. ASSUME NEW c \in Threads, BeginSave(c) PROVE TypeOK'
    <2> DEFINE cache == proc[p(c)]
               f == [key |-> cache.key, dim |-> cache.dim, rows |-> cache.rows]
    <2>1. f \in Stored
        BY <1>t DEF TypeOK, Loaded, Stored
    <2>2. \/ Becomes(c, [t(c) EXCEPT !.pc = "save", !.payload = f])
          \/ Done(c)
        BY <1>9 DEF BeginSave
    <2>3. thread' \in [Threads -> Local]
        <3> HIDE DEF f
        <3>1. QED  BY <1>t, <2>1, <2>2, LocalType, ThreadType DEF Done
    <2>4. QED  BY <1>9, <2>3 DEF BeginSave, TypeOK
<1>10. ASSUME NEW c \in Threads, Pack(c) PROVE TypeOK'
    <2>1. thread' \in [Threads -> Local]
        BY <1>10, <1>t, LocalType, ThreadType DEF Pack, Goto, Fail, Places
    <2>2. QED  BY <1>10, <2>1 DEF Pack, TypeOK
<1>11. ASSUME NEW c \in Threads, Replace(c) PROVE TypeOK'
    <2>1. thread' \in [Threads -> Local]
        BY <1>11, <1>t, LocalType, ThreadType DEF Replace, Done
    <2>2. files' \in [Paths -> Stored]
        BY <1>11, <1>t DEF Replace, TypeOK, Local
    <2>4. proc' \in [Procs -> Loaded]
        <3>1. \A r \in Loaded : [r EXCEPT !.dirty = FALSE] \in Loaded
            BY DEF Loaded
        <3>2. \/ proc' = [proc EXCEPT ![p(c)] = [@ EXCEPT !.dirty = FALSE]]
              \/ UNCHANGED proc
            BY <1>11 DEF Replace
        <3> DEFINE r == [proc[p(c)] EXCEPT !.dirty = FALSE]
        <3>3. r \in Loaded
            BY <1>t, <3>1 DEF TypeOK
        <3>4. proc' = [proc EXCEPT ![p(c)] = r] \/ UNCHANGED proc
            BY <3>2
        <3> HIDE DEF r
        <3>5. QED  BY <1>t, <3>3, <3>4 DEF TypeOK
    <2>5. QED  BY <1>11, <2>1, <2>2, <2>4 DEF Replace, TypeOK
<1>12. ASSUME NEW c \in Threads, Build(c) PROVE TypeOK'
    <2>1. thread' \in [Threads -> Local]
        BY <1>12, IdleType, ThreadType DEF Build
    <2>2. matrix' \in [Procs -> Seq(Row)]
        BY <1>12, <1>t DEF Build, TypeOK, Local
    <2>3. QED  BY <1>12, <2>1, <2>2 DEF Build, TypeOK
<1>13. ASSUME NEW c \in Threads, Rerank(c) \/ Take(c) PROVE TypeOK'
    <2>1. thread' \in [Threads -> Local]
        BY <1>13, <1>t, IdleType, LocalType, ThreadType DEF Rerank, Take, Goto, Places
    <2>2. QED  BY <1>13, <2>1 DEF Rerank, Take, TypeOK
<1>14. ASSUME NEW c \in Threads, Close(c) PROVE TypeOK'
    <2>1. agent[p(c)] \in Nat
        BY <1>t DEF TypeOK
    <2>2. thread' \in [Threads -> Local]
        BY <1>14, <2>1, LocalType, ThreadType, IdleType DEF Close
    <2>3. QED  BY <1>14, <2>2 DEF Close, TypeOK
<1>15. ASSUME NEW c \in Threads, Release(c) PROVE TypeOK'
    <2>1. thread' \in [Threads -> Local]
        BY <1>15, IdleType, ThreadType DEF Release
    <2>2. agents[p(c)] \in Seq(Model) /\ t(c).using \in DOMAIN agents[p(c)]
        BY <1>15, <1>t DEF Release, At, AgentsKnown, TypeOK
    <2>3. [agents[p(c)] EXCEPT ![t(c).using].live = FALSE] \in Seq(Model)
        <3> DEFINE s == agents[p(c)]
                   i == t(c).using
        <3>0. \A m \in Model : [m EXCEPT !.live = FALSE] \in Model
            BY DEF Model
        <3>1. s[i] \in Model /\ [s[i] EXCEPT !.live = FALSE] \in Model
            BY <2>2, <3>0
        <3>2. s \in [1 .. Len(s) -> Model] /\ Len(s) \in Nat
            BY <2>2
        <3>3. [s EXCEPT ![i] = [s[i] EXCEPT !.live = FALSE]]
                  \in [1 .. Len(s) -> Model]
            <4> HIDE DEF s, i
            <4>1. QED  BY <3>1, <3>2
        <3>4. QED  BY <3>2, <3>3
    <2>4. agents' \in [Procs -> Seq(Model)]
        BY <1>15, <1>t, <2>3 DEF Release, TypeOK
    <2>5. QED  BY <1>15, <2>1, <2>4 DEF Release, TypeOK
<1>16. CASE UNCHANGED vars
    BY <1>16 DEF vars, TypeOK
<1>17. QED
    BY <1>1, <1>2, <1>3, <1>4, <1>5, <1>6, <1>7, <1>8, <1>9, <1>10, <1>11, <1>12,
       <1>13, <1>14, <1>15, <1>16 DEF Next

-----------------------------------------------------------------------------
(***************************************************************************)
(* The model is loaded once.  Inductive with: the thread that constructs a *)
(* model holds the lock of its process, which has none in use meanwhile.   *)
(***************************************************************************)
OneLoader ==
    \A c \in Threads : thread[c].pc = "construct"
        => lock[procOf[c]] = c /\ agent[procOf[c]] = 0

LoadInv == AgentsKnown /\ OneLoader /\ LoadedOnce

LEMMA LoadInit == Init => LoadInv
BY DEF Init, LoadInv, AgentsKnown, OneLoader, LoadedOnce, Idle

\* What is known of a state by its type.
LEMMA Typed ==
    ASSUME TypeOK
    PROVE  /\ \A c \in Threads : procOf[c] \in Procs /\ thread[c] \in Local
           /\ \A p \in Procs : /\ agents[p] \in Seq(Model) /\ Len(agents[p]) \in Nat
                               /\ DOMAIN agents[p] = 1 .. Len(agents[p])
                               /\ agent[p] \in Nat /\ proc[p] \in Loaded
BY DEF TypeOK

\* A step of one thread moves no other.
LEMMA Moved ==
    ASSUME TypeOK, NEW c \in Threads, NEW t, Becomes(c, t)
    PROVE  thread'[c] = t /\ \A o \in Threads \ {c} : thread'[o] = thread[o]
BY DEF TypeOK, Becomes

\* Where a step leads.
LEMMA Leads ==
    ASSUME TypeOK, NEW c \in Threads
    PROVE  /\ \A l : Goto(c, l) => thread'[c].pc = l
           /\ Fail(c) => thread'[c].pc = "failed"
           /\ Done(c) => thread'[c].pc = "done"
           /\ \A u : Becomes(c, [thread[c] EXCEPT !.pc = "run", !.using = u])
                        => thread'[c].pc = "run" /\ thread'[c].using = u
           /\ \A f : Becomes(c, [thread[c] EXCEPT !.pc = "save", !.payload = f])
                        => thread'[c].pc = "save"
           /\ \A u : Becomes(c, [Idle EXCEPT !.pc = "closing", !.using = u])
                        => thread'[c].pc = "closing" /\ thread'[c].using = u
<1>1. thread[c] \in Local
    BY Typed
<1>2. \A l : Becomes(c, [thread[c] EXCEPT !.pc = l]) => thread'[c].pc = l
    <2> TAKE l
    <2>1. [thread[c] EXCEPT !.pc = l].pc = l
        BY <1>1 DEF Local
    <2>2. QED  BY <2>1, Moved
<1>3. [thread[c] EXCEPT !.pc = "done", !.payload = Absent].pc = "done"
    BY <1>1 DEF Local
<1>4. [Idle EXCEPT !.pc = "failed"].pc = "failed"
    BY DEF Idle
<1>5. ASSUME NEW u, Becomes(c, [thread[c] EXCEPT !.pc = "run", !.using = u])
      PROVE  thread'[c].pc = "run" /\ thread'[c].using = u
    <2> DEFINE t == [thread[c] EXCEPT !.pc = "run", !.using = u]
    <2>1. t.pc = "run" /\ t.using = u
        BY <1>1 DEF Local
    <2> HIDE DEF t
    <2>2. QED  BY <1>5, <2>1, Moved DEF t
<1>6. ASSUME NEW f, Becomes(c, [thread[c] EXCEPT !.pc = "save", !.payload = f])
      PROVE  thread'[c].pc = "save"
    <2> DEFINE t == [thread[c] EXCEPT !.pc = "save", !.payload = f]
    <2>1. t.pc = "save"
        BY <1>1 DEF Local
    <2> HIDE DEF t
    <2>2. QED  BY <1>6, <2>1, Moved DEF t
<1>7. ASSUME NEW u, Becomes(c, [Idle EXCEPT !.pc = "closing", !.using = u])
      PROVE  thread'[c].pc = "closing" /\ thread'[c].using = u
    <2> DEFINE t == [Idle EXCEPT !.pc = "closing", !.using = u]
    <2>1. t.pc = "closing" /\ t.using = u
        BY DEF Idle
    <2> HIDE DEF t
    <2>2. QED  BY <1>7, <2>1, Moved DEF t
<1>8. QED  BY <1>2, <1>3, <1>4, <1>5, <1>6, <1>7, Moved DEF Goto, Fail, Done

\* Those that leave every other thread where it is.
LEMMA OthersStay ==
    ASSUME TypeOK, NEW c \in Threads,
           \/ \E t : Becomes(c, t)
           \/ \E l : Goto(c, l)
           \/ Fail(c) \/ Done(c)
    PROVE  \A o \in Threads \ {c} : thread'[o] = thread[o]
BY Moved DEF Goto, Fail, Done

\* A model that a close() is about to release stays so while its process runs.
LEMMA CloserStays ==
    ASSUME TypeOK, LoadedOnce, UNCHANGED procOf,
           NEW p \in Procs, proc[p].up => proc'[p].up,
           NEW i \in DOMAIN agents[p], agents[p][i].live, agent[p] # i,
           \A o \in Threads : /\ procOf[o] = p /\ thread[o].pc = "closing"
                              /\ thread[o].using = i
                              => thread'[o] = thread[o]
    PROVE  \E o \in Threads : /\ procOf'[o] = p /\ At(o, "closing")'
                              /\ thread'[o].using = i
<1>1. PICK o \in Threads : procOf[o] = p /\ At(o, "closing") /\ thread[o].using = i
    BY DEF LoadedOnce
<1>2. thread'[o] = thread[o] /\ proc'[p].up
    BY <1>1 DEF At
<1>3. QED  BY <1>1, <1>2 DEF At

\* A thread that goes from one place where it uses no model to another.
LEMMA QuietStep ==
    ASSUME TypeOK, LoadInv, NEW c \in Threads,
           \A o \in Threads \ {c} : thread'[o] = thread[o],
           thread[c].pc # "closing",
           thread'[c].pc \notin {"construct", "run", "closing"},
           UNCHANGED <<procOf, agents, agent, lock>>,
           \A p \in Procs : proc'[p].up = proc[p].up
    PROVE  LoadInv'
<1> USE DEF LoadInv
<1>1. AgentsKnown'
    BY DEF AgentsKnown
<1>2. OneLoader'
    BY DEF OneLoader
<1>3. LoadedOnce'
    BY CloserStays DEF LoadedOnce
<1>4. QED  BY <1>1, <1>2, <1>3

LEMMA LoadStep == TypeOK /\ LoadInv /\ [Next]_vars => LoadInv'
<1> SUFFICES ASSUME TypeOK, LoadInv, [Next]_vars PROVE LoadInv'
    OBVIOUS
<1>t. TypeOK'
    BY TypeStep DEF LoadInv
<1> USE DEF diskVars, fixedVars, boundVars
<1>1. ASSUME NEW p \in Procs, Start(p) PROVE LoadInv'
    BY <1>1 DEF Start, TypeOK, LoadInv, AgentsKnown, OneLoader, LoadedOnce, At
<1>2. ASSUME NEW p \in Procs, Exit(p) PROVE LoadInv'
    <2>1. \A c \in Threads : thread'[c] = IF procOf[c] = p THEN Idle ELSE thread[c]
        BY <1>2 DEF Exit
    <2>2. \A q \in Procs : q # p => proc'[q] = proc[q] /\ agents'[q] = agents[q]
                                    /\ agent'[q] = agent[q] /\ lock'[q] = lock[q]
        BY <1>2 DEF Exit, TypeOK
    <2>3. agents'[p] = <<>> /\ agent'[p] = 0 /\ UNCHANGED procOf
        BY <1>2 DEF Exit, TypeOK
    <2>4. \A c \in Threads : thread'[c].pc \in {"run", "closing", "construct"}
              => thread'[c] = thread[c] /\ procOf[c] # p
        BY <2>1 DEF Idle
    <2>5. AgentsKnown'
        BY <2>2, <2>3, <2>4, Typed DEF LoadInv, AgentsKnown
    <2>6. OneLoader'
        BY <2>2, <2>3, <2>4, Typed DEF LoadInv, OneLoader
    <2>7. LoadedOnce'
        <3> SUFFICES ASSUME NEW q \in Procs, NEW i \in DOMAIN agents'[q],
                            agents'[q][i].live, agent'[q] # i
                     PROVE  \E o \in Threads : /\ procOf'[o] = q /\ At(o, "closing")'
                                               /\ thread'[o].using = i
            BY DEF LoadedOnce
        <3>1. q # p
            BY <2>3
        <3>2. QED  BY <2>1, <2>2, <2>3, <3>1, CloserStays DEF LoadInv
    <2>8. QED  BY <2>5, <2>6, <2>7 DEF LoadInv
<1>3. CASE ReplaceWeights
    BY <1>3 DEF ReplaceWeights, LoadInv, AgentsKnown, OneLoader, LoadedOnce, At
<1>4. ASSUME NEW c \in Threads, Call(c) PROVE LoadInv'
    <2>1. /\ \A o \in Threads \ {c} : thread'[o] = thread[o]
          /\ thread'[c].pc \in {"done", "embed"}
        <3> DEFINE p == procOf[c]
        <3>1. PICK task \in {"build", "rerank"},
                   texts \in DocSets \cup {<<QueryText>>} : Encode(c, task, texts)
            BY <1>4 DEF Call
        <3> DEFINE wanted == {texts[i] : i \in DOMAIN texts} \ TextsOf(proc[p].rows)
                   results == [i \in DOMAIN texts |->
                                 IF texts[i] \in TextsOf(proc[p].rows)
                                 THEN CHOOSE v \in proc[p].rows : v.text = texts[i]
                                 ELSE Missing]
                   pc == IF wanted = {} THEN "done" ELSE "embed"
                   t == [Idle EXCEPT !.pc = pc, !.task = task, !.texts = texts,
                            !.matrix = matrix[p], !.results = results, !.left = wanted]
        <3>2. Becomes(c, t)
            BY <3>1 DEF Encode
        <3>3. pc \in {"done", "embed"}
            OBVIOUS
        <3> HIDE DEF wanted, results, pc
        <3>4. t.pc = pc
            BY DEF Idle
        <3> HIDE DEF t
        <3>5. QED  BY <3>2, <3>3, <3>4, Moved
    <2>2. QED  BY <1>4, <2>1, QuietStep DEF Call, At
<1>5. ASSUME NEW c \in Threads, LoadModel(c) PROVE LoadInv'
    <2> DEFINE p == procOf[c]
    <2>1. /\ p \in Procs /\ lock[p] = "free" /\ thread[c].pc = "embed"
          /\ UNCHANGED <<procOf, agents, agent, proc>>
        BY <1>5, Typed DEF LoadModel, At
    <2>2. CASE agent[p] # 0
        <3>1. UNCHANGED lock
              /\ Becomes(c, [thread[c] EXCEPT !.pc = "run", !.using = agent[p]])
            BY <1>5, <2>2 DEF LoadModel
        <3>2. /\ thread'[c].pc = "run" /\ thread'[c].using = agent[p]
              /\ \A o \in Threads \ {c} : thread'[o] = thread[o]
            BY <3>1, Leads, OthersStay
        <3>3. AgentsKnown'
            BY <2>1, <2>2, <3>2, Typed DEF LoadInv, AgentsKnown
        <3>4. OneLoader'
            BY <2>1, <3>1, <3>2 DEF LoadInv, OneLoader
        <3>5. LoadedOnce'
            BY <2>1, <3>2, CloserStays DEF LoadInv, LoadedOnce
        <3>6. QED  BY <3>3, <3>4, <3>5 DEF LoadInv
    <2>3. CASE agent[p] = 0
        <3>1. lock' = [lock EXCEPT ![p] = c] /\ Goto(c, "construct")
            BY <1>5, <2>3 DEF LoadModel
        <3>2. /\ thread'[c].pc = "construct"
              /\ \A o \in Threads \ {c} : thread'[o] = thread[o]
            BY <3>1, Leads, OthersStay
        <3>3. AgentsKnown'
            BY <2>1, <3>2, Typed DEF LoadInv, AgentsKnown
        <3>4. \A o \in Threads \ {c} : thread[o].pc = "construct" => procOf[o] # p
            BY <2>1 DEF LoadInv, OneLoader
        <3>5. lock'[p] = c /\ \A q \in Procs : q # p => lock'[q] = lock[q]
            BY <2>1, <3>1 DEF TypeOK
        <3>6. OneLoader'
            BY <2>1, <2>3, <3>2, <3>4, <3>5, Typed DEF LoadInv, OneLoader
        <3>7. LoadedOnce'
            BY <2>1, <3>2, CloserStays DEF LoadInv, LoadedOnce
        <3>8. QED  BY <3>3, <3>6, <3>7 DEF LoadInv
    <2>4. QED  BY <2>2, <2>3
<1>6. ASSUME NEW c \in Threads, Construct(c) PROVE LoadInv'
    <2> DEFINE p == procOf[c]
               new == Len(agents[p]) + 1
               m == [model |-> weights, live |-> TRUE]
    <2>1. /\ p \in Procs /\ thread[c].pc = "construct"
          /\ lock[p] = c /\ agent[p] = 0
          /\ lock' = [lock EXCEPT ![p] = "free"]
          /\ UNCHANGED <<procOf, proc>>
        BY <1>6, Typed DEF Construct, At, LoadInv, OneLoader
    <2>2. /\ \A o \in Threads \ {c} : thread[o].pc = "construct" => procOf[o] # p
          /\ \A q \in Procs : q # p => lock'[q] = lock[q]
        BY <2>1 DEF LoadInv, OneLoader, TypeOK
    <2>3. CASE Fail(c) /\ UNCHANGED <<agents, agent>>
        <3>1. /\ \A o \in Threads \ {c} : thread'[o] = thread[o]
              /\ thread'[c].pc = "failed"
            BY <2>3, Leads, OthersStay
        <3>2. AgentsKnown'
            BY <2>1, <2>3, <3>1 DEF LoadInv, AgentsKnown
        <3>3. OneLoader'
            BY <2>1, <2>2, <2>3, <3>1, Typed DEF LoadInv, OneLoader
        <3>4. LoadedOnce'
            BY <2>1, <2>3, <3>1, CloserStays DEF LoadInv, LoadedOnce
        <3>5. QED  BY <3>2, <3>3, <3>4 DEF LoadInv
    <2>4. CASE ~(Fail(c) /\ UNCHANGED <<agents, agent>>)
        <3>1. /\ agents' = [agents EXCEPT ![p] = Append(@, m)]
              /\ agent' = [agent EXCEPT ![p] = new]
              /\ Becomes(c, [thread[c] EXCEPT !.pc = "run", !.using = new])
            BY <1>6, <2>4 DEF Construct
        <3>2. /\ \A o \in Threads \ {c} : thread'[o] = thread[o]
              /\ thread'[c].pc = "run" /\ thread'[c].using = new
            <4> HIDE DEF new
            <4>1. QED  BY <3>1, Leads, OthersStay
        <3>3. /\ agents'[p] = Append(agents[p], m) /\ agent'[p] = new
              /\ \A q \in Procs : q # p => agents'[q] = agents[q] /\ agent'[q] = agent[q]
            BY <2>1, <3>1 DEF TypeOK
        <3>4. /\ Len(agents'[p]) = new /\ new \in Nat \ {0}
              /\ \A i \in DOMAIN agents'[p] : i = new \/ (/\ i \in DOMAIN agents[p]
                                                         /\ agents'[p][i] = agents[p][i])
            <4>1. agents[p] \in Seq(Model)
                BY <2>1, Typed
            <4> HIDE DEF m
            <4>2. QED  BY <3>3, <4>1
        <3>5. AgentsKnown'
            <4>1. \A q \in Procs : agent'[q] \in 0 .. Len(agents'[q])
                BY <3>3, <3>4 DEF LoadInv, AgentsKnown
            <4>2. ASSUME NEW o \in Threads, thread'[o].pc \in {"run", "closing"}
                  PROVE  thread'[o].using \in 1 .. Len(agents'[procOf[o]])
                <5>1. CASE o = c
                    BY <5>1, <3>2, <3>4
                <5>2. CASE o # c
                    <6>1. thread[o].using \in 1 .. Len(agents[procOf[o]])
                        BY <4>2, <5>2, <3>2 DEF LoadInv, AgentsKnown
                    <6>2. CASE procOf[o] = p
                        BY <6>1, <6>2, <5>2, <3>2, <3>4, <2>1, Typed
                    <6>3. CASE procOf[o] # p
                        BY <6>1, <6>3, <5>2, <3>2, <3>3, Typed
                    <6>4. QED  BY <6>2, <6>3
                <5>3. QED  BY <5>1, <5>2
            <4>3. QED  BY <2>1, <4>1, <4>2 DEF AgentsKnown
        <3>6. OneLoader'
            BY <2>1, <2>2, <3>2, <3>3, Typed DEF LoadInv, OneLoader
        <3>7. LoadedOnce'
            <4> SUFFICES ASSUME NEW q \in Procs, NEW i \in DOMAIN agents'[q],
                                agents'[q][i].live, agent'[q] # i
                         PROVE  \E o \in Threads : /\ procOf'[o] = q /\ At(o, "closing")'
                                                   /\ thread'[o].using = i
                BY DEF LoadedOnce
            <4>1. i \in DOMAIN agents[q] /\ agents[q][i].live
                BY <3>3, <3>4
            <4>2. agent[q] # i
                BY <2>1, <3>3, <4>1, Typed
            <4>3. QED  BY <2>1, <3>2, <4>1, <4>2, CloserStays DEF LoadInv
        <3>8. QED  BY <3>5, <3>6, <3>7 DEF LoadInv
    <2>5. QED  BY <2>3, <2>4
<1>7. ASSUME NEW c \in Threads, Embed(c) PROVE LoadInv'
    <2>1. CASE Fail(c)
        BY <1>7, <2>1, Leads, OthersStay, QuietStep DEF Embed, At
    <2>2. CASE ~Fail(c)
        <3>1. PICK x \in FirstOf(c, Wanted(c)) :
                 Becomes(c, [thread[c] EXCEPT !.pc = "embed", !.using = 0,
                    !.fresh = @ \cup {[model |-> agents[procOf[c]][thread[c].using].model,
                                      text |-> x, under |-> proc[procOf[c]].key]}])
            BY <1>7, <2>2 DEF Embed
        <3> DEFINE v == [model |-> agents[procOf[c]][thread[c].using].model, text |-> x,
                         under |-> proc[procOf[c]].key]
                   t == [thread[c] EXCEPT !.pc = "embed", !.using = 0,
                                          !.fresh = @ \cup {v}]
        <3>t. t.pc = "embed"
            BY Typed DEF Local
        <3> HIDE DEF t
        <3>2. /\ thread'[c].pc = "embed"
              /\ \A o \in Threads \ {c} : thread'[o] = thread[o]
            BY <3>1, <3>t, Moved DEF t
        <3>3. QED  BY <1>7, <3>2, QuietStep DEF Embed, At
    <2>3. QED  BY <2>1, <2>2
<1>8. ASSUME NEW c \in Threads, Fill(c) PROVE LoadInv'
    <2>1. PICK v \in thread[c].fresh :
             /\ proc' = [proc EXCEPT ![procOf[c]] = Put(@, v)]
             /\ Becomes(c, [thread[c] EXCEPT
                   !.pc = IF thread[c].left = {v.text} THEN "filled" ELSE "embed",
                   !.left = @ \ {v.text}, !.fresh = @ \ {v},
                   !.results = [i \in DOMAIN @ |->
                      IF thread[c].texts[i] = v.text THEN v ELSE @[i]]])
        BY <1>8 DEF Fill
    <2> DEFINE t == [thread[c] EXCEPT
                   !.pc = IF thread[c].left = {v.text} THEN "filled" ELSE "embed",
                   !.left = @ \ {v.text}, !.fresh = @ \ {v},
                   !.results = [i \in DOMAIN @ |->
                      IF thread[c].texts[i] = v.text THEN v ELSE @[i]]]
    <2>t. t.pc \in {"filled", "embed"}
        BY Typed DEF Local
    <2> HIDE DEF t
    <2>2. /\ thread'[c].pc \in {"filled", "embed"}
          /\ \A o \in Threads \ {c} : thread'[o] = thread[o]
        BY <2>1, <2>t, Moved DEF t
    <2>3. \A b \in Loaded : Put(b, v).up = b.up
        BY DEF Put, Loaded
    <2>4. \A p \in Procs : proc'[p].up = proc[p].up
        BY <2>1, <2>3 DEF TypeOK
    <2>5. QED  BY <1>8, <2>2, <2>4, QuietStep DEF Fill, At
<1>9. ASSUME NEW c \in Threads, BeginSave(c) PROVE LoadInv'
    <2>1. CASE Done(c)
        BY <1>9, <2>1, Leads, OthersStay, QuietStep DEF BeginSave, At
    <2>2. CASE ~Done(c)
        <3>1. Becomes(c, [thread[c] EXCEPT !.pc = "save",
                  !.payload = [key |-> proc[procOf[c]].key, dim |-> proc[procOf[c]].dim,
                               rows |-> proc[procOf[c]].rows]])
            BY <1>9, <2>2 DEF BeginSave
        <3>2. /\ thread'[c].pc = "save"
              /\ \A o \in Threads \ {c} : thread'[o] = thread[o]
            BY <3>1, Leads, OthersStay
        <3>3. QED  BY <1>9, <3>2, QuietStep DEF BeginSave, At
    <2>3. QED  BY <2>1, <2>2
<1>10. ASSUME NEW c \in Threads, Pack(c) PROVE LoadInv'
    <2>1. thread'[c].pc \in {"replace", "failed"}
          /\ \A o \in Threads \ {c} : thread'[o] = thread[o]
        BY <1>10, Leads, OthersStay DEF Pack
    <2>2. QED  BY <1>10, <2>1, QuietStep DEF Pack, At
<1>11. ASSUME NEW c \in Threads, Replace(c) PROVE LoadInv'
    <2>1. thread'[c].pc = "done" /\ \A o \in Threads \ {c} : thread'[o] = thread[o]
        BY <1>11, Leads, OthersStay DEF Replace
    <2>2. \A b \in Loaded : [b EXCEPT !.dirty = FALSE].up = b.up
        BY DEF Loaded
    <2>3. \/ proc' = [proc EXCEPT ![procOf[c]] = [@ EXCEPT !.dirty = FALSE]]
          \/ UNCHANGED proc
        BY <1>11 DEF Replace
    <2>4. \A p \in Procs : proc'[p].up = proc[p].up
        <3> TAKE p \in Procs
        <3>1. proc'[p] \in {proc[p], [proc[p] EXCEPT !.dirty = FALSE]}
            BY <2>3 DEF TypeOK
        <3>2. QED  BY <2>2, <3>1, Typed
    <2>5. QED  BY <1>11, <2>1, <2>4, QuietStep DEF Replace, At
<1>12. ASSUME NEW c \in Threads, Build(c) PROVE LoadInv'
    <2>1. thread'[c].pc = "idle" /\ \A o \in Threads \ {c} : thread'[o] = thread[o]
        BY <1>12, Moved DEF Build, Idle
    <2>2. QED  BY <1>12, <2>1, QuietStep DEF Build, At
<1>13. ASSUME NEW c \in Threads, Rerank(c) \/ Take(c) PROVE LoadInv'
    <2>1. Goto(c, "ranked") \/ Becomes(c, Idle)
        BY <1>13 DEF Rerank, Take
    <2>2. /\ thread'[c].pc \in {"ranked", "idle"}
          /\ \A o \in Threads \ {c} : thread'[o] = thread[o]
        <3>1. Idle.pc = "idle"
            BY DEF Idle
        <3>2. QED  BY <2>1, <3>1, Leads, OthersStay, Moved
    <2>3. QED  BY <1>13, <2>2, QuietStep DEF Rerank, Take, At
<1>14. ASSUME NEW c \in Threads, Close(c) PROVE LoadInv'
    <2> DEFINE p == procOf[c]
    <2>1. /\ p \in Procs /\ agent[p] # 0
          /\ thread[c].pc = "idle" /\ proc[p].up
          /\ agent' = [agent EXCEPT ![p] = 0]
          /\ UNCHANGED <<procOf, proc, agents, lock>>
        BY <1>14, Typed DEF Close, At
    <2>2. /\ thread'[c].pc = "closing" /\ thread'[c].using = agent[p]
          /\ \A o \in Threads \ {c} : thread'[o] = thread[o]
        BY <1>14, Leads, OthersStay DEF Close
    <2>3. agent'[p] = 0 /\ \A q \in Procs : q # p => agent'[q] = agent[q]
        BY <2>1 DEF TypeOK
    <2>4. AgentsKnown'
        BY <2>1, <2>2, <2>3, Typed DEF LoadInv, AgentsKnown
    <2>5. OneLoader'
        BY <2>1, <2>2, <2>3, Typed DEF LoadInv, OneLoader
    <2>6. LoadedOnce'
        <3> SUFFICES ASSUME NEW q \in Procs, NEW i \in DOMAIN agents[q],
                            agents[q][i].live, agent'[q] # i
                     PROVE  \E o \in Threads : /\ procOf'[o] = q /\ At(o, "closing")'
                                               /\ thread'[o].using = i
            BY <2>1 DEF LoadedOnce
        <3>1. CASE q = p /\ i = agent[p]
            BY <2>1, <2>2, <3>1 DEF At
        <3>2. CASE agent[q] # i
            BY <2>1, <2>2, <3>2, CloserStays DEF LoadInv
        <3>3. QED  BY <2>3, <3>1, <3>2
    <2>7. QED  BY <2>4, <2>5, <2>6 DEF LoadInv
<1>15. ASSUME NEW c \in Threads, Release(c) PROVE LoadInv'
    <2> DEFINE p == procOf[c]
               u == thread[c].using
    <2>1. /\ p \in Procs /\ thread[c].pc = "closing"
          /\ agents' = [agents EXCEPT ![p][u].live = FALSE]
          /\ UNCHANGED <<procOf, proc, agent, lock>>
        BY <1>15, Typed DEF Release, At
    <2>2. /\ thread'[c].pc = "idle"
          /\ \A o \in Threads \ {c} : thread'[o] = thread[o]
        BY <1>15, Moved DEF Release, Idle
    <2>3. agents[p] \in Seq(Model) /\ u \in 1 .. Len(agents[p])
        BY <2>1, Typed DEF LoadInv, AgentsKnown
    <2>4. /\ agents'[p] = [agents[p] EXCEPT ![u] = [agents[p][u] EXCEPT !.live = FALSE]]
          /\ \A q \in Procs : q # p => agents'[q] = agents[q]
        BY <2>1 DEF TypeOK
    <2>5. agents[p][u] \in Model
        BY <2>3
    <2>6. [agents[p][u] EXCEPT !.live = FALSE].live = FALSE
        BY <2>5 DEF Model
    <2>7. /\ DOMAIN agents'[p] = DOMAIN agents[p] /\ Len(agents'[p]) = Len(agents[p])
          /\ agents'[p][u].live = FALSE
          /\ \A i \in DOMAIN agents[p] : i # u => agents'[p][i] = agents[p][i]
        BY <2>3, <2>4, <2>6
    <2>8. AgentsKnown'
        <3>1. \A q \in Procs : Len(agents'[q]) = Len(agents[q])
            BY <2>4, <2>7
        <3>2. QED  BY <2>1, <2>2, <3>1, Typed DEF LoadInv, AgentsKnown
    <2>9. OneLoader'
        BY <2>1, <2>2 DEF LoadInv, OneLoader
    <2>10. LoadedOnce'
        <3> SUFFICES ASSUME NEW q \in Procs, NEW i \in DOMAIN agents'[q],
                            agents'[q][i].live, agent[q] # i
                     PROVE  \E o \in Threads : /\ procOf'[o] = q /\ At(o, "closing")'
                                               /\ thread'[o].using = i
            BY <2>1 DEF LoadedOnce
        <3>1. i \in DOMAIN agents[q] /\ agents[q][i].live /\ (q # p \/ i # u)
            BY <2>4, <2>7
        <3>2. QED  BY <2>1, <2>2, <3>1, CloserStays DEF LoadInv
    <2>11. QED  BY <2>8, <2>9, <2>10 DEF LoadInv
<1>16. CASE UNCHANGED vars
    BY <1>16 DEF vars, LoadInv, AgentsKnown, OneLoader, LoadedOnce, At
<1>17. QED
    BY <1>1, <1>2, <1>3, <1>4, <1>5, <1>6, <1>7, <1>8, <1>9, <1>10, <1>11, <1>12,
       <1>13, <1>14, <1>15, <1>16 DEF Next

\* The state of every process and thread keeps its type.
LEMMA TypeCorrect == Spec => [](TypeOK /\ LoadInv)
<1>1. Init => TypeOK /\ LoadInv
    BY TypeInit, LoadInit
<1>2. TypeOK /\ LoadInv /\ [Next]_vars => TypeOK' /\ LoadInv'
    BY TypeStep, LoadStep DEF LoadInv
<1>3. QED  BY <1>1, <1>2, PTL DEF Spec

\* Keystrokes that race at startup never build two models, and close() forgets
\* none (NeedleEmbedder._load, close).
THEOREM ModelIsLoadedOnce == Spec => []LoadedOnce
<1>1. LoadInv => LoadedOnce
    BY DEF LoadInv
<1>2. QED  BY <1>1, TypeCorrect, PTL

-----------------------------------------------------------------------------
(***************************************************************************)
(* Vectors are never mixed.  Every row of a cache, in a file, in a process *)
(* or on its way between them, was made under the cache's key and has its  *)
(* width; the rows that a thread has gathered, and those of its matrix,    *)
(* were made under the key k of its process, and a matrix has one width.   *)
(***************************************************************************)
Coherent(f) == \A v \in f.rows : v.under = f.key /\ Width[v.model] = f.dim

KeyOf(c) == proc[procOf[c]].key

\* A vector of that text, made under that key.
Good(v, text, k) == v \in Vector /\ v.text = text /\ v.under = k

GoodMatrix(m, k) ==
    \E docs \in DocSets :
        /\ Len(m) = Len(docs)
        /\ \A i \in 1 .. Len(docs) : /\ Good(m[i], docs[i], k)
                                     /\ Width[m[i].model] = Width[m[1].model]

OnCourse(t, k) ==
    /\ t.pc \notin {"embed", "construct", "run"} => t.left = {}
    /\ \A v \in t.fresh : v.under = k
    /\ DOMAIN t.results = DOMAIN t.texts
    /\ \A i \in DOMAIN t.texts : t.texts[i] \in t.left \/ Good(t.results[i], t.texts[i], k)
    /\ t.task = "build" => t.texts \in DocSets
    /\ t.task = "rerank" => t.texts = <<QueryText>> /\ GoodMatrix(t.matrix, k)
    /\ t.pc = "ranked" => /\ t.task = "rerank"
                          /\ Width[t.matrix[1].model] = Width[t.results[1].model]

FilesInOrder == \A path \in Paths : Coherent(files[path])

ProcInOrder(p) ==
    /\ Coherent(proc[p])
    /\ matrix[p] = <<>> \/ GoodMatrix(matrix[p], proc[p].key)
    /\ ~proc[p].up => matrix[p] = <<>>

ThreadInOrder(c) ==
    /\ OnCourse(thread[c], KeyOf(c))
    /\ Coherent(thread[c].payload)
    /\ ~proc[procOf[c]].up => thread[c] = Idle

MixInv ==
    /\ FilesInOrder
    /\ \A p \in Procs : ProcInOrder(p)
    /\ \A c \in Threads : ThreadInOrder(c)

LEMMA IdleInOrder ==
    ASSUME NEW k
    PROVE  OnCourse(Idle, k) /\ Coherent(Absent) /\ Coherent(Idle.payload) /\ Coherent(Down)
BY DEF OnCourse, Coherent, Idle, Absent, Down

LEMMA MixInit == Init => MixInv
<1> SUFFICES ASSUME Init PROVE MixInv
    OBVIOUS
<1>t. TypeOK
    BY TypeInit
<1>1. FilesInOrder
    BY IdleInOrder DEF Init, FilesInOrder
<1>2. ASSUME NEW p \in Procs PROVE ProcInOrder(p)
    <2>1. proc[p] = Down /\ matrix[p] = <<>>
        BY DEF Init
    <2>2. Down.up = FALSE
        BY DEF Down
    <2>3. QED  BY <2>1, <2>2, IdleInOrder DEF ProcInOrder
<1>3. ASSUME NEW c \in Threads PROVE ThreadInOrder(c)
    <2>1. thread[c] = Idle
        BY DEF Init
    <2>2. QED  BY <2>1, IdleInOrder DEF ThreadInOrder
<1>4. QED  BY <1>1, <1>2, <1>3 DEF MixInv

\* What is not written stays in order.
LEMMA ProcStays ==
    ASSUME NEW p \in Procs, ProcInOrder(p),
           proc'[p] = proc[p], matrix'[p] = matrix[p]
    PROVE  ProcInOrder(p)'
BY DEF ProcInOrder

\* A step of one thread puts no other out of order.
LEMMA OthersInOrder ==
    ASSUME NEW c \in Threads, \A o \in Threads : ThreadInOrder(o),
           UNCHANGED procOf,
           \A o \in Threads \ {c} : thread'[o] = thread[o],
           proc[procOf[c]].up,
           \A p \in Procs : proc'[p].up = proc[p].up /\ proc'[p].key = proc[p].key,
           procOf \in [Threads -> Procs],
           OnCourse(thread'[c], KeyOf(c)), Coherent(thread'[c].payload)
    PROVE  \A o \in Threads : ThreadInOrder(o)'
<1> TAKE o \in Threads
<1>1. proc'[procOf[o]].up = proc[procOf[o]].up /\ KeyOf(o)' = KeyOf(o)
    BY DEF KeyOf
<1>2. CASE o = c
    BY <1>1, <1>2 DEF ThreadInOrder
<1>3. CASE o # c
    BY <1>1, <1>3 DEF ThreadInOrder
<1>4. QED  BY <1>2, <1>3

\* A put of the process's own vector keeps its cache coherent: where there is
\* no width yet, there are no rows (VectorCache.put).
LEMMA PutInOrder ==
    ASSUME NEW b \in Loaded, Coherent(b), NEW v \in Vector, v.under = b.key
    PROVE  Coherent(Put(b, v)) /\ Put(b, v).up = b.up /\ Put(b, v).key = b.key
<1>1. v.model \in Models /\ Width[v.model] \in Nat \ {0}
    BY DEF Vector
<1>2. CASE b.dim \in {0, Width[v.model]}
    <2> DEFINE n == [b EXCEPT !.dim = Width[v.model], !.dirty = TRUE,
                              !.rows = {r \in @ : r.text # v.text} \cup {v}]
    <2>1. /\ n.dim = Width[v.model] /\ n.key = b.key /\ n.up = b.up
          /\ n.rows = {r \in b.rows : r.text # v.text} \cup {v}
        BY DEF Loaded
    <2>2. \A r \in b.rows : r.under = b.key /\ Width[r.model] = b.dim
                            /\ Width[r.model] # 0
        BY DEF Coherent, Loaded, Vector
    <2>3. \A r \in b.rows : Width[r.model] = Width[v.model]
        BY <1>2, <2>2
    <2>4. Put(b, v) = n
        BY <1>2 DEF Put
    <2> HIDE DEF n
    <2>5. QED  BY <2>1, <2>2, <2>3, <2>4 DEF Coherent
<1>3. CASE b.dim \notin {0, Width[v.model]}
    BY <1>3 DEF Put
<1>4. QED  BY <1>2, <1>3

\* What a call finds in the cache is of its text and its process's key.
LEMMA EncodeInOrder ==
    ASSUME TypeOK, NEW c \in Threads, ProcInOrder(procOf[c]), proc[procOf[c]].up,
           NEW task \in {"build", "rerank"}, NEW texts \in Seq(Text),
           task = "build" => texts \in DocSets,
           task = "rerank" => texts = <<QueryText>> /\ matrix[procOf[c]] # <<>>,
           Encode(c, task, texts)
    PROVE  OnCourse(thread'[c], KeyOf(c)) /\ Coherent(thread'[c].payload)
<1> DEFINE p == procOf[c]
           known == TextsOf(proc[p].rows)
           wanted == {texts[i] : i \in DOMAIN texts} \ known
           hit(i) == IF texts[i] \in known
                     THEN CHOOSE v \in proc[p].rows : v.text = texts[i]
                     ELSE Missing
           results == [i \in DOMAIN texts |-> hit(i)]
           pc == IF wanted = {} THEN "done" ELSE "embed"
           t == [Idle EXCEPT !.pc = pc,
             !.task = task, !.texts = texts, !.matrix = matrix[p],
             !.results = results, !.left = wanted]
<1>1. thread'[c] = t
    BY Moved DEF Encode
<1>2. \A i \in DOMAIN texts : texts[i] \in wanted \/ Good(hit(i), texts[i], KeyOf(c))
    <2>1. proc[p].rows \subseteq Vector
        BY Typed DEF Loaded
    <2>2. \A v \in proc[p].rows : v.under = KeyOf(c)
        BY DEF ProcInOrder, Coherent, KeyOf
    <2>3. QED  BY <2>1, <2>2, Lookup DEF Good
<1>3. task = "rerank" => GoodMatrix(matrix[p], KeyOf(c))
    BY DEF ProcInOrder, KeyOf
<1>4. pc \in {"done", "embed"} /\ (pc = "done" => wanted = {})
    OBVIOUS
<1> HIDE DEF p, known, wanted, hit, pc
<1>5. DOMAIN results = DOMAIN texts /\ \A i \in DOMAIN texts : results[i] = hit(i)
    OBVIOUS
<1> HIDE DEF results
<1>6. /\ t.pc = pc /\ t.task = task /\ t.texts = texts /\ t.matrix = matrix[p]
      /\ t.results = results /\ t.left = wanted /\ t.fresh = {} /\ t.payload = Absent
    BY DEF Idle
<1> HIDE DEF t
<1>7. OnCourse(t, KeyOf(c))
    BY <1>2, <1>3, <1>4, <1>5, <1>6 DEF OnCourse
<1>8. QED  BY <1>1, <1>6, <1>7, IdleInOrder

\* A step that leaves the call of thread c what it is.
SameCall(c) ==
    /\ thread'[c].task = thread[c].task /\ thread'[c].texts = thread[c].texts
    /\ thread'[c].matrix = thread[c].matrix /\ thread'[c].results = thread[c].results
    /\ thread'[c].left = thread[c].left /\ thread'[c].fresh = thread[c].fresh

LEMMA SameFields ==
    ASSUME TypeOK, NEW c \in Threads
    PROVE  /\ \A l : Goto(c, l) => SameCall(c) /\ thread'[c].payload = thread[c].payload
           /\ Done(c) => SameCall(c) /\ thread'[c].payload = Absent
           /\ \A u : Becomes(c, [thread[c] EXCEPT !.pc = "run", !.using = u])
                        => SameCall(c) /\ thread'[c].payload = thread[c].payload
           /\ \A f : Becomes(c, [thread[c] EXCEPT !.pc = "save", !.payload = f])
                        => SameCall(c) /\ thread'[c].payload = f
<1>t. thread[c] \in Local
    BY Typed
<1>1. ASSUME NEW l, Goto(c, l)
      PROVE  SameCall(c) /\ thread'[c].payload = thread[c].payload
    <2> DEFINE t == [thread[c] EXCEPT !.pc = l]
    <2>1. /\ t.task = thread[c].task /\ t.texts = thread[c].texts
          /\ t.matrix = thread[c].matrix /\ t.results = thread[c].results
          /\ t.left = thread[c].left /\ t.fresh = thread[c].fresh
          /\ t.payload = thread[c].payload
        BY <1>t DEF Local
    <2> HIDE DEF t
    <2>2. QED  BY <1>1, <2>1, Moved DEF t, Goto, SameCall
<1>2. ASSUME Done(c) PROVE SameCall(c) /\ thread'[c].payload = Absent
    <2> DEFINE t == [thread[c] EXCEPT !.pc = "done", !.payload = Absent]
    <2>1. /\ t.task = thread[c].task /\ t.texts = thread[c].texts
          /\ t.matrix = thread[c].matrix /\ t.results = thread[c].results
          /\ t.left = thread[c].left /\ t.fresh = thread[c].fresh
          /\ t.payload = Absent
        BY <1>t DEF Local
    <2> HIDE DEF t
    <2>2. QED  BY <1>2, <2>1, Moved DEF t, Done, SameCall
<1>3. ASSUME NEW u, Becomes(c, [thread[c] EXCEPT !.pc = "run", !.using = u])
      PROVE  SameCall(c) /\ thread'[c].payload = thread[c].payload
    <2> DEFINE t == [thread[c] EXCEPT !.pc = "run", !.using = u]
    <2>1. /\ t.task = thread[c].task /\ t.texts = thread[c].texts
          /\ t.matrix = thread[c].matrix /\ t.results = thread[c].results
          /\ t.left = thread[c].left /\ t.fresh = thread[c].fresh
          /\ t.payload = thread[c].payload
        BY <1>t DEF Local
    <2> HIDE DEF t
    <2>2. QED  BY <1>3, <2>1, Moved DEF t, SameCall
<1>4. ASSUME NEW f, Becomes(c, [thread[c] EXCEPT !.pc = "save", !.payload = f])
      PROVE  SameCall(c) /\ thread'[c].payload = f
    <2> DEFINE t == [thread[c] EXCEPT !.pc = "save", !.payload = f]
    <2>1. /\ t.task = thread[c].task /\ t.texts = thread[c].texts
          /\ t.matrix = thread[c].matrix /\ t.results = thread[c].results
          /\ t.left = thread[c].left /\ t.fresh = thread[c].fresh
          /\ t.payload = f
        BY <1>t DEF Local
    <2> HIDE DEF t
    <2>2. QED  BY <1>4, <2>1, Moved DEF t, SameCall
<1>5. QED  BY <1>1, <1>2, <1>3, <1>4

\* Such a step keeps the call on course, unless it is the one that ranks.
LEMMA SameCourse ==
    ASSUME NEW c \in Threads, OnCourse(thread[c], KeyOf(c)), SameCall(c),
           thread'[c].pc # "ranked",
           thread'[c].pc \in {"embed", "construct", "run"} \/ thread[c].left = {}
    PROVE  OnCourse(thread'[c], KeyOf(c))
BY DEF OnCourse, SameCall

\* A call that fails, or a close() that begins, has no course to keep.
LEMMA AnewInOrder ==
    ASSUME TypeOK, NEW c \in Threads, NEW k
    PROVE  /\ Fail(c) => OnCourse(thread'[c], k) /\ Coherent(thread'[c].payload)
           /\ Becomes(c, Idle) => OnCourse(thread'[c], k) /\ Coherent(thread'[c].payload)
           /\ \A u : Becomes(c, [Idle EXCEPT !.pc = "closing", !.using = u])
                        => OnCourse(thread'[c], k) /\ Coherent(thread'[c].payload)
<1>1. OnCourse([Idle EXCEPT !.pc = "failed"], k)
      /\ Coherent([Idle EXCEPT !.pc = "failed"].payload)
    BY DEF OnCourse, Coherent, Idle, Absent
<1>2. ASSUME NEW u
      PROVE  OnCourse([Idle EXCEPT !.pc = "closing", !.using = u], k)
             /\ Coherent([Idle EXCEPT !.pc = "closing", !.using = u].payload)
    BY DEF OnCourse, Coherent, Idle, Absent
<1>3. ASSUME NEW u, Becomes(c, [Idle EXCEPT !.pc = "closing", !.using = u])
      PROVE  OnCourse(thread'[c], k) /\ Coherent(thread'[c].payload)
    <2>1. thread'[c] = [Idle EXCEPT !.pc = "closing", !.using = u]
        BY <1>3, Moved
    <2>2. QED  BY <1>2, <2>1
<1>4. Fail(c) => thread'[c] = [Idle EXCEPT !.pc = "failed"]
    BY Moved DEF Fail
<1>5. Becomes(c, Idle) => thread'[c] = Idle
    BY Moved
<1>6. QED  BY <1>1, <1>3, <1>4, <1>5, IdleInOrder

\* A step of one thread that writes nothing but its own record.
LEMMA OwnStep ==
    ASSUME TypeOK, MixInv, NEW c \in Threads, proc[procOf[c]].up,
           \A o \in Threads \ {c} : thread'[o] = thread[o],
           UNCHANGED <<override, procOf, files, proc, matrix>>,
           OnCourse(thread'[c], KeyOf(c)), Coherent(thread'[c].payload)
    PROVE  MixInv'
<1>1. FilesInOrder'
    BY DEF MixInv, FilesInOrder, Paths
<1>2. \A p \in Procs : ProcInOrder(p)'
    BY ProcStays DEF MixInv
<1>3. \A o \in Threads : ThreadInOrder(o)'
    BY OthersInOrder DEF MixInv, TypeOK
<1>4. QED  BY <1>1, <1>2, <1>3 DEF MixInv

LEMMA MixStep == TypeOK /\ LoadInv /\ MixInv /\ [Next]_vars => MixInv'
<1> SUFFICES ASSUME TypeOK, LoadInv, MixInv, [Next]_vars PROVE MixInv'
    OBVIOUS
<1> USE DEF diskVars, fixedVars, boundVars
<1>m. /\ FilesInOrder
      /\ \A p \in Procs : ProcInOrder(p)
      /\ \A c \in Threads : ThreadInOrder(c)
    BY DEF MixInv
<1>o. \A c \in Threads : OnCourse(thread[c], KeyOf(c)) /\ Coherent(thread[c].payload)
    BY <1>m DEF ThreadInOrder
<1>1. ASSUME NEW p \in Procs, Start(p) PROVE MixInv'
    <2> DEFINE loaded == Load(Key[weights])
    <2>0. weights \in Models /\ ~proc[p].up
        BY <1>1 DEF Start, TypeOK
    <2>1. Coherent(loaded) /\ loaded.key = Key[weights]
        <3>1. PathOf(Key[weights]) \in Paths
            BY <2>0 DEF PathOf, Paths
        <3>2. Coherent(files[PathOf(Key[weights])])
            BY <1>m, <3>1 DEF FilesInOrder
        <3>3. Coherent([Absent EXCEPT !.key = Key[weights]])
              /\ [Absent EXCEPT !.key = Key[weights]].key = Key[weights]
            BY DEF Coherent, Absent
        <3>4. QED  BY <3>2, <3>3 DEF Load
    <2> DEFINE new == [up |-> TRUE, key |-> loaded.key, dim |-> loaded.dim,
                       rows |-> loaded.rows, dirty |-> FALSE]
    <2>2. Coherent(new) /\ new.up /\ new.key = Key[weights]
        BY <2>1 DEF Coherent
    <2>3. proc' = [proc EXCEPT ![p] = new]
        BY <1>1 DEF Start
    <2>u. UNCHANGED <<override, procOf, files, matrix, thread>>
        BY <1>1 DEF Start
    <2> HIDE DEF new
    <2>4. proc'[p] = new /\ \A q \in Procs : q # p => proc'[q] = proc[q]
        BY <2>3 DEF TypeOK
    <2>5. FilesInOrder'
        BY <1>m, <2>u DEF FilesInOrder, Paths
    <2>6. ProcInOrder(p)'
        <3>1. matrix[p] = <<>>
            BY <1>m, <2>0 DEF ProcInOrder
        <3>2. QED  BY <2>2, <2>4, <2>u, <3>1 DEF ProcInOrder
    <2>7. \A q \in Procs : ProcInOrder(q)'
        BY <1>m, <2>4, <2>6, <2>u, ProcStays
    <2>8. ASSUME NEW c \in Threads PROVE ThreadInOrder(c)'
        <3>1. CASE procOf[c] = p
            <4>1. thread'[c] = Idle
                BY <1>m, <2>0, <2>u, <3>1 DEF ThreadInOrder
            <4>2. QED  BY <4>1, IdleInOrder DEF ThreadInOrder
        <3>2. CASE procOf[c] # p
            BY <1>m, <2>4, <2>u, <3>2, Typed DEF ThreadInOrder, KeyOf
        <3>3. QED  BY <3>1, <3>2
    <2>9. QED  BY <2>5, <2>7, <2>8 DEF MixInv
<1>2. ASSUME NEW p \in Procs, Exit(p) PROVE MixInv'
    <2>u. /\ UNCHANGED <<override, procOf, files>>
          /\ \A c \in Threads : thread'[c] = IF procOf[c] = p THEN Idle ELSE thread[c]
        BY <1>2 DEF Exit
    <2>1. /\ proc'[p] = Down /\ matrix'[p] = <<>>
          /\ \A q \in Procs : q # p => proc'[q] = proc[q] /\ matrix'[q] = matrix[q]
        BY <1>2 DEF Exit, TypeOK
    <2>2. FilesInOrder'
        BY <1>m, <2>u DEF FilesInOrder, Paths
    <2>3. ProcInOrder(p)'
        <3>1. Down.up = FALSE
            BY DEF Down
        <3>2. QED  BY <2>1, <3>1, IdleInOrder DEF ProcInOrder
    <2>4. \A q \in Procs : ProcInOrder(q)'
        BY <1>m, <2>1, <2>3, <2>u, ProcStays
    <2>5. \A c \in Threads : ThreadInOrder(c)'
        BY <1>m, <2>1, <2>u, IdleInOrder, Typed DEF ThreadInOrder, KeyOf
    <2>6. QED  BY <2>2, <2>4, <2>5 DEF MixInv
<1>3. CASE ReplaceWeights
    BY <1>3, <1>m DEF ReplaceWeights, MixInv, FilesInOrder, Paths, ProcInOrder, ThreadInOrder,
                      Coherent, OnCourse, GoodMatrix, Good, KeyOf
<1>4. ASSUME NEW c \in Threads, Call(c) PROVE MixInv'
    <2>1. OnCourse(thread'[c], KeyOf(c)) /\ Coherent(thread'[c].payload)
        <3>0. proc[procOf[c]].up /\ procOf[c] \in Procs
            BY <1>4, Typed DEF Call, At
        <3>1. <<QueryText>> \in Seq(Text)
            OBVIOUS
        <3>2. CASE \E docs \in DocSets : Encode(c, "build", docs)
            BY <1>m, <3>0, <3>2, EncodeInOrder
        <3>3. CASE matrix[procOf[c]] # <<>> /\ Encode(c, "rerank", <<QueryText>>)
            BY <1>m, <3>0, <3>1, <3>3, EncodeInOrder
        <3>4. QED  BY <1>4, <3>2, <3>3 DEF Call
    <2>2. \A o \in Threads \ {c} : thread'[o] = thread[o]
        BY <1>4, OthersStay DEF Call, Encode
    <2>3. QED  BY <1>4, <2>1, <2>2, OwnStep DEF Call, At
<1>5. ASSUME NEW c \in Threads, LoadModel(c) PROVE MixInv'
    <2> DEFINE u == agent[procOf[c]]
    <2>1. \/ Becomes(c, [thread[c] EXCEPT !.pc = "run", !.using = u])
          \/ Goto(c, "construct")
        BY <1>5 DEF LoadModel
    <2>2. /\ SameCall(c) /\ thread'[c].payload = thread[c].payload
          /\ thread'[c].pc \in {"run", "construct"}
          /\ \A o \in Threads \ {c} : thread'[o] = thread[o]
        BY <2>1, SameFields, Leads, OthersStay
    <2>3. OnCourse(thread'[c], KeyOf(c)) /\ Coherent(thread'[c].payload)
        BY <1>o, <2>2, SameCourse
    <2>4. QED  BY <1>5, <2>2, <2>3, OwnStep DEF LoadModel, At
<1>6. ASSUME NEW c \in Threads, Construct(c) PROVE MixInv'
    <2> DEFINE p == procOf[c]
    <2>0. p \in Procs /\ proc[p].up
        BY <1>6, Typed DEF Construct, At
    <2>1. CASE Fail(c) /\ UNCHANGED <<agents, agent>>
        <3>1. \A o \in Threads \ {c} : thread'[o] = thread[o]
            BY <2>1, OthersStay
        <3>2. QED  BY <1>6, <2>0, <2>1, <3>1, AnewInOrder, OwnStep DEF Construct
    <2>2. CASE ~(Fail(c) /\ UNCHANGED <<agents, agent>>)
        <3> DEFINE new == Len(agents[p]) + 1
        <3>1. /\ Becomes(c, [thread[c] EXCEPT !.pc = "run", !.using = new])
              /\ UNCHANGED <<override, procOf, files, proc, matrix>>
            BY <1>6, <2>2 DEF Construct
        <3>2. /\ SameCall(c) /\ thread'[c].payload = thread[c].payload
              /\ thread'[c].pc = "run"
              /\ \A o \in Threads \ {c} : thread'[o] = thread[o]
            BY <3>1, SameFields, Leads, OthersStay
        <3>3. OnCourse(thread'[c], KeyOf(c)) /\ Coherent(thread'[c].payload)
            BY <1>o, <3>2, SameCourse
        <3>4. QED  BY <2>0, <3>1, <3>2, <3>3, OwnStep
    <2>3. QED  BY <2>1, <2>2
<1>7. ASSUME NEW c \in Threads, Embed(c) PROVE MixInv'
    <2> DEFINE p == procOf[c]
               k == thread[c]
    <2>0. p \in Procs /\ proc[p].up /\ k \in Local /\ k.pc = "run"
        BY <1>7, Typed DEF Embed, At
    <2>1. CASE Fail(c)
        <3>1. \A o \in Threads \ {c} : thread'[o] = thread[o]
            BY <2>1, OthersStay
        <3>2. QED  BY <1>7, <2>0, <2>1, <3>1, AnewInOrder, OwnStep DEF Embed
    <2>2. CASE ~Fail(c)
        <3>1. PICK x \in FirstOf(c, Wanted(c)) :
                 Becomes(c, [k EXCEPT !.pc = "embed", !.using = 0,
                    !.fresh = @ \cup {[model |-> agents[p][k.using].model, text |-> x,
                                      under |-> proc[p].key]}])
            BY <1>7, <2>2 DEF Embed
        <3> DEFINE v == [model |-> agents[p][k.using].model, text |-> x,
                         under |-> proc[p].key]
                   t == [k EXCEPT !.pc = "embed", !.using = 0, !.fresh = @ \cup {v}]
        <3>2. v.under = KeyOf(c)
            BY DEF KeyOf
        <3> HIDE DEF v
        <3>3. /\ t.pc = "embed" /\ t.fresh = k.fresh \cup {v} /\ t.left = k.left
              /\ t.task = k.task /\ t.texts = k.texts /\ t.matrix = k.matrix
              /\ t.results = k.results /\ t.payload = k.payload
            BY <2>0 DEF Local
        <3>4. thread'[c] = t /\ \A o \in Threads \ {c} : thread'[o] = thread[o]
            BY <3>1, Moved DEF v
        <3> HIDE DEF t
        <3>5. OnCourse(t, KeyOf(c)) /\ Coherent(t.payload)
            BY <1>o, <3>2, <3>3 DEF OnCourse
        <3>6. QED  BY <1>7, <2>0, <3>4, <3>5, OwnStep DEF Embed
    <2>3. QED  BY <2>1, <2>2
<1>8. ASSUME NEW c \in Threads, Fill(c) PROVE MixInv'
    <2> DEFINE p == procOf[c]
               k == thread[c]
    <2>0. p \in Procs /\ proc[p].up /\ k \in Local /\ k.pc = "embed"
        BY <1>8, Typed DEF Fill, At
    <2>1. PICK v \in k.fresh :
             /\ proc' = [proc EXCEPT ![p] = Put(@, v)]
             /\ Becomes(c, [k EXCEPT
                   !.pc = IF k.left = {v.text} THEN "filled" ELSE "embed",
                   !.left = @ \ {v.text}, !.fresh = @ \ {v},
                   !.results = [i \in DOMAIN @ |->
                                  IF k.texts[i] = v.text THEN v ELSE @[i]]])
        BY <1>8 DEF Fill
    <2> DEFINE pc == IF k.left = {v.text} THEN "filled" ELSE "embed"
               results == [i \in DOMAIN k.results |->
                             IF k.texts[i] = v.text THEN v ELSE k.results[i]]
               t == [k EXCEPT !.pc = pc, !.left = @ \ {v.text}, !.fresh = @ \ {v},
                              !.results = results]
    <2>2. thread'[c] = t /\ \A o \in Threads \ {c} : thread'[o] = thread[o]
        BY <2>1, Moved
    <2>3. pc \in {"filled", "embed"} /\ (pc = "filled" => k.left = {v.text})
        OBVIOUS
    <2>4. /\ DOMAIN results = DOMAIN k.results
          /\ \A i \in DOMAIN results : results[i] = IF k.texts[i] = v.text
                                                    THEN v ELSE k.results[i]
        OBVIOUS
    <2> HIDE DEF pc, results
    <2>5. /\ t.pc = pc /\ t.fresh = k.fresh \ {v} /\ t.left = k.left \ {v.text}
          /\ t.task = k.task /\ t.texts = k.texts /\ t.matrix = k.matrix
          /\ t.results = results /\ t.payload = k.payload
        BY <2>0 DEF Local
    <2> HIDE DEF t
    <2>6. v \in Vector /\ v.under = KeyOf(c)
        BY <1>o, <2>0 DEF OnCourse, Local
    <2>7. OnCourse(t, KeyOf(c)) /\ Coherent(t.payload)
        <3>1. Good(v, v.text, KeyOf(c))
            BY <2>6 DEF Good
        <3>2. \A i \in DOMAIN t.texts :
                 t.texts[i] \in t.left \/ Good(t.results[i], t.texts[i], KeyOf(c))
            BY <1>o, <2>4, <2>5, <3>1 DEF OnCourse
        <3>3. QED  BY <1>o, <2>3, <2>4, <2>5, <3>2 DEF OnCourse
    <2>8. ProcInOrder(p)'
        <3>1. v.under = proc[p].key
            BY <2>6 DEF KeyOf
        <3>2. Coherent(Put(proc[p], v)) /\ Put(proc[p], v).up /\ Put(proc[p], v).key = proc[p].key
            BY <1>m, <2>0, <2>6, <3>1, PutInOrder, Typed DEF ProcInOrder
        <3>3. proc'[p] = Put(proc[p], v)
            BY <2>0, <2>1 DEF TypeOK
        <3>4. QED  BY <1>8, <1>m, <2>0, <3>2, <3>3 DEF Fill, ProcInOrder
    <2>9. \A q \in Procs : q # p => proc'[q] = proc[q]
        BY <2>1 DEF TypeOK
    <2>10. UNCHANGED <<override, procOf, files, matrix>>
        BY <1>8 DEF Fill
    <2>11. FilesInOrder'
        BY <1>m, <2>10 DEF FilesInOrder, Paths
    <2>12. \A q \in Procs : ProcInOrder(q)'
        BY <1>m, <2>8, <2>9, <2>10, ProcStays
    <2>13. \A q \in Procs : proc'[q].up = proc[q].up /\ proc'[q].key = proc[q].key
        <3>1. \A b \in Loaded : Put(b, v).up = b.up /\ Put(b, v).key = b.key
            BY DEF Put, Loaded
        <3>2. QED  BY <2>1, <3>1, Typed DEF TypeOK
    <2>14. \A o \in Threads : ThreadInOrder(o)'
        BY <1>m, <2>0, <2>2, <2>7, <2>10, <2>13, OthersInOrder DEF TypeOK
    <2>15. QED  BY <2>11, <2>12, <2>14 DEF MixInv
<1>9. ASSUME NEW c \in Threads, BeginSave(c) PROVE MixInv'
    <2> DEFINE cache == proc[procOf[c]]
               f == [key |-> cache.key, dim |-> cache.dim, rows |-> cache.rows]
    <2>0. /\ procOf[c] \in Procs /\ cache.up /\ thread[c].pc = "filled"
          /\ thread[c].left = {}
        BY <1>9, <1>o, Typed DEF BeginSave, At, OnCourse
    <2>1. \/ Becomes(c, [thread[c] EXCEPT !.pc = "save", !.payload = f])
          \/ Done(c)
        BY <1>9 DEF BeginSave
    <2>2. Coherent(f) /\ Coherent(Absent)
        BY <1>m, <2>0, IdleInOrder DEF ProcInOrder, Coherent
    <2> HIDE DEF f
    <2>3. /\ SameCall(c) /\ Coherent(thread'[c].payload)
          /\ thread'[c].pc \in {"save", "done"}
          /\ \A o \in Threads \ {c} : thread'[o] = thread[o]
        BY <2>1, <2>2, SameFields, Leads, OthersStay
    <2>4. OnCourse(thread'[c], KeyOf(c))
        BY <1>o, <2>0, <2>3, SameCourse
    <2>5. QED  BY <1>9, <2>0, <2>3, <2>4, OwnStep DEF BeginSave
<1>10. ASSUME NEW c \in Threads, Pack(c) PROVE MixInv'
    <2>0. proc[procOf[c]].up /\ thread[c].left = {}
        BY <1>10, <1>o DEF Pack, At, OnCourse
    <2>1. \A o \in Threads \ {c} : thread'[o] = thread[o]
        BY <1>10, OthersStay DEF Pack
    <2>2. OnCourse(thread'[c], KeyOf(c)) /\ Coherent(thread'[c].payload)
        <3>1. CASE Fail(c)
            BY <3>1, AnewInOrder
        <3>2. CASE Goto(c, "replace")
            <4>1. /\ SameCall(c) /\ thread'[c].payload = thread[c].payload
                  /\ thread'[c].pc = "replace"
                BY <3>2, SameFields, Leads
            <4>2. QED  BY <1>o, <2>0, <4>1, SameCourse
        <3>3. QED  BY <1>10, <3>1, <3>2 DEF Pack
    <2>3. QED  BY <1>10, <2>0, <2>1, <2>2, OwnStep DEF Pack
<1>11. ASSUME NEW c \in Threads, Replace(c) PROVE MixInv'
    <2> DEFINE p == procOf[c]
    <2>0. p \in Procs /\ proc[p].up /\ thread[c].left = {}
        BY <1>11, <1>o, Typed DEF Replace, At, OnCourse
    <2>1. /\ UNCHANGED <<override, procOf, matrix>> /\ Done(c)
          /\ \/ /\ files' = [files EXCEPT ![PathOf(proc[p].key)] = thread[c].payload]
                /\ proc' = [proc EXCEPT ![p] = [@ EXCEPT !.dirty = FALSE]]
             \/ UNCHANGED <<files, proc>>
        BY <1>11 DEF Replace
    <2>2. /\ SameCall(c) /\ thread'[c].payload = Absent /\ thread'[c].pc = "done"
          /\ \A o \in Threads \ {c} : thread'[o] = thread[o]
        BY <2>1, SameFields, Leads, OthersStay
    <2>3. OnCourse(thread'[c], KeyOf(c)) /\ Coherent(thread'[c].payload)
        BY <1>o, <2>0, <2>2, SameCourse, IdleInOrder
    <2>4. FilesInOrder'
        <3>1. \A path \in Paths : files'[path] \in {files[path], thread[c].payload}
            BY <2>1 DEF TypeOK
        <3>2. QED  BY <1>m, <1>o, <2>1, <3>1 DEF FilesInOrder, Paths
    <2>5. \A b \in Loaded : Coherent(b)
             => /\ Coherent([b EXCEPT !.dirty = FALSE])
                /\ [b EXCEPT !.dirty = FALSE].up = b.up
                /\ [b EXCEPT !.dirty = FALSE].key = b.key
        BY DEF Loaded, Coherent
    <2>6. \A q \in Procs : /\ proc'[q].up = proc[q].up
                           /\ proc'[q].key = proc[q].key /\ Coherent(proc'[q])
        <3> TAKE q \in Procs
        <3>1. proc'[q] \in {proc[q], [proc[q] EXCEPT !.dirty = FALSE]}
            BY <2>1 DEF TypeOK
        <3>2. Coherent(proc[q]) /\ proc[q] \in Loaded
            BY <1>m, Typed DEF ProcInOrder
        <3>3. QED  BY <2>5, <3>1, <3>2
    <2>7. \A q \in Procs : ProcInOrder(q)'
        BY <1>m, <2>1, <2>6 DEF ProcInOrder
    <2>8. \A o \in Threads : ThreadInOrder(o)'
        BY <1>m, <2>0, <2>1, <2>2, <2>3, <2>6, OthersInOrder DEF TypeOK
    <2>9. QED  BY <2>4, <2>7, <2>8 DEF MixInv
<1>12. ASSUME NEW c \in Threads, Build(c) PROVE MixInv'
    <2> DEFINE p == procOf[c]
               k == thread[c]
    <2>0. /\ p \in Procs /\ proc[p].up /\ k \in Local
          /\ k.pc = "done" /\ k.task = "build"
        BY <1>12, Typed DEF Build, At
    <2>1. /\ UNCHANGED <<override, procOf, files, proc>>
          /\ thread'[c] = Idle /\ \A o \in Threads \ {c} : thread'[o] = thread[o]
        BY <1>12, Moved DEF Build
    <2>2. OneWidth(k.results) => GoodMatrix(k.results, KeyOf(c))
        <3> SUFFICES ASSUME OneWidth(k.results) PROVE GoodMatrix(k.results, KeyOf(c))
            OBVIOUS
        <3>1. /\ k.texts \in DocSets /\ DOMAIN k.results = DOMAIN k.texts
              /\ \A i \in DOMAIN k.texts : Good(k.results[i], k.texts[i], KeyOf(c))
            BY <1>o, <2>0 DEF OnCourse
        <3>2. k.texts \in Seq(Text) /\ k.results \in Seq(Row)
            BY <2>0 DEF Local
        <3>3. /\ Len(k.results) = Len(k.texts)
              /\ DOMAIN k.texts = 1 .. Len(k.texts)
              /\ DOMAIN k.results = 1 .. Len(k.texts)
            BY <3>1, <3>2
        <3>4. QED  BY <3>1, <3>3 DEF GoodMatrix, OneWidth
    <2>3. /\ matrix'[p] \in {matrix[p], k.results}
          /\ matrix'[p] # matrix[p] => OneWidth(k.results)
          /\ \A q \in Procs : q # p => matrix'[q] = matrix[q]
        BY <1>12, <2>0 DEF Build, TypeOK
    <2>4. FilesInOrder'
        BY <1>m, <2>1 DEF FilesInOrder, Paths
    <2>5. ProcInOrder(p)'
        BY <1>m, <2>0, <2>1, <2>2, <2>3 DEF ProcInOrder, KeyOf
    <2>6. \A q \in Procs : ProcInOrder(q)'
        BY <1>m, <2>1, <2>3, <2>5, ProcStays
    <2>7. \A o \in Threads : ThreadInOrder(o)'
        BY <1>m, <2>0, <2>1, IdleInOrder, OthersInOrder DEF TypeOK
    <2>8. QED  BY <2>4, <2>6, <2>7 DEF MixInv
<1>13. ASSUME NEW c \in Threads, Rerank(c) PROVE MixInv'
    <2>0. /\ proc[procOf[c]].up /\ thread[c].pc = "done"
          /\ thread[c].task = "rerank" /\ thread[c].left = {}
        BY <1>13, <1>o DEF Rerank, At, OnCourse
    <2> DEFINE one == OneWidth(<<thread[c].matrix[1], thread[c].results[1]>>)
    <2>1. Becomes(c, Idle) \/ (Goto(c, "ranked") /\ one)
        BY <1>13 DEF Rerank
    <2>2. \A o \in Threads \ {c} : thread'[o] = thread[o]
        BY <2>1, OthersStay
    <2>3. one => Width[thread[c].matrix[1].model] = Width[thread[c].results[1].model]
        BY DEF OneWidth
    <2> HIDE DEF one
    <2>4. OnCourse(thread'[c], KeyOf(c)) /\ Coherent(thread'[c].payload)
        <3>1. CASE Becomes(c, Idle)
            BY <3>1, AnewInOrder
        <3>2. CASE Goto(c, "ranked") /\ one
            <4>1. SameCall(c) /\ thread'[c].payload = thread[c].payload
                BY <3>2, SameFields
            <4>2. QED  BY <1>o, <2>0, <2>3, <3>2, <4>1 DEF OnCourse, SameCall
        <3>3. QED  BY <2>1, <3>1, <3>2
    <2>5. QED  BY <1>13, <2>0, <2>2, <2>4, OwnStep DEF Rerank
<1>14. ASSUME NEW c \in Threads, Take(c) \/ Close(c) PROVE MixInv'
    <2>1. \/ Becomes(c, Idle)
          \/ Becomes(c, [Idle EXCEPT !.pc = "closing", !.using = agent[procOf[c]]])
        BY <1>14 DEF Take, Close
    <2>2. OnCourse(thread'[c], KeyOf(c)) /\ Coherent(thread'[c].payload)
        BY <2>1, AnewInOrder
    <2>3. \A o \in Threads \ {c} : thread'[o] = thread[o]
        BY <2>1, OthersStay
    <2>4. QED  BY <1>14, <2>2, <2>3, OwnStep DEF Take, Close, At
<1>15. ASSUME NEW c \in Threads, Release(c) PROVE MixInv'
    <2>0. proc[procOf[c]].up
        BY <1>15 DEF Release, At
    <2>1. Becomes(c, Idle) /\ UNCHANGED <<override, procOf, files, proc, matrix>>
        BY <1>15 DEF Release
    <2>2. OnCourse(thread'[c], KeyOf(c)) /\ Coherent(thread'[c].payload)
        BY <2>1, AnewInOrder
    <2>3. \A o \in Threads \ {c} : thread'[o] = thread[o]
        BY <2>1, OthersStay
    <2>4. QED  BY <2>0, <2>1, <2>2, <2>3, OwnStep
<1>16. CASE UNCHANGED vars
    BY <1>16 DEF vars, MixInv, FilesInOrder, Paths, ProcInOrder, ThreadInOrder,
                 Coherent, OnCourse, GoodMatrix, Good, KeyOf
<1>17. QED
    BY <1>1, <1>2, <1>3, <1>4, <1>5, <1>6, <1>7, <1>8, <1>9, <1>10, <1>11, <1>12,
       <1>13, <1>14, <1>15, <1>16 DEF Next

\* A sequence joined to another, and one as a function.
LEMMA Joined ==
    ASSUME NEW S, NEW s \in Seq(S), NEW e \in Seq(S)
    PROVE  /\ s \o e \in Seq(S) /\ Len(s \o e) = Len(s) + Len(e)
           /\ DOMAIN (s \o e) = 1 .. Len(s) + Len(e)
           /\ \A i \in 1 .. Len(s) + Len(e) :
                 (s \o e)[i] = IF i <= Len(s) THEN s[i] ELSE e[i - Len(s)]
OBVIOUS

LEMMA Pointwise ==
    ASSUME NEW S, NEW s \in Seq(S)
    PROVE  s = [i \in 1 .. Len(s) |-> s[i]]
OBVIOUS

\* Rows of one key and width, for documents and the query.
Comparable(rows, k) ==
    /\ \E docs \in DocSets :
          [i \in DOMAIN rows |-> rows[i].text] = Append(docs, QueryText)
    /\ OneWidth(rows)
    /\ \A i \in DOMAIN rows : rows[i].under = k

\* The rows that a query is compared in have the key k and one width.
LEMMA OneKey ==
    ASSUME NEW k, NEW m \in Seq(Row), NEW r \in Seq(Row), GoodMatrix(m, k),
           Len(r) = 1, Good(r[1], QueryText, k), Width[m[1].model] = Width[r[1].model]
    PROVE  Comparable(m \o r, k)
<1>0. /\ DOMAIN (m \o r) = 1 .. Len(m) + Len(r)
      /\ \A i \in 1 .. Len(m) + Len(r) :
            (m \o r)[i] = IF i <= Len(m) THEN m[i] ELSE r[i - Len(m)]
    BY Joined
<1> DEFINE rows == m \o r
           texts == [i \in DOMAIN rows |-> rows[i].text]
<1>1. PICK docs \in DocSets :
         /\ Len(m) = Len(docs)
         /\ \A i \in 1 .. Len(docs) : /\ Good(m[i], docs[i], k)
                                      /\ Width[m[i].model] = Width[m[1].model]
    BY DEF GoodMatrix
<1>2. docs \in Seq(Text) /\ Len(docs) \in Nat \ {0}
    OBVIOUS
<1>3. /\ DOMAIN rows = 1 .. Len(docs) + 1
      /\ \A i \in 1 .. Len(docs) : rows[i] = m[i]
      /\ rows[Len(docs) + 1] = r[1]
    <2>1. /\ DOMAIN rows = 1 .. Len(m) + Len(r)
          /\ \A i \in 1 .. Len(m) + Len(r) :
                rows[i] = IF i <= Len(m) THEN m[i] ELSE r[i - Len(m)]
        BY <1>0
    <2> HIDE DEF rows
    <2>2. Len(m) = Len(docs) /\ Len(r) = 1
        BY <1>1
    <2>3. QED  BY <1>2, <2>1, <2>2
<1> HIDE DEF rows
<1>4. texts = Append(docs, QueryText)
    <2>1. Append(docs, QueryText) \in Seq(Text) /\ Len(Append(docs, QueryText)) = Len(docs) + 1
        BY <1>2
    <2>2. \A i \in 1 .. Len(docs) + 1 : rows[i].text = Append(docs, QueryText)[i]
        BY <1>1, <1>2, <1>3 DEF Good
    <2>3. texts = [i \in 1 .. Len(docs) + 1 |-> Append(docs, QueryText)[i]]
        BY <1>3, <2>2
    <2>4. QED  BY <2>1, <2>3, Pointwise
<1>5. OneWidth(rows) /\ \A i \in DOMAIN rows : rows[i].under = k
    <2>1. rows[1] = m[1]
        BY <1>2, <1>3
    <2>2. \A i \in DOMAIN rows : /\ rows[i].under = k
                                 /\ Width[rows[i].model] = Width[m[1].model]
        <3> TAKE i \in DOMAIN rows
        <3>1. CASE i = Len(docs) + 1
            BY <1>3, <3>1 DEF Good
        <3>2. CASE i \in 1 .. Len(docs)
            BY <1>1, <1>3, <3>2 DEF Good
        <3>3. QED  BY <1>2, <1>3, <3>1, <3>2
    <2>3. QED  BY <2>1, <2>2 DEF OneWidth
<1>6. QED  BY <1>4, <1>5 DEF rows, Comparable

LEMMA RankedUnderOneKey == TypeOK /\ MixInv => NeverMixed
<1> SUFFICES ASSUME TypeOK, MixInv, NEW c \in Threads, At(c, "ranked")
             PROVE  Comparable(thread[c].matrix \o thread[c].results, KeyOf(c))
    BY DEF NeverMixed, Comparable, KeyOf
<1>1. LET m == thread[c].matrix
          r == thread[c].results
          texts == thread[c].texts
      IN /\ GoodMatrix(m, KeyOf(c)) /\ texts = <<QueryText>> /\ DOMAIN r = DOMAIN texts
         /\ \A i \in DOMAIN texts : Good(r[i], texts[i], KeyOf(c))
         /\ Width[m[1].model] = Width[r[1].model]
    BY DEF MixInv, ThreadInOrder, OnCourse, At
<1>2. thread[c].matrix \in Seq(Row) /\ thread[c].results \in Seq(Row)
    BY Typed DEF Local
<1>3. Len(thread[c].results) = 1 /\ Good(thread[c].results[1], QueryText, KeyOf(c))
    BY <1>1, <1>2
<1>4. Width[thread[c].matrix[1].model] = Width[thread[c].results[1].model]
    BY <1>1
<1>5. QED  BY <1>1, <1>2, <1>3, <1>4, OneKey

\* Whatever the interleaving, the file's writers and the moments at which the
\* weights are replaced, no order compares vectors made under two keys or of two
\* widths (VectorCache.load and put, VectorReranker.rerank).  The key is all
\* that is compared: of weights it does not tell apart nothing is said.
THEOREM VectorsNeverMixed == Spec => []NeverMixed
<1>1. Init => MixInv
    BY MixInit
<1>2. TypeOK /\ LoadInv /\ MixInv /\ [Next]_vars => MixInv'
    BY MixStep
<1>3. TypeOK /\ MixInv => NeverMixed
    BY RankedUnderOneKey
<1>4. QED  BY <1>1, <1>2, <1>3, TypeCorrect, PTL DEF Spec
=============================================================================

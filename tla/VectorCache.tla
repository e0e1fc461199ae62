----------------------------- MODULE VectorCache -----------------------------
(***************************************************************************)
(* The optional vector half of retrieval: a model that is loaded once per  *)
(* process (embedding/needle_embedder.py), a cache of its vectors in one   *)
(* file (embedding/cache.py), and the reranker that uses both              *)
(* (retrieval/vectors.py).  Processes share the file; the threads of one   *)
(* process share the model, the cache and the reranker.                    *)
(*                                                                         *)
(* A vector is known by the model that made it, the text it stands for and *)
(* the key of the process that made it: what load() and the file's name go *)
(* by.  The key is taken when the process starts, the weights are read     *)
(* when the first text is embedded, and they may change in between.        *)
(***************************************************************************)
EXTENDS Naturals, Sequences

CONSTANTS
    Procs, Threads,
    Layouts,     \* where the threads may run: functions Threads -> Procs
    Models,      \* what the weights file may hold
    Key, Width,  \* model -> model_key() of its file, width of its vectors
    Text,        \* what the model may be asked to embed
    DocSets,     \* the documents of a target: document_text of each tool
    QueryText,   \* what is typed
    MaxStarts,   \* bound: processes started
    MaxCloses,   \* bound: calls of close()
    MaxSwaps     \* bound: times the weights are replaced

ASSUME ModelAssumption == \A m \in Models : Width[m] \in Nat \ {0}
ASSUME LayoutAssumption == Layouts \subseteq [Threads -> Procs]
ASSUME ThreadAssumption == "free" \notin Threads

\* No matrix is built of no documents (vectors.py:101).
ASSUME TextAssumption ==
    QueryText \in Text /\ DocSets \subseteq Seq(Text) \ {<<>>}

VARIABLES
    procOf,    \* where each thread runs
    weights,   \* the model on disk
    override,  \* is CL_AI_VECTORS set?
    files,     \* path -> what load() finds there
    proc,      \* process -> [up, key, dim, rows, dirty]
    agents,    \* process -> every model it ever loaded: [model, live]
    agent,     \* process -> the one it uses, 0 for none
    lock,      \* process -> the thread inside _load, or "free"
    matrix,    \* process -> the rows of its last reranker, <<>> when there is none
    thread,    \* thread -> its call: what for, and its local variables
    starts, closes, swaps

fixedVars == <<procOf, override>>
diskVars == <<weights, files, fixedVars>>
boundVars == <<starts, closes, swaps>>
vars == <<diskVars, proc, agents, agent, lock, matrix, thread, boundVars>>

\* A cache holds one row per text; no file is an empty one of no key.
Absent == [key |-> "none", dim |-> 0, rows |-> {}]
Idle == [pc |-> "idle", task |-> "none", texts |-> <<>>, matrix |-> <<>>,
         results |-> <<>>, left |-> {}, fresh |-> {}, using |-> 0, payload |-> Absent]
Missing == [model |-> "none", text |-> "none", under |-> "none"]
Down == [up |-> FALSE, key |-> "none", dim |-> 0, rows |-> {}, dirty |-> FALSE]

TextsOf(rows) == {v.text : v \in rows}

\* default_vector_path: a file of its own per key, unless overridden.
PathOf(key) == IF override THEN "shared" ELSE key
Paths == {Key[m] : m \in Models} \cup {"shared"}

Init ==
    /\ procOf \in Layouts
    /\ weights \in Models
    /\ override \in BOOLEAN
    /\ files = [f \in Paths |-> Absent]
    /\ proc = [p \in Procs |-> Down]
    /\ agents = [p \in Procs |-> <<>>]
    /\ agent = [p \in Procs |-> 0]
    /\ lock = [p \in Procs |-> "free"]
    /\ matrix = [p \in Procs |-> <<>>]
    /\ thread = [c \in Threads |-> Idle]
    /\ starts = 0 /\ closes = 0 /\ swaps = 0

At(c, pc) == thread[c].pc = pc /\ proc[procOf[c]].up
Becomes(c, t) == thread' = [thread EXCEPT ![c] = t]
Goto(c, pc) == Becomes(c, [thread[c] EXCEPT !.pc = pc])
Done(c) == Becomes(c, [thread[c] EXCEPT !.pc = "done", !.payload = Absent])
Fail(c) == Becomes(c, [Idle EXCEPT !.pc = "failed"])

-----------------------------------------------------------------------------
(* Processes and the disk. *)

\* Mutant: whatever is in the file is taken.
LoadAnyKey(key) ==
    LET found == files[PathOf(key)] IN [found EXCEPT !.key = key]

\* VectorCache.load: rows of another model are no rows at all.
Load(key) ==
    LET found == files[PathOf(key)]
    IN IF found.key = key THEN found ELSE [Absent EXCEPT !.key = key]

\* build_embedder: the key is that of the weights now on disk.
Start(p) ==
    /\ ~proc[p].up /\ starts < MaxStarts
    /\ LET loaded == Load(Key[weights])
       IN proc' = [proc EXCEPT ![p] = [up |-> TRUE, key |-> loaded.key, dim |-> loaded.dim,
                                       rows |-> loaded.rows, dirty |-> FALSE]]
    /\ starts' = starts + 1
    /\ UNCHANGED <<diskVars, agents, agent, lock, matrix, thread, closes, swaps>>

\* The process ends or is killed, wherever its threads are.
Exit(p) ==
    /\ proc[p].up
    /\ proc' = [proc EXCEPT ![p] = Down]
    /\ agents' = [agents EXCEPT ![p] = <<>>]
    /\ agent' = [agent EXCEPT ![p] = 0]
    /\ lock' = [lock EXCEPT ![p] = "free"]
    /\ matrix' = [matrix EXCEPT ![p] = <<>>]
    /\ thread' = [c \in Threads |-> IF procOf[c] = p THEN Idle ELSE thread[c]]
    /\ UNCHANGED <<diskVars, boundVars>>

\* A finetune or an update replaces the weights, whoever runs.
ReplaceWeights ==
    /\ swaps < MaxSwaps
    /\ \E m \in Models \ {weights} : weights' = m
    /\ swaps' = swaps + 1
    /\ UNCHANGED <<fixedVars, files, proc, agents, agent, lock, matrix, thread, starts, closes>>

-----------------------------------------------------------------------------
(* CachingEmbedder.encode *)

\* build() with the documents or rerank() with the query: hits are taken
\* from the cache, each missing text is wanted once.
Encode(c, task, texts) ==
    LET p == procOf[c]
        known == TextsOf(proc[p].rows)
        wanted == {texts[i] : i \in DOMAIN texts} \ known
    IN Becomes(c, [Idle EXCEPT
          !.pc = IF wanted = {} THEN "done" ELSE "embed",
          !.task = task, !.texts = texts, !.matrix = matrix[p],
          !.results = [i \in DOMAIN texts |->
                          IF texts[i] \in known
                          THEN CHOOSE v \in proc[p].rows : v.text = texts[i]
                          ELSE Missing],
          !.left = wanted])

\* A query holds on to the reranker that it began with.
Call(c) ==
    /\ At(c, "idle")
    /\ \/ /\ matrix[procOf[c]] = <<>>
          /\ \E docs \in DocSets : Encode(c, "build", docs)
       \/ matrix[procOf[c]] /= <<>> /\ Encode(c, "rerank", <<QueryText>>)
    /\ UNCHANGED <<diskVars, proc, agents, agent, lock, matrix, boundVars>>

\* What the model has yet to embed, and of some texts the one that is
\* wanted next, in the order of first positions.
Wanted(c) == thread[c].left \ TextsOf(thread[c].fresh)
FirstOf(c, S) ==
    {t \in S : \E i \in DOMAIN thread[c].texts :
                  /\ thread[c].texts[i] = t
                  /\ \A j \in 1 .. i - 1 : thread[c].texts[j] \notin S}

\* Mutant: without the lock.
LoadUnlocked(c) ==
    /\ At(c, "embed") /\ Wanted(c) /= {}
    /\ LET p == procOf[c]
       IN IF agent[p] /= 0
          THEN Becomes(c, [thread[c] EXCEPT !.pc = "run", !.using = agent[p]]) /\ UNCHANGED lock
          ELSE Goto(c, "construct") /\ UNCHANGED lock
    /\ UNCHANGED <<diskVars, proc, agents, agent, matrix, boundVars>>

\* _load: under the lock, the agent there is or a new one.
LoadModel(c) ==
    /\ At(c, "embed") /\ Wanted(c) /= {}
    /\ LET p == procOf[c]
       IN /\ lock[p] = "free"
          /\ IF agent[p] /= 0
             THEN Becomes(c, [thread[c] EXCEPT !.pc = "run", !.using = agent[p]]) /\ UNCHANGED lock
             ELSE Goto(c, "construct") /\ lock' = [lock EXCEPT ![p] = c]
    /\ UNCHANGED <<diskVars, proc, agents, agent, matrix, boundVars>>

\* Needle(weights=...) returns or raises; either way the lock is released.
Construct(c) ==
    /\ At(c, "construct")
    /\ LET p == procOf[c]
       IN /\ lock' = [lock EXCEPT ![p] = "free"]
          /\ \/ LET new == Len(agents[p]) + 1
                IN /\ agents' = [agents EXCEPT ![p] = Append(@, [model |-> weights, live |-> TRUE])]
                   /\ agent' = [agent EXCEPT ![p] = new]
                   /\ Becomes(c, [thread[c] EXCEPT !.pc = "run", !.using = new])
             \/ Fail(c) /\ UNCHANGED <<agents, agent>>
    /\ UNCHANGED <<diskVars, proc, matrix, boundVars>>

\* _raw: the agent embeds one text, or raises; a released one may do either.
Embed(c) ==
    /\ At(c, "run")
    /\ \/ \E t \in FirstOf(c, Wanted(c)) :
            Becomes(c, [thread[c] EXCEPT !.pc = "embed", !.using = 0,
               !.fresh = @ \cup {[model |-> agents[procOf[c]][thread[c].using].model,
                                 text |-> t, under |-> proc[procOf[c]].key]}])
       \/ Fail(c)
    /\ UNCHANGED <<diskVars, proc, agents, agent, lock, matrix, boundVars>>

\* VectorCache.put: a vector of another width than the cache's is ignored.
Put(cache, v) ==
    IF cache.dim \in {0, Width[v.model]}
    THEN [cache EXCEPT !.dim = Width[v.model], !.dirty = TRUE,
                       !.rows = {r \in @ : r.text # v.text} \cup {v}]
    ELSE cache

\* The whole batch is there: row by row it is put and takes its positions.
Fill(c) ==
    /\ At(c, "embed") /\ Wanted(c) = {}
    /\ LET t == thread[c]
       IN \E v \in t.fresh :
          /\ v.text \in FirstOf(c, t.left)
          /\ proc' = [proc EXCEPT ![procOf[c]] = Put(@, v)]
          /\ Becomes(c, [t EXCEPT
                !.pc = IF t.left = {v.text} THEN "filled" ELSE "embed",
                !.left = @ \ {v.text}, !.fresh = @ \ {v},
                !.results = [i \in DOMAIN @ |-> IF t.texts[i] = v.text THEN v ELSE @[i]]])
    /\ UNCHANGED <<diskVars, agents, agent, lock, matrix, boundVars>>

\* save() begins to pack the rows, or another thread's save left nothing
\* to do, or there is no width yet.
BeginSave(c) ==
    /\ At(c, "filled")
    /\ LET cache == proc[procOf[c]]
       IN IF cache.dirty /\ cache.dim /= 0
          THEN Becomes(c, [thread[c] EXCEPT !.pc = "save",
                  !.payload = [key |-> cache.key, dim |-> cache.dim, rows |-> cache.rows]])
          ELSE Done(c)
    /\ UNCHANGED <<diskVars, proc, agents, agent, lock, matrix, boundVars>>

\* The rows are packed; a row that another thread adds while they are makes
\* encode() raise (the dictionary changed its size).
Pack(c) ==
    /\ At(c, "save")
    /\ IF TextsOf(proc[procOf[c]].rows) = TextsOf(thread[c].payload.rows)
       THEN Goto(c, "replace") ELSE Fail(c)
    /\ UNCHANGED <<diskVars, proc, agents, agent, lock, matrix, boundVars>>

\* os.replace puts the whole file in place and the cache is clean, whatever
\* was put meanwhile; an OSError leaves everything as it was.
Replace(c) ==
    /\ At(c, "replace")
    /\ LET p == procOf[c]
       IN \/ /\ files' = [files EXCEPT ![PathOf(proc[p].key)] = thread[c].payload]
             /\ proc' = [proc EXCEPT ![p].dirty = FALSE]
          \/ UNCHANGED <<files, proc>>
    /\ Done(c)
    /\ UNCHANGED <<weights, fixedVars, agents, agent, lock, matrix, boundVars>>

-----------------------------------------------------------------------------
(* VectorReranker and close(). *)

OneWidth(rows) == \A i \in DOMAIN rows : Width[rows[i].model] = Width[rows[1].model]

\* build(): a reranker with a matrix of rows of one width, or without any.
Build(c) ==
    /\ At(c, "done") /\ thread[c].task = "build"
    /\ matrix' = [matrix EXCEPT ![procOf[c]] =
                    IF OneWidth(thread[c].results) THEN thread[c].results ELSE @]
    /\ Becomes(c, Idle)
    /\ UNCHANGED <<diskVars, proc, agents, agent, lock, boundVars>>

\* rerank(): scores, or nothing when the query has another width.
Rerank(c) ==
    /\ At(c, "done") /\ thread[c].task = "rerank"
    /\ IF OneWidth(<<thread[c].matrix[1], thread[c].results[1]>>)
       THEN Goto(c, "ranked") ELSE Becomes(c, Idle)
    /\ UNCHANGED <<diskVars, proc, agents, agent, lock, matrix, boundVars>>

\* The caller takes the order, or the exception as "no vector half".
Take(c) ==
    /\ At(c, "ranked") \/ At(c, "failed")
    /\ Becomes(c, Idle)
    /\ UNCHANGED <<diskVars, proc, agents, agent, lock, matrix, boundVars>>

\* close() takes the agent under the lock and releases it outside.
Close(c) ==
    /\ At(c, "idle") /\ lock[procOf[c]] = "free" /\ agent[procOf[c]] /= 0
    /\ closes < MaxCloses
    /\ Becomes(c, [Idle EXCEPT !.pc = "closing", !.using = agent[procOf[c]]])
    /\ agent' = [agent EXCEPT ![procOf[c]] = 0]
    /\ closes' = closes + 1
    /\ UNCHANGED <<diskVars, proc, agents, lock, matrix, starts, swaps>>

Release(c) ==
    /\ At(c, "closing")
    /\ agents' = [agents EXCEPT ![procOf[c]][thread[c].using].live = FALSE]
    /\ Becomes(c, Idle)
    /\ UNCHANGED <<diskVars, proc, agent, lock, matrix, boundVars>>

Next ==
    \/ \E p \in Procs : Start(p) \/ Exit(p)
    \/ ReplaceWeights
    \/ \E c \in Threads :
          \/ Call(c) \/ LoadModel(c) \/ Construct(c) \/ Embed(c) \/ Fill(c)
          \/ BeginSave(c) \/ Pack(c) \/ Replace(c)
          \/ Build(c) \/ Rerank(c) \/ Take(c) \/ Close(c) \/ Release(c)

Spec == Init /\ [][Next]_vars

-----------------------------------------------------------------------------
(***************************************************************************)
(* "Vectors from two different models are not comparable, and mixing them  *)
(* produces a ranking that looks fine and is meaningless" (cache.py:62):   *)
(* an order that rerank() gives compares a vector of the query with one of *)
(* each document, in the documents' places, all of one width and all made  *)
(* under one key, wherever the rows came from: this process, or a file     *)
(* that any other wrote, before or after the weights were replaced.  It is *)
(* the key that tells models apart: a finetune that keeps the size keeps   *)
(* the key, and weights replaced after a process took its key and before   *)
(* its first text make vectors under the old one.                          *)
(***************************************************************************)
NeverMixed ==
    \A c \in Threads : At(c, "ranked") =>
       LET rows == thread[c].matrix \o thread[c].results
       IN /\ \E docs \in DocSets :
                [i \in DOMAIN rows |-> rows[i].text] = Append(docs, QueryText)
          /\ OneWidth(rows)
          /\ \A i \in DOMAIN rows : rows[i].under = proc[procOf[c]].key

(***************************************************************************)
(* "Thread-safe; the model is loaded once" (needle_embedder.py:157): every *)
(* model that is loaded and not released is the one its process uses or    *)
(* the one a close() is about to release, so two keystrokes that race at   *)
(* startup never build two and no model is forgotten.                      *)
(***************************************************************************)
LoadedOnce ==
    \A p \in Procs : \A i \in DOMAIN agents[p] : agents[p][i].live =>
       \/ agent[p] = i
       \/ \E c \in Threads : /\ procOf[c] = p /\ At(c, "closing")
                             /\ thread[c].using = i
=============================================================================

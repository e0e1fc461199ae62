# cl-ai in TLA+

cl-ai turns Tab at a shell prompt into command suggestions. A resident daemon
keeps an index of the commands on the machine; a widget in the shell asks it on
every Tab; `cl-ai` is the command line around both. This directory holds TLA+
models of the parts of that system in which several processes, threads or files
have to agree and of the pipeline from PATH to a suggestion, the TLC
configurations that check them on small instances, and TLAPS proofs of safety
properties for every number of processes and every corpus.

Source paths below are relative to `src/cl_ai/` of the repository.

## 1. The system

| Component | State it keeps | Operations | Talks to |
|---|---|---|---|
| Daemon lifecycle: `cli.py` cmd_daemon, `daemon/server.py` main, `daemon/transport.py` Server | the endpoint file (socket or port file), the listening socket, `_shutdown`, `_stop`, `_ready` | `daemon start`, `stop`, `status`; start, stop, accept loop | other daemons, only through the endpoint file |
| Warm state: `daemon/server.py` Daemon | inventory, catalog, one index per (os, shell), under one lock | warm, index_for, handle | one warm-up thread, one thread per connection |
| Client request: `daemon/transport.py` request, `daemon/protocol.py` | a deadline, an attempt counter | two attempts inside one deadline; encode, decode | the daemon's connection thread |
| Widget: `shell/powershell/cl-ai.psm1` | candidates, highlighted index, the line as typed | Tab, Up, Down, Escape | the line editor, the daemon |
| Catalog store: `catalog/store.py`, `catalog/build.py`, `cli.py` _Engine and cmd_index | catalog.json with a validity key | save (write aside, replace), load, reuse or rebuild | the extractors, the PATH scan |
| Corpus fetch: `catalog/fetch.py` | the corpus directory, its `.old` copy, a staging directory | download, unpack, swap | the tldr extractor, which reads the corpus |
| Discovery: `catalog/discovery.py` | none (a scan) | walk PATH, apply shadowing | feeds catalog and inventory |
| Normalisation and lint: `catalog/normalize.py`, `catalog/lint.py` | none | group findings by name and family, merge, select for a target, lint | extractors in, index out |
| Extractors: `catalog/extract/` | none | parse tldr pages | corpus files |
| Retrieval: `retrieval/` | an index (immutable once built) | BM25 and vectors, fusion, score floor, gates, example choice | warm state, `cl-ai suggest` |
| Embedding cache: `embedding/cache.py` | rows by digest, dirty flag, one file | get, put, save, load, encode | any embedder |
| Needle embedder: `embedding/needle_embedder.py` | the loaded model, under a lock | load, encode, close | an external model |
| Quoting: `render/quoting.py` | none | quote one argument for a shell | renderers (stubs) |
| Planner schema: `planner/schema.py` | none | lay out tool schemas for a model | not wired in |
| CLI: `cli.py` doctor, suggest, index, init, fetch | the shell profile (init) | sequential commands | everything above |

What is hard here:

* **Interleaving.** Every new shell runs `cl-ai daemon start` from its profile
  (`_snippet`), so starts race; the endpoint is a file that anybody may unlink;
  connection threads race the warm-up and each other for an index.
* **Failure.** Daemons are killed and leave their endpoint file; binds, PATH
  scans, catalog builds, index builds and downloads fail one at a time; a crash
  may fall between the two renames of a swap.
* **Ordering and time.** A SHUTDOWN is answered before the endpoint is unbound;
  replies race timeouts; a retry repeats what may already have been done.
* **Stale state.** A probe's answer, a catalog key, a cycle of candidates are
  used after what they describe has changed.

What makes each component correct:

* lifecycle: one daemon serves the endpoint at a time; nobody accepts out of
  reach; `stop` says "stopped" only of a daemon that cannot be reached; a dead
  daemon's leftovers never keep the next from starting; a SHUTDOWN ends;
* warm state: threads agree on an index, what is warm stays warm, nobody waits
  for the warm-up;
* client request: it settles, within twice its timeout, and one miss by bad
  timing does not read as "no daemon";
* widget: Escape gives back the line the user typed at *this* prompt;
* store and fetch: a reader sees a whole old file or a whole new one, whatever
  crashed, and reuses a catalog only if it is one that a build would produce;
* pipeline: discovery agrees with the shell on what a name runs; the catalog
  says what the corpus says, in whatever order the pages came; a target gets
  nothing of another system; the list holds the best tools that pass the gates;
  a warning is never lost on the way;
* vectors: no ranking compares vectors made under different keys or of different
  widths, and a process builds its model once.

## 2. Modules

| Module | Role |
|---|---|
| `ExclusiveEndpoint` | abstract: daemons take turns at one endpoint |
| `DaemonLifecycle` | commands, listener threads and main threads of daemons that share an endpoint |
| `MCDaemonLifecycle` | its TLC instance |
| `DaemonLifecycleProofs` | its theorems |
| `WarmState` | one daemon's warm state, warm-up thread and connection threads |
| `WarmStateProofs` | its theorems |
| `Widget`, `MCWidget`, `WidgetProofs` | the widget's cycle of candidates, its TLC instance, its theorems |
| `CatalogStore`, `MCCatalogStore`, `CatalogStoreProofs` | the catalog file and its builders and readers, likewise |
| `CorpusFetch`, `MCCorpusFetch`, `CorpusFetchProofs` | fetches that swap in a corpus, likewise |
| `AtomicRequest` | abstract: what a request to the daemon promises its caller |
| `ClientRequest`, `ClientRequestProofs` | one request: two attempts, one deadline, an unreliable daemon; its theorems |
| `Discovery` | one scan of PATH |
| `CatalogBuild` | pages, findings, variants, targets, lint: operators |
| `Retrieval` | search and the choice of an example: operators |
| `SuggestPipeline`, `MCSuggestPipeline`, `SuggestPipelineProofs` | composes these three: scan, harvest, merge, index, search, answer; its TLC instance, its theorems |
| `VectorCache`, `MCVectorCache`, `VectorCacheProofs` | the model, the vector file and the reranker, likewise |

### DaemonLifecycle

Three kinds of actors share `endpoint`, the daemon that the endpoint's file
leads to. A *shell* runs one command at a time (`cli`, `target`): the actions
are the steps of `cmd_daemon`, one per request it sends and per verdict it
prints. A *listener thread* (`serve`) goes through the steps of `_serve_unix`
(unlink, bind, listen) or `_serve_loopback` (bind and listen, write the port
file) one at a time, since the interesting cases lie between them. A *main
thread* (`main`) goes through `main()` and `Server.stop`. The file is one
variable for both transports: unlinking or overwriting it changes where the
next client is led, and a stale file leads to a process that no longer listens.

A request is one step: it is answered by the daemon that the endpoint leads to
if that daemon's accept loop runs, and comes back as None otherwise, or, on a
slow machine, whenever it likes. The retry inside a request is not modelled.
An accept loop that has stopped does not start again. A listener may fail before
it touches the path (`EndpointUnusable`), at its bind, or half-way
(`ListenerAborts`: after the unlink, after the bind, or while it writes the port
file, which may leave the old number, or none). `unlink` may fail where the code
suppresses the error: a stale socket then stays in the way of the bind, and a
daemon that stops leaves its file (`CleanupFails`).

`Faults` says what may go wrong (see the module). `Serial` keeps commands from
overlapping. `PromptExit` says that a daemon that has begun to stop is done
before a later one reaches its bind: `stop()` needs milliseconds for what comes
after the socket has gone quiet, a new process a few hundred to get to its
bind. Nothing in the code enforces either, so the properties that need them are
stated apart from those that do not.

### WarmState

`pc[t]` is where a thread is; the warm-up (`Warmer`) and the connections
(`Conn`) share `index_for`. Each section under `Daemon._lock` is one step, and
the index is built between two of them. An index is known by the thread that
built it: two indexes of one target differ in nothing else that the code could
observe, and "the same object" is what `setdefault` is there for. Failures:
`discover()`, `build()`, `detect()`, the index build, the handler, a peer that
sends nothing, a reply that cannot be sent. `seen` is a history variable: the
warm state when a connection was accepted.

`main --foreground` warms up before it serves; its behaviours are those of the
model in which connections are accepted late.

### Widget

One handler is one step, as the handlers run on the shell's only thread;
`candidates`, `index` and `original` are the module's script variables. The
line editor is known by its text: `Edit` and `AcceptLine` are what a user does
between handlers, and `Elsewhere` is any function of PSReadLine itself. The
daemon's reply is any sequence of at most `Limit` commands, or none. `SameText`
is PowerShell's `-eq`, which ignores case, so that Tab may take an edited line
for the candidate. `TabRaises` is the reply that PowerShell unrolls and strict
mode refuses to count. `typed` is a history variable: the line of the present
prompt that the candidates are for.

### CatalogStore

A process does one job: the engine of `suggest` (look at the file, then build
if it must), a build of the commands on PATH (`index`, the daemon, `suggest
--rebuild`), or one of every command (`index --all`). `save` is three steps
(make a temporary file, write it, rename it), so that kills, errors, errors of
the clean-up (`CleanupFails`) and other savers come in between; what a half-written file holds is `Torn`. A catalog is
known by its key, what was asked for and which sources answered, which is all
that its validity depends on. PATH, the sources and the file itself change at
any time. The daemon never loads the file: it only builds.

### CorpusFetch

A fetch is a process that goes through `fetch()`, with the removal of a tree in
two steps and each rename in one. A rename of a directory succeeds onto nothing
and, on POSIX, onto an empty directory: a corpus is never one, but what is left
of a tree, or what stood at the destination before, may be (`MayGiveWay`). `faults` counts what went wrong in a fetch: an operation of
the file system, a Ctrl-C, a kill. Ctrl-C runs the `finally` and no handler; a
kill runs nothing. `overlapped` remembers whether two fetches ever ran at the
same time, since most of what the code promises is for those that do not.

### ClientRequest

Time is a counter of ticks. The client's own statements take none; a socket
call takes any time up to `until`, which is set when the call begins from
`budget`, the timeout that `settimeout()` fixed when the attempt began: that
the two differ is the point of the model. `conn[a]` is the daemon's side of the
connection of attempt `a`, where the handler may run after the client has gone.
A reply is one of three kinds; `misshapen` is a suggestion without a command,
for which `decode_response` lets a TypeError out. A line arrives in up to
`MaxChunks` pieces, or is cut in the middle by `Drop`. `SocketFails` may happen
at every call, so that a full backlog, a refused connection and a missing port
file need no actions of their own. To its caller the call is `AtomicRequest`.

### Discovery, CatalogBuild, Retrieval, SuggestPipeline

`Discovery` takes a PATH of entries, some of them empty, spelled twice, missing,
unreadable or files. A listing is taken at once and its files are examined one
by one (`Examine`), while `Install` changes files. `windows` decides how names
are folded, which suffixes count and whether an execute bit is needed. A
*hollow* file is one that runs nothing: no execute bit, or an App Execution
Alias.

`CatalogBuild` is what happens to one page and then to all findings. Text is a
sequence of characters where letters matter, in names and command lines;
descriptions are sets of words. The code's loops are written as what they come
to, so that they can be reasoned about: `Sorted` puts each thing at the place
after those that come before it, as `sorted()` does with keys that differ;
`Pending` says which intent a line finds; `Identifier` and `Join` say which
characters are kept and where; `MergeExamples` takes the first of every command
line. What the placeholders of a command line
yield is given with the line, and so is whether its literal keeps a brace pair
that the template did not escape (`leaks`). All findings are of one tier, since one tier
exists; so a claim ranks by its source alone. `Normalize`, `Select`, `ForTarget`
and `LintErrors` follow.

`Retrieval` is `ToolIndex.search` and `best_example`. BM25's own scores are a
parameter: any numbers that are positive for the tools that match a term and
zero for the others, so that what holds does not rest on its constants or on
rounding. Everything made of them is exact: reciprocal ranks, boosts and
prominences are scaled to integers, the idf is a table in thousandths.

`SuggestPipeline` runs them in order: the scan; the harvest, page by page, with
fetches that replace the corpus at any moment (`Swap`; `CorpusFetch` has their
inside, with a moment without a corpus); one answer by name during the harvest,
or an index for one target and an answer after it. The loop of `search` is a
step for each tool of the ranking (`BeginSearch`, `Consider`), and `Serve` is
the answer made of its list. `CorpusAssumption` says what pages are: their
titles are cut at blanks, so no word of one is empty, and each lies in one of
the corpus's directories. `LimitAssumption` is the `max(1, limit)` of the
daemon. `SpellingAssumption` is that every character has a name
(`_PUNCT_NAMES`, or its code point). `printed` is what the command
line makes of the same query as the daemon, whose answer the budget may cut.
The daemon's state around this is in `WarmState`.

### VectorCache

Threads of one or several processes (`Layouts`) go through `encode`: take the
hits, load the model under the lock, embed the misses one at a time, put the
rows, save. A vector is known by the model that made it, the text it stands for
and the key that its process had (`under`), which is all that the code tells
models apart by. `save` is split where other
threads come in: it packs rows while they may put more, and is clean afterwards
whatever was put. The weights file is replaced at any time, also between the
moment at which a process computes its key and the one at which it loads the
model; processes are killed anywhere, and `close` takes the model in one step and releases it in
the next.

## 3. What TLC checks

| Run | Instance | Result |
|---|---|---|
| `serial` | 3 daemons, 2 shells, both transports, crashes and Ctrl-C, `Serial`, `PromptExit` | passes |
| `faults` | 2 daemons, 2 shells, both transports, all faults, overlapping commands | passes |
| `orphan` | 2 daemons, 2 shells, unix sockets, no faults, overlapping commands | `NoOrphan` violated |
| `warm` | 2 connections and the warm-up, 2 targets | passes |
| `widget` | 6 lines, 3 of them commands, replies of up to 3 | passes |
| `store` | 3 processes, 2 states of PATH, 1 source | passes |
| `store_tiers` | the same, sources do not raise | `ReusedIsOfTheseTiers` violated |
| `fetch` | 3 fetches, 2 releases, a fault in each | passes |
| `client` | timeout of 3 ticks, lines in 2 pieces, a daemon that changes twice | passes |
| `pipeline` | 5 directories, 6 files, 8 pages, 5 queries, 3 shells, 3 systems | passes |
| `pipeline_case` | the same | `InstalledIsOffered` violated |
| `vectors` | 2 threads, 2 processes, 3 models; 1.3 million states | passes |

**serial** asks what the user relies on. `NoOrphan`: no daemon accepts out of
reach. `StopIsTruthful`. `BindSucceeds`: leftovers do not block a bind.
`StartSucceeds` (liveness): a start that found nobody ends with "started"
unless the new daemon was killed. `OneAtATime`: `DaemonLifecycle` implements
`ExclusiveEndpoint`. Three daemons: one that leaves a file behind, one that
takes over, one started after a stop. Two shells: a foreground daemon occupies
one.

**faults** asks what is left when everything goes wrong at once. `TypeOK` says
besides the types that only a process that has not closed its socket listens,
and that a booting daemon's main thread waits for it. `CleanExit`: a daemon that
left through `stop()` leaves no file of its own, unless the unlink of that very
file failed. `SomebodyReachable`: racing starts orphan daemons but never the
endpoint, as long as no listener breaks down after its unlink (then the path is
empty, and stays so until the next start). `ShutdownTerminates`
(liveness): whoever took a SHUTDOWN ends. Two daemons are enough for every race
of these properties, which are about one file and a pair of processes.

**orphan** shows what happens when two shells open together, which both start a
daemon; see *findings* in `PROJECT.json`.

**warm**: `AgreeOnIndex` (racers agree), `IndexSticks` (a stored index stays),
`BuiltOnce` (a warm target costs nobody a build again), `NeverUnavailableAgain`
(a failed catalog does not take the inventory back), `NobodyWaits` (liveness:
each connection ends though the warm-up may never). Three threads cover every
order of two storers and a late reader; two targets keep one's entry apart from
the other's. Deadlock is not checked here: a model of finitely many connections
stops when they are all served.

**widget**: `CycleInShape` (the handlers index blindly), `ShownIsHighlighted`
(Tab compares the line to the highlighted candidate), `EscapeRestores`. The
lines are one typed line, a command in two cases of letters, another command, a
blank and the empty line; three candidates tell the first, the last and one in
between.

**store**: `FileIsWhole` (a reader sees the whole catalog of one saver),
`NoLitter`, `NothingGoneSuggested`. Two savers race and a third process reads;
two states of PATH are an old one and a new one. `NothingGoneSuggested` holds
for a reason that its authors may not have had in mind: since the reader's key
lacks the sources, the only catalog that is ever reused is one without tools.
**store_tiers** is the other side of it: that empty catalog is reused after a
corpus has come.

**fetch**: `NeverLost` (a corpus is at the destination or beside it),
`NeverHalf`, `FailureRestores` (for fetches that take turns) and `RaceEndsWell`
(for fetches that overlap without faults). Three fetches are what
`RaceEndsWell` is about and its formula says so: with four, one may put back
the copy that another is removing. Deadlock is not checked: fetches come to an
end.

**client**: `TwiceTheTimeout`: the caller is held for twice its timeout at most.
It is not held for its timeout at most, as each `recv` may use what the attempt
had at its beginning. `OneMissIsHidden`: None before the deadline means two
misses, or a reply that could not be read. `SettlesOnce` (liveness and
refinement): the call implements `AtomicRequest`, so it ends whatever the daemon
does, an answer means that a handler ran, and a handler runs twice at most.
Three ticks hold a first attempt, the pause and a second one with time to spare;
two changes are a restart. Deadlock is not checked: the call ends.

**pipeline**: `AgreesWithPath`: the scan's winner and what it shadows are what the
shell finds, for every name no installer touched, in the order of the
directories; of one directory, where Windows may have a command under two
suffixes, in PATHEXT's order or in that of the names, which the code goes by
(section 5). `CatalogFollowsCorpus`:
nothing of the corpus is lost or invented by a harvest that no fetch disturbed.
`OrderIndependent`: the findings of a name give the same variants in every order.
`LintsClean`: what is built passes the linter, but for a slot that a page leaks,
which is reported exactly when a wanted page has one. `NothingForeign`: no line of
another system's page. `BestFirst`: what is absent from the list was forbidden,
or the list or its binary's share was full of better ones. `WarningSurvives`:
what any source or the line itself shows to be destructive is marked, by the
daemon and by the command line alike. Files, pages and queries are chosen for
the cases that matter: a name in two cases of letters, two suffixes of one name
in one directory, an alias that shadows and one that is shadowed, names that
one punctuation mark keeps apart, a command of two systems, a page without a
title, examples that repeat across pages, a broken line and a leaking one, a
destructive example, one behind punctuation and a harmless one, queries of a name, of its beginning, of words, of stopwords and of punctuation.
There are 130,742 states. Deadlock is not checked: one request ends the run.

**pipeline_case** asks that an installed, documented command be offered when its
name is typed. On Windows it is not, if its file is spelled in upper case: the
harvest ignores case and the gate of the search does not.

**vectors**: `NeverMixed`: what a ranking compares are vectors made under one
key and of one width, each in its document's place. `LoadedOnce`: a model that is loaded and not released
is in use or in the hands of `close`. Of the three models one pair shares its
width and one its key; two threads are every race for the lock, the rows
and the file. Deadlock is not checked: the bounds on starts end the run.

**Fairness.** In `DaemonLifecycle`, weak fairness for each shell's command
(its loops have deadlines), each listener thread (accept() has a timeout) and
each main thread; none for faults and none for beginning a command. In
`WarmState`, weak fairness for each connection thread only: `NobodyWaits` must
not rest on the warm-up making progress. In `ClientRequest`, weak fairness for
the client and for time; none for the daemon, which may never answer.

**Bounds.** Daemons are processes ever spawned: `BeginStart` is disabled when
no unborn one is left, which is the only bound in a guard. A connection of
`WarmState` serves one request, as in the code. A process of `CatalogStore`
does one job and a fetch is done once; `MaxFaults` bounds the faults of a
fetch. `Limit` is the limit that the widget sends (5 in the code, 3 in the
instance). `Widget`, `CatalogStore`, `CorpusFetch`, `SuggestPipeline` and
`VectorCache` have safety properties only and assume no fairness. `MaxFlips`
bounds the daemon's changes during a request, `MaxChanges` the installer's
during a scan, `MaxSwaps` the fetches during a harvest and the changes of the
weights, `MaxStarts` the processes and `MaxCloses` the closes of `VectorCache`,
`MaxScore` BM25's scores: with two values every order and tie of two tools
occurs. `MaxEntries` is the code's own limit, small enough to be reached.

## 4. What TLAPS proves

For every value of the constants: any number of daemons, shells, connections,
targets, lines, processes, sources, fetches and faults, any timeout, any PATH,
corpus, alphabet and scores:

| Theorem | Statement | Assumes |
|---|---|---|
| `DaemonLifecycleProofs!TypeCorrect` | `TypeOK` | |
| `ExitIsClean` | `CleanExit` | |
| `RacingStartsKeepTheEndpoint` | `SomebodyReachable` | |
| `StopTellsTheTruth` | `StopIsTruthful` | no slow faults |
| `SequentialNoOrphan` | `NoOrphan` | `Serial`, `PromptExit`, only crashes and Ctrl-C |
| `SequentialBindSucceeds` | `BindSucceeds` | the same |
| `SequentialImplementsExclusive` | `OneAtATime` | the same |
| `WarmStateProofs!TypeCorrect` | `TypeOK` | |
| `RacersAgree` | `AgreeOnIndex` | |
| `EntriesAreForever` | `IndexSticks` | |
| `WarmStaysWarm` | `BuiltOnce` | |
| `InventoryStays` | `NeverUnavailableAgain` | |
| `WidgetProofs!TypeCorrect` | `TypeOK` | |
| `CycleKeepsItsShape` | `CycleInShape` | |
| `HighlightIsTrue` | `ShownIsHighlighted` | |
| `EscapeGivesBack` | `EscapeRestores` | |
| `CatalogStoreProofs!TypeCorrect` | `TypeOK` | |
| `ReadersSeeWholeCatalogs` | `FileIsWhole` | |
| `NothingIsLeftBehind` | `NoLitter` | |
| `ReuseSuggestsNothingGone` | `NothingGoneSuggested` | |
| `CorpusFetchProofs!TypeCorrect` | `TypeOK` | |
| `CorpusIsKept` | `NeverLost` | |
| `DestinationIsWhole` | `NeverHalf` | |
| `FailurePutsBack` | `FailureRestores` | |
| `RacersLeaveACorpus` | `RaceEndsWell` | |
| `ClientRequestProofs!HeldForTwiceTheTimeout` | `TwiceTheTimeout` | |
| `MissesAreHidden` | `OneMissIsHidden` | |
| `TypeCorrect` | `TypeOK` | |
| `ActsAtomically` | `AtomicRequest` without its fairness | |
| `VectorCacheProofs!ModelIsLoadedOnce` | `LoadedOnce` | |
| `VectorsNeverMixed` | `NeverMixed` | |
| `SuggestPipelineProofs!InventoryAgreesWithPath` | `AgreesWithPath` | |
| `HarvestLosesNothing` | `CatalogFollowsCorpus` | |
| `CatalogIsReproducible` | `OrderIndependent` | |
| `NormalizedCatalogLints` | `LintsClean` | |
| `SuggestionsAreHomely` | `NothingForeign` | |
| `TheListHoldsTheBest` | `BestFirst` | |
| `WarningsAreKept` | `WarningSurvives` | |

The modules' own assumptions are that special values differ from ordinary ones,
that bounds are natural numbers, and what section 2 says of the inputs of
`SuggestPipeline` and `VectorCache`.

*Lifecycle.* None of the sequential properties is inductive. A bind succeeds
because the unlink before it emptied the path and nobody else booted in
between; that nobody else boots is a fact about shells: a booting daemon is the
one that the only busy shell is waiting for, and a shell spawns only when it is
the busy one and its probe was not answered. The strengthening therefore ties
each booting daemon to the command that spawned it (`CommandKeepsSeqInv`,
`OneBoot`), says that a daemon that accepts owns the endpoint, and that it
keeps it while others stop, which is where `PromptExit` enters. `DaemonInvFrame`
and the `...MeansNoBoot` lemmas isolate the case that no daemon is booting, in
which commands change nothing that the invariant is about. The refinement needs
one more lemma, `ListenerMoves`: each step moves `serve` of at most one daemon.

`SomebodyReachable` needs none of this. As long as no daemon has stopped, died or
broken down half-way, the path leads to one that is bound or accepts, or one has just unlinked
it and is about to bind, or none is bound (`PathLeadsSomewhere`); on loopback the
port file names one that accepts. So the racers take the endpoint from each
other and the last of them has it.

*Warm state.* The invariant says that before the catalog is published nobody
builds and nothing is stored, so the one `clear()` of the warm-up clears
nothing (`NoCatalogYet`); that what a thread was given is what is stored for
its target (`GotIsStored`); and that what a request saw is still so
(`SeenIsStored`). It would break with a second warm-up in one process, whose
swap of the catalog may be followed by the store of an index of the old one;
`main()` warms once.

*Widget.* `OriginalIsTyped`, which says that the candidates of this prompt's
line are still there with that line, is what makes `EscapeRestores` inductive;
it survives Enter because Enter only forgets `typed`. `Wraps` is the lemma on
remainders that keeps the index among the candidates.

*Store.* `SaveInOrder` says that what is about to be renamed is the whole draft
of its own process, and that only finished processes have loaded.
`KeyNamesSources` (a key names the sources of its catalog) makes what is loaded
empty (`LoadedIsEmpty`).

*Fetch.* While no two fetches have overlapped, one runs at most (`OneRuns`),
and `Course` says at each place in the code what is at the destination and
beside it, in terms of what was there when the fetch began. `Lone` reduces each
step to the two places and its own fetch. `Kept` has to say more than
`NeverLost`: with the corpus beside it the destination is empty, or the next
fetch would remove the copy.

Of fetches that overlap, `RaceInv` says more than that a corpus is left. A
second tree at the destination or set aside means that a newcomer has brought
it (`Crossing`), and a fetch that is to put its copy back where there is
nothing has two others beside it: that makes three, so nobody is left to remove
the copy. It is where the argument, and the code, fail for four.

*Request.* `CallsEnd` says when the call in progress may end: `connect` at the
deadline, as it is the first of its attempt, and `send` and `recv` one budget
after they began, which was not after the deadline. `MissesCounted` ties the
attempt to the misses so far, and `ConnectionsCounted` each run of a handler to
a connection of its own, of which there are two.

*Vectors.* `LoadInv` adds to `LoadedOnce` that the thread that constructs a
model holds the lock, and that its process has none in use meanwhile
(`OneLoader`). `MixInv` follows a vector from the model to the ranking: every
place that holds one, a file, the rows of a process, a call's results and its
payload, a matrix, says of which key and width its rows are (`Coherent`,
`GoodMatrix`), a thread between two steps has the texts it was called with in
their order (`OnCourse`). What a ranking compares is then of one key and one
width. Nothing is assumed of the keys: that two models have different ones is
not in the theorem, and is not so in the code (section 5).

*Scan.* `ScanInv` says of each key that nobody touched that what is known is a
beginning of what a walk along PATH would find: everything not known yet comes
later, or has the same directory and another suffix, and if its directory was
seen it is still in the listing (`KeyInv`). The
listing in turn is of a directory that PATH names here for the first time, which
is what duplicates in PATH would break.

*Build.* The lemmas come first. `SortedOnce` is what `sorted()` promises: a
finite set with a strict order comes out with every member once, ascending; its
proof counts, since a rank is a cardinality. `GroupIsNamed`, `JoinedText`,
`IdentifierText`, `ExamplesMerged` and `Variants` are what it makes of groups,
names, examples and the catalog. `BuildInv` then says which pages the findings
are of: all that are wanted, out of those that are neither queued nor in a
directory still to be listed. That a page is in one directory and a directory
listed once is what keeps one from being read twice. `LintsClean` comes down to
the characters of a name (`NameText`), which is where `_PUNCT_NAMES` and the
dashes of a subcommand matter, to the options that `MergeParams` drops, and to
which pages the findings are of, for the slots they leak.

*Search.* `Looked` is the invariant of the loop of `search`: the places looked
at are the first of the ranking, the list is in their order, and a tool that
was looked at is in the list unless it is not eligible or its binary had its
share *above* it. `LooksOn` is one turn. That the loop may stop at the limit is
the last conjunct of `BestFirst`. `RankedIds` says that the ranking has nothing
twice, which rests on the ids being fused once each. The scores appear nowhere
in this: whatever the arithmetic gives, the list is the best of the order it
gives.

*Only model-checked*: `ShutdownTerminates`, `StartSucceeds` and `NobodyWaits`
(liveness under fairness is out of the prover's reach), and that a request
settles at all, the rest of `SettlesOnce` being `ActsAtomically`. Nor can it be
proved that the folds over scores and terms compute what they should, which is
induction over data; no theorem rests on it.

## 5. Where code and comments disagree

Three disagreements are runs (`orphan`, `store_tiers`, `pipeline_case`) and
findings in `PROJECT.json`. Others showed while the models were written; the
models do what the code does.

* A failed bind is said to "unblock start(), which re-raises" (`transport.py`
  286). `start()` looks at the error only if `_ready` was not set in time, and
  the failure sets it: `main` waits for a SHUTDOWN that cannot arrive.
* "So binding it takes nothing away" (`cl-ai.psm1` 172): Enter does not end a
  cycle, and Escape at the next prompt inserts the line of the last one.
* "An interrupted fetch leaves the old one intact" (`fetch.py` 173): Ctrl-C
  between the two renames leaves the old corpus under `.old` only.
* "None is the entire error vocabulary" (`transport.py` 91): a request over the
  size limit raises ProtocolError from `encode`, and a suggestion without a
  command raises TypeError; "inside the existing deadline" (103): up to twice
  the timeout, and an answer that comes that late is still returned.
* "Different tools silently sharing a catalog entry" (`base.py` 74) is avoided
  for pure punctuation only: `clang++` and `clang` are one entry.
* PATHEXT's order does not matter to the scan, which takes the files of one
  directory by name (`discovery.py` 296, 313): of `g.cmd` and `g.exe` in one
  directory it takes the first where the shell takes the second. The instance
  has the two, and `AgreesWithPath` leaves their order open (`Twins`).
* "Mixing them produces a ranking that looks fine and is meaningless"; the
  vector cache's key has the size of the weights, "because a local finetune keeps
  the same filename" (`cache.py` 62-65), but a finetune may keep the size as
  well, and then the rows of the two are one model's to this code. The same
  happens when the weights are replaced between the start of a process, which
  computes the key, and its first miss, which loads the model. `VectorCache` has
  both; `NeverMixed` says no more than the key can.
* Rows of one key and another width make `put` ignore every new row: the vector
  half stays off until the file is deleted.
* `_by_name` marks with the daemon's own list only (`server.py` 340), which
  lacks `unlink` and `pkill`; a `find ... -delete` is marked by no judgement.
* On a system whose name `family_for_os_name` does not know (aix, say; the BSDs,
  SunOS and Cygwin are known), no variant is dropped, and a POSIX one is taken
  before a Windows one by the order of their names.
* `stop()` unlinks whatever file is at the endpoint by then (`transport.py` 252):
  a daemon that bound in between is left without. `PromptExit` keeps this out of
  the properties that it would break.

## 6. Not modelled

* *Quoting, planner schema*: nothing calls them yet but their tests; they are
  string layout without state.
* *The placeholder grammar* (`tldr.py` 185-467): a parser of one line. Its
  result is an input of `ParsePage`, and the pages of the instance have the
  results that matter to a merge: options with and without a spelling,
  subcommands, the same parameter twice.
* *Ranking arithmetic*: BM25's term frequencies and lengths, cosines, centering.
  What is decided by them is modelled for any outcome.
* *Tiers*: `normalize` ranks claims of several tiers, and one exists.
* *`init`*: appends to a profile once; *`doctor`*: reports.
* *Stubs* (`context/`, `render/base.py`, most of `planner/` and of the
  extractors), data classes and ports have no behaviour.

## 7. Plan

1. done: `DaemonLifecycle` with `ExclusiveEndpoint`, `WarmState`, `Widget`,
   `CatalogStore`, `CorpusFetch`, `ClientRequest` with `AtomicRequest`, with
   proofs
2. done: `Discovery`, `CatalogBuild`, `Retrieval`, `SuggestPipeline`,
   `VectorCache`
3. done: every safety invariant that a run checks is a theorem
4. theorems of the runs that show a disagreement: under which condition the
   property does hold, as `SequentialNoOrphan` says it for `orphan`:
   `InstalledIsOffered` where names are in one case of letters,
   `ReusedIsOfTheseTiers` where the sources do not change
5. that the parts of `VectorCache` and `SuggestPipeline` that share state with
   `WarmState` and `CatalogStore` promise what these assume of them

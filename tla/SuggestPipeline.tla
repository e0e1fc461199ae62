--------------------------- MODULE SuggestPipeline ---------------------------
(***************************************************************************)
(* From PATH to a suggestion: discover() scans the machine, build()        *)
(* harvests the pages of the commands it found while a fetch may replace   *)
(* the corpus, normalize() merges them, and one request is answered, by    *)
(* the daemon (server.py _suggest) and by the in-process engine of the     *)
(* command line (cli.py _Engine), during the harvest or after it.          *)
(***************************************************************************)
EXTENDS Discovery, Retrieval

CONSTANTS
    Pages,        \* every page of any corpus, in the order of OS and file:
                  \* [os, title, prose, lines]
    OsDirs,       \* the corpus's directories in order
    Corpora,      \* the corpora that may be installed: sets of page numbers
    MaxSwaps,     \* bound: fetches that finish during the harvest
    Queries,      \* what the user may type
    Shells, Limits,
    MaxScore,     \* bound: BM25 scores are numbers from 1 to this
    DaemonList    \* server.py's own list of destructive names

\* A title is cut at its blanks; the directories of a corpus are distinct and
\* every page lies in one of them.
ASSUME CorpusAssumption ==
    /\ DOMAIN Pages \subseteq Nat
    /\ \A p \in DOMAIN Pages :
          /\ Pages[p].title \in Seq(Seq(ToSet(Alphabet)) \ {<<>>})
          /\ Pages[p].lines \in Seq(ToSet(Pages[p].lines))
    /\ OsDirs \in Seq(ToSet(OsDirs))
    /\ \A i, j \in DOMAIN OsDirs : OsDirs[i] = OsDirs[j] => i = j
    /\ \A c \in Corpora : \A p \in c : p \in DOMAIN Pages /\ Pages[p].os \in ToSet(OsDirs)

\* server.py raises a limit below 1 to 1; search()'s loop makes the same of it.
ASSUME LimitAssumption == Limits \subseteq Nat \ {0} /\ MaxPerBinary \in Nat

VARIABLES
    stage,     \* "scan", "harvest", "ready", "indexed", "searching",
               \* "named", "answered"
    corpus,    \* pages on disk
    osLeft,    \* directories not yet listed
    queue,     \* listed pages not yet read, read in their order
    swaps,
    findings,  \* what the harvest has yielded
    catalog,   \* normalize()'s variants
    index,     \* the index of one target, with its os and shell
    request,   \* [query, limit, ranked, left, results]: places of ranked are left
    answer,    \* the daemon's suggestions
    printed    \* the rows `cl-ai suggest --no-daemon` prints

buildVars == <<corpus, osLeft, queue, swaps, findings, catalog, index>>
replyVars == <<request, answer, printed>>
discoveryVars == <<scanVars, diskVars, scanning, inventory>>
pipelineVars == <<discoveryVars, stage, buildVars, replyVars>>

PipelineInit ==
    /\ Init
    /\ stage = "scan"
    /\ corpus = {} /\ osLeft = <<>> /\ queue = {} /\ swaps = 0
    /\ findings = <<>>
    /\ catalog = {} /\ index = <<>>
    /\ request = <<>> /\ answer = <<>> /\ printed = <<>>

-----------------------------------------------------------------------------
(* build() *)

\* The inventory is stored, discover()'s locals are gone (the model forgets
\* the disk with them), and the sources are asked whether they exist.
BeginBuild ==
    /\ stage = "scan" /\ ~scanning
    /\ stage' = "harvest"
    /\ corpus' \in Corpora
    /\ osLeft' = IF corpus' = {} THEN <<>> ELSE OsDirs
    /\ path' = <<>> /\ tree' = CHOOSE t \in Trees : TRUE
    /\ touched' = {} /\ changes' = 0
    /\ scanned' = 0 /\ seen' = {} /\ listing' = {}
    /\ winners' = <<>> /\ shadowed' = <<>> /\ skipped' = <<>>
    /\ truncated' = FALSE
    /\ UNCHANGED <<windows, scanning, inventory, queue, swaps, findings, catalog, index, replyVars>>

ListOsDir ==
    /\ stage = "harvest" /\ queue = {} /\ osLeft /= <<>>
    /\ queue' = {p \in corpus : Pages[p].os = Head(osLeft)}
    /\ osLeft' = Tail(osLeft)
    /\ UNCHANGED <<discoveryVars, stage, corpus, swaps, findings, catalog, index, replyVars>>

Wanted(p) ==
    /\ Pages[p].title /= <<>>
    /\ LowerCase(Head(Pages[p].title)) \in {LowerCase(n) : n \in Names(inventory)}

\* Read the next page: one that is gone, or has no title, or is about a
\* command that is not on PATH, yields nothing.
ReadPage ==
    /\ stage = "harvest"
    /\ \E p \in queue :
          /\ \A r \in queue : p <= r
          /\ queue' = queue \ {p}
          /\ findings' = IF p \in corpus /\ Wanted(p)
                         THEN Append(findings, ParsePage(Pages[p], p)) ELSE findings
    /\ UNCHANGED <<discoveryVars, stage, corpus, osLeft, swaps, catalog, index, replyVars>>

\* A fetch in another process moves the corpus aside and another one in.
Swap ==
    /\ stage = "harvest" /\ swaps < MaxSwaps
    /\ \E c \in Corpora \cup {{}} : c /= corpus /\ corpus' = c
    /\ swaps' = swaps + 1
    /\ UNCHANGED <<discoveryVars, stage, osLeft, queue, findings, catalog, index, replyVars>>

FinishBuild ==
    /\ stage = "harvest" /\ queue = {} /\ osLeft = <<>>
    /\ catalog' = Normalize(findings)
    /\ stage' = "ready"
    /\ UNCHANGED <<discoveryVars, corpus, osLeft, queue, swaps, findings, index, replyVars>>

-----------------------------------------------------------------------------
(* One request. *)

\* sys.platform
OsNames == IF windows THEN {"win32"} ELSE {"linux", "aix"}

\* Inventory.usable, sorted by lower-case name.
Usable == Sorted(Names(inventory), LAMBDA m, n : Precedes(LowerCase(m), LowerCase(n)))

ParsedQueries == {Parse(text) : text \in Queries}

\* _by_name over the entries met within the budget: prefixes, then the rest.
ByName(q, limit, near) ==
    LET begins(n) == IsPrefix(q.needle, LowerCase(n))
        within(n) == \E k \in 0..Len(n) : IsPrefix(q.needle, SubSeq(LowerCase(n), k + 1, Len(n)))
        all == IF q.needle = <<>> THEN <<>> ELSE SelectSeq(near, begins)
               \o SelectSeq(near, LAMBDA n : ~begins(n) /\ within(n))
    IN [i \in 1..(IF limit < Len(all) THEN limit ELSE Len(all)) |->
          [command |-> all[i],
           dangerous |-> LowerCase(all[i]) \in DaemonList]]

\* Mutant: the line that is suggested is not looked at.
JudgeToolOnly(tool, q) ==
    [command |-> CommandFor(tool, q),
     dangerous |-> \/ "destructive" \in tool.capabilities
                   \/ LowerCase(tool.binary) \in DaemonList]

\* Three judgements, any of which marks a candidate; the daemon and the
\* command line make the same.
Suggestion(tool, q) ==
    [command |-> CommandFor(tool, q),
     dangerous |-> \/ "destructive" \in tool.capabilities
                   \/ LowerCase(tool.binary) \in DaemonList
                   \/ /\ tool.examples /= <<>>
                      /\ IsDestructive(tool.examples[BestExample(tool, q)].command)]

\* index_for has no index yet, or the catalog is still being harvested.
ServeNames ==
    /\ stage = "harvest"
    /\ LET usable == Usable
       IN \E q \in ParsedQueries, limit \in Limits, met \in 0..Len(usable) :
             answer' = ByName(q, limit, SubSeq(usable, 1, met))
    /\ stage' = "named"
    /\ UNCHANGED <<discoveryVars, buildVars, request, printed>>

\* index_for: the tools of the target, indexed.
BuildIndex ==
    /\ stage = "ready"
    /\ \E os \in OsNames, shell \in Shells :
          index' = IndexOf(catalog, shell, os)
    /\ stage' = "indexed"
    /\ UNCHANGED <<discoveryVars, corpus, osLeft, queue, swaps, findings, catalog, replyVars>>

\* Any scores that BM25 may give: positive for the tools that match a term.
Relevances(q) ==
    {r \in [Docs(index) -> 0..MaxScore] : \A i \in Docs(index) :
        r[i] > 0 <=> Matched(index, q, i) /= {}}

Rankings(q) ==
    IF q.terms = <<>> THEN {<<>>}
    ELSE {Ranked(index, q, r) : r \in Relevances(q)}

\* search(): what there is is ranked.
BeginSearch ==
    /\ stage = "indexed"
    /\ \E q \in ParsedQueries : \E ranked \in Rankings(q), limit \in Limits :
          request' = [query |-> q, limit |-> limit, ranked |-> ranked,
                      left |-> DOMAIN ranked, results |-> <<>>]
    /\ stage' = "searching"
    /\ UNCHANGED <<discoveryVars, buildVars, answer, printed>>

\* Its loop considers the next tool, and ends when the list is full.
Consider ==
    /\ stage = "searching"
    /\ \E n \in request.left :
          /\ \A m \in request.left : n <= m
          /\ LET out == Take(index, request.query, Names(inventory),
                             request.results, request.ranked[n])
             IN request' = [request EXCEPT
                   !.results = out,
                   !.left = IF Len(out) >= request.limit THEN {} ELSE @ \ {n}]
    /\ UNCHANGED <<discoveryVars, stage, buildVars, answer, printed>>

\* Over budget, the daemon stops after what it has, but not before one; of
\* names, when nothing was found, it may have none.
Serve ==
    /\ stage = "searching" /\ request.left = {}
    /\ LET results == request.results
           q == request.query
           all == [k \in DOMAIN results |-> Suggestion(index.tools[results[k]], q)]
       IN /\ printed' = all
          /\ IF results = <<>>
             THEN \E met \in 0..Len(Usable) :
                     answer' = ByName(q, request.limit, SubSeq(Usable, 1, met))
             ELSE \E n \in 1..Len(all) : answer' = SubSeq(all, 1, n)
    /\ stage' = "answered"
    /\ UNCHANGED <<discoveryVars, buildVars, request>>

PipelineNext ==
    \/ stage = "scan" /\ Scan /\ UNCHANGED <<stage, buildVars, replyVars>>
    \/ BeginBuild \/ ListOsDir \/ ReadPage \/ Swap \/ FinishBuild \/ BuildIndex
    \/ ServeNames \/ BeginSearch \/ Consider \/ Serve

PipelineSpec == PipelineInit /\ [][PipelineNext]_pipelineVars

-----------------------------------------------------------------------------
Served == stage = "answered"
Tools == index.tools
Results == request.results
FindingsOf(tool) == {f \in ToSet(findings) : QualifiedName(f) = tool.name}

(***************************************************************************)
(* A harvest that no fetch disturbed leaves nothing out and invents        *)
(* nothing: each page of an installed command has a variant of its name    *)
(* and family that shows every command line of the page, and every variant *)
(* is of such a page (tldr.py:691-731, normalize.py:414-505).              *)
(***************************************************************************)
CatalogFollowsCorpus ==
    stage = "ready" /\ swaps = 0 =>
       LET wanted == {ParsePage(Pages[p], p) : p \in {q \in corpus : Wanted(q)}}
       IN /\ \A f \in wanted : \E v \in catalog :
                /\ v.tool.name = QualifiedName(f) /\ v.family = FamilyOf(f.os)
                /\ \A e \in ToSet(f.examples) : \E x \in ToSet(v.tool.examples) :
                      x.command = e.command
          /\ \A v \in catalog : \A x \in ToSet(v.tool.examples) :
                \E f \in wanted : x \in ToSet(f.examples)

(***************************************************************************)
(* Two builds from the same pages give the same catalog: what the findings *)
(* of a name become does not depend on the order they arrive in            *)
(* (normalize.py:429-431, _Claim.rank 200-205).                            *)
(***************************************************************************)
OrderIndependent ==
    stage = "ready" =>
       \A name \in {QualifiedName(f) : f \in ToSet(findings)} :
          \A order \in SetToSeqs({f \in ToSet(findings) : QualifiedName(f) = name}) :
             Normalize(order) = {v \in catalog : v.tool.name = name}

(***************************************************************************)
(* What normalize() builds never fails the linter: no two variants of one  *)
(* name and family, no option without a spelling, no name that is not an   *)
(* identifier, whatever the pages say (lint.py:163-304).  The one error    *)
(* `cl-ai index` may end with is a slot that a page leaks, and of a        *)
(* harvest that no fetch disturbed it says so exactly when a page that the *)
(* harvest wants does (check_findings, lint.py:111-149; build.py:110).     *)
(***************************************************************************)
LintsClean ==
    stage = "ready" =>
       LET errors == LintErrors(catalog, findings)
       IN /\ errors \subseteq {"placeholder-leak"}
          /\ swaps = 0 =>
                (errors /= {} <=> \E p \in corpus : Wanted(p) /\ Leaks(Pages[p]))

(***************************************************************************)
(* A suggestion shows a command line only if a page for this system, for   *)
(* every system, or for no known family shows it, and only in a shell that *)
(* one of its pages allows (normalize.py:382-392): GNU's `dir` is never    *)
(* offered on Windows, whatever the order of sources and ties.             *)
(***************************************************************************)
NothingForeign ==
    Served => \A k \in DOMAIN printed :
       LET tool == Tools[Results[k]]
           home == {f \in FindingsOf(tool) :
                       \/ RuntimeFamily(index.os) = "unknown"
                       \/ FamilyOf(f.os) = RuntimeFamily(index.os)
                       \/ ~Concrete(FamilyOf(f.os))}
       IN /\ \E f \in home : index.shell \in ShellsForOs(f.os)
          /\ tool.examples /= <<>> =>
                \E f \in home, e \in UNION {ToSet(g.examples) : g \in home} :
                   e.command = printed[k].command

(***************************************************************************)
(* The list holds the best tools there are: none that the gate or the      *)
(* floor forbids, at most MaxPerBinary of a binary, in the order of the    *)
(* ranking, and an eligible tool is absent only when the list is full of   *)
(* better ones or its binary has its share above it (index.py:203-206:     *)
(* a filter applied after ranking must not shorten the list).              *)
(***************************************************************************)
BestFirst ==
    Served =>
       LET ranked == {request.ranked[n] : n \in DOMAIN request.ranked}
           Place(i) == CHOOSE n \in DOMAIN request.ranked : request.ranked[n] = i
           above(i) == {j \in ToSet(Results) : Place(j) < Place(i)}
           ok(i) == Eligible(index, request.query, Names(inventory), i)
           same(i) == {j \in above(i) : Tools[j].binary = Tools[i].binary}
       IN /\ Len(Results) <= request.limit
          /\ \A i \in ToSet(Results) : ok(i) /\ Cardinality(same(i)) < MaxPerBinary
          /\ \A k, m \in DOMAIN Results : k < m => Place(Results[k]) < Place(Results[m])
          /\ \A i \in ranked \ ToSet(Results) :
                ok(i) => \/ Cardinality(above(i)) = request.limit
                         \/ Cardinality(same(i)) = MaxPerBinary

(***************************************************************************)
(* A warning once earned survives: a candidate is marked when the name or  *)
(* the prose of any of its sources is destructive, and when the very       *)
(* example suggested is (normalize.py:468-480, server.py:273-286); a name  *)
(* that is suggested alone is judged as a name.  And the daemon            *)
(* answers with a non-empty beginning of what the command line prints, so  *)
(* the same query is marked alike on both paths (cli.py:402-404).          *)
(***************************************************************************)
WarningSurvives ==
    Served =>
       /\ \A k \in DOMAIN printed :
             LET tool == Tools[Results[k]]
                 origin == {f \in FindingsOf(tool) :
                    \E v \in catalog : v.tool = tool /\ v.family = FamilyOf(f.os)}
             IN \/ printed[k].dangerous
                \/ /\ \A f \in origin : "destructive" \notin InferCapabilities(f)
                   /\ tool.examples /= <<>> => ~IsDestructive(printed[k].command)
       /\ printed /= <<>> => answer /= <<>> /\ IsPrefix(answer, printed)

(***************************************************************************)
(* "Windows command lookup is case-insensitive" (discovery.py:98): an      *)
(* installed command that has a page for this target is offered when its   *)
(* name is all the user typed and there is room for every match.           *)
(***************************************************************************)
InstalledIsOffered ==
    Served => \A i \in DOMAIN Tools :
       (/\ request.query.typed = index.invocation[i]
        /\ request.limit >= Len(Tools)
        /\ Fold(Tools[i].binary) \in {Fold(n) : n \in Names(inventory)})
       => i \in ToSet(Results)
=============================================================================

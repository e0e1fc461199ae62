---------------------------- MODULE CatalogBuild ----------------------------
(***************************************************************************)
(* What `cl-ai index` makes of a corpus page: the finding a tldr page      *)
(* yields (extract/tldr.py), the variants normalize() merges findings      *)
(* into, the variant a target is given, and the errors lint() reports.     *)
(* Text is a sequence of characters where its letters matter (names and    *)
(* what a user types); a description is the set of its words.              *)
(***************************************************************************)
EXTENDS Naturals, Sequences, SequencesExt, FiniteSets, FiniteSetsExt

CONSTANTS
    Alphabet,    \* the characters, in code order
    Alnum,       \* those of them an identifier keeps
    LowerChar,   \* a character in lower case
    Spelling,    \* a punctuation character -> its name, _PUNCT_NAMES
    Hints        \* kind of hint -> words: destructive, write, network, ...

ASSUME SpellingAssumption ==
    /\ Alnum \subseteq ToSet(Alphabet)
    /\ Spelling \in [ToSet(Alphabet) -> Seq(Alnum)]
    /\ \A c \in ToSet(Alphabet) : Spelling[c] # <<>>

LowerCase(s) == [i \in DOMAIN s |-> LowerChar[s[i]]]

\* The order of Python's str.
Code == [c \in ToSet(Alphabet) |-> SelectInSeq(Alphabet, LAMBDA x : x = c)]
Precedes(a, b) ==
    \E i \in DOMAIN b :
       /\ \A j \in 1..(i - 1) : j <= Len(a) /\ a[j] = b[j]
       /\ i <= Len(a) => Code[a[i]] < Code[b[i]]

\* Things by their ranks, and a set in the order of `before`: in a sequence
\* that is sorted, a thing comes after as many others as there are before it.
InOrder(rank) ==
    [n \in {rank[x] : x \in DOMAIN rank} |-> CHOOSE x \in DOMAIN rank : rank[x] = n]
Sorted(S, before(_, _)) ==
    InOrder([x \in S |-> 1 + Cardinality({y \in S : before(y, x)})])

\* The pieces of a text, cut at the characters that are not kept.
Split(text, kept) ==
    LET Char(acc, c) == IF c \in kept THEN Append(Front(acc), Append(Last(acc), c))
                        ELSE Append(acc, <<>>)
    IN SelectSeq(FoldLeft(Char, <<<<>>>>, text), LAMBDA w : w /= <<>>)

\* Of two places in a list of lists, the one met first: <<list, place in it>>.
Earlier(x, y) == x[1] < y[1] \/ (x[1] = y[1] /\ x[2] < y[2])

\* sep.join(words); place 0 of a word is the separator before it.
Join(words, sep) ==
    LET places == UNION {{n} \X ((IF n = 1 THEN 1 ELSE 0) .. Len(words[n])) :
                            n \in DOMAIN words}
        order == Sorted(places, Earlier)
    IN [k \in DOMAIN order |-> IF order[k][2] = 0 THEN sep
                               ELSE words[order[k][1]][order[k][2]]]

-----------------------------------------------------------------------------
(* One page.  A line is an intent ("- ..."), a command in backticks, one   *)
(* with an opening backtick only, one whose placeholders do not parse, or  *)
(* something else.                                                         *)

Identity(p) == <<p.kind, IF p.kind /= "option" THEN p.name
                         ELSE IF p.long /= "" THEN p.long
                         ELSE IF p.short /= "" THEN p.short ELSE p.name>>

\* The first parameter of each identity is kept.
FirstOfEach(params) ==
    FoldLeft(LAMBDA kept, p :
                IF \E q \in ToSet(kept) : Identity(q) = Identity(p)
                THEN kept ELSE Append(kept, p),
             <<>>, params)

\* The parameters of some lines or findings, one after the other.
ParamsOf(parts) == FirstOfEach(FoldLeft(LAMBDA all, x : all \o x.params, <<>>, parts))

\* The intent that is pending at line n: no command has taken it and no
\* command that does not parse has dropped it.  A line that starts like a
\* command and does not end like one leaves it pending.
Pending(lines, n) ==
    LET ends == {j \in 1 .. n - 1 : lines[j].kind \in {"intent", "command", "broken"}}
    IN UNION {lines[j].words : j \in {k \in ends : lines[k].kind = "intent"
                                                   /\ \A i \in ends : i <= k}}

\* A command line leaks when a brace pair of its template survives that the
\* template did not escape: a stray "}}", or a slot inside a slot.
Leaks(page) == \E n \in DOMAIN page.lines :
                  page.lines[n].kind = "command" /\ page.lines[n].leaks

\* parse_page after its title check: an example is described by the intent
\* that is pending, or by the page.
ParsePage(page, source) ==
    LET order == Sorted({n \in DOMAIN page.lines : page.lines[n].kind = "command"}, <)
        Described(n) == IF Pending(page.lines, n) = {} THEN page.prose
                        ELSE Pending(page.lines, n)
    IN [binary |-> Head(page.title), path |-> Tail(page.title),
        prose |-> page.prose, source |-> source, os |-> page.os,
        examples |-> [k \in DOMAIN order |->
                         [intent |-> Described(order[k]),
                          command |-> page.lines[order[k]].command]],
        params |-> ParamsOf(page.lines), leaks |-> Leaks(page)]

\* One segment of a name: a run of other characters becomes one underscore,
\* or nothing at either end; pure punctuation is spelled out.
Identifier(seg) ==
    LET kept == {i \in DOMAIN seg :
                    \/ seg[i] \in Alnum
                    \/ /\ i > 1 /\ seg[i - 1] \in Alnum
                       /\ \E j \in DOMAIN seg : j > i /\ seg[j] \in Alnum}
        order == Sorted(kept, <)
    IN IF kept /= {}
       THEN [k \in DOMAIN order |-> IF seg[order[k]] \in Alnum THEN seg[order[k]] ELSE "_"]
       ELSE Join([i \in DOMAIN seg |-> Spelling[seg[i]]], "_")

\* lstrip("-"), or the segment when nothing is left.
Undashed(seg) ==
    LET rest == {i \in DOMAIN seg : seg[i] /= "-"}
    IN IF rest = {} THEN seg ELSE SubSeq(seg, Min(rest), Len(seg))

QualifiedName(f) ==
    Join(<<Identifier(f.binary)>> \o
         [i \in DOMAIN f.path |-> Identifier(Undashed(f.path[i]))], "_")

-----------------------------------------------------------------------------
(* Families and targets. *)

FamilyOf(os) ==
    CASE os = "common" -> "common"
      [] os \in {"linux", "osx", "freebsd", "netbsd", "openbsd", "sunos", "android"} -> "posix"
      [] os \in {"windows", "dos"} -> "windows"
      [] os = "cisco-ios" -> "appliance"
      [] OTHER -> "unknown"

\* family_for_os_name: what sys.platform says, without the version it may
\* end in.
RuntimeFamily(os) ==
    CASE os \in {"win32", "windows", "nt", "cygwin", "dos"} -> "windows"
      [] os \in {"darwin", "macos", "osx", "linux", "linux2", "freebsd", "openbsd",
                 "netbsd", "sunos", "solaris", "android", "posix"} -> "posix"
      [] OTHER -> "unknown"

Concrete(family) == family \in {"posix", "windows", "appliance"}

ShellsForOs(os) ==
    CASE os = "common" -> {"bash", "zsh", "fish", "powershell", "pwsh", "cmd"}
      [] os \in {"linux", "osx"} -> {"bash", "zsh", "fish", "pwsh"}
      [] os \in {"freebsd", "netbsd", "openbsd", "sunos"} -> {"bash", "zsh", "fish"}
      [] os = "android" -> {"bash", "zsh"}
      [] os = "windows" -> {"powershell", "pwsh", "cmd"}
      [] os = "dos" -> {"cmd"}
      [] OTHER -> {}

\* _words: a dot is part of a word here, mkfs.ext4 is not mkfs.
HintWords(text) == ToSet(Split(LowerCase(text), Alnum \cup {"."}))

\* Destruction is judged on the name and the prose, never on the examples.
InferCapabilities(f) ==
    LET identity == HintWords(Join(<<f.binary>> \o f.path, " "))
        shown == UNION {HintWords(e.command) : e \in ToSet(f.examples)}
        named(kind) == (identity \cup f.prose) \cap Hints[kind] /= {}
    IN {"reads"}
       \cup (IF named("destructive") THEN {"destructive", "writes"} ELSE {})
       \cup (IF named("write") THEN {"writes"} ELSE {})
       \cup (IF \/ (identity \cup shown) \cap Hints["network"] /= {}
                \/ /\ LowerCase(f.binary) \in Hints["driver"]
                   /\ HintWords(Join(f.path, " ")) \cap Hints["verb"] /= {}
             THEN {"network"} ELSE {})
       \cup (IF (identity \cup shown) \cap Hints["elevated"] /= {}
             THEN {"elevated"} ELSE {})

-----------------------------------------------------------------------------
(* normalize(): all findings here are of one tier, so a claim ranks by the *)
(* name of its source alone.                                               *)

\* Mutant: a parameter without a spelling is passed on.
MergeEveryParam(group) ==
    {[name |-> p.name, kind |-> p.kind, short |-> p.short, flag |-> p.long,
      enum |-> IF p.kind = "subcommand" THEN p.choices ELSE {}]
     : p \in ToSet(ParamsOf(group))}

MergeParams(group) ==
    LET renderable(p) == p.kind = "option" => (p.long /= "" \/ p.short /= "")
    IN {[name |-> p.name, kind |-> p.kind, short |-> p.short,
         flag |-> IF p.kind /= "option" THEN ""
                  ELSE IF p.long /= "" THEN p.long ELSE p.short,
         enum |-> IF p.kind = "subcommand" THEN p.choices ELSE {}]
        : p \in {q \in ToSet(ParamsOf(group)) : renderable(q)}}

\* Mutant: the best source's examples win, like any other field.
BestExamples(group) == Head(group).examples

\* Examples add up; the same command line counts once.
MergeExamples(group) ==
    LET places == UNION {{n} \X DOMAIN group[n].examples : n \in DOMAIN group}
        At(x) == group[x[1]].examples[x[2]]
        order == Sorted({x \in places : \A y \in places :
                            At(y).command = At(x).command => ~Earlier(y, x)}, Earlier)
    IN [k \in DOMAIN order |-> At(order[k])]

\* The best description that is not empty.
MergeProse(group) ==
    LET described == SelectSeq(group, LAMBDA f : f.prose /= {})
    IN IF described = <<>> THEN {} ELSE Head(described).prose

\* One tool out of the findings of one name and family, best source first.
MergeGroup(name, group) ==
    [name |-> name,
     prose |-> MergeProse(group),
     binary |-> Head(group).binary, path |-> Head(group).path,
     params |-> MergeParams(group),
     capabilities |-> UNION {InferCapabilities(f) : f \in ToSet(group)},
     platforms |-> UNION {ShellsForOs(f.os) : f \in ToSet(group)},
     examples |-> MergeExamples(group)]

\* The findings of one name and family.
Named(findings, name, family) ==
    {f \in ToSet(findings) : QualifiedName(f) = name /\ FamilyOf(f.os) = family}

\* Mutant: group in the order of arrival.
GroupUnsorted(findings, name, family) ==
    SelectSeq(findings, LAMBDA f : f \in Named(findings, name, family))

\* They are merged in the order of their sources.
Group(findings, name, family) ==
    Sorted(Named(findings, name, family), LAMBDA f, g : f.source < g.source)

Normalize(findings) ==
    {[family |-> k[2],
      tool |-> MergeGroup(k[1], Group(findings, k[1], k[2]))]
     : k \in {<<QualifiedName(f), FamilyOf(f.os)>> : f \in ToSet(findings)}}

-----------------------------------------------------------------------------
(* Catalog.select and for_target. *)

FamilyRank == [appliance |-> 1, posix |-> 2, windows |-> 3, common |-> 4, unknown |-> 5]

\* Concrete families first, then in the order of their names.
MostSpecific(fit) ==
    {v.tool : v \in {u \in fit : \A w \in fit :
                        FamilyRank[u.family] <= FamilyRank[w.family]}}

\* Mutant: the shell alone decides.
SelectByShell(catalog, name, shell, os) ==
    MostSpecific({v \in catalog : v.tool.name = name /\ shell \in v.tool.platforms})

\* At most one tool, and never one of another concrete family.
Select(catalog, name, shell, os) ==
    LET wanted == RuntimeFamily(os)
    IN MostSpecific({v \in catalog :
          /\ v.tool.name = name /\ shell \in v.tool.platforms
          /\ wanted = "unknown" \/ v.family = wanted \/ ~Concrete(v.family)})

ForTarget(catalog, shell, os) ==
    Sorted(UNION {Select(catalog, v.tool.name, shell, os) : v \in catalog},
           LAMBDA t, u : Precedes(t.name, u.name))

-----------------------------------------------------------------------------
(* The errors of lint(): what BuildResult.ok, and so the exit status of    *)
(* `cl-ai index`, depends on.                                              *)

\* _IDENT_OK: no underscore before the first letter or digit.
IsIdentifier(name) ==
    /\ name /= <<>>
    /\ Head(name) \in Alnum
    /\ ToSet(name) \subseteq Alnum \cup {"_"}

ToolErrors(tool) ==
    (IF ~IsIdentifier(tool.name)
     THEN {"bad-identifier"} ELSE {})
    \cup (IF tool.binary = <<>> THEN {"no-binary"} ELSE {})
    \cup (IF \E p \in tool.params :
                p.kind = "option" /\ p.flag = "" /\ p.short = ""
          THEN {"unrenderable-option"} ELSE {})

\* A leak is seen in the findings only (check_findings): the merge loses the
\* template that tells it from a brace the command has.
LintErrors(catalog, findings) ==
    (UNION {ToolErrors(v.tool) : v \in catalog})
    \cup (IF \E u, v \in catalog :
                u /= v /\ u.tool.name = v.tool.name /\ u.family = v.family
          THEN {"duplicate-variant"} ELSE {})
    \cup (IF \E f \in ToSet(findings) : f.leaks THEN {"placeholder-leak"} ELSE {})
=============================================================================

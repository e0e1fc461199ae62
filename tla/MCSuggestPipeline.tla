-------------------------- MODULE MCSuggestPipeline --------------------------
(***************************************************************************)
(* A machine with two directories on PATH, six files, and a corpus of      *)
(* eight pages: `g`, its subcommand `g c` and the unrelated `g+`, `ls` as  *)
(* a POSIX and as a Windows command, and `rm`, which Windows spells RM.    *)
(* B may hold `g` as g.cmd and as g.exe, which PATHEXT puts first.         *)
(***************************************************************************)
EXTENDS SuggestPipeline

MCDirs == {"A", "B", "C", "D", "E"}
MCDirState == [A |-> "dir", B |-> "dir", C |-> "missing", D |-> "unreadable",
               E |-> "file"]
MCDirOf == "a" :> "A" @@ "a/" :> "A" @@ "b" :> "B" @@ "" :> "empty"
           @@ "gone" :> "C" @@ "locked" :> "D" @@ "file" :> "E"
MCPaths == {<<"a", "b">>, <<"b", "a", "a/">>,
            <<"", "gone", "a", "locked", "file", "b", "a/">>}

RM == <<"R", "M">>
g == <<"g">>
gplus == <<"g", "+">>
rm == <<"r", "m">>
ls == <<"l", "s">>
exe == <<".", "e", "x", "e">>
cmd == <<".", "c", "m", "d">>

MCFiles == <<[file |-> RM \o exe, stem |-> RM, ext |-> 2],
             [file |-> g, stem |-> g, ext |-> 0],
             [file |-> gplus, stem |-> gplus, ext |-> 0],
             [file |-> g \o cmd, stem |-> g, ext |-> 4],
             [file |-> g \o exe, stem |-> g, ext |-> 2],
             [file |-> rm, stem |-> rm, ext |-> 0]>>

\* Whether RM.exe is in A, g runs there, RM.exe is an alias in B, g+ and
\* g.exe, g.cmd are in B.
MCTrees ==
    {[d \in MCDirs |-> IF d = "A" THEN <<t[1], t[2], "absent", "absent", "program", "program">>
                       ELSE IF d = "B"
                       THEN <<t[3], "program", t[4], t[6], t[5], "dir">>
                       ELSE [f \in 1..6 |-> "absent"]]
     : t \in {<<"program", "hollow", "program", "program", "program", "absent">>,
              <<"absent", "program", "hollow", "absent", "program", "program">>}}

MCBuiltins == {ls}

MCAlphabet == <<" ", "(", "+", "-", ".", ";", "M", "R", "_", "c", "d", "e", "g", "i", "k",
                "l", "m", "p", "r", "s", "x">>
MCAlnum == {"M", "R", "c", "d", "e", "g", "i", "k", "l", "m", "p", "r", "s", "x"}
MCLowerChar == [c \in ToSet(MCAlphabet) |->
                   IF c = "M" THEN "m" ELSE IF c = "R" THEN "r" ELSE c]
MCSpelling == [c \in ToSet(MCAlphabet) |-> <<"p">>]
MCLower == [n \in UNION {{f.file, f.stem} : f \in ToSet(MCFiles)} \cup {ls} |->
               [i \in DOMAIN n |-> MCLowerChar[n[i]]]]

MCHints == [destructive |-> {rm}, write |-> {<<"c">>}, network |-> {<<"s">>},
            driver |-> {g}, verb |-> {<<"c">>}, elevated |-> {<<"k">>}]

MCStopwords == {<<"e">>}
MCDestructiveFlags == {<<"-", "r">>}
MCDestructiveWords == {<<"x">>}
MCDestructiveIntent == {<<"k">>}
MCPunctuation == {"(", ";"}

Line(kind, words, text, ps, leaks) ==
    [kind |-> kind, words |-> words, command |-> text, params |-> ps, leaks |-> leaks]
Intent(w) == Line("intent", {<<w>>}, <<>>, <<>>, FALSE)
Command(text, ps) == Line("command", {}, text, ps, FALSE)
Leaking(text) == Line("command", {}, text, <<>>, TRUE)
Other(kind) == Line(kind, {}, <<>>, <<>>, FALSE)
Option(n, l, s) == [kind |-> "option", name |-> n, long |-> l, short |-> s,
                    choices |-> {}]
Page(os, title, prose, lines) ==
    [os |-> os, title |-> title, prose |-> prose, lines |-> lines]

MCPages == <<
    Page("common", <<g>>, {<<"p">>},
         <<Intent("c"), Command(g \o <<" ", "c">>, <<Option("all", "", "-a")>>),
           Intent("k"), Other("broken"),
           Command(g \o <<" ", "c", ";", "(", "x">>, <<Option("either", "", "")>>)>>),
    Page("common", <<g, <<"-", "c">>>>, {<<"s">>},
         <<Intent("i"), Command(g \o <<" ", "c", " ", "-", "r">>, <<>>),
           Intent("s"), Command(g \o <<" ", "c", " ", "l">>, <<>>)>>),
    Page("common", <<gplus>>, {},
         <<Intent("i"), Command(gplus \o <<" ", "i">>,
                                <<Option("all", "", "-a"), Option("all", "--all", "-a")>>)>>),
    Page("linux", <<ls>>, {<<"i">>}, <<Leaking(ls)>>),
    Page("linux", <<rm>>, {<<"i">>}, <<Intent("i"), Command(rm \o <<" ", "i">>, <<>>)>>),
    Page("windows", <<ls>>, {<<"c">>}, <<Intent("i"), Command(ls \o <<" ", "c">>, <<>>)>>),
    Page("windows", <<rm>>, {<<"i">>}, <<>>),
    Page("windows", <<>>, {}, <<Intent("i")>>)>>

MCOsDirs == <<"common", "linux", "windows">>
MCCorpora == {{}, 1..8, {1, 3, 5, 7}, {2, 4, 6}}
MCQueries == {<<"g", " ", " ", "c">>, rm, <<"i">>, <<"e", " ", "k", " ", "i">>, <<"+">>}
MCDaemonList == {<<"k">>}
=============================================================================

------------------------------ MODULE Retrieval ------------------------------
(***************************************************************************)
(* ToolIndex.search (retrieval/index.py) over the tools of one target and  *)
(* the example that becomes the command (retrieval/examples.py).  BM25's   *)
(* scores are a parameter: any numbers, positive for the tools that match  *)
(* a term and for no others.  What is made of them is computed exactly, in *)
(* integers scaled so that every quotient of the code is whole.            *)
(***************************************************************************)
EXTENDS CatalogBuild, Integers, FiniteSetsExt, Functions

CONSTANTS
    Stopwords,         \* QUERY_STOPWORDS
    DestructiveWords,  \* words that mark a command line, is_destructive()
    DestructiveFlags,  \* flags that do
    DestructiveIntent, \* query words that ask for destruction
    Punctuation,       \* the shell's, that a word of a line may begin or end with
    MaxPerBinary       \* MAX_PER_BINARY

\* tokenize, for text without the camelCase that it also splits.
Tokens(text) == Split(LowerCase(text), Alnum)

WordsOf(text) == ToSet(Tokens(text))

\* tokenize_query: filler goes unless nothing else is left.
QueryTerms(text) ==
    LET kept == SelectSeq(Tokens(text), LAMBDA w : w \notin Stopwords)
    IN IF kept = <<>> THEN Tokens(text) ELSE kept

Words(text) == Split(text, ToSet(Alphabet) \ {" "})

\* A query, which is stripped: its terms and its text with the blanks
\* collapsed, for search(), and the text as it is, for _by_name.
Parse(text) ==
    [terms |-> QueryTerms(text), typed |-> LowerCase(Join(Words(text), " ")),
     needle |-> LowerCase(text)]

Invocation(tool) == Join(<<tool.binary>> \o tool.path, " ")

\* Every term of _document_for's four fields.
TermsOf(tool) ==
    WordsOf(tool.name) \cup WordsOf(Invocation(tool)) \cup tool.prose
    \cup UNION {e.intent \cup WordsOf(e.command) : e \in ToSet(tool.examples)}

\* ln(1 + (n - df + 0.5) / (df + 0.5)) in thousandths, for n up to 4.
Idf(df, n) ==
    <<<<288>>, <<693, 182>>, <<981, 470, 134>>, <<1204, 693, 357, 105>>>>[n][df]

\* ToolIndex.from_catalog and its Bm25Index: the tools of a target, the terms
\* of each, the idf of each term over all of them, and the spellings that
\* completion compares with.
IndexOf(catalog, shell, os) ==
    LET tools == ForTarget(catalog, shell, os)
        terms == [i \in DOMAIN tools |-> TermsOf(tools[i])]
        df(t) == Cardinality({i \in DOMAIN tools : t \in terms[i]})
    IN [os |-> os, shell |-> shell, tools |-> tools, terms |-> terms,
        idf |-> [t \in UNION Range(terms) |-> Idf(df(t), Len(tools))],
        invocation |-> [i \in DOMAIN tools |-> LowerCase(Invocation(tools[i]))],
        name |-> [i \in DOMAIN tools |-> LowerCase(tools[i].name)]]

Docs(index) == DOMAIN index.tools
Binary(index, i) == index.tools[i].binary

Matched(index, q, i) == ToSet(q.terms) \cap index.terms[i]

Total(f, S) == FoldSet(LAMBDA x, sum : sum + f[x], 0, S)

\* _coverage >= MIN_COVERAGE: three tenths of the idf of the terms that the
\* corpus knows; a query of unknown terms is covered by anything.
Covered(index, q, i) ==
    LET known == ToSet(q.terms) \cap DOMAIN index.idf
    IN 10 * Total(index.idf, Matched(index, q, i)) >= 3 * Total(index.idf, known)

\* Ids, from records with a score, by descending score, then ascending id.
ByScore(scored) ==
    LET order == Sorted(scored, LAMBDA x, y : \/ x.score > y.score
                                              \/ x.score = y.score /\ x.id < y.id)
    IN [n \in DOMAIN order |-> order[n].id]

\* _prefix_ranking's score in units of 1/840, a multiple of every length
\* up to 8.
PrefixScore(index, q, i) ==
    LET tail == Last(q.terms)
        invocation == index.invocation[i]
        name == index.name[i]
        begins(s) == IsPrefix(s, invocation) \/ IsPrefix(s, name)
        share(s) == (840 * Len(s)) \div Len(invocation)
    IN CASE invocation = q.typed \/ name = q.typed -> 3 * 840
         [] OTHER ->
            CASE begins(q.typed) -> 2 * 840 + share(q.typed)
              [] LowerCase(Binary(index, i)) = tail \/ name = tail -> 1260
              [] begins(tail) -> 840 + share(tail)
              [] \E s \in ToSet(index.tools[i].path) : IsPrefix(tail, LowerCase(s)) -> 672
              [] OTHER -> 0

\* _whole_query_prefix_hits
WholeQuery(index, q, i) ==
    /\ q.typed /= <<>>
    /\ IsPrefix(q.typed, index.invocation[i]) \/ IsPrefix(q.typed, index.name[i])

\* fuse_ranked_ids: weight / (60 + rank), in units of 2/(61 * 62 * 63 * 64).
Reciprocal(ranking, i) ==
    IF i \notin ToSet(ranking) THEN 0
    ELSE <<124992, 122976, 121024, 119133>>[SelectInSeq(ranking, LAMBDA x : x = i)]

\* The fused score of each id, the lexical half weighing 1, completion 2.5.
Fused(lexical, prefix) ==
    {[id |-> i, score |-> 2 * Reciprocal(lexical, i) + 5 * Reciprocal(prefix, i)]
     : i \in ToSet(lexical) \cup ToSet(prefix)}

\* 1 + boost / 4 over the best binary's sum, and 1 / (1 + 0.3 * depth).
BoostOf(index, relevance, i) ==
    LET sum(binary) == Total(relevance, {k \in Docs(index) : Binary(index, k) = binary})
        top == Max({sum(t.binary) : t \in ToSet(index.tools)})
    IN IF top = 0 THEN 4 ELSE 4 * top + sum(Binary(index, i))
Prominence(tool) == <<104, 80, 65>>[Len(tool.path) + 1]

\* The candidates in order: completions of the whole query first and by
\* length, then the rest by score.
Ranked(index, q, relevance) ==
    LET lexical == ByScore({[id |-> i, score |-> relevance[i]]
                            : i \in {j \in Docs(index) : relevance[j] > 0}})
        prefix == ByScore({x \in {[id |-> i, score |-> PrefixScore(index, q, i)]
                                  : i \in Docs(index)} : x.score > 0})
        entries == {LET whole == WholeQuery(index, q, x.id)
                    IN [id |-> x.id, tier |-> IF whole THEN 0 ELSE 1,
                        length |-> IF whole THEN Len(index.invocation[x.id]) ELSE 0,
                        score |-> x.score * BoostOf(index, relevance, x.id)
                                  * Prominence(index.tools[x.id])]
                    : x \in Fused(lexical, prefix)}
        before(x, y) ==
            IF x.tier /= y.tier THEN x.tier < y.tier
            ELSE IF x.length /= y.length THEN x.length < y.length
            ELSE x.score > y.score \/ (x.score = y.score /\ x.id < y.id)
        order == Sorted(entries, before)
    IN [n \in DOMAIN order |-> order[n].id]

\* The hard gate and the floor; an unknown inventory gates nothing.
Eligible(index, q, installed, i) ==
    /\ installed = {} \/ Binary(index, i) \in installed
    /\ Covered(index, q, i) \/ WholeQuery(index, q, i)

\* The tools of a list that have the binary of tool i.
Share(index, out, i) == {j \in ToSet(out) : Binary(index, j) = Binary(index, i)}

\* Mutant: one tool too many of a binary.
TakeOneMore(index, q, installed, out, i) ==
    IF Eligible(index, q, installed, i)
       /\ Cardinality(Share(index, out, i)) <= MaxPerBinary
    THEN Append(out, i) ELSE out

\* What the loop of search() makes of the next tool: at most MaxPerBinary of
\* one binary.
Take(index, q, installed, out, i) ==
    IF Eligible(index, q, installed, i)
       /\ Cardinality(Share(index, out, i)) < MaxPerBinary
    THEN Append(out, i) ELSE out

-----------------------------------------------------------------------------
(* Examples. *)

\* A word without the shell's punctuation around it.
Bare(word) ==
    LET rest == {i \in DOMAIN word : word[i] \notin Punctuation}
    IN IF rest = {} THEN <<>> ELSE SubSeq(word, Min(rest), Max(rest))

\* A flag counts wherever it stands in the line, a word on its own: between
\* blanks and semicolons, or next to other punctuation.
IsDestructive(command) ==
    LET line == LowerCase(command)
        contains(s) == \E n \in 0..(Len(line) - Len(s)) :
                          SubSeq(line, n + 1, n + Len(s)) = s
        words == {Bare(w) : w \in ToSet(Split(line, ToSet(Alphabet) \ {" ", ";"}))}
    IN \/ \E flag \in DestructiveFlags : contains(flag)
       \/ words \cap (Hints["destructive"] \cup DestructiveWords) /= {}

Asked(q) == ToSet(q.terms) \cap DestructiveIntent /= {}

\* A term counts by its idf over the examples, 45 hundredths of it when
\* only the command has it; destruction nobody asked for costs 4.
ExampleScore(tool, q, i) ==
    LET es == tool.examples
        has(j, t) == t \in es[j].intent \cup WordsOf(es[j].command)
        df(t) == Cardinality({j \in DOMAIN es : has(j, t)})
        known == {t \in ToSet(q.terms) : has(i, t)}
        evidence == [t \in known |-> Idf(df(t), Len(es)) *
                                     (IF t \in es[i].intent THEN 100 ELSE 45)]
    IN Total(evidence, known)
       - (IF IsDestructive(es[i].command) /\ ~Asked(q) THEN 400000 ELSE 0)

\* best_example: the earlier example wins a tie.
BestExample(tool, q) ==
    LET ranked == ByScore({[id |-> i, score |-> ExampleScore(tool, q, i)]
                           : i \in DOMAIN tool.examples})
    IN ranked[Min(DOMAIN ranked)]

CommandFor(tool, q) ==
    IF tool.examples = <<>> THEN Invocation(tool)
    ELSE tool.examples[BestExample(tool, q)].command
=============================================================================

SPECIFICATION PipelineSpec
CONSTANTS
    Dirs <- MCDirs
    DirState <- MCDirState
    DirOf <- MCDirOf
    Paths <- MCPaths
    Files <- MCFiles
    Lower <- MCLower
    Trees <- MCTrees
    Platforms = {TRUE, FALSE}
    Builtins <- MCBuiltins
    MaxEntries = 4
    MaxChanges = 1
    Alphabet <- MCAlphabet
    Alnum <- MCAlnum
    LowerChar <- MCLowerChar
    Spelling <- MCSpelling
    Hints <- MCHints
    Stopwords <- MCStopwords
    DestructiveWords <- MCDestructiveWords
    DestructiveFlags <- MCDestructiveFlags
    DestructiveIntent <- MCDestructiveIntent
    Punctuation <- MCPunctuation
    MaxPerBinary = 1
    Pages <- MCPages
    OsDirs <- MCOsDirs
    Corpora <- MCCorpora
    MaxSwaps = 1
    Queries <- MCQueries
    Shells = {"pwsh", "cmd", "bash"}
    Limits = {1, 4}
    MaxScore = 2
    DaemonList <- MCDaemonList
INVARIANTS
    AgreesWithPath
    CatalogFollowsCorpus
    OrderIndependent
    LintsClean
    NothingForeign
    BestFirst
    WarningSurvives
CHECK_DEADLOCK FALSE

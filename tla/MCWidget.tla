------------------------------ MODULE MCWidget ------------------------------
(***************************************************************************)
(* Widget with a typed line, the command it may turn into in two cases of  *)
(* letters, a second command and a blank line.                             *)
(***************************************************************************)
EXTENDS Widget

MCLine == {"", " ", "copy", "cp a b", "CP A B", "rsync"}
MCCommand == {"cp a b", "CP A B", "rsync"}
MCBlank == {"", " "}
MCSameText ==
    {<<l, l>> : l \in MCLine}
        \cup {<<"cp a b", "CP A B">>, <<"CP A B", "cp a b">>}

=============================================================================

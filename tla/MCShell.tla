------------------------------ MODULE MCShell ------------------------------
(* One folder, one file, and a table of 2 slots that can double once.      *)
EXTENDS Shell

MCNames == {"home", "a", "ab"}
MCPrefix == {<<n, n>> : n \in AllNames} \union {<<NoName, n>> : n \in AllNames}
            \union {<<"a", "ab">>}
MCTextLen == [t \in {"", "x"} |-> IF t = "" THEN 0 ELSE 1]
MCFiles == << [name |-> "home", parent |-> << >>, folder |-> TRUE, text |-> "", size |-> 0],
              [name |-> "ab", parent |-> <<"home", "ab">>, folder |-> FALSE,
               text |-> "x", size |-> 1] >>
MCPath == <<"home">>
=============================================================================

------------------------------- MODULE MCSCC -------------------------------
(* Every text of up to two characters over one of each class but blanks.   *)
EXTENDS SCC

MCCharacters == {"a", "b", "1", "LF", "CR", "+", "@", "NUL"}
MCLetters  == {"a", "b"}
MCDigits   == {"1"}
MCKeywords == {<<"a", "b">>}
MCPaths    == UNION {[1 .. k -> {"a", "b", "LF", "CR", "+", "@"}] : k \in 0 .. 2} \cup {NoFile}
MCSlacks   == {<<"NUL", "NUL", "NUL">>, <<"a", "NUL">>}
=============================================================================

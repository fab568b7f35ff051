------------------------------ MODULE MCSCCLex ------------------------------
(***************************************************************************)
(* Small instances of SCCLex: every text of up to three characters over    *)
(* one or two of each class, and longer ones over those characters whose   *)
(* order matters most.                                                     *)
(***************************************************************************)
EXTENDS SCCLexClaims

MCLetters  == {"a", "b"}
MCDigits   == {"1"}
MCKeywords == {<<"a", "b">>}
Alphabet   == {"a", "b", "1", " ", LF, CR, "+", "=", "<", ">", "-", "(", "~", Quote,
               Backslash, "@"}
TextsOf(A, n) == UNION {[1 .. k -> A] : k \in 1 .. n}
MCCharacters == Alphabet \cup {NUL}
MCTexts    == TextsOf(Alphabet, 3) \cup TextsOf({LF, CR, "<", "=", "a", Quote, Backslash}, 4)
              \cup TextsOf({LF, CR, "1"}, 6) \cup TextsOf({LF, CR, NUL}, 4)
ShortTexts == TextsOf(Alphabet, 3)
AnySlack   == {<<NUL, NUL, NUL>>, <<"a", NUL>>, <<LF>>, <<"1", "+", NUL>>}
NULs       == {<<NUL, NUL, NUL>>}
=============================================================================

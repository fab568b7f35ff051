---------------------------- MODULE MCStringTable ----------------------------
(* The empty string and those of up to three characters of one letter, one  *)
(* of them in another; three times the size of one is less than another's.  *)
EXTENDS StringTable

MCStrings == {<<>>, <<"x">>, <<"y">>, <<"x", "y">>, <<"x", "x", "x">>,
              <<"y", "y", "y", "y", "y", "y">>}
==============================================================================

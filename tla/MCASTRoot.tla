----------------------------- MODULE MCASTRoot -----------------------------
(* Types of two names, one as long as the array it is kept in; a function  *)
(* and a global variable.                                                  *)
EXTENDS ASTRoot

MCNames    == [types |-> {"int", "long"}, funcs |-> {"f"}, gvars |-> {"x"}]
MCLength   == [n \in {"int", "long", "f", "x"} |->
                  CASE n = "int" -> 3 [] n = "long" -> 4 [] OTHER -> 1]
MCNameSize == [types |-> 4, funcs |-> 8, gvars |-> 4]
MCMaxDecls == [types |-> 2, funcs |-> 1, gvars |-> 1]
=============================================================================

---------------------------- MODULE SCCLexClaims ----------------------------
(***************************************************************************)
(* What comments of the source say of the lexer and of the text parser, as *)
(* properties.  The code violates each of them.                            *)
(***************************************************************************)
EXTENDS SCCLex

\* SCC_TOK gives each operator its spelling: SCCT_ADD, // '+'.  The text a token
\* takes is its spelling, and what follows is left for the next token.
TokenTakesItsSpelling ==
    [][\A t \in Spelled : tok' # tok /\ tok'.kind = t[1] /\ tok'.start < size
          => SubSeq(mem, tok'.start + 1, pos') = t[2]]_vars

\* build finishes at the end of the buffer, of a text that NULs follow.
BuildFinishes == phase = "transform" ~> phase \in {"done", "wild"}
=============================================================================

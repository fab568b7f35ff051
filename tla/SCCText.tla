------------------------------ MODULE SCCText ------------------------------
(***************************************************************************)
(* scc_textparser: a text in memory, the loop that turns its CRLFs into    *)
(* LFs in place, the cursor that walks over it and counts lines.           *)
(*                                                                         *)
(* The text stands in a larger memory.  Nothing of the source promises     *)
(* that a NUL ends it, and get_char tests no bound: what lies behind the   *)
(* text, old bytes and then slack, is there to be read.                    *)
(***************************************************************************)
EXTENDS Integers, Sequences, FiniteSets

CONSTANTS Characters,  \* what a char may be
          Texts,       \* the texts, sequences of characters
          Slacks       \* what the memory behind the text may hold

NUL == "NUL"
LF  == "LF"
CR  == "CR"
Quote     == "quote"
Backslash == "backslash"

ASSUME TextsAssumption ==
    /\ {NUL, LF, CR} \subseteq Characters
    /\ Texts \subseteq Seq(Characters) \ {<<>>} /\ Slacks \subseteq Seq(Characters) \ {<<>>}

VARIABLES text,    \* history: the text as it was loaded
          mem,     \* the memory from m_base on
          size,    \* m_nsize: m_pend is m_base + m_nsize
          input,   \* p_input, how far the CRLF loop has come
          nlines,  \* m_nlines
          pos,     \* get_position(), m_ppos - m_base
          line,    \* m_ncurr_line
          phase    \* "transform", "read", "done"; "wild" outside the memory

textvars == <<text, mem, size, input, nlines>>
cursor   == <<pos, line>>

CharAt(p) == mem[p + 1]
IsEnd(p)  == ~(p < size)
Least(S)  == CHOOSE p \in S : \A q \in S : p <= q

TextInit ==
    /\ text \in Texts
    /\ \E s \in Slacks : mem = text \o s
    /\ size = Len(text) /\ input = 0 /\ nlines = 0
    /\ pos = 0 /\ line = 1 /\ phase = "transform"

-----------------------------------------------------------------------------
\* try_transform_line_completions_CRLF_to_LF.  strstr stops at a NUL.
CRLFs == {p \in input .. size - 1 :
              /\ CharAt(p) = CR /\ CharAt(p + 1) = LF
              /\ \A q \in input .. p : CharAt(q) # NUL}
ResumeFar(p)   == p + 2   \* variant: as if the text had not moved
ResumeAfter(p) == p + 1
ShrunkTwice(n) == n - 2   \* variant: by the size of a CRLF
Shrunk(n)      == n - 1

\* '\r' becomes '\n' and the rest moves down by one byte: the last byte stays
\* where it was, behind the new end.  A '\r' that is the last byte, before a
\* '\n' of the slack, would move size_t(-1) bytes.
TransformOne ==
    /\ phase = "transform" /\ CRLFs # {}
    /\ LET p == Least(CRLFs) IN
       IF p + 2 > size
       THEN phase' = "wild" /\ UNCHANGED textvars
       ELSE /\ mem' = [i \in 1 .. Len(mem) |->
                          IF i = p + 1 THEN LF
                          ELSE IF i \in p + 2 .. size - 1 THEN mem[i + 1] ELSE mem[i]]
            /\ size' = Shrunk(size) /\ nlines' = nlines + 1
            /\ input' = ResumeAfter(p)
            /\ UNCHANGED <<text, phase>>
    /\ UNCHANGED cursor
\* Where no NUL stops it, strstr goes on beyond the memory.
Unstopped == input < size /\ \A q \in input .. Len(mem) - 1 : CharAt(q) # NUL
TransformDone ==
    /\ phase = "transform" /\ CRLFs = {}
    /\ phase' \in {"read"} \cup (IF Unstopped THEN {"wild"} ELSE {})
    /\ UNCHANGED <<textvars, cursor>>
Transform == TransformOne \/ TransformDone

-----------------------------------------------------------------------------
\* The cursor.  pos_increment counts a line when it arrives at a '\n' inside the
\* text; Lines counts those from p to q, Walk is the cursor after that walk.
Lines(p, q) == Cardinality({i \in p + 1 .. q : ~IsEnd(i) /\ CharAt(i) = LF})
Walk(q) == pos' = q /\ line' = line + Lines(pos, q)

IsSpace(c) == c \in {" ", LF, CR}

\* skip_spaces stops at a character that is no space, or at the end; and says
\* whether it found one, which may lie behind the end.
Unspaced    == {p \in pos .. Len(mem) - 1 : ~IsSpace(CharAt(p)) \/ IsEnd(p)}
SkipSpaces  == Least(Unspaced)
FoundText   == ~IsSpace(CharAt(SkipSpaces))
CanSkip     == Unspaced # {}
============================================================================

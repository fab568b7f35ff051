------------------------------- MODULE SCCLex -------------------------------
(***************************************************************************)
(* The lexer scclex over scc_textparser, under the loop of ast_root::build *)
(* that calls next_tok until the text or the patience of the loop ends.    *)
(* One action per way next_tok returns; each holds the whole call, from    *)
(* skip_spaces on, and the turn of the loop that follows.                  *)
(***************************************************************************)
EXTENDS SCCText

CONSTANTS Letters, Digits,  \* isalpha, isdigit
          Keywords,         \* the words of init_keywords
          MaxTokString      \* SCCLEX_MAX_TOK_STRING

ASSUME LexAssumption == /\ Keywords \subseteq Seq(Letters \cup {"_"})
                        /\ NUL \notin Letters \cup Digits
                        /\ MaxTokString \in Nat \ {0}

VARIABLES tok,    \* the last token; kind, first line, string, and where it began
          build   \* the status of build, "running" while it loops

vars == <<textvars, cursor, phase, tok, build>>

\* The kinds of SCC_TOK, with the spellings their comments give them: of one
\* character, of two and of three.
Ones == {
    <<"SCCT_LPAREN", "(">>, <<"SCCT_RPAREN", ")">>, <<"SCCT_LQPAREN", "[">>,
    <<"SCCT_RQPAREN", "]">>, <<"SCCT_LBRACE", "{">>, <<"SCCT_RBRACE", "}">>,
    <<"SCCT_MOD", "%">>, <<"SCCT_ADD", "+">>, <<"SCCT_SUB", "-">>, <<"SCCT_ASTERISK", "*">>,
    <<"SCCT_DIV", "/">>, <<"SCCT_OR", "|">>, <<"SCCT_LESS", "<">>, <<"SCCT_GREATER", ">">>,
    <<"SCCT_AND", "&">>, <<"SCCT_XOR", "^">>, <<"SCCT_ASSIGNMENT", "=">>,
    <<"SCCT_NOT", "!">>, <<"SCCT_SEMICOLON", ";">>, <<"SCCT_TILDE", "~">>,
    <<"SCCT_DOT", ".">>, <<"SCCT_COMMA", ",">>, <<"SCCT_QUESTION", "?">>}
Twos == {
    <<"SCCT_MOD_ASSIGN", "%", "=">>, <<"SCCT_INC", "+", "+">>,
    <<"SCCT_ADD_ASSIGN", "+", "=">>, <<"SCCT_DEC", "-", "-">>,
    <<"SCCT_SUB_ASSIGN", "-", "=">>, <<"SCCT_ARROW", "-", ">">>,
    <<"SCCT_MUL_ASSIGN", "*", "=">>, <<"SCCT_DIV_ASSIGN", "/", "=">>,
    <<"SCCT_LOGICAL_OR", "|", "|">>, <<"SCCT_OR_ASSIGN", "|", "=">>,
    <<"SCCT_LESS_EQUAL", "<", "=">>, <<"SCCT_LSHIFT", "<", "<">>,
    <<"SCCT_GREATER_EQUAL", ">", "=">>, <<"SCCT_RSHIFT", ">", ">">>,
    <<"SCCT_LOGICAL_AND", "&", "&">>, <<"SCCT_AND_ASSIGN", "&", "=">>,
    <<"SCCT_XOR_ASSIGN", "^", "=">>, <<"SCCT_EQUAL", "=", "=">>,
    <<"SCCT_NOT_EQUAL", "!", "=">>}
Threes == {
    <<"SCCT_LSHIFT_ASSIGN", "<", "<", "=">>, <<"SCCT_RSHIFT_ASSIGN", ">", ">", "=">>}
Spelled == {<<t[1], <<t[2]>> >> : t \in Ones} \cup {<<t[1], <<t[2], t[3]>> >> : t \in Twos}
           \cup {<<t[1], <<t[2], t[3], t[4]>> >> : t \in Threes}

\* The cases of read_delims.  A single stands alone; an operator looks at the
\* next character, and a shift at one more.
Brackets == {<<"(", "SCCT_LPAREN">>, <<")", "SCCT_RPAREN">>, <<"[", "SCCT_LQPAREN">>,
             <<"]", "SCCT_RQPAREN">>, <<"{", "SCCT_LBRACE">>, <<"}", "SCCT_RBRACE">>,
             <<";", "SCCT_SEMICOLON">>}
NoMarks  == {}   \* variant: the cases of the marks are missing
Marks    == {<<"~", "SCCT_XOR">>, <<".", "SCCT_DOT">>, <<",", "SCCT_COMMA">>,
             <<"?", "SCCT_QUESTION">>}
Singles  == Brackets \cup Marks
Sums == {<<"%", "SCCT_MOD", {<<"=", "SCCT_MOD_ASSIGN">>}>>,
         <<"+", "SCCT_ADD", {<<"+", "SCCT_INC">>, <<"=", "SCCT_ADD_ASSIGN">>}>>,
         <<"-", "SCCT_SUB", {<<"-", "SCCT_INC">>, <<"=", "SCCT_SUB_ASSIGN">>, <<">", "SCCT_ARROW">>}>>,
         <<"*", "SCCT_ASTERISK", {<<"=", "SCCT_MUL_ASSIGN">>}>>,
         <<"/", "SCCT_DIV", {<<"=", "SCCT_DIV_ASSIGN">>}>>}
Relations == {<<"|", "SCCT_OR", {<<"|", "SCCT_LOGICAL_OR">>, <<"=", "SCCT_OR_ASSIGN">>}>>,
              <<"<", "SCCT_LESS", {<<"=", "SCCT_LESS_EQUAL">>}>>,
              <<">", "SCCT_GREATER", {<<"=", "SCCT_GREATER_EQUAL">>}>>,
              <<"&", "SCCT_AND", {<<"&", "SCCT_LOGICAL_AND">>, <<"=", "SCCT_AND_ASSIGN">>}>>,
              <<"^", "SCCT_XOR", {<<"=", "SCCT_XOR_ASSIGN">>}>>,
              <<"=", "SCCT_ASSIGNMENT", {<<"=", "SCCT_EQUAL">>}>>,
              <<"!", "SCCT_NOT", {<<"=", "SCCT_NOT_EQUAL">>}>>}
Operators == Sums \cup Relations
NoShifts  == {}   \* variant: the cases << and >> are missing
Shifts    == {<<"<", "SCCT_LSHIFT", "SCCT_LSHIFT_ASSIGN">>,
              <<">", "SCCT_RSHIFT", "SCCT_RSHIFT_ASSIGN">>}

-----------------------------------------------------------------------------
\* next_tok finds the first character that is no space.
Calls  == phase = "read" /\ build = "running" /\ CanSkip
Starts == Calls /\ FoundText
first  == SkipSpaces
c      == CharAt(first)
Ahead(n, d) == ~IsEnd(first + n) /\ CharAt(first + n) = d

\* A token that ends before q, of which n bytes of tok.string are written.
Token(kind, string) == [kind |-> kind, string |-> string, start |-> first,
                        start_line |-> line + Lines(pos, first)]
Take(kind, string, q, n) ==
    /\ IF n > MaxTokString THEN phase' = "wild" /\ UNCHANGED <<cursor, tok>>
                           ELSE Walk(q) /\ tok' = Token(kind, string) /\ UNCHANGED phase
    /\ UNCHANGED <<textvars, build>>

ReadSingle ==
    /\ Starts
    /\ \E s \in Singles : c = s[1] /\ Take(s[2], <<>>, first + 1, 1)

\* The increment behind the switch follows the one that looked ahead: an
\* operator of one character takes the next one with it.
PlainStay == first   \* variant: no increment at all
PlainEnd  == first + 2
ReadOperator ==
    /\ Starts
    /\ \E o \in Operators :
           /\ c = o[1] /\ \A d \in o[3] : ~Ahead(1, d[1])
           /\ \A s \in Shifts : c = s[1] => ~Ahead(1, c)
           /\ Take(o[2], <<>>, PlainEnd, 1)
ReadDouble ==
    /\ Starts
    /\ \E o \in Operators : /\ c = o[1]
                            /\ \E d \in o[3] : Ahead(1, d[1]) /\ Take(d[2], <<>>, first + 2, 1)

\* restore_context takes back the position and the line of the look-ahead.
NotRestored(stored, now) == now    \* variant: of the position only
Restored(stored, now) == stored
ReadShift ==
    /\ Starts
    /\ \E s \in Shifts :
           /\ c = s[1] /\ Ahead(1, c)
           /\ IF Ahead(2, "=") THEN Take(s[3], <<>>, first + 3, 1)
              ELSE /\ pos' = first + 2 /\ tok' = Token(s[2], <<>>)
                   /\ line' = Lines(first + 1, first + 2)
                        + Restored(line + Lines(pos, first + 1), line + Lines(pos, first + 2))
                   /\ UNCHANGED <<textvars, phase, build>>

-----------------------------------------------------------------------------
\* Words and literals run to the first character that ends them, or to the end.
\* A quote is part of a word.  The backslash of a literal gives the character
\* its escape stands for, and then that next character is read like any other.
FirstFrom(p, ends) == Least({q \in p .. Len(mem) : IsEnd(q) \/ CharAt(q) \in ends} \cup {Len(mem)})
Present == {mem[i] : i \in 1 .. Len(mem)}
IsAlpha(d)  == d \in Letters
WordChars   == Letters \cup Digits \cup {"_", Quote}
EndsWord    == Present \ WordChars
EndsNumber  == Present \ Digits
EndsAtNUL   == {NUL}   \* variant: the test for the quote is missing
EndsLiteral == {Quote}
Bytes(p, q) == [i \in 1 .. q - p |-> CharAt(p + i - 1)]
Escape(d)   == CASE d = "r" -> CR [] d = "n" -> LF [] d = "0" -> NUL
                 [] d \in {"t", "v"} -> " " [] d = "a" -> "BEL" [] OTHER -> d
Unescaped(p, q) == [i \in 1 .. q - p |->
    IF CharAt(p + i - 1) # Backslash THEN CharAt(p + i - 1) ELSE Escape(CharAt(p + i))]

ReadString ==
    /\ Starts /\ c = Quote
    /\ LET close == IF IsEnd(first + 1) THEN first + 1 ELSE FirstFrom(first + 1, EndsLiteral)
           open  == close > first + 1 /\ IsEnd(close) /\ CharAt(close - 1) = Backslash
       IN  IF ~IsEnd(close)
           THEN Take("SCCT_STRING", Unescaped(first + 1, close), close + 1, close - first)
           ELSE Take("SCCT_STRING", Unescaped(first + 1, close - (IF open THEN 1 ELSE 0)),
                     close, close - first - 1 - (IF open THEN 1 ELSE 0))

KeywordOf(w) == IF w \in Keywords THEN "SCCT_KEYWORD" ELSE "SCCT_IDENT"
TerminatedPast(n) == n + 2   \* variant: string[++length] = 0
Terminated(n) == n + 1       \* the bytes of a word and its '\0'
ReadWord ==
    /\ Starts /\ (IsAlpha(c) \/ c = "_")
    /\ LET q == FirstFrom(first, EndsWord) w == Bytes(first, q) IN
       Take(KeywordOf(w), w, q, Terminated(Len(w)))

\* A number that runs into a digit behind the end is no number, but is consumed.
ReadNumber ==
    /\ Starts /\ c \in Digits
    /\ LET q == FirstFrom(first, EndsNumber) w == Bytes(first, q) IN
       /\ CharAt(q) \notin Digits
       /\ Take("SCCT_INUM", w, q, Terminated(Len(w)))

\* The returns without a token.  build ends, in error at an invalid character.
Finish(q, status) == /\ Walk(q) /\ build' = status /\ phase' = "done"
                     /\ UNCHANGED textvars
EndInSpace  == /\ Calls /\ ~FoundText /\ Finish(first, "OK")
               /\ tok' = [tok EXCEPT !.kind = "SCCT_EOF", !.string = <<>>]
NoToken     == tok' = Token("SCCT_UNKNOWN", <<>>)
Starting    == Letters \cup Digits \cup {"_", Quote} \cup {s[1] : s \in Singles}
               \cup {o[1] : o \in Operators}
EndInNumber ==
    /\ Starts /\ c \in Digits
    /\ LET q == FirstFrom(first, EndsNumber) IN
       /\ CharAt(q) \in Digits
       /\ IF q - first > MaxTokString
          THEN phase' = "wild" /\ UNCHANGED <<textvars, cursor, tok, build>>
          ELSE Finish(q, "OK") /\ tok' = Token("SCCT_UNKNOWN", Bytes(first, q))
EndOfText   == Starts /\ c \notin Starting /\ IsEnd(first) /\ Finish(first, "OK") /\ NoToken
InvalidChar == Starts /\ c \notin Starting /\ ~IsEnd(first)
                      /\ Finish(first, "INPUT_ERROR") /\ NoToken

\* get_char beyond the memory.
WildRead ==
    /\ phase = "read" /\ ~CanSkip
    /\ phase' = "wild" /\ UNCHANGED <<textvars, cursor, tok, build>>

NextTok ==
    \/ ReadSingle \/ ReadOperator \/ ReadDouble \/ ReadShift \/ ReadString \/ ReadWord
    \/ ReadNumber \/ EndInSpace \/ EndInNumber \/ EndOfText \/ InvalidChar \/ WildRead
Load  == Transform /\ UNCHANGED <<tok, build>>
Ended == phase \in {"done", "wild"} /\ UNCHANGED vars

Init == /\ TextInit /\ build = "running"
        /\ tok = [kind |-> "SCCT_UNKNOWN", string |-> <<>>, start |-> 0, start_line |-> 1]
Next == Load \/ NextTok \/ Ended
Spec == Init /\ [][Next]_vars
\* The loop of build is a plain loop of the one thread there is.
FairSpec == Spec /\ WF_vars(Load \/ NextTok)

-----------------------------------------------------------------------------
TypeOK ==
    /\ mem \in Seq(Characters) /\ size \in 1 .. Len(text) /\ nlines \in Nat
    /\ pos \in 0 .. Len(mem) + 1 /\ line \in 1 .. Len(text) + 1
    /\ phase \in {"transform", "read", "done", "wild"}
    /\ tok.start \in 0 .. Len(mem) /\ tok.start_line \in 1 .. line
    /\ build \in {"running", "OK", "INPUT_ERROR"}

\* The CRLF loop, which moves the text under its own feet, leaves the text with
\* each CRLF replaced by one LF and nothing else changed, and counts them: of a
\* text without a NUL, at which strstr would stop.
ReplacedAt(i) == text[i] = CR /\ i < Len(text) /\ text[i + 1] = LF
Unix == LET kept == {i \in 1 .. Len(text) : ~ReplacedAt(i)}
        IN  [n \in 1 .. Cardinality(kept) |->
                text[CHOOSE i \in kept : Cardinality({j \in kept : j <= i}) = n]]
TextIsUnix ==
    phase \in {"read", "done"} /\ (\A i \in 1 .. Len(text) : text[i] # NUL) =>
        SubSeq(mem, 1, size) = Unix /\ nlines = Len(text) - Len(Unix)

\* Wherever the lexer stands, the line it counts is that of its position, the
\* look-ahead of the shifts included: the '\n's behind the first byte up to it.
LineIsCounted == phase # "wild" => line = 1 + Lines(0, pos)

\* Every token is the longest that could be read: no word or number goes on
\* behind it, and no spelling of an operator continues it.
MaximalMunch ==
    build = "running" /\ tok.start < size =>
    /\ LET q == tok.start + Len(tok.string) IN
       tok.kind \in {"SCCT_KEYWORD", "SCCT_IDENT", "SCCT_INUM"} /\ q < size =>
          CharAt(q) \notin IF tok.kind = "SCCT_INUM" THEN Digits ELSE Letters \cup Digits
    /\ \A t, u \in Spelled :
          t[1] = tok.kind /\ Len(u[2]) > Len(t[2]) /\ SubSeq(u[2], 1, Len(t[2])) = t[2]
             => \/ tok.start + Len(u[2]) > size
                \/ SubSeq(mem, tok.start + 1, tok.start + Len(u[2])) # u[2]

\* A literal without a backslash is the text between its quotes, whole and to the
\* first of them; where the text ends before that quote, all that is left of it.
LiteralIsItsText ==
    tok.kind = "SCCT_STRING" /\ (\A p \in tok.start + 1 .. pos - 1 : CharAt(p) # Backslash) =>
        LET q == tok.start + 1 + Len(tok.string) IN
        /\ CharAt(tok.start) = Quote /\ tok.string = Bytes(tok.start + 1, q)
        /\ \A i \in 1 .. Len(tok.string) : tok.string[i] # Quote
        /\ IF IsEnd(q) THEN pos = q ELSE CharAt(q) = Quote /\ pos = q + 1

\* No text that is shorter than tok.string overflows it, and none that is
\* followed by enough NULs is read beyond: but for those, nothing is wild.
ShortTextStaysInside ==
    Len(text) < MaxTokString /\ Len(mem) >= Len(text) + 2
    /\ (\A i \in Len(text) + 1 .. Len(mem) : mem[i] = NUL) => phase # "wild"

\* build ends in error only for a text with a character that starts no token.
InputErrorIsInText ==
    build = "INPUT_ERROR" =>
       \E i \in 1 .. size : mem[i] \notin Letters \cup Digits \cup {"_", Quote, " ", LF, CR}
                                           \cup {t[2][1] : t \in Spelled}

\* Between two tokens only blanks are passed over, and a token is never given
\* twice: each one consumes some of the text, as long as there is text.
OnlyBlanksBetween ==
    [][tok' # tok => /\ \A p \in pos .. tok'.start - 1 : IsSpace(CharAt(p))
                     /\ build' = "running" /\ tok'.start < size => pos' > pos]_vars

\* The loop of build ends, whatever the text, as long as no CRLF had to be
\* replaced in it and NULs follow it.
LfTextsEnd ==
    Unix = text /\ (\A i \in Len(text) + 1 .. Len(mem) : mem[i] = NUL)
       ~> phase \in {"done", "wild"}
=============================================================================

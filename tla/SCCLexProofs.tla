---------------------------- MODULE SCCLexProofs ----------------------------
(***************************************************************************)
(* What the lexer keeps for every text, whatever stands behind it in       *)
(* memory, and for every alphabet.  The walk of skip_spaces and the search *)
(* for the end of a word are least positions; the '\n's are counted by     *)
(* cardinalities.                                                          *)
(***************************************************************************)
EXTENDS SCCLex, SequenceTheorems, FiniteSetTheorems, WellFoundedInduction, TLAPS

-----------------------------------------------------------------------------
\* A search that can stop has a place where it stops first.
LEMMA LeastNatural ==
    ASSUME NEW S \in SUBSET Nat, S # {}
    PROVE  Least(S) \in S /\ \A n \in S : Least(S) <= n
<1> DEFINE R == {ss \in Nat \X Nat : ss[1] < ss[2]}
<1>1. IsWellFoundedOn(R, Nat)
  BY NatLessThanWellFounded DEF OpToRel
<1>2. \A m, n \in S : <<n, m>> \in R <=> n < m
  OBVIOUS
<1> HIDE DEF R
<1>3. \E m \in S : \A n \in S : ~(<<n, m>> \in R)
  BY <1>1, WFMin
<1>4. \A m, n \in S : ~(n < m) => m <= n
  OBVIOUS
<1>5. \E m \in S : \A n \in S : m <= n
  BY <1>2, <1>3, <1>4
<1> QED
  BY <1>5 DEF Least

-----------------------------------------------------------------------------
\* The text and its memory: nothing is ever behind the end but what was there,
\* and a pair of '\r' and '\n' across the end of the shrunk text is impossible.
TextTypes ==
    /\ text \in Seq(Characters) /\ mem \in Seq(Characters)
    /\ Len(text) \in Nat \ {0} /\ Len(mem) > Len(text)
    /\ size \in 1 .. Len(text) /\ nlines = Len(text) - size /\ input \in 0 .. size

\* The cursor, the token before it, and the loop of build.
CursorTypes ==
    /\ pos \in 0 .. Len(mem) + 1 /\ line \in Nat \ {0} /\ line <= Len(text) + 1
    /\ phase \in {"transform", "read", "done", "wild"}
    /\ tok = [kind |-> tok.kind, string |-> tok.string, start |-> tok.start,
              start_line |-> tok.start_line]
    /\ tok.start \in 0 .. Len(mem) /\ tok.start <= pos /\ tok.start_line \in 1 .. line
    /\ build \in {"running", "OK", "INPUT_ERROR"} /\ (build # "running" => phase = "done")
    /\ phase = "transform" =>
          pos = 0 /\ line = 1 /\ tok.kind = "SCCT_UNKNOWN" /\ tok.start = 0 /\ tok.string = <<>>

LexInv == TextTypes /\ CursorTypes /\ line = 1 + Lines(0, pos)

LEMMA LinesFacts ==
    ASSUME NEW p \in Nat, NEW q \in Nat, p <= q
    PROVE  /\ Lines(p, q) \in Nat /\ Lines(p, p) = 0
           /\ \A r \in Nat : q <= r => Lines(p, r) = Lines(p, q) + Lines(q, r)
           /\ size \in Nat \ {0} => Lines(p, q) < size
<1> DEFINE L(i, j) == {k \in i + 1 .. j : ~IsEnd(k) /\ CharAt(k) = LF}
<1>1. \A i, j \in Nat : IsFiniteSet(L(i, j)) /\ Cardinality(L(i, j)) \in Nat
  <2> TAKE i \in Nat, j \in Nat
  <2>1. IsFiniteSet(i + 1 .. j)
    BY FS_Interval
  <2>2. L(i, j) \in SUBSET (i + 1 .. j)
    OBVIOUS
  <2> HIDE DEF L
  <2> QED
    BY <2>1, <2>2, FS_Subset, FS_CardinalityType
<1>2. Lines(p, p) = 0
  <2>1. L(p, p) = {}
    OBVIOUS
  <2> QED
    BY <2>1, FS_EmptySet DEF Lines
<1>3. ASSUME NEW r \in Nat, q <= r PROVE Lines(p, r) = Lines(p, q) + Lines(q, r)
  <2>1. L(p, r) = L(p, q) \cup L(q, r) /\ L(p, q) \cap L(q, r) = {}
    BY <1>3
  <2>2. Lines(p, r) = Cardinality(L(p, r)) /\ Lines(p, q) = Cardinality(L(p, q))
        /\ Lines(q, r) = Cardinality(L(q, r))
    BY DEF Lines
  <2> HIDE DEF L
  <2>3. Cardinality(L(p, r)) = Cardinality(L(p, q)) + Cardinality(L(q, r)) - Cardinality({})
    BY <1>1, <2>1, FS_Union
  <2> QED
    BY <1>1, <2>2, <2>3, FS_EmptySet
<1>4. ASSUME size \in Nat \ {0} PROVE Lines(p, q) < size
  <2>1. L(p, q) \in SUBSET (1 .. size - 1)
    BY <1>4 DEF IsEnd
  <2>2. IsFiniteSet(1 .. size - 1) /\ Cardinality(1 .. size - 1) = size - 1
    BY <1>4, FS_Interval
  <2>3. Lines(p, q) = Cardinality(L(p, q))
    BY DEF Lines
  <2> HIDE DEF L
  <2>4. Cardinality(L(p, q)) <= size - 1
    BY <2>1, <2>2, FS_Subset
  <2> QED
    BY <1>1, <1>4, <2>3, <2>4
<1>5. Lines(p, q) \in Nat
  BY <1>1 DEF Lines
<1> QED
  BY <1>2, <1>3, <1>4, <1>5

\* skip_spaces: everything up to where it stops is a space inside the text.
LEMMA SkipFacts ==
    ASSUME LexInv, CanSkip
    PROVE  /\ SkipSpaces \in pos .. Len(mem) - 1 /\ SkipSpaces \in Nat
           /\ ~IsSpace(CharAt(SkipSpaces)) \/ IsEnd(SkipSpaces)
           /\ \A p \in pos .. SkipSpaces - 1 : IsSpace(CharAt(p)) /\ ~IsEnd(p)
<1>1. pos \in Nat /\ Len(mem) \in Nat
  BY DEF LexInv, TextTypes, CursorTypes
<1>2. Unspaced \in SUBSET Nat /\ Unspaced # {} /\ Unspaced \subseteq pos .. Len(mem) - 1
  BY <1>1 DEF Unspaced, CanSkip
<1>3. SkipSpaces \in Unspaced /\ \A p \in Unspaced : SkipSpaces <= p
  BY <1>2, LeastNatural DEF SkipSpaces
<1>4. ASSUME NEW p \in pos .. SkipSpaces - 1 PROVE p \notin Unspaced /\ p \in pos .. Len(mem) - 1
  BY <1>1, <1>2, <1>3
<1>5. \A p \in pos .. SkipSpaces - 1 : IsSpace(CharAt(p)) /\ ~IsEnd(p)
  BY <1>4 DEF Unspaced
<1>6. ~IsSpace(CharAt(SkipSpaces)) \/ IsEnd(SkipSpaces)
  BY <1>3 DEF Unspaced
<1> QED
  BY <1>1, <1>2, <1>3, <1>5, <1>6

\* The search for the end of a word, a number or a literal.
LEMMA FirstFromFacts ==
    ASSUME TextTypes, NEW ends, NEW p \in 0 .. Len(mem)
    PROVE  LET q == FirstFrom(p, ends) IN
           /\ q \in p .. Len(mem) /\ q \in Nat /\ (q = p \/ q <= size)
           /\ \A r \in p .. q - 1 : ~IsEnd(r) /\ CharAt(r) \notin ends
           /\ ~IsEnd(q) => CharAt(q) \in ends
<1> DEFINE found == {r \in p .. Len(mem) : IsEnd(r) \/ CharAt(r) \in ends} \cup {Len(mem)}
           q == FirstFrom(p, ends)
<1>1. Len(mem) \in Nat /\ p \in Nat /\ p <= Len(mem) /\ size \in Nat /\ size < Len(mem)
  BY DEF TextTypes
<1>2. found \in SUBSET Nat /\ Len(mem) \in found /\ found \subseteq p .. Len(mem)
  BY <1>1
<1>3. q \in found /\ \A r \in found : q <= r
  BY <1>2, LeastNatural DEF FirstFrom
<1>4. \A r \in p .. Len(mem) : IsEnd(r) => r \in found
  OBVIOUS
<1>5. \A r \in p .. Len(mem) : CharAt(r) \in ends => r \in found
  OBVIOUS
<1>6. q = Len(mem) \/ IsEnd(q) \/ CharAt(q) \in ends
  BY <1>3
<1> HIDE DEF found, q
<1>7. q \in Nat /\ q >= p /\ q <= Len(mem)
  BY <1>1, <1>2, <1>3
<1>8. ASSUME NEW r \in p .. q - 1 PROVE ~IsEnd(r) /\ CharAt(r) \notin ends
  BY <1>1, <1>3, <1>4, <1>5, <1>7
<1>9. q = p \/ q <= size
  BY <1>1, <1>7, <1>8 DEF IsEnd
<1>10. ~IsEnd(q) => CharAt(q) \in ends
  BY <1>1, <1>6, <1>7 DEF IsEnd
<1> QED
  BY <1>7, <1>8, <1>9, <1>10 DEF q

-----------------------------------------------------------------------------
\* One turn of the CRLF loop that stays inside the text.
Shrinks(p) ==
    /\ p \in input .. size - 2 /\ CharAt(p) = CR /\ CharAt(p + 1) = LF
    /\ \A r \in input .. p - 1 : ~(CharAt(r) = CR /\ CharAt(r + 1) = LF)
    /\ mem' \in Seq(Characters) /\ Len(mem') = Len(mem)
    /\ mem'[p + 1] = LF /\ \A i \in p + 2 .. size - 1 : mem'[i] = mem[i + 1]
    /\ \A i \in 1 .. Len(mem) : i \notin p + 1 .. size - 1 => mem'[i] = mem[i]
    /\ size' = size - 1 /\ nlines' = nlines + 1 /\ input' = p + 1
    /\ UNCHANGED <<text, phase>>

\* The first CRLF, and what the loop does with it.
LEMMA FirstCRLF ==
    ASSUME TextTypes, TransformOne
    PROVE  LET p == Least(CRLFs) IN
           /\ p \in input .. size - 1 /\ CharAt(p) = CR /\ CharAt(p + 1) = LF
           /\ \A q \in input .. p : CharAt(q) # NUL
           /\ \A r \in input .. p - 1 : ~(CharAt(r) = CR /\ CharAt(r + 1) = LF)
<1>1. input \in Nat /\ size \in Nat
  BY DEF TextTypes
<1>2. CRLFs \in SUBSET Nat /\ CRLFs # {}
  BY <1>1 DEF CRLFs, TransformOne
<1> DEFINE p == Least(CRLFs)
<1>3. p \in CRLFs /\ \A r \in CRLFs : p <= r
  BY <1>2, LeastNatural
<1> HIDE DEF p
<1>4. /\ p \in input .. size - 1 /\ CharAt(p) = CR /\ CharAt(p + 1) = LF
      /\ \A q \in input .. p : CharAt(q) # NUL
  BY <1>3 DEF CRLFs
<1>5. ASSUME NEW r \in input .. p - 1, CharAt(r) = CR, CharAt(r + 1) = LF PROVE FALSE
  <2>1. r \in input .. size - 1 /\ (\A q \in input .. r : q \in input .. p) /\ ~(p <= r)
    BY <1>1, <1>4
  <2>2. r \in CRLFs
    BY <1>4, <1>5, <2>1 DEF CRLFs
  <2> QED
    BY <1>3, <2>1, <2>2
<1> QED
  BY <1>4, <1>5 DEF p

LEMMA TransformOneSteps ==
    ASSUME TextTypes, TransformOne
    PROVE  /\ UNCHANGED cursor
           /\ \/ /\ phase' = "wild" /\ UNCHANGED textvars
                 /\ CharAt(size - 1) = CR /\ CharAt(size) = LF
              \/ \E p \in Nat : Shrinks(p)
<1> DEFINE p == Least(CRLFs)
<1>1. /\ input \in Nat /\ size \in Nat /\ Len(mem) \in Nat /\ size < Len(mem)
  BY DEF TextTypes
<1>2. /\ p \in input .. size - 1 /\ CharAt(p) = CR /\ CharAt(p + 1) = LF
      /\ \A r \in input .. p - 1 : ~(CharAt(r) = CR /\ CharAt(r + 1) = LF)
  BY FirstCRLF
<1>3. CASE p + 2 > size
  <2>1. phase' = "wild" /\ UNCHANGED textvars
    BY <1>3 DEF TransformOne
  <2> HIDE DEF p
  <2>2. p = size - 1 /\ p + 1 = size
    BY <1>1, <1>2, <1>3
  <2> QED
    BY <1>2, <2>1, <2>2 DEF TransformOne
<1>4. CASE ~(p + 2 > size)
  <2>1. /\ mem' = [i \in 1 .. Len(mem) |->
                      IF i = p + 1 THEN LF
                      ELSE IF i \in p + 2 .. size - 1 THEN mem[i + 1] ELSE mem[i]]
        /\ size' = size - 1 /\ nlines' = nlines + 1 /\ input' = p + 1
        /\ UNCHANGED <<text, phase>>
    BY <1>4 DEF TransformOne, Shrunk, ResumeAfter
  <2> HIDE DEF p
  <2>2. p \in Nat /\ p \in input .. size - 2
    BY <1>1, <1>2, <1>4
  <2>3. mem \in [1 .. Len(mem) -> Characters]
    BY DEF TextTypes
  <2>4. mem' \in [1 .. Len(mem) -> Characters]
    <3>1. \A i \in p + 2 .. size - 1 : i + 1 \in 1 .. Len(mem)
      BY <1>1, <2>2
    <3>2. ASSUME NEW i \in 1 .. Len(mem)
          PROVE  (IF i = p + 1 THEN LF
                  ELSE IF i \in p + 2 .. size - 1 THEN mem[i + 1] ELSE mem[i]) \in Characters
      <4>1. mem[i] \in Characters /\ LF \in Characters
        BY <2>3, TextsAssumption
      <4>2. i \in p + 2 .. size - 1 => mem[i + 1] \in Characters
        BY <2>3, <3>1
      <4> QED
        BY <4>1, <4>2
    <3> QED
      BY <2>1, <3>2
  <2>5. mem' \in Seq(Characters) /\ Len(mem') = Len(mem)
    BY <1>1, <2>4
  <2>6. /\ p + 1 \in 1 .. Len(mem) /\ \A i \in p + 2 .. size - 1 : i \in 1 .. Len(mem) /\ i # p + 1
        /\ \A i \in 1 .. Len(mem) : i \notin p + 1 .. size - 1 =>
              i # p + 1 /\ i \notin p + 2 .. size - 1
    BY <1>1, <2>2
  <2>7. /\ mem'[p + 1] = LF /\ \A i \in p + 2 .. size - 1 : mem'[i] = mem[i + 1]
        /\ \A i \in 1 .. Len(mem) : i \notin p + 1 .. size - 1 => mem'[i] = mem[i]
    BY <2>1, <2>6
  <2>8. Shrinks(p)
    BY <1>2, <2>1, <2>2, <2>5, <2>7 DEF Shrinks
  <2> QED
    BY <2>2, <2>8 DEF TransformOne
<1> QED
  BY <1>3, <1>4

LEMMA ShrinksTypes ==
    ASSUME TextTypes, NEW p \in Nat, Shrinks(p)
    PROVE  TextTypes'
<1>1. size' \in 1 .. Len(text) /\ input' \in 0 .. size' /\ nlines' = Len(text) - size'
  BY DEF TextTypes, Shrinks
<1> QED
  BY <1>1 DEF TextTypes, Shrinks

LEMMA TextStays == TextTypes /\ UNCHANGED textvars => TextTypes'
BY DEF TextTypes, textvars

LEMMA LinesStay ==
    ASSUME UNCHANGED textvars, NEW p, NEW q
    PROVE  Lines(p, q)' = Lines(p, q)
BY DEF textvars, Lines, IsEnd, CharAt

-----------------------------------------------------------------------------
\* Every way next_tok returns is one of these: a token that ends before q, the
\* end of the memory, or the end of the loop at q.
Wild == phase # "done" /\ phase' = "wild" /\ UNCHANGED <<textvars, cursor, tok, build>>
Got(kind, string, q) ==
    /\ Starts /\ first <= q /\ q <= Len(mem) + 1
    /\ Walk(q) /\ tok' = Token(kind, string) /\ UNCHANGED <<textvars, phase, build>>
Stops(kind, q) ==
    /\ Calls /\ CanSkip /\ first <= q /\ q <= Len(mem) /\ Walk(q) /\ phase' = "done" /\ UNCHANGED textvars
    /\ build' \in {"OK", "INPUT_ERROR"}
    /\ tok'.kind = kind /\ tok' = [kind |-> tok'.kind, string |-> tok'.string,
                                   start |-> tok'.start, start_line |-> tok'.start_line]
    /\ \/ tok'.start = tok.start /\ tok'.start_line = tok.start_line
       \/ tok'.start = first /\ tok'.start_line = line + Lines(pos, first)

LEMMA Keeps ==
    ASSUME LexInv, NEW q, CanSkip, first <= q, q \in Nat, q <= Len(mem) + 1, Walk(q),
           UNCHANGED textvars, phase' \in {"read", "done"},
           build' \in {"running", "OK", "INPUT_ERROR"}, build' # "running" => phase' = "done",
           tok' = [kind |-> tok'.kind, string |-> tok'.string, start |-> tok'.start,
                   start_line |-> tok'.start_line],
           \/ tok'.start = tok.start /\ tok'.start_line = tok.start_line
           \/ tok'.start = first /\ tok'.start_line = line + Lines(pos, first)
    PROVE  LexInv'
<1> DEFINE n == first
<1>1. /\ pos \in Nat /\ Len(mem) \in Nat /\ n \in pos .. Len(mem) - 1 /\ n \in Nat
      /\ Len(text) \in Nat /\ size \in Nat \ {0} /\ size <= Len(text) /\ line \in Nat \ {0}
      /\ q \in Nat
  BY SkipFacts DEF LexInv, TextTypes, CursorTypes, first
<1> HIDE DEF n
<1>2. pos <= n /\ n <= q /\ pos <= q
  BY <1>1 DEF n
<1>3. /\ Lines(pos, n) \in Nat /\ Lines(n, q) \in Nat /\ Lines(pos, q) = Lines(pos, n) + Lines(n, q)
      /\ Lines(0, q) = Lines(0, pos) + Lines(pos, q) /\ Lines(0, q) < size /\ Lines(0, q) \in Nat
      /\ Lines(pos, q) \in Nat /\ Lines(0, pos) \in Nat
  BY <1>1, <1>2, LinesFacts
<1>4. pos' = q /\ line' = line + Lines(pos, q) /\ line = 1 + Lines(0, pos)
  BY DEF Walk, LexInv
<1>5. line' = 1 + Lines(0, pos)'
  <2>1. Lines(0, q)' = Lines(0, q)
    BY LinesStay
  <2> QED
    BY <1>1, <1>3, <1>4, <2>1
<1>6. line' \in Nat \ {0} /\ line' <= Len(text) + 1 /\ line + Lines(pos, n) <= line' /\ line <= line'
  <2>1. \A a, b, d, e \in Nat : d = a + b => line + a <= line + d
    BY <1>1
  <2>2. line + Lines(pos, n) <= line'
    BY <1>3, <1>4, <2>1
  <2>3. line' = 1 + Lines(0, q)
    BY <1>3, <1>4
  <2>4. Lines(0, q) \in Nat /\ Lines(0, q) < size /\ Lines(pos, q) \in Nat /\ line \in Nat
    BY <1>1, <1>3
  <2>5. line' \in Nat \ {0} /\ line' <= size
    BY <1>1, <2>3, <2>4
  <2>6. line <= line'
    BY <1>4, <2>4
  <2>7. line' <= Len(text) + 1
    BY <1>1, <2>5
  <2> QED
    BY <2>2, <2>5, <2>6, <2>7
<1>7. TextTypes' /\ text' = text /\ mem' = mem
  BY TextStays DEF LexInv, textvars
<1>8. tok'.start \in 0 .. Len(mem) /\ tok'.start <= pos' /\ tok'.start_line \in 1 .. line'
  <2>1. tok.start \in 0 .. Len(mem) /\ tok.start <= pos /\ tok.start_line \in 1 .. line
    BY DEF LexInv, CursorTypes
  <2>2. CASE tok'.start = tok.start /\ tok'.start_line = tok.start_line
    <3>1. tok'.start \in 0 .. Len(mem) /\ tok'.start_line \in 1 .. line
      BY <2>1, <2>2
    <3>2. tok'.start <= pos'
      BY <1>1, <1>2, <1>4, <2>1, <2>2
    <3>3. 1 .. line \subseteq 1 .. line'
      BY <1>1, <1>6
    <3> QED
      BY <3>1, <3>2, <3>3
  <2>3. CASE tok'.start = n /\ tok'.start_line = line + Lines(pos, n)
    <3>1. tok'.start \in 0 .. Len(mem) /\ tok'.start <= pos'
      BY <1>1, <1>2, <1>4, <2>3
    <3>2. line + Lines(pos, n) \in 1 .. line'
      <4>1. line \in Nat /\ line >= 1
        BY <1>1
      <4>2. Lines(pos, n) \in Nat
        BY <1>3
      <4>3. line' \in Nat /\ line + Lines(pos, n) <= line'
        BY <1>6
      <4> QED
        BY <4>1, <4>2, <4>3
    <3> QED
      BY <2>3, <3>1, <3>2
  <2> QED
    BY <2>2, <2>3 DEF n
<1>9. CursorTypes'
  BY <1>1, <1>4, <1>6, <1>7, <1>8 DEF CursorTypes
<1> QED
  BY <1>5, <1>7, <1>9 DEF LexInv

LEMMA GotKeeps ==
    ASSUME LexInv, NEW kind, NEW string, NEW q \in Nat, Got(kind, string, q)
    PROVE  LexInv'
<1>1. /\ CanSkip /\ first <= q /\ q <= Len(mem) + 1 /\ Walk(q) /\ UNCHANGED textvars
      /\ tok' = Token(kind, string) /\ phase' = "read" /\ build' = "running"
  BY DEF Got, Starts, Calls
<1>2. /\ tok' = [kind |-> tok'.kind, string |-> tok'.string, start |-> tok'.start,
                 start_line |-> tok'.start_line]
      /\ tok'.start = first /\ tok'.start_line = line + Lines(pos, first)
  BY <1>1 DEF Token
<1> QED
  BY <1>1, <1>2, Keeps

LEMMA StopsKeeps ==
    ASSUME LexInv, NEW kind, NEW q \in Nat, Stops(kind, q)
    PROVE  LexInv'
<1>1. q <= Len(mem) + 1
  BY DEF LexInv, TextTypes, Stops
<1> QED
  BY <1>1, Keeps DEF Stops

LEMMA WildKeeps == LexInv /\ Wild => LexInv'
<1> SUFFICES ASSUME LexInv, Wild PROVE LexInv'
  OBVIOUS
<1>1. TextTypes' /\ line' = 1 + Lines(0, pos)'
  <2>1. Lines(0, pos)' = Lines(0, pos)
    BY DEF Wild, cursor, textvars, Lines, IsEnd, CharAt
  <2> QED
    BY <2>1, TextStays DEF LexInv, Wild, cursor
<1>2. CursorTypes'
  BY DEF LexInv, CursorTypes, Wild, cursor, textvars
<1> QED
  BY <1>1, <1>2 DEF LexInv

\* A token begins at a character that is no space.
LEMMA StartFacts ==
    ASSUME LexInv, Starts
    PROVE  /\ first \in pos .. Len(mem) - 1 /\ first \in Nat /\ Len(mem) \in Nat /\ pos \in Nat
           /\ ~IsSpace(c) /\ CanSkip /\ phase = "read" /\ build = "running"
           /\ \A p \in pos .. first - 1 : IsSpace(CharAt(p)) /\ ~IsEnd(p)
           /\ size \in Nat \ {0} /\ size < Len(mem)
<1>1. CanSkip /\ phase = "read" /\ build = "running" /\ FoundText
  BY DEF Starts, Calls
<1>2. /\ pos \in Nat /\ Len(mem) \in Nat /\ size \in Nat \ {0} /\ size < Len(mem)
  BY DEF LexInv, TextTypes, CursorTypes
<1> QED
  BY <1>1, <1>2, SkipFacts DEF first, c, FoundText

LEMMA TakeGot ==
    ASSUME LexInv, Starts, NEW kind, NEW string, NEW q \in Nat, NEW n,
           first <= q, q <= Len(mem) + 1, Take(kind, string, q, n)
    PROVE  \/ n > MaxTokString /\ Wild
           \/ ~(n > MaxTokString) /\ Got(kind, string, q)
BY DEF Take, Wild, Got, cursor, Starts, Calls

\* A token that writes one byte of the string never overflows it.
LEMMA TakeShort ==
    ASSUME LexInv, Starts, NEW kind, NEW string, NEW q \in Nat,
           first <= q, q <= Len(mem) + 1, Take(kind, string, q, 1)
    PROVE  Got(kind, string, q)
<1>1. ~(1 > MaxTokString)
  <2>1. MaxTokString \in Nat \ {0}
    BY LexAssumption
  <2> QED
    BY <2>1
<1> QED
  BY <1>1, TakeGot

LEMMA SingleGot ==
    ASSUME LexInv, ReadSingle
    PROVE  \E s \in Singles : c = s[1] /\ Got(s[2], <<>>, first + 1) /\ first + 1 \in Nat
<1>1. Starts /\ \E s \in Singles : c = s[1] /\ Take(s[2], <<>>, first + 1, 1)
  BY DEF ReadSingle
<1>2. first + 1 \in Nat /\ first <= first + 1 /\ first + 1 <= Len(mem) + 1
  BY <1>1, StartFacts
<1> QED
  BY <1>1, <1>2, TakeShort

LEMMA OperatorGot ==
    ASSUME LexInv, ReadOperator
    PROVE  \E o \in Operators :
               /\ c = o[1] /\ \A d \in o[3] : ~Ahead(1, d[1])
               /\ \A s \in Shifts : c = s[1] => ~Ahead(1, c)
               /\ Got(o[2], <<>>, first + 2) /\ first + 2 \in Nat
<1>1. PICK o \in Operators :
          /\ c = o[1] /\ \A d \in o[3] : ~Ahead(1, d[1])
          /\ \A s \in Shifts : c = s[1] => ~Ahead(1, c)
          /\ Take(o[2], <<>>, first + 2, 1)
  BY DEF ReadOperator, PlainEnd
<1>2. Starts
  BY DEF ReadOperator
<1>3. first + 2 \in Nat /\ first <= first + 2 /\ first + 2 <= Len(mem) + 1
  BY <1>2, StartFacts
<1>4. Got(o[2], <<>>, first + 2)
  BY <1>1, <1>2, <1>3, TakeShort
<1> QED
  BY <1>1, <1>3, <1>4

LEMMA DoubleGot ==
    ASSUME LexInv, ReadDouble
    PROVE  \E o \in Operators : \E d \in o[3] :
               c = o[1] /\ Ahead(1, d[1]) /\ Got(d[2], <<>>, first + 2) /\ first + 2 \in Nat
<1>1. PICK o \in Operators : c = o[1] /\ \E d \in o[3] : Ahead(1, d[1]) /\ Take(d[2], <<>>, first + 2, 1)
  BY DEF ReadDouble
<1>2. Starts
  BY DEF ReadDouble
<1>3. first + 2 \in Nat /\ first <= first + 2 /\ first + 2 <= Len(mem) + 1
  BY <1>2, StartFacts
<1>4. PICK d \in o[3] : Ahead(1, d[1]) /\ Take(d[2], <<>>, first + 2, 1)
  BY <1>1
<1>5. Got(d[2], <<>>, first + 2)
  BY <1>2, <1>3, <1>4, TakeShort
<1> QED
  BY <1>1, <1>3, <1>4, <1>5

\* The look-ahead that is taken back leaves the line where a walk would.
LEMMA ShiftGot ==
    ASSUME LexInv, ReadShift
    PROVE  \E s \in Shifts :
               /\ c = s[1] /\ Ahead(1, c)
               /\ \/ Ahead(2, "=") /\ Got(s[3], <<>>, first + 3) /\ first + 3 \in Nat
                  \/ ~Ahead(2, "=") /\ Got(s[2], <<>>, first + 2) /\ first + 2 \in Nat
<1>1. PICK s \in Shifts :
          /\ c = s[1] /\ Ahead(1, c)
          /\ IF Ahead(2, "=") THEN Take(s[3], <<>>, first + 3, 1)
             ELSE /\ pos' = first + 2 /\ tok' = Token(s[2], <<>>)
                  /\ line' = Lines(first + 1, first + 2)
                       + Restored(line + Lines(pos, first + 1), line + Lines(pos, first + 2))
                  /\ UNCHANGED <<textvars, phase, build>>
  BY DEF ReadShift
<1>2. Starts
  BY DEF ReadShift
<1>3. /\ first + 2 \in Nat /\ first + 1 \in Nat /\ first <= first + 2 /\ first + 2 <= Len(mem) + 1
      /\ pos \in Nat /\ pos <= first + 1 /\ first + 1 <= first + 2 /\ first \in Nat /\ first + 3 \in Nat
  BY <1>2, StartFacts
<1>4. CASE Ahead(2, "=")
  <2>1. first <= first + 3 /\ first + 3 <= Len(mem) + 1
    BY <1>2, <1>4, StartFacts DEF Ahead, IsEnd
  <2>2. Got(s[3], <<>>, first + 3)
    BY <1>1, <1>2, <1>3, <1>4, <2>1, TakeShort
  <2> QED
    BY <1>1, <1>3, <1>4, <2>2
<1>5. CASE ~Ahead(2, "=")
  <2>1. line' = Lines(first + 1, first + 2) + (line + Lines(pos, first + 1))
    BY <1>1, <1>5 DEF Restored
  <2>2. /\ Lines(pos, first + 2) = Lines(pos, first + 1) + Lines(first + 1, first + 2)
        /\ Lines(pos, first + 1) \in Nat /\ Lines(first + 1, first + 2) \in Nat
    <3> DEFINE p == first + 1
               q == first + 2
    <3>1. p \in Nat /\ q \in Nat /\ pos \in Nat /\ pos <= p /\ p <= q
      BY <1>3
    <3> HIDE DEF p, q
    <3>2. Lines(pos, q) = Lines(pos, p) + Lines(p, q) /\ Lines(pos, p) \in Nat /\ Lines(p, q) \in Nat
      BY <3>1, LinesFacts
    <3> QED
      BY <3>2 DEF p, q
  <2>3. line \in Nat
    BY DEF LexInv, CursorTypes
  <2>4. line' = line + Lines(pos, first + 2)
    BY <2>1, <2>2, <2>3
  <2>5. Got(s[2], <<>>, first + 2)
    BY <1>1, <1>2, <1>3, <1>5, <2>4 DEF Got, Walk
  <2> QED
    BY <1>1, <1>3, <1>5, <2>5
<1> QED
  BY <1>4, <1>5

\* Where the literal closes, or the text with it; and what of it is kept.
Closes   == IF IsEnd(first + 1) THEN first + 1 ELSE FirstFrom(first + 1, EndsLiteral)
Dangling == Closes > first + 1 /\ IsEnd(Closes) /\ CharAt(Closes - 1) = Backslash
Kept     == Closes - (IF Dangling THEN 1 ELSE 0)

LEMMA ClosesFacts ==
    ASSUME LexInv, Starts
    PROVE  /\ Closes \in first + 1 .. Len(mem) /\ Closes \in Nat /\ (Closes = first + 1 \/ Closes <= size)
           /\ \A r \in first + 1 .. Closes - 1 : ~IsEnd(r) /\ CharAt(r) # Quote
           /\ ~IsEnd(Closes) => CharAt(Closes) = Quote
<1> DEFINE p == first + 1
<1>1. p \in 0 .. Len(mem) /\ p \in Nat /\ TextTypes /\ Len(mem) \in Nat
  BY StartFacts DEF LexInv
<1> HIDE DEF p
<1>2. CASE IsEnd(p)
  <2>1. Closes = p
    BY <1>2 DEF Closes, p
  <2> QED
    BY <1>1, <1>2, <2>1 DEF p
<1>3. CASE ~IsEnd(p)
  <2>1. Closes = FirstFrom(p, {Quote})
    BY <1>3 DEF Closes, p, EndsLiteral
  <2>2. /\ Closes \in p .. Len(mem) /\ Closes \in Nat /\ (Closes = p \/ Closes <= size)
        /\ \A r \in p .. Closes - 1 : ~IsEnd(r) /\ CharAt(r) \notin {Quote}
        /\ ~IsEnd(Closes) => CharAt(Closes) \in {Quote}
    BY <1>1, <2>1, FirstFromFacts
  <2> QED
    BY <2>2 DEF p
<1> QED
  BY <1>2, <1>3

LEMMA StringGot ==
    ASSUME LexInv, ReadString
    PROVE  /\ Starts /\ c = Quote
           /\ \/ Closes - first > MaxTokString /\ Wild
              \/ /\ ~IsEnd(Closes) /\ Closes + 1 \in Nat
                 /\ Got("SCCT_STRING", Unescaped(first + 1, Closes), Closes + 1)
              \/ IsEnd(Closes) /\ Got("SCCT_STRING", Unescaped(first + 1, Kept), Closes)
<1>1. /\ Starts /\ c = Quote
      /\ IF ~IsEnd(Closes)
         THEN Take("SCCT_STRING", Unescaped(first + 1, Closes), Closes + 1, Closes - first)
         ELSE Take("SCCT_STRING", Unescaped(first + 1, Kept), Closes,
                   Closes - first - 1 - (IF Dangling THEN 1 ELSE 0))
  BY DEF ReadString, Closes, Dangling, Kept
<1>2. /\ first \in Nat /\ Closes \in Nat /\ Closes + 1 \in Nat /\ first <= Closes /\ first <= Closes + 1
      /\ Closes <= Len(mem) + 1 /\ Closes + 1 <= Len(mem) + 1
  BY <1>1, StartFacts, ClosesFacts
<1>3. MaxTokString \in Nat
  BY LexAssumption
<1>4. CASE ~IsEnd(Closes)
  <2>1. Take("SCCT_STRING", Unescaped(first + 1, Closes), Closes + 1, Closes - first)
    BY <1>1, <1>4
  <2>2. \/ Closes - first > MaxTokString /\ Wild
        \/ Got("SCCT_STRING", Unescaped(first + 1, Closes), Closes + 1)
    BY <1>1, <1>2, <2>1, TakeGot
  <2> QED
    BY <1>1, <1>2, <1>4, <2>2
<1>5. CASE IsEnd(Closes)
  <2> DEFINE n == Closes - first - 1 - (IF Dangling THEN 1 ELSE 0)
  <2>1. Take("SCCT_STRING", Unescaped(first + 1, Kept), Closes, n)
    BY <1>1, <1>5
  <2>2. n > MaxTokString => Closes - first > MaxTokString
    BY <1>2, <1>3
  <2> HIDE DEF n
  <2>3. \/ n > MaxTokString /\ Wild
        \/ Got("SCCT_STRING", Unescaped(first + 1, Kept), Closes)
    BY <1>1, <1>2, <2>1, TakeGot
  <2> QED
    BY <1>1, <1>5, <2>2, <2>3
<1> QED
  BY <1>4, <1>5

LEMMA BytesLength ==
    ASSUME NEW p \in Nat, NEW q \in Nat, p <= q
    PROVE  /\ Len(Bytes(p, q)) = q - p /\ Bytes(p, q) = [i \in 1 .. q - p |-> CharAt(p + i - 1)]
           /\ DOMAIN Bytes(p, q) = 1 .. q - p
BY DEF Bytes

WordEnd   == FirstFrom(first, EndsWord)
NumberEnd == FirstFrom(first, EndsNumber)

LEMMA EndFacts ==
    ASSUME LexInv, Starts, NEW chars, NEW q, q = FirstFrom(first, Present \ chars)
    PROVE  /\ q \in first .. Len(mem) /\ q \in Nat /\ (q = first \/ q <= size)
           /\ \A r \in first .. q - 1 : ~IsEnd(r) /\ CharAt(r) \in chars
           /\ ~IsEnd(q) => CharAt(q) \in Present /\ CharAt(q) \notin chars
           /\ c \in chars /\ ~IsEnd(first) => first < q
           /\ Len(Bytes(first, q)) = q - first
<1>1. first \in 0 .. Len(mem) /\ first \in Nat /\ TextTypes /\ Len(mem) \in Nat
  BY StartFacts DEF LexInv
<1>2. /\ q \in first .. Len(mem) /\ q \in Nat /\ (q = first \/ q <= size)
      /\ \A r \in first .. q - 1 : ~IsEnd(r) /\ CharAt(r) \notin Present \ chars
      /\ ~IsEnd(q) => CharAt(q) \in Present \ chars
  BY <1>1, FirstFromFacts
<1>3. ASSUME NEW r \in first .. q - 1 PROVE CharAt(r) \in chars
  <2>1. CharAt(r) \in Present
    <3>1. r + 1 \in 1 .. Len(mem)
      BY <1>1, <1>2
    <3> QED
      BY <3>1 DEF Present, CharAt
  <2> QED
    BY <1>2, <2>1
<1>4. c \in chars /\ ~IsEnd(first) => first < q
  <2>1. CASE q = first
    BY <1>2, <2>1 DEF c
  <2>2. CASE q # first
    BY <1>1, <1>2, <2>2
  <2> QED
    BY <2>1, <2>2
<1>5. Len(Bytes(first, q)) = q - first
  <2>1. first \in Nat /\ q \in Nat /\ first <= q
    BY <1>1, <1>2
  <2> QED
    BY <2>1, BytesLength
<1> QED
  BY <1>2, <1>3, <1>4, <1>5

LEMMA WordGot ==
    ASSUME LexInv, ReadWord
    PROVE  /\ Starts /\ c \in WordChars
           /\ \/ WordEnd - first + 1 > MaxTokString /\ Wild
              \/ Got(KeywordOf(Bytes(first, WordEnd)), Bytes(first, WordEnd), WordEnd)
<1> DEFINE w == Bytes(first, WordEnd)
<1>1. /\ Starts /\ (IsAlpha(c) \/ c = "_")
      /\ Take(KeywordOf(w), w, WordEnd, Len(w) + 1)
  BY DEF ReadWord, WordEnd, Terminated
<1>2. c \in WordChars
  BY <1>1 DEF WordChars, IsAlpha
<1>3. WordEnd \in first .. Len(mem) /\ WordEnd \in Nat /\ Len(w) = WordEnd - first
  BY <1>1, EndFacts DEF WordEnd, EndsWord
<1>4. first \in Nat /\ first <= WordEnd /\ WordEnd <= Len(mem) + 1
  <2>1. first \in Nat /\ Len(mem) \in Nat
    BY <1>1, StartFacts
  <2> HIDE DEF w
  <2> QED
    BY <1>3, <2>1
<1>5. \/ Len(w) + 1 > MaxTokString /\ Wild
      \/ Got(KeywordOf(w), w, WordEnd)
  <2> HIDE DEF w
  <2> QED
    BY <1>1, <1>3, <1>4, TakeGot
<1> QED
  BY <1>1, <1>2, <1>3, <1>5

LEMMA NumberGot ==
    ASSUME LexInv, ReadNumber
    PROVE  /\ Starts /\ c \in Digits /\ CharAt(NumberEnd) \notin Digits
           /\ \/ NumberEnd - first + 1 > MaxTokString /\ Wild
              \/ Got("SCCT_INUM", Bytes(first, NumberEnd), NumberEnd)
<1> DEFINE w == Bytes(first, NumberEnd)
<1>1. /\ Starts /\ c \in Digits /\ CharAt(NumberEnd) \notin Digits
      /\ Take("SCCT_INUM", w, NumberEnd, Len(w) + 1)
  BY DEF ReadNumber, NumberEnd, Terminated
<1>3. NumberEnd \in first .. Len(mem) /\ NumberEnd \in Nat /\ Len(w) = NumberEnd - first
  BY <1>1, EndFacts DEF NumberEnd, EndsNumber
<1>4. first \in Nat /\ first <= NumberEnd /\ NumberEnd <= Len(mem) + 1
  BY <1>1, <1>3, StartFacts
<1>5. \/ Len(w) + 1 > MaxTokString /\ Wild
      \/ Got("SCCT_INUM", w, NumberEnd)
  <2> HIDE DEF w
  <2> QED
    BY <1>1, <1>3, <1>4, TakeGot
<1> QED
  BY <1>1, <1>3, <1>5

-----------------------------------------------------------------------------
\* The returns that end the loop.
LEMMA SpaceStops ==
    ASSUME LexInv, EndInSpace
    PROVE  /\ Stops("SCCT_EOF", first) /\ first \in Nat /\ build' = "OK"
           /\ tok' = [tok EXCEPT !.kind = "SCCT_EOF", !.string = <<>>]
<1>1. /\ Calls /\ CanSkip /\ Finish(first, "OK")
      /\ tok' = [tok EXCEPT !.kind = "SCCT_EOF", !.string = <<>>]
  BY DEF EndInSpace, Calls
<1>2. first \in pos .. Len(mem) - 1 /\ first \in Nat /\ Len(mem) \in Nat
  BY <1>1, SkipFacts DEF first, LexInv, TextTypes
<1>3. /\ tok'.kind = "SCCT_EOF" /\ tok'.start = tok.start /\ tok'.start_line = tok.start_line
      /\ tok' = [kind |-> tok'.kind, string |-> tok'.string, start |-> tok'.start,
                 start_line |-> tok'.start_line]
  <2>1. tok = [kind |-> tok.kind, string |-> tok.string, start |-> tok.start,
               start_line |-> tok.start_line]
    BY DEF LexInv, CursorTypes
  <2>2. tok' = [kind |-> "SCCT_EOF", string |-> <<>>, start |-> tok.start,
                start_line |-> tok.start_line]
    BY <1>1, <2>1
  <2> QED
    BY <2>2
<1>4. first <= first /\ first <= Len(mem)
  BY <1>2
<1> QED
  BY <1>1, <1>2, <1>3, <1>4 DEF Stops, Finish

LEMMA UnknownStops ==
    ASSUME LexInv, Starts, NEW q \in Nat, first <= q, q <= Len(mem), NEW status \in {"OK", "INPUT_ERROR"},
           Finish(q, status), NEW string, tok' = Token("SCCT_UNKNOWN", string)
    PROVE  Stops("SCCT_UNKNOWN", q)
<1>1. Calls /\ CanSkip
  BY DEF Starts, Calls
<1>2. /\ tok'.kind = "SCCT_UNKNOWN" /\ tok'.start = first /\ tok'.start_line = line + Lines(pos, first)
      /\ tok' = [kind |-> tok'.kind, string |-> tok'.string, start |-> tok'.start,
                 start_line |-> tok'.start_line]
  BY DEF Token
<1> QED
  BY <1>1, <1>2 DEF Stops, Finish

LEMMA NumberStops ==
    ASSUME LexInv, EndInNumber
    PROVE  /\ Starts /\ c \in Digits /\ CharAt(NumberEnd) \in Digits
           /\ \/ NumberEnd - first > MaxTokString /\ Wild
              \/ Stops("SCCT_UNKNOWN", NumberEnd) /\ build' = "OK" /\ NumberEnd \in Nat
<1>1. /\ Starts /\ c \in Digits /\ CharAt(NumberEnd) \in Digits
      /\ IF NumberEnd - first > MaxTokString
         THEN phase' = "wild" /\ UNCHANGED <<textvars, cursor, tok, build>>
         ELSE Finish(NumberEnd, "OK") /\ tok' = Token("SCCT_UNKNOWN", Bytes(first, NumberEnd))
  BY DEF EndInNumber, NumberEnd
<1>2. NumberEnd \in first .. Len(mem) /\ NumberEnd \in Nat /\ first \in Nat
  BY <1>1, EndFacts, StartFacts DEF NumberEnd, EndsNumber
<1>3. CASE NumberEnd - first > MaxTokString
  BY <1>1, <1>3, StartFacts DEF Wild
<1>4. CASE ~(NumberEnd - first > MaxTokString)
  <2>1. Finish(NumberEnd, "OK") /\ tok' = Token("SCCT_UNKNOWN", Bytes(first, NumberEnd))
    BY <1>1, <1>4
  <2>2. first <= NumberEnd /\ NumberEnd <= Len(mem)
    BY <1>2
  <2>3. Stops("SCCT_UNKNOWN", NumberEnd)
    BY <1>1, <1>2, <2>1, <2>2, UnknownStops
  <2> QED
    BY <1>1, <1>2, <2>1, <2>3 DEF Finish
<1> QED
  BY <1>3, <1>4

LEMMA TextStops ==
    ASSUME LexInv, EndOfText \/ InvalidChar
    PROVE  /\ Starts /\ c \notin Starting /\ Stops("SCCT_UNKNOWN", first) /\ first \in Nat
           /\ tok'.start = first /\ tok'.string = <<>>
           /\ \/ IsEnd(first) /\ build' = "OK"
              \/ ~IsEnd(first) /\ build' = "INPUT_ERROR"
<1>1. Starts /\ c \notin Starting /\ tok' = Token("SCCT_UNKNOWN", <<>>)
  BY DEF EndOfText, InvalidChar, NoToken
<1>2. first \in Nat /\ first <= first /\ first <= Len(mem)
  BY <1>1, StartFacts
<1>3. PICK status \in {"OK", "INPUT_ERROR"} :
          Finish(first, status) /\ (status = "OK" <=> IsEnd(first))
  BY DEF EndOfText, InvalidChar
<1>4. Stops("SCCT_UNKNOWN", first)
  BY <1>1, <1>2, <1>3, UnknownStops
<1> QED
  BY <1>1, <1>2, <1>3, <1>4 DEF Finish, Token

-----------------------------------------------------------------------------
\* A step of the lexer leaves the text alone, and is a token, an end of the loop,
\* or the end of the memory.  As long as there is text, a token takes some of it.
LEMMA NextTokSteps ==
    ASSUME LexInv, NextTok
    PROVE  \/ Wild
           \/ \E kind, string : \E q \in Nat :
                  Got(kind, string, q) /\ (~IsEnd(first) => first < q)
           \/ \E kind : \E q \in Nat : Stops(kind, q)
<1>1. \A kind, string : \A n \in {1, 2, 3} :
          Got(kind, string, first + n) => first < first + n /\ first + n \in Nat
  BY StartFacts DEF Got
<1>2. CASE ReadSingle
  BY <1>1, <1>2, SingleGot
<1>3. CASE ReadOperator
  BY <1>1, <1>3, OperatorGot
<1>4. CASE ReadDouble
  BY <1>1, <1>4, DoubleGot
<1>5. CASE ReadShift
  BY <1>1, <1>5, ShiftGot
<1>6. CASE ReadString
  <2>1. Starts
    BY <1>6, StringGot
  <2>2. first \in Nat /\ Closes \in Nat /\ Closes \in first + 1 .. Len(mem) /\ Len(mem) \in Nat
    BY <2>1, StartFacts, ClosesFacts
  <2>3. first < Closes /\ first < Closes + 1
    BY <2>2
  <2>4. \A string : \A q \in {Closes, Closes + 1} : Got("SCCT_STRING", string, q) =>
            q \in Nat /\ first < q
    BY <2>2, <2>3
  <2>5. \/ Wild
        \/ \E string : \E q \in {Closes, Closes + 1} : Got("SCCT_STRING", string, q)
    BY <1>6, StringGot
  <2> QED
    BY <2>4, <2>5
<1>7. CASE ReadWord
  <2>1. Starts /\ c \in WordChars
    BY <1>7, WordGot
  <2>2. WordEnd \in Nat /\ (~IsEnd(first) => first < WordEnd)
    BY <2>1, EndFacts DEF WordEnd, EndsWord
  <2> QED
    BY <1>7, <2>2, WordGot
<1>8. CASE ReadNumber
  BY <1>8, NumberGot, EndFacts DEF NumberEnd, EndsNumber
<1>9. CASE EndInSpace
  BY <1>9, SpaceStops
<1>10. CASE EndInNumber
  BY <1>10, NumberStops
<1>11. CASE EndOfText \/ InvalidChar
  BY <1>11, TextStops
<1>12. CASE WildRead
  BY <1>12 DEF WildRead, Wild
<1> QED
  BY <1>2, <1>3, <1>4, <1>5, <1>6, <1>7, <1>8, <1>9, <1>10, <1>11, <1>12 DEF NextTok

LEMMA LexInit == Init => LexInv
<1> SUFFICES ASSUME Init PROVE LexInv
  OBVIOUS
<1>1. PICK s \in Slacks : mem = text \o s
  BY DEF Init, TextInit
<1>2. text \in Seq(Characters) /\ text # <<>> /\ s \in Seq(Characters) /\ s # <<>>
  BY TextsAssumption DEF Init, TextInit
<1>3. mem \in Seq(Characters) /\ Len(mem) = Len(text) + Len(s)
  BY <1>1, <1>2, ConcatProperties
<1>4. Len(text) \in Nat \ {0} /\ Len(s) \in Nat \ {0}
  BY <1>2, EmptySeq
<1>5. size = Len(text) /\ input = 0 /\ nlines = 0 /\ pos = 0 /\ line = 1 /\ phase = "transform"
  BY DEF Init, TextInit
<1>6. TextTypes
  BY <1>2, <1>3, <1>4, <1>5 DEF TextTypes
<1>7. CursorTypes
  BY <1>3, <1>4, <1>5 DEF CursorTypes, Init
<1>8. line = 1 + Lines(0, pos)
  BY <1>5, LinesFacts
<1> QED
  BY <1>6, <1>7, <1>8 DEF LexInv

LEMMA LoadKeeps == LexInv /\ Load => LexInv'
<1> SUFFICES ASSUME LexInv, Load PROVE LexInv'
  OBVIOUS
<1>1. /\ phase = "transform" /\ UNCHANGED <<pos, line, tok, build>>
      /\ pos = 0 /\ line = 1 /\ tok.kind = "SCCT_UNKNOWN" /\ tok.start = 0 /\ tok.string = <<>>
      /\ TextTypes
  BY DEF LexInv, CursorTypes, Load, Transform, TransformOne, TransformDone, cursor
<1>2. /\ TextTypes' /\ text' = text /\ Len(mem') = Len(mem)
      /\ phase' \in {"transform", "read", "wild"}
  <2>1. CASE TransformOne
    <3>1. CASE \E p \in Nat : Shrinks(p)
      <4>1. PICK p \in Nat : Shrinks(p)
        BY <3>1
      <4> QED
        BY <1>1, <4>1, ShrinksTypes DEF Shrinks
    <3>2. CASE phase' = "wild" /\ UNCHANGED textvars
      BY <1>1, <3>2, TextStays DEF textvars
    <3> QED
      BY <1>1, <2>1, <3>1, <3>2, TransformOneSteps
  <2>2. CASE TransformDone
    BY <1>1, <2>2, TextStays DEF TransformDone, textvars
  <2> QED
    BY <2>1, <2>2 DEF Load, Transform
<1>3. line' = 1 + Lines(0, pos)'
  <2>1. Lines(0, 0)' = 0
    <3>1. {i \in 0 + 1 .. 0 : ~IsEnd(i)' /\ CharAt(i)' = LF} = {}
      OBVIOUS
    <3> QED
      BY <3>1, FS_EmptySet DEF Lines
  <2> QED
    BY <1>1, <2>1
<1>4. CursorTypes'
  BY <1>1, <1>2 DEF LexInv, CursorTypes
<1> QED
  BY <1>2, <1>3, <1>4 DEF LexInv

LEMMA LexStep == LexInv /\ [Next]_vars => LexInv'
<1> SUFFICES ASSUME LexInv, [Next]_vars PROVE LexInv'
  OBVIOUS
<1>1. CASE Load
  BY <1>1, LoadKeeps
<1>2. CASE NextTok
  BY <1>2, NextTokSteps, GotKeeps, StopsKeeps, WildKeeps
<1>3. CASE UNCHANGED vars
  BY <1>3 DEF vars, textvars, cursor, LexInv, TextTypes, CursorTypes, Lines, IsEnd, CharAt
<1> QED
  BY <1>1, <1>2, <1>3 DEF Next, Ended

LEMMA LexInvariant == Spec => []LexInv
BY LexInit, LexStep, PTL DEF Spec

\* Every text and everything behind it keep the types of the parser and the
\* lexer; the position is never more than one behind the memory.
THEOREM TypeCorrect == Spec => []TypeOK
<1>1. LexInv => TypeOK
  <2> SUFFICES ASSUME LexInv PROVE TypeOK
    OBVIOUS
  <2>1. line \in 1 .. Len(text) + 1 /\ nlines \in Nat
    BY DEF LexInv, TextTypes, CursorTypes
  <2> QED
    BY <2>1 DEF LexInv, TextTypes, CursorTypes, TypeOK
<1> QED
  BY <1>1, LexInvariant, PTL

\* The line the lexer counts is that of its position, however the look-ahead of
\* the shifts and the walks over spaces, words and literals have led there.
THEOREM LinesAreCounted == Spec => []LineIsCounted
<1>1. LexInv => LineIsCounted
  BY DEF LexInv, LineIsCounted
<1> QED
  BY <1>1, LexInvariant, PTL

-----------------------------------------------------------------------------
\* What the CRLF loop has done: the memory up to input holds, in their order, the
\* characters of the text that stay, and behind input the text as it was, moved.
\* The rank of a place in the text is the number of those that stay up to it.
Staying  == {i \in 1 .. Len(text) : ~ReplacedAt(i)}
Upto(i)  == {j \in Staying : j <= i}
Rank(i)  == Cardinality(Upto(i))
Unstopping == \A i \in 1 .. Len(text) : text[i] # NUL
UnixInv ==
    /\ \A n \in input + 1 .. size : mem[n] = text[n + nlines]
    /\ \A n \in 1 .. input :
           \E i \in Staying : i <= input + nlines /\ Rank(i) = n /\ mem[n] = text[i]
    /\ Rank(input + nlines) = input
    /\ phase \in {"read", "done"} /\ Unstopping =>
           \A n \in input + 1 .. size - 1 : ~(mem[n] = CR /\ mem[n + 1] = LF)

LEMMA StayingFinite ==
    ASSUME TextTypes
    PROVE  \A i : Upto(i) \in SUBSET (1 .. Len(text)) /\ IsFiniteSet(Upto(i)) /\ Rank(i) \in Nat
<1>1. IsFiniteSet(1 .. Len(text))
  BY FS_Interval DEF TextTypes
<1>2. \A i : Upto(i) \in SUBSET (1 .. Len(text))
  BY DEF Upto, Staying
<1> QED
  BY <1>1, <1>2, FS_Subset, FS_CardinalityType DEF Rank

\* Characters that stay count one each, and one that is replaced counts nothing.
LEMMA RankOnward ==
    ASSUME TextTypes, NEW a \in Nat, NEW b \in Nat, a <= b, b <= Len(text),
           \A i \in a + 1 .. b : i \in Staying
    PROVE  Rank(b) = Rank(a) + (b - a)
<1>1. Upto(b) = Upto(a) \cup (a + 1 .. b) /\ Upto(a) \cap (a + 1 .. b) = {}
  BY DEF Upto, Staying
<1>2. IsFiniteSet(a + 1 .. b) /\ Cardinality(a + 1 .. b) = b - a
  <2> DEFINE x == a + 1
  <2>1. x \in Int /\ b \in Int /\ (IF x > b THEN 0 ELSE b - x + 1) = b - a
    OBVIOUS
  <2> HIDE DEF x
  <2>2. IsFiniteSet(x .. b) /\ Cardinality(x .. b) = IF x > b THEN 0 ELSE b - x + 1
    BY <2>1, FS_Interval
  <2> QED
    BY <2>1, <2>2 DEF x
<1>3. IsFiniteSet(Upto(a)) /\ Rank(a) \in Nat
  BY StayingFinite
<1>4. Cardinality(Upto(b)) = Cardinality(Upto(a)) + Cardinality(a + 1 .. b) - Cardinality({})
  BY <1>1, <1>2, <1>3, FS_Union
<1> QED
  BY <1>2, <1>3, <1>4, FS_EmptySet DEF Rank

LEMMA RankSkips ==
    ASSUME TextTypes, NEW a \in Nat, a + 1 \notin Staying
    PROVE  Rank(a + 1) = Rank(a)
<1>1. Upto(a + 1) = Upto(a)
  BY DEF Upto, Staying
<1> QED
  BY <1>1 DEF Rank

LEMMA RankDiffers ==
    ASSUME TextTypes, NEW i \in Staying, NEW j \in Staying, Rank(i) = Rank(j)
    PROVE  i = j
<1>1. ASSUME NEW k \in Staying, NEW l \in Staying, k < l, Rank(k) = Rank(l) PROVE FALSE
  <2>1. Upto(k) \in SUBSET Upto(l) /\ l \in Upto(l) /\ l \notin Upto(k)
    BY <1>1 DEF Upto, Staying
  <2>2. Upto(l) = Upto(k)
    BY <1>1, <2>1, StayingFinite, FS_Subset DEF Rank
  <2> QED
    BY <2>1, <2>2
<1>2. i \in Int /\ j \in Int
  BY DEF Staying
<1> QED
  BY <1>1, <1>2

LEMMA UnixInit == Init => UnixInv
<1> SUFFICES ASSUME Init PROVE UnixInv
  OBVIOUS
<1>1. LexInv /\ input = 0 /\ nlines = 0 /\ phase = "transform" /\ size = Len(text)
  BY LexInit DEF Init, TextInit
<1>2. PICK s \in Slacks : mem = text \o s
  BY DEF Init, TextInit
<1>3. \A n \in 1 .. Len(text) : mem[n] = text[n]
  <2>1. text \in Seq(Characters) /\ s \in Seq(Characters)
    BY TextsAssumption DEF Init, TextInit
  <2>2. \A n \in 1 .. Len(text) + Len(s) :
            mem[n] = IF n <= Len(text) THEN text[n] ELSE s[n - Len(text)]
    BY <1>2, <2>1, ConcatProperties
  <2>3. Len(text) \in Nat /\ Len(s) \in Nat
    BY <2>1
  <2>4. \A n \in 1 .. Len(text) : n \in 1 .. Len(text) + Len(s) /\ n <= Len(text)
    BY <2>3
  <2> QED
    BY <2>2, <2>4
<1>4. Rank(0) = 0
  <2>1. Upto(0) = {}
    BY DEF Upto, Staying
  <2> QED
    BY <2>1, FS_EmptySet DEF Rank
<1> QED
  BY <1>1, <1>3, <1>4 DEF UnixInv, LexInv, TextTypes

\* One CRLF replaced: up to it every character stays, its '\r' does not, its '\n'
\* does.
LEMMA ShrinksUnix ==
    ASSUME TextTypes, UnixInv, NEW p \in Nat, Shrinks(p), phase = "transform"
    PROVE  UnixInv'
<1> DEFINE a == input + nlines
           b == p + nlines
<1>1. /\ input \in Nat /\ nlines \in Nat /\ size \in Nat /\ Len(text) \in Nat /\ size + nlines = Len(text)
      /\ input <= size /\ Len(mem) \in Nat /\ Len(text) < Len(mem)
      /\ p \in input .. size - 2 /\ mem[p + 1] = CR /\ mem[p + 2] = LF
      /\ \A r \in input .. p - 1 : ~(CharAt(r) = CR /\ CharAt(r + 1) = LF)
  <2>1. (p + 1) + 1 = p + 2
    OBVIOUS
  <2> QED
    BY <2>1 DEF TextTypes, Shrinks, CharAt
<1>2. /\ a \in Nat /\ b \in Nat /\ a <= b /\ b + 2 <= Len(text)
      /\ size' + nlines' = Len(text) /\ input' + nlines' = b + 2
      /\ input' = p + 1 /\ nlines' = nlines + 1 /\ size' = size - 1
  BY <1>1 DEF Shrinks
<1>3. \A n \in input + 1 .. size : mem[n] = text[n + nlines]
  BY DEF UnixInv
<1>4. ASSUME NEW i \in a + 1 .. b PROVE i \in Staying
  <2> DEFINE n == i - nlines
  <2>1. /\ n \in input + 1 .. p /\ n + 1 \in input + 1 .. size /\ n \in input + 1 .. size /\ n \in Int
        /\ n - 1 \in input .. p - 1 /\ (n - 1) + 1 = n /\ i \in 1 .. Len(text)
        /\ n + nlines = i /\ (n + 1) + nlines = i + 1
    BY <1>1, <1>2
  <2> HIDE DEF n
  <2>2. mem[n] = text[i] /\ mem[n + 1] = text[i + 1]
    BY <1>3, <2>1
  <2>3. ~(mem[n] = CR /\ mem[n + 1] = LF)
    BY <1>1, <2>1 DEF CharAt
  <2> QED
    BY <2>1, <2>2, <2>3 DEF Staying, ReplacedAt
<1>5. /\ text[b + 1] = CR /\ text[b + 2] = LF /\ (b + 1) + 1 = b + 2
      /\ b + 1 \notin Staying /\ b + 2 \in Staying
  <2>1. /\ p + 1 \in input + 1 .. size /\ p + 2 \in input + 1 .. size /\ (p + 1) + nlines = b + 1
        /\ (p + 2) + nlines = b + 2 /\ b + 1 \in 1 .. Len(text) /\ b + 2 \in 1 .. Len(text)
        /\ b + 1 < Len(text) /\ (b + 1) + 1 = b + 2
    BY <1>1, <1>2
  <2>2. text[b + 1] = CR /\ text[b + 2] = LF
    BY <1>1, <1>3, <2>1
  <2>3. CR # LF
    BY DEF CR, LF
  <2> HIDE DEF b
  <2>4. ReplacedAt(b + 1) /\ ~ReplacedAt(b + 2)
    BY <2>1, <2>2, <2>3 DEF ReplacedAt
  <2> QED
    BY <2>1, <2>2, <2>4 DEF Staying
<1>6. Rank(a) = input
  BY DEF UnixInv
<1>7. \A i \in a + 1 .. b : Rank(i) = i - nlines
  <2> TAKE i \in a + 1 .. b
  <2>1. i \in Nat /\ a <= i /\ i <= Len(text) /\ \A j \in a + 1 .. i : j \in a + 1 .. b
    BY <1>2
  <2> HIDE DEF a, b
  <2>2. Rank(i) = Rank(a) + (i - a)
    BY <1>2, <1>4, <2>1, RankOnward
  <2> QED
    BY <1>1, <1>6, <2>1, <2>2 DEF a
<1>8. Rank(b + 2) = p + 1
  <2> HIDE DEF a, b
  <2>1. Rank(b) = Rank(a) + (b - a)
    <3>1. b <= Len(text)
      BY <1>1, <1>2
    <3> QED
      BY <1>2, <1>4, <3>1, RankOnward
  <2>2. Rank(b + 1) = Rank(b)
    BY <1>2, <1>5, RankSkips
  <2>3. Rank(b + 2) = Rank(b + 1) + 1
    <3> DEFINE e == b + 1
               f == b + 2
    <3>1. e \in Nat /\ f \in Nat /\ e <= f /\ f <= Len(text) /\ f - e = 1
          /\ \A i \in e + 1 .. f : i = f
      BY <1>1, <1>2
    <3>2. f \in Staying
      BY <1>5
    <3> HIDE DEF e, f
    <3>3. Rank(f) = Rank(e) + (f - e)
      BY <3>1, <3>2, RankOnward
    <3> QED
      BY <3>1, <3>3 DEF e, f
  <2>4. b - a = p - input
    BY <1>1 DEF a, b
  <2> QED
    BY <1>1, <1>6, <2>1, <2>2, <2>3, <2>4
<1>9. UNCHANGED text /\ Staying' = Staying /\ \A i : Rank(i)' = Rank(i)
  BY DEF Shrinks, Staying, ReplacedAt, Rank, Upto
<1>10. ASSUME NEW n \in input' + 1 .. size' PROVE mem'[n] = text'[n + nlines']
  <2>1. n \in p + 2 .. size - 1 /\ n + 1 \in input + 1 .. size /\ (n + 1) + nlines = n + (nlines + 1)
    BY <1>1, <1>2
  <2>2. mem'[n] = mem[n + 1]
    BY <2>1 DEF Shrinks
  <2> QED
    BY <1>2, <1>3, <1>9, <2>1, <2>2
<1>11. ASSUME NEW n \in 1 .. input'
       PROVE  \E i \in Staying : i <= input' + nlines' /\ Rank(i) = n /\ mem'[n] = text[i]
  <2>1. CASE n = p + 1
    <3>1. mem'[n] = LF
      BY <2>1 DEF Shrinks
    <3>2. b + 2 \in Staying /\ b + 2 <= input' + nlines' /\ Rank(b + 2) = n /\ text[b + 2] = LF
      BY <1>2, <1>5, <1>8, <2>1
    <3> QED
      BY <3>1, <3>2
  <2>2. CASE n \in input + 1 .. p
    <3>1. /\ n + nlines \in a + 1 .. b /\ n + nlines <= input' + nlines' /\ (n + nlines) - nlines = n
          /\ n \in input + 1 .. size /\ n \in 1 .. Len(mem) /\ n \notin p + 1 .. size - 1
      BY <1>1, <1>2, <2>2
    <3>2. n + nlines \in Staying /\ Rank(n + nlines) = n
      BY <1>4, <1>7, <3>1
    <3>3. mem'[n] = mem[n] /\ mem[n] = text[n + nlines]
      BY <1>3, <3>1 DEF Shrinks
    <3> QED
      BY <3>1, <3>2, <3>3
  <2>3. CASE n \in 1 .. input
    <3>1. PICK i \in Staying : i <= input + nlines /\ Rank(i) = n /\ mem[n] = text[i]
      BY <2>3 DEF UnixInv
    <3>2. n \in 1 .. Len(mem) /\ n \notin p + 1 .. size - 1 /\ i <= input' + nlines'
      BY <1>1, <1>2, <2>3, <3>1 DEF Staying
    <3>3. mem'[n] = mem[n]
      BY <3>2 DEF Shrinks
    <3> QED
      BY <3>1, <3>2, <3>3
  <2> QED
    BY <1>1, <1>2, <2>1, <2>2, <2>3
<1>12. phase' = "transform"
  BY DEF Shrinks
<1>13. Rank(input + nlines)' = input'
  <2>1. Upto(input + nlines)' = Upto(b + 2)
    BY <1>2, <1>9 DEF Upto
  <2> QED
    BY <1>2, <1>8, <2>1 DEF Rank
<1>14. \A n \in 1 .. input' :
           \E i \in Staying' : i <= input' + nlines' /\ Rank(i)' = n /\ mem'[n] = text'[i]
  <2> HIDE DEF a, b
  <2> QED
    BY <1>9, <1>11
<1> QED
  BY <1>10, <1>12, <1>13, <1>14 DEF UnixInv

LEMMA UnixStays ==
    ASSUME UnixInv, UNCHANGED textvars,
           phase' \in {"read", "done"} /\ Unstopping =>
               \/ phase \in {"read", "done"}
               \/ \A n \in input + 1 .. size - 1 : ~(mem[n] = CR /\ mem[n + 1] = LF)
    PROVE  UnixInv'
<1>1. /\ text' = text /\ mem' = mem /\ size' = size /\ input' = input /\ nlines' = nlines
  BY DEF textvars
<1>2. Staying' = Staying /\ Unstopping' = Unstopping
  BY <1>1 DEF Staying, ReplacedAt, Unstopping
<1>3. (\A i : Rank(i)' = Rank(i)) /\ Rank(input + nlines)' = Rank(input + nlines)
  BY <1>1, <1>2 DEF Rank, Upto
<1>4. \A n \in 1 .. input' :
          \E i \in Staying' : i <= input' + nlines' /\ Rank(i)' = n /\ mem'[n] = text'[i]
  BY <1>1, <1>2, <1>3 DEF UnixInv
<1>5. /\ \A n \in input' + 1 .. size' : mem'[n] = text'[n + nlines']
      /\ phase' \in {"read", "done"} /\ Unstopping' =>
             \A n \in input' + 1 .. size' - 1 : ~(mem'[n] = CR /\ mem'[n + 1] = LF)
  BY <1>1, <1>2 DEF UnixInv
<1>6. Rank(input + nlines)' = input'
  BY <1>1, <1>3 DEF UnixInv
<1> QED
  BY <1>4, <1>5, <1>6 DEF UnixInv

\* strstr finds no CRLF where there is none: a NUL of the text would stop it.
LEMMA DoneUnix ==
    ASSUME TextTypes, UnixInv, TransformDone
    PROVE  UnixInv'
<1>1. /\ UNCHANGED textvars /\ CRLFs = {}
      /\ input \in Nat /\ nlines \in Nat /\ size \in Nat /\ size + nlines = Len(text)
  BY DEF TransformDone, TextTypes
<1>2. ASSUME Unstopping, NEW n \in input + 1 .. size - 1, mem[n] = CR, mem[n + 1] = LF
      PROVE  FALSE
  <2>1. /\ n - 1 \in input .. size - 1 /\ (n - 1) + 1 = n
        /\ \A q \in input .. n - 1 : q + 1 \in input + 1 .. size /\ (q + 1) + nlines \in 1 .. Len(text)
    BY <1>1
  <2>2. \A q \in input .. n - 1 : CharAt(q) # NUL
    BY <1>2, <2>1 DEF UnixInv, Unstopping, CharAt
  <2>3. n - 1 \in CRLFs
    BY <1>2, <2>1, <2>2 DEF CRLFs, CharAt
  <2> QED
    BY <1>1, <2>3
<1> QED
  BY <1>1, <1>2, UnixStays

LEMMA NextTokReads == NextTok => phase = "read"
BY DEF NextTok, ReadSingle, ReadOperator, ReadDouble, ReadShift, ReadString, ReadWord, ReadNumber,
       EndInSpace, EndInNumber, EndOfText, InvalidChar, WildRead, Starts, Calls

LEMMA NextTokKeepsText == LexInv /\ NextTok => UNCHANGED textvars
BY NextTokSteps DEF Wild, Got, Stops

LEMMA UnixStep == LexInv /\ UnixInv /\ [Next]_vars => UnixInv'
<1> SUFFICES ASSUME LexInv, UnixInv, [Next]_vars PROVE UnixInv'
  OBVIOUS
<1>1. TextTypes
  BY DEF LexInv
<1>2. CASE TransformOne
  <2>1. CASE \E p \in Nat : Shrinks(p)
    <3>1. PICK p \in Nat : Shrinks(p)
      BY <2>1
    <3> QED
      BY <1>1, <1>2, <3>1, ShrinksUnix DEF TransformOne
  <2>2. CASE phase' = "wild" /\ UNCHANGED textvars
    BY <1>2, <2>2, UnixStays
  <2> QED
    BY <1>1, <1>2, <2>1, <2>2, TransformOneSteps
<1>3. CASE TransformDone
  BY <1>1, <1>3, DoneUnix
<1>4. CASE NextTok
  BY <1>4, NextTokReads, NextTokKeepsText, UnixStays
<1>5. CASE UNCHANGED vars
  BY <1>5, UnixStays DEF vars, textvars
<1> QED
  BY <1>2, <1>3, <1>4, <1>5 DEF Next, Load, Transform, Ended

LEMMA UnixOfText ==
    ASSUME TextTypes, UnixInv, phase \in {"read", "done"}, Unstopping
    PROVE  SubSeq(mem, 1, size) = Unix /\ Len(Unix) = size
<1> DEFINE a == input + nlines
<1>1. /\ input \in Nat /\ nlines \in Nat /\ size \in Nat /\ Len(text) \in Nat /\ size + nlines = Len(text)
      /\ input <= size /\ Len(mem) \in Nat /\ Len(text) < Len(mem) /\ a \in Nat /\ a <= Len(text)
      /\ mem \in Seq(Characters)
  BY DEF TextTypes
<1>2. ASSUME NEW i \in a + 1 .. Len(text) PROVE i \in Staying
  <2> DEFINE n == i - nlines
  <2>1. n \in input + 1 .. size /\ i \in 1 .. Len(text) /\ n + nlines = i
    BY <1>1
  <2>2. i < Len(text) => n \in input + 1 .. size - 1 /\ n + 1 \in input + 1 .. size /\ (n + 1) + nlines = i + 1
    BY <1>1
  <2> HIDE DEF n
  <2>3. i < Len(text) => mem[n] = text[i] /\ mem[n + 1] = text[i + 1] /\ ~(mem[n] = CR /\ mem[n + 1] = LF)
    BY <2>1, <2>2 DEF UnixInv
  <2> QED
    BY <2>1, <2>3 DEF Staying, ReplacedAt
<1>3. \A i \in a .. Len(text) : Rank(i) = i - nlines
  <2> TAKE i \in a .. Len(text)
  <2>1. i \in Nat /\ a <= i /\ i <= Len(text) /\ \A j \in a + 1 .. i : j \in a + 1 .. Len(text)
    BY <1>1
  <2>2. Rank(a) = input
    BY DEF UnixInv
  <2> HIDE DEF a
  <2>3. Rank(i) = Rank(a) + (i - a)
    BY <1>1, <1>2, <2>1, RankOnward
  <2> QED
    BY <1>1, <2>1, <2>2, <2>3 DEF a
<1>4. Cardinality(Staying) = size
  <2>1. Upto(Len(text)) = Staying
    BY <1>1 DEF Upto, Staying
  <2>2. Len(text) \in a .. Len(text) /\ Len(text) - nlines = size
    BY <1>1
  <2> QED
    BY <1>3, <2>1, <2>2 DEF Rank
<1>5. ASSUME NEW n \in 1 .. size
      PROVE  \E i \in Staying : Rank(i) = n /\ mem[n] = text[i]
  <2>1. CASE n \in 1 .. input
    BY <2>1 DEF UnixInv
  <2>2. CASE n \in input + 1 .. size
    <3>1. n + nlines \in a + 1 .. Len(text) /\ n + nlines \in a .. Len(text) /\ (n + nlines) - nlines = n
      BY <1>1, <2>2
    <3>2. mem[n] = text[n + nlines]
      BY <2>2 DEF UnixInv
    <3> HIDE DEF a
    <3> QED
      BY <1>2, <1>3, <3>1, <3>2
  <2> QED
    BY <1>1, <2>1, <2>2
<1>6. \A n \in 1 .. size : text[CHOOSE i \in Staying : Rank(i) = n] = mem[n]
  <2> TAKE n \in 1 .. size
  <2>1. PICK i \in Staying : Rank(i) = n /\ mem[n] = text[i]
    BY <1>5
  <2>2. (CHOOSE j \in Staying : Rank(j) = n) = i
    BY <2>1, RankDiffers
  <2> QED
    BY <2>1, <2>2
<1>7. Unix = [n \in 1 .. size |-> text[CHOOSE i \in Staying : Rank(i) = n]]
  BY <1>4 DEF Unix, Staying, Rank, Upto
<1>8. Unix = [n \in 1 .. size |-> mem[n]]
  BY <1>6, <1>7
<1>9. \A n \in 1 .. size : mem[n] \in Characters
  BY <1>1
<1>10. Unix \in Seq(Characters) /\ Len(Unix) = size /\ \A n \in 1 .. size : Unix[n] = mem[n]
  BY <1>1, <1>8, <1>9
<1>11. /\ SubSeq(mem, 1, size) \in Seq(Characters) /\ Len(SubSeq(mem, 1, size)) = size
       /\ \A n \in 1 .. size : SubSeq(mem, 1, size)[n] = mem[n]
  <2>1. /\ SubSeq(mem, 1, size) \in Seq(Characters)
        /\ Len(SubSeq(mem, 1, size)) = IF 1 <= size THEN size - 1 + 1 ELSE 0
        /\ \A n \in 1 .. size - 1 + 1 : SubSeq(mem, 1, size)[n] = mem[1 + n - 1]
    BY <1>1, <1>9, SubSeqProperties
  <2>2. size - 1 + 1 = size /\ \A n \in 1 .. size : 1 + n - 1 = n
    BY <1>1
  <2> QED
    BY <1>1, <2>1, <2>2
<1> QED
  BY <1>10, <1>11, SeqEqual

LEMMA UnixInvariant == Spec => []UnixInv
<1>1. UnixInv /\ LexInv /\ [Next]_vars => UnixInv'
  BY UnixStep
<1> QED
  BY <1>1, UnixInit, LexInvariant, PTL DEF Spec

\* The loop over the text that moves under it replaces each CRLF of the text that
\* was loaded by one LF, changes nothing else, not even where a '\r' comes to stand
\* before an LF it has made, and counts them.
THEOREM LinesAreUnix == Spec => []TextIsUnix
<1>1. LexInv /\ UnixInv => TextIsUnix
  <2> SUFFICES ASSUME LexInv, UnixInv, phase \in {"read", "done"}, Unstopping
               PROVE  SubSeq(mem, 1, size) = Unix /\ nlines = Len(text) - Len(Unix)
    BY DEF TextIsUnix, Unstopping
  <2>1. TextTypes /\ nlines = Len(text) - size
    BY DEF LexInv, TextTypes
  <2> QED
    BY <2>1, UnixOfText
<1> QED
  BY <1>1, LexInvariant, UnixInvariant, PTL

Apart == {"SCCT_STRING", "SCCT_KEYWORD", "SCCT_IDENT", "SCCT_INUM", "SCCT_UNKNOWN", "SCCT_EOF"}
LEMMA PairsOfTables ==
    /\ \A t \in Ones \cup Singles : \E k, a : t = <<k, a>>
    /\ \A t \in Twos \cup Operators \cup Shifts : \E k, a, b : t = <<k, a, b>>
    /\ \A t \in Threes : \E k, a, b, d : t = <<k, a, b, d>>
<1>1. \A t \in Ones : \E k, a : t = <<k, a>>
  BY DEF Ones
<1>2. \A t \in Brackets : \E k, a : t = <<k, a>>
  BY DEF Brackets
<1>3. \A t \in Marks : \E k, a : t = <<k, a>>
  BY DEF Marks
<1>4. \A t \in Twos : \E k, a, b : t = <<k, a, b>>
  BY DEF Twos
<1>5. \A t \in Sums : \E k, a, b : t = <<k, a, b>>
  BY DEF Sums
<1>6. \A t \in Relations : \E k, a, b : t = <<k, a, b>>
  BY DEF Relations
<1>7. \A t \in Shifts : \E k, a, b : t = <<k, a, b>>
  BY DEF Shifts
<1>8. \A t \in Threes : \E k, a, b, d : t = <<k, a, b, d>>
  BY DEF Threes
<1> QED
  BY <1>1, <1>2, <1>3, <1>4, <1>5, <1>6, <1>7, <1>8 DEF Singles, Operators

LEMMA SpelledForms ==
    ASSUME NEW t \in Spelled
    PROVE  \/ \E k, a : <<k, a>> \in Ones /\ t[1] = k /\ t[2] = <<a>>
           \/ \E k, a, b : <<k, a, b>> \in Twos /\ t[1] = k /\ t[2] = <<a, b>>
           \/ \E k, a, b, d : <<k, a, b, d>> \in Threes /\ t[1] = k /\ t[2] = <<a, b, d>>
<1>1. CASE \E u \in Ones : t = <<u[1], <<u[2]>> >>
  <2>1. PICK u \in Ones : t = <<u[1], <<u[2]>> >>
    BY <1>1
  <2>2. PICK k, a : u = <<k, a>>
    BY <2>1, PairsOfTables
  <2>3. u[1] = k /\ u[2] = a
    BY <2>2
  <2>4. <<k, a>> \in Ones /\ t[1] = k /\ t[2] = <<a>>
    BY <2>1, <2>2, <2>3
  <2> QED
    BY <2>4
<1>2. CASE \E u \in Twos : t = <<u[1], <<u[2], u[3]>> >>
  <2>1. PICK u \in Twos : t = <<u[1], <<u[2], u[3]>> >>
    BY <1>2
  <2>2. PICK k, a, b : u = <<k, a, b>>
    BY <2>1, PairsOfTables
  <2>3. u[1] = k /\ u[2] = a /\ u[3] = b
    BY <2>2
  <2>4. <<k, a, b>> \in Twos /\ t[1] = k /\ t[2] = <<a, b>>
    BY <2>1, <2>2, <2>3
  <2> QED
    BY <2>4
<1>3. CASE \E u \in Threes : t = <<u[1], <<u[2], u[3], u[4]>> >>
  <2>1. PICK u \in Threes : t = <<u[1], <<u[2], u[3], u[4]>> >>
    BY <1>3
  <2>2. PICK k, a, b, d : u = <<k, a, b, d>>
    BY <2>1, PairsOfTables
  <2>3. u[1] = k /\ u[2] = a /\ u[3] = b /\ u[4] = d
    BY <2>2
  <2>4. <<k, a, b, d>> \in Threes /\ t[1] = k /\ t[2] = <<a, b, d>>
    BY <2>1, <2>2, <2>3
  <2> QED
    BY <2>4
<1> QED
  BY <1>1, <1>2, <1>3 DEF Spelled

LEMMA KindsOfTables ==
    /\ \A s \in Singles : s[2] \notin Apart
    /\ \A o \in Operators : o[2] \notin Apart /\ \A d \in o[3] : d[2] \notin Apart
    /\ \A s \in Shifts : s[2] \notin Apart /\ s[3] \notin Apart
<1>1. \A k, a : <<a, k>> \in Brackets => k \notin Apart
  BY DEF Brackets, Apart
<1>2. \A k, a : <<a, k>> \in Marks => k \notin Apart
  BY DEF Marks, Apart
<1>3. \A s \in Singles : s[2] \notin Apart
  <2> TAKE s \in Singles
  <2>1. PICK a, k : s = <<a, k>>
    BY PairsOfTables
  <2>2. s[2] = k
    BY <2>1
  <2> QED
    BY <1>1, <1>2, <2>1, <2>2 DEF Singles
<1>4. \A o \in Sums : o[2] \notin Apart /\ \A d \in o[3] : d[2] \notin Apart
  BY DEF Sums, Apart
<1>5. \A o \in Relations : o[2] \notin Apart /\ \A d \in o[3] : d[2] \notin Apart
  BY DEF Relations, Apart
<1>6. \A s \in Shifts : s[2] \notin Apart /\ s[3] \notin Apart
  BY DEF Shifts, Apart
<1> QED
  BY <1>3, <1>4, <1>5, <1>6 DEF Operators

\* No character but those that start a token starts the spelling of one.
LEMMA SpelledStarts ==
    ASSUME NEW t \in Spelled
    PROVE  t[2][1] \in {s[1] : s \in Singles} \cup {o[1] : o \in Operators}
<1> DEFINE Heads == {s[1] : s \in Singles} \cup {o[1] : o \in Operators}
<1> SUFFICES t[2][1] \in Heads
  OBVIOUS
<1>1. {"(", ")", "[", "]", "{", "}", ";"} \subseteq {s[1] : s \in Brackets}
  BY DEF Brackets
<1>2. {"~", ".", ",", "?"} \subseteq {s[1] : s \in Marks}
  BY DEF Marks
<1>3. {"%", "+", "-", "*", "/"} \subseteq {o[1] : o \in Sums}
  BY DEF Sums
<1>4. {"|", "<", ">", "&", "^", "=", "!"} \subseteq {o[1] : o \in Relations}
  BY DEF Relations
<1>5. {"(", ")", "[", "]", "{", "}", ";"} \cup {"~", ".", ",", "?"} \cup {"%", "+", "-", "*", "/"}
        \cup {"|", "<", ">", "&", "^", "=", "!"} \subseteq Heads
  <2>1. \A s \in Brackets \cup Marks : s[1] \in Heads
    BY DEF Singles
  <2>2. \A o \in Sums \cup Relations : o[1] \in Heads
    BY DEF Operators
  <2> HIDE DEF Heads
  <2>3. {s[1] : s \in Brackets} \subseteq Heads /\ {s[1] : s \in Marks} \subseteq Heads
    BY <2>1
  <2>4. {o[1] : o \in Sums} \subseteq Heads /\ {o[1] : o \in Relations} \subseteq Heads
    BY <2>2
  <2> QED
    BY <1>1, <1>2, <1>3, <1>4, <2>3, <2>4
<1> HIDE DEF Heads
<1>6. \A k, a : <<k, a>> \in Ones => a \in Heads
  BY <1>5 DEF Ones
<1>7. \A k, a, b : <<k, a, b>> \in Twos => a \in Heads
  BY <1>5 DEF Twos
<1>8. \A k, a, b, d : <<k, a, b, d>> \in Threes => a \in Heads
  BY <1>5 DEF Threes
<1>9. CASE \E k, a : <<k, a>> \in Ones /\ t[1] = k /\ t[2] = <<a>>
  BY <1>6, <1>9
<1>10. CASE \E k, a, b : <<k, a, b>> \in Twos /\ t[1] = k /\ t[2] = <<a, b>>
  BY <1>7, <1>10
<1>11. CASE \E k, a, b, d : <<k, a, b, d>> \in Threes /\ t[1] = k /\ t[2] = <<a, b, d>>
  BY <1>8, <1>11
<1> QED
  BY <1>9, <1>10, <1>11, SpelledForms

-----------------------------------------------------------------------------
\* Between two tokens the lexer passes over nothing but blanks, and each token
\* takes some of what is left of the text.
THEOREM TokensAreAdjacent == Spec => OnlyBlanksBetween
<1> DEFINE Between == tok' # tok =>
        /\ \A p \in pos .. tok'.start - 1 : IsSpace(CharAt(p))
        /\ build' = "running" /\ tok'.start < size => pos' > pos
<1>1. ASSUME LexInv, [Next]_vars PROVE [Between]_vars
  <2>1. CASE Load
    BY <2>1 DEF Load
  <2>2. CASE NextTok
    <3>1. CASE Wild
      BY <3>1 DEF Wild
    <3>2. ASSUME NEW kind, NEW string, NEW q \in Nat, Got(kind, string, q),
                 ~IsEnd(first) => first < q
          PROVE  Between
      <4>1. tok'.start = first /\ pos' = q
        BY <3>2 DEF Got, Token, Walk
      <4>2. /\ \A p \in pos .. first - 1 : IsSpace(CharAt(p))
            /\ first \in pos .. Len(mem) - 1 /\ first \in Nat /\ pos \in Nat /\ Len(mem) \in Nat
        BY <1>1, <3>2, StartFacts DEF Got
      <4>3. first < size => q > pos
        BY <3>2, <4>2 DEF IsEnd
      <4> QED
        BY <4>1, <4>2, <4>3
    <3>3. ASSUME NEW kind, NEW q \in Nat, Stops(kind, q)
          PROVE  Between
      <4>1. build' # "running" /\ CanSkip /\ (tok'.start = tok.start \/ tok'.start = first)
        BY <3>3 DEF Stops
      <4>2. \A p \in pos .. first - 1 : IsSpace(CharAt(p))
        BY <1>1, <4>1, SkipFacts DEF first
      <4>3. tok.start <= pos /\ tok.start \in Nat /\ pos \in Nat
        BY <1>1 DEF LexInv, TextTypes, CursorTypes
      <4>4. pos .. tok.start - 1 = {}
        BY <4>3
      <4> QED
        BY <4>1, <4>2, <4>4
    <3> QED
      BY <1>1, <2>2, <3>1, <3>2, <3>3, NextTokSteps
  <2>3. CASE UNCHANGED vars
    BY <2>3
  <2> QED
    BY <1>1, <2>1, <2>2, <2>3 DEF Next, Ended
<1> QED
  BY <1>1, LexInvariant, PTL DEF Spec, OnlyBlanksBetween

-----------------------------------------------------------------------------
\* No action but the one that meets an invalid character ends the loop in error.
LEMMA OnlyInvalidIsError ==
    ASSUME LexInv, NextTok, build' = "INPUT_ERROR"
    PROVE  InvalidChar
<1>1. build = "running"
  BY DEF NextTok, ReadSingle, ReadOperator, ReadDouble, ReadShift, ReadString, ReadWord, ReadNumber,
         EndInSpace, EndInNumber, EndOfText, InvalidChar, Starts, Calls, WildRead, LexInv, CursorTypes
<1> QED
  BY <1>1, SingleGot, OperatorGot, DoubleGot, ShiftGot, StringGot, WordGot, NumberGot, SpaceStops, NumberStops
     DEF NextTok, Got, Wild, EndOfText, Finish, WildRead

\* build ends in error only because of a character in the text that starts no
\* token and stands between none, wherever in the loop the lexer meets it.
THEOREM ErrorsAreInText == Spec => []InputErrorIsInText
<1>1. Init => InputErrorIsInText
  BY DEF Init, InputErrorIsInText
<1>2. ASSUME LexInv, InputErrorIsInText, [Next]_vars PROVE InputErrorIsInText'
  <2> DEFINE Good == Letters \cup Digits \cup {"_", Quote, " ", LF, CR} \cup {t[2][1] : t \in Spelled}
  <2>1. CASE build = "INPUT_ERROR"
    <3>1. phase = "done"
      BY <1>2, <2>1 DEF LexInv, CursorTypes
    <3>2. UNCHANGED vars
      BY <1>2, <3>1 DEF Next, Load, Transform, TransformOne, TransformDone, NextTok, ReadSingle,
         ReadOperator, ReadDouble, ReadShift, ReadString, ReadWord, ReadNumber, EndInSpace, EndInNumber,
         EndOfText, InvalidChar, Starts, Calls, WildRead, Ended
    <3> QED
      BY <1>2, <3>2 DEF vars, textvars, InputErrorIsInText
  <2>2. CASE build # "INPUT_ERROR" /\ build' = "INPUT_ERROR"
    <3>1. InvalidChar
      BY <1>2, <2>2, OnlyInvalidIsError DEF Next, Load, Ended, vars
    <3>2. Starts /\ c \notin Starting /\ ~IsEnd(first) /\ UNCHANGED textvars
      BY <3>1 DEF InvalidChar, Finish
    <3>3. ~IsSpace(c) /\ first + 1 \in 1 .. size /\ c = mem[first + 1]
      BY <3>2, <1>2, StartFacts DEF IsEnd, c, CharAt
    <3>4. {t[2][1] : t \in Spelled} \subseteq Starting
      BY SpelledStarts DEF Starting
    <3>5. c \notin Good
      BY <3>2, <3>3, <3>4 DEF IsSpace, Starting
    <3>6. mem[first + 1] \notin Good
      BY <3>3, <3>5
    <3> HIDE DEF Good
    <3>7. \E i \in 1 .. size : mem[i] \notin Good
      BY <3>3, <3>6
    <3>8. mem' = mem /\ size' = size
      BY <3>2 DEF textvars
    <3> QED
      BY <3>7, <3>8 DEF InputErrorIsInText, Good
  <2>3. CASE build' # "INPUT_ERROR"
    BY <2>3 DEF InputErrorIsInText
  <2> QED
    BY <2>1, <2>2, <2>3
<1> QED
  BY <1>1, <1>2, LexInvariant, PTL DEF Spec

-----------------------------------------------------------------------------
\* The bytes of a literal that holds no backslash are stored as they are.
LEMMA PlainLiteral ==
    ASSUME LexInv, Starts, \A p \in first + 1 .. Closes - 1 : CharAt(p) # Backslash
    PROVE  /\ Kept = Closes /\ Unescaped(first + 1, Closes) = Bytes(first + 1, Closes)
           /\ Len(Bytes(first + 1, Closes)) = Closes - (first + 1)
           /\ \A i \in 1 .. Closes - (first + 1) : Bytes(first + 1, Closes)[i] # Quote
<1> DEFINE p == first + 1
<1>1. /\ p \in Nat /\ Closes \in Nat /\ Closes >= p
      /\ \A r \in p .. Closes - 1 : ~IsEnd(r) /\ CharAt(r) # Quote
  BY StartFacts, ClosesFacts
<1>2. Closes > p => CharAt(Closes - 1) # Backslash
  BY <1>1
<1>3. Kept = Closes
  BY <1>1, <1>2 DEF Kept, Dangling
<1>4. \A r \in p .. Closes - 1 : CharAt(r) # Backslash
  OBVIOUS
<1> HIDE DEF p
<1>5. \A i \in 1 .. Closes - p : p + i - 1 \in p .. Closes - 1
  BY <1>1
<1>6. Unescaped(p, Closes) = Bytes(p, Closes)
  BY <1>4, <1>5 DEF Unescaped, Bytes
<1>7. Len(Bytes(p, Closes)) = Closes - p
  BY <1>1 DEF Bytes
<1>8. \A i \in 1 .. Closes - p : Bytes(p, Closes)[i] # Quote
  BY <1>1, <1>5 DEF Bytes
<1> QED
  BY <1>3, <1>6, <1>7, <1>8 DEF p

\* Only ReadString gives a literal.
LEMMA OnlyStringsAreLiterals ==
    ASSUME LexInv, NextTok, tok'.kind = "SCCT_STRING"
    PROVE  ReadString \/ UNCHANGED <<mem, size, pos, tok>>
<1>1. \A kind, string, q : Got(kind, string, q) => tok'.kind = kind
  BY DEF Got, Token
<1>2. CASE ReadSingle
  BY <1>1, <1>2, SingleGot, KindsOfTables DEF Apart
<1>3. CASE ReadOperator
  BY <1>1, <1>3, OperatorGot, KindsOfTables DEF Apart
<1>4. CASE ReadDouble
  BY <1>1, <1>4, DoubleGot, KindsOfTables DEF Apart
<1>5. CASE ReadShift
  BY <1>1, <1>5, ShiftGot, KindsOfTables DEF Apart
<1>6. CASE ReadWord
  BY <1>1, <1>6, WordGot DEF KeywordOf, Wild, textvars, cursor
<1>7. CASE ReadNumber
  BY <1>1, <1>7, NumberGot DEF Wild, textvars, cursor
<1>8. CASE EndInSpace
  BY <1>8, SpaceStops DEF Stops
<1>9. CASE EndInNumber
  BY <1>9, NumberStops DEF Stops, Wild, textvars, cursor
<1>10. CASE EndOfText \/ InvalidChar
  BY <1>10, TextStops DEF Stops
<1>11. CASE WildRead
  BY <1>11 DEF WildRead, textvars, cursor
<1> QED
  BY <1>2, <1>3, <1>4, <1>5, <1>6, <1>7, <1>8, <1>9, <1>10, <1>11 DEF NextTok

\* A literal without a backslash is the text between its quotes, for every text.
THEOREM LiteralsAreTheirText == Spec => []LiteralIsItsText
<1>1. Init => LiteralIsItsText
  BY DEF Init, LiteralIsItsText
<1>2. ASSUME LexInv, LiteralIsItsText, [Next]_vars PROVE LiteralIsItsText'
  <2>1. CASE UNCHANGED <<mem, size, pos, tok>>
    BY <1>2, <2>1 DEF LiteralIsItsText, CharAt, IsEnd, Bytes
  <2>2. CASE tok'.kind # "SCCT_STRING"
    BY <2>2 DEF LiteralIsItsText
  <2>3. CASE Load
    <3>1. tok'.kind = "SCCT_UNKNOWN"
      BY <1>2, <2>3 DEF LexInv, CursorTypes, Load, Transform, TransformOne, TransformDone
    <3> QED
      BY <3>1 DEF LiteralIsItsText
  <2>4. CASE ReadString
    <3>1. /\ Starts /\ c = Quote
          /\ \/ Wild
             \/ /\ ~IsEnd(Closes)
                /\ Got("SCCT_STRING", Unescaped(first + 1, Closes), Closes + 1)
             \/ IsEnd(Closes) /\ Got("SCCT_STRING", Unescaped(first + 1, Kept), Closes)
      BY <1>2, <2>4, StringGot
    <3>2. CASE Wild
      BY <2>1, <3>2 DEF Wild, textvars, cursor
    <3>3. ASSUME NEW q \in {Closes, Kept}, NEW n \in {Closes, Closes + 1},
                 Got("SCCT_STRING", Unescaped(first + 1, q), n), q = Closes \/ n = Closes,
                 IF IsEnd(Closes) THEN n = Closes ELSE n = Closes + 1
          PROVE  LiteralIsItsText'
      <4> DEFINE Plain == \A p \in first + 1 .. n - 1 : CharAt(p) # Backslash
      <4>1. /\ tok'.string = Unescaped(first + 1, q) /\ tok'.start = first
            /\ pos' = n /\ mem' = mem /\ size' = size
        BY <3>3 DEF Got, Token, Walk, textvars
      <4>2. CASE ~Plain
        BY <4>1, <4>2 DEF LiteralIsItsText, CharAt
      <4>3. CASE Plain
        <5>1. /\ first \in Nat /\ Closes \in Nat /\ Closes >= first + 1
              /\ ~IsEnd(Closes) => CharAt(Closes) = Quote
          BY <1>2, <3>1, StartFacts, ClosesFacts
        <5>2. \A p \in first + 1 .. Closes - 1 : CharAt(p) # Backslash
          BY <3>3, <4>3, <5>1
        <5>3. /\ q = Closes /\ tok'.string = Bytes(first + 1, Closes)
              /\ Len(tok'.string) = Closes - (first + 1)
              /\ \A i \in 1 .. Len(tok'.string) : tok'.string[i] # Quote
          BY <1>2, <3>1, <3>3, <4>1, <5>2, PlainLiteral
        <5>4. first + 1 + Len(tok'.string) = Closes
          BY <5>1, <5>3
        <5>5. mem[first + 1] = Quote /\ (~IsEnd(Closes) => mem[Closes + 1] = Quote)
          BY <3>1, <5>1 DEF c, CharAt
        <5> QED
          BY <3>3, <4>1, <5>3, <5>4, <5>5 DEF LiteralIsItsText, CharAt, IsEnd, Bytes
      <4> QED
        BY <4>2, <4>3
    <3>4. CASE ~IsEnd(Closes) /\ Got("SCCT_STRING", Unescaped(first + 1, Closes), Closes + 1)
      BY <3>3, <3>4
    <3>5. CASE IsEnd(Closes) /\ Got("SCCT_STRING", Unescaped(first + 1, Kept), Closes)
      BY <3>3, <3>5
    <3> QED
      BY <3>1, <3>2, <3>4, <3>5
  <2>5. CASE NextTok
    BY <1>2, <2>1, <2>2, <2>4, <2>5, OnlyStringsAreLiterals
  <2>6. CASE UNCHANGED vars
    BY <2>1, <2>6 DEF vars, textvars, cursor
  <2> QED
    BY <1>2, <2>3, <2>5, <2>6 DEF Next, Ended
<1> QED
  BY <1>1, <1>2, LexInvariant, PTL DEF Spec

-----------------------------------------------------------------------------
\* A text that is shorter than tok.string, and followed by NULs.
Sheltered == /\ Len(text) < MaxTokString /\ Len(mem) >= Len(text) + 2
             /\ \A i \in Len(text) + 1 .. Len(mem) : mem[i] = NUL

\* Beside what is claimed: the position is never two behind the text, and the
\* bytes left behind the shrunk text never complete a CRLF across its end.
ShelterInv ==
    /\ size < Len(text) => ~(mem[size] = CR /\ mem[size + 1] = LF)
    /\ Sheltered => phase # "wild" /\ pos <= Len(text) + 1

LEMMA NoTokenAtNUL == NUL \notin Starting /\ ~IsSpace(NUL)
<1>1. NUL \notin {s[1] : s \in Singles}
  <2>1. \A a, k : <<a, k>> \in Brackets => a # NUL
    BY DEF Brackets, NUL
  <2>2. \A a, k : <<a, k>> \in Marks => a # NUL
    BY DEF Marks, NUL
  <2>3. \A s \in Singles : s[1] # NUL
    <3> TAKE s \in Singles
    <3>1. PICK a, k : s = <<a, k>>
      BY PairsOfTables
    <3>2. s[1] = a
      BY <3>1
    <3> QED
      BY <2>1, <2>2, <3>1, <3>2 DEF Singles
  <2> QED
    BY <2>3
<1>2. NUL \notin {o[1] : o \in Operators}
  <2>1. \A o \in Sums : o[1] # NUL
    BY DEF Sums, NUL
  <2>2. \A o \in Relations : o[1] # NUL
    BY DEF Relations, NUL
  <2> QED
    BY <2>1, <2>2 DEF Operators
<1>3. NUL \notin {"_", Quote} /\ ~IsSpace(NUL)
  BY DEF NUL, Quote, IsSpace, LF, CR
<1> QED
  BY <1>1, <1>2, <1>3, LexAssumption DEF Starting

LEMMA ShelterStays ==
    ASSUME UNCHANGED textvars, ShelterInv, Sheltered => phase' # "wild" /\ pos' <= Len(text) + 1
    PROVE  ShelterInv'
BY DEF textvars, ShelterInv, Sheltered

\* Where skip_spaces stops in a sheltered text, and that a token begins inside it.
LEMMA ShelteredFirst ==
    ASSUME LexInv, ShelterInv, Sheltered
    PROVE  /\ CanSkip /\ first \in Nat /\ first <= Len(text) + 1
           /\ Starts /\ c \in Starting => first < Len(text)
<1>1. /\ pos \in Nat /\ pos <= Len(text) + 1 /\ Len(text) \in Nat /\ Len(mem) \in Nat
      /\ Len(mem) >= Len(text) + 2 /\ size \in Nat /\ size <= Len(text)
  BY DEF LexInv, TextTypes, CursorTypes, ShelterInv, Sheltered
<1>2. Len(text) + 1 \in Unspaced
  BY <1>1 DEF Unspaced, IsEnd
<1>3. CanSkip
  BY <1>2 DEF CanSkip
<1>4. /\ first \in pos .. Len(mem) - 1 /\ first \in Nat
      /\ \A p \in pos .. first - 1 : ~IsEnd(p)
  BY <1>3, SkipFacts DEF first
<1>5. first <= Len(text) + 1
  <2>1. CASE first > Len(text) + 1
    <3>1. Len(text) + 1 \in pos .. first - 1
      BY <1>1, <1>4, <2>1
    <3> QED
      BY <1>1, <1>4, <3>1 DEF IsEnd
  <2> QED
    BY <1>1, <1>4, <2>1
<1>6. ASSUME c \in Starting PROVE first < Len(text)
  <2>1. CASE first >= Len(text)
    <3>1. first + 1 \in Len(text) + 1 .. Len(mem)
      BY <1>1, <1>4, <2>1
    <3>2. c = NUL
      BY <3>1 DEF c, CharAt, Sheltered
    <3> QED
      BY <1>6, <3>2, NoTokenAtNUL
  <2> QED
    BY <1>1, <1>4, <2>1
<1> QED
  BY <1>3, <1>4, <1>5, <1>6

\* In a sheltered text every return leaves the lexer inside.
LEMMA ShelteredRead ==
    ASSUME LexInv, ShelterInv, Sheltered, NextTok
    PROVE  ~Wild /\ pos' <= Len(text) + 1
<1>1. /\ pos \in Nat /\ pos <= Len(text) + 1 /\ Len(text) \in Nat /\ size \in Nat /\ size <= Len(text)
      /\ phase # "wild" /\ Len(text) < MaxTokString /\ MaxTokString \in Nat
      /\ CanSkip /\ first \in Nat /\ first <= Len(text) + 1
  <2>1. CanSkip /\ first \in Nat /\ first <= Len(text) + 1
    BY ShelteredFirst
  <2>2. MaxTokString \in Nat
    BY LexAssumption
  <2> QED
    BY <2>1, <2>2 DEF LexInv, TextTypes, CursorTypes, ShelterInv, Sheltered
<1>2. \A kind, string, q : Got(kind, string, q) \/ Stops(kind, q) => ~Wild /\ pos' = q
  BY <1>1 DEF Got, Stops, Wild, Walk
<1>3. Starts /\ c \in Starting => first < Len(text)
  BY ShelteredFirst
<1>4. CASE ReadSingle
  <2>1. PICK s \in Singles : c = s[1] /\ Got(s[2], <<>>, first + 1)
    BY <1>4, SingleGot
  <2>2. Starts /\ c \in Starting
    BY <2>1 DEF Got, Starting
  <2> QED
    BY <1>1, <1>2, <1>3, <2>1, <2>2
<1>5. CASE ReadOperator
  <2>1. PICK o \in Operators : c = o[1] /\ Got(o[2], <<>>, first + 2)
    BY <1>5, OperatorGot
  <2>2. Starts /\ c \in Starting
    BY <2>1 DEF Got, Starting
  <2> QED
    BY <1>1, <1>2, <1>3, <2>1, <2>2
<1>6. CASE ReadDouble
  <2>1. PICK o \in Operators : \E d \in o[3] : c = o[1] /\ Got(d[2], <<>>, first + 2)
    BY <1>6, DoubleGot
  <2>2. Starts /\ c \in Starting
    BY <2>1 DEF Got, Starting
  <2> QED
    BY <1>1, <1>2, <1>3, <2>1, <2>2
<1>7. CASE ReadShift
  <2>1. PICK s \in Shifts : /\ Ahead(1, c)
                            /\ \/ Ahead(2, "=") /\ Got(s[3], <<>>, first + 3)
                               \/ ~Ahead(2, "=") /\ Got(s[2], <<>>, first + 2)
    BY <1>7, ShiftGot
  <2>2. first + 1 < size /\ (Ahead(2, "=") => first + 2 < size)
    BY <2>1 DEF Ahead, IsEnd
  <2>3. first + 2 <= Len(text) + 1 /\ (Ahead(2, "=") => first + 3 <= Len(text) + 1)
    BY <1>1, <2>2
  <2> QED
    BY <1>2, <2>1, <2>3
<1>8. CASE ReadString
  <2>1. Starts /\ c \in Starting
    BY <1>8, StringGot DEF Starting
  <2>2. first < Len(text)
    BY <1>3, <2>1
  <2>3. Closes \in Nat /\ (Closes = first + 1 \/ Closes <= size) /\ (~IsEnd(Closes) => Closes < size)
    BY <2>1, ClosesFacts DEF IsEnd
  <2>4. /\ ~(Closes - first > MaxTokString) /\ Closes <= Len(text) + 1
        /\ ~IsEnd(Closes) => Closes + 1 <= Len(text) + 1
    BY <1>1, <2>2, <2>3
  <2> QED
    BY <1>2, <1>8, <2>4, StringGot
<1>9. ASSUME NEW chars, NEW q, Starts, q = FirstFrom(first, Present \ chars)
      PROVE  q \in Nat /\ ~(q - first + 1 > MaxTokString) /\ ~(q - first > MaxTokString) /\ q <= Len(text) + 1
  <2>1. q \in Nat /\ (q = first \/ q <= size)
    BY <1>9, EndFacts
  <2>2. MaxTokString # 0
    BY LexAssumption
  <2> QED
    BY <1>1, <2>1, <2>2
<1>10. CASE ReadWord
  <2>1. Starts
    BY <1>10, WordGot
  <2>2. ~(WordEnd - first + 1 > MaxTokString) /\ WordEnd <= Len(text) + 1
    BY <1>9, <2>1 DEF WordEnd, EndsWord
  <2> QED
    BY <1>2, <1>10, <2>2, WordGot
<1>11. CASE ReadNumber \/ EndInNumber
  <2>1. Starts
    BY <1>11, NumberGot, NumberStops
  <2>2. ~(NumberEnd - first + 1 > MaxTokString) /\ ~(NumberEnd - first > MaxTokString) /\ NumberEnd <= Len(text) + 1
    BY <1>9, <2>1 DEF NumberEnd, EndsNumber
  <2> QED
    BY <1>2, <1>11, <2>2, NumberGot, NumberStops
<1>12. CASE EndInSpace \/ EndOfText \/ InvalidChar
  <2>1. \E kind : Stops(kind, first)
    BY <1>12, SpaceStops, TextStops
  <2>2. ~Wild /\ pos' = first
    BY <1>2, <2>1
  <2> QED
    BY <1>1, <2>2
<1>13. CASE WildRead
  BY <1>1, <1>13 DEF WildRead
<1> QED
  BY <1>4, <1>5, <1>6, <1>7, <1>8, <1>10, <1>11, <1>12, <1>13 DEF NextTok

LEMMA ShelterInit == Init => ShelterInv
<1> SUFFICES ASSUME Init PROVE ShelterInv
  OBVIOUS
<1>1. pos = 0 /\ size = Len(text) /\ phase = "transform" /\ Len(text) \in Nat
  BY LexInit DEF Init, TextInit, LexInv, TextTypes
<1> QED
  BY <1>1 DEF ShelterInv

\* A replaced CRLF leaves the last byte twice.
LEMMA ShrinksShelter ==
    ASSUME LexInv, ShelterInv, phase = "transform", NEW p \in Nat, Shrinks(p), pos' = pos
    PROVE  ShelterInv'
<1>1. /\ size \in Nat /\ Len(text) \in Nat /\ Len(mem) \in Nat /\ size <= Len(text) /\ Len(text) < Len(mem)
      /\ p \in input .. size - 2 /\ input \in Nat /\ pos = 0
      /\ size' = size - 1 /\ text' = text /\ phase' = "transform" /\ Len(mem') = Len(mem)
      /\ mem'[p + 1] = LF /\ \A i \in p + 2 .. size - 1 : mem'[i] = mem[i + 1]
      /\ \A i \in 1 .. Len(mem) : i \notin p + 1 .. size - 1 => mem'[i] = mem[i]
  BY DEF LexInv, TextTypes, CursorTypes, Shrinks
<1>2. mem'[size] = mem[size]
  <2>1. size \in 1 .. Len(mem) /\ size \notin p + 1 .. size - 1
    BY <1>1
  <2> QED
    BY <1>1, <2>1
<1>3. ~(mem'[size'] = CR /\ mem'[size' + 1] = LF)
  <2>1. CASE p + 1 = size - 1
    <3>1. mem'[size'] = LF
      BY <1>1, <2>1
    <3> QED
      BY <3>1 DEF CR, LF
  <2>2. CASE p + 1 # size - 1
    <3>1. size - 1 \in p + 2 .. size - 1 /\ size - 1 + 1 = size
      BY <1>1, <2>2
    <3>2. mem'[size'] = mem[size] /\ mem'[size' + 1] = mem[size]
      BY <1>1, <1>2, <3>1
    <3> QED
      BY <3>2 DEF CR, LF
  <2> QED
    BY <2>1, <2>2
<1>4. 0 <= Len(text) + 1
  BY <1>1
<1> QED
  BY <1>1, <1>3, <1>4 DEF ShelterInv

LEMMA LoadShelters == LexInv /\ ShelterInv /\ Load => ShelterInv'
<1> SUFFICES ASSUME LexInv, ShelterInv, Load PROVE ShelterInv'
  OBVIOUS
<1>1. /\ phase = "transform" /\ pos' = pos /\ pos = 0 /\ TextTypes /\ 0 <= Len(text) + 1
      /\ size \in 1 .. Len(text) /\ size \in Nat /\ Len(text) \in Nat /\ Len(mem) \in Nat /\ input \in Nat
      /\ input <= size
  BY DEF LexInv, TextTypes, CursorTypes, Load, Transform, TransformOne, TransformDone, cursor
<1>2. CASE TransformOne
  <2>1. CASE \E p \in Nat : Shrinks(p)
    BY <1>1, <2>1, ShrinksShelter
  <2>2. CASE UNCHANGED textvars /\ CharAt(size - 1) = CR /\ CharAt(size) = LF
    <3>1. mem[size] = CR /\ mem[size + 1] = LF
      <4>1. (size - 1) + 1 = size
        BY <1>1
      <4> QED
        BY <2>2, <4>1 DEF CharAt
    <3>2. size = Len(text)
      BY <1>1, <3>1 DEF ShelterInv
    <3>3. ~Sheltered
      <4>1. Len(mem) >= Len(text) + 2 => size + 1 \in Len(text) + 1 .. Len(mem)
        BY <1>1, <3>2
      <4>2. LF # NUL
        BY DEF LF, NUL
      <4> QED
        BY <3>1, <4>1, <4>2 DEF Sheltered
    <3> QED
      BY <2>2, <3>3, ShelterStays
  <2> QED
    BY <1>1, <1>2, <2>1, <2>2, TransformOneSteps
<1>3. CASE TransformDone
  <2>1. ASSUME Sheltered PROVE ~Unstopped
    <3>1. Len(mem) \in Len(text) + 1 .. Len(mem) /\ Len(mem) - 1 \in input .. Len(mem) - 1
          /\ (Len(mem) - 1) + 1 = Len(mem)
      BY <1>1, <2>1 DEF Sheltered
    <3>2. CharAt(Len(mem) - 1) = NUL
      BY <2>1, <3>1 DEF Sheltered, CharAt
    <3> QED
      BY <3>1, <3>2 DEF Unstopped
  <2>2. UNCHANGED textvars /\ (Sheltered => phase' = "read")
    BY <1>3, <2>1 DEF TransformDone
  <2> QED
    BY <1>1, <2>2, ShelterStays
<1> QED
  BY <1>2, <1>3 DEF Load, Transform

\* A text that is shorter than tok.string and followed by NULs never leads the
\* lexer outside its memory, nor the string of a token outside its buffer.
THEOREM ShortTextsStayInside == Spec => []ShortTextStaysInside
<1>1. ASSUME LexInv, ShelterInv, [Next]_vars PROVE ShelterInv'
  <2>1. CASE Load
    BY <1>1, <2>1, LoadShelters
  <2>2. CASE NextTok
    <3>1. UNCHANGED textvars
      BY <1>1, <2>2, NextTokSteps DEF Wild, Got, Stops
    <3>2. Sheltered => phase' # "wild"
      <4>1. phase' \in {"read", "done"} \/ Wild
        BY <1>1, <2>2, NextTokSteps DEF Got, Stops, Starts, Calls
      <4> QED
        BY <1>1, <2>2, <4>1, ShelteredRead
    <3> QED
      BY <1>1, <2>2, <3>1, <3>2, ShelteredRead, ShelterStays
  <2>3. CASE UNCHANGED vars
    BY <1>1, <2>3, ShelterStays DEF vars, cursor, ShelterInv
  <2> QED
    BY <1>1, <2>1, <2>2, <2>3 DEF Next, Ended
<1>2. ShelterInv => ShortTextStaysInside
  BY DEF ShelterInv, Sheltered, ShortTextStaysInside
<1> QED
  BY <1>1, <1>2, ShelterInit, LexInvariant, PTL DEF Spec

-----------------------------------------------------------------------------
\* How one spelling can continue another.
Continues(u, t) == Len(u[2]) > Len(t[2]) /\ SubSeq(u[2], 1, Len(t[2])) = t[2]

LEMMA FrontOf ==
    ASSUME NEW S, NEW s \in Seq(S), NEW n \in 1 .. Len(s)
    PROVE  \A i \in 1 .. n : SubSeq(s, 1, n)[i] = s[i]
<1>1. Len(s) \in Nat /\ \A i \in 1 .. n : s[i] \in S
  OBVIOUS
<1>2. \A i \in 1 .. n - 1 + 1 : SubSeq(s, 1, n)[i] = s[1 + i - 1]
  BY <1>1, SubSeqProperties
<1>3. n - 1 + 1 = n /\ \A i \in 1 .. n : 1 + i - 1 = i
  BY <1>1
<1> QED
  BY <1>2, <1>3

LEMMA Lengths ==
    ASSUME NEW t \in Spelled
    PROVE  /\ Len(t[2]) \in {1, 2, 3}
           /\ Len(t[2]) = 3 => \E k, a, b, d : /\ <<k, a, b, d>> \in Threes
                                              /\ t[1] = k /\ t[2] = <<a, b, d>>
<1>1. \A a, b, d : Len(<<a>>) = 1 /\ Len(<<a, b>>) = 2 /\ Len(<<a, b, d>>) = 3
  OBVIOUS
<1>2. 1 # 3 /\ 2 # 3
  OBVIOUS
<1> QED
  BY <1>1, <1>2, SpelledForms, Zenon

LEMMA Continuations ==
    ASSUME NEW t \in Spelled, NEW u \in Spelled, Continues(u, t)
    PROVE  \/ \E a, b : <<t[1], a>> \in Ones /\ <<u[1], a, b>> \in Twos /\ u[2] = <<a, b>>
           \/ \E a, b, d : /\ <<t[1], a>> \in Ones \/ <<t[1], a, b>> \in Twos
                           /\ <<u[1], a, b, d>> \in Threes /\ u[2] = <<a, b, d>>
<1>1. CASE \E k, a : <<k, a>> \in Ones /\ t[1] = k /\ t[2] = <<a>>
  <2>1. PICK k, a : <<k, a>> \in Ones /\ t[1] = k /\ t[2] = <<a>>
    BY <1>1
  <2>2. Len(t[2]) = 1 /\ t[1] = k /\ t[2] = <<a>> /\ <<a>>[1] = a
    BY <2>1
  <2>3. CASE \E l, x, y : <<l, x, y>> \in Twos /\ u[1] = l /\ u[2] = <<x, y>>
    <3>1. PICK l, x, y : <<l, x, y>> \in Twos /\ u[1] = l /\ u[2] = <<x, y>>
      BY <2>3
    <3>2. <<x, y>> \in Seq({x, y}) /\ Len(<<x, y>>) = 2 /\ <<x, y>>[1] = x
      OBVIOUS
    <3>3. SubSeq(<<x, y>>, 1, 1)[1] = x
      BY <3>2, FrontOf
    <3>4. u[1] = l /\ u[2] = <<x, y>>
      BY <3>1
    <3>5. x = a
      BY <2>2, <3>3, <3>4 DEF Continues
    <3> QED
      BY <2>1, <2>2, <3>1, <3>4, <3>5
  <2>4. CASE \E l, x, y, z : <<l, x, y, z>> \in Threes /\ u[1] = l /\ u[2] = <<x, y, z>>
    <3>1. PICK l, x, y, z : <<l, x, y, z>> \in Threes /\ u[1] = l /\ u[2] = <<x, y, z>>
      BY <2>4
    <3>2. <<x, y, z>> \in Seq({x, y, z}) /\ Len(<<x, y, z>>) = 3 /\ <<x, y, z>>[1] = x
      OBVIOUS
    <3>3. SubSeq(<<x, y, z>>, 1, 1)[1] = x
      BY <3>2, FrontOf
    <3>4. u[1] = l /\ u[2] = <<x, y, z>>
      BY <3>1
    <3>5. x = a
      BY <2>2, <3>3, <3>4 DEF Continues
    <3> QED
      BY <2>1, <2>2, <3>1, <3>4, <3>5
  <2>5. CASE \E l, x : <<l, x>> \in Ones /\ u[1] = l /\ u[2] = <<x>>
    BY <2>2, <2>5 DEF Continues
  <2> QED
    BY <2>3, <2>4, <2>5, SpelledForms
<1>2. CASE \E k, a, b : <<k, a, b>> \in Twos /\ t[1] = k /\ t[2] = <<a, b>>
  <2>1. PICK k, a, b : <<k, a, b>> \in Twos /\ t[1] = k /\ t[2] = <<a, b>>
    BY <1>2
  <2>2. Len(t[2]) = 2 /\ t[1] = k /\ t[2] = <<a, b>> /\ <<a, b>>[1] = a /\ <<a, b>>[2] = b
    BY <2>1
  <2>3. CASE \E l, x, y, z : <<l, x, y, z>> \in Threes /\ u[1] = l /\ u[2] = <<x, y, z>>
    <3>1. PICK l, x, y, z : <<l, x, y, z>> \in Threes /\ u[1] = l /\ u[2] = <<x, y, z>>
      BY <2>3
    <3>2. /\ <<x, y, z>> \in Seq({x, y, z}) /\ Len(<<x, y, z>>) = 3
          /\ <<x, y, z>>[1] = x /\ <<x, y, z>>[2] = y
      OBVIOUS
    <3>3. SubSeq(<<x, y, z>>, 1, 2)[1] = x /\ SubSeq(<<x, y, z>>, 1, 2)[2] = y
      BY <3>2, FrontOf
    <3>4. u[1] = l /\ u[2] = <<x, y, z>>
      BY <3>1
    <3>5. x = a /\ y = b
      BY <2>2, <3>3, <3>4 DEF Continues
    <3> QED
      BY <2>1, <2>2, <3>1, <3>4, <3>5
  <2>4. CASE Len(u[2]) <= 2
    BY <2>2, <2>4 DEF Continues
  <2>5. Len(u[2]) = 3 \/ Len(u[2]) <= 2
    <3>1. \A n \in {1, 2, 3} : n = 3 \/ n <= 2
      OBVIOUS
    <3> QED
      BY <3>1, Lengths
  <2>6. CASE Len(u[2]) = 3
    BY <2>3, <2>6, Lengths
  <2> QED
    BY <2>4, <2>5, <2>6
<1>3. CASE \E k, a, b, d : <<k, a, b, d>> \in Threes /\ t[1] = k /\ t[2] = <<a, b, d>>
  <2>1. Len(t[2]) = 3
    BY <1>3
  <2>2. \A n \in {1, 2, 3} : ~(n > 3)
    OBVIOUS
  <2> QED
    BY <2>1, <2>2, Lengths DEF Continues
<1> QED
  BY <1>1, <1>2, <1>3, SpelledForms

\* The tables of read_delims against the spellings.
LEMMA SinglesAlone ==
    ASSUME NEW s \in Singles
    PROVE  /\ \A k, b : <<k, s[1], b>> \notin Twos
           /\ \A k, b, d : <<k, s[1], b, d>> \notin Threes
<1>1. \A a, j, k, b : <<a, j>> \in Brackets => <<k, a, b>> \notin Twos
  BY DEF Brackets, Twos
<1>2. \A a, j, k, b : <<a, j>> \in Marks => <<k, a, b>> \notin Twos
  BY DEF Marks, Twos
<1>3. \A a, j, k, b, d : <<a, j>> \in Brackets => <<k, a, b, d>> \notin Threes
  BY DEF Brackets, Threes
<1>4. \A a, j, k, b, d : <<a, j>> \in Marks => <<k, a, b, d>> \notin Threes
  BY DEF Marks, Threes
<1>5. PICK a, j : s = <<a, j>>
  BY PairsOfTables
<1>6. s[1] = a
  BY <1>5
<1> QED
  BY <1>1, <1>2, <1>3, <1>4, <1>5, <1>6 DEF Singles

LEMMA ThreesAreShifts ==
    \A k, a, b, d : <<k, a, b, d>> \in Threes => b = a /\ d = "=" /\ \E s \in Shifts : s[1] = a
BY DEF Threes, Shifts

LEMMA SecondOfTwos ==
    ASSUME NEW k, NEW b
    PROVE  /\ <<k, "%", b>> \in Twos => b = "="
           /\ <<k, "+", b>> \in Twos => b \in {"+", "="}
           /\ <<k, "-", b>> \in Twos => b \in {"-", "=", ">"}
           /\ <<k, "*", b>> \in Twos => b = "="
           /\ <<k, "/", b>> \in Twos => b = "="
           /\ <<k, "|", b>> \in Twos => b \in {"|", "="}
           /\ <<k, "<", b>> \in Twos => b \in {"<", "="}
           /\ <<k, ">", b>> \in Twos => b \in {">", "="}
           /\ <<k, "&", b>> \in Twos => b \in {"&", "="}
           /\ <<k, "^", b>> \in Twos => b = "="
           /\ <<k, "=", b>> \in Twos => b = "="
           /\ <<k, "!", b>> \in Twos => b = "="
BY DEF Twos

LEMMA OperatorsLookAhead ==
    ASSUME NEW o \in Operators, NEW k, NEW b, <<k, o[1], b>> \in Twos
    PROVE  (\E d \in o[3] : d[1] = b) \/ (\E s \in Shifts : s[1] = o[1] /\ s[1] = b)
<1> DEFINE Holds(D, m) == \E x : <<m, x>> \in D
<1>0. /\ \A y, D : <<"%", y, D>> \in Sums => Holds(D, "=")
      /\ \A y, D : <<"+", y, D>> \in Sums => Holds(D, "+") /\ Holds(D, "=")
      /\ \A y, D : <<"-", y, D>> \in Sums => Holds(D, "-") /\ Holds(D, "=") /\ Holds(D, ">")
      /\ \A y, D : <<"*", y, D>> \in Sums => Holds(D, "=")
      /\ \A y, D : <<"/", y, D>> \in Sums => Holds(D, "=")
      /\ \A x, y, D : <<x, y, D>> \in Sums => x \in {"%", "+", "-", "*", "/"}
  BY DEF Sums
<1>1. /\ \A y, D : <<"|", y, D>> \in Relations => Holds(D, "|") /\ Holds(D, "=")
      /\ \A y, D : <<"&", y, D>> \in Relations => Holds(D, "&") /\ Holds(D, "=")
      /\ \A x, y, D : <<x, y, D>> \in Relations =>
                          x \in {"|", "<", ">", "&", "^", "=", "!"} /\ Holds(D, "=")
  BY DEF Relations
<1>2. PICK x, y, D : o = <<x, y, D>>
  BY PairsOfTables
<1>3. (\E s \in Shifts : s[1] = "<") /\ (\E s \in Shifts : s[1] = ">")
  BY DEF Shifts
<1>4. Holds(D, b) => \E d \in o[3] : d[1] = b
  <2>1. \A z : <<b, z>>[1] = b
    OBVIOUS
  <2>2. o[3] = D
    BY <1>2
  <2> QED
    BY <2>1, <2>2
<1> HIDE DEF Holds
<1>5. o[1] = x
  BY <1>2
<1>6. ASSUME o \in Sums PROVE Holds(D, b)
  BY <1>0, <1>2, <1>5, <1>6, SecondOfTwos
<1>7. ASSUME o \in Relations PROVE Holds(D, b) \/ (x = b /\ b \in {"<", ">"})
  BY <1>1, <1>2, <1>5, <1>7, SecondOfTwos
<1> QED
  BY <1>3, <1>4, <1>5, <1>6, <1>7 DEF Operators

Combined == {"SCCT_MOD_ASSIGN", "SCCT_INC", "SCCT_ADD_ASSIGN", "SCCT_SUB_ASSIGN", "SCCT_ARROW",
             "SCCT_MUL_ASSIGN", "SCCT_DIV_ASSIGN", "SCCT_LOGICAL_OR", "SCCT_OR_ASSIGN",
             "SCCT_LESS_EQUAL", "SCCT_GREATER_EQUAL", "SCCT_LOGICAL_AND", "SCCT_AND_ASSIGN",
             "SCCT_XOR_ASSIGN", "SCCT_EQUAL", "SCCT_NOT_EQUAL"}
LEMMA KindsOfSpellings ==
    /\ \A o \in Operators : \A d \in o[3] : d[2] \in Combined
    /\ \A k \in Combined : \A a : <<k, a>> \notin Ones
    /\ \A s \in Shifts : /\ \A a : <<s[2], a>> \notin Ones /\ <<s[3], a>> \notin Ones
                         /\ \A a, b : <<s[3], a, b>> \notin Twos
<1>1. \A o \in Sums : \A d \in o[3] : d[2] \in Combined
  BY DEF Sums, Combined
<1>2. \A o \in Relations : \A d \in o[3] : d[2] \in Combined
  BY DEF Relations, Combined
<1>3. \A k, a : <<k, a>> \in Ones => k \notin Combined
  <2>1. \A k, a : <<k, a>> \in Ones =>
            k \in {"SCCT_LPAREN", "SCCT_RPAREN", "SCCT_LQPAREN", "SCCT_RQPAREN", "SCCT_LBRACE",
                  "SCCT_RBRACE", "SCCT_MOD", "SCCT_ADD", "SCCT_SUB", "SCCT_ASTERISK", "SCCT_DIV",
                  "SCCT_OR", "SCCT_LESS", "SCCT_GREATER", "SCCT_AND", "SCCT_XOR",
                  "SCCT_ASSIGNMENT", "SCCT_NOT", "SCCT_SEMICOLON", "SCCT_TILDE", "SCCT_DOT",
                  "SCCT_COMMA", "SCCT_QUESTION"}
    BY DEF Ones
  <2> QED
    BY <2>1 DEF Combined
<1>4. \A k, a : <<k, a>> \in Ones => k \notin {"SCCT_LSHIFT", "SCCT_RSHIFT", "SCCT_LSHIFT_ASSIGN",
                                             "SCCT_RSHIFT_ASSIGN"}
  BY DEF Ones
<1>5. \A k, a, b : <<k, a, b>> \in Twos => k \notin {"SCCT_LSHIFT_ASSIGN", "SCCT_RSHIFT_ASSIGN"}
  BY DEF Twos
<1>6. \A s \in Shifts : /\ s[2] \in {"SCCT_LSHIFT", "SCCT_RSHIFT"}
                        /\ s[3] \in {"SCCT_LSHIFT_ASSIGN", "SCCT_RSHIFT_ASSIGN"}
  BY DEF Shifts
<1> QED
  BY <1>1, <1>2, <1>3, <1>4, <1>5, <1>6 DEF Operators

LEMMA ShiftsAreNamed ==
    \A k, a : <<k, a, a>> \in Twos /\ (\E s \in Shifts : s[1] = a) => k \notin Combined
<1>1. \A s \in Shifts : s[1] \in {"<", ">"}
  BY DEF Shifts
<1>2. \A k, a : <<k, a, a>> \in Twos /\ a \in {"<", ">"} => k \in {"SCCT_LSHIFT", "SCCT_RSHIFT"}
  BY DEF Twos
<1>3. "SCCT_LSHIFT" \notin Combined /\ "SCCT_RSHIFT" \notin Combined
  BY DEF Combined
<1> QED
  BY <1>1, <1>2, <1>3

LEMMA SpelledKinds == \A t \in Spelled : t[1] \notin Apart
<1>1. \A k, a : <<k, a>> \in Ones => k \notin Apart
  BY DEF Ones, Apart
<1>2. \A k, a, b : <<k, a, b>> \in Twos => k \notin Apart
  BY DEF Twos, Apart
<1>3. \A k, a, b, d : <<k, a, b, d>> \in Threes => k \notin Apart
  BY DEF Threes, Apart
<1> QED
  BY <1>1, <1>2, <1>3, SpelledForms

\* A spelling that stands in the text where a token begins.
StandsAt(u, p) == p + Len(u) <= size /\ SubSeq(mem, p + 1, p + Len(u)) = u

LEMMA TwoStand ==
    ASSUME LexInv, Starts, NEW a, NEW b, StandsAt(<<a, b>>, first)
    PROVE  c = a /\ Ahead(1, b)
<1>1. Len(<<a, b>>) = 2 /\ <<a, b>>[1] = a /\ <<a, b>>[2] = b
  OBVIOUS
<1>2. first + 2 <= size /\ SubSeq(mem, first + 1, first + 2) = <<a, b>>
  BY <1>1 DEF StandsAt
<1>3. /\ first \in Nat /\ size \in Nat /\ size < Len(mem) /\ Len(mem) \in Nat /\ mem \in Seq(Characters)
  BY StartFacts DEF LexInv, TextTypes
<1> DEFINE m == first + 1
           n == first + 2
<1>4. m \in Int /\ n \in Int /\ (\A i \in m .. n : mem[i] \in Characters) /\ n - m + 1 = 2
      /\ m + 1 - 1 = first + 1 /\ m + 2 - 1 = first + 1 + 1 /\ ~IsEnd(first + 1)
  BY <1>2, <1>3 DEF IsEnd
<1> HIDE DEF m, n
<1>5. \A i \in 1 .. n - m + 1 : SubSeq(mem, m, n)[i] = mem[m + i - 1]
  BY <1>4, SubSeqProperties
<1>6. 1 \in 1 .. n - m + 1 /\ 2 \in 1 .. n - m + 1
  BY <1>4
<1>7. mem[first + 1] = a /\ mem[first + 1 + 1] = b
  BY <1>1, <1>2, <1>4, <1>5, <1>6 DEF m, n
<1> QED
  BY <1>4, <1>7 DEF c, Ahead, CharAt

LEMMA ThreeStand ==
    ASSUME LexInv, Starts, NEW a, NEW b, NEW d, StandsAt(<<a, b, d>>, first)
    PROVE  c = a /\ Ahead(1, b) /\ Ahead(2, d)
<1>1. Len(<<a, b, d>>) = 3 /\ <<a, b, d>>[1] = a /\ <<a, b, d>>[2] = b /\ <<a, b, d>>[3] = d
  OBVIOUS
<1>2. first + 3 <= size /\ SubSeq(mem, first + 1, first + 3) = <<a, b, d>>
  BY <1>1 DEF StandsAt
<1>3. /\ first \in Nat /\ size \in Nat /\ size < Len(mem) /\ Len(mem) \in Nat /\ mem \in Seq(Characters)
  BY StartFacts DEF LexInv, TextTypes
<1> DEFINE m == first + 1
           n == first + 3
<1>4. m \in Int /\ n \in Int /\ (\A i \in m .. n : mem[i] \in Characters) /\ n - m + 1 = 3
      /\ m + 1 - 1 = first + 1 /\ m + 2 - 1 = first + 1 + 1 /\ m + 3 - 1 = first + 2 + 1
      /\ ~IsEnd(first + 1) /\ ~IsEnd(first + 2)
  BY <1>2, <1>3 DEF IsEnd
<1> HIDE DEF m, n
<1>5. \A i \in 1 .. n - m + 1 : SubSeq(mem, m, n)[i] = mem[m + i - 1]
  BY <1>4, SubSeqProperties
<1>6. 1 \in 1 .. n - m + 1 /\ 2 \in 1 .. n - m + 1 /\ 3 \in 1 .. n - m + 1
  BY <1>4
<1>7. mem[first + 1] = a /\ mem[first + 1 + 1] = b /\ mem[first + 2 + 1] = d
  BY <1>1, <1>2, <1>4, <1>5, <1>6 DEF m, n
<1> QED
  BY <1>4, <1>7 DEF c, Ahead, CharAt

\* A kind of read_delims is never that of a spelling the text continues.
LEMMA NoLongerSpelling ==
    ASSUME LexInv, NextTok, Starts, ~Wild, build' = "running",
           NEW t \in Spelled, NEW u \in Spelled, t[1] = tok'.kind, Continues(u, t),
           StandsAt(u[2], first)
    PROVE  FALSE
<1>1. \A kind, string, q : Got(kind, string, q) => tok'.kind = kind
  BY DEF Got, Token
<1>2. \/ \E a, b : /\ <<t[1], a>> \in Ones /\ <<u[1], a, b>> \in Twos
                   /\ c = a /\ Ahead(1, b)
      \/ \E a, b, d : /\ <<t[1], a>> \in Ones \/ <<t[1], a, b>> \in Twos
                      /\ <<u[1], a, b, d>> \in Threes /\ c = a /\ Ahead(1, b) /\ Ahead(2, d)
  <2>1. CASE \E a, b : <<t[1], a>> \in Ones /\ <<u[1], a, b>> \in Twos /\ u[2] = <<a, b>>
    BY <2>1, TwoStand
  <2>2. CASE \E a, b, d : /\ <<t[1], a>> \in Ones \/ <<t[1], a, b>> \in Twos
                          /\ <<u[1], a, b, d>> \in Threes /\ u[2] = <<a, b, d>>
    BY <2>2, ThreeStand
  <2> QED
    BY <2>1, <2>2, Continuations
<1>3. t[1] \notin Apart
  BY SpelledKinds
<1>4. CASE ReadSingle
  <2>1. \E s \in Singles : c = s[1]
    BY <1>4, SingleGot
  <2> QED
    BY <1>2, <2>1, SinglesAlone
<1>5. CASE ReadOperator
  <2>1. PICK o \in Operators : /\ c = o[1] /\ \A d \in o[3] : ~Ahead(1, d[1])
                               /\ \A s \in Shifts : c = s[1] => ~Ahead(1, c)
    BY <1>5, OperatorGot
  <2>2. CASE \E a, b : <<u[1], a, b>> \in Twos /\ c = a /\ Ahead(1, b)
    <3>1. PICK b : <<u[1], o[1], b>> \in Twos /\ Ahead(1, b)
      BY <2>1, <2>2
    <3> QED
      BY <2>1, <3>1, OperatorsLookAhead
  <2>3. CASE \E a, b, d : <<u[1], a, b, d>> \in Threes /\ c = a /\ Ahead(1, b)
    BY <2>1, <2>3, ThreesAreShifts
  <2> QED
    BY <1>2, <2>2, <2>3
<1>6. CASE ReadDouble
  <2>1. t[1] \in Combined
    <3>1. \E o \in Operators : \E d \in o[3] : Got(d[2], <<>>, first + 2)
      BY <1>6, DoubleGot
    <3> QED
      BY <1>1, <3>1, KindsOfSpellings
  <2>2. \A a : <<t[1], a>> \notin Ones
    BY <2>1, KindsOfSpellings
  <2>3. PICK a, b, d : <<t[1], a, b>> \in Twos /\ <<u[1], a, b, d>> \in Threes
    BY <1>2, <2>2
  <2> QED
    BY <2>1, <2>3, ThreesAreShifts, ShiftsAreNamed
<1>7. CASE ReadShift
  <2>1. PICK s \in Shifts :
            \/ Ahead(2, "=") /\ Got(s[3], <<>>, first + 3)
            \/ ~Ahead(2, "=") /\ Got(s[2], <<>>, first + 2)
    BY <1>7, ShiftGot
  <2>2. t[1] \in {s[2], s[3]}
    BY <1>1, <2>1
  <2>3. PICK a, b, d : <<t[1], a, b>> \in Twos /\ <<u[1], a, b, d>> \in Threes /\ Ahead(2, d)
    BY <1>2, <2>2, KindsOfSpellings
  <2>4. Ahead(2, "=")
    BY <2>3, ThreesAreShifts
  <2>5. t[1] = s[3]
    BY <1>1, <2>1, <2>4
  <2> QED
    BY <2>3, <2>5, KindsOfSpellings
<1>8. CASE ReadString
  BY <1>1, <1>3, <1>8, StringGot DEF Apart
<1>9. CASE ReadWord
  BY <1>1, <1>3, <1>9, WordGot DEF Apart, KeywordOf
<1>10. CASE ReadNumber
  BY <1>1, <1>3, <1>10, NumberGot DEF Apart
<1>11. CASE EndInSpace \/ EndInNumber \/ EndOfText \/ InvalidChar
  BY <1>11, SpaceStops, NumberStops, TextStops DEF Stops
<1>12. CASE WildRead
  BY <1>12 DEF WildRead, Starts, Calls
<1> QED
  BY <1>4, <1>5, <1>6, <1>7, <1>8, <1>9, <1>10, <1>11, <1>12 DEF NextTok

\* A word or a number ends where the text has no more of it.
LEMMA WordsEnd ==
    ASSUME LexInv, NextTok, ~Wild, build' = "running",
           tok'.kind \in {"SCCT_KEYWORD", "SCCT_IDENT", "SCCT_INUM"},
           NEW q, q = tok'.start + Len(tok'.string), q < size
    PROVE  CharAt(q) \notin IF tok'.kind = "SCCT_INUM" THEN Digits ELSE Letters \cup Digits
<1>1. \A kind, string, p : Got(kind, string, p) =>
          tok'.kind = kind /\ tok'.string = string /\ tok'.start = first
  BY DEF Got, Token
<1>2. CASE ReadSingle
  BY <1>1, <1>2, SingleGot, KindsOfTables DEF Apart
<1>3. CASE ReadOperator
  BY <1>1, <1>3, OperatorGot, KindsOfTables DEF Apart
<1>4. CASE ReadDouble
  BY <1>1, <1>4, DoubleGot, KindsOfTables DEF Apart
<1>5. CASE ReadShift
  BY <1>1, <1>5, ShiftGot, KindsOfTables DEF Apart
<1>6. CASE ReadString
  BY <1>1, <1>6, StringGot
<1>7. CASE ReadWord
  <2>1. Starts /\ Got(KeywordOf(Bytes(first, WordEnd)), Bytes(first, WordEnd), WordEnd)
    BY <1>7, WordGot
  <2>2. /\ Len(Bytes(first, WordEnd)) = WordEnd - first /\ first \in Nat /\ WordEnd \in Nat
        /\ ~IsEnd(WordEnd) => CharAt(WordEnd) \notin WordChars
    BY <2>1, EndFacts, StartFacts DEF WordEnd, EndsWord
  <2>3. q = first + (WordEnd - first) /\ tok'.kind # "SCCT_INUM"
    BY <1>1, <2>1, <2>2 DEF KeywordOf
  <2>4. q = WordEnd /\ ~IsEnd(q)
    BY <2>2, <2>3 DEF IsEnd
  <2> QED
    BY <2>2, <2>3, <2>4 DEF WordChars
<1>8. CASE ReadNumber
  <2>1. Starts /\ Got("SCCT_INUM", Bytes(first, NumberEnd), NumberEnd) /\ CharAt(NumberEnd) \notin Digits
    BY <1>8, NumberGot
  <2>2. Len(Bytes(first, NumberEnd)) = NumberEnd - first /\ first \in Nat /\ NumberEnd \in Nat
    BY <2>1, EndFacts, StartFacts DEF NumberEnd, EndsNumber
  <2>3. q = first + (NumberEnd - first) /\ tok'.kind = "SCCT_INUM"
    BY <1>1, <2>1, <2>2
  <2>4. q = NumberEnd
    BY <2>2, <2>3
  <2> QED
    BY <2>1, <2>3, <2>4
<1>9. CASE EndInSpace \/ EndInNumber \/ EndOfText \/ InvalidChar
  BY <1>9, SpaceStops, NumberStops, TextStops DEF Stops
<1>10. CASE WildRead
  BY <1>10 DEF WildRead, Wild
<1> QED
  BY <1>2, <1>3, <1>4, <1>5, <1>6, <1>7, <1>8, <1>9, <1>10 DEF NextTok

\* Every token the lexer gives is the longest that begins there: no word and no
\* number goes on behind it, and no longer spelling of an operator stands there.
THEOREM TokensAreMaximal == Spec => []MaximalMunch
<1> DEFINE NoSpelling == \A t, u \in Spelled :
               t[1] = tok.kind /\ Continues(u, t) => ~StandsAt(u[2], tok.start)
           NoWord == tok.kind \in {"SCCT_KEYWORD", "SCCT_IDENT", "SCCT_INUM"} =>
               \A q : q = tok.start + Len(tok.string) /\ q < size =>
                   CharAt(q) \notin IF tok.kind = "SCCT_INUM" THEN Digits ELSE Letters \cup Digits
           Munch == build = "running" => NoWord /\ NoSpelling
<1>1. tok.kind = "SCCT_UNKNOWN" => Munch
  BY SpelledKinds DEF Apart
<1>2. Init => Munch
  BY <1>1 DEF Init
<1>3. ASSUME LexInv, Munch, [Next]_vars PROVE Munch'
  <2>1. CASE UNCHANGED <<mem, size, tok, build>>
    BY <1>3, <2>1 DEF StandsAt, Continues, CharAt
  <2>2. CASE Load
    <3>1. tok'.kind = "SCCT_UNKNOWN"
      BY <1>3, <2>2 DEF LexInv, CursorTypes, Load, Transform, TransformOne, TransformDone
    <3> QED
      BY <3>1, SpelledKinds DEF Apart
  <2>3. CASE NextTok /\ ~Wild /\ build' = "running"
    <3>1. PICK kind, string : \E q \in Nat : Got(kind, string, q)
      BY <1>3, <2>3, NextTokSteps DEF Stops
    <3>2. Starts /\ tok'.start = first /\ mem' = mem /\ size' = size
      BY <3>1 DEF Got, Token, textvars
    <3>3. NoWord'
      BY <1>3, <2>3, <3>2, WordsEnd DEF CharAt
    <3>4. NoSpelling'
      BY <1>3, <2>3, <3>2, NoLongerSpelling DEF StandsAt, Continues
    <3> QED
      BY <3>3, <3>4
  <2>4. CASE Wild
    BY <2>1, <2>4 DEF Wild, textvars
  <2>5. CASE build' # "running"
    BY <2>5
  <2>6. CASE UNCHANGED vars
    BY <2>1, <2>6 DEF vars, textvars
  <2> QED
    BY <1>3, <2>2, <2>3, <2>4, <2>5, <2>6 DEF Next, Ended
<1>4. LexInv /\ Munch => MaximalMunch
  <2> SUFFICES ASSUME LexInv, Munch, build = "running", tok.start < size
               PROVE  /\ NoWord
                      /\ \A t, u \in Spelled :
                            t[1] = tok.kind /\ Len(u[2]) > Len(t[2]) /\ SubSeq(u[2], 1, Len(t[2])) = t[2]
                               => \/ tok.start + Len(u[2]) > size
                                  \/ SubSeq(mem, tok.start + 1, tok.start + Len(u[2])) # u[2]
    BY DEF MaximalMunch
  <2>1. \A u \in Spelled : tok.start + Len(u[2]) > size \/ tok.start + Len(u[2]) <= size
    <3>1. tok.start \in Nat /\ size \in Nat
      BY DEF LexInv, TextTypes, CursorTypes
    <3>2. \A n \in {1, 2, 3} : tok.start + n > size \/ tok.start + n <= size
      BY <3>1
    <3> QED
      BY <3>2, Lengths
  <2> QED
    BY <2>1 DEF StandsAt, Continues
<1> QED
  BY <1>2, <1>3, <1>4, LexInvariant, PTL DEF Spec
=============================================================================

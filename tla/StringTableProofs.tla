------------------------- MODULE StringTableProofs -------------------------
(***************************************************************************)
(* What strtbl keeps whatever strings it is given, however often realloc   *)
(* fails, push_back throws and release is called.                          *)
(***************************************************************************)
EXTENDS StringTable, SequenceTheorems, TLAPS

\* Every layout starts at 0, where the buffer, if there is one, has one of the
\* strings that were given.
LayoutInv ==
    /\ added \in Seq(Strings)
    /\ \A i \in 1 .. Len(m_strings) : m_strings[i] = start_offset
    /\ m_pbuffer # NoBuffer =>
           \E s \in given : ReadAt(start_offset, s)

TableInv == TypeOK /\ LayoutInv /\ AcceptedFits /\ BlocksAccounted

\* A buffer that has grown for a string holds it, from its start on.
LEMMA CopiedReads ==
    ASSUME NEW s \in Strings, m_pbuffer # NoBuffer => m_pbuffer \in Seq(STRING)
    PROVE  /\ Len(s) \in Nat /\ Length(s) \in Nat /\ Room(s) \in Nat
           /\ Length(s) = Len(s) + 1 /\ Room(s) = 3 * Length(s)
           /\ Copied(s) \in Seq(STRING) /\ Copied(s) # NoBuffer
           /\ Len(Copied(s)) = Room(s)
           /\ \A i \in 1 .. Len(s) : Copied(s)[start_offset + i] = s[i]
           /\ Copied(s)[start_offset + Length(s)] = NUL
<1>1. /\ Len(s) \in Nat /\ Length(s) \in Nat /\ Room(s) \in Nat
      /\ Length(s) = Len(s) + 1 /\ Room(s) = 3 * Length(s)
      /\ \A i \in 1 .. Len(s) : s[i] \in STRING
  BY StringAssumption DEF Length, Room, Needed, start_offset
<1>2. \A i \in 1 .. Room(s) : Old(i) \in STRING
  <2> SUFFICES ASSUME NEW i \in 1 .. Room(s) PROVE Old(i) \in STRING
    OBVIOUS
  <2>1. CASE m_pbuffer # NoBuffer /\ i <= Len(m_pbuffer)
    <3>1. m_pbuffer \in Seq(STRING) /\ i \in 1 .. Len(m_pbuffer)
      BY <2>1
    <3> QED
      BY <2>1, <3>1 DEF Old
  <2>2. CASE ~(m_pbuffer # NoBuffer /\ i <= Len(m_pbuffer))
    BY <2>2, StringAssumption DEF Old
  <2> QED
    BY <2>1, <2>2
<1> DEFINE c(i) == CASE i <= Len(s) -> s[i] [] i = Length(s) -> NUL [] OTHER -> Old(i)
<1>3. \A i \in 1 .. Room(s) : c(i) \in STRING
  BY <1>1, <1>2, StringAssumption
<1>4. \A i \in 1 .. Len(s) : i \in 1 .. Room(s) /\ c(i) = s[i]
  BY <1>1
<1>5. Length(s) \in 1 .. Room(s) /\ c(Length(s)) = NUL
  BY <1>1
<1>6. Copied(s) = [i \in 1 .. Room(s) |-> c(i)]
  BY DEF Copied
<1> HIDE DEF c
<1>7. Copied(s) \in Seq(STRING) /\ Len(Copied(s)) = Room(s)
  BY <1>1, <1>3, <1>6
<1>8. Copied(s) # NoBuffer
  BY <1>7, StringAssumption
<1> QED
  BY <1>1, <1>4, <1>5, <1>6, <1>7, <1>8 DEF start_offset

\* The histories after a string was accepted.
LEMMA AcceptedKeeps ==
    ASSUME NEW s \in Strings, TypeOK, LayoutInv, Accept(s)
    PROVE  /\ m_strings' \in Seq(Nat) /\ added' \in Seq(Strings)
           /\ Len(m_strings') = Len(added') /\ Len(added') = Len(added) + 1
           /\ Len(added') \in 1 .. Len(added') /\ added'[Len(added')] = s
           /\ \A i \in 1 .. Len(m_strings') : m_strings'[i] = start_offset
           /\ \A i \in 1 .. Len(added) : i \in 1 .. Len(added') /\ added'[i] = added[i]
           /\ \A i \in 1 .. Len(added') : i # Len(added') => i \in 1 .. Len(added)
<1>1. m_strings \in Seq(Nat) /\ added \in Seq(Strings) /\ Len(m_strings) = Len(added)
  BY DEF TypeOK, LayoutInv
<1>2. start_offset \in Nat
  BY DEF start_offset
<1>3. /\ m_strings' \in Seq(Nat) /\ Len(m_strings') = Len(m_strings) + 1
      /\ m_strings'[Len(m_strings')] = start_offset
      /\ \A i \in 1 .. Len(m_strings) : m_strings'[i] = m_strings[i]
      /\ \A i \in 1 .. Len(m_strings') : i # Len(m_strings') => i \in 1 .. Len(m_strings)
  BY <1>1, <1>2, AppendProperties DEF Accept
<1>4. /\ added' \in Seq(Strings) /\ Len(added') = Len(added) + 1 /\ added'[Len(added')] = s
      /\ \A i \in 1 .. Len(added) : added'[i] = added[i]
      /\ \A i \in 1 .. Len(added') : i # Len(added') => i \in 1 .. Len(added)
  BY <1>1, AppendProperties DEF Accept
<1>5. \A i \in 1 .. Len(m_strings') : m_strings'[i] = start_offset
  BY <1>3 DEF LayoutInv
<1> QED
  BY <1>1, <1>3, <1>4, <1>5

LEMMA TableInit == Init => TableInv
BY DEF Init, TableInv, TypeOK, LayoutInv, AcceptedFits, BlocksAccounted

\* A growth, whether or not the layout of its string follows.
LEMMA GrowKeeps ==
    ASSUME NEW s \in Strings, TableInv, Grow(s)
    PROVE  /\ Length(s) \in Nat /\ Length(s) <= m_nbuf_size' /\ m_nbuf_size \in Nat
           /\ m_nbuf_size <= Length(s) /\ m_nbuf_size' \in Nat /\ blocks' \in Nat
           /\ m_pbuffer' \in Seq(STRING) /\ Len(m_pbuffer') = m_nbuf_size'
           /\ ReadAt(start_offset, s)' /\ BlocksAccounted'
<1> USE DEF TableInv
<1>1. m_nbuf_size' = Room(s) /\ m_pbuffer' = Copied(s) /\ lost' = lost /\ Grows(s)
  BY DEF Grow
<1>2. /\ Len(s) \in Nat /\ Length(s) \in Nat /\ Room(s) \in Nat
      /\ Length(s) = Len(s) + 1 /\ Room(s) = 3 * Length(s)
      /\ Copied(s) \in Seq(STRING) /\ Copied(s) # NoBuffer /\ Len(Copied(s)) = Room(s)
      /\ \A i \in 1 .. Len(s) : Copied(s)[start_offset + i] = s[i]
      /\ Copied(s)[start_offset + Length(s)] = NUL
  BY CopiedReads DEF TypeOK
<1>3. BlocksAccounted' /\ blocks' \in Nat
  <2>1. blocks' = IF m_pbuffer = NoBuffer THEN blocks + 1 ELSE blocks
    BY DEF Grow
  <2> QED
    BY <1>1, <1>2, <2>1 DEF BlocksAccounted, TypeOK
<1>4. m_nbuf_size <= Length(s) /\ m_nbuf_size \in Nat
  BY <1>1, <1>2 DEF Grows, Needed, start_offset, TypeOK
<1>5. ReadAt(start_offset, s)'
  BY <1>1, <1>2 DEF ReadAt, Length, start_offset
<1> QED
  BY <1>1, <1>2, <1>3, <1>4, <1>5

\* What was accepted before fits into a buffer that has grown.
LEMMA OldStillFit ==
    ASSUME TableInv, m_nbuf_size' \in Nat, m_nbuf_size <= m_nbuf_size'
    PROVE  \A i \in 1 .. Len(added) : /\ m_strings[i] = 0 /\ Length(added[i]) \in Nat
                                      /\ Length(added[i]) <= m_nbuf_size'
<1> SUFFICES ASSUME NEW i \in 1 .. Len(added)
             PROVE  /\ m_strings[i] = 0 /\ Length(added[i]) \in Nat
                    /\ Length(added[i]) <= m_nbuf_size'
  OBVIOUS
<1>1. m_strings[i] = 0
  BY DEF TableInv, TypeOK, LayoutInv, start_offset
<1>2. Length(added[i]) \in Nat
  <2>1. added[i] \in Strings
    BY DEF TableInv, LayoutInv
  <2> QED
    BY <2>1, StringAssumption DEF Length
<1>3. m_strings[i] + Length(added[i]) <= m_nbuf_size
  BY DEF TableInv, AcceptedFits
<1> QED
  BY <1>1, <1>2, <1>3 DEF TableInv, TypeOK

LEMMA TableGrows ==
    ASSUME NEW s \in Strings, TableInv, AddCopied(s), given' = given \cup {s} PROVE TableInv'
<1> USE DEF TableInv
<1>1. Accept(s) /\ Grow(s) /\ lost' = lost
  BY DEF AddCopied, Grow
<1>2. TypeOK' /\ BlocksAccounted'
  BY <1>1, GrowKeeps, AcceptedKeeps DEF TypeOK
<1>3. LayoutInv'
  <2>1. s \in given' /\ ReadAt(start_offset, s)'
    BY <1>1, GrowKeeps
  <2> QED
    BY <1>1, <2>1, AcceptedKeeps DEF LayoutInv, start_offset
<1>4. AcceptedFits'
  <2> SUFFICES ASSUME NEW i \in 1 .. Len(added')
               PROVE  m_strings'[i] + Length(added'[i]) <= m_nbuf_size'
    BY DEF AcceptedFits, Length
  <2>1. m_strings'[i] = 0
    BY <1>1, AcceptedKeeps DEF start_offset
  <2>2. CASE i = Len(added')
    BY <1>1, <2>1, <2>2, AcceptedKeeps, GrowKeeps
  <2>3. CASE i # Len(added')
    <3>1. i \in 1 .. Len(added) /\ added'[i] = added[i]
      BY <1>1, <2>3, AcceptedKeeps
    <3>2. Length(added[i]) \in Nat /\ Length(added[i]) <= m_nbuf_size'
      BY <1>1, <3>1, GrowKeeps, OldStillFit
    <3> QED
      BY <2>1, <3>1, <3>2
  <2> QED
    BY <2>2, <2>3
<1> QED
  BY <1>2, <1>3, <1>4

LEMMA TableGrowsOnly ==
    ASSUME NEW s \in Strings, TableInv, AddCopiedThrows(s), given' = given \cup {s}
    PROVE  TableInv'
<1> USE DEF TableInv
<1>1. Grow(s) /\ lost' = lost /\ m_strings' = m_strings /\ added' = added
  BY DEF AddCopiedThrows, Grow, LayoutThrows
<1>2. TypeOK' /\ BlocksAccounted'
  BY <1>1, GrowKeeps DEF TypeOK
<1>3. LayoutInv'
  <2>1. s \in given' /\ ReadAt(start_offset, s)'
    BY <1>1, GrowKeeps
  <2> QED
    BY <1>1, <2>1 DEF LayoutInv, start_offset
<1>4. AcceptedFits'
  BY <1>1, GrowKeeps, OldStillFit DEF AcceptedFits, Length
<1> QED
  BY <1>2, <1>3, <1>4

LEMMA TableFails ==
    ASSUME NEW s \in Strings, TableInv, AddFails(s), given' = given \cup {s} PROVE TableInv'
<1> USE DEF TableInv
<1>1. /\ m_nbuf_size' = Room(s) /\ m_pbuffer' = NoBuffer /\ Grows(s)
      /\ m_strings' = m_strings /\ added' = added /\ blocks' = blocks
  BY DEF AddFails
<1>2. /\ Length(s) \in Nat /\ Room(s) \in Nat /\ Room(s) = 3 * Length(s)
      /\ m_nbuf_size \in Nat /\ m_nbuf_size <= Length(s)
  <2>1. Length(s) \in Nat
    BY StringAssumption DEF Length
  <2> QED
    BY <1>1, <2>1 DEF Room, Needed, start_offset, Grows, TypeOK
<1>3. BlocksAccounted' /\ TypeOK'
  <2>1. lost' = IF m_pbuffer = NoBuffer THEN lost ELSE lost + 1
    BY DEF AddFails
  <2> QED
    BY <1>1, <1>2, <2>1 DEF BlocksAccounted, TypeOK
<1>4. LayoutInv'
  BY <1>1 DEF LayoutInv, start_offset
<1>5. AcceptedFits'
  BY <1>1, <1>2, OldStillFit DEF AcceptedFits, Length
<1> QED
  BY <1>3, <1>4, <1>5

LEMMA TableStays ==
    ASSUME NEW s \in Strings, TableInv, AddUncopied(s), given' = given \cup {s} PROVE TableInv'
<1> USE DEF TableInv
<1>1. /\ Accept(s) /\ ~Grows(s) /\ m_pbuffer' = m_pbuffer /\ m_nbuf_size' = m_nbuf_size
      /\ blocks' = blocks /\ lost' = lost
  BY DEF AddUncopied, Stay
<1>2. BlocksAccounted' /\ TypeOK'
  BY <1>1, AcceptedKeeps DEF BlocksAccounted, TypeOK
<1>3. LayoutInv'
  <2>1. ASSUME m_pbuffer # NoBuffer PROVE \E g \in given' : ReadAt(start_offset, g)'
    <3>1. PICK g \in given : ReadAt(start_offset, g)
      BY <2>1 DEF LayoutInv
    <3>2. g \in given'
      OBVIOUS
    <3> QED
      BY <1>1, <3>1, <3>2 DEF ReadAt, start_offset, Length
  <2> QED
    BY <1>1, <2>1, AcceptedKeeps DEF LayoutInv, start_offset
<1>4. AcceptedFits'
  <2> SUFFICES ASSUME NEW i \in 1 .. Len(added')
               PROVE  m_strings'[i] + Length(added'[i]) <= m_nbuf_size
    BY <1>1 DEF AcceptedFits, Length
  <2>1. m_strings'[i] = 0
    BY <1>1, AcceptedKeeps DEF start_offset
  <2>2. CASE i = Len(added')
    <3>1. added'[i] = s /\ Length(s) \in Nat
      BY <1>1, <2>2, AcceptedKeeps, StringAssumption DEF Length
    <3> QED
      BY <1>1, <2>1, <3>1 DEF Grows, Needed, start_offset, TypeOK
  <2>3. CASE i # Len(added')
    <3>1. i \in 1 .. Len(added) /\ added'[i] = added[i]
      BY <1>1, <2>3, AcceptedKeeps
    <3>2. m_strings[i] = 0
      BY <3>1 DEF LayoutInv, TypeOK, start_offset
    <3> QED
      BY <2>1, <3>1, <3>2 DEF AcceptedFits
  <2> QED
    BY <2>2, <2>3
<1> QED
  BY <1>2, <1>3, <1>4

LEMMA TableRefuses ==
    ASSUME NEW s \in Strings, TableInv, AddUncopiedThrows(s), given' = given \cup {s}
    PROVE  TableInv'
<1>1. UNCHANGED <<m_pbuffer, m_nbuf_size, m_strings, added, blocks, lost>>
  BY DEF AddUncopiedThrows, Stay, LayoutThrows
<1>2. TypeOK' /\ AcceptedFits' /\ BlocksAccounted'
  BY <1>1 DEF TableInv, TypeOK, AcceptedFits, Length, BlocksAccounted
<1>3. LayoutInv'
  BY <1>1 DEF TableInv, LayoutInv, ReadAt, Length, start_offset
<1> QED
  BY <1>2, <1>3 DEF TableInv

LEMMA TableReleased == ASSUME TableInv, release PROVE TableInv'
<1> USE DEF TableInv
<1>1. /\ m_pbuffer # NoBuffer /\ m_pbuffer' = NoBuffer /\ blocks' = blocks - 1
      /\ m_nbuf_size' = m_nbuf_size /\ m_strings' = m_strings /\ added' = added /\ lost' = lost
      /\ given' = given
  BY DEF release
<1>2. BlocksAccounted' /\ TypeOK'
  BY <1>1 DEF BlocksAccounted, TypeOK
<1>3. LayoutInv' /\ AcceptedFits'
  BY <1>1 DEF LayoutInv, AcceptedFits, Length, start_offset
<1> QED
  BY <1>2, <1>3

LEMMA TableStep == TableInv /\ [Next]_vars => TableInv'
<1> SUFFICES ASSUME TableInv, [Next]_vars PROVE TableInv'
  OBVIOUS
<1>1. CASE \E s \in Strings : add_string(s)
  BY <1>1, TableGrows, TableGrowsOnly, TableFails, TableStays, TableRefuses DEF add_string
<1>2. CASE release
  BY <1>2, TableReleased
<1>3. CASE UNCHANGED vars
  BY <1>3 DEF TableInv, TypeOK, LayoutInv, AcceptedFits, BlocksAccounted, ReadAt, Length,
              start_offset, vars
<1> QED
  BY <1>1, <1>2, <1>3 DEF Next

LEMMA TableAlways == Spec => []TableInv
BY TableInit, TableStep, PTL DEF Spec

\* The size strtbl keeps is that of its buffer, and each layout is that of one
\* accepted string.
THEOREM TypeCorrect == Spec => []TypeOK
BY TableAlways, PTL DEF TableInv

\* Reads at the offsets add_string has given stay inside the buffer and find a
\* string it was called with, whole, whichever allocation failed.
THEOREM ReadsFindGiven == Spec => []ReadsAreGiven
<1>1. TableInv => ReadsAreGiven
  BY DEF TableInv, LayoutInv, ReadsAreGiven
<1> QED
  BY <1>1, TableAlways, PTL

\* A buffer of the size get_size gives has room for every accepted string.
THEOREM AcceptedStringsFit == Spec => []AcceptedFits
BY TableAlways, PTL DEF TableInv

\* A buffer is owned, was freed once, or was lost by a failed realloc.
THEOREM NoDoubleFree == Spec => []BlocksAccounted
BY TableAlways, PTL DEF TableInv
=============================================================================

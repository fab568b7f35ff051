----------------------------- MODULE StringTable -----------------------------
(***************************************************************************)
(* strtbl: strings in one buffer that realloc lets grow, and their layouts.*)
(* m_strinf, which is to say where the next string starts, is written only *)
(* from itself: every string starts at 0, and is copied there only when    *)
(* the buffer has to grow.                                                 *)
(***************************************************************************)
EXTENDS Integers, Sequences

CONSTANTS Strings,    \* sequences of characters
          NUL,        \* the character behind a string
          Unwritten,  \* what realloc leaves in new bytes
          NoBuffer,   \* nullptr
          MaxStrings, MaxLost   \* bounds of the histories

ASSUME StringAssumption ==
    /\ Strings \subseteq Seq(STRING) /\ NUL \in STRING /\ Unwritten \in STRING
    /\ NoBuffer \notin Seq(STRING) /\ NUL # Unwritten
    /\ \A s \in Strings : \A i \in 1 .. Len(s) : s[i] \notin {NUL, Unwritten}

VARIABLES m_pbuffer,   \* the bytes of the buffer, or NoBuffer
          m_nbuf_size,
          m_strings,   \* the start offsets of the layouts
          added,       \* history: the strings that were accepted, by layout
          given,       \* history: the strings add_string was called with
          blocks,      \* buffers allocated and not freed
          lost         \* history: buffers a failed realloc left without a pointer

vars == <<m_pbuffer, m_nbuf_size, m_strings, added, given, blocks, lost>>

start_offset == 0   \* m_strinf.start_offset = m_strinf.end_offset
Length(s)    == Len(s) + 1
Needed(s)    == start_offset + Length(s)
GrowsNever(s) == m_nbuf_size = 0   \* variant: grows only once
Grows(s)     == Needed(s) >= m_nbuf_size
Room(s)      == Needed(s) + 2 * Length(s)

\* realloc keeps the bytes there are, strncpy writes the string and its '\0'.
Old(i) == IF m_pbuffer # NoBuffer /\ i <= Len(m_pbuffer) THEN m_pbuffer[i] ELSE Unwritten
CopiedBare(s) == [i \in 1 .. Room(s) |->   \* variant: strlen without + 1
    IF i <= Len(s) THEN s[i] ELSE Old(i)]
Copied(s) == [i \in 1 .. Room(s) |->
    CASE i <= Len(s) -> s[i] [] i = Length(s) -> NUL [] OTHER -> Old(i)]

\* realloc gives a buffer, the string is copied, and the layout follows: or the
\* push_back of the layout throws bad_alloc, out of add_string, and takes nothing
\* of what was done before it back.
Grow(s) ==
    /\ Grows(s)
    /\ m_nbuf_size' = Room(s) /\ m_pbuffer' = Copied(s)
    /\ blocks' = IF m_pbuffer = NoBuffer THEN blocks + 1 ELSE blocks
    /\ UNCHANGED lost
Accept(s) == /\ m_strings' = Append(m_strings, start_offset)
             /\ added' = Append(added, s)
LayoutThrows == UNCHANGED <<m_strings, added>>
AddCopied(s)       == Grow(s) /\ Accept(s)
AddCopiedThrows(s) == Grow(s) /\ LayoutThrows
AddFailsKept(s) ==   \* variant: the pointer is kept, and the size is not
    /\ Grows(s)
    /\ m_nbuf_size' = Room(s)
    /\ UNCHANGED <<m_pbuffer, m_strings, added, blocks, lost>>
\* The size stays as if realloc had succeeded, and its result has replaced the
\* pointer to the old buffer, which is still allocated.
AddFails(s) ==
    /\ Grows(s)
    /\ m_nbuf_size' = Room(s) /\ m_pbuffer' = NoBuffer
    /\ lost' = IF m_pbuffer = NoBuffer THEN lost ELSE lost + 1
    /\ UNCHANGED <<m_strings, added, blocks>>
Stay(s)              == ~Grows(s) /\ UNCHANGED <<m_pbuffer, m_nbuf_size, blocks, lost>>
AddUncopied(s)       == Stay(s) /\ Accept(s)
AddUncopiedThrows(s) == Stay(s) /\ LayoutThrows
add_string(s) ==
    /\ given' = given \cup {s}
    /\ \/ AddCopied(s) \/ AddCopiedThrows(s) \/ AddFails(s)
       \/ AddUncopied(s) \/ AddUncopiedThrows(s)

ReleaseTwice ==   \* variant: the pointer stays behind free
    /\ m_pbuffer # NoBuffer /\ blocks' = blocks - 1
    /\ UNCHANGED <<m_pbuffer, m_nbuf_size, m_strings, added, given, lost>>
release ==
    /\ m_pbuffer # NoBuffer
    /\ m_pbuffer' = NoBuffer /\ blocks' = blocks - 1
    /\ UNCHANGED <<m_nbuf_size, m_strings, added, given, lost>>

Init == /\ m_pbuffer = NoBuffer /\ m_nbuf_size = 0 /\ m_strings = <<>> /\ added = <<>>
        /\ given = {} /\ blocks = 0 /\ lost = 0
Next == \/ \E s \in Strings : Len(m_strings) < MaxStrings /\ lost < MaxLost /\ add_string(s)
        \/ release
Spec == Init /\ [][Next]_vars

-----------------------------------------------------------------------------
TypeOK ==
    /\ m_pbuffer # NoBuffer => m_pbuffer \in Seq(STRING) /\ Len(m_pbuffer) = m_nbuf_size
    /\ m_nbuf_size \in Nat /\ blocks \in Nat /\ lost \in Nat
    /\ m_strings \in Seq(Nat) /\ Len(m_strings) = Len(added) /\ given \subseteq Strings

\* Whoever reads a string at an offset add_string gave, while there is a buffer,
\* finds one that add_string was called with, whole and inside the buffer.  It is
\* that of the last growth: seldom the one the offset was given for, and not even
\* one that was accepted if push_back threw behind that growth.
ReadAt(p, s) ==
    /\ p + Length(s) <= Len(m_pbuffer)
    /\ \A i \in 1 .. Len(s) : m_pbuffer[p + i] = s[i]
    /\ m_pbuffer[p + Length(s)] = NUL
ReadsAreGiven ==
    m_pbuffer # NoBuffer =>
        \A i \in 1 .. Len(m_strings) : \E s \in given : ReadAt(m_strings[i], s)

\* Every string that was accepted fits into the buffer, and would do so in one
\* of the size get_size gives where there is none.
AcceptedFits ==
    \A i \in 1 .. Len(added) : m_strings[i] + Length(added[i]) <= m_nbuf_size

\* Each buffer is owned or was lost by a failed realloc; none is freed twice.
BlocksAccounted == blocks = lost + IF m_pbuffer = NoBuffer THEN 0 ELSE 1
=============================================================================

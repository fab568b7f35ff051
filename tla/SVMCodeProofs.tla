---------------------------- MODULE SVMCodeProofs ----------------------------
(***************************************************************************)
(* The words of the machine give back every instruction packed into them,  *)
(* negative words included.                                                *)
(***************************************************************************)
EXTENDS SVMCode, TLAPS

-----------------------------------------------------------------------------
\* The fields of a word, side by side: o the opcode, m the mode, s and d the
\* registers, f the flags as they count in an int.
FieldSum(o, m, s, d, f) == o + m * 65536 + s * 262144 + d * 4194304 + f * FlagsUnit

\* Each field is read as it stands there.
LEMMA FieldsOfWord ==
    ASSUME NEW o \in Nat, NEW m \in Nat, NEW s \in Nat, NEW d \in Nat, NEW g \in Nat,
           o < 65536, m < 4, s < 16, d < 16, g < 64, NEW f \in Int, f \in {g, g - 64},
           NEW w \in Int, w = FieldSum(o, m, s, d, f)
    PROVE  /\ READ_BITS(w, 1, 65536) = o /\ READ_BITS(w, 65536, 4) = m
           /\ READ_BITS(w, 262144, 16) = s /\ READ_BITS(w, 4194304, 16) = d
           /\ READ_BITS(w, FlagsUnit, 64) = g
<1>1. /\ w \div 1 = w /\ w \div 65536 = m + 4 * s + 64 * d + 1024 * f
      /\ w \div 262144 = s + 16 * d + 256 * f
      /\ w \div 4194304 = d + 16 * f /\ w \div FlagsUnit = f
  BY SMT DEF FieldSum, FlagsUnit
<1>2. /\ w % 65536 = o /\ (m + 4 * s + 64 * d + 1024 * f) % 4 = m
      /\ (s + 16 * d + 256 * f) % 16 = s /\ (d + 16 * f) % 16 = d
      /\ f % 64 = g
  BY SMT DEF FieldSum, FlagsUnit
<1> QED
  BY <1>1, <1>2, SMT DEF READ_BITS

LEMMA ModType ==
    ASSUME NEW x \in Int, NEW n \in Nat \ {0} PROVE x % n \in Nat /\ x % n < n
BY SMT

\* The flags are the one field whose bits reach the sign of the int.
LEMMA SignedFlags ==
    ASSUME NEW g \in Nat, g < 64
    PROVE  InInt(g, FlagsUnit) \in Int /\ InInt(g, FlagsUnit) \in {g, g - 64}
BY SMT DEF InInt

LEMMA UnsignedFields ==
    ASSUME NEW b \in Nat
    PROVE  /\ InInt(b, 1) = b /\ InInt(b, 65536) = b /\ InInt(b, 262144) = b
           /\ InInt(b, 4194304) = b
BY SMT DEF InInt, FlagsUnit

\* A field written above all others is added to them.
LEMMA WriteField ==
    ASSUME NEW unit \in Nat \ {0}, NEW value \in Nat, value < unit,
           NEW data, NEW range \in Nat \ {0}, InInt(data % range, unit) \in Int
    PROVE  WRITE_BITS(value, data, unit, range) = value + InInt(data % range, unit) * unit
<1>1. value \div unit = 0 /\ 0 % range = 0
  BY SMT
<1>2. InInt(0, unit) = 0
  BY SMT DEF InInt
<1>3. READ_BITS(value, unit, range) = 0
  BY <1>1 DEF READ_BITS
<1> DEFINE x == InInt(data % range, unit)
<1>4. WRITE_BITS(value, data, unit, range) = value + (x - 0) * unit
  BY <1>2, <1>3 DEF WRITE_BITS
<1> HIDE DEF x
<1> QED
  BY <1>4, SMT DEF x

LEMMA TruncatedFields ==
    ASSUME NEW i \in SVM_instruction
    PROVE  /\ i.opcode % 65536 \in Nat /\ i.opcode % 65536 < 65536
           /\ i.mode % 4 \in Nat /\ i.mode % 4 < 4
           /\ i.rsrc % 16 \in Nat /\ i.rsrc % 16 < 16
           /\ i.rdst % 16 \in Nat /\ i.rdst % 16 < 16
           /\ i.flags % 64 \in Nat /\ i.flags % 64 < 64
<1>1. /\ i.opcode \in Int /\ i.mode \in Int /\ i.rsrc \in Int /\ i.rdst \in Int /\ i.flags \in Int
      /\ 65536 \in Nat \ {0} /\ 4 \in Nat \ {0} /\ 16 \in Nat \ {0} /\ 64 \in Nat \ {0}
  BY SMT DEF SVM_instruction
<1> QED
  BY <1>1, ModType, SMT

LEMMA WordOfFields ==
    ASSUME NEW i \in SVM_instruction
    PROVE  SVM_instr_write(i) =
               FieldSum(i.opcode % 65536, i.mode % 4, i.rsrc % 16, i.rdst % 16,
                        InInt(i.flags % 64, FlagsUnit))
<1> DEFINE o == i.opcode % 65536
           m == i.mode % 4
           s == i.rsrc % 16
           d == i.rdst % 16
           f == InInt(i.flags % 64, FlagsUnit)
           w2 == o + m * 65536
           w3 == w2 + s * 262144
           w4 == w3 + d * 4194304
<1>1. /\ o \in Nat /\ o < 65536 /\ m \in Nat /\ m < 4 /\ s \in Nat /\ s < 16
      /\ d \in Nat /\ d < 16 /\ f \in Int
  BY TruncatedFields, SignedFlags
<1>2. /\ w2 \in Nat /\ w2 < 262144 /\ w3 \in Nat /\ w3 < 4194304 /\ w4 \in Nat /\ w4 < FlagsUnit
  <2> HIDE DEF o, m, s, d
  <2> QED
    BY <1>1, SMT DEF FlagsUnit
<1>3. /\ InInt(o, 1) = o /\ InInt(m, 65536) = m /\ InInt(s, 262144) = s
      /\ InInt(d, 4194304) = d
  <2> HIDE DEF o, m, s, d
  <2> QED
    BY <1>1, UnsignedFields
<1>4. /\ 1 \in Nat \ {0} /\ 65536 \in Nat \ {0} /\ 262144 \in Nat \ {0} /\ 4194304 \in Nat \ {0}
      /\ FlagsUnit \in Nat \ {0} /\ 4 \in Nat \ {0} /\ 16 \in Nat \ {0} /\ 64 \in Nat \ {0}
      /\ 0 \in Nat /\ 0 < 1
  BY SMT DEF FlagsUnit
<1>5. WRITE_BITS(0, i.opcode, 1, 65536) = 0 + o * 1
  BY <1>1, <1>3, <1>4, WriteField, SMT
<1>6. \A v \in Nat : v < 65536 => WRITE_BITS(v, i.mode, 65536, 4) = v + m * 65536
  BY <1>1, <1>3, <1>4, WriteField, SMT
<1>7. \A v \in Nat : v < 262144 => WRITE_BITS(v, i.rsrc, 262144, 16) = v + s * 262144
  BY <1>1, <1>3, <1>4, WriteField, SMT
<1>8. \A v \in Nat : v < 4194304 => WRITE_BITS(v, i.rdst, 4194304, 16) = v + d * 4194304
  BY <1>1, <1>3, <1>4, WriteField, SMT
<1>9. \A v \in Nat : v < FlagsUnit => WRITE_BITS(v, i.flags, FlagsUnit, 64) = v + f * FlagsUnit
  BY <1>1, <1>4, WriteField, SMT
<1> HIDE DEF o, m, s, d, f
<1>10. 0 + o * 1 = o
  BY <1>1, SMT
<1>11. SVM_instr_write(i) = w4 + f * FlagsUnit
  BY <1>1, <1>2, <1>5, <1>6, <1>7, <1>8, <1>9, <1>10, SMT DEF SVM_instr_write
<1> QED
  BY <1>11, SMT DEF FieldSum, o, m, s, d, f

\* SVM_instr_fetch takes out of a word what SVM_instr_write put into it: every
\* field, cut to its bits, also where the flags reach the sign of the int.
THEOREM FetchInvertsWrite ==
    ASSUME NEW i \in SVM_instruction
    PROVE  SVM_instr_fetch(SVM_instr_write(i)) = Truncated(i)
<1> DEFINE o == i.opcode % 65536
           m == i.mode % 4
           s == i.rsrc % 16
           d == i.rdst % 16
           g == i.flags % 64
           f == InInt(g, FlagsUnit)
           w == SVM_instr_write(i)
<1>1. /\ o \in Nat /\ o < 65536 /\ m \in Nat /\ m < 4 /\ s \in Nat /\ s < 16
      /\ d \in Nat /\ d < 16 /\ g \in Nat /\ g < 64
  BY TruncatedFields
<1>2. w = FieldSum(o, m, s, d, f)
  BY WordOfFields
<1>3. SVM_instr_fetch(w) = [opcode |-> READ_BITS(w, 1, 65536), mode |-> READ_BITS(w, 65536, 4),
                            rsrc |-> READ_BITS(w, 262144, 16),
                            rdst |-> READ_BITS(w, 4194304, 16),
                            flags |-> READ_BITS(w, FlagsUnit, 64)]
  BY SMT DEF SVM_instr_fetch
<1>4. Truncated(i) = [opcode |-> o, mode |-> m, rsrc |-> s, rdst |-> d, flags |-> g]
  BY SMT DEF Truncated
<1> HIDE DEF o, m, s, d, g, w
<1>5. f \in Int /\ f \in {g, g - 64}
  BY <1>1, SignedFlags
<1> HIDE DEF f
<1>6. w \in Int
  BY <1>1, <1>2, <1>5, SMT DEF FieldSum, FlagsUnit
<1>7. /\ READ_BITS(w, 1, 65536) = o /\ READ_BITS(w, 65536, 4) = m
      /\ READ_BITS(w, 262144, 16) = s /\ READ_BITS(w, 4194304, 16) = d
      /\ READ_BITS(w, FlagsUnit, 64) = g
  BY <1>1, <1>2, <1>5, <1>6, FieldsOfWord, SMT
<1> QED
  BY <1>3, <1>4, <1>7, SMT DEF w
=============================================================================

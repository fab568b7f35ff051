----------------------------- MODULE SVMIProofs -----------------------------
(***************************************************************************)
(* What exec keeps for every program, host and size of the machine: the    *)
(* types of its state, then the stack pointer, the flags and the faults.   *)
(* StackBounds is inductive once the types are known: only PUSH, POP, CALL,*)
(* RET and the host move SP or a saved SP, because the program names SP as *)
(* no destination.                                                         *)
(***************************************************************************)
EXTENDS SVMI, SequenceTheorems, TLAPS

\* A vector used as a stack: what pop_back leaves in it.
LEMMA FrontElements ==
    ASSUME NEW S, NEW q \in Seq(S), q # <<>>
    PROVE  LET r == SubSeq(q, 1, Len(q) - 1) IN
           /\ r \in Seq(S) /\ Len(r) = Len(q) - 1
           /\ \A i \in 1 .. Len(r) : r[i] = q[i] /\ i \in 1 .. Len(q) /\ i # Len(q)
           /\ Len(q) \in 1 .. Len(q) /\ q[Len(q)] \in S
<1>1. Len(q) \in Nat /\ Len(q) >= 1
  OBVIOUS
<1>2. /\ SubSeq(q, 1, Len(q) - 1) \in Seq(S)
      /\ Len(SubSeq(q, 1, Len(q) - 1)) = Len(q) - 1
      /\ \A i \in 1 .. Len(q) - 1 : SubSeq(q, 1, Len(q) - 1)[i] = q[i]
  <2> DEFINE n == Len(q) - 1
  <2>1. n \in Nat /\ \A i \in 1 .. n : q[i] \in S
    BY <1>1
  <2> HIDE DEF n
  <2>2. /\ SubSeq(q, 1, n) \in Seq(S)
        /\ Len(SubSeq(q, 1, n)) = IF 1 <= n THEN n - 1 + 1 ELSE 0
        /\ \A i \in 1 .. n - 1 + 1 : SubSeq(q, 1, n)[i] = q[1 + i - 1]
    BY <2>1, SubSeqProperties
  <2>3. /\ Len(SubSeq(q, 1, n)) = n
        /\ \A i \in 1 .. n : SubSeq(q, 1, n)[i] = q[i]
    BY <2>1, <2>2
  <2> QED
    BY <2>2, <2>3 DEF n
<1> QED
  BY <1>1, <1>2

RegisterFile == [Slots -> Cell]

-----------------------------------------------------------------------------
\* Division by a number that is not a numeral.
LEMMA DivMod ==
    ASSUME NEW y \in Int, NEW m \in Nat \ {0}
    PROVE  y = m * (y \div m) + (y % m) /\ y % m \in 0 .. m - 1 /\ y \div m \in Int
OBVIOUS

LEMMA ProductBounds ==
    ASSUME NEW m \in Nat, NEW k \in Int
    PROVE  (k >= 2 => m * k >= 2 * m) /\ (k <= 0 => m * k <= 0)
<1>1. CASE k >= 2
  <2>1. m * k = 2 * m + m * (k - 2)
    OBVIOUS
  <2>2. \A i, j \in Nat : i * j \in Nat
    OBVIOUS
  <2>3. m * (k - 2) \in Nat
    BY <1>1, <2>2
  <2> QED
    BY <2>1, <2>3, <1>1
<1>2. CASE k <= 0
  <2>2. \A i, j \in Nat : i * j \in Nat
    OBVIOUS
  <2>3. m * (-k) \in Nat
    BY <1>2, <2>2
  <2>4. m * (-k) = -(m * k)
    OBVIOUS
  <2> QED
    BY <1>2, <2>3, <2>4
<1> QED
  BY <1>1, <1>2

LEMMA ModOnce ==
    ASSUME NEW m \in Nat \ {0}, NEW y \in m .. 2*m-1 PROVE  y % m = y - m
<1> DEFINE k == y \div m
<1>1. y = m * k + (y % m) /\ y % m \in 0 .. m-1 /\ k \in Int
  BY DivMod
<1>2. (k >= 2 => m * k >= 2 * m) /\ (k <= 0 => m * k <= 0)
  BY <1>1, ProductBounds
<1> HIDE DEF k
<1>3. k = 1
  BY <1>1, <1>2
<1> QED
  BY <1>1, <1>3

LEMMA DivSmaller ==
    ASSUME NEW m \in Nat \ {0}, NEW n \in Nat, n >= 2 PROVE m \div n < m
<1> DEFINE k == m \div n
<1>1. m = n * k + (m % n) /\ m % n \in 0 .. n-1 /\ k \in Int
  BY DivMod
<1>2. k \in Nat
  OBVIOUS
<1>3. k * n >= 2 * k
  BY <1>2, ProductBounds
<1> HIDE DEF k
<1> QED
  BY <1>1, <1>2, <1>3

-----------------------------------------------------------------------------
\* Arithmetic of cells.
LEMMA WrapType == ASSUME NEW x \in Int PROVE Wrap(x) \in Cell
<1>1. (x + CellHalf) % CellMod \in 0 .. CellMod - 1
  BY CellHalfAssumption DEF CellMod
<1> QED
  BY <1>1, CellHalfAssumption DEF Wrap, Cell, CellMod

LEMMA WrapCell == ASSUME NEW x \in Cell PROVE Wrap(x) = x
<1>1. x + CellHalf \in 0 .. CellMod - 1
  BY CellHalfAssumption DEF Cell, CellMod
<1>2. \A m \in Nat \ {0} : \A y \in 0 .. m - 1 : y % m = y
  OBVIOUS
<1>3. CellMod \in Nat \ {0}
  BY CellHalfAssumption DEF CellMod
<1>4. (x + CellHalf) % CellMod = x + CellHalf
  BY <1>1, <1>2, <1>3
<1> QED
  BY <1>4, CellHalfAssumption DEF Wrap, Cell

LEMMA UnsignedType == ASSUME NEW c \in Cell PROVE Unsigned(c) \in Address
BY CellHalfAssumption DEF Unsigned, Cell, CellMod, Address

LEMMA WrapUnsigned ==
    ASSUME NEW a \in Address PROVE Wrap(a) \in Cell /\ Unsigned(Wrap(a)) = a
<1>1. CASE a < CellHalf
  <2>1. a \in Cell
    BY <1>1, CellHalfAssumption DEF Cell, Address, CellMod
  <2> QED
    BY <2>1, WrapCell, CellHalfAssumption DEF Unsigned, Address, CellMod
<1>2. CASE a >= CellHalf
  <2>2. (a + CellHalf) % CellMod = a + CellHalf - CellMod
    <3> DEFINE m == CellMod
               y == a + CellHalf
    <3>1. m \in Nat \ {0} /\ y \in m .. 2 * m - 1
      BY <1>2, CellHalfAssumption DEF Address, CellMod
    <3> HIDE DEF m, y
    <3>2. y % m = y - m
      BY <3>1, ModOnce
    <3> QED
      BY <3>2, CellHalfAssumption DEF m, y, Address, CellMod
  <2> QED
    BY <1>2, <2>2, CellHalfAssumption DEF Wrap, Unsigned, Address, CellMod, Cell
<1> QED
  BY <1>1, <1>2, CellHalfAssumption DEF Address, CellMod

LEMMA QuotientType ==
    ASSUME NEW a \in Cell, NEW b \in Cell, b # 0, ~DivisionFaults(a, b)
    PROVE  Quotient(a, b) \in Cell
<1> DEFINE q == Magnitude(a) \div Magnitude(b)
<1>1. /\ Magnitude(a) \in Nat /\ Magnitude(b) \in Nat \ {0}
      /\ Magnitude(a) <= CellHalf /\ (Magnitude(a) = CellHalf => a = -CellHalf)
  BY CellHalfAssumption DEF Cell, Magnitude
<1>2. q \in Nat /\ q <= Magnitude(a)
  BY <1>1
<1>3. Magnitude(b) >= 2 /\ Magnitude(a) >= 1 => q < Magnitude(a)
  BY <1>1, DivSmaller
<1>4. Quotient(a, b) = (IF (a < 0) = (b < 0) THEN q ELSE -q)
  BY DEF Quotient
<1> HIDE DEF q
<1>5. CASE Magnitude(a) < CellHalf
  <2>1. q \in Cell /\ -q \in Cell
    BY <1>1, <1>2, <1>5, CellHalfAssumption DEF Cell
  <2> QED
    BY <1>4, <2>1
<1>6. CASE a = -CellHalf
  <2>1. b > 0 => Quotient(a, b) = -q
    BY <1>4, <1>6, CellHalfAssumption DEF Cell
  <2>2. b < 0 => Magnitude(b) >= 2
    BY <1>6, CellHalfAssumption DEF DivisionFaults, Magnitude, Cell
  <2>3. Magnitude(a) = CellHalf
    BY <1>6, CellHalfAssumption DEF Magnitude
  <2> QED
    BY <1>1, <1>2, <1>3, <1>4, <2>1, <2>2, <2>3, CellHalfAssumption DEF Cell
<1> QED
  BY <1>1, <1>5, <1>6, CellHalfAssumption DEF Cell

LEMMA RemainderType ==
    ASSUME NEW a \in Cell, NEW b \in Cell, b # 0 PROVE Remainder(a, b) \in Cell
<1>1. Magnitude(a) \in Nat /\ Magnitude(b) \in 1 .. CellHalf
  BY CellHalfAssumption DEF Cell, Magnitude
<1>2. Magnitude(a) % Magnitude(b) \in 0 .. CellHalf - 1
  BY <1>1, CellHalfAssumption
<1> QED
  BY <1>2, CellHalfAssumption DEF Remainder, Cell

-----------------------------------------------------------------------------
\* What a fetch inside the code segment finds.
LEMMA Fetched ==
    ASSUME MachineTypes, IsCode(IP), ReadsOperand => IsCode(OperandAt)
    PROVE  /\ instr \in Word /\ fetched \in RegisterFile
           /\ ReadsOperand => imm32 \in Cell
<1>1. \A a \in Nat : IsCode(a) => WordAt(a) \in Word
  BY DEF MachineTypes, IsCode, WordAt, VM_I_SIZE
<1>2. regs[rIP] \in Cell /\ IP \in Nat
  BY UnsignedType DEF MachineTypes, IP, rIP, Slots, Address
<1>3. Wrap(regs[rIP] + VM_I_SIZE) \in Cell
  BY <1>2, WrapType DEF Cell, VM_I_SIZE
<1>4. fetched \in RegisterFile
  BY <1>3 DEF fetched, IP_add, RegisterFile, MachineTypes
<1>5. ReadsOperand => WordAt(OperandAt) \in Word
  BY <1>1, <1>2 DEF OperandAt, VM_I_SIZE
<1> QED
  BY <1>1, <1>2, <1>4, <1>5 DEF instr, imm32, Word

\* Adding to a register, and stepping over an operand, gives registers.
LEMMA AddType ==
    ASSUME NEW r \in RegisterFile, NEW n \in Int
    PROVE  IP_add(r, n) \in RegisterFile /\ SP_add(r, n) \in RegisterFile
           /\ SkipOperand(r) \in RegisterFile
<1>1. r[rIP] \in Int /\ r[rSP] \in Int
  BY CellHalfAssumption DEF RegisterFile, Slots, rIP, rSP, Cell
<1>2. Wrap(r[rIP] + n) \in Cell /\ Wrap(r[rSP] + n) \in Cell
      /\ Wrap(r[rIP] + SVM_CELL_SIZE) \in Cell
  BY <1>1, WrapType DEF SVM_CELL_SIZE
<1> QED
  BY <1>2 DEF IP_add, SP_add, SkipOperand, RegisterFile

LEMMA SkipType == \A r \in RegisterFile : SkipOperand(r) \in RegisterFile
<1>1. SUFFICES ASSUME NEW r \in RegisterFile PROVE SkipOperand(r) \in RegisterFile
  OBVIOUS
<1>2. 0 \in Int
  OBVIOUS
<1> QED
  BY <1>1, <1>2, AddType

\* An operand is a cell.
LEMMA OperandType ==
    ASSUME instr \in Word, fetched \in RegisterFile, ReadsOperand => imm32 \in Cell,
           instr.mode = "IMM" => ReadsOperand
    PROVE  Source \in Cell /\ RightArg \in Cell /\ Comparand \in Int
<1>1. imm32 \in Cell => Unsigned(imm32) % ByteMod \in Int
  <2>1. imm32 \in Cell => Unsigned(imm32) \in Int
    BY UnsignedType DEF Address
  <2> QED
    BY <2>1, ByteModAssumption
<1> QED
  BY <1>1, CellHalfAssumption
  DEF Source, RightArg, Comparand, RegisterFile, Word, Slots, rB, Cell

\* The ways a case ends keep the types.
LEMMA ContinueType ==
    ASSUME MachineTypes, NEW r \in RegisterFile, NEW f \in SUBSET Flags, Continue(r, f),
           UNCHANGED <<code, memory>>
    PROVE  MachineTypes'
BY DEF MachineTypes, Continue, memory, RegisterFile

LEMMA ReturnType ==
    ASSUME MachineTypes, fetched \in RegisterFile, NEW s \in SVMI_STATUS, Return(s),
           UNCHANGED code
    PROVE  MachineTypes'
BY DEF MachineTypes, Return, memory, RegisterFile, SR_reset

LEMMA FailType ==
    ASSUME MachineTypes, NEW m \in {"wild", "terminated"}, Fail(m), UNCHANGED code
    PROVE  MachineTypes'
BY DEF MachineTypes, Fail, memory

LEMMA SetResultType ==
    ASSUME MachineTypes, fetched \in RegisterFile, UNCHANGED code,
           NEW r \in Slots, NEW v \in Cell, SetResult(r, v)
    PROVE  MachineTypes'
<1>1. [fetched EXCEPT ![r] = v] \in RegisterFile
  BY DEF RegisterFile
<1>2. SkipOperand([fetched EXCEPT ![r] = v]) \in RegisterFile
  BY <1>1, AddType
<1>3. SR_set_flags(SR_reset, v) \in SUBSET Flags
  BY DEF SR_set_flags, SR_reset, Flags
<1> QED
  BY <1>2, <1>3, ContinueType DEF SetResult, memory

LEMMA SetFloatType ==
    ASSUME MachineTypes, fetched \in RegisterFile, UNCHANGED code,
           NEW r \in Slots, SetFloat(r)
    PROVE  MachineTypes'
<1>1. PICK v \in FloatCells, f \in SUBSET Flags :
          Continue(SkipOperand([fetched EXCEPT ![r] = v]), f)
  BY DEF SetFloat
<1>2. [fetched EXCEPT ![r] = v] \in RegisterFile
  BY ValuesAssumption DEF RegisterFile
<1>3. SkipOperand([fetched EXCEPT ![r] = v]) \in RegisterFile
  BY <1>2, AddType
<1> QED
  BY <1>1, <1>3, ContinueType DEF SetFloat, memory

\* Every case of the switch starts from a decoded instruction.
Decoded == /\ instr \in Word /\ fetched \in RegisterFile
           /\ ReadsOperand => imm32 \in Cell
           /\ UNCHANGED code
LEMMA DispatchType ==
    ASSUME MachineTypes, NEW ops, Dispatch(ops) PROVE Decoded /\ instr.opcode \in ops
BY Fetched DEF Dispatch, Decoded

LEMMA Immediate ==
    ASSUME instr.opcode \in OperandOps \ {"PUSH"}, instr.mode = "IMM" PROVE ReadsOperand
BY DEF ReadsOperand, HasOperand, OperandOps, JumpOps

-----------------------------------------------------------------------------
\* One step of exec, or of the host, keeps the types.
LEMMA MoveTypes ==
    ASSUME MachineTypes, NoEffect \/ MovReg \/ MovMem \/ MovInvalid PROVE MachineTypes'
<1>1. CASE NoEffect
  BY <1>1, DispatchType, ContinueType
  DEF NoEffect, Decoded, SR_reset, memory
<1>2. CASE MovReg
  <2>1. Decoded /\ instr.opcode = "MOV" /\ (instr.mode = "IMM" => ReadsOperand)
    BY <1>2, DispatchType, Immediate DEF MovReg, OperandOps
  <2>2. Source \in Cell /\ instr.rdst \in Slots
    BY <2>1, OperandType DEF Decoded, Word
  <2>3. [fetched EXCEPT ![instr.rdst] = Source] \in RegisterFile
    BY <2>1, <2>2 DEF Decoded, RegisterFile
  <2>4. SkipOperand([fetched EXCEPT ![instr.rdst] = Source]) \in RegisterFile
    BY <2>3, AddType
  <2> QED
    BY <1>2, <2>1, <2>4, ContinueType DEF MovReg, Decoded, SR_reset, memory
<1>3. CASE MovMem
  <2>1. Decoded
    BY <1>3, DispatchType DEF MovMem
  <2> DEFINE a == fetched[instr.rdst]
  <2>2. CASE a \in 0 .. DataSize - 1
    <3>1. fetched[instr.rsrc] \in Cell
      BY <2>1 DEF Decoded, Word, RegisterFile
    <3>2. Unsigned(fetched[instr.rsrc]) % ByteMod \in Byte
      BY <3>1, UnsignedType, ByteModAssumption DEF Address, Byte
    <3>3. data' \in [0 .. DataSize - 1 -> Byte]
      BY <1>3, <2>2, <3>2 DEF MovMem, MachineTypes
    <3>4. Continue(fetched, SR_reset) /\ UNCHANGED <<code, frames, stack>>
      BY <1>3, <2>1, <2>2 DEF MovMem, Decoded
    <3> QED
      BY <2>1, <3>3, <3>4 DEF Decoded, Continue, MachineTypes, RegisterFile, SR_reset
  <2>3. CASE a \notin 0 .. DataSize - 1
    BY <1>3, <2>1, <2>3, FailType DEF MovMem, Decoded
  <2> QED
    BY <2>2, <2>3
<1>4. CASE MovInvalid
  BY <1>4, DispatchType, ReturnType DEF MovInvalid, Decoded, SVMI_STATUS
<1> QED
  BY <1>1, <1>2, <1>3, <1>4

LEMMA ArithmeticTypes ==
    ASSUME MachineTypes, AddSub \/ IncDec \/ Mul \/ Div \/ Mod PROVE MachineTypes'
<1> DEFINE A == fetched[rA]
<1>1. ASSUME Dispatch({"ADD", "SUB"}) \/ Dispatch({"MUL"}) \/ Dispatch({"DIV"}) \/ Dispatch({"MOD"})
      PROVE  Decoded /\ A \in Cell /\ RightArg \in Cell /\ rA \in Slots
  <2>1. Decoded /\ instr.opcode \in {"ADD", "SUB", "MUL", "DIV", "MOD"}
    BY <1>1, DispatchType
  <2>2. instr.mode = "IMM" => ReadsOperand
    BY <2>1, Immediate DEF OperandOps
  <2> QED
    BY <2>1, <2>2, OperandType DEF Decoded, RegisterFile, Slots, rA
<1>2. CASE AddSub
  <2>1. Decoded /\ A \in Cell /\ RightArg \in Cell /\ rA \in Slots
    BY <1>1, <1>2 DEF AddSub
  <2>2. Wrap(IF instr.opcode = "ADD" THEN A + RightArg ELSE A - RightArg) \in Cell
    BY <2>1, WrapType, CellHalfAssumption DEF Cell
  <2> QED
    BY <1>2, <2>1, <2>2, SetResultType, SetFloatType DEF AddSub, Decoded
<1>3. CASE IncDec
  <2>1. Decoded /\ instr.rdst \in Slots /\ fetched[instr.rdst] \in Cell
    BY <1>3, DispatchType DEF IncDec, Decoded, Word, RegisterFile
  <2>2. Wrap(fetched[instr.rdst] + (IF instr.opcode = "INC" THEN 1 ELSE -1)) \in Cell
    BY <2>1, WrapType, CellHalfAssumption DEF Cell
  <2> QED
    BY <1>3, <2>1, <2>2, SetResultType, SetFloatType DEF IncDec, Decoded
<1>4. CASE Mul
  <2>1. Decoded /\ A \in Cell /\ RightArg \in Cell /\ rA \in Slots
    BY <1>1, <1>4 DEF Mul
  <2>2. A * RightArg \in Int
    BY <2>1, CellHalfAssumption DEF Cell
  <2>3. Wrap(A * RightArg) \in Cell
    BY <2>2, WrapType
  <2> QED
    BY <1>4, <2>1, <2>3, SetResultType, SetFloatType DEF Mul, Decoded
<1>5. ASSUME Decoded, A \in Cell, RightArg \in Cell, rA \in Slots, NEW v,
             Divide(A, RightArg, v), RightArg # 0 /\ ~DivisionFaults(A, RightArg) => v \in Cell
      PROVE  MachineTypes'
  BY <1>5, FailType, SetResultType DEF Divide, Decoded
<1>6. CASE Div
  <2>1. Decoded /\ A \in Cell /\ RightArg \in Cell /\ rA \in Slots
    BY <1>1, <1>6 DEF Div
  <2>2. RightArg # 0 /\ ~DivisionFaults(A, RightArg) => Quotient(A, RightArg) \in Cell
    BY <2>1, QuotientType
  <2>3. DivZeroStatus \in SVMI_STATUS /\ "FLOATING_POINT_DIVISION_BY_ZERO" \in SVMI_STATUS
    BY DEF DivZeroStatus, SVMI_STATUS
  <2>4. CASE SetFloat(rA)
    BY <2>1, <2>4, SetFloatType DEF Decoded
  <2>5. CASE Return("FLOATING_POINT_DIVISION_BY_ZERO") \/ Return(DivZeroStatus)
    BY <2>1, <2>3, <2>5, ReturnType DEF Decoded
  <2>6. CASE Divide(A, RightArg, Quotient(A, RightArg))
    BY <1>5, <2>1, <2>2, <2>6
  <2> QED
    BY <1>6, <2>4, <2>5, <2>6 DEF Div
<1>7. CASE Mod
  <2>1. Decoded /\ A \in Cell /\ RightArg \in Cell /\ rA \in Slots
    BY <1>1, <1>7 DEF Mod
  <2>2. RightArg # 0 => Remainder(A, RightArg) \in Cell
    BY <2>1, RemainderType
  <2>3. CASE Return("INT_DIVISION_BY_ZERO")
    BY <2>1, <2>3, ReturnType DEF Decoded, SVMI_STATUS
  <2>4. CASE Divide(A, RightArg, Remainder(A, RightArg))
    BY <1>5, <2>1, <2>2, <2>4
  <2> QED
    BY <1>7, <2>3, <2>4 DEF Mod
<1> QED
  BY <1>2, <1>3, <1>4, <1>6, <1>7

LEMMA LogicTypes ==
    ASSUME MachineTypes, Shift \/ Bitwise \/ Not \/ Cmp PROVE MachineTypes'
<1>1. CASE Shift
  <2>1. Decoded /\ instr.opcode \in BitOps
    BY <1>1, DispatchType DEF Shift, BitOps
  <2>2. instr.rdst \in Slots /\ fetched[instr.rdst] \in Cell /\ fetched[instr.rsrc] \in Cell
    BY <2>1 DEF Decoded, Word, RegisterFile
  <2> DEFINE v == BitOp(instr.opcode, fetched[instr.rsrc], fetched[instr.rdst])
  <2>3. v \in Cell
    BY <2>1, <2>2, BitOpAssumption
  <2>4. [fetched EXCEPT ![instr.rdst] = v] \in RegisterFile
    BY <2>1, <2>3 DEF Decoded, RegisterFile
  <2>5. SR_set_flags(SR_reset, v) \in SUBSET Flags
    BY DEF SR_set_flags, SR_reset, Flags
  <2> QED
    BY <1>1, <2>1, <2>4, <2>5, ContinueType DEF Shift, Decoded, memory
<1>2. CASE Bitwise
  <2>1. Decoded /\ instr.opcode \in {"AND", "OR", "XOR"}
    BY <1>2, DispatchType DEF Bitwise
  <2>2. instr.rdst \in Slots /\ fetched[instr.rdst] \in Cell /\ Source \in Cell
    BY <2>1, OperandType, Immediate DEF Decoded, Word, RegisterFile, OperandOps
  <2>3. BitOp(instr.opcode, fetched[instr.rdst], Source) \in Cell
    BY <2>1, <2>2, BitOpAssumption DEF BitOps
  <2> QED
    BY <1>2, <2>1, <2>2, <2>3, SetResultType DEF Bitwise, Decoded
<1>3. CASE Not
  <2>1. Decoded
    BY <1>3, DispatchType DEF Not
  <2>2. [fetched EXCEPT ![instr.rdst] = IF fetched[instr.rdst] = 0 THEN 1 ELSE 0] \in RegisterFile
    <3>1. 0 \in Cell /\ 1 \in Cell
      BY CellHalfAssumption, SizesAssumption DEF Cell
    <3> QED
      BY <2>1, <3>1 DEF Decoded, RegisterFile
  <2> QED
    BY <1>3, <2>1, <2>2, ContinueType DEF Not, Decoded, memory, SR_reset
<1>4. CASE Cmp
  <2>1. Decoded
    BY <1>4, DispatchType DEF Cmp
  <2>2. SkipOperand(fetched) \in RegisterFile
    BY <2>1, AddType DEF Decoded
  <2>3. PICK f \in SUBSET Flags : Continue(SkipOperand(fetched), f)
    BY <1>4 DEF Cmp, SR_set_flags, SR_reset, Flags
  <2> QED
    BY <1>4, <2>1, <2>2, <2>3, ContinueType DEF Cmp, Decoded, memory
<1> QED
  BY <1>1, <1>2, <1>3, <1>4

LEMMA JumpTypes ==
    ASSUME MachineTypes, Jmp \/ JumpIf \/ Loop PROVE MachineTypes'
<1>1. ASSUME NEW r \in RegisterFile, Source \in Cell
      PROVE  [r EXCEPT ![rIP] = Wrap(@ + Source)] \in RegisterFile
  <2>1. r[rIP] + Source \in Int
    BY <1>1, CellHalfAssumption DEF RegisterFile, Slots, rIP, Cell
  <2> QED
    BY <2>1, WrapType DEF RegisterFile
<1>2. ASSUME NEW r \in RegisterFile, Source \in Cell PROVE JumpBy(r) \in RegisterFile
  BY <1>1, <1>2, AddType DEF JumpBy
<1>3. CASE Jmp
  <2>1. Decoded /\ Source \in Cell
    BY <1>3, DispatchType, Immediate, OperandType DEF Jmp, Decoded, OperandOps
  <2> QED
    BY <1>2, <1>3, <2>1, ContinueType DEF Jmp, Decoded, memory, SR_reset
<1>4. CASE JumpIf
  <2>1. Decoded /\ Source \in Cell
    BY <1>4, DispatchType, Immediate, OperandType DEF JumpIf, Decoded, OperandOps, JumpOps
  <2>2. JumpBy(fetched) \in RegisterFile /\ SkipOperand(fetched) \in RegisterFile
    BY <1>2, <2>1, AddType DEF Decoded
  <2>3. PICK r \in RegisterFile : Continue(r, SR_reset)
    BY <1>4, <2>2 DEF JumpIf
  <2> QED
    BY <1>4, <2>1, <2>3, ContinueType DEF JumpIf, Decoded, memory, SR_reset
<1>5. CASE Loop
  <2>1. Decoded /\ Source \in Cell
    BY <1>5, DispatchType, Immediate, OperandType DEF Loop, Decoded, OperandOps
  <2> DEFINE back == [fetched EXCEPT ![rIP] = Wrap(@ + Source), ![rC] = @ - 1]
             r == IF fetched[rC] > 0 THEN back ELSE fetched
  <2>2. ASSUME fetched[rC] > 0 PROVE back \in RegisterFile
    <3>1. fetched[rC] - 1 \in Cell
      BY <2>1, <2>2, CellHalfAssumption DEF Decoded, RegisterFile, Slots, rC, Cell
    <3>2. [fetched EXCEPT ![rIP] = Wrap(@ + Source)] \in RegisterFile
      BY <1>1, <2>1 DEF Decoded
    <3>3. back = [[fetched EXCEPT ![rIP] = Wrap(@ + Source)] EXCEPT ![rC] = fetched[rC] - 1]
      BY <2>1 DEF Decoded, RegisterFile, rIP, rC
    <3> QED
      BY <2>2, <3>1, <3>2, <3>3 DEF RegisterFile
  <2>3. r \in RegisterFile
    BY <2>1, <2>2 DEF Decoded
  <2>4. IP_add(r, SVM_CELL_SIZE) \in RegisterFile
    BY <2>3, AddType DEF SVM_CELL_SIZE
  <2> QED
    BY <1>5, <2>1, <2>4, ContinueType DEF Loop, Decoded, memory, SR_reset
<1> QED
  BY <1>3, <1>4, <1>5

\* A cell of the stack changes, or none.
LEMMA StackCellType ==
    ASSUME MachineTypes, NEW n, NEW v \in Cell, stack' = [stack EXCEPT ![n] = v]
    PROVE  stack' \in [Stack -> Cell]
BY DEF MachineTypes

LEMMA StackTypes ==
    ASSUME MachineTypes, Push \/ PushSR \/ Pop \/ PopSR PROVE MachineTypes'
<1>1. "STACK_OVERFLOW" \in SVMI_STATUS /\ SR_reset \in SUBSET Flags
  BY DEF SVMI_STATUS, SR_reset
<1>2. ASSUME Decoded, NEW r \in RegisterFile, NEW v \in Cell, Continue(r, SR_reset),
             stack' = [stack EXCEPT ![SP] = v], UNCHANGED <<frames, data>>
      PROVE  MachineTypes'
  BY <1>1, <1>2, StackCellType DEF Continue, MachineTypes, Decoded, RegisterFile
<1>3. ASSUME Decoded, Return("STACK_OVERFLOW") PROVE MachineTypes'
  BY <1>1, <1>3, ReturnType DEF Decoded
<1>4. CASE Push
  <2>1. Decoded /\ instr.opcode = "PUSH"
    BY <1>4, DispatchType DEF Push
  <2>2. CASE StackFull
    BY <1>3, <1>4, <2>1, <2>2 DEF Push
  <2>3. CASE ~StackFull
    <3>1. SP \in Int
      BY UnsignedType DEF MachineTypes, SP, rSP, Slots, Address
    <3>2. instr.mode = "IMM" => ReadsOperand
      BY <2>1, <2>3, <3>1, SizesAssumption
      DEF StackFull, ReadsOperand, HasOperand, OperandOps
    <3>3. Source \in Cell
      BY <2>1, <3>2, OperandType DEF Decoded
    <3>4. Wrap(fetched[rSP] + 1) \in Cell
      <4>1. fetched[rSP] + 1 \in Int
        BY <2>1, CellHalfAssumption DEF Decoded, RegisterFile, Slots, rSP, Cell
      <4> QED
        BY <4>1, WrapType
    <3>5. PICK v \in Cell : PushValue(v)
      BY <1>4, <2>3, <3>3, <3>4 DEF Push
    <3>6. SkipOperand(SP_add(fetched, 1)) \in RegisterFile
      <4>1. SP_add(fetched, 1) \in RegisterFile
        BY <2>1, AddType DEF Decoded
      <4> QED
        BY <4>1, SkipType
    <3> QED
      BY <1>2, <2>1, <3>5, <3>6 DEF PushValue
  <2> QED
    BY <2>2, <2>3
<1>5. CASE PushSR
  <2>1. Decoded
    BY <1>5, DispatchType DEF PushSR
  <2>2. SRToCell(SR_reset) = 0 /\ 0 \in Cell
    BY CellHalfAssumption DEF SRToCell, SR_reset, Cell
  <2>3. SP_add(fetched, 1) \in RegisterFile
    BY <2>1, AddType DEF Decoded
  <2> QED
    BY <1>2, <1>3, <1>5, <2>1, <2>2, <2>3 DEF PushSR
<1>6. StackValues(SP) \subseteq Cell
  BY ValuesAssumption DEF StackValues, MachineTypes
<1>7. CASE Pop
  <2>1. Decoded /\ instr.rdst \in Slots
    BY <1>7, DispatchType DEF Pop, Decoded, Word
  <2>2. CASE SP = 0
    BY <1>3, <1>7, <2>1, <2>2 DEF Pop
  <2>3. CASE SP # 0
    <3>1. PICK v \in StackValues(SP) :
              LET r == IF instr.mode = "REG" THEN [fetched EXCEPT ![instr.rdst] = v] ELSE fetched
              IN  Continue(SP_add(r, -1), SR_reset)
      BY <1>7, <2>3 DEF Pop
    <3> DEFINE r == IF instr.mode = "REG" THEN [fetched EXCEPT ![instr.rdst] = v] ELSE fetched
    <3>2. r \in RegisterFile
      BY <1>6, <2>1 DEF Decoded, RegisterFile
    <3>3. SP_add(r, -1) \in RegisterFile
      BY <3>2, AddType
    <3> QED
      BY <1>1, <1>7, <2>1, <2>3, <3>1, <3>3, ContinueType DEF Pop, Decoded, memory
  <2> QED
    BY <2>2, <2>3
<1>8. CASE PopSR
  <2>1. Decoded
    BY <1>8, DispatchType DEF PopSR
  <2>2. SP_add(fetched, 1) \in RegisterFile
    BY <2>1, AddType DEF Decoded
  <2>3. \A v : CellToSR(v) \in SUBSET Flags
    BY DEF CellToSR, Flags
  <2> QED
    BY <1>3, <1>8, <2>1, <2>2, <2>3, ContinueType DEF PopSR, Decoded, memory
<1> QED
  BY <1>4, <1>5, <1>7, <1>8

LEMMA ControlTypes ==
    ASSUME MachineTypes, Call \/ NCall \/ Ret \/ Brk \/ Halt \/ WildFetch PROVE MachineTypes'
<1>1. CASE Call
  <2>1. Decoded /\ imm32 \in Cell
    BY <1>1, DispatchType DEF Call, Decoded, ReadsOperand, HasOperand
  <2>2. CASE Len(frames) < MaxFrames
    <3>1. fetched[rIP] + SVM_CELL_SIZE \in Int /\ SP \in Address
      <4>1. fetched[rIP] \in Cell /\ regs[rSP] \in Cell
        BY <2>1 DEF Decoded, RegisterFile, Slots, rIP, rSP, MachineTypes
      <4> QED
        BY <4>1, CellHalfAssumption, UnsignedType DEF Cell, SVM_CELL_SIZE, SP
    <3>2. CallFrame \in SVMI_call_context
      BY <3>1, WrapType, UnsignedType DEF CallFrame, SVMI_call_context
    <3>3. Append(frames, CallFrame) \in Seq(SVMI_call_context)
          /\ Len(Append(frames, CallFrame)) = Len(frames) + 1 /\ Len(frames) \in Nat
      BY <3>2, AppendProperties, LenProperties DEF MachineTypes
    <3>4. [fetched EXCEPT ![rIP] = imm32] \in RegisterFile
      BY <2>1 DEF Decoded, RegisterFile
    <3>5. /\ frames' = Append(frames, CallFrame) /\ UNCHANGED <<stack, data>>
          /\ Continue([fetched EXCEPT ![rIP] = imm32], SR_reset)
      BY <1>1, <2>2 DEF Call
    <3>6. frames' \in Seq(SVMI_call_context) /\ Len(frames') <= MaxFrames
      BY <2>2, <3>3, <3>5, SizesAssumption
    <3> QED
      BY <2>1, <3>4, <3>5, <3>6 DEF Continue, MachineTypes, Decoded, RegisterFile, SR_reset
  <2>3. CASE ~(Len(frames) < MaxFrames)
    BY <1>1, <2>1, <2>3, FailType DEF Call, Decoded
  <2> QED
    BY <2>2, <2>3
<1>2. CASE NCall
  <2>1. Decoded
    BY <1>2, DispatchType DEF NCall
  <2>2. CASE Return("IMPORT_INDEX_OUT_OF_BOUNDS")
    BY <2>1, <2>2, ReturnType DEF Decoded, SVMI_STATUS
  <2>3. CASE Fail("wild")
    BY <2>1, <2>3, FailType DEF Decoded
  <2>4. ASSUME NEW v \in NativeResults, UNCHANGED memory,
               Continue(IP_add([fetched EXCEPT ![rA] = v], SVM_CELL_SIZE), SR_reset)
        PROVE  MachineTypes'
    <3>1. [fetched EXCEPT ![rA] = v] \in RegisterFile
      BY <2>1, ValuesAssumption DEF Decoded, RegisterFile
    <3>2. IP_add([fetched EXCEPT ![rA] = v], SVM_CELL_SIZE) \in RegisterFile
      BY <3>1, AddType DEF SVM_CELL_SIZE
    <3> QED
      BY <2>1, <2>4, <3>2, ContinueType DEF Decoded, memory, SR_reset
  <2> QED
    BY <1>2, <2>2, <2>3, <2>4 DEF NCall
<1>3. CASE Ret
  <2>1. Decoded
    BY <1>3, DispatchType DEF Ret
  <2>2. CASE frames = <<>>
    BY <1>3, <2>1, <2>2, ReturnType DEF Ret, Decoded, SVMI_STATUS
  <2>3. CASE frames # <<>>
    <3> DEFINE top == frames[Len(frames)]
               r   == [fetched EXCEPT ![rSP] = Wrap(top.previous_SP),
                                      ![rIP] = Wrap(top.return_address)]
    <3>1. Len(frames) \in Nat \ {0} /\ top \in SVMI_call_context
      BY <2>3, EmptySeq, LenProperties DEF MachineTypes
    <3>2. top.previous_SP \in Int /\ top.return_address \in Int
      BY <3>1, CellHalfAssumption DEF SVMI_call_context, Address, CellMod
    <3>3. r \in RegisterFile
      BY <2>1, <3>2, WrapType DEF Decoded, RegisterFile
    <3>4. /\ SubSeq(frames, 1, Len(frames) - 1) \in Seq(SVMI_call_context)
          /\ Len(SubSeq(frames, 1, Len(frames) - 1)) = Len(frames) - 1
      BY <2>3, FrontElements DEF MachineTypes
    <3>5. /\ frames' = SubSeq(frames, 1, Len(frames) - 1)
          /\ Continue(r, SR_reset) /\ UNCHANGED <<stack, data>>
      BY <1>3, <2>3 DEF Ret
    <3>6. frames' \in Seq(SVMI_call_context) /\ Len(frames') <= MaxFrames
      BY <3>1, <3>4, <3>5, SizesAssumption DEF MachineTypes
    <3> HIDE DEF r
    <3> QED
      BY <2>1, <3>3, <3>5, <3>6 DEF Continue, MachineTypes, Decoded, RegisterFile, SR_reset
  <2> QED
    BY <2>2, <2>3
<1>4. CASE Brk
  <2>1. Decoded
    BY <1>4, DispatchType DEF Brk
  <2>2. CASE Return("EXECUTION_HALTED")
    BY <2>1, <2>2, ReturnType DEF Decoded, SVMI_STATUS
  <2>3. CASE Continue(fetched, SR_reset) /\ UNCHANGED memory
    BY <2>1, <2>3, ContinueType DEF Decoded, memory, SR_reset
  <2> QED
    BY <1>4, <2>2, <2>3 DEF Brk
<1>5. CASE Halt
  BY <1>5, DispatchType, ReturnType DEF Halt, Decoded, SVMI_STATUS
<1>6. CASE WildFetch
  BY <1>6, FailType DEF WildFetch
<1> QED
  BY <1>1, <1>2, <1>3, <1>4, <1>5, <1>6

LEMMA HostTypes ==
    ASSUME MachineTypes, Host PROVE MachineTypes'
<1>1. ASSUME NEW v \in ArgCells, HostPushArg(v) PROVE MachineTypes'
  <2>1. SP_add(regs, 1) \in RegisterFile
    <3>1. regs \in RegisterFile
      BY DEF MachineTypes, RegisterFile
    <3> QED
      BY <3>1, AddType
  <2>2. stack' \in [Stack -> Cell]
    <3>1. v \in Cell /\ stack' = [stack EXCEPT ![SP] = v]
      BY <1>1, ValuesAssumption DEF HostPushArg
    <3> QED
      BY <3>1 DEF MachineTypes
  <2> QED
    BY <1>1, <2>1, <2>2 DEF HostPushArg, MachineTypes, RegisterFile
<1>2. ASSUME NEW a \in Entries \cup NativeEntries, HostCall(a) PROVE MachineTypes'
  <2>1. Wrap(a) \in Cell
    BY EntriesAssumption, WrapUnsigned DEF Address
  <2>2. Len(frames) \in 0 .. MaxFrames
    BY LenProperties, SizesAssumption DEF MachineTypes
  <2> QED
    BY <1>2, <2>1, <2>2 DEF HostCall, MachineTypes, memory
<1>3. CASE HostFinish
  <2>1. 0 \in Cell
    BY CellHalfAssumption DEF Cell
  <2> QED
    BY <1>3, <2>1 DEF HostFinish, MachineTypes, memory
<1> QED
  BY <1>1, <1>2, <1>3 DEF Host

\* A native that uses its context leaves exec with the registers of the fetch,
\* and comes back to it with A and a step over an operand.
LEMMA NativeTypes ==
    ASSUME MachineTypes, Natives PROVE MachineTypes'
<1>1. CASE NativeStarts
  <2>1. Decoded
    BY <1>1, DispatchType DEF NativeStarts
  <2>2. /\ regs' = fetched /\ sr' = SR_reset /\ mode' = "host"
        /\ UNCHANGED <<memory, status>>
    BY <1>1 DEF NativeStarts
  <2> QED
    BY <2>1, <2>2 DEF MachineTypes, memory, Decoded, RegisterFile, SR_reset
<1>2. ASSUME NEW v \in NativeResults, NativeReturns(v) PROVE MachineTypes'
  <2>1. [regs EXCEPT ![rA] = v] \in RegisterFile
    BY ValuesAssumption DEF MachineTypes, RegisterFile
  <2>2. IP_add([regs EXCEPT ![rA] = v], SVM_CELL_SIZE) \in RegisterFile
    BY <2>1, AddType DEF SVM_CELL_SIZE
  <2>3. /\ regs' = IP_add([regs EXCEPT ![rA] = v], SVM_CELL_SIZE) /\ mode' = "exec"
        /\ UNCHANGED <<code, sr, memory, status>>
    BY <1>2 DEF NativeReturns
  <2> QED
    BY <2>2, <2>3 DEF MachineTypes, memory, RegisterFile
<1> QED
  BY <1>1, <1>2 DEF Natives

LEMMA TypeInit == Init => TypeOK
<1> SUFFICES ASSUME Init PROVE TypeOK
  OBVIOUS
<1>1. 0 \in Cell /\ 0 \in Byte /\ MaxFrames \in Nat
  BY CellHalfAssumption, ByteModAssumption, SizesAssumption DEF Cell, Byte
<1>2. /\ code \in Seq(Word) /\ regs \in [Slots -> Cell] /\ sr \in SUBSET Flags
      /\ stack \in [Stack -> Cell] /\ data \in [0 .. DataSize - 1 -> Byte]
  BY <1>1, ProgramsAssumption, ValuesAssumption DEF Init
<1>3. frames \in Seq(SVMI_call_context) /\ Len(frames) = 0
  BY EmptySeq DEF Init
<1> QED
  BY <1>1, <1>2, <1>3, SizesAssumption DEF Init, TypeOK, MachineTypes, SVMI_STATUS

LEMMA TypeStep == TypeOK /\ [Next]_vars => TypeOK'
<1> SUFFICES ASSUME TypeOK, [Next]_vars PROVE TypeOK'
  OBVIOUS
<1>1. CASE Exec /\ UNCHANGED natives
  BY <1>1, MoveTypes, ArithmeticTypes, LogicTypes, JumpTypes, StackTypes, ControlTypes
  DEF Exec, TypeOK
<1>2. CASE Host /\ UNCHANGED natives
  BY <1>2, HostTypes DEF TypeOK
<1>3. CASE Natives
  <2>1. natives' \in 0 .. MaxNatives
    <3>1. \/ natives < MaxNatives /\ natives' = natives + 1
          \/ natives > 0 /\ natives' = natives - 1
      BY <1>3 DEF Natives, NativeStarts, NativeReturns
    <3>2. natives \in 0 .. MaxNatives /\ MaxNatives \in Nat
      BY SizesAssumption DEF TypeOK
    <3> QED
      BY <3>1, <3>2
  <2> QED
    BY <1>3, <2>1, NativeTypes DEF TypeOK
<1>4. CASE Ended \/ UNCHANGED vars
  BY <1>4 DEF Ended, vars, memory, TypeOK, MachineTypes
<1> QED
  BY <1>1, <1>2, <1>3, <1>4 DEF Next

\* The machine keeps its types for every program, whatever the host does.
THEOREM TypeCorrect == Spec => []TypeOK
BY TypeInit, TypeStep, PTL DEF Spec

LEMMA MachineKeepsTypes == Spec => []MachineTypes
<1>1. TypeOK => MachineTypes
  BY DEF TypeOK
<1> QED
  BY <1>1, TypeCorrect, PTL

-----------------------------------------------------------------------------
\* An instruction that is fetched is one of the program.
LEMMA InstrOfCode ==
    ASSUME MachineTypes, NEW ops, Dispatch(ops)
    PROVE  \E i \in 1 .. Len(code) : instr = code[i]
<1>1. IP \in Nat
  BY UnsignedType DEF MachineTypes, IP, rIP, Slots, Address
<1>2. IP \div VM_I_SIZE + 1 \in 1 .. Len(code)
  BY <1>1, LenProperties DEF Dispatch, IsCode, VM_I_SIZE, MachineTypes
<1> QED
  BY <1>2 DEF instr, WordAt

-----------------------------------------------------------------------------
\* Steps that move neither SP nor a saved SP.
Quiet == UNCHANGED frames /\ regs'[rSP] = regs[rSP]

LEMMA OtherSlots ==
    ASSUME NEW r, DOMAIN r = Slots, NEW n
    PROVE  /\ IP_add(r, n)[rSP] = r[rSP] /\ SkipOperand(r)[rSP] = r[rSP]
           /\ JumpBy(r)[rSP] = r[rSP] /\ DOMAIN IP_add(r, n) = Slots
           /\ \A s \in Slots \ {rSP} : \A v : [r EXCEPT ![s] = v][rSP] = r[rSP]
           /\ \A s, v : DOMAIN [r EXCEPT ![s] = v] = Slots
BY DEF IP_add, SkipOperand, JumpBy, Slots, rIP, rSP

\* What a dispatched case may rely on in a program that names SP nowhere.
LEMMA SafeDispatch ==
    ASSUME MachineTypes, StackSafe, NEW ops, Dispatch(ops)
    PROVE  /\ instr.rdst \in Slots \ {rSP} /\ instr.opcode # "POPSR"
           /\ DOMAIN fetched = Slots /\ fetched[rSP] = regs[rSP]
           /\ rA \in Slots \ {rSP} /\ rC \in Slots \ {rSP} /\ rIP \in Slots \ {rSP}
<1>1. Decoded
  BY DispatchType
<1>2. PICK i \in 1 .. Len(code) : instr = code[i]
  BY InstrOfCode
<1>3. DOMAIN regs = Slots /\ DOMAIN fetched = Slots
  BY <1>1 DEF Decoded, RegisterFile, MachineTypes
<1>4. fetched[rSP] = regs[rSP]
  BY <1>3, OtherSlots DEF fetched
<1> QED
  BY <1>1, <1>2, <1>3, <1>4 DEF StackSafe, Decoded, Word, Slots, rA, rC, rIP, rSP

LEMMA QuietResult ==
    ASSUME NEW r \in Slots \ {rSP}, DOMAIN fetched = Slots, fetched[rSP] = regs[rSP],
           (\E v : SetResult(r, v)) \/ SetFloat(r)
    PROVE  Quiet
<1>1. PICK v, f : Continue(SkipOperand([fetched EXCEPT ![r] = v]), f) /\ UNCHANGED memory
  BY DEF SetResult, SetFloat
<1>2. SkipOperand([fetched EXCEPT ![r] = v])[rSP] = [fetched EXCEPT ![r] = v][rSP]
  BY OtherSlots
<1>3. [fetched EXCEPT ![r] = v][rSP] = fetched[rSP]
  BY OtherSlots
<1> QED
  BY <1>1, <1>2, <1>3 DEF Quiet, Continue, memory

LEMMA QuietEnds ==
    ASSUME fetched[rSP] = regs[rSP],
           (\E s : Return(s)) \/ (\E m : Fail(m))
           \/ (\E f : Continue(fetched, f) /\ UNCHANGED frames)
    PROVE  Quiet
BY DEF Quiet, Return, Fail, Continue, memory

LEMMA QuietMoves ==
    ASSUME MachineTypes, StackSafe, NoEffect \/ MovReg \/ MovMem \/ MovInvalid PROVE Quiet
<1>1. CASE NoEffect
  BY <1>1, SafeDispatch, QuietEnds DEF NoEffect, memory
<1>2. CASE MovReg
  <2>1. instr.rdst \in Slots \ {rSP} /\ DOMAIN fetched = Slots /\ fetched[rSP] = regs[rSP]
    BY <1>2, SafeDispatch DEF MovReg
  <2> DEFINE r == [fetched EXCEPT ![instr.rdst] = Source]
  <2>2. r[rSP] = fetched[rSP] /\ DOMAIN r = Slots
    BY <2>1, OtherSlots
  <2>3. SkipOperand(r)[rSP] = r[rSP]
    BY <2>2, OtherSlots
  <2>4. regs' = SkipOperand(r) /\ UNCHANGED frames
    BY <1>2 DEF MovReg, Continue, memory
  <2> QED
    BY <2>1, <2>2, <2>3, <2>4 DEF Quiet
<1>3. CASE MovMem
  <2>1. fetched[rSP] = regs[rSP]
    BY <1>3, SafeDispatch DEF MovMem
  <2> QED
    BY <1>3, <2>1, QuietEnds DEF MovMem
<1>4. CASE MovInvalid
  BY <1>4, SafeDispatch, QuietEnds DEF MovInvalid
<1> QED
  BY <1>1, <1>2, <1>3, <1>4

LEMMA QuietArithmetic ==
    ASSUME MachineTypes, StackSafe, AddSub \/ IncDec \/ Mul \/ Div \/ Mod PROVE Quiet
<1>1. PICK ops : Dispatch(ops)
  BY DEF AddSub, IncDec, Mul, Div, Mod
<1>2. /\ instr.rdst \in Slots \ {rSP} /\ rA \in Slots \ {rSP}
      /\ DOMAIN fetched = Slots /\ fetched[rSP] = regs[rSP]
  BY <1>1, SafeDispatch
<1>3. ASSUME NEW a, NEW b, NEW v, Divide(a, b, v) PROVE Quiet
  BY <1>2, <1>3, QuietResult, QuietEnds DEF Divide
<1>4. CASE AddSub \/ Mul \/ IncDec
  BY <1>2, <1>4, QuietResult DEF AddSub, Mul, IncDec
<1>5. CASE Div
  BY <1>2, <1>3, <1>5, QuietResult, QuietEnds DEF Div
<1>6. CASE Mod
  BY <1>2, <1>3, <1>6, QuietEnds DEF Mod
<1> QED
  BY <1>4, <1>5, <1>6

LEMMA QuietLogic ==
    ASSUME MachineTypes, StackSafe, Shift \/ Bitwise \/ Not \/ Cmp PROVE Quiet
<1>1. PICK ops : Dispatch(ops)
  BY DEF Shift, Bitwise, Not, Cmp
<1>2. /\ instr.rdst \in Slots \ {rSP}
      /\ DOMAIN fetched = Slots /\ fetched[rSP] = regs[rSP]
  BY <1>1, SafeDispatch
<1>3. CASE Bitwise
  BY <1>2, <1>3, QuietResult DEF Bitwise
<1>4. CASE Shift \/ Not
  <2>1. PICK v, f : Continue([fetched EXCEPT ![instr.rdst] = v], f) /\ UNCHANGED memory
    BY <1>4 DEF Shift, Not
  <2>2. [fetched EXCEPT ![instr.rdst] = v][rSP] = fetched[rSP]
    BY <1>2, OtherSlots
  <2> QED
    BY <1>2, <2>1, <2>2 DEF Quiet, Continue, memory
<1>5. CASE Cmp
  <2>1. PICK f : Continue(SkipOperand(fetched), f) /\ UNCHANGED memory
    BY <1>5 DEF Cmp
  <2>2. SkipOperand(fetched)[rSP] = fetched[rSP]
    BY <1>2, OtherSlots
  <2> QED
    BY <1>2, <2>1, <2>2 DEF Quiet, Continue, memory
<1> QED
  BY <1>3, <1>4, <1>5

LEMMA QuietJumps ==
    ASSUME MachineTypes, StackSafe, Jmp \/ JumpIf \/ Loop PROVE Quiet
<1>1. PICK ops : Dispatch(ops)
  BY DEF Jmp, JumpIf, Loop
<1>2. DOMAIN fetched = Slots /\ fetched[rSP] = regs[rSP] /\ rIP # rSP /\ rC # rSP
  BY <1>1, SafeDispatch
<1>3. JumpBy(fetched)[rSP] = fetched[rSP] /\ SkipOperand(fetched)[rSP] = fetched[rSP]
  BY <1>2, OtherSlots
<1>4. CASE Jmp \/ JumpIf
  <2>1. /\ UNCHANGED frames
        /\ regs' = JumpBy(fetched) \/ regs' = SkipOperand(fetched)
    BY <1>4 DEF Jmp, JumpIf, Continue, memory
  <2> QED
    BY <1>2, <1>3, <2>1 DEF Quiet
<1>5. CASE Loop
  <2> DEFINE back == [fetched EXCEPT ![rIP] = Wrap(@ + Source), ![rC] = @ - 1]
             r == IF fetched[rC] > 0 THEN back ELSE fetched
  <2>1. back[rSP] = fetched[rSP] /\ DOMAIN back = Slots
    BY <1>2 DEF Slots, rSP
  <2>2. r[rSP] = fetched[rSP] /\ DOMAIN r = Slots
    BY <1>2, <2>1
  <2>3. regs' = IP_add(r, SVM_CELL_SIZE) /\ UNCHANGED frames
    BY <1>5 DEF Loop, Continue, memory
  <2> HIDE DEF r
  <2>4. IP_add(r, SVM_CELL_SIZE)[rSP] = r[rSP]
    BY <2>2, OtherSlots
  <2> QED
    BY <1>2, <2>2, <2>3, <2>4 DEF Quiet
<1> QED
  BY <1>4, <1>5

LEMMA QuietControl ==
    ASSUME MachineTypes, StackSafe, NCall \/ Brk \/ Halt \/ WildFetch PROVE Quiet
<1>1. CASE NCall
  <2>1. DOMAIN fetched = Slots /\ fetched[rSP] = regs[rSP] /\ rA \in Slots \ {rSP}
    BY <1>1, SafeDispatch DEF NCall
  <2>2. ASSUME NEW v, UNCHANGED memory,
               Continue(IP_add([fetched EXCEPT ![rA] = v], SVM_CELL_SIZE), SR_reset)
        PROVE  Quiet
    <3>1. [fetched EXCEPT ![rA] = v][rSP] = fetched[rSP]
          /\ DOMAIN [fetched EXCEPT ![rA] = v] = Slots
      BY <2>1, OtherSlots
    <3>2. IP_add([fetched EXCEPT ![rA] = v], SVM_CELL_SIZE)[rSP] = fetched[rSP]
      BY <3>1, OtherSlots
    <3> QED
      BY <2>1, <2>2, <3>2 DEF Quiet, Continue, memory
  <2> QED
    BY <1>1, <2>1, <2>2, QuietEnds DEF NCall
<1>2. CASE Brk \/ Halt
  <2>1. PICK ops : Dispatch(ops)
    BY <1>2 DEF Brk, Halt
  <2>2. fetched[rSP] = regs[rSP]
    BY <2>1, SafeDispatch
  <2> QED
    BY <1>2, <2>2, QuietEnds DEF Brk, Halt, memory
<1>3. CASE WildFetch
  BY <1>3 DEF WildFetch, Fail, Quiet, memory
<1> QED
  BY <1>1, <1>2, <1>3

-----------------------------------------------------------------------------
\* The steps that do move SP, or a saved SP, stay within the stack.
Bounds == /\ SP <= StackSize
          /\ \A i \in 1 .. Len(frames) : frames[i].previous_SP <= StackSize

LEMMA QuietBounds ==
    ASSUME Bounds, Quiet PROVE Bounds'
BY DEF Bounds, Quiet, SP

\* A step of SP by one, up or down, that the tests of PUSH and POP allow.
LEMMA StepSP ==
    ASSUME MachineTypes, SP <= StackSize, NEW n \in {1, -1},
           n = 1 => SP < StackSize, n = -1 => SP # 0
    PROVE  Unsigned(Wrap(regs[rSP] + n)) <= StackSize
<1>1. regs[rSP] \in Cell /\ StackSize \in 1 .. CellHalf - 1
  BY SizesAssumption DEF MachineTypes, Slots, rSP
<1>2. regs[rSP] + n \in 0 .. StackSize
  BY <1>1, CellHalfAssumption DEF SP, Unsigned, Cell, CellMod
<1>3. Wrap(regs[rSP] + n) = regs[rSP] + n
  BY <1>1, <1>2, WrapCell, CellHalfAssumption DEF Cell
<1> QED
  BY <1>1, <1>2, <1>3 DEF Unsigned

LEMMA BoundsOfMove ==
    ASSUME Bounds, UNCHANGED frames, Unsigned(regs'[rSP]) <= StackSize PROVE Bounds'
BY DEF Bounds, SP

LEMMA StackSteps ==
    ASSUME MachineTypes, StackSafe, Bounds, Push \/ PushSR \/ Pop \/ PopSR PROVE Bounds'
<1>1. PICK ops : Dispatch(ops)
  BY DEF Push, PushSR, Pop, PopSR
<1>2. /\ instr.rdst \in Slots \ {rSP} /\ DOMAIN fetched = Slots
      /\ fetched[rSP] = regs[rSP] /\ rSP \in Slots
  BY <1>1, SafeDispatch DEF Slots, rSP
<1>3. SP \in Nat /\ StackSize \in Nat
  BY UnsignedType, SizesAssumption DEF MachineTypes, SP, rSP, Slots, Address
<1>4. ASSUME NEW s, Return(s) PROVE Bounds'
  BY <1>2, <1>4, QuietEnds, QuietBounds
<1>5. ASSUME ~StackFull PROVE Unsigned(Wrap(regs[rSP] + 1)) <= StackSize
  BY <1>3, <1>5, StepSP DEF StackFull, Bounds
<1>6. ASSUME NEW r, DOMAIN r = Slots, r[rSP] = regs[rSP], NEW n
      PROVE  SP_add(r, n)[rSP] = Wrap(regs[rSP] + n) /\ DOMAIN SP_add(r, n) = Slots
  BY <1>2, <1>6 DEF SP_add
<1>7. CASE Push
  <2>1. CASE ~StackFull
    <3>1. regs' = SkipOperand(SP_add(fetched, 1)) /\ UNCHANGED frames
      BY <1>7, <2>1 DEF Push, PushValue, Continue
    <3>2. SkipOperand(SP_add(fetched, 1))[rSP] = Wrap(regs[rSP] + 1)
      BY <1>2, <1>6, OtherSlots
    <3> QED
      BY <1>5, <2>1, <3>1, <3>2, BoundsOfMove
  <2> QED
    BY <1>4, <1>7, <2>1 DEF Push
<1>8. CASE PushSR
  <2>1. CASE ~StackFull
    <3>1. regs' = SP_add(fetched, 1) /\ UNCHANGED frames
      BY <1>8, <2>1 DEF PushSR, Continue
    <3> QED
      BY <1>2, <1>5, <1>6, <2>1, <3>1, BoundsOfMove
  <2> QED
    BY <1>4, <1>8, <2>1 DEF PushSR
<1>9. CASE Pop
  <2>1. CASE SP # 0
    <3>1. PICK r : /\ regs' = SP_add(r, -1) /\ UNCHANGED frames
                   /\ \/ r = fetched
                      \/ \E v : r = [fetched EXCEPT ![instr.rdst] = v]
      BY <1>9, <2>1 DEF Pop, Continue, memory
    <3>2. DOMAIN r = Slots /\ r[rSP] = regs[rSP]
      BY <1>2, <3>1, OtherSlots
    <3>3. Unsigned(Wrap(regs[rSP] + -1)) <= StackSize
      BY <1>3, <2>1, StepSP DEF Bounds
    <3> QED
      BY <1>6, <3>1, <3>2, <3>3, BoundsOfMove
  <2> QED
    BY <1>4, <1>9, <2>1 DEF Pop
<1>10. CASE PopSR
  BY <1>10, SafeDispatch DEF PopSR, Dispatch
<1> QED
  BY <1>7, <1>8, <1>9, <1>10

LEMMA FrameSteps ==
    ASSUME MachineTypes, StackSafe, Bounds, Call \/ Ret PROVE Bounds'
<1>1. PICK ops : Dispatch(ops)
  BY DEF Call, Ret
<1>2. /\ DOMAIN fetched = Slots /\ fetched[rSP] = regs[rSP]
      /\ rSP \in Slots /\ rIP \in Slots \ {rSP} /\ Decoded
  BY <1>1, SafeDispatch, DispatchType DEF Slots, rSP
<1>3. CASE Call
  <2>1. CASE Len(frames) < MaxFrames
    <3>1. regs' = [fetched EXCEPT ![rIP] = imm32] /\ frames' = Append(frames, CallFrame)
      BY <1>3, <2>1 DEF Call, Continue
    <3>2. regs'[rSP] = regs[rSP]
      BY <1>2, <3>1, OtherSlots
    <3>3. CallFrame \in SVMI_call_context /\ CallFrame.previous_SP = SP
      <4>1. fetched[rIP] \in Int /\ regs[rSP] \in Cell
        BY <1>2, CellHalfAssumption DEF Decoded, RegisterFile, MachineTypes, Cell
      <4> QED
        BY <4>1, WrapType, UnsignedType
        DEF CallFrame, SVMI_call_context, SVM_CELL_SIZE, SP
    <3>4. frames \in Seq(SVMI_call_context)
      BY DEF MachineTypes
    <3> QED
      BY <3>1, <3>2, <3>3, <3>4, AppendProperties DEF Bounds, SP
  <2> QED
    BY <1>2, <1>3, <2>1, QuietEnds, QuietBounds DEF Call
<1>4. CASE Ret
  <2>1. CASE frames # <<>>
    <3> DEFINE top == frames[Len(frames)]
    <3>1. /\ regs' = [fetched EXCEPT ![rSP] = Wrap(top.previous_SP),
                                     ![rIP] = Wrap(top.return_address)]
          /\ frames' = SubSeq(frames, 1, Len(frames) - 1)
      BY <1>4, <2>1 DEF Ret, Continue
    <3>2. frames \in Seq(SVMI_call_context)
      BY DEF MachineTypes
    <3>3. /\ \A i \in 1 .. Len(frames') : frames'[i] = frames[i] /\ i \in 1 .. Len(frames)
          /\ Len(frames) \in 1 .. Len(frames) /\ top \in SVMI_call_context
      BY <2>1, <3>1, <3>2, FrontElements
    <3>4. Unsigned(Wrap(top.previous_SP)) <= StackSize
      BY <3>3, WrapUnsigned DEF Bounds, SVMI_call_context
    <3>5. regs'[rSP] = Wrap(top.previous_SP)
      BY <1>2, <3>1
    <3> QED
      BY <3>3, <3>4, <3>5 DEF Bounds, SP
  <2> QED
    BY <1>2, <1>4, <2>1, QuietEnds, QuietBounds DEF Ret
<1> QED
  BY <1>3, <1>4

LEMMA HostSteps ==
    ASSUME MachineTypes, Bounds, Host PROVE Bounds'
<1>1. DOMAIN regs = Slots /\ rSP \in Slots /\ rIP # rSP
  BY DEF MachineTypes, Slots, rSP, rIP
<1>2. ASSUME NEW v, HostPushArg(v) PROVE Bounds'
  <2>1. regs'[rSP] = Wrap(regs[rSP] + 1) /\ UNCHANGED frames
    BY <1>1, <1>2 DEF HostPushArg, SP_add
  <2>2. Unsigned(Wrap(regs[rSP] + 1)) <= StackSize
    BY <1>2, StepSP, SizesAssumption DEF HostPushArg, Stack, Bounds
  <2> QED
    BY <2>1, <2>2, BoundsOfMove
<1>3. ASSUME NEW a, HostCall(a) PROVE Bounds'
  BY <1>1, <1>3, QuietBounds DEF HostCall, Quiet, memory
<1>4. CASE HostFinish
  BY <1>1, <1>4, BoundsOfMove, SizesAssumption DEF HostFinish, Unsigned, memory
<1> QED
  BY <1>2, <1>3, <1>4 DEF Host

\* A native keeps SP, but for the steps it takes as a host.
LEMMA NativeSteps ==
    ASSUME MachineTypes, StackSafe, Bounds, Natives PROVE Bounds'
<1>1. CASE NativeStarts
  <2>1. fetched[rSP] = regs[rSP]
    BY <1>1, SafeDispatch DEF NativeStarts
  <2> QED
    BY <1>1, <2>1, QuietBounds DEF NativeStarts, Quiet, memory
<1>2. ASSUME NEW v, NativeReturns(v) PROVE Bounds'
  <2>1. DOMAIN regs = Slots /\ rSP \in Slots /\ rA \in Slots \ {rSP}
    BY DEF MachineTypes, Slots, rSP, rA
  <2>2. /\ [regs EXCEPT ![rA] = v][rSP] = regs[rSP]
        /\ DOMAIN [regs EXCEPT ![rA] = v] = Slots
    BY <2>1, OtherSlots
  <2>3. IP_add([regs EXCEPT ![rA] = v], SVM_CELL_SIZE)[rSP] = regs[rSP]
    BY <2>2, OtherSlots
  <2> QED
    BY <1>2, <2>3, QuietBounds DEF NativeReturns, Quiet, memory
<1> QED
  BY <1>1, <1>2 DEF Natives

\* A program that names SP as no destination keeps it, and what RET will
\* restore, within the stack: PUSH and POP test before they move.
THEOREM StackIsBounded == Spec => []StackBounds
<1>1. Init => StackBounds
  <2> SUFFICES ASSUME Init PROVE StackBounds
    OBVIOUS
  <2>1. regs[rSP] = 0 /\ Len(frames) = 0
    BY EmptySeq DEF Init, Slots, rSP
  <2> QED
    BY <2>1, SizesAssumption DEF StackBounds, SP, Unsigned
<1>2. MachineTypes /\ StackBounds /\ [Next]_vars => StackBounds'
  <2> SUFFICES ASSUME MachineTypes, StackBounds, [Next]_vars, StackSafe' PROVE Bounds'
    BY DEF StackBounds, Bounds
  <2>1. code' = code
    BY DEF Next, Exec, Host, Natives, NativeStarts, NativeReturns, Ended, vars, Dispatch, NoEffect, MovReg, MovMem, MovInvalid,
       AddSub, IncDec, Mul, Div, Mod, Shift, Bitwise, Not, Cmp, Jmp, JumpIf, Loop, Push,
       PushSR, Pop, PopSR, Call, NCall, Ret, Brk, Halt, WildFetch, HostPushArg,
       HostCall, HostFinish
  <2>2. StackSafe /\ Bounds
    BY <2>1 DEF StackSafe, StackBounds, Bounds
  <2>3. CASE Exec
    BY <2>2, <2>3, QuietBounds, QuietMoves, QuietArithmetic, QuietLogic, QuietJumps,
       QuietControl, StackSteps, FrameSteps DEF Exec
  <2>4. CASE Host
    BY <2>2, <2>4, HostSteps
  <2>5. CASE Natives
    BY <2>2, <2>5, NativeSteps
  <2>6. CASE Ended \/ UNCHANGED vars
    BY <2>2, <2>6, QuietBounds DEF Ended, vars, memory, Quiet
  <2> QED
    BY <2>3, <2>4, <2>5, <2>6 DEF Next
<1> QED
  BY <1>1, <1>2, MachineKeepsTypes, PTL DEF Spec

-----------------------------------------------------------------------------
\* The flags of one number are never both of them.
LEMMA OneFlag == ASSUME NEW v PROVE SR_set_flags(SR_reset, v) # Flags
BY DEF SR_set_flags, SR_reset, Flags, VMSRF_ZF, VMSRF_SF

\* The flags after a step: as before, none, or those of one number.
FlagsOfNumber(f) == f = sr \/ f = SR_reset \/ \E v : f = SR_set_flags(SR_reset, v)

LEMMA FlagsAfterExec ==
    ASSUME Exec, ~WildFetch => ~instr.fp /\ instr.opcode # "POPSR"
    PROVE  FlagsOfNumber(sr')
<1>1. ASSUME NEW r, NEW v, SetResult(r, v) PROVE FlagsOfNumber(sr')
  BY <1>1 DEF SetResult, Continue, FlagsOfNumber
<1>2. ASSUME (\E s : Return(s)) \/ (\E m : Fail(m)) \/ (\E r : Continue(r, SR_reset))
      PROVE  FlagsOfNumber(sr')
  BY <1>2 DEF Return, Fail, Continue, FlagsOfNumber
<1>3. CASE AddSub \/ IncDec \/ Mul \/ Div \/ Mod \/ Bitwise
  <2>1. ~instr.fp \/ WildFetch
    OBVIOUS
  <2>2. CASE WildFetch
    BY <1>2, <2>2 DEF WildFetch
  <2> QED
    BY <1>1, <1>2, <1>3, <2>1, <2>2
    DEF AddSub, IncDec, Mul, Div, Mod, Bitwise, Divide, IsFloat
<1>4. CASE Shift \/ Cmp
  <2>1. CASE WildFetch
    BY <1>2, <2>1 DEF WildFetch
  <2>2. CASE ~WildFetch
    BY <1>4, <2>2 DEF Shift, Cmp, IsFloat, Continue, FlagsOfNumber
  <2> QED
    BY <2>1, <2>2
<1>5. CASE PopSR
  <2>1. CASE WildFetch
    BY <1>2, <2>1 DEF WildFetch
  <2> QED
    BY <1>5, <2>1 DEF PopSR, Dispatch
<1>6. CASE NoEffect \/ MovReg \/ MovMem \/ MovInvalid \/ Not \/ Jmp \/ JumpIf \/ Loop
  BY <1>2, <1>6 DEF NoEffect, MovReg, MovMem, MovInvalid, Not, Jmp, JumpIf, Loop
<1>7. CASE Push \/ PushSR \/ Pop \/ Call \/ NCall \/ Ret \/ Brk \/ Halt \/ WildFetch
  BY <1>2, <1>7
  DEF Push, PushValue, PushSR, Pop, Call, NCall, Ret, Brk, Halt, WildFetch
<1> QED
  BY <1>3, <1>4, <1>5, <1>6, <1>7 DEF Exec

\* In a program of integers without POPSR zero and negative are never both set.
THEOREM FlagsAreExclusive == Spec => []FlagsExclusive
<1> DEFINE Integral == \A i \in 1 .. Len(code) : ~code[i].fp /\ code[i].opcode # "POPSR"
<1>1. Init => FlagsExclusive
  BY DEF Init, FlagsExclusive, Flags
<1>2. MachineTypes /\ FlagsExclusive /\ [Next]_vars => FlagsExclusive'
  <2> SUFFICES ASSUME MachineTypes, FlagsExclusive, [Next]_vars, Integral' PROVE sr' # Flags
    BY DEF FlagsExclusive
  <2>1. code' = code
    BY DEF Next, Exec, Host, Natives, NativeStarts, NativeReturns, Ended, vars, Dispatch, NoEffect, MovReg, MovMem, MovInvalid,
       AddSub, IncDec, Mul, Div, Mod, Shift, Bitwise, Not, Cmp, Jmp, JumpIf, Loop, Push,
       PushSR, Pop, PopSR, Call, NCall, Ret, Brk, Halt, WildFetch, HostPushArg,
       HostCall, HostFinish
  <2>2. Integral /\ sr # Flags
    BY <2>1 DEF FlagsExclusive
  <2>3. CASE Exec
    <3>1. ASSUME NEW ops, Dispatch(ops) PROVE ~instr.fp /\ instr.opcode # "POPSR"
      BY <2>2, <3>1, InstrOfCode
    <3>2. (\E ops : Dispatch(ops)) \/ WildFetch
      BY <2>3 DEF Exec, NoEffect, MovReg, MovMem, MovInvalid, AddSub, IncDec, Mul, Div,
         Mod, Shift, Bitwise, Not, Cmp, Jmp, JumpIf, Loop, Push, PushSR, Pop, PopSR,
         Call, NCall, Ret, Brk, Halt
    <3>3. FlagsOfNumber(sr')
      BY <2>3, <3>1, <3>2, FlagsAfterExec
    <3> QED
      BY <2>2, <3>3, OneFlag DEF FlagsOfNumber, SR_reset, Flags
  <2>4. CASE Host
    BY <2>2, <2>4 DEF Host, HostPushArg, HostCall, HostFinish
  <2>5. CASE Natives
    BY <2>2, <2>5 DEF Natives, NativeStarts, NativeReturns, SR_reset, Flags
  <2>6. CASE Ended \/ UNCHANGED vars
    BY <2>2, <2>6 DEF Ended, vars
  <2> QED
    BY <2>3, <2>4, <2>5, <2>6 DEF Next
<1> QED
  BY <1>1, <1>2, MachineKeepsTypes, PTL DEF Spec

-----------------------------------------------------------------------------
\* The process ends at a division without a quotient, or at the end of the memory
\* for frames: every other case returns, continues or goes wild.
Faults == /\ mode # "terminated" /\ mode' = "terminated"
FaultCause == \/ /\ instr.opcode = "MOD" \/ (instr.opcode = "DIV" /\ ~IsFloat)
                 /\ DivisionFaults(fetched[rA], RightArg)
              \/ instr.opcode = "CALL" /\ Len(frames) = MaxFrames

LEMMA NoFault ==
    ASSUME Faults
    PROVE  /\ \A r, f : ~Continue(r, f)
           /\ \A s : ~Return(s) /\ ~Fail("wild")
           /\ \A r, v : ~SetResult(r, v) /\ ~SetFloat(r)
BY DEF Faults, Continue, Return, Fail, SetResult, SetFloat

LEMMA FaultsOfExec ==
    ASSUME MachineTypes, Exec, Faults PROVE FaultCause
<1>1. CASE Div
  <2>1. /\ instr.opcode = "DIV" /\ ~IsFloat /\ ~DivisorIsZero
        /\ Divide(fetched[rA], RightArg, Quotient(fetched[rA], RightArg))
    BY <1>1, NoFault DEF Div, Dispatch
  <2>2. DivisionFaults(fetched[rA], RightArg)
    BY <2>1, NoFault DEF Divide, DivisorIsZero
  <2> QED
    BY <2>1, <2>2 DEF FaultCause
<1>7. CASE Mod
  <2>1. /\ instr.opcode = "MOD" /\ ~DivisorIsZero
        /\ Divide(fetched[rA], RightArg, Remainder(fetched[rA], RightArg))
    BY <1>7, NoFault DEF Mod, Dispatch
  <2>2. DivisionFaults(fetched[rA], RightArg)
    BY <2>1, NoFault DEF Divide, DivisorIsZero
  <2> QED
    BY <2>1, <2>2 DEF FaultCause
<1>2. CASE Call
  <2>1. Len(frames) \in Nat /\ Len(frames) <= MaxFrames
    BY LenProperties DEF MachineTypes
  <2> QED
    BY <1>2, <2>1, NoFault, SizesAssumption DEF Call, Dispatch, FaultCause
<1>3. CASE NoEffect \/ MovReg \/ MovMem \/ MovInvalid \/ AddSub \/ IncDec \/ Mul
  BY <1>3, NoFault DEF NoEffect, MovReg, MovMem, MovInvalid, AddSub, IncDec, Mul
<1>4. CASE Shift \/ Bitwise \/ Not \/ Cmp \/ Jmp \/ JumpIf \/ Loop
  BY <1>4, NoFault DEF Shift, Bitwise, Not, Cmp, Jmp, JumpIf, Loop
<1>5. CASE Push \/ PushSR \/ Pop \/ PopSR
  BY <1>5, NoFault DEF Push, PushValue, PushSR, Pop, PopSR
<1>6. CASE NCall \/ Ret \/ Brk \/ Halt \/ WildFetch
  BY <1>6, NoFault DEF NCall, Ret, Brk, Halt, WildFetch
<1> QED
  BY <1>1, <1>2, <1>3, <1>4, <1>5, <1>6, <1>7 DEF Exec

\* Division by zero is always caught: the process ends in exec only at the
\* smallest cell divided by -1, or when the frames exhaust the memory.
THEOREM FaultsHaveNoQuotient == Spec => FaultsOnlyWithoutQuotient
<1>1. MachineTypes /\ [Next]_vars => [Faults => FaultCause]_vars
  <2> SUFFICES ASSUME MachineTypes, Next, Faults PROVE FaultCause
    OBVIOUS
  <2>1. CASE Exec
    BY <2>1, FaultsOfExec
  <2>2. CASE Host \/ Natives \/ Ended
    BY <2>2 DEF Host, HostPushArg, HostCall, HostFinish, Natives, NativeStarts,
       NativeReturns, Ended, vars, Faults
  <2> QED
    BY <2>1, <2>2 DEF Next
<1>2. [][Faults => FaultCause]_vars => FaultsOnlyWithoutQuotient
  BY PTL DEF FaultsOnlyWithoutQuotient, Faults, FaultCause
<1> QED
  BY <1>1, <1>2, MachineKeepsTypes, PTL DEF Spec
=============================================================================

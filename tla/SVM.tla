-------------------------------- MODULE SVM --------------------------------
(***************************************************************************)
(* The instruction set of the Simple Virtual Machine, as SVM.h and the     *)
(* register file of svmi.h fix it: cells and their wrap-around arithmetic, *)
(* the slots of the register union, the register names, the flags, the     *)
(* words of a code segment.  The interpreter that runs it is SVMI.         *)
(*                                                                         *)
(* The widths are parameters: a cell ranges over 2*CellHalf values and a   *)
(* byte over ByteMod (2^31 and 256 in the source).                         *)
(***************************************************************************)
EXTENDS Integers

CONSTANTS CellHalf,       \* half the number of values of a cell_t
          ByteMod,        \* the number of values of a uint8_t
          BitOp(_, _, _)  \* what SHL, SHR, AND, OR and XOR compute bit by bit

Cell    == -CellHalf .. CellHalf - 1
CellMod == 2 * CellHalf
Byte    == 0 .. ByteMod - 1

BitOps  == {"SHL", "SHR", "AND", "OR", "XOR"}

ASSUME CellHalfAssumption == CellHalf \in Nat \ {0}
ASSUME ByteModAssumption  == ByteMod \in Nat \ {0} /\ ByteMod <= CellHalf
ASSUME BitOpAssumption    ==
    \A o \in BitOps : \A a, b \in Cell : BitOp(o, a, b) \in Cell

-----------------------------------------------------------------------------
\* Arithmetic on cell_t as the x86 build performs it: two's complement, the
\* quotient truncated towards zero.  Unsigned is the ucell_t view of a cell.
Wrap(x)     == ((x + CellHalf) % CellMod) - CellHalf
Unsigned(c) == IF c < 0 THEN c + CellMod ELSE c
Magnitude(x) == IF x < 0 THEN -x ELSE x
Quotient(a, b) ==
    LET q == Magnitude(a) \div Magnitude(b)
    IN  IF (a < 0) = (b < 0) THEN q ELSE -q
Remainder(a, b) ==
    LET r == Magnitude(a) % Magnitude(b)
    IN  IF a < 0 THEN -r ELSE r

\* The quotient of the least cell by -1 has no cell: the division faults.
DivisionFaults(a, b) == a = -CellHalf /\ b = -1

-----------------------------------------------------------------------------
\* Slots of the union { A..D, X..W, IP, SP, CS, DS, SS; regs[13] }.
rA == 0
rB == 1
rC == 2
rW == 7
rIP == 8
rSP == 9
Slots == 0 .. 12
GeneralSlots == 0 .. 7

\* The numbers enum SVM_REGS gives to names of registers: SR is 8 among them, so
\* that IP, 9, selects the slot of SP, and each name behind it the next slot.
SVM_REGS == 0 .. 13

\* Sizes in bytes, and the flags of the state register SR.
VM_I_SIZE     == 4
SVM_CELL_SIZE == 4
VMSRF_ZF == "ZF"
VMSRF_SF == "SF"
Flags    == {VMSRF_ZF, VMSRF_SF}

\* SVMI_VCPU_registers::SR_set_flags, SR_is_set; SR as the cell PUSHSR stores
\* and POPSR loads, of which only the bits ZF (1) and SF (2) are ever tested.
SR_set_flags(f, v) ==
    f \cup {z \in {VMSRF_ZF} : v = 0} \cup {s \in {VMSRF_SF} : v < 0}
SR_is_set(f, mask) == f \cap mask # {}
SRToCell(f) == (IF VMSRF_ZF \in f THEN 1 ELSE 0) + (IF VMSRF_SF \in f THEN 2 ELSE 0)
CellToSR(c) == {z \in {VMSRF_ZF} : Unsigned(c) % 2 = 1}
               \cup {s \in {VMSRF_SF} : (Unsigned(c) \div 2) % 2 = 1}

-----------------------------------------------------------------------------
\* SVMI_ARG_TYPE, and the fourth value the two mode bits can hold.
Modes == {"REG", "ADDR", "IMM", "MODE3"}

JumpOps  == {"JZ", "JNZ", "JE", "JNE", "JL", "JLE", "JG", "JGE"}
IdleOps  == {"NOP", "CASE", "STOI", "ITOS", "FTOI", "ITOF", "ROUND", "CEIL",
             "FLOOR", "UNKNOWN"}  \* UNKNOWN: no case of the switch
SVM_OP   == BitOps \cup JumpOps \cup IdleOps \cup
            {"MOV", "ADD", "INC", "SUB", "DEC", "MUL", "DIV", "MOD", "NOT",
             "CMP", "JMP", "LOOP", "PUSH", "PUSHSR", "POP", "POPSR", "CALL",
             "NCALL", "RET", "BRK", "HALT"}

\* A word of the code segment under its two readings: the fields
\* SVM_instr_fetch takes out of it, and its value as an imm32 operand.
Word == [opcode : SVM_OP, mode : Modes, rdst : Slots, rsrc : Slots,
         fp : BOOLEAN, imm : Cell]

\* The instructions that are followed by an imm32 word.
OperandOps == {"MOV", "ADD", "SUB", "MUL", "DIV", "MOD", "AND", "OR", "XOR",
               "CMP", "JMP", "LOOP", "PUSH"} \cup JumpOps
HasOperand(w) == \/ w.opcode \in {"CALL", "NCALL"}
                 \/ w.opcode \in OperandOps /\ w.mode = "IMM"
============================================================================

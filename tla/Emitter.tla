------------------------------ MODULE Emitter ------------------------------
(***************************************************************************)
(* scc_code_emitter: the methods that write instructions, and m_code.      *)
(* write makes room for a word and then stores it behind that room, so     *)
(* that m_code has the size of what was written, and holds zeros.  Every   *)
(* other method of the class, from shl to get_code, is empty.              *)
(***************************************************************************)
EXTENDS SVMCode, Sequences

CONSTANTS Regs,     \* SVM_REGS, as numbers
          Values,   \* immediate operands, of which SVM_ftoc makes cells too
          MaxWords  \* what the vector can hold before resize throws

VARIABLES m_code,   \* word by word
          written,  \* history: the words that write was given
          state     \* "running"; "wild" when a store has hit something else

vars == <<m_code, written, state>>

\* enum SVM_OP, as far as the methods name it, and SVMI_ARG_TYPE.
OpNumber == [NOP |-> 0, MOV |-> 1, ADD |-> 2, INC |-> 3, SUB |-> 4, DEC |-> 5, MUL |-> 6,
             DIV |-> 7, MOD |-> 8]
ModeNumber == [REG |-> 0, ADDR |-> 1, IMM |-> 2]
VMI_F_FP_OP == 1

Instruction(op, mode, dst, src, flags) ==
    [opcode |-> OpNumber[op], mode |-> ModeNumber[mode], rsrc |-> src, rdst |-> dst,
     flags |-> flags]

\* Methods without a value.  add, sub, mul, div, mod take the flags of the caller,
\* and so do inc and dec; fsub of two registers calls add.
WithRegisters ==
    {Instruction("NOP", "REG", 0, 0, 0)}
    \cup {Instruction("MOV", mode, d, s, 0) : mode \in {"REG", "ADDR"}, d \in Regs, s \in Regs}
    \cup {Instruction(op, "REG", d, s, f) : op \in {"ADD", "SUB", "MUL", "DIV", "MOD"},
                                            d \in Regs, s \in Regs, f \in {0, VMI_F_FP_OP}}
    \cup {Instruction(op, "REG", d, 0, f) : op \in {"INC", "DEC"}, d \in Regs,
                                            f \in {0, VMI_F_FP_OP}}
\* Methods with a value.  add and fadd write theirs behind a word that says REG.
WithValue ==
    {Instruction("ADD", "REG", d, 0, f) : d \in Regs, f \in {0, VMI_F_FP_OP}}
    \cup {Instruction("MOV", "IMM", d, 0, 0) : d \in Regs}
    \cup {Instruction(op, "IMM", d, 0, f) : op \in {"SUB", "MUL", "DIV", "MOD"},
                                            d \in Regs, f \in {0, VMI_F_FP_OP}}

-----------------------------------------------------------------------------
\* write, of each of the words: resize adds a zero; the store behind it hits
\* whatever is there, the program's own state or nothing that is used.
Resized(words) == Len(m_code) + Len(words) <= MaxWords
Stores(words) ==
    /\ m_code' = m_code \o [i \in 1 .. Len(words) |-> 0]
    /\ written' = written \o words
    /\ state' \in {"running", "wild"}

WriteInstruction(i) ==
    Resized(<<0>>) /\ Stores(<<SVM_instr_write(i)>>)
WriteWithValue(i, arg) ==
    Resized(<<0, 0>>) /\ Stores(<<SVM_instr_write(i), arg>>)
\* resize throws between the word of the instruction and that of its value.
WriteHalf(i) ==
    Len(m_code) + 1 = MaxWords /\ Stores(<<SVM_instr_write(i)>>)

Init == m_code = <<>> /\ written = <<>> /\ state = "running"
Next ==
    /\ state = "running"
    /\ \/ \E i \in WithRegisters : WriteInstruction(i)
       \/ \E i \in WithValue, arg \in Values : WriteWithValue(i, arg)
       \/ \E i \in WithValue : WriteHalf(i)
Spec == Init /\ [][Next]_vars

-----------------------------------------------------------------------------
\* "//!!! here class for collecting generated byte-code" (scc_code_emitter.h:6):
\* m_code holds the words that the methods have written.
CodeIsCollected == state = "running" => m_code = written
=============================================================================

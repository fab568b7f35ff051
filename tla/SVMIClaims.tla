----------------------------- MODULE SVMIClaims -----------------------------
(***************************************************************************)
(* What the mnemonic table of the course work says of a jump, where exec   *)
(* does something else.  A run refutes it; PROJECT.json quotes the line.   *)
(***************************************************************************)
EXTENDS SVMI

Executing(ops) == Running /\ IsCode(IP) /\ instr.opcode \in ops

\* JZ and JE jump when the zero flag is set: exec clears SR before the test.
JumpsIfZero ==
    [][Executing({"JE", "JZ"}) /\ instr.mode = "IMM" /\ VMSRF_ZF \in sr =>
          regs'[rIP] = regs[rIP] + VM_I_SIZE + SVM_CELL_SIZE + imm32]_vars
=============================================================================

--------------------------- MODULE MCSVMIClaims ---------------------------
(* A comparison that sets ZF, and a jump that depends on it.               *)
EXTENDS SVMIClaims, MCSVMI

ClaimPrograms ==
    {<<W("CMP", "REG", rA, rA), W("JZ", "IMM", rA, rA), Number(4, "SUB"),
       Plain("NOP"), Plain("HALT")>>}
===========================================================================

--------------------------- MODULE MCSVMIStatic ---------------------------
(***************************************************************************)
(* Well-formed programs of three instructions, and what they promise.      *)
(***************************************************************************)
EXTENDS SVMIStatic

\* BitOp at the instructions these programs hold: they shift nothing.
MCBitOp(o, a, b) == a

W(o, m, d, s) == [opcode |-> o, mode |-> m, rdst |-> d, rsrc |-> s, fp |-> FALSE,
                  imm |-> CellHalf - 1]
Plain(o)      == W(o, "REG", rA, rA)
Number(n, o)  == [Plain(o) EXCEPT !.imm = n]
Negative(n)   == [opcode |-> "UNKNOWN", mode |-> "MODE3", rdst |-> rW, rsrc |-> 12,
                  fp |-> TRUE, imm |-> n]
Numbers == {Negative(-12), Negative(-8), Number(1, "MOV"), Number(4, "SUB"), Number(8, "MOD"),
            Number(12, "OR")}

Singles == {<<w>> : w \in {W("INC", "REG", rC, rC), Plain("PUSH"), Plain("POP"), Plain("RET"),
                           Plain("HALT"), Plain("POPSR"), W("MOV", "ADDR", rA, rA)}}
\* A counter, moved small or large numbers; natives of every kind of index.
Pairs   == {<<w, n>> : w \in {W("JNE", "IMM", rA, rA), W("JG", "IMM", rA, rA),
                              W("LOOP", "IMM", rA, rA), Plain("CALL")}, n \in Numbers}
      \cup {<<W("MOV", "IMM", rC, rA), n>> : n \in {Number(1, "MOV"), Number(4, "SUB")}}
      \cup {<<Plain("NCALL"), n>> : n \in {Negative(-8), Number(1, "MOV"), Number(8, "MOD")}}
Units   == Singles \cup Pairs
Ends    == {<<Plain("RET")>>, <<Plain("HALT")>>, <<W("JMP", "IMM", rA, rA), Negative(-12)>>}
WellFormedPrograms ==
    {p \in {u \o v \o w : u \in Units, v \in Units, w \in Ends} : WellFormed(p)}

\* Programs with a loop, counted, whose other instructions are any of Units.
Loops == {<<W("LOOP", "IMM", rA, rA), n>> : n \in Numbers}
CountedPrograms ==
    {p \in {u \o v \o w : u \in Units, v \in Loops, w \in Ends}
           \cup {<<W("MOV", "IMM", rC, rA), Number(4, "SUB")>> \o u \o v \o w :
                 u \in Units, v \in Loops, w \in Ends} :
        \E S \in SUBSET Addresses(p) : Closed(p, S) /\ Counted(p, S)}

MCPrograms == WellFormedPrograms \cup CountedPrograms
===========================================================================

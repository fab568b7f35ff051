------------------------------ MODULE MCSVMI ------------------------------
(***************************************************************************)
(* Small instances of SVMI: cells of 6 bits, bytes of 2, programs of a few *)
(* words.  A word that is a small number n also reads as the instruction   *)
(* n, as it does in the source; the value of a word that is an instruction *)
(* with a mode or registers is some large number, here the largest cell.   *)
(***************************************************************************)
EXTENDS SVMI

BW == INSTANCE Bitwise
MCBitOp(o, a, b) ==
    LET m == Unsigned(a)  n == Unsigned(b)  count == 2 ^ (n % 6)
    IN  CASE o = "SHL" -> Wrap(a * count)
          [] o = "SHR" -> a \div count
          [] o = "AND" -> Wrap(BW!&(m, n))
          [] o = "OR"  -> Wrap(BW!|(m, n))
          [] o = "XOR" -> Wrap(BW!^^(m, n))

W(o, m, d, s) == [opcode |-> o, mode |-> m, rdst |-> d, rsrc |-> s, fp |-> FALSE,
                  imm |-> CellHalf - 1]
F(o, m, d, s) == [W(o, m, d, s) EXCEPT !.fp = TRUE]
Plain(o)      == W(o, "REG", rA, rA)
\* The numbers, whose opcode bits are those of the instruction of that number.
Number(n, o)  == [Plain(o) EXCEPT !.imm = n]
Negative(n)   == [opcode |-> "UNKNOWN", mode |-> "MODE3", rdst |-> 12, rsrc |-> 12,
                  fp |-> TRUE, imm |-> n]

Numbers == {Number(0, "NOP"), Number(1, "MOV"), Number(4, "SUB"), Negative(-8)}
Arithmetic ==
    {W("ADD", "REG", rA, rB), W("SUB", "IMM", rA, rA), F("ADD", "IMM", rA, rA),
     W("INC", "REG", rA, rA), W("DEC", "REG", rB, rA), F("INC", "REG", rB, rA),
     W("MUL", "REG", rA, rB), W("DIV", "REG", rA, rB), F("DIV", "REG", rA, rB),
     W("DIV", "IMM", rA, rA), W("MOD", "REG", rA, rB), W("MOD", "IMM", rA, rA),
     W("CMP", "REG", rA, rB), W("CMP", "IMM", rA, rA), W("INC", "ADDR", rA, rA)}
Logic == {W("SHL", "REG", rA, rB), W("SHR", "REG", rB, rA), W("AND", "REG", rA, rB),
          W("OR", "IMM", rB, rA), W("XOR", "REG", rA, rA), W("NOT", "REG", rA, rA)}
Moves == {W("MOV", "IMM", rA, rA), W("MOV", "REG", rB, rSP), W("MOV", "ADDR", rB, rA),
          W("MOV", "MODE3", rA, rA), W("MOV", "REG", rSP, rA)}
Jumps == {W("JMP", "IMM", rA, rA), W("JMP", "REG", rA, rB), W("JZ", "IMM", rA, rA),
          W("JNE", "IMM", rA, rA), W("JL", "IMM", rA, rA), W("JLE", "REG", rA, rA),
          W("JG", "IMM", rA, rA), W("JGE", "REG", rA, rB), W("LOOP", "IMM", rA, rA)}
Stacking == {W("PUSH", "IMM", rA, rA), W("PUSH", "REG", rA, rSP), Plain("PUSHSR"),
             W("POP", "REG", rB, rA), W("POP", "IMM", rA, rA), Plain("POPSR")}
Control == {Plain("CALL"), Plain("NCALL"), Plain("RET"), Plain("BRK"), Plain("HALT")}
Instructions == Arithmetic \cup Logic \cup Moves \cup Jumps \cup Stacking \cup Control
Words == Instructions \cup Numbers

\* Every program of two words and a HALT.  Calling it again and again runs the
\* two instructions in any number of turns on one context.
TwoWords == {<<v, w, Plain("HALT")>> : v, w \in Words}

\* A procedure whose native calls back, at 20, and may RET out of the procedure
\* or HALT; what exec goes on with then is at 32, or behind the HALT at 8.
CallBack == {<<Plain("CALL"), Number(12, "OR"), Plain("HALT"), Plain("NCALL"), Number(0, "NOP"),
               v, e, Plain("NOP"), w, Plain("HALT")>> :
             v, w \in {W("PUSH", "REG", rA, rSP), W("POP", "REG", rB, rA), Plain("CALL"),
                      Plain("RET"), W("DEC", "REG", rA, rA)},
             e \in {Plain("RET"), Plain("HALT")}}
MCPrograms == TwoWords \cup CallBack
===========================================================================

------------------------------ MODULE SVMCode ------------------------------
(***************************************************************************)
(* The words of the machine: an instruction packed into an int and taken   *)
(* out of it again (SVM.h over bitop.h).  A field is the bits from that of *)
(* weight unit on, and has range values.                                   *)
(***************************************************************************)
EXTENDS Integers

FlagsUnit == 67108864   \* 2^26: the flags hold the sign of the int

READ_BITS(value, unit, range) == (value \div unit) % range

\* The bits of data as they count in an int.
InInt(bits, unit) == IF unit = FlagsUnit /\ bits >= 32 THEN bits - 64 ELSE bits
WRITE_BITS(value, data, unit, range) ==
    value + (InInt(data % range, unit) - InInt(READ_BITS(value, unit, range), unit)) * unit

SVM_instr_write(src) ==
    LET opcode == WRITE_BITS(0,      src.opcode, 1,         65536)
        mode   == WRITE_BITS(opcode, src.mode,   65536,     4)
        rsrc   == WRITE_BITS(mode,   src.rsrc,   262144,    16)
        rdst   == WRITE_BITS(rsrc,   src.rdst,   4194304,   16)
    IN  WRITE_BITS(rdst, src.flags, FlagsUnit, 64)

SVM_instr_fetch(word) == [opcode |-> READ_BITS(word, 1,         65536),
                          mode   |-> READ_BITS(word, 65536,     4),
                          rsrc   |-> READ_BITS(word, 262144,    16),
                          rdst   |-> READ_BITS(word, 4194304,   16),
                          flags  |-> READ_BITS(word, FlagsUnit, 64)]

\* What of an instruction has a place in its word.
Truncated(i) == [opcode |-> i.opcode % 65536, mode |-> i.mode % 4, rsrc |-> i.rsrc % 16,
                 rdst |-> i.rdst % 16, flags |-> i.flags % 64]
SVM_instruction == [opcode : Int, mode : Int, rsrc : Int, rdst : Int, flags : Int]
=============================================================================

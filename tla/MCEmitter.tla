----------------------------- MODULE MCEmitter -----------------------------
(* Two registers, whose numbers differ in their bits; values that look      *)
(* like an instruction, and a negative one.                                 *)
EXTENDS Emitter

MCRegs   == {0, 10}
MCValues == {0, -1, 65538}
=============================================================================

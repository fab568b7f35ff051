----------------------------- MODULE SVMIStatic -----------------------------
(***************************************************************************)
(* Programs a code generator may emit for SVMI: what the words must        *)
(* satisfy, checked without running them, so that exec never decodes       *)
(* anything but the instructions of the program.  The compiler of this     *)
(* repository has no generator yet; these are the obligations exec puts    *)
(* on one.                                                                 *)
(***************************************************************************)
EXTENDS SVMI

\* Instructions, and the addresses an instruction at a can pass control to:
\* the one behind it, the target of a relative jump, the target of a CALL.
Within(c, a) == a % VM_I_SIZE = 0 /\ a \div VM_I_SIZE < Len(c)
At(c, a) == c[a \div VM_I_SIZE + 1]
SizeAt(c, a) == IF HasOperand(At(c, a)) THEN VM_I_SIZE + SVM_CELL_SIZE ELSE VM_I_SIZE
Imm(c, a)   == At(c, a + VM_I_SIZE).imm
Addresses(c) == {VM_I_SIZE * i : i \in 0 .. Len(c) - 1}
Behind(c, a) ==
    IF At(c, a).opcode \in {"JMP", "RET", "HALT"} THEN {} ELSE {a + SizeAt(c, a)}
Targets(c, a) ==
    IF At(c, a).opcode \in JumpOps \cup {"JMP", "LOOP"} THEN {a + SizeAt(c, a) + Imm(c, a)}
    ELSE IF At(c, a).opcode = "CALL" THEN {Imm(c, a)} ELSE {}

\* Jumps are relative to an imm32, and the registers behind the general
\* purpose ones are no destination of any instruction.
Regular(w) ==
    /\ w.opcode \in JumpOps \cup {"JMP", "LOOP"} => w.mode = "IMM"
    /\ w.rdst \in GeneralSlots

Closed(c, S) ==
    /\ Entries \subseteq S
    /\ \A a \in S :
          /\ Regular(At(c, a))
          /\ HasOperand(At(c, a)) => Within(c, a + VM_I_SIZE)
          /\ Behind(c, a) \cup Targets(c, a) \subseteq S
WellFormed(c) == \E S \in SUBSET Addresses(c) : Closed(c, S)
Layouts == [c \in Programs |-> CHOOSE S \in SUBSET Addresses(c) : Closed(c, S)]
Starts  == Layouts[code]

ASSUME WellFormedAssumption == \A c \in Programs : WellFormed(c)
\* Addresses and the sums a jump forms stay clear of the sign bit.
ASSUME ShortAssumption == \A c \in Programs : VM_I_SIZE * Len(c) < CellHalf

\* Natives may push arguments and finish, but call no entry: a run inside a
\* native leaves IP at its own end, and exec goes on from there.
ASSUME NativesAssumption == NativeEntries = {}

-----------------------------------------------------------------------------
\* exec only ever decodes instructions of the program: IP is at one whenever
\* exec turns, and so is every address a RET will restore, whatever runs were
\* halted or failed with calls pending.
ControlFlowIntegrity ==
    /\ Running => IP \in Starts
    /\ \A i \in 1 .. Len(frames) : frames[i].return_address \in Starts

\* A well-formed program leaves its memory only from one of its instructions,
\* through a store to an address it computed or a native index below zero.
WildOnlyByData ==
    [][mode # "wild" /\ mode' = "wild" =>
          /\ IP \in Starts
          /\ \/ instr.opcode = "MOV" /\ instr.mode = "ADDR"
             \/ instr.opcode = "NCALL" /\ imm32 < 0]_vars

\* exec implements nested calls that return behind their CALL with its SP.
Nested == INSTANCE CallReturn
    WITH Sites    <- Address,
         CallSize <- VM_I_SIZE + SVM_CELL_SIZE,
         Pointers <- Address,
         at    <- IP,
         top   <- SP,
         calls <- [i \in 1 .. Len(frames) |->
                      [site |-> frames[i].return_address - VM_I_SIZE - SVM_CELL_SIZE,
                       top  |-> frames[i].previous_SP]]
CallsNest == Nested!Spec

-----------------------------------------------------------------------------
\* Programs whose only way back is LOOP: every other transfer goes forward, and
\* nothing writes C from the target of a LOOP on.
LoopTargets(c, S) ==
    UNION {Targets(c, a) : a \in {x \in S : At(c, x).opcode = "LOOP"}}
Counted(c, S) == \A a \in S :
    /\ At(c, a).opcode # "LOOP" => \A b \in Targets(c, a) : b > a
    /\ At(c, a).rdst = rC => \A b \in LoopTargets(c, S) : b > a

IsCounted == [c \in Programs |->
    \E S \in SUBSET Addresses(c) : Closed(c, S) /\ Counted(c, S)]

\* Such a program ends: each LOOP counts C down, and its other steps go forward.
CountedProgramsEnd == (IsCounted[code] /\ Running) ~> ~Running
=============================================================================

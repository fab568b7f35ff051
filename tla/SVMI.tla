-------------------------------- MODULE SVMI --------------------------------
(***************************************************************************)
(* The interpreter SVMI::exec and the public calls of SVMI_context a host  *)
(* makes around it: one context, one image, one host thread that pushes    *)
(* arguments, calls entries and finishes, as scvm/main.cpp does; and so    *)
(* may a native, on the context it is called with, before it returns.      *)
(*                                                                         *)
(* One action per group of cases of the switch.  Each contains the whole   *)
(* turn of the loop: the fetch, SR_reset, the step over the instruction    *)
(* word, the case, and the step over the imm32 where the case takes it.    *)
(***************************************************************************)
EXTENDS SVM, Sequences

CONSTANTS Programs,      \* code segments, sequences of words
          Entries,       \* byte addresses the host calls
          NativeEntries, \* and those a native calls
          StackSize,     \* m_nstack_size, in cells
          DataSize,      \* bytes of the data segment
          NumImports,    \* m_vnatives_idxs.size()
          ArgCells,      \* cells the host pushes as arguments
          NativeResults, \* cells natives return
          FloatCells,    \* cells that floating point results are stored as
          Garbage,       \* contents of cells nothing has written
          MaxFrames,     \* frames m_call_contexts holds before bad_alloc
          MaxNatives,    \* natives within natives that use the context
          DbgStops       \* answers of the debug procedure: stop or not

ASSUME ProgramsAssumption == Programs \subseteq Seq(Word)
ASSUME SizesAssumption ==
    /\ StackSize \in 1 .. CellHalf - 1 /\ DataSize \in 0 .. CellHalf
    /\ NumImports \in 0 .. CellHalf - 1 /\ MaxFrames \in Nat /\ MaxNatives \in Nat
ASSUME EntriesAssumption == Entries \cup NativeEntries \subseteq 0 .. CellMod - 1
ASSUME ValuesAssumption ==
    /\ ArgCells \subseteq Cell /\ NativeResults \subseteq Cell
    /\ FloatCells \subseteq Cell /\ Garbage \subseteq Cell
    /\ DbgStops \subseteq BOOLEAN

VARIABLES code,    \* the code segment, never written
          regs,    \* SVMI_VCPU_registers::regs
          sr,      \* SVMI_VCPU_registers::SR, the set of flags that are set
          frames,  \* m_call_contexts
          stack,   \* m_pstack
          data,    \* the data segment
          mode,    \* who runs; "wild" when the C++ program has left its memory
          status,  \* what the last exec returned
          natives  \* natives that have not returned, each in an exec of its own

memory == <<frames, stack, data>>
vars   == <<code, regs, sr, memory, mode, status, natives>>

SVMI_STATUS == {"OK", "INVALID_INSTRUCTION", "FLOATING_POINT_DIVISION_BY_ZERO",
                "INT_DIVISION_BY_ZERO", "EXECUTION_HALTED", "STACK_OVERFLOW",
                "CALL_CONTEXT_STACK_OVERFLOW", "IMPORT_INDEX_OUT_OF_BOUNDS"}
Address == 0 .. CellMod - 1      \* a uint32_t
SVMI_call_context == [return_address : Address, previous_SP : Address]

IP == Unsigned(regs[rIP])
SP == Unsigned(regs[rSP])
Stack   == 0 .. StackSize - 1
Running == mode = "exec"

-----------------------------------------------------------------------------
\* The words exec reads: the instruction at IP and the imm32 behind it.  A word
\* that does not start inside the code segment, or not at a multiple of the
\* word size, is outside the model: reading it is Wild.
IsCode(a)   == a % VM_I_SIZE = 0 /\ a \div VM_I_SIZE < Len(code)
WordAt(a)   == code[a \div VM_I_SIZE + 1]
instr       == WordAt(IP)
OperandAt   == IP + VM_I_SIZE
imm32       == WordAt(OperandAt).imm
ReadsOperand == HasOperand(instr) /\ (instr.opcode = "PUSH" => SP < StackSize)

\* The registers after the fetch, SR after SR_reset, and the steps over words.
KeepSR         == sr                      \* variant: no reset
SR_reset       == {}
IP_add(r, n)   == [r EXCEPT ![rIP] = Wrap(@ + n)]
fetched        == IP_add(regs, VM_I_SIZE)
SkipNothing(r) == r                       \* variant: no step over the imm32
SkipOperand(r) == IF instr.mode = "IMM" THEN IP_add(r, SVM_CELL_SIZE) ELSE r

\* The operand that is imm32 or the source register; the second operand of
\* the arithmetic on A, which is imm32 or B.
Source    == IF instr.mode = "IMM" THEN imm32 ELSE fetched[instr.rsrc]
RightArg  == IF instr.mode = "IMM" THEN imm32 ELSE fetched[rB]
Operative == instr.mode \in {"REG", "IMM"}
IsFloat   == instr.fp

\* exec turns to a case of the switch.
Dispatch(ops) ==
    /\ Running
    /\ IsCode(IP)
    /\ instr.opcode \in ops
    /\ ReadsOperand => IsCode(OperandAt)
    /\ UNCHANGED code

\* The ways a case ends: break, return, or the end of the process.
Continue(r, f) == regs' = r /\ sr' = f /\ UNCHANGED <<mode, status>>
Return(s) ==
    /\ regs' = fetched /\ sr' = SR_reset /\ mode' = "host" /\ status' = s
    /\ UNCHANGED memory
Fail(m) == mode' = m /\ UNCHANGED <<regs, sr, memory, status>>

\* A result in a register, with the flags of the result.  A floating point
\* result is any of FloatCells with any flags (-0 and tiny values set both).
SetResult(r, v) ==
    /\ Continue(SkipOperand([fetched EXCEPT ![r] = v]), SR_set_flags(SR_reset, v))
    /\ UNCHANGED memory
SetFloat(r) ==
    /\ \E v \in FloatCells, f \in SUBSET Flags :
           Continue(SkipOperand([fetched EXCEPT ![r] = v]), f)
    /\ UNCHANGED memory

-----------------------------------------------------------------------------
\* Cases that do nothing: the empty ones, an opcode that is none, and a mode
\* the case does not test for.
Idle ==
    \/ instr.opcode \in IdleOps
    \/ ~Operative /\ instr.opcode \in OperandOps \ ({"MOV", "LOOP", "PUSH"} \cup JumpOps)
    \/ instr.mode # "REG" /\ instr.opcode \in {"INC", "DEC"}
NoEffect == Dispatch(SVM_OP) /\ Idle /\ Continue(fetched, SR_reset) /\ UNCHANGED memory

MovReg ==
    /\ Dispatch({"MOV"}) /\ Operative
    /\ Continue(SkipOperand([fetched EXCEPT ![instr.rdst] = Source]), SR_reset)
    /\ UNCHANGED memory

\* A store of the low byte of a register through a register.
MovMemCell ==  \* variant: without the mask 0xff
    /\ Dispatch({"MOV"}) /\ instr.mode = "ADDR" /\ fetched[instr.rdst] \in 0 .. DataSize - 1
    /\ data' = [data EXCEPT ![fetched[instr.rdst]] = fetched[instr.rsrc]]
    /\ Continue(fetched, SR_reset) /\ UNCHANGED <<frames, stack>>
MovMem ==
    /\ Dispatch({"MOV"}) /\ instr.mode = "ADDR"
    /\ LET a == fetched[instr.rdst] IN
       IF a \in 0 .. DataSize - 1
       THEN /\ data' = [data EXCEPT ![a] = Unsigned(fetched[instr.rsrc]) % ByteMod]
            /\ Continue(fetched, SR_reset) /\ UNCHANGED <<frames, stack>>
       ELSE Fail("wild")
MovInvalid == /\ Dispatch({"MOV"}) /\ instr.mode = "MODE3"
              /\ Return("INVALID_INSTRUCTION")

AddSub ==
    /\ Dispatch({"ADD", "SUB"}) /\ Operative
    /\ IF IsFloat THEN SetFloat(rA)
       ELSE SetResult(rA, Wrap(IF instr.opcode = "ADD" THEN fetched[rA] + RightArg
                                                       ELSE fetched[rA] - RightArg))
IncDec ==
    /\ Dispatch({"INC", "DEC"}) /\ instr.mode = "REG"
    /\ IF IsFloat THEN SetFloat(instr.rdst)
       ELSE SetResult(instr.rdst,
                Wrap(fetched[instr.rdst] + (IF instr.opcode = "INC" THEN 1 ELSE -1)))
Mul ==
    /\ Dispatch({"MUL"}) /\ Operative
    /\ IF IsFloat THEN SetFloat(rA) ELSE SetResult(rA, Wrap(fetched[rA] * RightArg))

\* The divisor is tested before the division; by zero, or with no quotient,
\* the processor faults and the process ends.
DivisorNotTested == FALSE  \* variant: no test
DivisorIsZero == RightArg = 0
Divide(a, b, v) == IF b = 0 \/ DivisionFaults(a, b) THEN Fail("terminated")
                                                    ELSE SetResult(rA, v)
DivZeroStatus == IF instr.mode = "REG" THEN "FLOATING_POINT_DIVISION_BY_ZERO"
                                       ELSE "INT_DIVISION_BY_ZERO"
Div ==
    /\ Dispatch({"DIV"}) /\ Operative
    /\ \/ IsFloat /\ (SetFloat(rA) \/ Return("FLOATING_POINT_DIVISION_BY_ZERO"))
       \/ ~IsFloat /\ DivisorIsZero /\ Return(DivZeroStatus)
       \/ ~IsFloat /\ ~DivisorIsZero
                   /\ Divide(fetched[rA], RightArg, Quotient(fetched[rA], RightArg))
Mod ==
    /\ Dispatch({"MOD"}) /\ Operative
    /\ IF DivisorIsZero THEN Return("INT_DIVISION_BY_ZERO")
       ELSE Divide(fetched[rA], RightArg, Remainder(fetched[rA], RightArg))

\* SHL and SHR shift the source by the destination, whatever the mode.
Shift ==
    /\ Dispatch({"SHL", "SHR"})
    /\ LET v == BitOp(instr.opcode, fetched[instr.rsrc], fetched[instr.rdst])
       IN  Continue([fetched EXCEPT ![instr.rdst] = v], SR_set_flags(SR_reset, v))
    /\ UNCHANGED memory
Bitwise ==
    /\ Dispatch({"AND", "OR", "XOR"}) /\ Operative
    /\ SetResult(instr.rdst, BitOp(instr.opcode, fetched[instr.rdst], Source))
Not ==
    /\ Dispatch({"NOT"})
    /\ Continue([fetched EXCEPT ![instr.rdst] =
                     IF fetched[instr.rdst] = 0 THEN 1 ELSE 0], SR_reset)
    /\ UNCHANGED memory

\* Only the first byte of the imm32 takes part in the comparison.
Comparand == IF instr.mode = "IMM" THEN Unsigned(imm32) % ByteMod
                                   ELSE fetched[instr.rdst]
Cmp ==
    /\ Dispatch({"CMP"}) /\ Operative
    /\ \E f \in IF IsFloat THEN SUBSET Flags
                ELSE {SR_set_flags(SR_reset, Wrap(fetched[instr.rsrc] - Comparand))} :
           Continue(SkipOperand(fetched), f)
    /\ UNCHANGED memory

-----------------------------------------------------------------------------
\* Jumps: IP is relative to the imm32, or to the next instruction for a register.
JumpFromOperand(r) == [r EXCEPT ![rIP] = Wrap(@ + Source)]  \* variant: no IP_add
JumpBy(r) == SkipOperand([r EXCEPT ![rIP] = Wrap(@ + Source)])
Jmp == /\ Dispatch({"JMP"}) /\ Operative
       /\ Continue(JumpBy(fetched), SR_reset) /\ UNCHANGED memory

\* The test of each conditional jump.  mask is what ia holds for JG and JGE:
\* left over from an earlier instruction with imm32, 0 with a register.
Taken(mask) ==
    \/ instr.opcode \in {"JE", "JZ"}   /\ SR_is_set(SR_reset, {VMSRF_ZF})
    \/ instr.opcode \in {"JNE", "JNZ"} /\ ~SR_is_set(SR_reset, {VMSRF_ZF})
    \/ instr.opcode = "JL"             /\ ~SR_is_set(SR_reset, {VMSRF_SF})
    \/ instr.opcode = "JLE"            /\ ~SR_is_set(SR_reset, Flags)
    \/ instr.opcode \in {"JG", "JGE"}  /\ SR_is_set(SR_reset, mask)
JumpIf ==
    /\ Dispatch(JumpOps)
    /\ \E mask \in IF instr.mode = "IMM" THEN SUBSET Flags ELSE {{}} :
           Continue(IF Operative /\ Taken(mask) THEN JumpBy(fetched)
                                                ELSE SkipOperand(fetched), SR_reset)
    /\ UNCHANGED memory

\* The step over the imm32 is taken in every mode.
LoopUncounted ==  \* variant: C is not counted down
    /\ Dispatch({"LOOP"})
    /\ Continue(IP_add(IF fetched[rC] > 0 THEN [fetched EXCEPT ![rIP] = Wrap(@ + Source)]
                                          ELSE fetched, SVM_CELL_SIZE), SR_reset)
    /\ UNCHANGED memory
Loop ==
    /\ Dispatch({"LOOP"})
    /\ LET r == IF fetched[rC] > 0
                THEN [fetched EXCEPT ![rIP] = Wrap(@ + Source), ![rC] = @ - 1]
                ELSE fetched
       IN  Continue(IP_add(r, SVM_CELL_SIZE), SR_reset)
    /\ UNCHANGED memory

-----------------------------------------------------------------------------
\* The stack.  A cell outside it, or never written, reads as Garbage.
SP_add(r, n) == [r EXCEPT ![rSP] = Wrap(@ + n)]
StackPastFull == SP > StackSize  \* variant: off by one
StackFull    == SP >= StackSize
StackValues(sp) == IF sp \in Stack THEN {stack[sp]} ELSE Garbage
PushValue(v) ==
    /\ stack' = [stack EXCEPT ![SP] = v]
    /\ Continue(SkipOperand(SP_add(fetched, 1)), SR_reset)
    /\ UNCHANGED <<frames, data>>

\* PUSH SP reads SP before or after its increment: the two are unsequenced.
Push ==
    /\ Dispatch({"PUSH"})
    /\ IF StackFull THEN Return("STACK_OVERFLOW")
       ELSE \/ PushValue(Source)
            \/ /\ instr.mode # "IMM" /\ instr.rsrc = rSP
               /\ PushValue(Wrap(fetched[rSP] + 1))
PushSR ==
    /\ Dispatch({"PUSHSR"})
    /\ IF StackFull THEN Return("STACK_OVERFLOW")
       ELSE /\ stack' = [stack EXCEPT ![SP] = SRToCell(SR_reset)]
            /\ Continue(SP_add(fetched, 1), SR_reset) /\ UNCHANGED <<frames, data>>

\* POP reads the cell SP points at and only then steps SP down.
Pop ==
    /\ Dispatch({"POP"})
    /\ IF SP = 0 THEN Return("STACK_OVERFLOW")
       ELSE /\ \E v \in StackValues(SP) :
                   LET r == IF instr.mode = "REG" THEN [fetched EXCEPT ![instr.rdst] = v]
                                                  ELSE fetched
                   IN  Continue(SP_add(r, -1), SR_reset)
            /\ UNCHANGED memory
PopSR ==
    /\ Dispatch({"POPSR"})
    /\ IF SP = 0 THEN Return("STACK_OVERFLOW")
       ELSE /\ \E v \in StackValues(SP) : Continue(SP_add(fetched, 1), CellToSR(v))
            /\ UNCHANGED memory

-----------------------------------------------------------------------------
\* push_call_context always succeeds; the vector ends in bad_alloc.
CallFrameAtOperand ==  \* variant: the return address is that of the imm32
    [return_address |-> Unsigned(fetched[rIP]), previous_SP |-> SP]
CallFrame == [return_address |-> Unsigned(Wrap(fetched[rIP] + SVM_CELL_SIZE)),
              previous_SP    |-> SP]
Call ==
    /\ Dispatch({"CALL"})
    /\ IF Len(frames) < MaxFrames
       THEN /\ frames' = Append(frames, CallFrame)
            /\ Continue([fetched EXCEPT ![rIP] = imm32], SR_reset)
            /\ UNCHANGED <<stack, data>>
       ELSE Fail("terminated")

\* The index is compared as a signed number: a negative one passes.  The native
\* returns without having used the context; or see NativeStarts.
NCall ==
    /\ Dispatch({"NCALL"})
    /\ \/ imm32 >= NumImports /\ Return("IMPORT_INDEX_OUT_OF_BOUNDS")
       \/ imm32 < 0 /\ Fail("wild")
       \/ /\ imm32 \in 0 .. NumImports - 1
          /\ \E v \in NativeResults :
                 Continue(IP_add([fetched EXCEPT ![rA] = v], SVM_CELL_SIZE), SR_reset)
          /\ UNCHANGED memory
Ret ==
    /\ Dispatch({"RET"})
    /\ IF frames = <<>> THEN Return("CALL_CONTEXT_STACK_OVERFLOW")
       ELSE LET top == frames[Len(frames)] IN
            /\ frames' = SubSeq(frames, 1, Len(frames) - 1)
            /\ Continue([fetched EXCEPT ![rSP] = Wrap(top.previous_SP),
                                        ![rIP] = Wrap(top.return_address)], SR_reset)
            /\ UNCHANGED <<stack, data>>
Brk ==
    /\ Dispatch({"BRK"})
    /\ \E stop \in DbgStops :
           IF stop THEN Return("EXECUTION_HALTED")
                   ELSE Continue(fetched, SR_reset) /\ UNCHANGED memory
Halt == Dispatch({"HALT"}) /\ Return("EXECUTION_HALTED")

\* A fetch, or the read of an imm32, outside the code segment.
WildFetch ==
    /\ Running
    /\ IsCode(IP) => ReadsOperand /\ ~IsCode(OperandAt)
    /\ Fail("wild") /\ UNCHANGED code

Exec ==
    \/ NoEffect \/ MovReg \/ MovMem \/ MovInvalid \/ AddSub \/ IncDec \/ Mul \/ Div
    \/ Mod \/ Shift \/ Bitwise \/ Not \/ Cmp \/ Jmp \/ JumpIf \/ Loop \/ Push
    \/ PushSR \/ Pop \/ PopSR \/ Call \/ NCall \/ Ret \/ Brk \/ Halt \/ WildFetch

-----------------------------------------------------------------------------
\* A native that uses its context does what a host does, and then returns: exec
\* writes A and steps over an operand from wherever IP has got to.
NativeStarts ==
    /\ Dispatch({"NCALL"}) /\ imm32 \in 0 .. NumImports - 1
    /\ natives < MaxNatives /\ natives' = natives + 1
    /\ regs' = fetched /\ sr' = SR_reset /\ mode' = "host"
    /\ UNCHANGED <<memory, status>>
NativeReturns(v) ==
    /\ mode = "host" /\ natives > 0 /\ natives' = natives - 1
    /\ regs' = IP_add([regs EXCEPT ![rA] = v], SVM_CELL_SIZE) /\ mode' = "exec"
    /\ UNCHANGED <<code, sr, memory, status>>
Natives == NativeStarts \/ \E v \in NativeResults : NativeReturns(v)

-----------------------------------------------------------------------------
\* The host: call_push_arg_cell (which tests nothing: that there is room is
\* the host's obligation), SVMI::call, call_finish.
HostPushArg(v) ==
    /\ mode = "host" /\ SP \in Stack
    /\ stack' = [stack EXCEPT ![SP] = v]
    /\ regs' = SP_add(regs, 1)
    /\ UNCHANGED <<code, sr, frames, data, mode, status>>
HostCall(a) ==
    /\ mode = "host"
    /\ regs' = [regs EXCEPT ![rIP] = Wrap(a)]
    /\ mode' = "exec"
    /\ UNCHANGED <<code, sr, memory, status>>
HostFinish ==
    /\ mode = "host"
    /\ regs' = [regs EXCEPT ![rSP] = 0]
    /\ UNCHANGED <<code, sr, memory, mode, status>>
Host == \/ \E v \in ArgCells : HostPushArg(v)
        \/ \E a \in IF natives = 0 THEN Entries ELSE NativeEntries : HostCall(a)
        \/ HostFinish

\* Nothing is claimed of a program that has left its memory or has ended.
Ended == mode \in {"wild", "terminated"} /\ UNCHANGED vars

Init ==
    /\ code \in Programs
    /\ regs = [r \in Slots |-> 0] /\ sr = {} /\ frames = <<>>
    /\ stack \in [Stack -> Garbage]
    /\ data = [a \in 0 .. DataSize - 1 |-> 0]
    /\ mode = "host" /\ status = "OK" /\ natives = 0
Next == ((Exec \/ Host) /\ UNCHANGED natives) \/ Natives \/ Ended
Spec == Init /\ [][Next]_vars
\* exec runs to its end on the thread that called it.
FairSpec == Spec /\ WF_vars(Exec /\ UNCHANGED natives)
-----------------------------------------------------------------------------
\* Every variable keeps its type in every mode.
MachineTypes ==
    /\ code \in Seq(Word)
    /\ regs \in [Slots -> Cell] /\ sr \in SUBSET Flags
    /\ frames \in Seq(SVMI_call_context) /\ Len(frames) <= MaxFrames
    /\ stack \in [Stack -> Cell] /\ data \in [0 .. DataSize - 1 -> Byte]
    /\ mode \in {"host", "exec", "wild", "terminated"}
    /\ status \in SVMI_STATUS
TypeOK == MachineTypes /\ natives \in 0 .. MaxNatives

\* A program that never names SP as a destination and has no POPSR keeps SP, and
\* every SP a RET will restore, within the stack, over any runs, host calls and
\* natives that call back, whose runs may RET out of the calls they stand in:
\* PUSH tests the upper end, POP the lower one, CALL and RET save and restore.
StackSafe ==
    \A i \in 1 .. Len(code) : code[i].opcode # "POPSR" /\ code[i].rdst # rSP
StackBounds ==
    StackSafe => /\ SP <= StackSize
                 /\ \A i \in 1 .. Len(frames) : frames[i].previous_SP <= StackSize

\* The flags are those of one integer result, never of two: zero and negative
\* are not both set, unless floating point or POPSR put them there.
FlagsExclusive ==
    (\A i \in 1 .. Len(code) : ~code[i].fp /\ code[i].opcode # "POPSR") => sr # Flags

\* The process ends only at an integer division whose quotient is no cell (the
\* smallest cell by -1: idiv faults, for the remainder too) or at a CALL that has
\* no memory for its frame: never at a division by zero, and at no other one.
FaultsOnlyWithoutQuotient ==
    [][mode # "terminated" /\ mode' = "terminated" =>
          \/ /\ instr.opcode = "MOD" \/ (instr.opcode = "DIV" /\ ~IsFloat)
             /\ DivisionFaults(fetched[rA], RightArg)
          \/ instr.opcode = "CALL" /\ Len(frames) = MaxFrames]_vars
=============================================================================

-------------------------- MODULE SVMIStaticProofs --------------------------
(***************************************************************************)
(* What a well-formed program may rely on, for every program, entry and    *)
(* size of the machine: exec decodes its instructions and nothing else,    *)
(* leaves its memory only through an address or an index the program       *)
(* computed, and implements nested calls.                                  *)
(***************************************************************************)
EXTENDS SVMIStatic, SVMIProofs

\* ControlFlowIntegrity is inductive once it is known where a native that has
\* not returned has left IP: one word before the instruction behind its NCALL.
NativeWaits == natives > 0 => /\ mode = "host" /\ natives = 1
                              /\ IP + SVM_CELL_SIZE \in Starts
FlowInv == code \in Programs /\ ControlFlowIntegrity /\ NativeWaits

-----------------------------------------------------------------------------
\* The addresses of the instructions of a program, and where each can lead.
LEMMA StartsClosed ==
    ASSUME code \in Programs
    PROVE  Starts \in SUBSET Addresses(code) /\ Closed(code, Starts)
<1>1. \E S \in SUBSET Addresses(code) : Closed(code, S)
  BY WellFormedAssumption DEF WellFormed
<1>2. Starts = CHOOSE S \in SUBSET Addresses(code) : Closed(code, S)
  BY DEF Starts, Layouts
<1> QED
  BY <1>1, <1>2

\* They are words of the code, far from the sign bit of a cell.
LEMMA StartIsCode ==
    ASSUME MachineTypes, code \in Programs, NEW a \in Starts
    PROVE  /\ a \in Nat /\ IsCode(a) /\ a + VM_I_SIZE <= VM_I_SIZE * Len(code)
           /\ VM_I_SIZE * Len(code) < CellHalf /\ Len(code) \in Nat
           /\ a \in Cell /\ a \in Address
           /\ Wrap(a) = a /\ Unsigned(a) = a /\ WordAt(a) \in Word
<1>1. Len(code) \in Nat /\ VM_I_SIZE * Len(code) < CellHalf
  BY ShortAssumption, LenProperties DEF MachineTypes
<1>2. PICK i \in 0 .. Len(code) - 1 : a = VM_I_SIZE * i
  BY StartsClosed DEF Addresses
<1>3. a \in Nat /\ a % VM_I_SIZE = 0 /\ a \div VM_I_SIZE = i /\ i < Len(code)
  BY <1>1, <1>2 DEF VM_I_SIZE
<1>4. IsCode(a) /\ WordAt(a) \in Word
  BY <1>1, <1>2, <1>3 DEF IsCode, WordAt, MachineTypes
<1>5. a + VM_I_SIZE <= VM_I_SIZE * Len(code)
  BY <1>1, <1>2 DEF VM_I_SIZE
<1>6. a \in Cell /\ a \in Address /\ Unsigned(a) = a
  BY <1>1, <1>3, <1>5, CellHalfAssumption DEF VM_I_SIZE, Cell, Address, CellMod, Unsigned
<1> QED
  BY <1>1, <1>3, <1>4, <1>5, <1>6, WrapCell

\* The instruction at a start, and its operand, are those the layout was made of.
AtStart ==
    /\ instr = At(code, IP) /\ instr \in Word /\ Regular(instr)
    /\ IP \in Nat /\ regs[rIP] = IP /\ IP + SizeAt(code, IP) < CellHalf
    /\ fetched \in RegisterFile /\ fetched[rIP] = IP + VM_I_SIZE
    /\ IsCode(IP)
    /\ HasOperand(instr) => IsCode(OperandAt) /\ imm32 = Imm(code, IP) /\ imm32 \in Cell
    /\ Behind(code, IP) \cup Targets(code, IP) \subseteq Starts

LEMMA StartFacts ==
    ASSUME MachineTypes, code \in Programs, IP \in Starts
    PROVE  AtStart
<1>1. /\ IP \in Nat /\ IsCode(IP) /\ IP + VM_I_SIZE <= VM_I_SIZE * Len(code)
      /\ VM_I_SIZE * Len(code) < CellHalf /\ Len(code) \in Nat /\ WordAt(IP) \in Word
  BY StartIsCode
<1>2. /\ Regular(At(code, IP))
      /\ HasOperand(At(code, IP)) => Within(code, IP + VM_I_SIZE)
      /\ Behind(code, IP) \cup Targets(code, IP) \subseteq Starts
  BY StartsClosed DEF Closed
<1>3. instr = At(code, IP) /\ instr \in Word
  BY <1>1 DEF instr, WordAt, At
<1>4. regs \in RegisterFile /\ regs[rIP] \in Cell
  BY DEF MachineTypes, RegisterFile, Slots, rIP
<1>5. regs[rIP] = IP
  BY <1>1, <1>4, CellHalfAssumption DEF IP, Unsigned, Cell, CellMod, VM_I_SIZE
<1>6. fetched \in RegisterFile /\ fetched[rIP] = IP + VM_I_SIZE
  <2>1. IP + VM_I_SIZE \in Cell
    BY <1>1, CellHalfAssumption DEF Cell, VM_I_SIZE
  <2> QED
    BY <1>4, <1>5, <2>1, WrapCell DEF fetched, IP_add, RegisterFile, Slots, rIP
<1>7. ASSUME HasOperand(instr)
      PROVE  IsCode(OperandAt) /\ imm32 = Imm(code, IP) /\ imm32 \in Cell
             /\ IP + VM_I_SIZE + SVM_CELL_SIZE < CellHalf
  <2>1. (IP + VM_I_SIZE) % VM_I_SIZE = 0 /\ (IP + VM_I_SIZE) \div VM_I_SIZE < Len(code)
    BY <1>2, <1>3, <1>7 DEF Within
  <2>2. WordAt(OperandAt) \in Word
    BY <1>1, <2>1 DEF WordAt, OperandAt, MachineTypes, VM_I_SIZE
  <2>3. IP + VM_I_SIZE + SVM_CELL_SIZE < CellHalf
    BY <1>1, <2>1, CellHalfAssumption DEF VM_I_SIZE, SVM_CELL_SIZE
  <2> QED
    BY <2>1, <2>2, <2>3 DEF IsCode, OperandAt, imm32, WordAt, Imm, At, Word
<1>8. IP + SizeAt(code, IP) < CellHalf
  BY <1>1, <1>3, <1>7, CellHalfAssumption DEF SizeAt, VM_I_SIZE, SVM_CELL_SIZE
<1> QED
  BY <1>1, <1>2, <1>3, <1>5, <1>6, <1>7, <1>8 DEF AtStart

-----------------------------------------------------------------------------
\* A step keeps the flow when it goes on at a start, or ends the run, and leaves
\* the frames.
Onward == UNCHANGED frames /\ (mode' = "exec" => IP' \in Starts)

\* The step over the instruction, and over its operand if it has one.
Falls == instr.opcode \notin {"JMP", "RET", "HALT"}

LEMMA FallsBehind ==
    ASSUME AtStart, Falls
    PROVE  IP + SizeAt(code, IP) \in Starts
BY DEF AtStart, Falls, Behind

LEMMA LandsBehind ==
    ASSUME AtStart, Falls, regs'[rIP] = IP + SizeAt(code, IP)
    PROVE  IP' \in Starts
<1>1. IP + SizeAt(code, IP) \in Starts /\ IP + SizeAt(code, IP) \in Nat
  BY FallsBehind DEF AtStart, SizeAt, VM_I_SIZE, SVM_CELL_SIZE
<1> QED
  BY <1>1 DEF IP, Unsigned

LEMMA ShortStep ==
    ASSUME AtStart, Falls, ~HasOperand(instr), regs'[rIP] = fetched[rIP]
    PROVE  IP' \in Starts
<1>1. regs'[rIP] = IP + SizeAt(code, IP)
  BY DEF AtStart, SizeAt
<1> QED
  BY <1>1, LandsBehind

LEMMA LongAdd ==
    ASSUME AtStart, HasOperand(instr), NEW r, DOMAIN r = Slots, r[rIP] = fetched[rIP]
    PROVE  IP_add(r, SVM_CELL_SIZE)[rIP] = IP + SizeAt(code, IP)
<1>1. IP + SizeAt(code, IP) = fetched[rIP] + SVM_CELL_SIZE
  BY DEF AtStart, SizeAt, VM_I_SIZE, SVM_CELL_SIZE
<1>2. IP + SizeAt(code, IP) \in Cell
  BY CellHalfAssumption DEF AtStart, SizeAt, Cell, VM_I_SIZE, SVM_CELL_SIZE
<1> QED
  BY <1>1, <1>2, WrapCell DEF IP_add, Slots, rIP

LEMMA LongStep ==
    ASSUME AtStart, Falls, HasOperand(instr) <=> instr.mode = "IMM",
           NEW r, DOMAIN r = Slots, r[rIP] = fetched[rIP], regs' = SkipOperand(r)
    PROVE  IP' \in Starts
<1>1. CASE instr.mode = "IMM"
  <2>1. regs'[rIP] = IP + SizeAt(code, IP)
    BY <1>1, LongAdd DEF SkipOperand
  <2> QED
    BY <2>1, LandsBehind
<1>2. CASE instr.mode # "IMM"
  BY <1>2, ShortStep DEF SkipOperand
<1> QED
  BY <1>1, <1>2

\* Writing a general register, or SP, leaves IP.
LEMMA SameIP ==
    ASSUME NEW r, DOMAIN r = Slots
    PROVE  /\ \A s \in GeneralSlots : \A v : /\ [r EXCEPT ![s] = v][rIP] = r[rIP]
                                             /\ DOMAIN [r EXCEPT ![s] = v] = Slots
           /\ \A n : SP_add(r, n)[rIP] = r[rIP] /\ DOMAIN SP_add(r, n) = Slots
BY DEF SP_add, Slots, GeneralSlots, rIP, rSP

\* What a case starts from, and the ways it can end.
LEMMA CaseFacts ==
    ASSUME AtStart, NEW ops, Dispatch(ops)
    PROVE  /\ instr.opcode \in ops /\ instr.rdst \in GeneralSlots
           /\ DOMAIN fetched = Slots /\ rA \in GeneralSlots /\ rC \in GeneralSlots
BY DEF AtStart, Dispatch, Regular, RegisterFile, rA, rC, GeneralSlots

LEMMA OperandMode ==
    ASSUME instr.opcode \in OperandOps
    PROVE  HasOperand(instr) <=> instr.mode = "IMM"
BY DEF HasOperand, OperandOps, JumpOps

LEMMA NoOperand ==
    ASSUME HasOperand(instr)
    PROVE  /\ instr.opcode \in OperandOps \cup {"CALL", "NCALL"}
           /\ instr.opcode \notin IdleOps
           /\ instr.opcode \notin {"INC", "DEC", "SHL", "SHR", "NOT", "PUSHSR", "POP",
                                   "POPSR", "RET", "BRK", "HALT"}
BY DEF HasOperand, OperandOps, JumpOps, IdleOps

LEMMA EndsOnward ==
    ASSUME AtStart, (\E s : Return(s)) \/ Fail("wild") \/ Fail("terminated")
    PROVE  Onward
BY DEF Onward, Return, Fail, memory

LEMMA ResultOnward ==
    ASSUME AtStart, Falls, HasOperand(instr) <=> instr.mode = "IMM", DOMAIN fetched = Slots,
           NEW r \in GeneralSlots, (\E v : SetResult(r, v)) \/ SetFloat(r)
    PROVE  Onward
<1>1. PICK v, f : Continue(SkipOperand([fetched EXCEPT ![r] = v]), f) /\ UNCHANGED memory
  BY DEF SetResult, SetFloat
<1>2. /\ [fetched EXCEPT ![r] = v][rIP] = fetched[rIP]
      /\ DOMAIN [fetched EXCEPT ![r] = v] = Slots
  BY SameIP
<1> QED
  BY <1>1, <1>2, LongStep DEF Onward, Continue, memory

-----------------------------------------------------------------------------
\* Every case but CALL and RET goes on at a start, or ends the run.
LEMMA MovesOnward ==
    ASSUME AtStart, NoEffect \/ MovReg \/ MovMem \/ MovInvalid PROVE Onward
<1>1. CASE NoEffect
  <2>1. ~HasOperand(instr)
    <3>1. CASE instr.opcode \in IdleOps \/ (instr.mode # "REG" /\ instr.opcode \in {"INC", "DEC"})
      BY <3>1, NoOperand
    <3>2. CASE ~Operative /\ instr.opcode \in OperandOps
      BY <3>2, OperandMode DEF Operative
    <3> QED
      BY <1>1, <3>1, <3>2 DEF NoEffect, Idle
  <2>2. Falls
    BY <1>1 DEF NoEffect, Idle, IdleOps, OperandOps, JumpOps, Falls, AtStart, Regular, Operative
  <2> QED
    BY <1>1, <2>1, <2>2, ShortStep DEF NoEffect, Continue, Onward, memory
<1>2. CASE MovReg
  <2>1. /\ instr.opcode = "MOV" /\ instr.rdst \in GeneralSlots /\ DOMAIN fetched = Slots
        /\ Falls /\ (HasOperand(instr) <=> instr.mode = "IMM")
    BY <1>2, CaseFacts, OperandMode DEF MovReg, Falls, OperandOps
  <2>2. /\ [fetched EXCEPT ![instr.rdst] = Source][rIP] = fetched[rIP]
        /\ DOMAIN [fetched EXCEPT ![instr.rdst] = Source] = Slots
    BY <2>1, SameIP
  <2> QED
    BY <1>2, <2>1, <2>2, LongStep DEF MovReg, Continue, Onward, memory
<1>3. CASE MovMem
  <2>1. Falls /\ ~HasOperand(instr)
    BY <1>3, OperandMode DEF MovMem, Dispatch, Falls, OperandOps
  <2>2. Fail("wild") \/ (Continue(fetched, SR_reset) /\ UNCHANGED frames)
    BY <1>3 DEF MovMem
  <2> QED
    BY <2>1, <2>2, EndsOnward, ShortStep DEF Continue, Onward
<1>4. CASE MovInvalid
  BY <1>4, EndsOnward DEF MovInvalid
<1> QED
  BY <1>1, <1>2, <1>3, <1>4

LEMMA ArithmeticOnward ==
    ASSUME AtStart, AddSub \/ IncDec \/ Mul \/ Div \/ Mod PROVE Onward
<1>1. PICK ops : Dispatch(ops) /\ ops \subseteq {"ADD", "SUB", "INC", "DEC", "MUL", "DIV", "MOD"}
  BY DEF AddSub, IncDec, Mul, Div, Mod
<1>2. /\ Falls /\ instr.rdst \in GeneralSlots /\ rA \in GeneralSlots /\ DOMAIN fetched = Slots
      /\ instr.opcode \in {"ADD", "SUB", "INC", "DEC", "MUL", "DIV", "MOD"}
  BY <1>1, CaseFacts DEF Falls
<1>3. ~IncDec => (HasOperand(instr) <=> instr.mode = "IMM")
  BY OperandMode DEF AddSub, IncDec, Mul, Div, Mod, Dispatch, OperandOps
<1>4. CASE IncDec
  <2>1. HasOperand(instr) <=> instr.mode = "IMM"
    BY <1>4, NoOperand DEF IncDec, Dispatch
  <2> QED
    BY <1>2, <1>4, <2>1, ResultOnward DEF IncDec
<1>5. CASE AddSub \/ Mul
  BY <1>2, <1>3, <1>5, ResultOnward DEF AddSub, Mul, IncDec, Dispatch
<1>6. ASSUME NEW v, ~IncDec, Divide(fetched[rA], RightArg, v) PROVE Onward
  BY <1>2, <1>3, <1>6, ResultOnward, EndsOnward DEF Divide
<1>7. CASE Div \/ Mod
  <2>1. ~IncDec
    BY <1>7 DEF Div, Mod, IncDec, Dispatch
  <2> QED
    BY <1>2, <1>3, <1>6, <1>7, <2>1, ResultOnward, EndsOnward DEF Div, Mod
<1> QED
  BY <1>4, <1>5, <1>7

LEMMA LogicOnward ==
    ASSUME AtStart, Shift \/ Bitwise \/ Not \/ Cmp PROVE Onward
<1>1. PICK ops : Dispatch(ops) /\ ops \subseteq {"SHL", "SHR", "AND", "OR", "XOR", "NOT", "CMP"}
  BY DEF Shift, Bitwise, Not, Cmp
<1>2. /\ Falls /\ instr.rdst \in GeneralSlots /\ DOMAIN fetched = Slots
  BY <1>1, CaseFacts DEF Falls
<1>3. CASE Bitwise
  <2>1. HasOperand(instr) <=> instr.mode = "IMM"
    BY <1>3, OperandMode DEF Bitwise, Dispatch, OperandOps
  <2> QED
    BY <1>2, <1>3, <2>1, ResultOnward DEF Bitwise
<1>4. CASE Shift \/ Not
  <2>1. ~HasOperand(instr)
    BY <1>4, NoOperand DEF Shift, Not, Dispatch
  <2>2. PICK v, f : Continue([fetched EXCEPT ![instr.rdst] = v], f) /\ UNCHANGED memory
    BY <1>4 DEF Shift, Not
  <2>3. [fetched EXCEPT ![instr.rdst] = v][rIP] = fetched[rIP]
    BY <1>2, SameIP
  <2> QED
    BY <1>2, <2>1, <2>2, <2>3, ShortStep DEF Continue, Onward, memory
<1>5. CASE Cmp
  <2>1. HasOperand(instr) <=> instr.mode = "IMM"
    BY <1>5, OperandMode DEF Cmp, Dispatch, OperandOps
  <2> QED
    BY <1>2, <1>5, <2>1, LongStep DEF Cmp, Continue, Onward, memory
<1> QED
  BY <1>3, <1>4, <1>5

\* A jump forms its target in two sums, from the imm32 and over it: neither
\* leaves the cells, though the first may stand before the code.
LEMMA JumpLands ==
    ASSUME MachineTypes, code \in Programs, AtStart, instr.opcode \in JumpOps \cup {"JMP", "LOOP"},
           NEW r, DOMAIN r = Slots, r[rIP] = Wrap(fetched[rIP] + Source),
           regs' = IP_add(r, SVM_CELL_SIZE)
    PROVE  IP' \in Starts
<1> DEFINE target == IP + SizeAt(code, IP) + Imm(code, IP)
<1>1. instr.mode = "IMM" /\ HasOperand(instr)
  BY OperandMode DEF AtStart, Regular, OperandOps
<1>2. target \in Starts
  <2>1. At(code, IP).opcode \in JumpOps \cup {"JMP", "LOOP"}
    BY DEF AtStart
  <2>2. target \in Targets(code, IP)
    BY <2>1 DEF Targets
  <2> QED
    BY <2>2 DEF AtStart
<1>3. target \in Nat /\ target \in Cell /\ CellHalf > 4
  <2> HIDE DEF target
  <2>1. /\ target \in Nat /\ target \in Cell
        /\ target + VM_I_SIZE <= VM_I_SIZE * Len(code)
        /\ VM_I_SIZE * Len(code) < CellHalf /\ Len(code) \in Nat
    BY <1>2, StartIsCode
  <2> QED
    BY <2>1, CellHalfAssumption DEF VM_I_SIZE
<1>4. fetched[rIP] + Source = target - SVM_CELL_SIZE /\ target - SVM_CELL_SIZE \in Cell
  <2>1. Source = Imm(code, IP) /\ Imm(code, IP) \in Int
    BY <1>1, CellHalfAssumption DEF AtStart, Source, Cell
  <2>2. target = fetched[rIP] + SVM_CELL_SIZE + Source
    BY <1>1, <2>1 DEF AtStart, SizeAt, VM_I_SIZE, SVM_CELL_SIZE
  <2>3. fetched[rIP] \in Int
    BY DEF AtStart, VM_I_SIZE
  <2> HIDE DEF target
  <2> QED
    BY <1>3, <2>1, <2>2, <2>3, CellHalfAssumption DEF SVM_CELL_SIZE, Cell
<1> HIDE DEF target
<1>5. r[rIP] = target - SVM_CELL_SIZE
  BY <1>4, WrapCell
<1>6. regs'[rIP] = Wrap(target)
  <2>1. r[rIP] + SVM_CELL_SIZE = target
    BY <1>3, <1>5 DEF SVM_CELL_SIZE
  <2> QED
    BY <2>1 DEF IP_add, Slots, rIP
<1>7. regs'[rIP] = target
  BY <1>3, <1>6, WrapCell
<1> QED
  BY <1>2, <1>3, <1>7 DEF IP, Unsigned

LEMMA JumpsOnward ==
    ASSUME MachineTypes, code \in Programs, AtStart, Jmp \/ JumpIf \/ Loop PROVE Onward
<1>1. /\ instr.opcode \in JumpOps \cup {"JMP", "LOOP"} /\ DOMAIN fetched = Slots
      /\ instr.mode = "IMM" /\ HasOperand(instr)
  BY CaseFacts, OperandMode DEF Jmp, JumpIf, Loop, Dispatch, AtStart, Regular, RegisterFile, OperandOps
<1> DEFINE far == [fetched EXCEPT ![rIP] = Wrap(@ + Source)]
<1>2. DOMAIN far = Slots /\ far[rIP] = Wrap(fetched[rIP] + Source)
  BY <1>1 DEF Slots, rIP
<1>3. JumpBy(fetched) = IP_add(far, SVM_CELL_SIZE)
  BY <1>1 DEF JumpBy, SkipOperand
<1> HIDE DEF far
<1>4. regs' = JumpBy(fetched) => IP' \in Starts
  BY <1>1, <1>2, <1>3, JumpLands
<1>5. CASE Jmp
  BY <1>4, <1>5 DEF Jmp, Continue, Onward, memory
<1>6. CASE JumpIf
  <2>1. Falls
    BY <1>6 DEF JumpIf, Dispatch, JumpOps, Falls
  <2>2. UNCHANGED frames /\ (regs' = JumpBy(fetched) \/ regs' = SkipOperand(fetched))
    BY <1>6 DEF JumpIf, Continue, memory
  <2> QED
    BY <1>1, <1>4, <2>1, <2>2, LongStep DEF Onward
<1>7. CASE Loop
  <2> DEFINE back == [fetched EXCEPT ![rIP] = Wrap(@ + Source), ![rC] = @ - 1]
  <2>1. UNCHANGED frames
        /\ (regs' = IP_add(back, SVM_CELL_SIZE) \/ regs' = IP_add(fetched, SVM_CELL_SIZE))
    BY <1>7 DEF Loop, Continue, memory
  <2>2. DOMAIN back = Slots /\ back[rIP] = Wrap(fetched[rIP] + Source)
    BY <1>1 DEF Slots, rIP, rC
  <2>3. Falls
    BY <1>7 DEF Loop, Dispatch, Falls
  <2> HIDE DEF back
  <2>4. regs' = IP_add(back, SVM_CELL_SIZE) => IP' \in Starts
    BY <1>1, <2>2, JumpLands
  <2>5. regs' = IP_add(fetched, SVM_CELL_SIZE) => IP' \in Starts
    BY <1>1, <2>3, LongAdd, LandsBehind
  <2> QED
    BY <2>1, <2>4, <2>5 DEF Onward
<1> QED
  BY <1>5, <1>6, <1>7

LEMMA StackOnward ==
    ASSUME AtStart, Push \/ PushSR \/ Pop \/ PopSR PROVE Onward
<1>1. PICK ops : Dispatch(ops) /\ ops \subseteq {"PUSH", "PUSHSR", "POP", "POPSR"}
  BY DEF Push, PushSR, Pop, PopSR
<1>2. /\ Falls /\ instr.rdst \in GeneralSlots /\ DOMAIN fetched = Slots
  BY <1>1, CaseFacts DEF Falls
<1>3. CASE \E s : Return(s)
  BY <1>3, EndsOnward
<1>4. CASE Push /\ ~\E s : Return(s)
  <2>1. HasOperand(instr) <=> instr.mode = "IMM"
    BY <1>4, OperandMode DEF Push, Dispatch, OperandOps
  <2>2. regs' = SkipOperand(SP_add(fetched, 1)) /\ UNCHANGED frames
    BY <1>4 DEF Push, PushValue, Continue
  <2>3. SP_add(fetched, 1)[rIP] = fetched[rIP] /\ DOMAIN SP_add(fetched, 1) = Slots
    BY <1>2, SameIP
  <2> QED
    BY <1>2, <2>1, <2>2, <2>3, LongStep DEF Onward
<1>5. CASE (PushSR \/ Pop \/ PopSR) /\ ~\E s : Return(s)
  <2>1. ~HasOperand(instr)
    BY <1>5, NoOperand DEF PushSR, Pop, PopSR, Dispatch
  <2>2. PICK r, n : /\ regs' = SP_add(r, n) /\ UNCHANGED frames
                    /\ \/ r = fetched
                       \/ \E v : r = [fetched EXCEPT ![instr.rdst] = v]
    BY <1>5 DEF PushSR, Pop, PopSR, Continue, memory
  <2>3. DOMAIN r = Slots /\ r[rIP] = fetched[rIP]
    <3>1. ASSUME NEW v PROVE /\ [fetched EXCEPT ![instr.rdst] = v][rIP] = fetched[rIP]
                             /\ DOMAIN [fetched EXCEPT ![instr.rdst] = v] = Slots
      BY <1>2, SameIP
    <3> QED
      BY <1>2, <2>2, <3>1
  <2>4. regs'[rIP] = fetched[rIP]
    BY <2>2, <2>3, SameIP
  <2> QED
    BY <1>2, <2>1, <2>2, <2>4, ShortStep DEF Onward
<1> QED
  BY <1>3, <1>4, <1>5

LEMMA ControlOnward ==
    ASSUME AtStart, NCall \/ Brk \/ Halt PROVE Onward
<1>1. CASE NCall
  <2>1. Falls /\ HasOperand(instr) /\ DOMAIN fetched = Slots /\ rA \in GeneralSlots
    BY <1>1, CaseFacts DEF NCall, Dispatch, Falls, HasOperand
  <2>2. ASSUME NEW v, UNCHANGED memory,
               Continue(IP_add([fetched EXCEPT ![rA] = v], SVM_CELL_SIZE), SR_reset)
        PROVE  Onward
    <3>1. /\ [fetched EXCEPT ![rA] = v][rIP] = fetched[rIP]
          /\ DOMAIN [fetched EXCEPT ![rA] = v] = Slots
      BY <2>1, SameIP
    <3>2. regs'[rIP] = IP + SizeAt(code, IP)
      BY <2>1, <2>2, <3>1, LongAdd DEF Continue
    <3> QED
      BY <2>1, <2>2, <3>2, LandsBehind DEF Onward, memory
  <2> QED
    BY <1>1, <2>2, EndsOnward DEF NCall
<1>2. CASE Brk
  <2>1. Falls /\ ~HasOperand(instr)
    BY <1>2, NoOperand DEF Brk, Dispatch, Falls
  <2>2. Return("EXECUTION_HALTED") \/ (Continue(fetched, SR_reset) /\ UNCHANGED frames)
    BY <1>2 DEF Brk, memory
  <2> QED
    BY <2>1, <2>2, EndsOnward, ShortStep DEF Continue, Onward
<1>3. CASE Halt
  BY <1>3, EndsOnward DEF Halt
<1> QED
  BY <1>1, <1>2, <1>3

\* exec never reads a word outside the code.
LEMMA NoWildFetch ==
    ASSUME AtStart, WildFetch PROVE FALSE
BY DEF AtStart, WildFetch, ReadsOperand

\* CALL goes to a start, and its frame returns to the one behind it.
LEMMA CallStep ==
    ASSUME MachineTypes, code \in Programs, AtStart, Call, ~Fail("terminated")
    PROVE  /\ frames' = Append(frames, CallFrame)
           /\ CallFrame = [return_address |-> IP + VM_I_SIZE + SVM_CELL_SIZE, previous_SP |-> SP]
           /\ IP + VM_I_SIZE + SVM_CELL_SIZE \in Starts /\ IP' \in Starts /\ SP' = SP
<1>1. /\ frames' = Append(frames, CallFrame) /\ regs' = [fetched EXCEPT ![rIP] = imm32]
      /\ instr.opcode = "CALL" /\ DOMAIN fetched = Slots
  BY DEF Call, Continue, Dispatch, AtStart, RegisterFile
<1>2. HasOperand(instr) /\ Falls
  BY <1>1 DEF HasOperand, Falls
<1>3. IP + SizeAt(code, IP) = IP + VM_I_SIZE + SVM_CELL_SIZE
  BY <1>2 DEF AtStart, SizeAt, VM_I_SIZE, SVM_CELL_SIZE
<1>4. IP + VM_I_SIZE + SVM_CELL_SIZE \in Starts
  BY <1>2, <1>3, FallsBehind
<1>5. CallFrame = [return_address |-> IP + VM_I_SIZE + SVM_CELL_SIZE, previous_SP |-> SP]
  <2>1. fetched[rIP] + SVM_CELL_SIZE = IP + VM_I_SIZE + SVM_CELL_SIZE
    BY DEF AtStart
  <2>2. Unsigned(Wrap(IP + VM_I_SIZE + SVM_CELL_SIZE)) = IP + VM_I_SIZE + SVM_CELL_SIZE
    BY <1>4, StartIsCode
  <2> QED
    BY <2>1, <2>2 DEF CallFrame
<1>6. imm32 \in Starts
  BY <1>1, <1>2 DEF AtStart, Targets, JumpOps
<1>7. IP' = Unsigned(imm32) /\ SP' = SP
  <2>1. regs'[rIP] = imm32 /\ regs'[rSP] = fetched[rSP]
    BY <1>1 DEF Slots, rIP, rSP
  <2>2. fetched[rSP] = regs[rSP]
    BY DEF fetched, IP_add, MachineTypes, Slots, rIP, rSP
  <2> QED
    BY <2>1, <2>2 DEF IP, SP
<1>8. IP' \in Starts
  BY <1>6, <1>7, StartIsCode
<1> QED
  BY <1>1, <1>4, <1>5, <1>7, <1>8

\* RET goes where the innermost frame says, with the SP it holds.
LEMMA RetStep ==
    ASSUME MachineTypes, Ret, frames # <<>>
    PROVE  /\ frames' = SubSeq(frames, 1, Len(frames) - 1)
           /\ IP' = frames[Len(frames)].return_address
           /\ SP' = frames[Len(frames)].previous_SP
           /\ Len(frames) \in 1 .. Len(frames)
           /\ frames[Len(frames)] \in SVMI_call_context
<1> DEFINE top == frames[Len(frames)]
<1>1. /\ regs' = [fetched EXCEPT ![rSP] = Wrap(top.previous_SP),
                                 ![rIP] = Wrap(top.return_address)]
      /\ frames' = SubSeq(frames, 1, Len(frames) - 1)
  BY DEF Ret, Continue
<1>2. Len(frames) \in 1 .. Len(frames) /\ top \in SVMI_call_context
  BY FrontElements DEF MachineTypes
<1>3. DOMAIN fetched = Slots
  BY DispatchType DEF Ret, Decoded, RegisterFile
<1>4. regs'[rSP] = Wrap(top.previous_SP) /\ regs'[rIP] = Wrap(top.return_address)
  BY <1>1, <1>3 DEF Slots, rSP, rIP
<1>5. /\ Unsigned(Wrap(top.previous_SP)) = top.previous_SP
      /\ Unsigned(Wrap(top.return_address)) = top.return_address
  <2>1. top.previous_SP \in Address /\ top.return_address \in Address
    BY <1>2 DEF SVMI_call_context
  <2> QED
    BY <2>1, WrapUnsigned
<1> QED
  BY <1>1, <1>2, <1>4, <1>5 DEF IP, SP

\* A run starts at an entry; the other calls of the host leave IP.
LEMMA HostFlow ==
    ASSUME MachineTypes, FlowInv, Host, UNCHANGED natives
    PROVE  UNCHANGED <<code, frames>> /\ (Running' => IP' \in Starts)
           /\ (mode' = "host" => IP' = IP) /\ (natives > 0 => mode' = "host")
<1>1. mode = "host" /\ UNCHANGED <<code, frames>>
  BY DEF Host, HostPushArg, HostCall, HostFinish, memory
<1>2. DOMAIN regs = Slots
  BY DEF MachineTypes
<1>3. CASE (\E v \in ArgCells : HostPushArg(v)) \/ HostFinish
  <2>1. mode' = mode /\ regs'[rIP] = regs[rIP]
    BY <1>2, <1>3, SameIP DEF HostPushArg, HostFinish, rIP, rSP, Slots
  <2> QED
    BY <1>1, <2>1 DEF IP, Running
<1>4. ASSUME NEW a \in IF natives = 0 THEN Entries ELSE NativeEntries, HostCall(a)
      PROVE  mode' = "exec" /\ IP' \in Starts /\ natives = 0
  <2>1. natives = 0 /\ a \in Entries
    BY NativesAssumption
  <2>2. a \in Starts /\ a \in Address
    BY <2>1, StartsClosed, EntriesAssumption DEF Closed, FlowInv, Address
  <2>3. mode' = "exec" /\ regs'[rIP] = Wrap(a)
    BY <1>2, <1>4 DEF HostCall, Slots, rIP
  <2> QED
    BY <2>1, <2>2, <2>3, WrapUnsigned DEF IP
<1> QED
  BY <1>1, <1>3, <1>4 DEF Host, Running

\* A native starts one word before the instruction behind its NCALL, and comes
\* back to exec at that instruction.
LEMMA NativeFlow ==
    ASSUME TypeOK, FlowInv, Natives
    PROVE  UNCHANGED <<code, frames>> /\ (Running' => IP' \in Starts)
           /\ (natives' > 0 => /\ mode' = "host" /\ natives' = 1
                               /\ IP' + SVM_CELL_SIZE \in Starts)
<1>1. MachineTypes /\ code \in Programs /\ natives \in Nat
  BY SizesAssumption DEF TypeOK, FlowInv
<1>2. CASE NativeStarts
  <2>1. AtStart /\ natives = 0
    BY <1>1, <1>2, StartFacts
    DEF NativeStarts, Dispatch, Running, FlowInv, ControlFlowIntegrity, NativeWaits
  <2>2. /\ natives' = 1 /\ mode' = "host" /\ regs' = fetched
        /\ UNCHANGED <<code, frames>> /\ Falls /\ HasOperand(instr)
    BY <1>2, <2>1 DEF NativeStarts, Dispatch, memory, Falls, HasOperand
  <2>3. IP' = IP + VM_I_SIZE
    BY <2>1, <2>2 DEF AtStart, IP, Unsigned, VM_I_SIZE
  <2>4. IP' + SVM_CELL_SIZE = IP + SizeAt(code, IP)
    BY <2>1, <2>2, <2>3 DEF AtStart, SizeAt, VM_I_SIZE, SVM_CELL_SIZE
  <2> QED
    BY <2>1, <2>2, <2>4, FallsBehind DEF Running
<1>3. ASSUME NEW v \in NativeResults, NativeReturns(v)
      PROVE  UNCHANGED <<code, frames>> /\ IP' \in Starts /\ natives' = 0
  <2>1. IP + SVM_CELL_SIZE \in Starts /\ natives' = 0 /\ UNCHANGED <<code, frames>>
    BY <1>1, <1>3 DEF NativeReturns, FlowInv, NativeWaits, memory
  <2>2. /\ IP + SVM_CELL_SIZE \in Nat /\ IP + SVM_CELL_SIZE \in Cell
        /\ IP + SVM_CELL_SIZE < CellHalf
    <3> DEFINE a == IP + SVM_CELL_SIZE
    <3> HIDE DEF a
    <3>1. a \in Starts
      BY <2>1 DEF a
    <3>2. a \in Nat /\ a \in Cell
      BY <1>1, <3>1, StartIsCode
    <3> QED
      BY <3>2, CellHalfAssumption DEF a, Cell
  <2>3. regs[rIP] = IP
    <3>1. regs[rIP] \in Cell /\ IP \in Address
      BY <1>1, UnsignedType DEF MachineTypes, Slots, rIP, IP
    <3> QED
      BY <2>2, <3>1, CellHalfAssumption DEF IP, Unsigned, Cell, CellMod, SVM_CELL_SIZE, Address
  <2>4. regs'[rIP] = Wrap(IP + SVM_CELL_SIZE)
    <3>1. /\ DOMAIN [regs EXCEPT ![rA] = v] = Slots
          /\ [regs EXCEPT ![rA] = v][rIP] = regs[rIP]
      BY <1>1 DEF MachineTypes, Slots, rA, rIP
    <3> QED
      BY <1>3, <2>3, <3>1 DEF NativeReturns, IP_add, Slots, rIP
  <2>5. IP' = IP + SVM_CELL_SIZE
    <3>1. regs'[rIP] = IP + SVM_CELL_SIZE
      BY <2>2, <2>4, WrapCell
    <3>2. IP' = Unsigned(regs'[rIP])
      BY DEF IP
    <3> QED
      BY <2>2, <3>1, <3>2 DEF Unsigned
  <2> QED
    BY <2>1, <2>5
<1> QED
  BY <1>2, <1>3 DEF Natives

-----------------------------------------------------------------------------
\* What a step of exec does to the flow.
FrameReturns(fs) == \A i \in 1 .. Len(fs) : fs[i].return_address \in Starts
LEMMA ExecFlow ==
    ASSUME MachineTypes, FlowInv, Exec
    PROVE  /\ AtStart /\ UNCHANGED code
           /\ Running' => IP' \in Starts
           /\ FrameReturns(frames')
<1>1. Running /\ UNCHANGED code
  BY DEF Exec, Dispatch, NoEffect, MovReg, MovMem, MovInvalid,
     AddSub, IncDec, Mul, Div, Mod, Shift, Bitwise, Not, Cmp, Jmp, JumpIf, Loop, Push,
     PushSR, Pop, PopSR, Call, NCall, Ret, Brk, Halt, WildFetch
<1>2. AtStart /\ FrameReturns(frames) /\ code \in Programs
  BY <1>1, StartFacts DEF FlowInv, ControlFlowIntegrity, FrameReturns
<1>3. frames \in Seq(SVMI_call_context)
  BY DEF MachineTypes
<1>4. CASE Onward
  BY <1>1, <1>2, <1>4 DEF Onward, Running, FrameReturns
<1>5. CASE Call /\ ~Fail("terminated")
  <2>1. /\ frames' = Append(frames, CallFrame) /\ IP' \in Starts
        /\ CallFrame.return_address \in Starts
    BY <1>2, <1>5, CallStep
  <2>2. CallFrame \in SVMI_call_context
    <3>1. IP + VM_I_SIZE + SVM_CELL_SIZE \in Starts /\ SP \in Address
          /\ CallFrame = [return_address |-> IP + VM_I_SIZE + SVM_CELL_SIZE, previous_SP |-> SP]
      BY <1>2, <1>5, CallStep, UnsignedType DEF MachineTypes, SP, Slots, rSP
    <3>2. IP + VM_I_SIZE + SVM_CELL_SIZE \in Address
      BY <1>2, <3>1, StartIsCode
    <3> QED
      BY <3>1, <3>2 DEF SVMI_call_context
  <2>3. FrameReturns(frames')
    BY <1>2, <1>3, <2>1, <2>2, AppendProperties DEF FrameReturns
  <2> QED
    BY <1>1, <1>2, <2>1, <2>3
<1>6. CASE Ret /\ frames # <<>>
  <2>1. /\ frames' = SubSeq(frames, 1, Len(frames) - 1)
        /\ IP' = frames[Len(frames)].return_address /\ Len(frames) \in 1 .. Len(frames)
    BY <1>6, RetStep
  <2>2. FrameReturns(frames')
    BY <1>2, <1>3, <1>6, <2>1, FrontElements DEF FrameReturns
  <2> QED
    BY <1>1, <1>2, <2>1, <2>2 DEF FrameReturns
<1>7. CASE (Call /\ Fail("terminated")) \/ (Ret /\ frames = <<>>)
  BY <1>2, <1>4, <1>7, EndsOnward DEF Ret
<1> QED
  BY <1>2, <1>4, <1>5, <1>6, <1>7, MovesOnward, ArithmeticOnward, LogicOnward, JumpsOnward,
     StackOnward, ControlOnward, NoWildFetch DEF Exec

LEMMA FlowInit == Init => FlowInv
<1> SUFFICES ASSUME Init PROVE FlowInv
  OBVIOUS
<1>1. Len(frames) = 0 /\ mode = "host" /\ natives = 0 /\ code \in Programs
  BY EmptySeq DEF Init
<1> QED
  BY <1>1 DEF FlowInv, ControlFlowIntegrity, NativeWaits, Running

LEMMA FlowStep == TypeOK /\ FlowInv /\ [Next]_vars => FlowInv'
<1> SUFFICES ASSUME TypeOK, FlowInv, [Next]_vars PROVE FlowInv'
  OBVIOUS
<1>1. MachineTypes /\ natives \in Nat /\ FrameReturns(frames)
  BY SizesAssumption DEF TypeOK, FlowInv, ControlFlowIntegrity, FrameReturns
<1>2. SUFFICES /\ UNCHANGED code /\ (Running' => IP' \in Starts) /\ FrameReturns(frames')
               /\ natives' > 0 => /\ mode' = "host" /\ natives' = 1
                                  /\ IP' + SVM_CELL_SIZE \in Starts
  BY DEF FlowInv, ControlFlowIntegrity, NativeWaits, FrameReturns, Starts
<1>3. CASE Exec /\ UNCHANGED natives
  <2>1. Running
    BY <1>3 DEF Exec, Dispatch, NoEffect, MovReg, MovMem, MovInvalid,
       AddSub, IncDec, Mul, Div, Mod, Shift, Bitwise, Not, Cmp, Jmp, JumpIf, Loop, Push,
       PushSR, Pop, PopSR, Call, NCall, Ret, Brk, Halt, WildFetch
  <2>2. ~(natives > 0)
    BY <2>1 DEF FlowInv, NativeWaits, Running
  <2> QED
    BY <1>1, <1>3, <2>2, ExecFlow
<1>4. CASE Host /\ UNCHANGED natives
  BY <1>1, <1>4, HostFlow DEF FlowInv, NativeWaits
<1>5. CASE Natives
  BY <1>1, <1>5, NativeFlow
<1>6. CASE Ended \/ UNCHANGED vars
  <2>1. UNCHANGED vars
    BY <1>6 DEF Ended
  <2> QED
    BY <1>1, <2>1 DEF vars, memory, FlowInv, ControlFlowIntegrity, NativeWaits, Running, IP
<1> QED
  BY <1>3, <1>4, <1>5, <1>6 DEF Next

LEMMA FlowInvariant == Spec => []FlowInv
BY FlowInit, FlowStep, TypeCorrect, PTL DEF Spec

\* exec decodes instructions of the program and nothing else, for every
\* well-formed program, whatever the host calls and however its runs end.
THEOREM FlowIsIntact == Spec => []ControlFlowIntegrity
<1>1. FlowInv => ControlFlowIntegrity
  BY DEF FlowInv
<1> QED
  BY <1>1, FlowInvariant, PTL

-----------------------------------------------------------------------------
\* Only a store and the call of a native leave the memory of a well-formed program.
GoesWild  == mode # "wild" /\ mode' = "wild"
WildCause == /\ IP \in Starts
             /\ \/ instr.opcode = "MOV" /\ instr.mode = "ADDR"
                \/ instr.opcode = "NCALL" /\ imm32 < 0

LEMMA NotWild ==
    ASSUME GoesWild
    PROVE  /\ \A r, f : ~Continue(r, f)
           /\ \A s : ~Return(s) /\ ~Fail("terminated")
           /\ \A r, v : ~SetResult(r, v) /\ ~SetFloat(r)
           /\ \A a, b, v : ~Divide(a, b, v)
BY DEF GoesWild, Continue, Return, Fail, SetResult, SetFloat, Divide

LEMMA WildOfExec ==
    ASSUME MachineTypes, FlowInv, Exec, GoesWild PROVE WildCause
<1>1. Running => IP \in Starts /\ AtStart
  BY ExecFlow DEF FlowInv, ControlFlowIntegrity
<1>2. CASE MovMem \/ NCall
  BY <1>1, <1>2, NotWild DEF MovMem, NCall, Dispatch, WildCause
<1>3. CASE NoEffect \/ MovReg \/ MovInvalid \/ AddSub \/ IncDec \/ Mul \/ Div \/ Mod
  BY <1>3, NotWild DEF NoEffect, MovReg, MovInvalid, AddSub, IncDec, Mul, Div, Mod
<1>4. CASE Shift \/ Bitwise \/ Not \/ Cmp \/ Jmp \/ JumpIf \/ Loop
  BY <1>4, NotWild DEF Shift, Bitwise, Not, Cmp, Jmp, JumpIf, Loop
<1>5. CASE Push \/ PushSR \/ Pop \/ PopSR
  BY <1>5, NotWild DEF Push, PushValue, PushSR, Pop, PopSR
<1>6. CASE Call \/ Ret \/ Brk \/ Halt
  BY <1>6, NotWild DEF Call, Ret, Brk, Halt
<1>7. CASE WildFetch
  BY <1>7, ExecFlow, NoWildFetch
<1> QED
  BY <1>2, <1>3, <1>4, <1>5, <1>6, <1>7 DEF Exec

\* A well-formed program leaves its memory only from one of its instructions, by
\* a store to an address it computed or by a native index below zero.
THEOREM WildIsByData == Spec => WildOnlyByData
<1>1. TypeOK /\ FlowInv /\ [Next]_vars => [GoesWild => WildCause]_vars
  <2> SUFFICES ASSUME TypeOK, FlowInv, Next, GoesWild PROVE WildCause
    OBVIOUS
  <2>1. CASE Exec
    BY <2>1, WildOfExec DEF TypeOK
  <2>2. CASE Host \/ Natives \/ Ended
    BY <2>2 DEF Host, HostPushArg, HostCall, HostFinish, Natives, NativeStarts,
       NativeReturns, Ended, vars, GoesWild
  <2> QED
    BY <2>1, <2>2 DEF Next
<1>2. [][GoesWild => WildCause]_vars => WildOnlyByData
  BY PTL DEF WildOnlyByData, GoesWild, WildCause
<1> QED
  BY <1>1, <1>2, TypeCorrect, FlowInvariant, PTL DEF Spec

-----------------------------------------------------------------------------
\* The calls a program has pending, as the frames stand for them.
PendingCall(f) == [site |-> f.return_address - VM_I_SIZE - SVM_CELL_SIZE, top |-> f.previous_SP]
Pending(fs)    == [i \in 1 .. Len(fs) |-> PendingCall(fs[i])]
Calls          == [site : Int, top : Int]

LEMMA PendingType ==
    ASSUME NEW fs \in Seq(SVMI_call_context)
    PROVE  Pending(fs) \in Seq(Calls) /\ Len(Pending(fs)) = Len(fs)
<1>1. \A f \in SVMI_call_context : PendingCall(f) \in Calls
  BY CellHalfAssumption
  DEF PendingCall, SVMI_call_context, Calls, Address, CellMod, VM_I_SIZE, SVM_CELL_SIZE
<1>2. Len(fs) \in Nat /\ \A i \in 1 .. Len(fs) : PendingCall(fs[i]) \in Calls
  BY <1>1
<1> QED
  BY <1>2 DEF Pending

LEMMA PendingAppend ==
    ASSUME NEW fs \in Seq(SVMI_call_context), NEW f \in SVMI_call_context
    PROVE  Pending(Append(fs, f)) = Append(Pending(fs), PendingCall(f))
<1> DEFINE all == Append(fs, f)
<1>1. /\ all \in Seq(SVMI_call_context) /\ Len(all) = Len(fs) + 1
      /\ all[Len(all)] = f /\ \A i \in 1 .. Len(fs) : all[i] = fs[i]
  BY AppendProperties
<1>2. /\ Pending(all) \in Seq(Calls) /\ Len(Pending(all)) = Len(fs) + 1
      /\ Pending(fs) \in Seq(Calls) /\ Len(Pending(fs)) = Len(fs)
  BY <1>1, PendingType
<1>3. PendingCall(f) \in Calls
  BY CellHalfAssumption
  DEF PendingCall, SVMI_call_context, Calls, Address, CellMod, VM_I_SIZE, SVM_CELL_SIZE
<1>4. \A i \in 1 .. Len(fs) + 1 : Pending(all)[i] = Append(Pending(fs), PendingCall(f))[i]
  <2> HIDE DEF all
  <2> TAKE i \in 1 .. Len(fs) + 1
  <2>1. Pending(all)[i] = PendingCall(all[i])
    BY <1>1 DEF Pending
  <2>2. CASE i = Len(fs) + 1
    BY <1>1, <1>2, <2>1, <2>2
  <2>3. CASE i # Len(fs) + 1
    <3>1. i \in 1 .. Len(fs)
      BY <2>3, LenProperties
    <3> QED
      BY <1>1, <1>2, <2>1, <3>1 DEF Pending
  <2> QED
    BY <2>2, <2>3
<1> HIDE DEF all
<1> QED
  BY <1>2, <1>3, <1>4, SeqEqual, AppendProperties DEF all

LEMMA PendingFront ==
    ASSUME NEW fs \in Seq(SVMI_call_context), fs # <<>>
    PROVE  /\ Pending(SubSeq(fs, 1, Len(fs) - 1))
                = SubSeq(Pending(fs), 1, Len(Pending(fs)) - 1)
           /\ Pending(fs) # <<>>
           /\ Pending(fs)[Len(Pending(fs))] = PendingCall(fs[Len(fs)])
<1> DEFINE front == SubSeq(fs, 1, Len(fs) - 1)
           short == SubSeq(Pending(fs), 1, Len(Pending(fs)) - 1)
<1>1. /\ front \in Seq(SVMI_call_context) /\ Len(front) = Len(fs) - 1
      /\ \A i \in 1 .. Len(front) : front[i] = fs[i] /\ i \in 1 .. Len(fs)
      /\ Len(fs) \in 1 .. Len(fs)
  BY FrontElements
<1>2. /\ Pending(fs) \in Seq(Calls) /\ Len(Pending(fs)) = Len(fs) /\ Pending(fs) # <<>>
  BY <1>1, PendingType, EmptySeq
<1>3. /\ short \in Seq(Calls) /\ Len(short) = Len(fs) - 1
      /\ \A i \in 1 .. Len(short) : short[i] = Pending(fs)[i]
  BY <1>2, FrontElements
<1>4. Pending(front) \in Seq(Calls) /\ Len(Pending(front)) = Len(front)
  BY <1>1, PendingType
<1> HIDE DEF front, short
<1>5. \A i \in 1 .. Len(front) : Pending(front)[i] = short[i]
  BY <1>1, <1>3 DEF Pending
<1>6. Pending(front) = short
  BY <1>1, <1>3, <1>4, <1>5, SeqEqual
<1> QED
  BY <1>1, <1>2, <1>6 DEF front, short, Pending

LEMMA QuietFrames ==
    ASSUME AtStart, Exec, ~Call, ~Ret PROVE UNCHANGED frames
<1>1. CASE WildFetch \/ NoEffect \/ MovReg \/ MovMem \/ MovInvalid
  BY <1>1 DEF WildFetch, NoEffect, MovReg, MovMem, MovInvalid, Fail, Return, memory
<1>2. CASE AddSub \/ IncDec \/ Mul \/ Div \/ Mod
  BY <1>2 DEF AddSub, IncDec, Mul, Div, Mod, Divide, SetResult, SetFloat, Fail, Return, memory
<1>3. CASE Shift \/ Bitwise \/ Not \/ Cmp \/ Jmp \/ JumpIf \/ Loop
  BY <1>3 DEF Shift, Bitwise, Not, Cmp, Jmp, JumpIf, Loop, SetResult, memory
<1>4. CASE Push \/ PushSR \/ Pop \/ PopSR
  BY <1>4 DEF Push, PushValue, PushSR, Pop, PopSR, Return, memory
<1>5. CASE NCall \/ Brk \/ Halt
  BY <1>5 DEF NCall, Brk, Halt, Fail, Return, memory
<1> QED
  BY <1>1, <1>2, <1>3, <1>4, <1>5 DEF Exec

LEMMA NestedStep ==
    ASSUME TypeOK, FlowInv, TypeOK', [Next]_vars
    PROVE  [Nested!Next]_<<IP, SP, Pending(frames)>>
<1>1. /\ MachineTypes /\ frames \in Seq(SVMI_call_context) /\ code \in Programs
      /\ IP \in Address /\ IP' \in Address /\ SP' \in Address
  BY UnsignedType DEF TypeOK, MachineTypes, FlowInv, IP, SP, Slots, rIP, rSP
<1>2. UNCHANGED frames => Nested!Move
  BY <1>1 DEF Nested!Move, Pending, PendingCall
<1>3. CASE Call /\ ~Fail("terminated")
  <2>1. AtStart
    BY <1>1, <1>3, StartFacts DEF Call, Dispatch, FlowInv, ControlFlowIntegrity
  <2>2. /\ frames' = Append(frames, CallFrame) /\ SP' = SP
        /\ CallFrame = [return_address |-> IP + VM_I_SIZE + SVM_CELL_SIZE, previous_SP |-> SP]
        /\ IP + VM_I_SIZE + SVM_CELL_SIZE \in Starts
    BY <1>1, <1>3, <2>1, CallStep
  <2>3. CallFrame \in SVMI_call_context
    <3>1. IP + VM_I_SIZE + SVM_CELL_SIZE \in Address
      BY <1>1, <2>2, StartIsCode
    <3> QED
      BY <1>1, <2>2, <3>1 DEF SVMI_call_context
  <2>4. PendingCall(CallFrame) = [site |-> IP, top |-> SP]
    <3>1. (IP + VM_I_SIZE + SVM_CELL_SIZE) - VM_I_SIZE - SVM_CELL_SIZE = IP
      BY <2>1 DEF AtStart, VM_I_SIZE, SVM_CELL_SIZE
    <3> QED
      BY <2>2, <3>1 DEF PendingCall
  <2>5. Pending(frames)' = Append(Pending(frames), [site |-> IP, top |-> SP])
    <3>1. Pending(Append(frames, CallFrame)) = Append(Pending(frames), PendingCall(CallFrame))
      BY <1>1, <2>3, PendingAppend
    <3>2. Pending(frames)' = Pending(frames')
      BY DEF Pending, PendingCall
    <3> QED
      BY <2>2, <2>4, <3>1, <3>2
  <2>6. ASSUME NEW s \in Address, s = IP PROVE Nested!CallFrom(s)
    BY <1>1, <2>6, <2>2, <2>5 DEF Nested!CallFrom, Pending, PendingCall
  <2>7. \E s \in Address : Nested!CallFrom(s)
    <3>1. \E s \in Address : s = IP
      BY <1>1
    <3> QED
      BY <2>6, <3>1
  <2> QED
    BY <2>7 DEF Nested!Next
<1>4. CASE Ret /\ frames # <<>>
  <2> DEFINE f == frames[Len(frames)]
  <2>1. /\ frames' = SubSeq(frames, 1, Len(frames) - 1)
        /\ IP' = f.return_address /\ SP' = f.previous_SP /\ f \in SVMI_call_context
    BY <1>1, <1>4, RetStep
  <2>2. /\ Pending(SubSeq(frames, 1, Len(frames) - 1))
              = SubSeq(Pending(frames), 1, Len(Pending(frames)) - 1)
        /\ Pending(frames) # <<>>
        /\ Pending(frames)[Len(Pending(frames))] = PendingCall(f)
    BY <1>1, <1>4, PendingFront
  <2>3. Pending(frames)' = SubSeq(Pending(frames), 1, Len(Pending(frames)) - 1)
    <3>1. Pending(frames)' = Pending(frames')
      BY DEF Pending, PendingCall
    <3> QED
      BY <2>1, <2>2, <3>1
  <2>4. /\ IP' = PendingCall(f).site + (VM_I_SIZE + SVM_CELL_SIZE)
        /\ SP' = PendingCall(f).top
    <3>1. f.return_address \in Int
      BY <2>1, CellHalfAssumption DEF SVMI_call_context, Address, CellMod
    <3> QED
      BY <2>1, <3>1 DEF PendingCall, VM_I_SIZE, SVM_CELL_SIZE
  <2> HIDE DEF f
  <2>5. Nested!Return
    BY <2>2, <2>3, <2>4 DEF Nested!Return, Pending, PendingCall
  <2> QED
    BY <2>5 DEF Nested!Next
<1>5. CASE Exec /\ ~(Call /\ ~Fail("terminated")) /\ ~(Ret /\ frames # <<>>)
  <2>1. AtStart
    BY <1>1, <1>5, ExecFlow
  <2>2. UNCHANGED frames
    BY <1>5, <2>1, QuietFrames DEF Ret, Return, Fail, memory
  <2> QED
    BY <1>2, <2>2 DEF Nested!Next
<1>6. CASE Host \/ Natives \/ Ended \/ UNCHANGED vars
  <2>1. UNCHANGED frames
    BY <1>6 DEF Host, HostPushArg, HostCall, HostFinish, Natives, NativeStarts, NativeReturns,
       Ended, vars, memory
  <2> QED
    BY <1>2, <2>1 DEF Nested!Next
<1> QED
  BY <1>3, <1>4, <1>5, <1>6 DEF Next

\* exec implements nested calls: whatever is between, and however often the host
\* starts over, each RET goes back behind the CALL it belongs to, with its SP.
THEOREM CallsAreNested == Spec => CallsNest
<1>1. Init => Nested!Init
  <2> SUFFICES ASSUME Init PROVE Nested!Init
    OBVIOUS
  <2>1. IP = 0 /\ SP = 0 /\ 0 \in Address
    BY CellHalfAssumption DEF Init, IP, SP, Unsigned, Slots, rIP, rSP, Address, CellMod
  <2>2. frames = <<>>
    BY DEF Init
  <2> QED
    BY <2>1, <2>2 DEF Nested!Init
<1>2. TypeOK /\ FlowInv /\ TypeOK' /\ [Next]_vars
      => [Nested!Next]_<<IP, SP, [i \in 1 .. Len(frames) |->
                           [site |-> frames[i].return_address - VM_I_SIZE - SVM_CELL_SIZE,
                            top  |-> frames[i].previous_SP]]>>
  BY NestedStep DEF Pending, PendingCall
<1> QED
  BY <1>1, <1>2, TypeCorrect, FlowInvariant, PTL DEF Spec, CallsNest, Nested!Spec
=============================================================================

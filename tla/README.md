# The Simple C compiler and its virtual machine, in TLA+

This directory holds a formal model of the program in `src/CC`: TLA+ modules
translated from the C++ source, TLC runs that check them on small instances and
theorems about them that TLAPS proves. Paths below are relative to `src/CC`.

## 1. The system

Two programs share the repository. `scc` is a compiler in its beginnings: it reads
a file, turns its line ends into LFs, splits it into tokens and will, one day, build
a tree and emit code. `scvm` is the machine that would run that code: an
interpreter of 32-bit words, with contexts for its threads.

| component | state | operations | hard behaviour | what makes it correct |
|---|---|---|---|---|
| instruction set (`scvm/SVM.h`, register file of `scvm/svmi.h`) | - | the fields of a word, flags, registers | two numberings of the registers, wrap-around, no quotient | a name means its register; flags are those of one result |
| interpreter (`scvm/svmi.cpp`, `SVMI::exec`) | registers, SR, call contexts, stack, data segment | the cases of the switch; `call`, `call_push_arg_*`, `call_finish` from the host | operands that exec must step over, halts inside calls, reuse of a context, stack limits | IP is always at an instruction; calls nest; SP stays within the stack; no processor fault; counted loops end |
| context pool (`SVMI::ctx_create`, `ctx_destroy`, `SVMI_context_scope`) | free list, list of created contexts, mutex | open and close a scope | threads, an allocation that fails anywhere, `assert` compiled out | a context has one scope; no registered one is lost; the lock is released |
| VM set-up and images (`SVMI::init`, `SVMI_image`) | three pointers | store them; the loaders are empty | - | - |
| text parser (`scc/textbuf.cpp`) | text, cursor, line counter | CRLF loop, `skip_spaces`, `store_context`, `restore_context` | a text that moves while it is walked over; bytes behind its end | only CRLFs change; the line is that of the position |
| lexer (`scc/scclex.cpp`) | keywords, the token | `next_tok` | look-ahead by moving the cursor; a bounded token | longest tokens; nothing but blanks between them; each token consumes text |
| AST build loop (`ast_root::build`) | - | calls `next_tok` until it ends | termination | it ends |
| AST declarations (`scc/sccAST.*`) | for each kind a vector of nodes and a map from names; arguments and variables of functions | declare, find, add a variable, size of a frame | a look-up that inserts, an exception between vector and map, names that fill their array, sums that wrap around | a name is bound once, to a node of that name; a frame has room for each variable |
| source files (`scc/memfile.*`) | buffer, open files | `load`, `release` | four failures half-way; a success that leaves the file open | what fails leaves nothing behind |
| compiler driver (`scc/scc.cpp`, `scc::run`) | the pass it is at, the tree | one run after the other | a failure in any pass, exceptions, two of which nobody catches | text and files are accounted for; the lexer never outlives its text; true means that the text was read |
| linkers registry (`scc/scclink.cpp`) | table of fixed size | register, get | the limit | it never holds more than the limit |
| string table (`scc/strtbl.*`) | buffer, its size, layouts of the strings | `add_string`, `release` | growth, a failed `realloc`, a `push_back` that throws, use after `release` | a reader finds a whole string that was given; nothing is freed twice |
| code emitter (`scc/scc_code_emitter.h`) | vector of bytes | one method per instruction | a store behind the vector, values behind instructions, a vector that throws between the two | `m_code` holds what was written, which it does not |
| image parser (`scc/svmx.*`) | image | `find_image_exports` | tests of sizes and offsets | an offset reported as outside is outside |
| byte writer, diagnostics, preprocessor, the lexer's test | - | - | - | - |

How they interact: the driver hands a `memfile` to the lexer, the lexer owns a text
parser, `build` pulls tokens; `exec` reads an image through `SVMI_image_info` and works on
one context; natives and the debug procedure are callbacks from `exec` to the host; the
pool is the only state threads share. `scc::run` owns a `memfile` and a lexer as locals, a tree that nothing
deletes, and uses the process-wide registry of linkers. Nothing connects the two programs yet: no
code is generated, no image is loaded; what they share is `SVM.h`, the layout of a word.

## 2. Modules

| module | what it is |
|---|---|
| `SVM` | instruction set: cells, arithmetic, slots, flags, words |
| `SVMCode` | an instruction packed into an int, and taken out of it |
| `SVMI` | `exec` and the host's calls around it, one action per group of cases; type invariant and safety properties |
| `SVMIStatic` (extends `SVMI`) | static rules for programs, and what programs that satisfy them may rely on |
| `CallReturn` | abstract specification: nested calls |
| `SVMIClaims` (extends `SVMI`) | statements of comments and documents that `exec` contradicts |
| `SVMIPool` | the pool under its mutex, statement by statement |
| `ContextLease` | abstract specification: exclusive leases |
| `SCCText` | text parser |
| `SCCLex` (extends `SCCText`) | the lexer under the loop of `build` |
| `SCCLexClaims` (extends `SCCLex`) | a statement of a comment that the lexer contradicts |
| `ASTRoot` | the declarations of the tree |
| `MemFile` | load and release of a file in memory |
| `SCC` (extends `MemFile`, instantiates `SCCLex` and `ASTRoot`) | `scc::run` over all of them, with the registry of linkers |
| `StringTable` | the string table |
| `Emitter` (extends `SVMCode`) | the code emitter, with a statement of a comment that it contradicts |
| `SVMX` | `find_image_exports` |
| `MC*` | the instances TLC checks |
| `SVMIPoolProofs`, `SVMIProofs`, `SVMIStaticProofs`, `SVMCodeProofs`, `ASTRootProofs`, `SCCLexProofs`, `SCCProofs`, `StringTableProofs` | theorems |

A definition named as *variant* in a comment is a plausible mistake in the one that
follows it; no specification uses it. It is there to be put in the other's place, to
see that the property it is meant for notices.

### SVM and SVMI

`regs` is `SVMI_VCPU_registers::regs`, with the general registers in slots 0 to 7, IP in 8, SP
in 9; `sr` is the set of the flags set in SR; `frames` is `m_call_contexts`; `stack`,
`data`, `code` are the segments. `mode` says who runs: the host, `exec`, or nobody, after
the process has been ended by the processor or by `bad_alloc` (*terminated*) or the C++ program
has read or written outside its memory (*wild*). Nothing is claimed about what follows a wild
step. `status` is the value the last `exec` returned.

An action of `SVMI` is a whole turn of the loop: the fetch, `SR_reset`, `IP_add`, the case, and
the step over the imm32. `Dispatch` holds the part that is common. The cases are grouped
as the switch groups them (`AddSub`, `IncDec`, `Mul`, `Div`, ...); a mode that a case does not
test for goes to `NoEffect`. A word is a record of the fields `SVM_instr_fetch` takes out
of it, and `imm`, its value when it is read as an operand, so that a program can be decoded
at an operand, as in the source. The packing itself is `SVMCode`.

A native may use the context it gets: `NativeStarts` leaves exec at the step before the result is
stored, with the host's calls enabled, `NativeReturns` stores A and steps over an operand from
wherever IP has got to. `natives` counts those that have not returned. The inner `exec` works on the
same registers and frames, so that it may RET out of the call the native stands in, or HALT
and leave the outer exec to go on behind the inner one's end.

`SVMIStatic` says which programs keep clear of this: relative jumps, operands inside the code, every
way on among the instructions, and natives that call no entry.

Choices the source leaves open are nondeterministic: the results of floating point (any of
`FloatCells`, with any flags; zero and negative can both be set), what cells of the stack hold
before they are written, whether `PUSH SP` reads SP before or after its increment, the mask that
JG and JGE read out of a union that may never have been written, what a native returns, what the
debug procedure answers. Integer arithmetic wraps around, as the x86 build does; the
division of the least cell by -1 faults. `BitOp` is a parameter: the invariants do not
depend on what the bit operations compute, and the runs give it its meaning.

One assumption is not of the source: the stack. `SVMI_context` leaves `m_pstack` and
`m_nstack_size` uninitialised (`scvm/svmi.h:156`) and nothing allocates one; the model starts
with a stack of `StackSize` cells that an embedder has supplied. Code and data segments, whose
loader is empty, are likewise given. `HostPushArg` has the guard that the host leaves room,
because `call_push_arg_cell` tests nothing.

### SVMIPool

A thread for each scope; `pc` is the statement it is at. `lock_guard` is `Acquire` and
`Drop`, and only the mutex keeps other threads out of the statements between. `NewFails`
is the `nullptr` of `new (std::nothrow)`. The two `push_back`s have no such protection. When the one in
`ctx_create` throws (`RegisterThrows`), the context that `new` has just given is leaked: it is in `created`, in
no list and with no scope; a host that catches goes on, after the lock is released, one that does not ends. When the
one in `ctx_destroy` throws, it does so out of the destructor of a scope, which ends the process
(`PushFreeThrows`). `Construct` is the `assert` of the scope: `ndebug` says whether the build has none, in which case
the scope goes on with a null pointer, which `PushFree` later puts into the free list; otherwise it ends the process.
`process` is `running` until one of these ends it.

### SCCText and SCCLex

A text is a sequence of characters in a memory that goes on behind it. `TransformOne`
is a turn of the CRLF loop: the rest of the text moves down by a byte, the last byte
stays where it was, so that after the loop old characters stand behind the end. Reading
behind the memory is *wild*, as is a token longer than `tok.string`; a `strstr` that meets no NUL
may be. `next_tok` has one action per way it returns; `Take` is a token that was read. The cursor
of a whole call is computed by `Walk`, which counts the line ends `pos_increment` arrives
at. `Characters` is any alphabet that has NUL, LF and CR, of which `Letters` and `Digits` are
what `isalpha` and `isdigit` accept; the other characters the cases of the lexer name stand for themselves. The flags of tokens, which nobody reads, are left out; `\t` and `\v` in a literal are blanks.

### ASTRoot

`decls` holds the three vectors, `names` the three maps; a pointer to a node is its index, since no node
is moved or deleted. A name without an entry is `Absent`, one that a look-up has inserted is
`Null`. `Declare` is `new`, `push_back`, `emplace`; `DeclareThrows` is an exception out of any of them, so that the
node may be in the vector only. `NameKept` is `strncpy` into the array of the node, after which a name
that fills it has no end. `stackframe_size` sums the sizes modulo that of a `size_t`, over types that
may be null (`Bytes` is what a variable needs, `Size` what is left of it in a `size_t`; `Typed` is the obligation of the caller: a null type cannot be asked for its size).

### MemFile and SCC

A path is what can be read there: a text, the empty file, or nothing. `files` and `texts` count what the
process has open and allocated. `SCC` runs `scc::run` again and again: `pc` is the pass it is at. `Load`,
`InitLexer`, `BuildToken` take their steps from `MemFile` and `SCCLex`, `NewAST` and `DeclType` from
`ASTRoot`. Each early return is an action, with its `Release`; an exception in the keywords of the
lexer (`Throw`), or out of the `std::string` that `find_keyword` makes of a word (`BuildThrows`), which nobody
catches, ends the process, and so does a read outside the memory of the text. The end of a run that succeeded releases nothing, and the destructor of `memfile` does nothing: `Forget`.
Nothing registers a linker in the source; `RegisterLinker` is what will, between runs.

### StringTable, Emitter, SVMX

`StringTable` keeps the buffer, the size the table says it has, and the offsets it gave. `m_strinf`, from
which a string takes its start, is never written but from itself, so that `start_offset` is 0. The `push_back` of
the layout comes last and may throw (`LayoutThrows`), after the buffer has grown and the string is in it
(`AddCopiedThrows`). `added` (what was accepted), `given` (what `add_string` was called with), `blocks` and
`lost` are histories. `Emitter` writes words into `m_code`, where `write` stores behind the room it has made: `m_code`
holds zeros, the store may hit something else (`wild`), and `written` remembers the words. `WriteHalf` is a vector
that throws between the word of an instruction and its operand. `SVMX` is the tests of
`find_image_exports` in their order; what a look outside the image finds is left open.

## 3. Runs

| run | what it checks | instance |
|---|---|---|
| `Interpreter` | `TypeOK`, `StackBounds`, `FlagsExclusive`, `FaultsOnlyWithoutQuotient` | all programs of two words and a HALT over 51 words; procedures whose native calls back, one native deep |
| `WellFormed` | `ControlFlowIntegrity`, `WildOnlyByData`, `CallsNest`, `CountedProgramsEnd` (liveness) | all well-formed programs of three instructions over 52, counted programs of three or four |
| `Pool` | `TypeOK`, `ExclusiveLease`, `NoneLost`, `CreatedOnlyWhenAllHeld`, `ImplementsLeases`, `LockReleased` (liveness) | 3 threads, 4 contexts, any allocation may fail, with and without `NDEBUG` |
| `Lexer` | `TypeOK`, `TextIsUnix`, `LineIsCounted`, `MaximalMunch`, `ShortTextStaysInside`, `InputErrorIsInText`, `LiteralIsItsText`, `OnlyBlanksBetween`, `LfTextsEnd` (liveness, behind NULs) | all texts of up to 3 of 16 characters, up to 4 of 7, up to 6 of 3, up to 4 of CR, LF and NUL; four memories behind them |
| `Compiler` | `TypeOK`, `ResourcesAccounted`, `LexerHasItsText`, `TypesBeforeTokens`, `TrueMeansRead`, `RunReturns` (liveness) | all texts of up to 2 of 6 characters, a file that does not open; 2 files, 2 linkers; any number of runs |
| `Declarations` | `TypeOK`, `FoundByItsName`, `FirstUseDecides`, `VarsFitFrame` | two types, a function, a global variable; one name fills its array; two variables in each list of a function, of one dimension; a `size_t` of 4 bits |
| `StringTable` | `TypeOK`, `ReadsAreGiven`, `AcceptedFits`, `BlocksAccounted` | six strings of up to 6 characters, 4 of them added, 2 failed reallocations, any number of exceptions |
| `Claim_*` | one statement of a comment or document each, which the code contradicts | short programs, texts of up to 3, images around the size of their header, every method of the emitter |

Why the bounds are enough. Cells have 6 bits (`CellHalf = 32`) and bytes 2: every overflow, the
division without a quotient, an operand that does not fit a byte and a jump back are
reached, and an address of a program still fits. The host calls an entry again and again on the
same context, so that a program of two instructions is a sequence of any length of them, with
whatever a halt or an error left behind. A stack of 2 cells and 2 frames are
filled and emptied in every order. `MaxFrames` stands for the memory of the vector, `MaxNatives` for the
depth of the C++ stack; one native in another would repeat what one in a run does. Three scopes are
what the steps of the pool relate to each other (a holder, one that takes, one that returns), and
four contexts one more than they can hold, so that one can be leaked while three are in use. The longest operator has 3 characters, an escape 2, a CRLF
2; texts of 6 over CR, LF and a digit hold three CRLFs, touching or not, at the end or not. A NUL inside a text
is one at which `strstr` stops, with CRLFs left behind it: `TextIsUnix` is for texts without one, the other properties for
all. `MaxTokString`
is 4, so that tokens overflow and fit. Two files are enough for a run to find none left; the texts of
`Compiler` are short because every one of them is combined with every failure, the lexer has its own run.
In `Declarations` a type can be declared twice, looked up before and after, and abandoned between vector and
map; two variables in each list, of 5 or 15 bytes each, are sums that stay within 4 bits and sums that
wrap around, in one list or only over both. The strings of `StringTable` are
such that the room made for one is less than, equal to and more than what another needs. The first
word of the emitter that is not zero is enough to contradict its comment.

Deadlock is checked in every run but `StringTable` and `Claim_CodeIsCollected`, which stop where their bounds
(`MaxStrings`, `MaxLost`, `MaxWords`) are reached or memory was hit; `Ended` is the step of a program that
is over.

### Fairness

`SVMI!FairSpec` is weak fairness of `Exec` with no change of `natives`: `exec` is a plain loop on the
caller's thread. The host and the natives are not fair: nothing makes them call or return.
`SVMIPool!FairSpec` is weak fairness of the steps of a thread that holds the mutex; `std::mutex` gives no
order among those that wait, and no fairness is assumed for taking it. `SCCLex!FairSpec` is weak fairness of
the loops over the text. `SCC!FairSpec` is weak fairness of the steps of a run, which is plain code of
one thread; that anybody calls run, or registers a linker, is not assumed. `ASTRoot`, `StringTable`, `Emitter`
and `SVMX` have callers only, and no fairness.

### Where code and documents disagree

Five runs state what a comment or a document says and show the program doing something else;
`PROJECT.json` quotes the line each comes from under `findings`:

- `JumpsIfZero`: every fetch clears SR, so JZ and JE never jump (and JL and JLE always do).
- `TokenTakesItsSpelling`: an operator of one character takes the next character with it, `--` is
  SCCT_INC and `~` is SCCT_XOR.
- `BuildFinishes`: a text with a CRLF leaves a copy of its last character behind its end; when that is a
  letter, `next_tok` makes empty tokens of it for ever.
- `OutOfBoundsIsOutside`: `find_image_exports` reports an offset as out of bounds exactly if it is inside.
- `CodeIsCollected`: the member of the emitter that is to collect the byte-code holds zeros, since `write` stores
  behind the room it has made.

The models have more of them, without a run of their own.

- exec: POP reads the cell above the top of the stack; POPSR counts SP up, without a test of the upper
  end; CMP uses one byte of its imm32; the integer DIV A, B returns the floating point status; a RET
  without a call returns the status of an overflow that CALL never returns; a HALT inside calls leaves
  them to the next run; LOOP R skips a word when C is spent; a native that called back resumes
  its caller four bytes behind the inner run's end.
- The numbers of `SVM_REGS` from SR on are not the slots of the register file; the comment at `SVM.h:50`
  has the two registers of a word the other way round than `SVM.h:132`, which writer and reader share.
- Pool: a scope without a context puts its null pointer into the free list for another; a registration that throws
  leaks its context.
- Lexer: `scclex.cpp:95` ("escaped strings or escape sequences?") and `:101` ("handle escape sequences"), with the case of
  the quote at `:116`, mean `\"` to be a character of its literal; since the loop goes round without moving on
  (`:138`), the quote is read again and ends the literal. `ReadString` models this. The number of lines `init` stores is that of the CRLFs.
- Driver: `run` returns 1, true, without memory for the tree; a successful load leaves its file open, a
  successful run its text allocated.
- String table: `strtbl.h:9` and `:23` promise each string an offset of its own; all of them get 0.
- Emitter: `fsub` of two registers emits ADD; `add` and `fadd` of a
  value say REG, so that exec would decode the value as an instruction.
- Image parser: the chunk asked for as the data segment is that of the exports again.

The properties that hold are stated around these: `StackBounds` has POPSR as a precondition,
`LfTextsEnd` and `RunReturns` are for texts without CRLFs, `MaximalMunch` concerns where tokens begin and
not what they take besides, `LiteralIsItsText` is for literals without a backslash, `ReadsAreGiven` says that a reader
finds some string that was given and not which, `NoneLost` and `CreatedOnlyWhenAllHeld` speak of the contexts that were
registered, `TrueMeansRead` leaves out the tree without memory.

## 4. Theorems

The theorems hold for all values of the constants that satisfy the named assumptions:
any cell and byte width with `ByteMod <= CellHalf`, any program, any stack size below
`CellHalf`, any number of threads and contexts, any names, strings and files, any alphabet, any texts and
any memory behind them. Every invariant and every action property of a passing run has its theorem.

- `SVMIProofs!TypeCorrect`: `Spec => []TypeOK`. `TypeOK` is inductive; the proof has a lemma for each
  case and rests on lemmas about `Wrap`, `Quotient`, `Remainder`, `SR_set_flags` and the
  registers. `MachineTypes` is the part without `natives`; `NativeTypes` adds the natives that call back.
- `SVMIProofs!StackIsBounded`: `Spec => []StackBounds`. The invariant is inductive
  together with `TypeOK`, and it has to speak of the frames: RET restores an SP that must be within the
  stack too, also one that an outer run has saved. Every case but PUSH, PUSHSR, POP, RET and those with a
  destination keeps SP, and a destination is never SP. `PopSR`, which would break it, is excluded by the
  program.
- `SVMIProofs!FlagsAreExclusive`: each turn starts from no flags and sets those of one value.
- `SVMIProofs!FaultsHaveNoQuotient`: an action property, from `TypeOK` and `Len(frames) <= MaxFrames`: each case of the
  switch but the integer DIV, MOD and CALL keeps the process running, and those two end it only where
  `DivisionFaults` holds of the destination as it was fetched and of the divisor.
- `SVMIStaticProofs`: `FlowIsIntact`, `WildIsByData`, `CallsAreNested`, for well-formed programs of any length below the
  sign bit (`WellFormedAssumption`, `ShortAssumption`, `NativesAssumption`). `FlowInv` is `ControlFlowIntegrity` with
  `NativeWaits`: while the host runs inside a native, IP is at the operand of its NCALL, and an
  instruction stands behind it, where the return of the native leads. `StartsClosed` says that the
  set of starts exists and each instruction leads back into it; then each case moves IP by its own length, to its
  own jump, or to a return address (`Onward`). For `CallsAreNested`
  each step maps to a `CallFrom`, a `Return`, a `Move` or a stutter of `CallReturn`.
- `SVMCodeProofs!FetchInvertsWrite`: the five fields of a word are digits of one number, the last of which carries the
  sign; `SVM_instr_fetch` gives back what `SVM_instr_write` packed, each field cut to its bits. No run states it: the
  words of `Emitter` are packed by it, but nothing fetches them.
- `SVMIPoolProofs`: `TypeCorrect`, `LeaseIsExclusive`, `NoContextLost`, `CreationIsBounded`,
  `PoolImplementsLeases`. `ExclusiveLease` is not inductive: a thread between `back()` and
  `pop_back()` has a pointer that is still in the free list. The strengthening says who is inside the
  critical section (the one that holds the mutex, and nobody else), that a context occurs once in the
  free list, that the list and the held pointers are disjoint but for the back of the list while
  a thread is at `pop_back`, and that all of them are in `created`. `RegisterInv` says that a context
  whose registration is under way is not yet registered: if `push_back` throws, no registered context goes with it. `PoolImplementsLeases`
  maps each step to a step of `ContextLease` or a stutter: `UnlockCreate` acquires, `LockDestroy`
  releases.
- `SCCLexProofs`, eight theorems over three invariants.
  `LexInv` is for `TypeCorrect` and `LinesAreCounted`: a walk stops at the least position where it may, a stop
  never lies behind the memory by more than one, and `Lines` adds up over adjoining stretches, so that what the
  look-ahead of a shift counts is taken back with its position. The number of lines is below the size of the text because
  the first byte is never counted.
  `UnixInv` is for `LinesAreUnix`. In the middle of the CRLF loop the memory is in two parts: in front of the cursor
  the n-th byte is the n-th of the characters that stay (`Rank` counts the staying ones up to an index),
  behind it the bytes are the old text, shifted by the number of CRLFs so far. `strstr` not finding one
  says that nothing behind the cursor is replaced any more. A CR that comes to stand before an LF the loop has made is
  in front of the cursor, and stays.
  `ShelterInv` is for `ShortTextsStayInside`: with NULs behind the text every search stops at most one byte behind its
  end, unless `strstr` finds a CRLF across the end of the shrunk text, whose LF is a copy left behind:
  the first conjunct excludes it.
  `TokensAreAdjacent`, `ErrorsAreInText` and `TokensAreMaximal` compare the cases of `read_delims` with the spellings the comments of
  `SCC_TOK` give (`Spelled`): each operator looks for each longer spelling that there is of it; `InputErrorIsInText` needs that
  each spelling has its case. `LiteralsAreTheirText` rests on `PlainLiteral`: where there is
  no backslash `Unescaped` copies byte for byte.
- `ASTRootProofs`: `TypeCorrect`, `LookUpsFindTheName`, `FirstUseIsForEver`, `FramesHoldTheirVars`. The inductive
  invariant `DeclsInv` is
  `TypeOK`, `FoundByItsName` and `Shape` (the two variables are functions of the kinds). Types matter
  to each other here: a variable points into the vector of types, which only grows. `FramesHoldTheirVars` is about
  the running sums of `stackframe_size`: that the function of them exists (`SumsExist`), that no summand is above its sum
  (`SumBounds`), and that as long as the whole is below `SizeMod` the remainders are the sizes (`TotalIsRoom`).
- `SCCProofs`: `TypeCorrect`, `ResourcesAreAccounted`, `LexerNeverDangles`, `TypesAreDeclared`, `TrueIsRead`. None
  of them is inductive: `RunInv` adds `MemoryInv` (a text is held exactly inside a run) and `TypesInv` (how many
  of the standard types are declared and found at each pass, and that the emitter is reached only
  after a build without an error). The steps of the lexer enter only through what they do to
  `build` and `text`.
- `StringTableProofs`: `TypeCorrect`, `ReadsFindGiven`, `AcceptedStringsFit`, `NoDoubleFree`, all from `TableInv`,
  which adds `LayoutInv`: every layout starts where the buffer holds a whole string.

Three of these would be inductions over the naturals: the first stop of a walk, the sums of a frame and
the existence of the function that has them. The provers cannot instantiate an
induction theorem; the proofs use instead that a set of naturals that is not empty has a least element (`WFMin` over
`NatLessThanWellFounded`) and look at the least number at which the statement would fail. `LexInv`, `UnixInv` and
`ShelterInv` were checked with TLC before they were proved, on the texts of `Lexer`.

Only model-checked: the four liveness properties `CountedProgramsEnd`, `LockReleased`, `LfTextsEnd` and `RunReturns`, since
fairness and `ENABLED` are out of the prover's reach, and the five runs that show a
disagreement, which are about one behaviour each.

## 5. Not modelled

- `SVMI::init`, `shutdown`, the empty image loaders, `SVMI_reference_counted` (unused),
  `scvm/main.cpp` (does not compile; its use of a context is the host of `SVMI`).
- Natives that change the context otherwise than a host can; registers 13 to 15, which a word can name
  and the register file does not hold: what they hit is the layout of the build.
- Characters above 127, for which `isalpha` gets a negative number, and the flags of tokens, which nothing reads.
- Operations of the text parser that nothing calls (`skip_all_to_substr`, `skip_all_to_nextline`,
  `increment_lines_count_to_current_pos`, `reset_cursor`), the constructor of `memfile` over a text, `ast_scope`.
- The comparison of names in the image parser, behind the test that lets only offsets outside the image
  through.
- Byte writer, diagnostics, preprocessor (an empty class), the lexer's test program: nothing to
  interleave or to fail, or wording only.

## 6. Plan

Done: all modules of section 2; type correctness, safety and action properties of everything a passing run
checks. What is left is proofs about what no run states yet, or states only by its bound:

1. `SVMX`: that `find_image_exports` looks at the table only of images whose offset is outside them, and its types.
2. `MemFile`: that a `load` that fails leaves the counts as they were, as a lemma of its own under `SCCProofs`.
3. `CountedProgramsEnd`: the variant that falls with each turn of a counted loop, as an action property, which is the
   part of it that needs no fairness.
4. `LfTextsEnd` likewise: that what is left of the text shrinks with each turn (`OnlyBlanksBetween` has it for tokens) and that no CRLF
   is found twice.

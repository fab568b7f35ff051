----------------------------- MODULE SCCProofs -----------------------------
(***************************************************************************)
(* What scc::run keeps on every path through it, however often it is       *)
(* called, whatever the files hold and wherever it fails.                  *)
(***************************************************************************)
EXTENDS SCC, SequenceTheorems, TLAPS

Reading == {"lexer", "ast", "types", "build"}

\* The memory of a run is held from load to its end; nothing else allocates.
MemoryInv ==
    /\ texts \in Nat /\ files \in Nat /\ loaded \in Nat /\ built \in Nat
    /\ pc = "idle" <=> m_ptext = NoText

Standards == {StandardTypes[i] : i \in 1 .. Len(StandardTypes)}

\* The first n standard types are declared, and are found by their names.
StandardInv(n) ==
    /\ decls = [kind \in AST!Kinds |-> decls[kind]]
    /\ names = [kind \in AST!Kinds |-> names[kind]]
    /\ decls.types \in Seq(Standards)
    /\ Len(decls.types) = n /\ n <= Len(StandardTypes)
    /\ names.types = [m \in TypeNames |-> names.types[m]]
    /\ \A i \in 1 .. Len(StandardTypes) :
           IF i <= n THEN /\ decls.types[i] = StandardTypes[i]
                          /\ names.types[StandardTypes[i].name] = i
                     ELSE names.types[StandardTypes[i].name] = Absent
TypesInv ==
    /\ pc = "types" => StandardInv(Len(decls.types))
    /\ pc \in {"build", "emit"} => StandardInv(Len(StandardTypes))
    /\ pc = "emit" => build = "OK"

RunInv == TypeOK /\ ResourcesAccounted /\ LexerHasItsText /\ MemoryInv /\ TypesInv

-----------------------------------------------------------------------------
LEMMA StandardNames ==
    /\ Len(StandardTypes) = 9
    /\ StandardTypes \in Seq(Standards)
    /\ \A i \in 1 .. 9 : StandardTypes[i].name \in TypeNames
    /\ \A i, j \in 1 .. 9 : StandardTypes[i].name = StandardTypes[j].name => i = j
<1>1. Len(StandardTypes) = 9
  BY DEF StandardTypes
<1>2. /\ StandardTypes[1].name = "bool" /\ StandardTypes[2].name = "char"
      /\ StandardTypes[3].name = "uchar" /\ StandardTypes[4].name = "short"
      /\ StandardTypes[5].name = "ushort" /\ StandardTypes[6].name = "int"
      /\ StandardTypes[7].name = "uint" /\ StandardTypes[8].name = "float"
      /\ StandardTypes[9].name = "double"
  BY DEF StandardTypes
<1>3. \A i \in 1 .. 9 : i = 1 \/ i = 2 \/ i = 3 \/ i = 4 \/ i = 5 \/ i = 6 \/ i = 7 \/ i = 8 \/ i = 9
  OBVIOUS
<1>4. \A i, j \in 1 .. 9 : StandardTypes[i].name = StandardTypes[j].name => i = j
  BY <1>2, <1>3
<1>5. \A i \in 1 .. 9 : StandardTypes[i].name \in TypeNames
  BY <1>1 DEF TypeNames
<1>6. StandardTypes = [i \in 1 .. 9 |-> StandardTypes[i]]
  BY DEF StandardTypes
<1>7. StandardTypes \in Seq(Standards)
  <2> DEFINE f == StandardTypes
  <2>1. f = [i \in 1 .. 9 |-> f[i]] /\ Len(f) = 9
    BY <1>1, <1>6
  <2>2. \A i \in 1 .. 9 : f[i] \in Standards
    BY <1>1 DEF Standards
  <2> HIDE DEF f
  <2> QED
    BY <2>1, <2>2 DEF f
<1> QED
  BY <1>1, <1>4, <1>5, <1>7

\* What a step of the lexer leaves alone.
LEMMA LexerSteps == Lex!Load \/ Lex!NextTok => text' = text
<1>1. Lex!Load => text' = text
  BY DEF Lex!Load, Lex!Transform, Lex!TransformOne, Lex!TransformDone, Lex!textvars
<1>2. Lex!NextTok => text' = text
  BY DEF Lex!NextTok, Lex!ReadSingle, Lex!ReadOperator, Lex!ReadDouble, Lex!ReadShift,
         Lex!ReadString, Lex!ReadWord, Lex!ReadNumber, Lex!EndInSpace, Lex!EndInNumber,
         Lex!EndOfText, Lex!InvalidChar, Lex!WildRead, Lex!Take, Lex!Finish, Lex!textvars
<1> QED
  BY <1>1, <1>2

LEMMA RunInit == Init => RunInv
<1> SUFFICES ASSUME Init PROVE RunInv
  OBVIOUS
<1>1. /\ m_ptext = NoText /\ m_nsize = 0 /\ files = 0 /\ texts = 0 /\ linkers = <<>>
      /\ pc = "idle" /\ result = FALSE /\ loaded = 0 /\ built = 0
  BY DEF Init, MemInit
<1>2. TypeOK
  <2>1. <<>> \in Seq(LinkerNames) /\ Len(<<>>) = 0
    OBVIOUS
  <2>2. 0 \in 0 .. MaxFiles /\ 0 <= MaxLinkers
    BY MemFileAssumption, SCCAssumption
  <2> QED
    BY <1>1, <2>1, <2>2 DEF TypeOK
<1> QED
  BY <1>1, <1>2 DEF RunInv, ResourcesAccounted, LexerHasItsText, MemoryInv, TypesInv

\* A step that keeps the memory, and does not go to or from idle.
LEMMA MemoryStays ==
    ASSUME RunInv, UNCHANGED memvars, UNCHANGED linkers, UNCHANGED history,
           pc # "idle", result' = result,
           pc' \in {"lexer", "ast", "types", "build", "emit", "ended"}
    PROVE  TypeOK' /\ ResourcesAccounted' /\ MemoryInv'
BY DEF RunInv, TypeOK, ResourcesAccounted, MemoryInv, memvars, history

\* A step that frees the text and returns.
LEMMA MemoryFreed ==
    ASSUME RunInv, Release, pc # "idle", pc' = "idle", result' \in BOOLEAN,
           UNCHANGED linkers, UNCHANGED history
    PROVE  RunInv'
<1>1. m_ptext # NoText /\ texts = built + 1 /\ texts \in Nat /\ built \in Nat
  BY DEF RunInv, MemoryInv, ResourcesAccounted
<1>2. m_ptext' = NoText /\ m_nsize' = 0 /\ texts' = texts - 1 /\ files' = files
  BY <1>1 DEF Release
<1>3. TypeOK' /\ ResourcesAccounted' /\ MemoryInv'
  BY <1>1, <1>2 DEF RunInv, TypeOK, ResourcesAccounted, MemoryInv, history
<1>4. LexerHasItsText' /\ TypesInv'
  BY DEF LexerHasItsText, TypesInv
<1> QED
  BY <1>3, <1>4 DEF RunInv

-----------------------------------------------------------------------------
LEMMA OutsideKeeps == ASSUME RunInv, RegisterLinker \/ Reject PROVE RunInv'
<1>1. /\ pc = "idle" /\ pc' = "idle" /\ UNCHANGED memvars /\ UNCHANGED history
      /\ result' \in BOOLEAN
  BY DEF RegisterLinker, Reject, At, Return, RunInv, TypeOK
<1>2. linkers' \in Seq(LinkerNames) /\ Len(linkers') <= MaxLinkers
  <2>1. CASE RegisterLinker
    <3>1. PICK name \in LinkerNames : linkers' = Append(linkers, name)
      BY <2>1 DEF RegisterLinker
    <3>2. linkers \in Seq(LinkerNames) /\ Len(linkers) < MaxLinkers
      BY <2>1 DEF RegisterLinker, Registers, RunInv, TypeOK
    <3>3. Len(linkers) \in Nat /\ MaxLinkers \in Nat
      BY <3>2, SCCAssumption
    <3> QED
      BY <3>1, <3>2, <3>3, AppendProperties
  <2>2. CASE Reject
    BY <2>2 DEF Reject, RunInv, TypeOK
  <2> QED
    BY <2>1, <2>2
<1> QED
  BY <1>1, <1>2 DEF RunInv, TypeOK, ResourcesAccounted, LexerHasItsText, MemoryInv, TypesInv,
                    memvars, history

LEMMA LoadKeeps == ASSUME RunInv, Load PROVE RunInv'
<1>1. /\ pc = "idle" /\ m_ptext = NoText /\ linkers' = linkers /\ built' = built
      /\ texts \in Nat /\ files \in Nat /\ loaded \in Nat /\ built \in Nat
      /\ files = loaded /\ texts = built
  BY DEF Load, At, RunInv, MemoryInv, ResourcesAccounted
<1>2. PICK path \in Paths :
          \/ LoadFails(path) /\ Return(FALSE) /\ UNCHANGED <<lexvars, loaded>>
          \/ LoadOK(path) /\ Goto("lexer") /\ LexerAt(path) /\ loaded' = loaded + 1
  BY DEF Load
<1>3. CASE LoadFails(path) /\ Return(FALSE) /\ UNCHANGED <<lexvars, loaded>>
  <2>1. m_ptext' = NoText /\ m_nsize' \in Nat /\ files' = files /\ texts' = texts
    BY <1>1, <1>3 DEF LoadFails, LoadOpenFails, LoadEmpty, LoadNoMemory, LoadShortRead, Failure,
                      memvars, RunInv, TypeOK
  <2>2. pc' = "idle" /\ result' = FALSE /\ loaded' = loaded
    BY <1>3 DEF Return
  <2> QED
    BY <1>1, <2>1, <2>2 DEF RunInv, TypeOK, ResourcesAccounted, LexerHasItsText, MemoryInv, TypesInv
<1>4. CASE LoadOK(path) /\ Goto("lexer") /\ LexerAt(path) /\ loaded' = loaded + 1
  <2>1. /\ m_ptext' = path /\ text' = path /\ m_nsize' = Len(path) /\ path # NoFile
        /\ files' = files + 1 /\ texts' = texts + 1 /\ files < MaxFiles
        /\ pc' = "lexer" /\ result' = result
    BY <1>4 DEF LoadOK, Opens, Goto, LexerAt
  <2>2. path # NoText /\ Len(path) \in Nat
    BY <2>1, SCCAssumption
  <2>3. files' \in 0 .. MaxFiles
    BY <1>1, <2>1, MemFileAssumption
  <2> QED
    BY <1>1, <1>4, <2>1, <2>2, <2>3
       DEF RunInv, TypeOK, ResourcesAccounted, LexerHasItsText, MemoryInv, TypesInv
<1> QED
  BY <1>2, <1>3, <1>4

LEMMA InitLexerKeeps == ASSUME RunInv, InitLexer PROVE RunInv'
<1>1. /\ pc = "lexer" /\ pc' \in {"lexer", "ast", "ended"} /\ result' = result
      /\ UNCHANGED memvars /\ UNCHANGED linkers /\ UNCHANGED history
  BY DEF InitLexer, At, Goto
<1>2. text' = text
  BY LexerSteps DEF InitLexer
<1>3. LexerHasItsText' /\ TypesInv'
  BY <1>1, <1>2 DEF RunInv, LexerHasItsText, TypesInv, memvars
<1> QED
  BY <1>1, <1>3, MemoryStays DEF RunInv

LEMMA ASTKeeps == ASSUME RunInv, Throw \/ NewAST \/ NewASTFails PROVE RunInv'
<1>1. CASE Throw
  <2>1. /\ pc = "ast" /\ pc' = "ended" /\ result' = result
        /\ UNCHANGED memvars /\ UNCHANGED linkers /\ UNCHANGED history
    BY <1>1 DEF Throw, At, Goto
  <2>2. LexerHasItsText' /\ TypesInv'
    BY <2>1 DEF LexerHasItsText, TypesInv
  <2> QED
    BY <2>1, <2>2, MemoryStays DEF RunInv
<1>2. CASE NewAST
  <2>1. /\ pc = "ast" /\ pc' = "types" /\ result' = result /\ text' = text
        /\ UNCHANGED memvars /\ UNCHANGED linkers /\ UNCHANGED history
    BY <1>2 DEF NewAST, At, Goto, lexvars
  <2>2. /\ decls' = [kind \in AST!Kinds |-> <<>>]
        /\ names' = [kind \in AST!Kinds |->
                        [n \in IF kind = "types" THEN TypeNames ELSE {} |-> Absent]]
    BY <1>2 DEF NewAST
  <2>3. "types" \in AST!Kinds
    BY DEF AST!Kinds
  <2>4. decls'.types = <<>> /\ names'.types = [n \in TypeNames |-> Absent]
    BY <2>2, <2>3
  <2>5. StandardInv(Len(decls.types))'
    <3>1. <<>> \in Seq(Standards) /\ Len(<<>>) = 0
      OBVIOUS
    <3>2. decls' = [kind \in AST!Kinds |-> decls'[kind]]
      BY <2>2
    <3>3. names' = [kind \in AST!Kinds |-> names'[kind]]
      BY <2>2
    <3>4. \A i \in 1 .. 9 : ~(i <= 0) /\ names'.types[StandardTypes[i].name] = Absent
      BY <2>4, StandardNames
    <3>5. Len(StandardTypes) = 9
      BY StandardNames
    <3> HIDE DEF StandardTypes
    <3> QED
      BY <2>4, <3>1, <3>2, <3>3, <3>4, <3>5 DEF StandardInv
  <2>6. LexerHasItsText' /\ TypesInv'
    BY <2>1, <2>5 DEF LexerHasItsText, TypesInv, RunInv, memvars
  <2> QED
    BY <2>1, <2>6, MemoryStays DEF RunInv
<1>3. CASE NewASTFails
  BY <1>3, MemoryFreed DEF NewASTFails, At, Return
<1> QED
  BY <1>1, <1>2, <1>3

\* decl_type adds the next standard type and its name.
LEMMA StandardGrows ==
    ASSUME StandardInv(Len(decls.types)), NextType <= Len(StandardTypes),
           AST!Declare("types", StandardTypes[NextType].name, StandardTypes[NextType])
    PROVE  StandardInv(Len(decls.types))'
<1>1. PICK n \in Nat : n = Len(decls.types)
  <2>1. decls.types \in Seq(Standards)
    BY DEF StandardInv
  <2> QED
    BY <2>1
<1>2. /\ decls = [kind \in AST!Kinds |-> decls[kind]]
      /\ names = [kind \in AST!Kinds |-> names[kind]]
      /\ decls.types \in Seq(Standards)
      /\ names.types = [m \in TypeNames |-> names.types[m]]
      /\ \A i \in 1 .. 9 : IF i <= n THEN /\ decls.types[i] = StandardTypes[i]
                                          /\ names.types[StandardTypes[i].name] = i
                                     ELSE names.types[StandardTypes[i].name] = Absent
  BY <1>1, StandardNames DEF StandardInv
<1>3. NextType = n + 1 /\ n + 1 \in 1 .. 9
  BY <1>1, StandardNames DEF NextType
<1>4. "types" \in AST!Kinds
  BY DEF AST!Kinds
<1> DEFINE t == StandardTypes[n + 1]
<1>5. t \in Standards /\ t.name \in TypeNames
  BY <1>3, StandardNames DEF Standards
<1>6. /\ decls' = [decls EXCEPT !["types"] = Append(@, t)]
      /\ names' = [names EXCEPT !["types"] = AST!Emplaced(@, t.name, n + 1)]
  BY <1>1, <1>3 DEF AST!Declare, AST!Listed
<1>7. /\ decls' = [kind \in AST!Kinds |-> decls'[kind]]
      /\ names' = [kind \in AST!Kinds |-> names'[kind]]
      /\ decls'.types = Append(decls.types, t)
      /\ names'.types = AST!Emplaced(names.types, t.name, n + 1)
  <2> HIDE DEF t
  <2> QED
    BY <1>2, <1>4, <1>6
<1>8. /\ decls'.types \in Seq(Standards) /\ Len(decls'.types) = n + 1
      /\ decls'.types[n + 1] = t
      /\ \A i \in 1 .. n : decls'.types[i] = decls.types[i]
  <2> HIDE DEF t
  <2> QED
    BY <1>1, <1>2, <1>5, <1>7, AppendProperties
<1>9. /\ names'.types = [m \in TypeNames |-> names'.types[m]]
      /\ \A m \in TypeNames : m # t.name => names'.types[m] = names.types[m]
      /\ names'.types[t.name] = n + 1
  <2>1. names.types[t.name] = Absent
    <3>1. \A i \in 1 .. 9 : ~(i <= n) => names.types[StandardTypes[i].name] = Absent
      BY <1>2
    <3>2. n + 1 \in 1 .. 9 /\ ~(n + 1 <= n)
      BY <1>3
    <3> QED
      BY <3>1, <3>2
  <2> HIDE DEF t
  <2> QED
    BY <1>2, <1>5, <1>7, <2>1 DEF AST!Emplaced
<1>10. \A i \in 1 .. 9 : IF i <= n + 1 THEN /\ decls'.types[i] = StandardTypes[i]
                                           /\ names'.types[StandardTypes[i].name] = i
                                      ELSE names'.types[StandardTypes[i].name] = Absent
  <2> SUFFICES ASSUME NEW i \in 1 .. 9
               PROVE  IF i <= n + 1 THEN /\ decls'.types[i] = StandardTypes[i]
                                         /\ names'.types[StandardTypes[i].name] = i
                                    ELSE names'.types[StandardTypes[i].name] = Absent
    OBVIOUS
  <2>1. CASE i = n + 1
    BY <1>8, <1>9, <2>1
  <2>2. CASE i # n + 1
    <3>1. StandardTypes[i].name \in TypeNames /\ StandardTypes[i].name # t.name
      BY <1>3, <2>2, StandardNames
    <3>2. names'.types[StandardTypes[i].name] = names.types[StandardTypes[i].name]
      BY <1>9, <3>1
    <3>3. i <= n => i \in 1 .. n /\ decls'.types[i] = decls.types[i]
      BY <1>8
    <3>4. i <= n + 1 <=> i <= n
      BY <2>2
    <3> QED
      BY <1>2, <3>2, <3>3, <3>4
  <2> QED
    BY <2>1, <2>2
<1> HIDE DEF t
<1> QED
  BY <1>3, <1>7, <1>8, <1>9, <1>10, StandardNames DEF StandardInv

LEMMA TypesKeep == ASSUME RunInv, DeclType \/ DeclTypeThrows \/ DeclaredAll PROVE RunInv'
<1>1. CASE DeclType
  <2>1. /\ pc = "types" /\ pc' = "types" /\ result' = result /\ text' = text
        /\ UNCHANGED memvars /\ UNCHANGED linkers /\ UNCHANGED history
    BY <1>1 DEF DeclType, At, Goto, lexvars
  <2>2. StandardInv(Len(decls.types))'
    BY <1>1, <2>1, StandardGrows DEF RunInv, TypesInv, DeclType
  <2>3. LexerHasItsText' /\ TypesInv'
    BY <2>1, <2>2 DEF RunInv, LexerHasItsText, TypesInv, memvars
  <2> QED
    BY <2>1, <2>3, MemoryStays DEF RunInv
<1>2. CASE DeclTypeThrows
  BY <1>2, MemoryFreed DEF DeclTypeThrows, At, Return
<1>3. CASE DeclaredAll
  <2>1. /\ pc = "types" /\ pc' = "build" /\ result' = result /\ text' = text
        /\ decls' = decls /\ names' = names /\ NextType > Len(StandardTypes)
        /\ UNCHANGED memvars /\ UNCHANGED linkers /\ UNCHANGED history
    BY <1>3 DEF DeclaredAll, At, Goto, lexvars, astvars
  <2>2. Len(decls.types) = Len(StandardTypes) /\ StandardInv(Len(decls.types))
    <3>1. StandardInv(Len(decls.types))
      BY <2>1 DEF RunInv, TypesInv
    <3>2. PICK n \in Nat : n = Len(decls.types) /\ n <= 9
      <4>1. decls.types \in Seq(Standards) /\ Len(decls.types) <= Len(StandardTypes)
        BY <3>1 DEF StandardInv
      <4> QED
        BY <4>1, StandardNames
    <3>3. n <= 9 /\ n + 1 > 9
      BY <2>1, <3>2, StandardNames DEF NextType
    <3>4. n = 9
      BY <3>3
    <3> QED
      BY <3>1, <3>2, <3>4, StandardNames
  <2>3. StandardInv(Len(StandardTypes))'
    BY <2>1, <2>2 DEF StandardInv, StandardTypes, TypeNames
  <2>4. LexerHasItsText' /\ TypesInv'
    BY <2>1, <2>3 DEF RunInv, LexerHasItsText, TypesInv, memvars
  <2> QED
    BY <2>1, <2>4, MemoryStays DEF RunInv
<1> QED
  BY <1>1, <1>2, <1>3

LEMMA BuildKeeps ==
    ASSUME RunInv, BuildToken \/ BuildThrows \/ BuildDone \/ BuildFails
    PROVE  RunInv'
<1>1. CASE BuildToken \/ BuildThrows \/ BuildDone
  <2>1. /\ pc = "build" /\ pc' \in {"build", "emit", "ended"} /\ result' = result
        /\ pc' = "emit" => build' = "OK"
        /\ decls' = decls /\ names' = names
        /\ UNCHANGED memvars /\ UNCHANGED linkers /\ UNCHANGED history
    BY <1>1 DEF BuildToken, BuildThrows, BuildDone, At, Goto, astvars
  <2>2. text' = text
    BY <1>1, LexerSteps DEF BuildToken, BuildThrows, BuildDone, Lex!NextTok
  <2>3. StandardInv(Len(StandardTypes))'
    <3>1. StandardInv(Len(StandardTypes))
      BY <2>1 DEF RunInv, TypesInv
    <3> QED
      BY <2>1, <3>1 DEF StandardInv, StandardTypes, TypeNames
  <2>4. LexerHasItsText' /\ TypesInv'
    BY <2>1, <2>2, <2>3 DEF RunInv, LexerHasItsText, TypesInv, memvars
  <2> QED
    BY <2>1, <2>4, MemoryStays DEF RunInv
<1>2. CASE BuildFails
  BY <1>2, MemoryFreed DEF BuildFails, At, Return
<1> QED
  BY <1>1, <1>2

LEMMA EmitKeeps == ASSUME RunInv, Emit PROVE RunInv'
<1>1. /\ pc = "emit" /\ pc' = "idle" /\ result' = TRUE /\ built' = built + 1 /\ loaded' = loaded
      /\ m_ptext' = NoText /\ m_nsize' = 0 /\ files' = files /\ texts' = texts
      /\ linkers' = linkers
  BY DEF Emit, At, Forget, Return
<1> QED
  BY <1>1 DEF RunInv, TypeOK, ResourcesAccounted, LexerHasItsText, MemoryInv, TypesInv

LEMMA RunStep == RunInv /\ [Next]_vars => RunInv'
<1> SUFFICES ASSUME RunInv, [Next]_vars PROVE RunInv'
  OBVIOUS
<1>1. CASE UNCHANGED vars
  BY <1>1 DEF RunInv, TypeOK, ResourcesAccounted, LexerHasItsText, MemoryInv, TypesInv,
              StandardInv, StandardTypes, TypeNames, vars, memvars, lexvars, astvars, history
<1>2. CASE Running
  BY <1>2, InitLexerKeeps, ASTKeeps, TypesKeep, BuildKeeps, EmitKeeps DEF Running
<1> QED
  BY <1>1, <1>2, OutsideKeeps, LoadKeeps DEF Next, Ended

LEMMA RunAlways == Spec => []RunInv
BY RunInit, RunStep, PTL DEF Spec

\* The memfile, the registry and the passes keep their types and limits.
THEOREM TypeCorrect == Spec => []TypeOK
BY RunAlways, PTL DEF RunInv

\* Every way through run leaves as many files open as it loaded, and only one
\* that came to the end of run leaves its text allocated.
THEOREM ResourcesAreAccounted == Spec => []ResourcesAccounted
BY RunAlways, PTL DEF RunInv

\* As long as the lexer can be called, the memfile has the text it points to.
THEOREM LexerNeverDangles == Spec => []LexerHasItsText
BY RunAlways, PTL DEF RunInv

\* build starts with all the standard types, each found by its name.
THEOREM TypesAreDeclared == Spec => []TypesBeforeTokens
<1>1. RunInv => TypesBeforeTokens
  <2> SUFFICES ASSUME RunInv, pc = "build", NEW i \in 1 .. Len(StandardTypes)
               PROVE  /\ AST!Found("types", StandardTypes[i].name) # Null
                      /\ decls.types[AST!Found("types", StandardTypes[i].name)] = StandardTypes[i]
    BY DEF TypesBeforeTokens
  <2>1. decls.types[i] = StandardTypes[i] /\ names.types[StandardTypes[i].name] = i
    <3>1. StandardInv(9) /\ i \in 1 .. 9 /\ i <= 9
      BY StandardNames DEF RunInv, TypesInv
    <3> QED
      BY <3>1, StandardNames DEF StandardInv
  <2>2. i # Absent /\ i # Null
    BY StandardNames, SCCAssumption
  <2>3. AST!Found("types", StandardTypes[i].name) = i
    BY <2>1, <2>2 DEF AST!Found
  <2> QED
    BY <2>1, <2>2, <2>3
<1> QED
  BY <1>1, RunAlways, PTL

\* run returns true only for a text read to its end on a complete tree, or where
\* the tree could not be allocated.
THEOREM TrueIsRead == Spec => TrueMeansRead
<1> DEFINE Read == pc # "idle" /\ pc' = "idle" /\ result' =>
                       \/ pc = "ast"
                       \/ build = "OK" /\ decls.types = StandardTypes
<1>1. ASSUME RunInv, Next PROVE Read
  <2> SUFFICES ASSUME pc # "idle", pc' = "idle", result', pc # "ast"
               PROVE  build = "OK" /\ decls.types = StandardTypes
    OBVIOUS
  <2>1. Emit
    BY <1>1 DEF Next, RegisterLinker, Reject, Load, Running, InitLexer, Throw, NewAST, NewASTFails,
                DeclType, DeclTypeThrows, DeclaredAll, BuildToken, BuildThrows, BuildDone, BuildFails, Ended,
                At, Goto, Return, vars
  <2>2. build = "OK" /\ StandardInv(Len(StandardTypes))
    BY <1>1, <2>1 DEF Emit, At, RunInv, TypesInv
  <2>3. /\ decls.types \in Seq(Standards)
        /\ Len(decls.types) = Len(StandardTypes)
        /\ \A i \in 1 .. Len(StandardTypes) : decls.types[i] = StandardTypes[i]
    <3>1. \A i \in 1 .. Len(StandardTypes) : i <= Len(StandardTypes)
      BY StandardNames
    <3> QED
      BY <2>2, <3>1 DEF StandardInv
  <2>4. decls.types = StandardTypes
    <3> HIDE DEF StandardTypes
    <3> QED
      BY <2>3, StandardNames, SeqEqual
  <2> QED
    BY <2>2, <2>4
<1>2. RunInv /\ [Next]_vars => [Read]_vars
  BY <1>1
<1> HIDE DEF Read
<1>3. Spec => [][Read]_vars
  BY <1>2, RunAlways, PTL DEF Spec
<1> QED
  BY <1>3 DEF TrueMeansRead, Read
=============================================================================

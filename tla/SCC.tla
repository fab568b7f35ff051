-------------------------------- MODULE SCC --------------------------------
(***************************************************************************)
(* scc::run, called again and again by one process: the target's linker,   *)
(* the file in memory (MemFile), the lexer over it and the loop of build   *)
(* (SCCLex), the declarations of the tree (ASTRoot), and the emitter.      *)
(*                                                                         *)
(* memfile and lexer are locals of run; the tree, which nothing deletes,   *)
(* the registry of the linkers and the files left open outlive it.         *)
(***************************************************************************)
EXTENDS MemFile

CONSTANTS Paths,           \* what the files on the command line hold
          Characters, Slacks, Letters, Digits, Keywords, MaxTokString,   \* see SCCLex
          LinkerNames,     \* names of linkers, of which _stricmp hides the case
          MaxLinkers,      \* SCC_MAX_IMAGE_LINKERS
          Absent, Null     \* see ASTRoot

ASSUME SCCAssumption ==
    /\ NoText \notin Paths /\ Paths \ {NoFile} \subseteq Seq(Characters)
    /\ MaxLinkers \in Nat /\ Absent \notin Nat /\ Null \notin Nat

VARIABLES text, mem, size, input, nlines, pos, line, phase, tok, build,   \* SCCLex
          decls, names,   \* ASTRoot, of the tree of the last run
          linkers,        \* m_registred_linkers, in the order of registration
          pc,             \* the pass run is at; "idle" outside it
          result,         \* what run returned last
          loaded, built   \* history: the loads that succeeded, the runs that emitted

lexvars == <<text, mem, size, input, nlines, pos, line, phase, tok, build>>
astvars == <<decls, names>>
history == <<loaded, built>>
vars == <<memvars, lexvars, astvars, linkers, pc, result, history>>

\* The standard types, with their sizes.
StandardTypes == <<[name |-> "bool", size |-> 1], [name |-> "char", size |-> 1],
    [name |-> "uchar", size |-> 1], [name |-> "short", size |-> 2],
    [name |-> "ushort", size |-> 2], [name |-> "int", size |-> 4],
    [name |-> "uint", size |-> 4], [name |-> "float", size |-> 4],
    [name |-> "double", size |-> 8]>>
TypeNames == {StandardTypes[i].name : i \in 1 .. Len(StandardTypes)}

Lex == INSTANCE SCCLex WITH Texts <- Paths \ {<<>>, NoFile}
AST == INSTANCE ASTRoot
    WITH Names    <- [types |-> TypeNames, funcs |-> {}, gvars |-> {}],
         Length   <- [n \in TypeNames |-> 6],
         NameSize <- [types |-> 64, funcs |-> 256, gvars |-> 128],
         Sizes    <- {1, 2, 4, 8}, Dims <- {1}, SizeMod <- 65536,
         MaxDecls <- [types |-> Len(StandardTypes), funcs |-> 0, gvars |-> 0],
         MaxVars  <- 0

-----------------------------------------------------------------------------
\* The registry.  The source registers nothing; what does so will do it between
\* runs.
get_linker(name) == \E i \in 1 .. Len(linkers) : linkers[i] = name
RegistersOneMore == Len(linkers) <= MaxLinkers   \* variant: > instead of >=
Registers == Len(linkers) < MaxLinkers
RegisterLinker ==
    /\ pc = "idle" /\ Registers
    /\ \E name \in LinkerNames : linkers' = Append(linkers, name)
    /\ UNCHANGED <<memvars, lexvars, astvars, pc, result, history>>

Return(value) == pc' = "idle" /\ result' = value
At(pass)  == pc = pass
Goto(pass) == pc' = pass /\ UNCHANGED result

\* No linker for the target, or no path: run ends before it has touched anything.
Reject ==
    /\ At("idle") /\ Return(FALSE)
    /\ UNCHANGED <<memvars, lexvars, astvars, linkers, history>>

\* The lexer starts with the text, of which CRLFs are still to be transformed.
LexerAt(path) ==
    /\ text' = path /\ (\E s \in Slacks : mem' = path \o s)
    /\ size' = Len(path) /\ input' = 0 /\ nlines' = 0 /\ pos' = 0 /\ line' = 1
    /\ phase' = "transform" /\ build' = "running"
    /\ tok' = [kind |-> "SCCT_UNKNOWN", string |-> <<>>, start |-> 0, start_line |-> 1]
Load ==
    /\ At("idle") /\ get_linker("svm_image_v1")
    /\ \E path \in Paths :
           \/ LoadFails(path) /\ Return(FALSE) /\ UNCHANGED <<lexvars, loaded>>
           \/ LoadOK(path) /\ Goto("lexer") /\ LexerAt(path) /\ loaded' = loaded + 1
    /\ UNCHANGED <<astvars, linkers, built>>

\* lexer.init cannot refuse a text that was loaded; init_keywords may throw, and
\* nothing in run catches that.
InitLexer ==
    /\ At("lexer") /\ Lex!Load
    /\ Goto(CASE phase' = "transform" -> "lexer" [] phase' = "read" -> "ast"
              [] OTHER -> "ended")
    /\ UNCHANGED <<memvars, astvars, linkers, history>>
Throw ==
    /\ At("ast") /\ Goto("ended")
    /\ UNCHANGED <<memvars, lexvars, astvars, linkers, history>>

NewAST ==
    /\ At("ast") /\ Goto("types")
    /\ decls' = [kind \in AST!Kinds |-> <<>>]
    /\ names' = [kind \in AST!Kinds |->
                    [n \in IF kind = "types" THEN TypeNames ELSE {} |-> Absent]]
    /\ UNCHANGED <<memvars, lexvars, linkers, history>>
NewASTFails ==   \* return 1, which is true
    /\ At("ast") /\ Release /\ Return(TRUE)
    /\ UNCHANGED <<lexvars, astvars, linkers, history>>

\* The calls of decl_type, inside a try whose handler ends the run.
NextType == Len(decls.types) + 1
DeclType ==
    /\ At("types") /\ NextType <= Len(StandardTypes)
    /\ AST!Declare("types", StandardTypes[NextType].name, StandardTypes[NextType])
    /\ Goto("types")
    /\ UNCHANGED <<memvars, lexvars, linkers, history>>
DeclTypeIgnored ==   \* variant: a handler that goes on
    /\ At("types") /\ NextType <= Len(StandardTypes)
    /\ AST!ListedOnly("types", StandardTypes[NextType].name, StandardTypes[NextType])
    /\ Goto("types")
    /\ UNCHANGED <<memvars, lexvars, linkers, history>>
DeclTypeThrows ==
    /\ At("types") /\ NextType <= Len(StandardTypes)
    /\ AST!DeclareThrows("types", StandardTypes[NextType].name, StandardTypes[NextType])
    /\ Release /\ Return(FALSE)
    /\ UNCHANGED <<lexvars, linkers, history>>
DeclaredAllReleased ==   \* variant: the text is released before it is read
    /\ At("types") /\ NextType > Len(StandardTypes) /\ Release /\ Goto("build")
    /\ UNCHANGED <<lexvars, astvars, linkers, history>>
DeclaredAll ==
    /\ At("types") /\ NextType > Len(StandardTypes) /\ Goto("build")
    /\ UNCHANGED <<memvars, lexvars, astvars, linkers, history>>

\* Turns of the loop of build, and its returns.
BuildToken ==
    /\ At("build") /\ Lex!NextTok /\ build' = "running"
    /\ Goto(IF phase' = "wild" THEN "ended" ELSE "build")
    /\ UNCHANGED <<memvars, astvars, linkers, history>>
\* find_keyword makes a std::string of the word, out of which bad_alloc may come;
\* neither build nor run catches it.
BuildThrows ==
    /\ At("build") /\ Lex!ReadWord /\ Goto("ended")
    /\ UNCHANGED <<memvars, astvars, linkers, history>>
BuildDone ==
    /\ At("build") /\ Lex!NextTok /\ build' = "OK" /\ Goto("emit")
    /\ UNCHANGED <<memvars, astvars, linkers, history>>
BuildFailsThrough ==   \* variant: a break instead of the return
    /\ At("build") /\ Lex!NextTok /\ build' = "INPUT_ERROR" /\ Goto("emit")
    /\ UNCHANGED <<memvars, astvars, linkers, history>>
BuildFailsUnreleased ==   \* variant: the return without memf.release()
    /\ At("build") /\ Lex!NextTok /\ build' = "INPUT_ERROR" /\ Forget /\ Return(FALSE)
    /\ UNCHANGED <<astvars, linkers, history>>
BuildFails ==
    /\ At("build") /\ Lex!NextTok /\ build' = "INPUT_ERROR" /\ Release /\ Return(FALSE)
    /\ UNCHANGED <<astvars, linkers, history>>

\* emit_code does nothing, so that a nullptr from new changes nothing.  The end
\* of a run that succeeded releases nothing.
Emit ==
    /\ At("emit") /\ Forget /\ Return(TRUE) /\ built' = built + 1
    /\ UNCHANGED <<lexvars, astvars, linkers, loaded>>

Running == InitLexer \/ Throw \/ NewAST \/ NewASTFails \/ DeclType \/ DeclTypeThrows
           \/ DeclaredAll \/ BuildToken \/ BuildThrows \/ BuildDone \/ BuildFails
           \/ Emit
Ended == At("ended") /\ UNCHANGED vars

Init ==
    /\ MemInit /\ AST!Init /\ linkers = <<>> /\ pc = "idle" /\ result = FALSE
    /\ loaded = 0 /\ built = 0
    /\ text = <<>> /\ mem = <<>> /\ size = 0 /\ input = 0 /\ nlines = 0 /\ pos = 0 /\ line = 1
    /\ phase = "done" /\ build = "OK"
    /\ tok = [kind |-> "SCCT_UNKNOWN", string |-> <<>>, start |-> 0, start_line |-> 1]
Next == RegisterLinker \/ Reject \/ Load \/ Running \/ Ended
Spec == Init /\ [][Next]_vars
\* run is plain code of one thread; nothing makes anybody call it.
FairSpec == Spec /\ WF_vars(Running)

-----------------------------------------------------------------------------
TypeOK ==
    /\ m_ptext \in Paths \cup {NoText} /\ m_nsize \in Nat /\ files \in 0 .. MaxFiles
    /\ linkers \in Seq(LinkerNames) /\ Len(linkers) <= MaxLinkers
    /\ pc \in {"idle", "lexer", "ast", "types", "build", "emit", "ended"} /\ result \in BOOLEAN

\* What a run leaves behind: every file it loaded stays open, and its text is
\* lost exactly if the run came to its end; whatever fails half-way, in whichever
\* pass, frees the text and leaves no other file open.
ResourcesAccounted ==
    /\ files = loaded
    /\ texts = built + IF m_ptext = NoText THEN 0 ELSE 1

\* The lexer, which keeps a pointer into the buffer of memf, never outlives it.
LexerHasItsText == pc \in {"lexer", "ast", "types", "build"} => m_ptext = text

\* build runs only on a tree that finds each standard type by its name, with the
\* size it was declared with.
TypesBeforeTokens ==
    pc = "build" => \A t \in {StandardTypes[i] : i \in 1 .. Len(StandardTypes)} :
        AST!Found("types", t.name) # Null /\ decls.types[AST!Found("types", t.name)] = t

\* run says true only for a text that was read to its end without an error, or
\* when there was no memory for the tree.
TrueMeansRead ==
    [][pc # "idle" /\ pc' = "idle" /\ result' =>
          \/ pc = "ast"
          \/ build = "OK" /\ decls.types = StandardTypes]_vars

\* A run ends, whatever fails in it, for a text without CRLFs that NULs follow.
RunReturns ==
    pc # "idle" /\ Lex!Unix = text
    /\ (\A i \in Len(text) + 1 .. Len(mem) : mem[i] = Lex!NUL)
       ~> pc \in {"idle", "ended"}
=============================================================================

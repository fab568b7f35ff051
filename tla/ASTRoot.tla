------------------------------ MODULE ASTRoot ------------------------------
(***************************************************************************)
(* The declarations of ast_root: types, functions and global variables,    *)
(* each kind a vector of nodes and a map from names to them, and the       *)
(* arguments and local variables of a function.                            *)
(*                                                                         *)
(* A pointer to a node is its index in the vector: no node is ever moved   *)
(* or deleted.  The caller is whoever will declare and look up: scc::run   *)
(* declares the standard types (module SCC), build does nothing yet.       *)
(***************************************************************************)
EXTENDS Integers, Sequences

CONSTANTS Names,     \* for each kind, what callers pass as names
          Length,    \* strlen of a name
          NameSize,  \* for each kind, the size of its ast_named
          Sizes,     \* sizes of types
          Dims,      \* dimensions of variables
          SizeMod,   \* 2^w for a size_t of w bits
          Absent,    \* no entry in the map
          Null,      \* nullptr
          MaxDecls, MaxVars  \* bounds of the vectors, MaxDecls for each kind

Kinds == {"types", "funcs", "gvars"}

ASSUME ASTAssumption ==
    /\ \A kind \in Kinds : \A n \in Names[kind] : Length[n] \in Nat
    /\ NameSize \in [Kinds -> Nat \ {0}]
    /\ Sizes \subseteq Nat /\ Dims \subseteq Nat /\ SizeMod \in Nat \ {0}
    /\ Absent \notin Nat /\ Null \notin Nat /\ Absent # Null

VARIABLES decls,  \* m_types, m_funcs, m_gvars
          names   \* m_typenamesht, m_funcnamesht, m_gvarnamesht

vars == <<decls, names>>

Pointers(kind) == 1 .. Len(decls[kind]) \cup {Null}

\* set_name: strncpy leaves a name that fills its array without its '\0'.
Unterminated == "unterminated"
NameKeptFull(kind, n) ==   \* variant: a name of the array's length
    IF Length[n] <= NameSize[kind] THEN n ELSE Unterminated
NameKept(kind, n) == IF Length[n] < NameSize[kind] THEN n ELSE Unterminated

-----------------------------------------------------------------------------
\* decl_type, decl_func, decl_globalvar: new, push_back, emplace, in that order;
\* emplace keeps the entry that is there.
Assigned(map, n, i) == [map EXCEPT ![n] = i]   \* variant: map[n] = i
Emplaced(map, n, i) == [map EXCEPT ![n] = IF @ = Absent THEN i ELSE @]
Listed(kind, node)  == decls' = [decls EXCEPT ![kind] = Append(@, node)]
Declare(kind, n, node) ==
    /\ Listed(kind, node)
    /\ names' = [names EXCEPT ![kind] = Emplaced(@, n, Len(decls[kind]) + 1)]

\* Any of the three throws.  Before push_back is done only a node is lost; after
\* it the node is in the vector and not in the map.
EmplacedOnly(kind, n, node) ==   \* variant: emplace before push_back
    /\ names' = [names EXCEPT ![kind] = Emplaced(@, n, Len(decls[kind]) + 1)]
    /\ UNCHANGED decls
ListedOnly(kind, n, node)  == Listed(kind, node) /\ UNCHANGED names
DeclareThrows(kind, n, node) == ListedOnly(kind, n, node) \/ UNCHANGED vars

\* find_type, find_func, find_globalvar: operator[] makes an entry of nullptr.
Found(kind, n) == IF names[kind][n] = Absent THEN Null ELSE names[kind][n]
Find(kind, n) ==
    /\ names' = [names EXCEPT ![kind][n] = Found(kind, n)]
    /\ UNCHANGED decls

\* The nodes: ast_typedecl, ast_func, ast_var.
Node(kind, n) ==
    CASE kind = "types" -> [name : {NameKept(kind, n)}, size : Sizes]
      [] kind = "funcs" -> [name : {NameKept(kind, n)}, args : {<<>>}, lvars : {<<>>}]
      [] kind = "gvars" -> [name : {NameKept(kind, n)}, type : Pointers("types"), dim : Dims]

\* new_funcarg, new_localvar: the type may be the nullptr of a look-up.  Their
\* failure leaves the function as it was.
NewVar(f, vec, type, dim) ==
    /\ decls' = [decls EXCEPT !.funcs[f][vec] = Append(@, [type |-> type, dim |-> dim])]
    /\ UNCHANGED names

-----------------------------------------------------------------------------
\* ast_func::stackframe_size over ast_var::get_size_in_bytes, in size_t: what is
\* left of a product or of a sum.  A variable of no type cannot be asked for its
\* size.
SumOf(s) == LET upto[i \in 0 .. Len(s)] == IF i = 0 THEN 0 ELSE upto[i - 1] + s[i]
            IN  upto[Len(s)]
Typed(f) == \A vec \in {"args", "lvars"} : \A i \in 1 .. Len(decls.funcs[f][vec]) :
                decls.funcs[f][vec][i].type # Null
Bytes(v) == v.dim * decls.types[v.type].size
Size(v)  == Bytes(v) % SizeMod
Total(vs) == SumOf([i \in 1 .. Len(vs) |-> Size(vs[i])]) % SizeMod
ArgsOnly(f) == Total(decls.funcs[f].args)   \* variant: the second loop forgotten
stackframe_size(f) == (Total(decls.funcs[f].args) + Total(decls.funcs[f].lvars)) % SizeMod

Init ==
    /\ decls = [kind \in Kinds |-> <<>>]
    /\ names = [kind \in Kinds |-> [n \in Names[kind] |-> Absent]]
DeclareAny(kind, n) ==
    /\ Len(decls[kind]) < MaxDecls[kind]
    /\ \E node \in Node(kind, n) : Declare(kind, n, node) \/ DeclareThrows(kind, n, node)
NewVarAny(f, vec) ==
    /\ Len(decls.funcs[f][vec]) < MaxVars
    /\ \E type \in Pointers("types"), dim \in Dims : NewVar(f, vec, type, dim)
Next ==
    \/ \E kind \in Kinds : \E n \in Names[kind] : DeclareAny(kind, n) \/ Find(kind, n)
    \/ \E f \in 1 .. Len(decls.funcs), vec \in {"args", "lvars"} : NewVarAny(f, vec)
Spec == Init /\ [][Next]_vars

-----------------------------------------------------------------------------
Stored(kind) == {n \in Names[kind] : Length[n] < NameSize[kind]} \cup {Unterminated}
Vars == [type : Pointers("types"), dim : Dims]
TypeOK ==
    /\ decls.types \in Seq([name : Stored("types"), size : Sizes])
    /\ decls.funcs \in Seq([name : Stored("funcs"), args : Seq(Vars), lvars : Seq(Vars)])
    /\ decls.gvars \in Seq([name : Stored("gvars"), type : Pointers("types"), dim : Dims])
    /\ \A kind \in Kinds : names[kind] \in [Names[kind] -> Nat \cup {Absent, Null}]

\* A pointer in a map is that of a node in the vector, and the node has the name
\* it is found by, or one that was too long for it: also where a declaration was
\* abandoned half-way, or a name was declared twice.
FoundByItsName ==
    \A kind \in Kinds : \A n \in Names[kind] :
        names[kind][n] \in Nat =>
            /\ names[kind][n] \in 1 .. Len(decls[kind])
            /\ decls[kind][names[kind][n]].name = NameKept(kind, n)

\* The first that happens to a name, a declaration or a look-up, decides for ever
\* what it is bound to: a declaration after a look-up is never found, and neither
\* is a second one.
FirstUseDecides ==
    [][\A kind \in Kinds : \A n \in Names[kind] :
          names[kind][n] # Absent => names'[kind][n] = names[kind][n]]_vars

\* Types keep their sizes and variables their types: the room of one variable is
\* within the frame of its function, unless the sum leaves the range of a size_t.
Room(vs) == SumOf([i \in 1 .. Len(vs) |-> Bytes(vs[i])])
VarsFitFrame ==
    \A f \in 1 .. Len(decls.funcs) :
        Typed(f) /\ Room(decls.funcs[f].args) + Room(decls.funcs[f].lvars) < SizeMod =>
            /\ \A i \in 1 .. Len(decls.funcs[f].args) :
                   Size(decls.funcs[f].args[i]) <= stackframe_size(f)
            /\ \A i \in 1 .. Len(decls.funcs[f].lvars) :
                   Size(decls.funcs[f].lvars[i]) <= stackframe_size(f)
=============================================================================

--------------------------- MODULE ASTRootProofs ---------------------------
(***************************************************************************)
(* The declarations of a tree, for any names, sizes and order of calls.    *)
(***************************************************************************)
EXTENDS ASTRoot, SequenceTheorems, WellFoundedInduction, TLAPS

\* Both variables have a value for each kind, and nothing else.
Shape ==
    /\ decls = [kind \in Kinds |-> decls[kind]]
    /\ names = [kind \in Kinds |-> names[kind]]

DeclsInv == Shape /\ TypeOK /\ FoundByItsName

LEMMA WiderSeq ==
    ASSUME NEW A, NEW B, A \subseteq B, NEW q \in Seq(A) PROVE q \in Seq(B)
OBVIOUS

LEMMA ElementOf ==
    ASSUME NEW S, NEW q \in Seq(S), NEW i \in 1 .. Len(q) PROVE q[i] \in S
OBVIOUS

LEMMA NameIsStored ==
    ASSUME NEW kind \in Kinds, NEW n \in Names[kind] PROVE NameKept(kind, n) \in Stored(kind)
<1>1. Length[n] \in Nat /\ NameSize[kind] \in Nat
  BY ASTAssumption
<1> QED
  BY <1>1 DEF NameKept, Stored

-----------------------------------------------------------------------------
\* A node that is pushed back leaves the others, and the lists of other kinds.
LEMMA ListedDecls ==
    ASSUME DeclsInv, NEW kind \in Kinds, NEW n \in Names[kind], NEW node \in Node(kind, n),
           Listed(kind, node)
    PROVE  /\ decls' = [k \in Kinds |-> decls'[k]]
           /\ \A k \in Kinds \ {kind} : decls'[k] = decls[k]
           /\ Len(decls[kind]) \in Nat /\ Len(decls'[kind]) = Len(decls[kind]) + 1
           /\ \A i \in 1 .. Len(decls[kind]) : decls'[kind][i] = decls[kind][i]
           /\ decls'[kind][Len(decls[kind]) + 1] = node
           /\ node.name = NameKept(kind, n)
           /\ decls'[kind] = Append(decls[kind], node)
<1>1. /\ decls' = [k \in Kinds |-> IF k = kind THEN Append(decls[kind], node) ELSE decls[k]]
  BY DEF DeclsInv, Shape, Listed
<1>2. \E S : decls[kind] \in Seq(S)
  <2>1. CASE kind = "types"
    BY <2>1 DEF DeclsInv, TypeOK
  <2>2. CASE kind = "funcs"
    BY <2>2 DEF DeclsInv, TypeOK
  <2>3. CASE kind = "gvars"
    BY <2>3 DEF DeclsInv, TypeOK
  <2> QED
    BY <2>1, <2>2, <2>3 DEF Kinds
<1>3. /\ Len(decls[kind]) \in Nat /\ Len(Append(decls[kind], node)) = Len(decls[kind]) + 1
      /\ \A i \in 1 .. Len(decls[kind]) : Append(decls[kind], node)[i] = decls[kind][i]
      /\ Append(decls[kind], node)[Len(decls[kind]) + 1] = node
  <2>1. PICK S : decls[kind] \in Seq(S)
    BY <1>2
  <2>2. decls[kind] \in Seq(S \cup {node})
    BY <2>1, WiderSeq
  <2> QED
    BY <2>2, AppendProperties
<1>4. node.name = NameKept(kind, n)
  BY DEF Node, Kinds
<1> QED
  BY <1>1, <1>3, <1>4

LEMMA ListedTypes ==
    ASSUME DeclsInv, NEW kind \in Kinds, NEW n \in Names[kind], NEW node \in Node(kind, n),
           Listed(kind, node)
    PROVE  /\ decls'.types \in Seq([name : Stored("types"), size : Sizes])
           /\ decls'.funcs \in Seq([name : Stored("funcs"), args : Seq(Vars'), lvars : Seq(Vars')])
           /\ decls'.gvars \in Seq([name : Stored("gvars"), type : Pointers("types")', dim : Dims])
<1> DEFINE T == [name : Stored("types"), size : Sizes]
           F == [name : Stored("funcs"), args : Seq(Vars), lvars : Seq(Vars)]
           FN == [name : Stored("funcs"), args : Seq(Vars'), lvars : Seq(Vars')]
           G == [name : Stored("gvars"), type : Pointers("types"), dim : Dims]
           GN == [name : Stored("gvars"), type : Pointers("types")', dim : Dims]
<1>1. decls.types \in Seq(T) /\ decls.funcs \in Seq(F) /\ decls.gvars \in Seq(G)
  BY DEF DeclsInv, TypeOK
<1>2. /\ \A k \in Kinds \ {kind} : decls'[k] = decls[k]
      /\ decls'[kind] = Append(decls[kind], node)
      /\ Len(decls[kind]) \in Nat /\ Len(decls'[kind]) = Len(decls[kind]) + 1
  BY ListedDecls
<1>3. Pointers("types") \subseteq Pointers("types")'
  <2>1. CASE kind = "types"
    BY <1>2, <2>1 DEF Pointers
  <2>2. CASE kind # "types"
    BY <1>2, <2>2 DEF Pointers, Kinds
  <2> QED
    BY <2>1, <2>2
<1>4. Vars \subseteq Vars'
  BY <1>3 DEF Vars
<1>5. F \subseteq FN /\ G \subseteq GN
  <2>1. Seq(Vars) \subseteq Seq(Vars')
    BY <1>4, WiderSeq
  <2> QED
    BY <1>3, <2>1
<1>6. decls.funcs \in Seq(FN) /\ decls.gvars \in Seq(GN)
  <2> HIDE DEF F, FN, G, GN
  <2>1. decls.funcs \in Seq(FN)
    BY <1>1, <1>5, WiderSeq
  <2>2. decls.gvars \in Seq(GN)
    BY <1>1, <1>5, WiderSeq
  <2> QED
    BY <2>1, <2>2
<1>7. CASE kind = "types"
  <2>1. node \in T
    BY <1>7, NameIsStored DEF Node
  <2> HIDE DEF T, FN, GN
  <2>2. Append(decls.types, node) \in Seq(T)
    BY <1>1, <2>1, AppendProperties
  <2> QED
    BY <1>2, <1>6, <1>7, <2>2 DEF Kinds, T, FN, GN
<1>8. CASE kind = "funcs"
  <2>1. node \in FN
    <3>1. <<>> \in Seq(Vars')
      OBVIOUS
    <3>2. node \in [name : {NameKept(kind, n)}, args : {<<>>}, lvars : {<<>>}]
      BY <1>8 DEF Node
    <3> QED
      BY <1>8, <3>1, <3>2, NameIsStored
  <2> HIDE DEF T, FN, GN
  <2>2. Append(decls.funcs, node) \in Seq(FN)
    BY <1>6, <2>1, AppendProperties
  <2> QED
    BY <1>1, <1>2, <1>6, <1>8, <2>2 DEF Kinds, T, FN, GN
<1>9. CASE kind = "gvars"
  <2>1. node \in GN
    BY <1>3, <1>9, NameIsStored DEF Node
  <2> HIDE DEF T, FN, GN
  <2>2. Append(decls.gvars, node) \in Seq(GN)
    BY <1>6, <2>1, AppendProperties
  <2> QED
    BY <1>1, <1>2, <1>6, <1>9, <2>2 DEF Kinds, T, FN, GN
<1> QED
  BY <1>7, <1>8, <1>9 DEF Kinds

\* What the maps become when a declaration or a look-up has used a name.
Used(kind, n, p) == names' = [names EXCEPT ![kind] = Emplaced(@, n, p)]

LEMMA UsedNames ==
    ASSUME DeclsInv, NEW kind \in Kinds, NEW n \in Names[kind], NEW p \in Nat \cup {Null},
           Used(kind, n, p)
    PROVE  /\ names' = [k \in Kinds |-> names'[k]]
           /\ \A k \in Kinds : names'[k] \in [Names[k] -> Nat \cup {Absent, Null}]
           /\ \A k \in Kinds : \A m \in Names[k] :
                  (k # kind \/ m # n \/ names[k][m] # Absent) => names'[k][m] = names[k][m]
           /\ names[kind][n] = Absent => names'[kind][n] = p
<1>1. names = [k \in Kinds |-> names[k]]
  BY DEF DeclsInv, Shape
<1>2. \A k \in Kinds : names[k] \in [Names[k] -> Nat \cup {Absent, Null}]
  BY DEF DeclsInv, TypeOK
<1>3. names' = [k \in Kinds |-> IF k = kind THEN Emplaced(names[kind], n, p) ELSE names[k]]
  BY <1>1 DEF Used
<1>4. /\ Emplaced(names[kind], n, p) \in [Names[kind] -> Nat \cup {Absent, Null}]
      /\ \A m \in Names[kind] : Emplaced(names[kind], n, p)[m] =
             IF m = n /\ names[kind][m] = Absent THEN p ELSE names[kind][m]
  BY <1>2 DEF Emplaced
<1> QED
  BY <1>2, <1>3, <1>4

\* A look-up uses a name like a declaration of nullptr.
LEMMA FindUses ==
    ASSUME DeclsInv, NEW kind \in Kinds, NEW n \in Names[kind], Find(kind, n)
    PROVE  Used(kind, n, Null) /\ decls' = decls
<1>1. names = [k \in Kinds |-> names[k]]
  BY DEF DeclsInv, Shape
<1> QED
  BY <1>1 DEF Find, Found, Emplaced, Used

-----------------------------------------------------------------------------
LEMMA DeclsInit == Init => DeclsInv
<1> SUFFICES ASSUME Init PROVE DeclsInv
  OBVIOUS
<1>1. /\ decls = [kind \in Kinds |-> <<>>]
      /\ names = [kind \in Kinds |-> [n \in Names[kind] |-> Absent]]
  BY DEF Init
<1>2. decls.types = <<>> /\ decls.funcs = <<>> /\ decls.gvars = <<>>
  BY <1>1 DEF Kinds
<1>3. Shape
  BY <1>1 DEF Shape
<1>4. TypeOK
  <2>1. \A S : <<>> \in Seq(S)
    OBVIOUS
  <2>2. \A kind \in Kinds : names[kind] \in [Names[kind] -> Nat \cup {Absent, Null}]
    BY <1>1
  <2> QED
    BY <1>2, <2>1, <2>2 DEF TypeOK
<1>5. FoundByItsName
  BY <1>1, ASTAssumption DEF FoundByItsName
<1> QED
  BY <1>3, <1>4, <1>5 DEF DeclsInv

\* Where the maps are as they were, or gain the node that is pushed back, and
\* that node has the name it was declared by.
LEMMA ListedOnlyKeeps ==
    ASSUME DeclsInv, NEW kind \in Kinds, NEW n \in Names[kind], NEW node \in Node(kind, n),
           ListedOnly(kind, n, node)
    PROVE  DeclsInv'
<1>1. Listed(kind, node) /\ names' = names
  BY DEF ListedOnly
<1>2. TypeOK' /\ Shape'
  BY <1>1, ListedDecls, ListedTypes DEF DeclsInv, TypeOK, Shape, Stored
<1>3. FoundByItsName'
  <2> SUFFICES ASSUME NEW k \in Kinds, NEW m \in Names[k], names[k][m] \in Nat
               PROVE  /\ names[k][m] \in 1 .. Len(decls'[k])
                      /\ decls'[k][names[k][m]].name = NameKept(k, m)
    BY <1>1 DEF FoundByItsName, NameKept
  <2>1. names[k][m] \in 1 .. Len(decls[k]) /\ decls[k][names[k][m]].name = NameKept(k, m)
    BY DEF DeclsInv, FoundByItsName
  <2>2. CASE k = kind
    BY <1>1, <2>1, <2>2, ListedDecls
  <2>3. CASE k # kind
    BY <1>1, <2>1, <2>3, ListedDecls
  <2> QED
    BY <2>2, <2>3
<1> QED
  BY <1>2, <1>3 DEF DeclsInv

LEMMA DeclareKeeps ==
    ASSUME DeclsInv, NEW kind \in Kinds, NEW n \in Names[kind], NEW node \in Node(kind, n),
           Declare(kind, n, node)
    PROVE  DeclsInv'
<1>1. Listed(kind, node)
  BY DEF Declare
<1>2. PICK p \in Nat \cup {Null} : p = Len(decls[kind]) + 1 /\ Used(kind, n, p)
  <2>1. Len(decls[kind]) + 1 \in Nat \cup {Null}
    BY <1>1, ListedDecls
  <2>2. Used(kind, n, Len(decls[kind]) + 1)
    BY DEF Declare, Used
  <2> QED
    BY <2>1, <2>2
<1>3. /\ names' = [k \in Kinds |-> names'[k]]
      /\ \A k \in Kinds : names'[k] \in [Names[k] -> Nat \cup {Absent, Null}]
      /\ \A k \in Kinds : \A m \in Names[k] :
             (k # kind \/ m # n \/ names[k][m] # Absent) => names'[k][m] = names[k][m]
      /\ names[kind][n] = Absent => names'[kind][n] = p
  BY <1>2, UsedNames
<1>4. TypeOK' /\ Shape'
  <2>1. TypeOK'
    BY <1>1, <1>3, ListedTypes DEF TypeOK, Stored
  <2>2. decls' = [k \in Kinds |-> decls'[k]]
    BY <1>1, ListedDecls
  <2> QED
    BY <1>3, <2>1, <2>2 DEF Shape
<1>5. FoundByItsName'
  <2> SUFFICES ASSUME NEW k \in Kinds, NEW m \in Names[k], names'[k][m] \in Nat
               PROVE  /\ names'[k][m] \in 1 .. Len(decls'[k])
                      /\ decls'[k][names'[k][m]].name = NameKept(k, m)
    BY DEF FoundByItsName, NameKept
  <2>1. CASE k = kind /\ m = n /\ names[k][m] = Absent
    BY <1>1, <1>2, <1>3, <2>1, ListedDecls
  <2>2. CASE ~(k = kind /\ m = n /\ names[k][m] = Absent)
    <3>1. names'[k][m] = names[k][m]
      BY <1>3, <2>2
    <3>2. names[k][m] \in 1 .. Len(decls[k]) /\ decls[k][names[k][m]].name = NameKept(k, m)
      BY <3>1 DEF DeclsInv, FoundByItsName
    <3>3. CASE k = kind
      BY <1>1, <3>1, <3>2, <3>3, ListedDecls
    <3>4. CASE k # kind
      BY <1>1, <3>1, <3>2, <3>4, ListedDecls
    <3> QED
      BY <3>3, <3>4
  <2> QED
    BY <2>1, <2>2
<1> QED
  BY <1>4, <1>5 DEF DeclsInv

LEMMA FindKeeps ==
    ASSUME DeclsInv, NEW kind \in Kinds, NEW n \in Names[kind], Find(kind, n)
    PROVE  DeclsInv'
<1>1. /\ decls' = decls
      /\ names' = [k \in Kinds |-> names'[k]]
      /\ \A k \in Kinds : names'[k] \in [Names[k] -> Nat \cup {Absent, Null}]
      /\ \A k \in Kinds : \A m \in Names[k] :
             (k # kind \/ m # n \/ names[k][m] # Absent) => names'[k][m] = names[k][m]
      /\ names[kind][n] = Absent => names'[kind][n] = Null
  BY FindUses, UsedNames
<1>2. TypeOK' /\ Shape'
  BY <1>1 DEF DeclsInv, TypeOK, Shape, Stored, Vars, Pointers
<1>3. FoundByItsName'
  BY <1>1, ASTAssumption DEF DeclsInv, FoundByItsName, NameKept
<1> QED
  BY <1>2, <1>3 DEF DeclsInv

LEMMA NewVarKeeps ==
    ASSUME DeclsInv, NEW f \in 1 .. Len(decls.funcs), NEW vec \in {"args", "lvars"},
           NEW type \in Pointers("types"), NEW dim \in Dims, NewVar(f, vec, type, dim)
    PROVE  DeclsInv'
<1> DEFINE v == [type |-> type, dim |-> dim]
           F == [name : Stored("funcs"), args : Seq(Vars), lvars : Seq(Vars)]
           old == decls.funcs[f]
           new == [old EXCEPT ![vec] = Append(@, v)]
<1>1. v \in Vars
  BY DEF Vars
<1>2. decls.funcs \in Seq(F) /\ old \in F
  <2> HIDE DEF F
  <2>1. decls.funcs \in Seq(F)
    BY DEF DeclsInv, TypeOK, F
  <2> QED
    BY <2>1
<1>3. new \in F /\ new.name = old.name
  <2> HIDE DEF v
  <2>1. Append(old.args, v) \in Seq(Vars) /\ Append(old.lvars, v) \in Seq(Vars)
    <3>1. old.args \in Seq(Vars) /\ old.lvars \in Seq(Vars)
      BY <1>2
    <3> HIDE DEF old
    <3> QED
      BY <1>1, <3>1, AppendProperties
  <2>2. CASE vec = "args"
    BY <1>2, <2>1, <2>2
  <2>3. CASE vec = "lvars"
    BY <1>2, <2>1, <2>3
  <2> QED
    BY <2>2, <2>3
<1>4. decls' = [k \in Kinds |-> IF k = "funcs" THEN [decls.funcs EXCEPT ![f] = new] ELSE decls[k]]
  <2>1. decls' = [decls EXCEPT !.funcs = [decls.funcs EXCEPT ![f] = new]]
    BY DEF NewVar
  <2> HIDE DEF new, old, F
  <2> QED
    BY <2>1 DEF DeclsInv, Shape, Kinds
<1>5. names' = names
  BY DEF NewVar
<1> HIDE DEF v, new, old, F
<1>6. /\ decls'.types = decls.types /\ decls'.gvars = decls.gvars
      /\ decls'.funcs = [decls.funcs EXCEPT ![f] = new]
  BY <1>4 DEF Kinds
<1>7. /\ decls'.funcs \in Seq(F) /\ Len(decls'.funcs) = Len(decls.funcs)
      /\ \A i \in 1 .. Len(decls.funcs) : decls'.funcs[i] = IF i = f THEN new ELSE decls.funcs[i]
  BY <1>2, <1>3, <1>6
<1>8. TypeOK' /\ Shape'
  BY <1>4, <1>5, <1>6, <1>7 DEF DeclsInv, TypeOK, Shape, Stored, Vars, Pointers, F
<1>9. FoundByItsName'
  <2> SUFFICES ASSUME NEW k \in Kinds, NEW m \in Names[k], names[k][m] \in Nat
               PROVE  /\ names[k][m] \in 1 .. Len(decls'[k])
                      /\ decls'[k][names[k][m]].name = NameKept(k, m)
    BY <1>5 DEF FoundByItsName, NameKept
  <2>1. names[k][m] \in 1 .. Len(decls[k]) /\ decls[k][names[k][m]].name = NameKept(k, m)
    BY DEF DeclsInv, FoundByItsName
  <2>2. CASE k = "funcs"
    BY <1>3, <1>7, <2>1, <2>2 DEF old
  <2>3. CASE k # "funcs"
    BY <1>4, <2>1, <2>3
  <2> QED
    BY <2>2, <2>3
<1> QED
  BY <1>8, <1>9 DEF DeclsInv

LEMMA DeclsStep == DeclsInv /\ [Next]_vars => DeclsInv'
<1> SUFFICES ASSUME DeclsInv, [Next]_vars PROVE DeclsInv'
  OBVIOUS
<1>1. ASSUME NEW kind \in Kinds, NEW n \in Names[kind], DeclareAny(kind, n) PROVE DeclsInv'
  <2>1. PICK node \in Node(kind, n) : Declare(kind, n, node) \/ DeclareThrows(kind, n, node)
    BY <1>1 DEF DeclareAny
  <2>2. CASE Declare(kind, n, node)
    BY <2>2, DeclareKeeps
  <2>3. CASE ListedOnly(kind, n, node)
    BY <2>3, ListedOnlyKeeps
  <2>4. CASE UNCHANGED vars
    BY <2>4 DEF DeclsInv, TypeOK, Shape, FoundByItsName, Stored, Vars, Pointers, NameKept, vars
  <2> QED
    BY <2>1, <2>2, <2>3, <2>4 DEF DeclareThrows
<1>2. ASSUME NEW kind \in Kinds, NEW n \in Names[kind], Find(kind, n) PROVE DeclsInv'
  BY <1>2, FindKeeps
<1>3. ASSUME NEW f \in 1 .. Len(decls.funcs), NEW vec \in {"args", "lvars"}, NewVarAny(f, vec)
      PROVE DeclsInv'
  BY <1>3, NewVarKeeps DEF NewVarAny
<1>4. CASE UNCHANGED vars
  BY <1>4 DEF DeclsInv, TypeOK, Shape, FoundByItsName, Stored, Vars, Pointers, NameKept, vars
<1> QED
  BY <1>1, <1>2, <1>3, <1>4 DEF Next

LEMMA DeclsAlways == Spec => []DeclsInv
BY DeclsInit, DeclsStep, PTL DEF Spec

\* The vectors and maps keep their types; a variable's type is a declared one.
THEOREM TypeCorrect == Spec => []TypeOK
BY DeclsAlways, PTL DEF DeclsInv

\* A look-up finds nothing, or a node of that name in the vector.
THEOREM LookUpsFindTheName == Spec => []FoundByItsName
BY DeclsAlways, PTL DEF DeclsInv

\* What a name is bound to, the nullptr of a look-up included, never changes.
THEOREM FirstUseIsForEver == Spec => FirstUseDecides
<1> DEFINE Kept == \A kind \in Kinds : \A n \in Names[kind] :
                       names[kind][n] # Absent => names'[kind][n] = names[kind][n]
<1>1. ASSUME DeclsInv, Next PROVE Kept
  <2>1. ASSUME NEW kind \in Kinds, NEW n \in Names[kind], DeclareAny(kind, n) PROVE Kept
    <3>1. PICK node \in Node(kind, n) : Declare(kind, n, node) \/ DeclareThrows(kind, n, node)
      BY <2>1 DEF DeclareAny
    <3>2. CASE Declare(kind, n, node)
      <4>1. PICK p \in Nat \cup {Null} : Used(kind, n, p)
        <5>1. Len(decls[kind]) + 1 \in Nat \cup {Null}
          BY <1>1, <3>2, ListedDecls DEF Declare
        <5>2. Used(kind, n, Len(decls[kind]) + 1)
          BY <3>2 DEF Declare, Used
        <5> QED
          BY <5>1, <5>2
      <4> QED
        BY <1>1, <4>1, UsedNames
    <3>3. CASE DeclareThrows(kind, n, node)
      BY <3>3 DEF DeclareThrows, ListedOnly, vars
    <3> QED
      BY <3>1, <3>2, <3>3
  <2>2. ASSUME NEW kind \in Kinds, NEW n \in Names[kind], Find(kind, n) PROVE Kept
    BY <1>1, <2>2, FindUses, UsedNames
  <2>3. ASSUME NEW f \in 1 .. Len(decls.funcs), NEW vec \in {"args", "lvars"}, NewVarAny(f, vec)
        PROVE Kept
    BY <2>3 DEF NewVarAny, NewVar
  <2> QED
    BY <1>1, <2>1, <2>2, <2>3 DEF Next
<1>2. DeclsInv /\ [Next]_vars => [Kept]_vars
  BY <1>1
<1> HIDE DEF Kept
<1>3. Spec => [][Kept]_vars
  BY <1>2, DeclsAlways, PTL DEF Spec
<1> QED
  BY <1>3 DEF FirstUseDecides, Kept
-----------------------------------------------------------------------------
\* What holds of a number, and does not fail first anywhere, never fails.
LEMMA NoFirstFailure ==
    ASSUME NEW Fails \in SUBSET Nat, \A n \in Fails : \E m \in Fails : m < n
    PROVE  Fails = {}
<1> DEFINE R == {ss \in Nat \X Nat : ss[1] < ss[2]}
<1>1. IsWellFoundedOn(R, Nat)
  BY NatLessThanWellFounded DEF OpToRel
<1>2. \A m, n \in Fails : <<m, n>> \in R <=> m < n
  OBVIOUS
<1> HIDE DEF R
<1>3. Fails # {} => \E n \in Fails : \A m \in Fails : ~(<<m, n>> \in R)
  BY <1>1, WFMin
<1> QED
  BY <1>2, <1>3

\* The sum up to each place, as the loops of stackframe_size come by it.
Upto(f, s, n) == f = [i \in 0 .. n |-> IF i = 0 THEN 0 ELSE f[i - 1] + s[i]]

LEMMA SumsExist ==
    ASSUME NEW s \in Seq(Nat)
    PROVE  \E f : Upto(f, s, Len(s)) /\ SumOf(s) = f[Len(s)]
<1> DEFINE Fails == {n \in 0 .. Len(s) : ~\E f : Upto(f, s, n)}
<1>1. Len(s) \in Nat
  OBVIOUS
<1>2. ASSUME NEW n \in Fails PROVE \E m \in Fails : m < n
  <2>1. CASE n = 0
    <3>1. [i \in 0 .. 0 |-> 0] = [i \in 0 .. 0 |->
              IF i = 0 THEN 0 ELSE [j \in 0 .. 0 |-> 0][i - 1] + s[i]]
      OBVIOUS
    <3>2. Upto([i \in 0 .. 0 |-> 0], s, 0)
      BY <3>1 DEF Upto
    <3> QED
      BY <1>2, <2>1, <3>2
  <2>2. CASE n # 0
    <3>1. n \in 1 .. Len(s) /\ n - 1 \in 0 .. Len(s) /\ n - 1 < n
      BY <1>1, <1>2, <2>2
    <3>2. ASSUME NEW f, Upto(f, s, n - 1) PROVE \E g : Upto(g, s, n)
      <4> DEFINE g == [i \in 0 .. n |-> IF i = n THEN f[n - 1] + s[n] ELSE f[i]]
      <4>1. \A i \in 0 .. n - 1 : g[i] = f[i] /\ f[i] = IF i = 0 THEN 0 ELSE f[i - 1] + s[i]
        BY <3>1, <3>2 DEF Upto
      <4>2. g[n] = f[n - 1] + s[n] /\ g[n - 1] = f[n - 1]
        BY <3>1
      <4>3. \A i \in 0 .. n : i = n \/ (i \in 0 .. n - 1 /\ (i # 0 => i - 1 \in 0 .. n - 1))
        BY <3>1
      <4>4. DOMAIN g = 0 .. n /\ g = [i \in 0 .. n |-> g[i]]
        OBVIOUS
      <4> HIDE DEF g
      <4>5. \A i \in 0 .. n : g[i] = IF i = 0 THEN 0 ELSE g[i - 1] + s[i]
        BY <3>1, <4>1, <4>2, <4>3
      <4>6. Upto(g, s, n)
        BY <4>4, <4>5 DEF Upto
      <4> QED
        BY <4>6
    <3> QED
      BY <1>2, <3>1, <3>2
  <2> QED
    BY <2>1, <2>2
<1>3. Fails = {}
  <2>1. Fails \in SUBSET Nat
    BY <1>1
  <2> HIDE DEF Fails
  <2> QED
    BY <1>2, <2>1, NoFirstFailure
<1>4. \E f : Upto(f, s, Len(s))
  BY <1>1, <1>3
<1>5. Upto(CHOOSE f : Upto(f, s, Len(s)), s, Len(s))
  BY <1>4
<1>6. SumOf(s) = (CHOOSE f : Upto(f, s, Len(s)))[Len(s)]
  BY DEF SumOf, Upto
<1> QED
  BY <1>5, <1>6

\* A sum is no less than any of what it sums.
LEMMA SumBounds ==
    ASSUME NEW s \in Seq(Nat)
    PROVE  SumOf(s) \in Nat /\ \A i \in 1 .. Len(s) : s[i] <= SumOf(s)
<1>1. Len(s) \in Nat /\ \A i \in 1 .. Len(s) : s[i] \in Nat
  OBVIOUS
<1>2. PICK f : Upto(f, s, Len(s)) /\ SumOf(s) = f[Len(s)]
  BY SumsExist
<1>3. f[0] = 0 /\ \A n \in 1 .. Len(s) : f[n] = f[n - 1] + s[n]
  BY <1>1, <1>2 DEF Upto
<1>4. \A n \in 0 .. Len(s) : f[n] \in Nat
  <2> DEFINE Fails == {n \in 0 .. Len(s) : f[n] \notin Nat}
  <2>1. ASSUME NEW n \in Fails PROVE \E m \in Fails : m < n
    <3>1. n # 0 /\ n \in 1 .. Len(s) /\ n - 1 \in 0 .. Len(s) /\ n - 1 < n
      BY <1>1, <1>3, <2>1
    <3>2. f[n - 1] \notin Nat
      BY <1>1, <1>3, <2>1, <3>1
    <3> QED
      BY <3>1, <3>2
  <2>2. Fails \in SUBSET Nat
    BY <1>1
  <2> HIDE DEF Fails
  <2>3. Fails = {}
    BY <2>1, <2>2, NoFirstFailure
  <2> QED
    BY <2>3 DEF Fails
<1>5. ASSUME NEW i \in 1 .. Len(s) PROVE s[i] <= f[Len(s)]
  <2> DEFINE Fails == {n \in i .. Len(s) : ~(s[i] <= f[n])}
  <2>1. ASSUME NEW n \in Fails PROVE \E m \in Fails : m < n
    <3>1. /\ n \in 1 .. Len(s) /\ n - 1 \in 0 .. Len(s) /\ n - 1 < n /\ i \in Nat
          /\ f[n] = f[n - 1] + s[n] /\ f[n - 1] \in Nat /\ s[n] \in Nat /\ s[i] \in Nat
      BY <1>1, <1>3, <1>4, <2>1
    <3>2. n # i
      BY <2>1, <3>1
    <3>3. n - 1 \in i .. Len(s) /\ ~(s[i] <= f[n - 1])
      BY <2>1, <3>1, <3>2
    <3> QED
      BY <3>1, <3>3
  <2>2. Fails \in SUBSET Nat /\ Len(s) \in i .. Len(s)
    BY <1>1
  <2> HIDE DEF Fails
  <2>3. Fails = {}
    BY <2>1, <2>2, NoFirstFailure
  <2> QED
    BY <2>2, <2>3 DEF Fails
<1> QED
  BY <1>1, <1>2, <1>4, <1>5

\* The bytes of the variables of one vector, counted without a bound.
LEMMA RoomIsNatural ==
    ASSUME DeclsInv, NEW vs \in Seq(Vars), \A i \in 1 .. Len(vs) : vs[i].type # Null
    PROVE  Room(vs) \in Nat /\ \A i \in 1 .. Len(vs) : Bytes(vs[i]) \in Nat /\ Bytes(vs[i]) <= Room(vs)
<1> DEFINE room == [i \in 1 .. Len(vs) |-> Bytes(vs[i])]
<1>1. Len(vs) \in Nat /\ Dims \subseteq Nat /\ Sizes \subseteq Nat
  BY ASTAssumption
<1>2. ASSUME NEW i \in 1 .. Len(vs) PROVE Bytes(vs[i]) \in Nat
  <2>1. vs[i] \in Vars /\ vs[i].type # Null
    OBVIOUS
  <2>2. vs[i].type \in 1 .. Len(decls.types) /\ vs[i].dim \in Nat
    BY <1>1, <2>1 DEF Vars, Pointers
  <2> DEFINE Types == [name : Stored("types"), size : Sizes]
  <2>3. decls.types \in Seq(Types)
    BY DEF DeclsInv, TypeOK
  <2>4. decls.types[vs[i].type] \in Types
    BY <2>2, <2>3, ElementOf
  <2>5. decls.types[vs[i].type].size \in Nat
    BY <1>1, <2>4
  <2>6. \A m, n \in Nat : m * n \in Nat
    OBVIOUS
  <2> HIDE DEF Types
  <2> QED
    BY <2>2, <2>5, <2>6 DEF Bytes
<1>3. room \in Seq(Nat) /\ Len(room) = Len(vs)
  BY <1>1, <1>2
<1>4. SumOf(room) \in Nat /\ \A i \in 1 .. Len(vs) : room[i] <= SumOf(room)
  <2> HIDE DEF room
  <2> QED
    BY <1>3, SumBounds
<1>5. Room(vs) = SumOf(room)
  BY DEF Room
<1> QED
  BY <1>2, <1>4, <1>5

\* As long as their sum has no overflow, the loop has counted those bytes.
LEMMA TotalIsRoom ==
    ASSUME DeclsInv, NEW vs \in Seq(Vars), \A i \in 1 .. Len(vs) : vs[i].type # Null,
           Room(vs) < SizeMod
    PROVE  /\ Total(vs) = Room(vs)
           /\ \A i \in 1 .. Len(vs) : Size(vs[i]) \in Nat /\ Size(vs[i]) <= Room(vs)
<1>1. /\ Room(vs) \in Nat
      /\ \A i \in 1 .. Len(vs) : Bytes(vs[i]) \in Nat /\ Bytes(vs[i]) <= Room(vs)
  BY RoomIsNatural
<1>2. SizeMod \in Nat \ {0}
  BY ASTAssumption
<1>3. \A n \in Nat : n <= Room(vs) => n % SizeMod = n
  <2> DEFINE r == Room(vs)
  <2>1. r \in Nat /\ r < SizeMod
    BY <1>1
  <2> HIDE DEF r
  <2>2. \A n \in Nat : n <= r => n % SizeMod = n
    BY <1>2, <2>1
  <2> QED
    BY <2>2 DEF r
<1>4. \A i \in 1 .. Len(vs) : Size(vs[i]) = Bytes(vs[i])
  BY <1>1, <1>3 DEF Size
<1>5. Total(vs) = Room(vs) % SizeMod
  BY <1>4 DEF Total, Room
<1>6. Room(vs) <= Room(vs)
  BY <1>1
<1> QED
  BY <1>1, <1>3, <1>4, <1>5, <1>6

\* Whatever has been declared since, each argument and each local variable has its
\* room within the frame of its function, for every width of size_t, as long as
\* the frame as a whole is within it.
THEOREM FramesHoldTheirVars == Spec => []VarsFitFrame
<1>1. ASSUME DeclsInv PROVE VarsFitFrame
  <2> SUFFICES ASSUME NEW f \in 1 .. Len(decls.funcs), Typed(f),
                      Room(decls.funcs[f].args) + Room(decls.funcs[f].lvars) < SizeMod
               PROVE  /\ \A i \in 1 .. Len(decls.funcs[f].args) :
                             Size(decls.funcs[f].args[i]) <= stackframe_size(f)
                      /\ \A i \in 1 .. Len(decls.funcs[f].lvars) :
                             Size(decls.funcs[f].lvars[i]) <= stackframe_size(f)
    BY DEF VarsFitFrame
  <2>1. decls.funcs[f].args \in Seq(Vars) /\ decls.funcs[f].lvars \in Seq(Vars)
    <3> DEFINE Funcs == [name : Stored("funcs"), args : Seq(Vars), lvars : Seq(Vars)]
    <3>1. decls.funcs \in Seq(Funcs)
      BY <1>1 DEF DeclsInv, TypeOK
    <3>2. decls.funcs[f] \in Funcs
      BY <3>1, ElementOf
    <3> QED
      BY <3>2
  <2> DEFINE a == Room(decls.funcs[f].args)
             b == Room(decls.funcs[f].lvars)
  <2>2. a \in Nat /\ b \in Nat
    BY <1>1, <2>1, RoomIsNatural DEF Typed
  <2>3. SizeMod \in Nat \ {0} /\ a + b < SizeMod
    BY ASTAssumption
  <2> HIDE DEF a, b
  <2>4. a < SizeMod /\ b < SizeMod /\ (a + b) % SizeMod = a + b /\ a <= a + b /\ b <= a + b
    BY <2>2, <2>3
  <2>5. /\ Total(decls.funcs[f].args) = a
        /\ \A i \in 1 .. Len(decls.funcs[f].args) :
               Size(decls.funcs[f].args[i]) \in Nat /\ Size(decls.funcs[f].args[i]) <= a
    BY <1>1, <2>1, <2>4, TotalIsRoom DEF Typed, a
  <2>6. /\ Total(decls.funcs[f].lvars) = b
        /\ \A i \in 1 .. Len(decls.funcs[f].lvars) :
               Size(decls.funcs[f].lvars[i]) \in Nat /\ Size(decls.funcs[f].lvars[i]) <= b
    BY <1>1, <2>1, <2>4, TotalIsRoom DEF Typed, b
  <2>7. stackframe_size(f) = a + b
    BY <2>4, <2>5, <2>6 DEF stackframe_size
  <2>8. \A n \in Nat : n <= a \/ n <= b => n <= a + b
    BY <2>2
  <2> QED
    BY <2>5, <2>6, <2>7, <2>8
<1> QED
  BY <1>1, DeclsAlways, PTL
=============================================================================

--------------------------- MODULE SVMIPoolProofs ---------------------------
(***************************************************************************)
(* A context is never with two scopes, for any number of scopes and        *)
(* contexts, with and without failing allocations and asserts.             *)
(***************************************************************************)
EXTENDS SVMIPool, SequenceTheorems, TLAPS

\* A vector used as a stack: what pop_back leaves in it.
LEMMA FrontElements ==
    ASSUME NEW S, NEW q \in Seq(S), q # <<>>
    PROVE  LET r == SubSeq(q, 1, Len(q) - 1) IN
           /\ r \in Seq(S) /\ Len(r) = Len(q) - 1
           /\ \A i \in 1 .. Len(r) : r[i] = q[i] /\ i \in 1 .. Len(q) /\ i # Len(q)
           /\ Len(q) \in 1 .. Len(q) /\ q[Len(q)] \in S
<1>1. Len(q) \in Nat /\ Len(q) >= 1
  OBVIOUS
<1>2. /\ SubSeq(q, 1, Len(q) - 1) \in Seq(S)
      /\ Len(SubSeq(q, 1, Len(q) - 1)) = Len(q) - 1
      /\ \A i \in 1 .. Len(q) - 1 : SubSeq(q, 1, Len(q) - 1)[i] = q[i]
  <2> DEFINE n == Len(q) - 1
  <2>1. n \in Nat /\ \A i \in 1 .. n : q[i] \in S
    BY <1>1
  <2> HIDE DEF n
  <2>2. /\ SubSeq(q, 1, n) \in Seq(S)
        /\ Len(SubSeq(q, 1, n)) = IF 1 <= n THEN n - 1 + 1 ELSE 0
        /\ \A i \in 1 .. n - 1 + 1 : SubSeq(q, 1, n)[i] = q[1 + i - 1]
    BY <2>1, SubSeqProperties
  <2>3. /\ Len(SubSeq(q, 1, n)) = n
        /\ \A i \in 1 .. n : SubSeq(q, 1, n)[i] = q[i]
    BY <2>1, <2>2
  <2> QED
    BY <2>2, <2>3 DEF n
<1> QED
  BY <1>1, <1>2

\* Who holds the mutex is inside a critical section, and nobody else is.
MutexInv == \A s \in Scopes : pc[s] \in Critical <=> mutex = s

\* A scope has a pointer exactly where ctx_create has given it one; the list is
\* not empty where it is about to be read.
PlaceInv ==
    \A s \in Scopes :
        /\ pc[s] \in {"outside", "test", "new", "back", "release"} => p_ctx[s] = Nobody
        /\ pc[s] \in {"back", "pop_back"} => free # <<>>
        /\ pc[s] = "new" => free = <<>>
        /\ pc[s] = "register" => p_ctx[s] \in Contexts
        /\ pc[s] \in {"pop_back", "unlock", "construct"} => p_ctx[s] \in Pointer
        /\ pc[s] \in {"using", "push_back"} => p_ctx[s] \in Pooled
        /\ pc[s] = "pop_back" => p_ctx[s] = free[Len(free)]

\* The context about to be registered is not registered.
RegisterInv ==
    \A s \in Scopes : pc[s] = "register" =>
        \A i \in 1 .. Len(busy) : busy[i] # p_ctx[s]

\* Contexts in the list are all different, and a scope that holds one of them is
\* between free.back() and free.pop_back().
FreeInv ==
    /\ \A i, j \in 1 .. Len(free) : free[i] \in Contexts /\ free[i] = free[j] => i = j
    /\ \A s \in Scopes, i \in 1 .. Len(free) :
           p_ctx[s] \in Contexts /\ p_ctx[s] = free[i] => pc[s] = "pop_back"

\* Contexts come from new, and new never gives one twice.
CreatedInv ==
    /\ \A s \in Scopes : p_ctx[s] \in Contexts => p_ctx[s] \in created
    /\ \A i \in 1 .. Len(free) : free[i] \in Contexts => free[i] \in created
    /\ \A i \in 1 .. Len(busy) : busy[i] \in created

PoolInv == /\ TypeOK /\ MutexInv /\ PlaceInv /\ RegisterInv /\ FreeInv /\ CreatedInv
           /\ ExclusiveLease

LEMMA PoolInit == Init => PoolInv
<1> SUFFICES ASSUME Init PROVE PoolInv
  OBVIOUS
<1> USE PoolAssumption DEF Init, Critical, Places, Pointer
<1>1. TypeOK
  <2>1. free \in Seq(Pooled) /\ busy \in Seq(Contexts)
    BY EmptySeq DEF Pooled
  <2>2. pc \in [Scopes -> Places] /\ p_ctx \in [Scopes -> Pointer \cup {Nobody}]
    OBVIOUS
  <2>3. mutex \in Scopes \cup {Nobody} /\ created \in SUBSET Contexts
    OBVIOUS
  <2> QED
    BY <2>1, <2>2, <2>3 DEF TypeOK
<1>2. MutexInv /\ PlaceInv /\ RegisterInv
  BY DEF MutexInv, PlaceInv, RegisterInv
<1>3. FreeInv /\ CreatedInv /\ ExclusiveLease
  BY DEF FreeInv, CreatedInv, ExclusiveLease
<1> QED
  BY <1>1, <1>2, <1>3 DEF PoolInv

LEMMA PoolStep == PoolInv /\ [Next]_vars => PoolInv'
<1> SUFFICES ASSUME PoolInv, [Next]_vars PROVE PoolInv'
  OBVIOUS
<1> USE PoolAssumption DEF PoolInv, TypeOK, MutexInv, PlaceInv, RegisterInv, FreeInv, CreatedInv,
    ExclusiveLease, Critical, Places, Pointer, Pooled, At, Goto
<1>1. ASSUME NEW s \in Scopes, LockCreate(s) PROVE PoolInv'
  BY <1>1 DEF LockCreate, Acquire
<1>2. ASSUME NEW s \in Scopes, TestFree(s) PROVE PoolInv'
  BY <1>2 DEF TestFree
<1>3. ASSUME NEW s \in Scopes, NewContext(s) PROVE PoolInv'
  BY <1>3 DEF NewContext
<1>4. ASSUME NEW s \in Scopes, NewFails(s) PROVE PoolInv'
  BY <1>4 DEF NewFails
<1>5. ASSUME NEW s \in Scopes, Register(s) PROVE PoolInv'
  <2>1. /\ Len(busy) \in Nat /\ Len(busy') = Len(busy) + 1 /\ busy' \in Seq(Contexts)
        /\ busy'[Len(busy')] = p_ctx[s] /\ \A i \in 1 .. Len(busy) : busy'[i] = busy[i]
    BY <1>5, AppendProperties, LenProperties DEF Register
  <2>2. TypeOK' /\ MutexInv' /\ PlaceInv' /\ ExclusiveLease'
    BY <1>5, <2>1 DEF Register
  <2>3. RegisterInv' /\ FreeInv'
    BY <1>5 DEF Register
  <2>4. CreatedInv'
    BY <1>5, <2>1 DEF Register
  <2> QED
    BY <2>2, <2>3, <2>4
<1>6. ASSUME NEW s \in Scopes, RegisterThrows(s) PROVE PoolInv'
  <2>1. CASE UNCHANGED <<pc, p_ctx>>
    <3>1. /\ process' \in {"running", "ended"}
          /\ UNCHANGED <<free, busy, mutex, pc, p_ctx, created, ndebug>>
      BY <1>6, <2>1 DEF RegisterThrows
    <3> QED
      BY <3>1
  <2>2. CASE ~UNCHANGED <<pc, p_ctx>>
    <3>1. /\ pc[s] = "register" /\ pc' = [pc EXCEPT ![s] = "release"]
          /\ p_ctx' = [p_ctx EXCEPT ![s] = Nobody]
          /\ UNCHANGED <<free, busy, mutex, created, ndebug, process>>
      BY <1>6, <2>2 DEF RegisterThrows
    <3>2. TypeOK' /\ MutexInv' /\ ExclusiveLease'
      BY <3>1
    <3>3. PlaceInv' /\ RegisterInv'
      BY <3>1
    <3>4. FreeInv' /\ CreatedInv'
      BY <3>1
    <3> QED
      BY <3>2, <3>3, <3>4
  <2> QED
    BY <2>1, <2>2
<1>7. ASSUME NEW s \in Scopes, TakeBack(s) PROVE PoolInv'
  BY <1>7 DEF TakeBack
<1>8. ASSUME NEW s \in Scopes, PopBack(s) PROVE PoolInv'
  <2> HIDE DEF Pooled
  <2>1. /\ free \in Seq(Pooled) /\ free # <<>> /\ p_ctx[s] = free[Len(free)]
        /\ free' = SubSeq(free, 1, Len(free) - 1)
    BY <1>8 DEF PopBack
  <2>2. /\ free' \in Seq(Pooled) /\ Len(free') = Len(free) - 1
        /\ \A i \in 1 .. Len(free') :
               free'[i] = free[i] /\ i \in 1 .. Len(free) /\ i # Len(free)
        /\ Len(free) \in 1 .. Len(free)
    BY <2>1, FrontElements
  <2>3. TypeOK' /\ MutexInv' /\ ExclusiveLease' /\ PlaceInv' /\ RegisterInv'
    <3>1. /\ pc' = [pc EXCEPT ![s] = "unlock"] /\ pc[s] = "pop_back"
          /\ UNCHANGED <<busy, mutex, p_ctx, created, ndebug, process>>
      BY <1>8 DEF PopBack
    <3>2. Pooled' = Pooled
      BY <3>1 DEF Pooled
    <3>3. TypeOK'
      BY <2>2, <3>1, <3>2
    <3>4. MutexInv'
      BY <3>1
    <3>5. ExclusiveLease'
      BY <3>1
    <3>6. PlaceInv'
      BY <3>1, <3>2
    <3>7. RegisterInv'
      BY <3>1
    <3> QED
      BY <3>3, <3>4, <3>5, <3>6, <3>7
  <2>4. ASSUME NEW i \in 1 .. Len(free'), NEW j \in 1 .. Len(free'),
               free'[i] \in Contexts, free'[i] = free'[j]
        PROVE  i = j
    BY <2>2, <2>4
  <2>5. ASSUME NEW t \in Scopes, NEW i \in 1 .. Len(free'),
               p_ctx'[t] \in Contexts, p_ctx'[t] = free'[i]
        PROVE  FALSE
    BY <1>8, <2>1, <2>2, <2>5 DEF PopBack
  <2>6. CreatedInv'
    BY <1>8, <2>2 DEF PopBack
  <2> QED
    BY <2>3, <2>4, <2>5, <2>6
<1>9. ASSUME NEW s \in Scopes, UnlockCreate(s) PROVE PoolInv'
  BY <1>9 DEF UnlockCreate, Drop
<1>10. ASSUME NEW s \in Scopes, Construct(s) PROVE PoolInv'
  <2>1. TypeOK'
    <3>1. CASE p_ctx[s] = Null /\ ~ndebug
      BY <1>10, <3>1 DEF Construct
    <3>2. CASE ~(p_ctx[s] = Null /\ ~ndebug)
      BY <1>10, <3>2 DEF Construct
    <3> QED
      BY <3>1, <3>2
  <2>2. MutexInv' /\ ExclusiveLease'
    BY <1>10 DEF Construct
  <2>3. PlaceInv' /\ RegisterInv'
    BY <1>10 DEF Construct
  <2>4. FreeInv'
    BY <1>10 DEF Construct
  <2>5. CreatedInv'
    BY <1>10 DEF Construct
  <2> QED
    BY <2>1, <2>2, <2>3, <2>4, <2>5
<1>11. ASSUME NEW s \in Scopes, LockDestroy(s) PROVE PoolInv'
  BY <1>11 DEF LockDestroy, Acquire
<1>12. ASSUME NEW s \in Scopes, PushFree(s) PROVE PoolInv'
  <2>1. TypeOK'
    BY <1>12, AppendProperties DEF PushFree
  <2>2. MutexInv' /\ ExclusiveLease'
    BY <1>12 DEF PushFree
  <2>3. PlaceInv' /\ RegisterInv'
    BY <1>12, AppendProperties DEF PushFree
  <2>4. FreeInv'
    BY <1>12, AppendProperties DEF PushFree
  <2>5. CreatedInv'
    BY <1>12, AppendProperties DEF PushFree
  <2> QED
    BY <2>1, <2>2, <2>3, <2>4, <2>5
<1>13. ASSUME NEW s \in Scopes, PushFreeThrows(s) PROVE PoolInv'
  BY <1>13 DEF PushFreeThrows
<1>14. ASSUME NEW s \in Scopes, UnlockDestroy(s) PROVE PoolInv'
  BY <1>14 DEF UnlockDestroy, Drop
<1>15. CASE Ended \/ UNCHANGED vars
  BY <1>15 DEF Ended, vars
<1> QED
  BY <1>1, <1>2, <1>3, <1>4, <1>5, <1>6, <1>7, <1>8, <1>9, <1>10, <1>11, <1>12, <1>13,
     <1>14, <1>15
  DEF Next, Step

\* The types of the pool's variables hold in every state.
THEOREM TypeCorrect == Spec => []TypeOK
<1>1. PoolInv => TypeOK
  BY DEF PoolInv
<1> QED
  BY PoolInit, PoolStep, <1>1, PTL DEF Spec

\* No two scopes hold the same context, whatever the interleaving of their
\* constructors and destructors.
THEOREM LeaseIsExclusive == Spec => []ExclusiveLease
<1>1. PoolInv => ExclusiveLease
  BY DEF PoolInv
<1> QED
  BY PoolInit, PoolStep, <1>1, PTL DEF Spec

-----------------------------------------------------------------------------
\* What a step does to the contexts that are held or free.
LEMMA NothingLost == PoolInv /\ NoneLost /\ [Next]_vars => NoneLost'
<1> SUFFICES ASSUME PoolInv, NoneLost, [Next]_vars PROVE NoneLost'
  OBVIOUS
<1> USE PoolAssumption DEF PoolInv, TypeOK, PlaceInv, MutexInv, RegisterInv, NoneLost, InFree,
    Held, Registered, Critical, At, Goto, Pointer, Pooled
<1>1. CASE UNCHANGED <<free, p_ctx, busy>>
  BY <1>1
<1>2. ASSUME NEW s \in Scopes, Register(s) PROVE NoneLost'
  <2>1. /\ Len(busy) \in Nat /\ Len(busy') = Len(busy) + 1
        /\ busy'[Len(busy')] = p_ctx[s] /\ \A i \in 1 .. Len(busy) : busy'[i] = busy[i]
    BY <1>2, AppendProperties, LenProperties DEF Register
  <2>2. Registered' \subseteq Registered \cup {p_ctx[s]}
    BY <2>1
  <2>3. free' = free /\ p_ctx' = p_ctx /\ p_ctx[s] \in Held
    BY <1>2 DEF Register
  <2> HIDE DEF PoolInv, NoneLost, Registered, InFree, Held
  <2>4. InFree' = InFree /\ Held' = Held
    BY <2>3 DEF InFree, Held
  <2> QED
    BY <2>2, <2>3, <2>4 DEF NoneLost
<1>3. ASSUME NEW s \in Scopes, NEW v, p_ctx' = [p_ctx EXCEPT ![s] = v],
             free' = free, busy' = busy, p_ctx[s] \notin Registered
      PROVE  NoneLost'
  <2>1. Held \subseteq Held' \cup {p_ctx[s]}
    BY <1>3
  <2> HIDE DEF PoolInv, NoneLost, Registered, InFree, Held
  <2>2. Registered' = Registered /\ InFree' = InFree
    BY <1>3 DEF Registered, InFree
  <2> QED
    BY <1>3, <2>1, <2>2 DEF NoneLost
<1>4. ASSUME NEW s \in Scopes, p_ctx[s] = Nobody PROVE p_ctx[s] \notin Registered
  BY <1>4
<1>5. ASSUME NEW s \in Scopes, RegisterThrows(s) PROVE NoneLost'
  <2>1. free' = free /\ busy' = busy /\ p_ctx[s] \notin Registered
    BY <1>5 DEF RegisterThrows
  <2>2. p_ctx' = p_ctx \/ p_ctx' = [p_ctx EXCEPT ![s] = Nobody]
    BY <1>5 DEF RegisterThrows
  <2> QED
    BY <1>1, <1>3, <2>1, <2>2
<1>6. ASSUME NEW s \in Scopes, NewContext(s) PROVE NoneLost'
  <2>1. PICK c \in Contexts : p_ctx' = [p_ctx EXCEPT ![s] = c]
    BY <1>6 DEF NewContext
  <2>2. free' = free /\ busy' = busy /\ p_ctx[s] = Nobody
    BY <1>6 DEF NewContext
  <2> QED
    BY <1>3, <1>4, <2>1, <2>2
<1>7. ASSUME NEW s \in Scopes, NewFails(s) PROVE NoneLost'
  <2>1. /\ free' = free /\ busy' = busy /\ p_ctx[s] = Nobody
        /\ p_ctx' = [p_ctx EXCEPT ![s] = Null]
    BY <1>7 DEF NewFails
  <2> QED
    BY <1>3, <1>4, <2>1
<1>8. ASSUME NEW s \in Scopes, TakeBack(s) PROVE NoneLost'
  <2>1. /\ free' = free /\ busy' = busy /\ p_ctx[s] = Nobody
        /\ p_ctx' = [p_ctx EXCEPT ![s] = free[Len(free)]]
    BY <1>8 DEF TakeBack
  <2> QED
    BY <1>3, <1>4, <2>1
<1>9. ASSUME NEW s \in Scopes, PopBack(s) PROVE NoneLost'
  <2>1. /\ free \in Seq(Pooled) /\ free # <<>> /\ p_ctx[s] = free[Len(free)]
        /\ free' = SubSeq(free, 1, Len(free) - 1) /\ p_ctx' = p_ctx /\ busy' = busy
    BY <1>9 DEF PopBack
  <2>2. /\ Len(free) \in Nat /\ Len(free') = Len(free) - 1
        /\ \A i \in 1 .. Len(free') : free'[i] = free[i]
    BY <2>1, FrontElements, LenProperties
  <2>3. ASSUME NEW c \in Registered PROVE c \in InFree' \cup Held'
    <3>1. CASE c \in Held
      BY <2>1, <3>1
    <3>2. CASE c \in InFree
      <4>1. PICK i \in 1 .. Len(free) : c = free[i]
        BY <3>2
      <4>2. CASE i = Len(free)
        BY <2>1, <4>1, <4>2
      <4>3. CASE i # Len(free)
        <5>1. i \in 1 .. Len(free') /\ free'[i] = c
          BY <2>2, <4>1, <4>3
        <5> QED
          BY <5>1
      <4> QED
        BY <4>2, <4>3
    <3> QED
      BY <3>1, <3>2
  <2> QED
    BY <2>1, <2>3
<1>10. ASSUME NEW s \in Scopes, PushFree(s) PROVE NoneLost'
  <2>1. /\ free \in Seq(Pooled) /\ p_ctx[s] \in Pooled /\ free' = Append(free, p_ctx[s])
        /\ p_ctx' = [p_ctx EXCEPT ![s] = Nobody] /\ busy' = busy
    BY <1>10 DEF PushFree
  <2>2. /\ Len(free) \in Nat /\ Len(free') = Len(free) + 1
        /\ free'[Len(free')] = p_ctx[s] /\ \A i \in 1 .. Len(free) : free'[i] = free[i]
    BY <2>1, AppendProperties, LenProperties
  <2>3. InFree \subseteq InFree' /\ p_ctx[s] \in InFree'
    BY <2>2
  <2>4. Held \subseteq Held' \cup {p_ctx[s]}
    BY <2>1
  <2> HIDE DEF PoolInv, NoneLost, Registered, InFree, Held
  <2>5. Registered' = Registered
    BY <2>1 DEF Registered
  <2> QED
    BY <2>3, <2>4, <2>5 DEF NoneLost
<1> QED
  BY <1>1, <1>2, <1>5, <1>6, <1>7, <1>8, <1>9, <1>10
  DEF Next, Step, LockCreate, TestFree, UnlockCreate, Construct, LockDestroy,
      PushFreeThrows, UnlockDestroy, Ended, vars

\* No registered context is ever lost: it is with a scope or can be taken from
\* the free list, whichever allocations fail.
THEOREM NoContextLost == Spec => []NoneLost
<1>1. Init => NoneLost
  BY DEF Init, NoneLost, Registered
<1> QED
  BY PoolInit, PoolStep, NothingLost, <1>1, PTL DEF Spec

\* A context is created only while all the registered ones are in use.
THEOREM CreationIsBounded == Spec => CreatedOnlyWhenAllHeld
<1>1. PoolInv /\ NoneLost /\ [Next]_vars
         => [created' # created => Registered \subseteq Held]_vars
  <2> SUFFICES ASSUME PoolInv, NoneLost, Next, created' # created
               PROVE  Registered \subseteq Held
    BY DEF vars
  <2>1. PICK s \in Scopes : NewContext(s)
    BY DEF Next, Step, LockCreate, TestFree, NewFails, Register, RegisterThrows, TakeBack,
       PopBack, UnlockCreate, Construct, LockDestroy, PushFree, PushFreeThrows,
       UnlockDestroy, Ended, vars
  <2>2. free = <<>>
    BY <2>1 DEF NewContext, At, PoolInv, PlaceInv
  <2>3. InFree = {}
    BY <2>2, EmptySeq DEF InFree
  <2> QED
    BY <2>3 DEF NoneLost
<1> QED
  BY PoolInit, PoolStep, NoContextLost, <1>1, PTL DEF Spec, CreatedOnlyWhenAllHeld

-----------------------------------------------------------------------------
\* The pool implements exclusive leases: unlocking after ctx_create does nothing
\* the lease sees until the constructor has its pointer, and so on.
THEOREM PoolImplementsLeases == Spec => ImplementsLeases
<1> DEFINE lease(s) == IF pc[s] \in {"construct", "using"} THEN p_ctx[s] ELSE Nobody
<1>1. Init => Leases!Init
  BY DEF Init, Leases!Init
<1>2. PoolInv /\ [Next]_vars => [Leases!Next]_([s \in Scopes |-> lease(s)])
  <2> SUFFICES ASSUME PoolInv, [Next]_vars
               PROVE  [Leases!Next]_([s \in Scopes |-> lease(s)])
    OBVIOUS
  <2> USE PoolAssumption DEF PoolInv, TypeOK, PlaceInv, ExclusiveLease, At, Goto, Pointer, Pooled,
      Places, Critical
  <2>1. ASSUME NEW s \in Scopes, UnlockCreate(s)
        PROVE  (\E c \in Contexts : Leases!Acquire(s, c)) \/ Leases!AcquireNothing(s)
    <3>1. /\ pc[s] = "unlock" /\ p_ctx[s] \in Pointer
          /\ p_ctx' = p_ctx /\ pc' = [pc EXCEPT ![s] = "construct"]
      BY <2>1 DEF UnlockCreate
    <3>2. [t \in Scopes |-> lease(t)]' = [[t \in Scopes |-> lease(t)] EXCEPT ![s] = p_ctx[s]]
      BY <3>1
    <3>3. CASE p_ctx[s] = Null
      BY <3>1, <3>2, <3>3 DEF Leases!AcquireNothing
    <3>4. CASE p_ctx[s] \in Contexts
      <4>1. \A t \in Scopes : lease(t) # p_ctx[s]
        BY <3>1, <3>4
      <4> QED
        BY <3>1, <3>2, <3>4, <4>1 DEF Leases!Acquire
    <3> QED
      BY <3>1, <3>3, <3>4
  <2>2. ASSUME NEW s \in Scopes, LockDestroy(s) PROVE Leases!Release(s)
    BY <2>2 DEF LockDestroy, Leases!Release
  <2>3. ASSUME NEW s \in Scopes,
               LockCreate(s) \/ TestFree(s) \/ NewContext(s) \/ NewFails(s) \/ Register(s)
                  \/ RegisterThrows(s) \/ TakeBack(s) \/ PopBack(s) \/ Construct(s)
                  \/ PushFree(s) \/ PushFreeThrows(s) \/ UnlockDestroy(s)
        PROVE  UNCHANGED [t \in Scopes |-> lease(t)]
    BY <2>3 DEF LockCreate, TestFree, NewContext, NewFails, Register, RegisterThrows, TakeBack,
       PopBack, Construct, PushFree, PushFreeThrows, UnlockDestroy
  <2>4. CASE Ended \/ UNCHANGED vars
    BY <2>4 DEF Ended, vars
  <2> QED
    BY <2>1, <2>2, <2>3, <2>4 DEF Next, Step, Leases!Next
<1> QED
  BY PoolInit, PoolStep, <1>1, <1>2, PTL DEF Spec, Leases!Spec, ImplementsLeases
=============================================================================

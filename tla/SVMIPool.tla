------------------------------ MODULE SVMIPool ------------------------------
(***************************************************************************)
(* The pool of contexts of one SVMI: ctx_create and ctx_destroy under      *)
(* m_mutex, called by the constructors and destructors of scopes           *)
(* (SVMI_context_scope), each scope on a thread of its own.  A thread that *)
(* nests scopes does one thing at a time: its behaviours are among these.  *)
(*                                                                         *)
(* The statements between lock and unlock are separate steps, so that it   *)
(* is the lock that keeps them together and not the model.                 *)
(***************************************************************************)
EXTENDS Naturals, Sequences

CONSTANTS Scopes,    \* SVMI_context_scope objects
          Contexts,  \* SVMI_context objects new can give
          Null,      \* nullptr
          Nobody,    \* no thread holds the mutex; no pointer in the scope
          MayFail    \* whether memory can run out: new (std::nothrow) returns
                     \* nullptr, the push_back of a full vector throws

ASSUME PoolAssumption ==
    /\ Null \notin Contexts /\ Nobody \notin Contexts \cup Scopes \cup {Null}
    /\ MayFail \in BOOLEAN

VARIABLES free,     \* m_free_contexts
          busy,     \* m_busy_contexts
          mutex,    \* the scope whose thread holds m_mutex
          pc,       \* where each scope's thread is
          p_ctx,    \* p_ctx of each scope, and of the ctx_create it is in
          created,  \* the contexts new has given
          ndebug,   \* whether assert is compiled out; a build never changes it
          process   \* running; ended by assert or by an exception

vars == <<free, busy, mutex, pc, p_ctx, created, ndebug, process>>

Critical == {"test", "new", "register", "back", "pop_back", "unlock", "push_back", "release"}
Places   == Critical \cup {"outside", "construct", "using"}
Pointer  == Contexts \cup {Null}

At(s, place) == pc[s] = place /\ process = "running"
Goto(s, place) == pc' = [pc EXCEPT ![s] = place]

\* std::lock_guard: its constructor, and its destructor when the function returns.
Acquire(s) == mutex = Nobody /\ mutex' = s
Keep(s)    == UNCHANGED mutex       \* variant: an early return that unlocks nothing
Drop(s)    == mutex' = Nobody

-----------------------------------------------------------------------------
\* ctx_create
LockCreate(s) ==
    /\ At(s, "outside") /\ Acquire(s) /\ Goto(s, "test")
    /\ UNCHANGED <<free, busy, p_ctx, created, ndebug, process>>
TestNothing(s) ==  \* variant: the free list is never looked at
    /\ At(s, "test") /\ Goto(s, "new")
    /\ UNCHANGED <<free, busy, mutex, p_ctx, created, ndebug, process>>
TestFree(s) ==
    /\ At(s, "test") /\ Goto(s, IF free = <<>> THEN "new" ELSE "back")
    /\ UNCHANGED <<free, busy, mutex, p_ctx, created, ndebug, process>>
NewContext(s) ==
    /\ At(s, "new")
    /\ \E c \in Contexts \ created :
           p_ctx' = [p_ctx EXCEPT ![s] = c] /\ created' = created \cup {c}
    /\ Goto(s, "register")
    /\ UNCHANGED <<free, busy, mutex, ndebug, process>>
NewUnchecked(s) ==  \* variant: the result of new is registered unseen
    /\ At(s, "new") /\ MayFail
    /\ p_ctx' = [p_ctx EXCEPT ![s] = Null] /\ Goto(s, "register")
    /\ UNCHANGED <<free, busy, mutex, created, ndebug, process>>
NewFails(s) ==
    /\ At(s, "new") /\ MayFail
    /\ p_ctx' = [p_ctx EXCEPT ![s] = Null]
    /\ Goto(s, "unlock")
    /\ UNCHANGED <<free, busy, mutex, created, ndebug, process>>
Register(s) ==
    /\ At(s, "register")
    /\ busy' = Append(busy, p_ctx[s])
    /\ Goto(s, "unlock")
    /\ UNCHANGED <<free, mutex, p_ctx, created, ndebug, process>>
\* push_back throws bad_alloc: the new context is in no list and in no scope.  The
\* lock_guard unlocks on the way to a host that catches, and a scope that was not
\* constructed is not destroyed; a host that does not catch ends.
RegisterThrows(s) ==
    /\ At(s, "register") /\ MayFail
    /\ \/ Goto(s, "release") /\ p_ctx' = [p_ctx EXCEPT ![s] = Nobody] /\ UNCHANGED process
       \/ process' = "ended" /\ UNCHANGED <<pc, p_ctx>>
    /\ UNCHANGED <<free, busy, mutex, created, ndebug>>
TakeBack(s) ==
    /\ At(s, "back")
    /\ p_ctx' = [p_ctx EXCEPT ![s] = free[Len(free)]]
    /\ Goto(s, "pop_back")
    /\ UNCHANGED <<free, busy, mutex, created, ndebug, process>>
KeepBack(s) ==  \* variant: the list keeps the context it gave
    /\ At(s, "pop_back") /\ Goto(s, "unlock")
    /\ UNCHANGED <<free, busy, mutex, p_ctx, created, ndebug, process>>
PopBack(s) ==
    /\ At(s, "pop_back")
    /\ free' = SubSeq(free, 1, Len(free) - 1)
    /\ Goto(s, "unlock")
    /\ UNCHANGED <<busy, mutex, p_ctx, created, ndebug, process>>
UnlockCreate(s) ==
    /\ At(s, "unlock") /\ Drop(s) /\ Goto(s, "construct")
    /\ UNCHANGED <<free, busy, p_ctx, created, ndebug, process>>

\* The constructor of the scope: assert(p_ctx && "context creating failed").
Construct(s) ==
    /\ At(s, "construct")
    /\ IF p_ctx[s] = Null /\ ~ndebug
       THEN process' = "ended" /\ UNCHANGED pc
       ELSE Goto(s, "using") /\ UNCHANGED process
    /\ UNCHANGED <<free, busy, mutex, p_ctx, created, ndebug>>

\* ctx_destroy, from the destructor of the scope: it tests no pointer.
LockDestroy(s) ==
    /\ At(s, "using") /\ Acquire(s) /\ Goto(s, "push_back")
    /\ UNCHANGED <<free, busy, p_ctx, created, ndebug, process>>
DropContext(s) ==  \* variant: the context is not put back
    /\ At(s, "push_back") /\ p_ctx' = [p_ctx EXCEPT ![s] = Nobody] /\ Goto(s, "release")
    /\ UNCHANGED <<free, busy, mutex, created, ndebug, process>>
PushFree(s) ==
    /\ At(s, "push_back")
    /\ free' = Append(free, p_ctx[s])
    /\ p_ctx' = [p_ctx EXCEPT ![s] = Nobody]
    /\ Goto(s, "release")
    /\ UNCHANGED <<busy, mutex, created, ndebug, process>>
\* An exception that leaves a destructor ends the process.
PushFreeThrows(s) ==
    /\ At(s, "push_back") /\ MayFail /\ process' = "ended"
    /\ UNCHANGED <<free, busy, mutex, pc, p_ctx, created, ndebug>>
\* The destructor of the lock_guard; the scope, and with it p_ctx, is gone.
UnlockDestroy(s) ==
    /\ At(s, "release") /\ Drop(s) /\ Goto(s, "outside")
    /\ UNCHANGED <<free, busy, p_ctx, created, ndebug, process>>

Step(s) ==
    \/ LockCreate(s) \/ TestFree(s) \/ NewContext(s) \/ NewFails(s) \/ Register(s)
    \/ RegisterThrows(s) \/ TakeBack(s) \/ PopBack(s) \/ UnlockCreate(s) \/ Construct(s)
    \/ LockDestroy(s) \/ PushFree(s) \/ PushFreeThrows(s) \/ UnlockDestroy(s)
Ended == process = "ended" /\ UNCHANGED vars

Init ==
    /\ free = <<>> /\ busy = <<>> /\ mutex = Nobody
    /\ pc = [s \in Scopes |-> "outside"] /\ p_ctx = [s \in Scopes |-> Nobody]
    /\ created = {} /\ ndebug \in BOOLEAN /\ process = "running"
Next == (\E s \in Scopes : Step(s)) \/ Ended
Spec == Init /\ [][Next]_vars

\* A thread that holds the mutex goes on; std::mutex promises no order to those
\* that wait, and nothing makes a host open a scope.
FairSpec == Spec /\ \A s \in Scopes : WF_vars(pc[s] \in Critical /\ Step(s))

-----------------------------------------------------------------------------
\* A nullptr gets into the free list only where assert is compiled out.
Pooled == IF ndebug THEN Pointer ELSE Contexts
TypeOK ==
    /\ free \in Seq(Pooled) /\ busy \in Seq(Contexts)
    /\ mutex \in Scopes \cup {Nobody}
    /\ pc \in [Scopes -> Places] /\ p_ctx \in [Scopes -> Pointer \cup {Nobody}]
    /\ created \in SUBSET Contexts
    /\ ndebug \in BOOLEAN /\ process \in {"running", "ended"}

\* No two scopes hold one context, on any number of threads, from the moment
\* ctx_create has the pointer until ctx_destroy has put it back.
ExclusiveLease ==
    \A s, t \in Scopes : s # t /\ p_ctx[s] \in Contexts => p_ctx[t] # p_ctx[s]

\* Every context that was registered is with a scope or in the free list, so it
\* can be used again: the only context ever lost is one whose registration threw.
\* And a new one is created only while every registered one is with a scope: there
\* are never more of them than scopes were alive at once.
Held       == {p_ctx[s] : s \in Scopes}
InFree     == {free[i] : i \in 1 .. Len(free)}
Registered == {busy[i] : i \in 1 .. Len(busy)}
NoneLost   == Registered \subseteq InFree \cup Held
CreatedOnlyWhenAllHeld == [][created' # created => Registered \subseteq Held]_vars

\* The pool implements exclusive leases.
Leases == INSTANCE ContextLease
    WITH lease <- [s \in Scopes |-> IF pc[s] \in {"construct", "using"} THEN p_ctx[s]
                                                                         ELSE Nobody]
ImplementsLeases == Leases!Spec

\* Whoever locks the pool unlocks it, on every path through both functions, the
\* exceptions included, unless the process ends.
LockReleased == \A s \in Scopes : mutex = s ~> mutex # s \/ process = "ended"
=============================================================================

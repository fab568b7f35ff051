---------------------------- MODULE ContextLease ----------------------------
(***************************************************************************)
(* What the pool of contexts promises its users: a context is with one     *)
(* scope at a time, from the end of the scope's constructor to its         *)
(* destructor.                                                             *)
(***************************************************************************)
CONSTANTS Scopes, Contexts, Nobody, Null

VARIABLE lease   \* the context of each scope; Nobody's before and after

Init == lease = [s \in Scopes |-> Nobody]
Acquire(s, c) ==
    /\ lease[s] = Nobody
    /\ \A t \in Scopes : lease[t] # c
    /\ lease' = [lease EXCEPT ![s] = c]
\* There was no memory for a context, now or when the free list got its Null.
AcquireNothing(s) == lease[s] = Nobody /\ lease' = [lease EXCEPT ![s] = Null]
Release(s) == lease[s] # Nobody /\ lease' = [lease EXCEPT ![s] = Nobody]

Next == \E s \in Scopes :
    (\E c \in Contexts : Acquire(s, c)) \/ AcquireNothing(s) \/ Release(s)
Spec == Init /\ [][Next]_lease
=============================================================================

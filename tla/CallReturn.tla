----------------------------- MODULE CallReturn -----------------------------
(***************************************************************************)
(* What CALL and RET promise a program: calls nest, and each returns to    *)
(* the instruction behind its CALL with the stack pointer the CALL had.    *)
(* Everything between is free to move and to push and pop.                 *)
(***************************************************************************)
EXTENDS Integers, Sequences

CONSTANTS Sites,     \* addresses of instructions
          CallSize,  \* bytes from a CALL to the instruction behind it
          Pointers   \* values of the stack pointer

VARIABLES at,     \* the address of the instruction to run next
          top,    \* the stack pointer
          calls   \* the pending calls, the innermost last

Init == at \in Sites /\ top = 0 /\ calls = <<>>

\* An instruction that is not a call, or the host between two runs.
Move == at' \in Sites /\ top' \in Pointers /\ UNCHANGED calls

CallFrom(site) ==
    /\ at = site
    /\ calls' = Append(calls, [site |-> site, top |-> top])
    /\ at' \in Sites /\ UNCHANGED top
Return ==
    /\ calls # <<>>
    /\ at'    = calls[Len(calls)].site + CallSize
    /\ top'   = calls[Len(calls)].top
    /\ calls' = SubSeq(calls, 1, Len(calls) - 1)

Next == Move \/ (\E s \in Sites : CallFrom(s)) \/ Return
Spec == Init /\ [][Next]_<<at, top, calls>>
=============================================================================

------------------------------ MODULE Contexts ------------------------------
(***************************************************************************)
(* What the exceptions of a processor promise, without stack pointers or   *)
(* memory: a context runs, an exception suspends it, and RTE resumes the   *)
(* one suspended last, exactly as it was.  The stack pointer of user mode  *)
(* belongs to user mode: no exception and no return changes it, and only   *)
(* the supervisor may set it for it.                                       *)
(***************************************************************************)
EXTENDS Naturals, Sequences

CONSTANTS
    Pcs, Handler, ResetPc,      \* addresses of code
    Status,                     \* [s : supervisor, t : trace, mask : level]
    UserPointers

VARIABLES
    current,        \* [pc, sr] of what runs
    suspended,      \* contexts, the last suspended first
    userSp

vars == <<current, suspended, userSp>>

Initial == [pc |-> ResetPc, sr |-> [s |-> TRUE, t |-> FALSE, mask |-> 7]]

Init ==
    /\ current = Initial
    /\ suspended = <<>>
    /\ userSp \in UserPointers

\* What one instruction may make of context c: user mode keeps its status.
After(c) == [pc : Pcs, sr : IF c.sr.s THEN Status ELSE {c.sr}]

\* An exception of context c: supervisor, no trace, and the mask as it was or
\* raised to the level of an interrupt.
Enter(c) ==
    /\ current'.pc = Handler
    /\ current'.sr.s
    /\ ~current'.sr.t
    /\ current'.sr.mask >= c.sr.mask

Proceed ==
    /\ current' \in After(current)
    /\ userSp' \in UserPointers
    /\ UNCHANGED suspended

\* An interrupt suspends what runs; a trap, a fault or a trace exception what
\* the instruction made of it.
Suspend ==
    /\ suspended' # <<>>
    /\ Tail(suspended') = suspended
    /\ LET c == Head(suspended') IN
        /\ c \in {current} \cup After(current)
        /\ Enter(c)
        /\ userSp' = userSp \/ (c # current /\ userSp' \in UserPointers)

Resume ==
    /\ current.sr.s
    /\ suspended # <<>>
    /\ current' = Head(suspended)
    /\ suspended' = Tail(suspended)
    /\ UNCHANGED userSp

\* A traced RTE: the context is resumed and suspended again.
ResumeTraced ==
    /\ current.sr.s
    /\ current.sr.t
    /\ suspended # <<>>
    /\ Enter(Head(suspended))
    /\ UNCHANGED <<suspended, userSp>>

Reset ==
    /\ current' = Initial
    /\ suspended' = <<>>
    /\ userSp' \in UserPointers

Next == Proceed \/ Suspend \/ Resume \/ ResumeTraced \/ Reset

Spec == Init /\ [][Next]_vars
=============================================================================

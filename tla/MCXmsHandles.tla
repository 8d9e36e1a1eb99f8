----------------------------- MODULE MCXmsHandles -----------------------------
(* Small instances of XmsHandles for TLC. *)
EXTENDS XmsHandles

\* Memory maps: two blocks that touch, and two with a hole between them of which
\* the first is too small for some requests.
Touching   == <<[base |-> 1, size |-> 1], [base |-> 2, size |-> 3]>>
TwoRegions == <<[base |-> 1, size |-> 1], [base |-> 3, size |-> 3]>>

\* The functions the two clients call.
AllOps     == Ops
NoOps      == {}
LockOps    == {"lock", "unlock"}
MoveOps    == {"alloc", "realloc"}
FixedOps   == {"alloc", "free", "lock", "unlock"}
===============================================================================

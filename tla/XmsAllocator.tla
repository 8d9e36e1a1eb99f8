----------------------------- MODULE XmsAllocator -----------------------------
(***************************************************************************)
(* What the XMS functions of HimemSX promise a client, without the table   *)
(* the driver keeps: a handle a client holds stands for a run of extended  *)
(* memory that is managed memory, belongs to no other handle, stays where  *)
(* it is while it is locked, and changes only by a call that names it.     *)
(***************************************************************************)
EXTENDS Integers

CONSTANTS Handles,   \* the handles there are
          Memory     \* the kB of extended memory under management

VARIABLE held        \* what each handle stands for, NotHeld for none

NotHeld == [base |-> 0, size |-> 0, locks |-> -1]

IsHeld(h) == held[h].locks >= 0

Run(e) == e.base .. e.base + e.size - 1

\* The memory of h belongs to h alone.
Sound(f, h) ==
    /\ Run(f[h]) \subseteq Memory
    /\ \A k \in Handles \ {h} : Run(f[h]) \cap Run(f[k]) = {}

OnlyChanges(h) == \A k \in Handles \ {h} : held'[k] = held[k]

Init == held = [h \in Handles |-> NotHeld]

Grant(h) ==
    /\ ~IsHeld(h)
    /\ held'[h].locks = 0
    /\ Sound(held', h)

Release(h) ==
    /\ held[h].locks = 0
    /\ held'[h] = NotHeld

\* A reallocation may resize a block and may move it, never a locked one.
Reallocate(h) ==
    /\ held[h].locks = 0
    /\ held'[h].locks = 0
    /\ Sound(held', h)

CountLock(h) ==
    /\ IsHeld(h)
    /\ held'[h].base = held[h].base /\ held'[h].size = held[h].size
    /\ \/ held'[h].locks = held[h].locks + 1
       \/ held[h].locks > 0 /\ held'[h].locks = held[h].locks - 1

Next == \E h \in Handles :
           /\ OnlyChanges(h)
           /\ Grant(h) \/ Release(h) \/ Reallocate(h) \/ CountLock(h)

Spec == Init /\ [][Next]_held
===============================================================================

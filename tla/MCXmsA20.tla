-------------------------------- MODULE MCXmsA20 --------------------------------
(* Small instances of XmsA20 for TLC. *)
EXTENDS XmsA20

AllOps  == Ops

\* What preserves the state of the line, as a disk cache in an interrupt would use.
KeepOps == {"query", "move", "int15"}
===============================================================================

------------------------------ MODULE MCXmsMove ------------------------------
(***************************************************************************)
(* A small instance of XmsMove: 2 bytes are a kB, 8 bytes are 4 GB, the    *)
(* BIOS is at 6-7.  Handle 3 reaches across a multiple of 4 GB, at 24, and *)
(* is free; growing handle 2 into it takes two chunks of MaxChunk kB.      *)
(***************************************************************************)
EXTENDS XmsMove, TLC

MemoryBlocks == (1 :> [base |-> 2, size |-> 1]) @@ (2 :> [base |-> 4, size |-> 4])
                @@ (3 :> [base |-> 8, size |-> 5])
ClientHandles == {1, 2}
SomeOffsets   == {0, 1, 4}
SomeLengths   == {0, 3, 4, 6, 8}
===============================================================================

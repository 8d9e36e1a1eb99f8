------------------------------- MODULE SbDma --------------------------------
(***************************************************************************)
(* SBEMU: a channel of the virtual DMA controller (vdma.c), as operators   *)
(* from one state of it to the next.  A channel is a record of the bit     *)
(* VDMA_Modes has for auto-initialisation, VDMA_Counter, VDMA_CurCounter,  *)
(* VDMA_Index, the counter register the client reads, the flip-flop of its *)
(* controller, VDMA_InIO and VDMA_DelayUpdate.  Counters and indices of a  *)
(* 16 bit channel count words; size is the bytes of one.  The address and  *)
(* page registers follow the index and are left out.                       *)
(***************************************************************************)
EXTENDS Integers

CONSTANT Base           \* values of a byte (256 in the program)

ASSUME BaseAssumption == Base \in Nat \ {0, 1}

Word == Base * Base     \* values of a 16 bit register

DmaInit == [auto |-> FALSE, counter |-> 0, cur |-> 0, index |-> 0,
            reg |-> Word - 1, odd |-> FALSE, inIO |-> FALSE, delay |-> FALSE]

\* What the counter register shows for the current counter.
Shown(c) == (c.cur - 1) % Word

WriteFlipFlop(c) == [c EXCEPT !.odd = FALSE]
WriteMode(c, auto) == [c EXCEPT !.auto = auto]

\* VDMA_Write to an address or counter register, the part both share.
WriteByte(c) ==
    [c EXCEPT !.odd = ~@, !.inIO = ~c.odd, !.delay = @ /\ ~c.odd]
WriteAddr(c) == [WriteByte(c) EXCEPT !.index = 0]
WriteCounter(c, byte) ==
    LET reg == IF c.odd THEN (c.reg % Base) + byte * Base
                        ELSE (c.reg - (c.reg % Base)) + byte
    IN  [WriteByte(c) EXCEPT !.reg = reg, !.cur = reg + 1, !.counter = reg + 1]

\* VDMA_Read of a counter register: the byte it returns of the value it took,
\* and what it changes.  The second byte ends the pair: the register catches up
\* with what it has missed, and is released.
ByteOf(c, value) == IF c.odd THEN value \div Base ELSE value % Base
CatchUp(c) == [c EXCEPT !.odd = FALSE, !.reg = IF c.delay THEN Shown(c) ELSE @]
Release(c) == [c EXCEPT !.inIO = FALSE, !.delay = FALSE]
ReadCounter(c) ==
    IF c.odd THEN Release(CatchUp(c)) ELSE [c EXCEPT !.odd = TRUE, !.inIO = TRUE]

\* VDMA_GetCounter and VDMA_GetIndex, in bytes.
GetCounter(c, size) == c.cur * size
GetIndex(c, size) == c.index * size

\* VDMA_SetIndexCounter: at the end of the buffer an auto-initialised channel
\* starts again, another one goes on behind it with the largest counter.
Advance(c, size, index, counter) ==
    LET ended == counter <= 0
        cur == IF ~ended THEN counter \div size
               ELSE IF c.auto THEN c.counter ELSE Word
    IN  [c EXCEPT !.cur = cur,
                  !.index = IF ended /\ c.auto THEN 0 ELSE index \div size]

\* Mutant: the register does not wait for the second byte.
SetIndexCounterAtOnce(c, size, index, counter) ==
    LET next == Advance(c, size, index, counter) IN [next EXCEPT !.reg = Shown(next)]

\* The register shows it at once, or after the bytes that are being moved.
SetIndexCounter(c, size, index, counter) ==
    LET next == Advance(c, size, index, counter)
    IN  IF c.inIO THEN [next EXCEPT !.delay = TRUE]
                  ELSE [next EXCEPT !.reg = Shown(next)]
=============================================================================

-------------------------------- MODULE XmsA20 --------------------------------
(***************************************************************************)
(* Address line A20 and the high memory area in HimemSX: XMS functions     *)
(* 01h-07h, the A20 side of the block move 0Bh/CBh, and the driver's hook  *)
(* of INT 15h.                                                             *)
(*                                                                         *)
(* As in XmsHandles, a call of the main program can be suspended by an     *)
(* interrupt whose service routine calls the driver; here interrupts are   *)
(* on everywhere but inside the copy of one chunk.  One step reads or      *)
(* writes one of the variables the driver shares.                          *)
(***************************************************************************)
EXTENDS Naturals

CONSTANTS MainOps,     \* the functions the main program calls
          IsrOps,      \* the functions interrupt handlers call (none: {})
          MaxChunks,   \* bound: chunks of BLOCKSIZE in one block move
          MaxLocks     \* bound: local enables in force

Ctxs == {"main", "isr"}
Ops  == {"hma", "global", "local", "query", "move", "int15"}

ASSUME A20Assumption ==
    /\ MainOps \subseteq Ops /\ IsrOps \subseteq Ops
    /\ MaxChunks \in Nat /\ MaxLocks \in Nat \ {0}

VARIABLES a20,     \* the line is enabled
          locks,   \* a20_locks
          hma,     \* hma_used
          holds,   \* history: local enables each client has not given back
          has,     \* history: the clients that were assigned the HMA
          pc,      \* where each context is in the driver
          saw,     \* what the last test or comparison of each context found
          left,    \* chunks its block move has still to copy
          ret,     \* what its last call returned
          cur      \* the context on the processor

vars == <<a20, locks, hma, holds, has, pc, saw, left, ret, cur>>

Labels == {"idle", "hma_set", "hma_clear", "ge_on", "ge_test", "gd_off", "gd_test",
           "le_inc", "ld_dec", "gd_check", "mv_on", "mv_check", "mv_copy", "mv_off",
           "i15_bios", "i15_restore"}

Init ==
    /\ a20 \in BOOLEAN /\ locks = 0 /\ hma = FALSE
    /\ holds = [c \in Ctxs |-> 0] /\ has = {}
    /\ pc = [c \in Ctxs |-> "idle"] /\ saw = [c \in Ctxs |-> FALSE]
    /\ left = [c \in Ctxs |-> 0] /\ ret = [c \in Ctxs |-> "ok"]
    /\ cur = "main"

OpsOf(c) == IF c = "main" THEN MainOps ELSE IsrOps

At(c, l)    == cur = c /\ pc[c] = l
Call(c, op) == At(c, "idle") /\ op \in OpsOf(c)

Goto(c, l) == pc' = [pc EXCEPT ![c] = l] /\ UNCHANGED <<ret, cur>>

Return(c, ok) == /\ pc' = [pc EXCEPT ![c] = "idle"]
                 /\ ret' = [ret EXCEPT ![c] = IF ok THEN "ok" ELSE "fail"]
                 /\ UNCHANGED cur

\* enable_a20 and disable_a20 with a routine for this machine patched in at load
\* time (with the dummy that is the default the line is always on).
EnableA20  == a20' = TRUE
DisableA20 == a20' = FALSE

\* ---- interrupts -----------------------------------------------------------
Interrupt ==
    /\ cur = "main" /\ IsrOps # {}
    /\ cur' = "isr"
    /\ UNCHANGED <<a20, locks, hma, holds, has, pc, saw, left, ret>>

\* An interrupt routine gives back the local enables it made.
Iret ==
    /\ At("isr", "idle") /\ holds["isr"] = 0
    /\ cur' = "main"
    /\ UNCHANGED <<a20, locks, hma, holds, has, pc, saw, left, ret>>

\* ---- 01h, 02h: the high memory area ----------------------------------------
\* small: the request is for less than /HMAMIN.
HmaRequest(c, small) ==
    /\ Call(c, "hma")
    /\ IF hma \/ small THEN Return(c, FALSE) ELSE Goto(c, "hma_set")
    /\ UNCHANGED <<a20, locks, hma, holds, has, saw, left>>

HmaAssign(c) ==
    /\ At(c, "hma_set")
    /\ hma' = TRUE /\ has' = has \cup {c}
    /\ Return(c, TRUE) /\ UNCHANGED <<a20, locks, holds, saw, left>>

\* Only the client that was assigned the HMA releases it.
HmaRelease(c) ==
    /\ Call(c, "hma") /\ (has = {} \/ c \in has)
    /\ IF hma THEN Goto(c, "hma_clear") ELSE Return(c, FALSE)
    /\ UNCHANGED <<a20, locks, hma, holds, has, saw, left>>

HmaClear(c) ==
    /\ At(c, "hma_clear")
    /\ hma' = FALSE /\ has' = has \ {c}
    /\ Return(c, TRUE) /\ UNCHANGED <<a20, locks, holds, saw, left>>

\* ---- 03h, 04h: global enable and disable ------------------------------------
\* Also the second half of a local enable.
GlobalEnable(c) ==
    /\ Call(c, "global") \/ At(c, "ge_on")
    /\ EnableA20 /\ Goto(c, "ge_test")
    /\ UNCHANGED <<locks, hma, holds, has, saw, left>>

EnableTest(c) ==
    /\ At(c, "ge_test")
    /\ Return(c, a20)
    /\ UNCHANGED <<a20, locks, hma, holds, has, saw, left>>

\* Mutant: the line is disabled without a look at the locks.
DisableAlways(c) ==
    /\ Call(c, "global") \/ At(c, "gd_check")
    /\ Goto(c, "gd_off")
    /\ UNCHANGED <<a20, locks, hma, holds, has, saw, left>>

\* Also the second half of a local disable.
GlobalDisable(c) ==
    /\ Call(c, "global") \/ At(c, "gd_check")
    /\ IF locks # 0 THEN Return(c, FALSE) ELSE Goto(c, "gd_off")
    /\ UNCHANGED <<a20, locks, hma, holds, has, saw, left>>

DisableLine(c) ==
    /\ At(c, "gd_off")
    /\ DisableA20 /\ Goto(c, "gd_test")
    /\ UNCHANGED <<locks, hma, holds, has, saw, left>>

DisableTest(c) ==
    /\ At(c, "gd_test")
    /\ Return(c, ~a20)
    /\ UNCHANGED <<a20, locks, hma, holds, has, saw, left>>

\* ---- 05h, 06h: local enable and disable --------------------------------------
\* cmp a20_locks,1 sets the carry that jc tests after the increment.
LocalEnable(c) ==
    /\ Call(c, "local") /\ locks < MaxLocks
    /\ saw' = [saw EXCEPT ![c] = locks < 1]
    /\ Goto(c, "le_inc") /\ UNCHANGED <<a20, locks, hma, holds, has, left>>

LocalInc(c) ==
    /\ At(c, "le_inc")
    /\ locks' = locks + 1
    /\ holds' = [holds EXCEPT ![c] = @ + 1]
    /\ IF saw[c] THEN Goto(c, "ge_on") ELSE Return(c, TRUE)
    /\ UNCHANGED <<a20, hma, has, saw, left>>

\* Mutant: the counter is decremented whatever it is.
LocalDisableAlways(c) ==
    /\ Call(c, "local") /\ (holds[c] > 0 \/ locks = 0)
    /\ Goto(c, "ld_dec")
    /\ UNCHANGED <<a20, locks, hma, holds, has, saw, left>>

\* Clients give back only what they enabled.
LocalDisable(c) ==
    /\ Call(c, "local") /\ (holds[c] > 0 \/ locks = 0)
    /\ IF locks = 0 THEN Return(c, FALSE) ELSE Goto(c, "ld_dec")
    /\ UNCHANGED <<a20, locks, hma, holds, has, saw, left>>

LocalDec(c) ==
    /\ At(c, "ld_dec")
    /\ locks' = locks - 1
    /\ holds' = [holds EXCEPT ![c] = @ - 1]
    /\ IF locks = 1 THEN Goto(c, "gd_check") ELSE Return(c, FALSE)
    /\ UNCHANGED <<a20, hma, has, saw, left>>

\* ---- 07h: query ---------------------------------------------------------------
QueryA20(c) ==
    /\ Call(c, "query") /\ Return(c, a20)
    /\ UNCHANGED <<a20, locks, hma, holds, has, saw, left>>

\* ---- 0Bh, CBh: block move --------------------------------------------------------
\* Where the line was off, disable_a20 is pushed as the address to return to.
MoveTest(c) ==
    /\ Call(c, "move")
    /\ saw' = [saw EXCEPT ![c] = a20]
    /\ Goto(c, IF a20 THEN "mv_check" ELSE "mv_on")
    /\ UNCHANGED <<a20, locks, hma, holds, has, left>>

MoveOn(c) ==
    /\ At(c, "mv_on")
    /\ EnableA20 /\ Goto(c, "mv_check")
    /\ UNCHANGED <<locks, hma, holds, has, saw, left>>

\* Mutant: disable_a20 is on the way out whether the line was off or not.
MoveReturnOff(c, ok) ==
    /\ pc' = [pc EXCEPT ![c] = "mv_off"]
    /\ ret' = [ret EXCEPT ![c] = IF ok THEN "ok" ELSE "fail"] /\ UNCHANGED cur

MoveReturn(c, ok) ==
    IF saw[c] THEN Return(c, ok)
    ELSE /\ pc' = [pc EXCEPT ![c] = "mv_off"]
         /\ ret' = [ret EXCEPT ![c] = IF ok THEN "ok" ELSE "fail"] /\ UNCHANGED cur

\* Length, handles, offsets and overlap are checked here; see XmsMove.
MoveCheck(c, n, valid) ==
    /\ At(c, "mv_check")
    /\ left' = [left EXCEPT ![c] = IF valid THEN n ELSE 0]
    /\ IF valid /\ n > 0 THEN Goto(c, "mv_copy") ELSE MoveReturn(c, valid)
    /\ UNCHANGED <<a20, locks, hma, holds, has, saw>>

\* One chunk, interrupts off; between two chunks they are on.  In protected mode
\* a chunk may fail, and ends the move.
MoveChunk(c, ok) ==
    /\ At(c, "mv_copy")
    /\ left' = [left EXCEPT ![c] = IF ok THEN @ - 1 ELSE 0]
    /\ IF ok /\ left[c] > 1 THEN Goto(c, "mv_copy") ELSE MoveReturn(c, ok)
    /\ UNCHANGED <<a20, locks, hma, holds, has, saw>>

\* Mutant: the way out does not go through disable_a20.
MoveOffNothing(c) ==
    /\ At(c, "mv_off")
    /\ pc' = [pc EXCEPT ![c] = "idle"]
    /\ UNCHANGED <<a20, locks, hma, holds, has, saw, left, ret, cur>>

MoveOff(c) ==
    /\ At(c, "mv_off")
    /\ DisableA20
    /\ pc' = [pc EXCEPT ![c] = "idle"]
    /\ UNCHANGED <<locks, hma, holds, has, saw, left, ret, cur>>

\* ---- INT 15h, AH=87h -----------------------------------------------------------
Int15(c) ==
    /\ Call(c, "int15")
    /\ saw' = [saw EXCEPT ![c] = a20]
    /\ Goto(c, "i15_bios") /\ UNCHANGED <<a20, locks, hma, holds, has, left>>

\* The BIOS moves the block, and leaves the line as it likes.
BiosMove(c) ==
    /\ At(c, "i15_bios")
    /\ a20' \in BOOLEAN
    /\ Goto(c, "i15_restore") /\ UNCHANGED <<locks, hma, holds, has, saw, left>>

\* Mutant: what the BIOS left is what the caller gets.
Int15NoRestore(c) ==
    /\ At(c, "i15_restore")
    /\ Return(c, TRUE) /\ UNCHANGED <<a20, locks, hma, holds, has, saw, left>>

Int15Restore(c) ==
    /\ At(c, "i15_restore")
    /\ IF saw[c] THEN EnableA20 ELSE DisableA20
    /\ Return(c, TRUE) /\ UNCHANGED <<locks, hma, holds, has, saw, left>>

-----------------------------------------------------------------------------
Hma(c)    == \/ \E small \in BOOLEAN : HmaRequest(c, small)
             \/ HmaAssign(c) \/ HmaRelease(c) \/ HmaClear(c)
Global(c) == \/ GlobalEnable(c) \/ EnableTest(c)
             \/ GlobalDisable(c) \/ DisableLine(c) \/ DisableTest(c)
Local(c)  == LocalEnable(c) \/ LocalInc(c) \/ LocalDisable(c) \/ LocalDec(c)
Move(c)   == \/ MoveTest(c) \/ MoveOn(c) \/ MoveOff(c)
             \/ \E ok \in BOOLEAN : MoveChunk(c, ok)
             \/ \E n \in 0 .. MaxChunks, valid \in BOOLEAN : MoveCheck(c, n, valid)
Bios(c)   == Int15(c) \/ BiosMove(c) \/ Int15Restore(c)

Step(c) == Hma(c) \/ Global(c) \/ Local(c) \/ QueryA20(c) \/ Move(c) \/ Bios(c)

Next == Interrupt \/ Iret \/ \E c \in Ctxs : Step(c)

Spec == Init /\ [][Next]_vars

-----------------------------------------------------------------------------
TypeOK ==
    /\ a20 \in BOOLEAN /\ locks \in 0 .. MaxLocks + 2 /\ hma \in BOOLEAN
    /\ holds \in [Ctxs -> 0 .. MaxLocks + 2] /\ has \subseteq Ctxs
    /\ pc \in [Ctxs -> Labels] /\ saw \in [Ctxs -> BOOLEAN]
    /\ left \in [Ctxs -> 0 .. MaxChunks]
    /\ ret \in [Ctxs -> {"ok", "fail"}] /\ cur \in Ctxs

\* Routines that preserve the state of the line, as a disk cache's would; what others
\* can do to the main program is in the runs that are violated.
Preserving == IsrOps \subseteq {"query", "move", "int15"}

\* A client that enabled A20 locally finds it enabled whenever it runs, whatever
\* it and the interrupt routines call in between.
HolderHasA20 == \A c \in Ctxs : At(c, "idle") /\ holds[c] > 0 => a20

\* A block move and INT 15h, AH=87h leave the line as they found it ("this
\* externally preserves A20 state").
StateRestored ==
    [][\A c \in Ctxs :
         pc[c] \in {"mv_check", "mv_copy", "mv_off", "i15_restore"} /\ pc'[c] = "idle"
         => a20' = saw[c]]_vars

\* Every chunk is copied with the line enabled: with it off, odd megabytes are
\* read and written where the even ones are.
CopiedWithA20 == [][\A c \in Ctxs, ok \in BOOLEAN : MoveChunk(c, ok) => a20]_vars

\* "AX=1 if A20 is enabled": an enable that reports success left A20 enabled.
EnableIsTrue ==
    [][\A c \in Ctxs :
         pc[c] \in {"le_inc", "ge_test"} /\ pc'[c] = "idle" /\ ret'[c] = "ok" => a20']_vars
===============================================================================

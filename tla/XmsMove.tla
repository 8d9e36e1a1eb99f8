------------------------------- MODULE XmsMove -------------------------------
(***************************************************************************)
(* What the block move of HimemSX (XMS 0Bh and CBh) does to memory, and    *)
(* the copying of a reallocation that grows by moving.                     *)
(*                                                                         *)
(* Memory is described by where its contents came from: origin[a] is the   *)
(* address at which, when the call began, the byte that is now at a was.   *)
(* Addresses are linear byte addresses; the code keeps bits 0-31 in ESI    *)
(* and EDI and bits 32-39 in BH and BL.                                    *)
(*                                                                         *)
(* A step copies what is copied with interrupts off, a chunk of BLOCKSIZE. *)
(* Nothing the move works with is shared with interrupt routines but A20   *)
(* (see XmsA20) and the handles (see XmsHandles), so one context is enough.*)
(***************************************************************************)
EXTENDS Integers

CONSTANTS KB,          \* bytes per kB
          FourGB,      \* 2^32
          ConvTop,     \* 10FFF0h, the end of what seg:ofs can address
          MemTop,      \* end of memory
          BlockSize,   \* BLOCKSIZE
          MaxChunk,    \* MAXCHUNK, in kB
          Blocks,      \* handle -> [base, size] in kB, before the first call
          InUse,       \* the handles the client was given; the others are free
          Offsets,     \* bound: offsets passed to the move
          Lengths      \* bound: lengths passed to the move

Handles == DOMAIN Blocks

ASSUME MoveAssumption ==
    /\ {KB, FourGB, ConvTop, MemTop, BlockSize, MaxChunk} \subseteq Nat \ {0}
    /\ 0 \notin Handles
    /\ Blocks \in [Handles -> [base : Nat, size : Nat]]
    /\ InUse \subseteq Handles
    /\ Offsets \subseteq Nat /\ Lengths \subseteq Nat

\* Blocks end below the end of memory and do not overlap (see XmsHandles).
ASSUME MemoryAssumption ==
    /\ ConvTop <= MemTop
    /\ \A h \in Handles : (Blocks[h].base + Blocks[h].size) * KB <= MemTop
    /\ \A h, k \in Handles : h # k =>
          \/ (Blocks[h].base + Blocks[h].size) * KB <= Blocks[k].base * KB
          \/ (Blocks[k].base + Blocks[k].size) * KB <= Blocks[h].base * KB

\* The last bytes below 4 GB are the BIOS's, so no block reaches across.
ASSUME BorderAssumption ==
    /\ ConvTop <= FourGB
    /\ \A h \in Handles : \/ (Blocks[h].base + Blocks[h].size) * KB <= FourGB
                          \/ FourGB <= Blocks[h].base * KB

\* A chunk of a reallocation has a length of 32 bits and is even.
ASSUME ChunkAssumption == MaxChunk * KB < FourGB /\ KB % 2 = 0

VARIABLES table,    \* handle -> [base, size]
          used,     \* handles flagged XMSF_USED
          origin,   \* where what is in memory came from
          pc,       \* where the driver is
          args,     \* what it was called with
          move,     \* registers of xms_move_emb: addresses, bytes left, copy routine
          grow,     \* registers of xms_ext_realloc_emb: offset, kB left, chunk
          missed,   \* history: the BIOS failed to move a chunk in this call
          ret       \* what the last call returned

vars == <<table, used, origin, pc, args, move, grow, missed, ret>>

Addrs     == 0 .. MemTop - 1
Untouched == [a \in Addrs |-> a]
Lesser(m, n) == IF m <= n THEN m ELSE n

NoArgs == [op |-> "none", sh |-> 0, so |-> 0, dh |-> 0, do |-> 0, len |-> 0]
NoMove == [s |-> 0, d |-> 0, left |-> 0, by |-> "rmcopy"]
NoGrow == [off |-> 0, left |-> 0, len |-> 0]

Init ==
    /\ table = Blocks /\ used = InUse /\ origin = Untouched
    /\ pc = "idle" /\ args = NoArgs /\ move = NoMove /\ grow = NoGrow
    /\ missed = FALSE /\ ret = "ok"

\* ---- xms_get_move_addr ------------------------------------------------------
\* Handle 0 stands for seg:ofs; o is then the linear address.
Location(h, o) == IF h = 0 THEN o ELSE table[h].base * KB + o

\* Mutant: rounded down.
FitsRoundedDown(h, o, n) == IF h = 0 THEN o + n <= ConvTop
                                     ELSE (o + n) \div KB <= table[h].size

\* Offset plus length is rounded up to kB before it is compared.
FitsIn(h, o, n) == IF h = 0 THEN o + n <= ConvTop
                            ELSE (o + n + KB - 1) \div KB <= table[h].size

Invalid(h) == h # 0 /\ h \notin used

\* Mutant: only the first chunk is looked at.
OverlapsFirst(s, d, n) == s < d /\ d < s + Lesser(n, BlockSize)

\* The destination may start below the source or behind its end.
Overlaps(s, d, n) == s < d /\ d < s + n

\* The checks of xms_move_emb, in its order; what it answers, or "copy".
Verdict(sh, so, dh, do, n) ==
    IF n % 2 # 0               THEN "invalid length"
    ELSE IF Invalid(dh)        THEN "invalid destination handle"
    ELSE IF ~FitsIn(dh, do, n) THEN "invalid length"
    ELSE IF Invalid(sh)        THEN "invalid source handle"
    ELSE IF ~FitsIn(sh, so, n) THEN "invalid length"
    ELSE IF n = 0              THEN "ok"
    ELSE IF Overlaps(Location(sh, so), Location(dh, do), n) THEN "invalid overlap"
    ELSE "copy"

\* The copy routine is chosen by where the blocks start, and by whether the
\* processor is in V86 mode when the call is made.
Routine(s, d, v86) == IF v86 THEN "pmcopy"
                      ELSE IF s < FourGB /\ d < FourGB THEN "rmcopy" ELSE "rmcopysx"

\* xms_move_emb returns, to the client or into the loop of the reallocation.
MoveReturns(code) ==
    /\ pc' = IF args'.op = "grow" THEN "next" ELSE "idle"
    /\ ret' = code

BeginMove(sh, so, dh, do, n) ==
    LET v == Verdict(sh, so, dh, do, n)
        s == Location(sh, so)
        d == Location(dh, do)
    IN  \/ /\ v = "copy"
           /\ \E v86 \in BOOLEAN :
                 move' = [s |-> s, d |-> d, left |-> n, by |-> Routine(s, d, v86)]
           /\ pc' = "copy" /\ UNCHANGED ret
        \/ v # "copy" /\ MoveReturns(v) /\ move' = NoMove

\* ---- 0Bh, CBh: xms_move_emb -----------------------------------------------------
\* 0Bh passes 32 bits of an offset, CBh 40.
Move(sh, so, dh, do, n) ==
    /\ pc = "idle"
    /\ args' = [op |-> "move", sh |-> sh, so |-> so, dh |-> dh, do |-> do, len |-> n]
    /\ origin' = Untouched /\ missed' = FALSE
    /\ BeginMove(sh, so, dh, do, n)
    /\ UNCHANGED <<table, used, grow>>

\* rmcopy counts in ESI and EDI, 32 bits; the others carry into BH and BL.
Advance(a, n) == IF move.by = "rmcopy" THEN (a + n) % FourGB ELSE a + n

\* One chunk.  A routine copies upwards; what Overlaps lets through, it copies as
\* if all of the source were read first.
CopyTo(s, d, n) ==
    origin' = [a \in Addrs |-> IF a \in d .. d + n - 1 THEN origin[s + (a - d)] ELSE origin[a]]

\* Mutant: every chunk is a whole one.
WholeChunk == BlockSize

ChunkLength == Lesser(move.left, BlockSize)

CopyChunk ==
    LET n == ChunkLength IN
    /\ pc = "copy"
    /\ CopyTo(move.s, move.d, n)
    /\ args' = args
    /\ \/ /\ move.left # n
          /\ move' = [move EXCEPT !.s = Advance(@, n), !.d = Advance(@, n), !.left = @ - n]
          /\ UNCHANGED <<pc, ret>>
       \/ move.left = n /\ move' = NoMove /\ MoveReturns("ok")
    /\ UNCHANGED <<table, used, grow, missed>>

\* INT 15h AH=87h, which pmcopy calls, returns with carry set.  It may have
\* moved the chunk or not.
BiosFails ==
    /\ pc = "copy" /\ move.by = "pmcopy"
    /\ \E n \in {0, ChunkLength} : CopyTo(move.s, move.d, n)
    /\ args' = args /\ move' = NoMove /\ missed' = TRUE
    /\ MoveReturns("A20 failure")
    /\ UNCHANGED <<table, used, grow>>

\* ---- 0Fh, 8Fh, CFh where the block cannot grow in place ---------------------------
\* k is the handle the new block was allocated with.
Grow(h, k) ==
    /\ pc = "idle" /\ h \in used /\ k \notin used /\ table[h].size < table[k].size
    /\ used' = used \cup {k}
    /\ args' = [NoArgs EXCEPT !.op = "grow", !.sh = h, !.dh = k]
    /\ grow' = [off |-> 0, left |-> table[h].size, len |-> 0]
    /\ origin' = Untouched /\ missed' = FALSE
    /\ pc' = "grow"
    /\ UNCHANGED <<table, move, ret>>

\* Mutant: MAXCHUNK is 4 GB.
ChunkOf4G == Lesser(grow.left, MaxChunk + 1)

\* kB of the next chunk; the length in bytes is a shift by 10 in 32 bits.
ChunkSize == Lesser(grow.left, MaxChunk)
InBytes(n) == (n * KB) % FourGB

GrowMove ==
    LET n == InBytes(ChunkSize) IN
    /\ pc = "grow"
    /\ grow' = [grow EXCEPT !.len = n]
    /\ args' = args
    /\ BeginMove(args.sh, grow.off, args.dh, grow.off, n)
    /\ UNCHANGED <<table, used, origin, missed>>

\* Mutant: the offsets stay what they were.
GrowNextInPlace ==
    /\ pc = "next"
    /\ grow' = [grow EXCEPT !.left = @ - (grow.len \div KB), !.len = 0]
    /\ pc' = IF grow'.left = 0 THEN "swap" ELSE "grow"
    /\ UNCHANGED <<table, used, origin, args, move, missed, ret>>

\* What the move returned is not looked at.
GrowNext ==
    /\ pc = "next"
    /\ grow' = [off  |-> grow.off + grow.len,
                left |-> grow.left - (grow.len \div KB), len |-> 0]
    /\ pc' = IF grow'.left = 0 THEN "swap" ELSE "grow"
    /\ UNCHANGED <<table, used, origin, args, move, missed, ret>>

\* The handles exchange their blocks and the new handle is freed.
GrowSwap ==
    LET h == args.sh
        k == args.dh
    IN  /\ pc = "swap"
        /\ table' = [table EXCEPT ![h] = table[k], ![k] = table[h]]
        /\ used' = used \ {k}
        /\ pc' = "idle" /\ ret' = "ok"
        /\ UNCHANGED <<origin, args, move, grow, missed>>

Next ==
    \/ \E sh, dh \in Handles \cup {0}, so, do \in Offsets, n \in Lengths :
          Move(sh, so, dh, do, n)
    \/ CopyChunk \/ BiosFails
    \/ \E h, k \in Handles : Grow(h, k)
    \/ GrowMove \/ GrowNext \/ GrowSwap

Spec == Init /\ [][Next]_vars

\* The processor goes on with what the driver does; the client need not call.
InDriver == CopyChunk \/ BiosFails \/ GrowMove \/ GrowNext \/ GrowSwap
LiveSpec == Spec /\ WF_vars(InDriver)

-----------------------------------------------------------------------------
\* Registers and memory keep their ranges: what is still to be copied is positive
\* while the copy loop (HimemSX.asm:1443-1456) runs, and every byte came from somewhere.
TypeOK ==
    /\ table \in [Handles -> [base : Nat, size : Nat]]
    /\ used \subseteq Handles
    /\ origin \in [Addrs -> Addrs]
    /\ pc \in {"idle", "copy", "grow", "next", "swap"}
    /\ args \in [op : {"none", "move", "grow"}, sh : Handles \cup {0}, so : Nat,
                 dh : Handles \cup {0}, do : Nat, len : Nat]
    /\ move \in [s : Nat, d : Nat, left : Nat, by : {"rmcopy", "rmcopysx", "pmcopy"}]
    /\ pc = "copy" => move.left > 0
    /\ grow \in [off : Nat, left : Nat, len : Nat]
    /\ missed \in BOOLEAN

\* Memory after the n bytes at s were copied to d.
Copied(s, d, n) == [a \in Addrs |-> IF a \in d .. d + n - 1 THEN s + (a - d) ELSE a]

\* A move that reports success has put the whole source, as it was when the call
\* began, at the destination and changed nothing else: over chunks, copy routines,
\* the border at 4 GB and destinations that begin inside or below the source
\* (xms_move_emb, HimemSX.asm:1339-1500).
MoveCopies ==
    pc = "idle" /\ args.op = "move" /\ ret = "ok"
        => origin = Copied(Location(args.sh, args.so), Location(args.dh, args.do), args.len)

InBlock(h, a) == IF h = 0 THEN a < ConvTop
                 ELSE table[h].base * KB <= a /\ a < (table[h].base + table[h].size) * KB

\* At every moment of a move, whatever it will report, the bytes that changed lie in the
\* destination's block and hold what was in the source's (xms_get_move_addr,
\* HimemSX.asm:1272-1319).
WithinBlocks ==
    args.op = "move" => \A a \in Addrs : origin[a] # a => /\ InBlock(args.dh, a)
                                                          /\ InBlock(args.sh, origin[a])

\* After a reallocation that moved the block, unless the BIOS failed, the handle's new
\* block begins with all the old one held, and nothing else changed: no chunk is refused
\* or copied to the wrong place, which the code would not notice
\* (xms_ext_realloc_emb, HimemSX.asm:2097-2153).
GrowKeeps ==
    pc = "idle" /\ args.op = "grow" /\ ~missed
        => origin = Copied(Location(args.dh, 0), Location(args.sh, 0), table[args.dh].size * KB)

\* A call returns: the copy loop ends, and the loop of a reallocation, whose chunk must
\* not be 0 bytes long in 32 bits, ends too (HimemSX.asm:2106-2131).
CallsReturn == pc # "idle" ~> pc = "idle"
===============================================================================

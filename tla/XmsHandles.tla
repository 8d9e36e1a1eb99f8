------------------------------ MODULE XmsHandles ------------------------------
(***************************************************************************)
(* The handle table of HimemSX: XMS functions 09h-0Fh, 89h, 8Fh, C9h, CCh. *)
(*                                                                         *)
(* The driver runs in real mode on one processor.  A call made by the main *)
(* program can be suspended by a hardware interrupt wherever the interrupt *)
(* flag is set, and the interrupt service routine may call the driver      *)
(* itself; an ISR runs with interrupts off and finishes before the main    *)
(* program goes on.  One step here is what happens between two points at   *)
(* which such an ISR can get in (a cli..popf region whose work is one      *)
(* update is one step; the scan of xms_free_emb, also under cli, is        *)
(* one step per table entry).                                              *)
(***************************************************************************)
EXTENDS Integers, Sequences

CONSTANTS NumHandles,   \* xht_numhandles
          Regions,      \* the blocks geti15mem enters, [base, size] in kB
          Limit4G,      \* first kB beyond 4 GB (400000h)
          LockMod,      \* a lock counter is a byte: 256
          Requests,     \* sizes clients ask for
          MainOps,      \* the functions the main program calls
          IsrOps,       \* the functions interrupt handlers call (none: {})
          Private       \* TRUE: a client passes only handles it owns

Ctxs == {"main", "isr"}
Ops  == {"alloc", "free", "realloc", "lock", "slock", "unlock"}

Handles == 1 .. NumHandles

ASSUME SizeAssumption ==
    /\ NumHandles \in Nat \ {0}
    /\ Limit4G \in Nat
    /\ LockMod \in Nat \ {0, 1}
    /\ Requests \subseteq Nat
    /\ MainOps \subseteq Ops
    /\ IsrOps \subseteq Ops
    /\ Private \in BOOLEAN

ASSUME RegionAssumption ==
    /\ Regions \in Seq([base : Nat, size : Nat \ {0}])
    /\ Len(Regions) <= NumHandles
    /\ \A j, k \in 1 .. Len(Regions) :
          j # k => \/ Regions[j].base + Regions[j].size <= Regions[k].base
                   \/ Regions[k].base + Regions[k].size <= Regions[j].base

VARIABLES table,   \* the XMS_HANDLE array
          owner,   \* history: the client each handle was returned to
          pc,      \* where each context is in the driver
          frame,   \* its registers
          ret,     \* what the last call of each context returned
          cur,     \* the context on the processor
          cli      \* the interrupt flag is clear

vars == <<table, owner, pc, frame, ret, cur, cli>>

Entry == [flags : {"free", "used", "pool"}, locks : 0 .. LockMod - 1,
          base : Nat, size : Nat]

\* AX on return: 1, or 0 with an error code in BL that is left out here.
Codes == {"ok", "fail"}

Labels == {"idle", "lock_inc", "lock_undo", "unlock_test", "unlock_dec",
           "free_lock", "free_begin", "free_scan",
           "re_lock", "re_load", "re_scan", "re_fit", "re_w1", "re_w2",
           "re_w3", "re_w4", "re_w5", "re_size", "re_split", "re_grow",
           "re_move", "re_swap", "re_free"}

CallFrame(op, h, n) ==
    [op |-> op, arg |-> h, h |-> h, n |-> n, i |-> 0, left |-> 0,
     lo |-> 0, hi |-> 0, nh |-> 0, d |-> 0]

NoFrame == CallFrame("none", 0, 0)

Frame == [op : Ops \cup {"none"}, arg : 0 .. NumHandles, h : 0 .. NumHandles,
          n : Nat, i : 0 .. NumHandles + 1, left : 0 .. NumHandles,
          lo : Nat, hi : Nat, nh : 0 .. NumHandles, d : Int]

-----------------------------------------------------------------------------
Init ==
    /\ table = [h \in Handles |->
                  IF h <= Len(Regions)
                  THEN [flags |-> "free", locks |-> 0,
                        base |-> Regions[h].base, size |-> Regions[h].size]
                  ELSE [flags |-> "pool", locks |-> 0, base |-> 0, size |-> 0]]
    /\ owner = [h \in Handles |-> "nobody"]
    /\ pc = [c \in Ctxs |-> "idle"]
    /\ frame = [c \in Ctxs |-> NoFrame]
    /\ ret = [c \in Ctxs |-> "ok"]
    /\ cur = "main"
    /\ cli = FALSE

\* ---- helpers --------------------------------------------------------------
Lowest(h, S) == h \in S /\ \A k \in S : h <= k

Flagged(f) == {h \in Handles : table[h].flags = f}

\* Free blocks a request may be served from; functions 09h/89h look below
\* 4 GB, C9h beyond.
Fits(n, high) ==
    {h \in Flagged("free") : (table[h].base >= Limit4G) = high
                             /\ n <= table[h].size}

MarkUsed(e, n) == [flags |-> "used", locks |-> 0, base |-> e.base, size |-> n]

\* First fit: the block found becomes used; what is left over goes to a handle
\* from the pool, and stays in the block when the pool is empty.
TakeWhole(h, n) ==
    /\ n = table[h].size \/ Flagged("pool") = {}
    /\ table' = [table EXCEPT ![h] = MarkUsed(@, @.size)]

TakePart(h, n) ==
    /\ n # table[h].size
    /\ \E p \in Flagged("pool") :
         /\ Lowest(p, Flagged("pool"))
         /\ table' = [table EXCEPT
              ![h] = MarkUsed(@, n),
              ![p] = [flags |-> "free", locks |-> 0, base |-> table[h].base + n,
                      size |-> table[h].size - n]]

\* Mutant: the base of the lower handle is kept whichever block lies lower.
MergeKeepsBase(low, high) ==
    [table EXCEPT
       ![high] = [flags |-> "pool", locks |-> @.locks, base |-> 0, size |-> 0],
       ![low].size = @ + table[high].size]

\* Two neighbours become one block, kept in the lower handle.
Merge(low, high) ==
    [table EXCEPT
       ![high] = [flags |-> "pool", locks |-> @.locks, base |-> 0, size |-> 0],
       ![low]  = [flags |-> @.flags, locks |-> @.locks,
                  base  |-> IF table[high].base > @.base THEN @.base
                            ELSE table[high].base,
                  size  |-> @.size + table[high].size]]

\* Mutant: a counter without a width.
DecNoWrap(k) == k - 1

\* inc and dec of the byte xh_locks.
Inc(k) == IF k = LockMod - 1 THEN 0 ELSE k + 1
Dec(k) == IF k = 0 THEN LockMod - 1 ELSE k - 1

OpsOf(c) == IF c = "main" THEN MainOps ELSE IsrOps

\* A context runs its next instruction at label l.
At(c, l) == cur = c /\ pc[c] = l

Call(c, op) == At(c, "idle") /\ op \in OpsOf(c)

MayPass(c, h) == Private => owner[h] = c \/ table[h].flags # "used"

Goto(c, l) == /\ pc' = [pc EXCEPT ![c] = l]
              /\ UNCHANGED <<ret, cur>>

Return(c, code) == /\ pc' = [pc EXCEPT ![c] = "idle"]
                   /\ frame' = [frame EXCEPT ![c] = NoFrame]
                   /\ ret' = [ret EXCEPT ![c] = code]
                   /\ UNCHANGED cur

\* popf gives back the flag the caller had: clear in an ISR, set in main.
Popf(c) == cli' = (c = "isr")

\* xms_check_handle: only a handle of a used block gets past it.
Enter(c, op, h, n, l) ==
    /\ Call(c, op)
    /\ MayPass(c, h)
    /\ IF table[h].flags = "used"
       THEN /\ Goto(c, l)
            /\ frame' = [frame EXCEPT ![c] = CallFrame(op, h, n)]
       ELSE Return(c, "fail")
    /\ UNCHANGED <<table, owner, cli>>

\* ---- interrupts -----------------------------------------------------------
Interrupt ==
    /\ cur = "main" /\ ~cli /\ IsrOps # {}
    /\ cur' = "isr" /\ cli' = TRUE
    /\ UNCHANGED <<table, owner, pc, frame, ret>>

Iret ==
    /\ At("isr", "idle")
    /\ cur' = "main" /\ cli' = FALSE
    /\ UNCHANGED <<table, owner, pc, frame, ret>>

\* ---- 09h, 89h, C9h: allocate; the whole body runs under cli ----------------
AllocFit(c, n, high) ==
    /\ Call(c, "alloc")
    /\ \E h \in Fits(n, high) :
         /\ Lowest(h, Fits(n, high))
         /\ TakeWhole(h, n) \/ TakePart(h, n)
         /\ owner' = [owner EXCEPT ![h] = c]
    /\ Return(c, "ok") /\ UNCHANGED cli

\* No block fits a request for 0 kB: it gets a bare handle from the pool.
AllocNull(c, n, high) ==
    /\ Call(c, "alloc") /\ n = 0 /\ Fits(n, high) = {}
    /\ \E p \in Flagged("pool") :
         /\ Lowest(p, Flagged("pool"))
         /\ table' = [table EXCEPT ![p] = MarkUsed(@, @.size)]
         /\ owner' = [owner EXCEPT ![p] = c]
    /\ Return(c, "ok") /\ UNCHANGED cli

AllocFail(c, n, high) ==
    /\ Call(c, "alloc") /\ Fits(n, high) = {}
    /\ n = 0 => Flagged("pool") = {}
    /\ Return(c, "fail")
    /\ UNCHANGED <<table, owner, cli>>

\* ---- 0Ch, CCh: lock -------------------------------------------------------
LockCheck(c, op, h) ==
    /\ op \in {"lock", "slock"}
    /\ ~(op = "lock" /\ table[h].flags = "used" /\ table[h].base >= Limit4G)
    /\ Enter(c, op, h, 0, "lock_inc")

\* A 32-bit address cannot be returned for a block beyond 4 GB.
LockBeyond4G(c, h) ==
    /\ Call(c, "lock") /\ MayPass(c, h)
    /\ table[h].flags = "used" /\ table[h].base >= Limit4G
    /\ Return(c, "fail") /\ UNCHANGED <<table, owner, cli>>

LockInc(c) ==
    /\ At(c, "lock_inc")
    /\ LET h == frame[c].h
           k == Inc(table[h].locks)
       IN  /\ table' = [table EXCEPT ![h].locks = k]
           /\ IF k = 0 THEN Goto(c, "lock_undo") /\ UNCHANGED frame
                       ELSE Return(c, "ok")
    /\ UNCHANGED <<owner, cli>>

LockUndo(c) ==
    /\ At(c, "lock_undo")
    /\ table' = [table EXCEPT ![frame[c].h].locks = Dec(@)]
    /\ Return(c, "fail") /\ UNCHANGED <<owner, cli>>

\* ---- 0Dh: unlock ----------------------------------------------------------
UnlockCheck(c, h) == Enter(c, "unlock", h, 0, "unlock_test")

UnlockTest(c) ==
    /\ At(c, "unlock_test")
    /\ IF table[frame[c].h].locks = 0
       THEN Return(c, "fail")
       ELSE Goto(c, "unlock_dec") /\ UNCHANGED frame
    /\ UNCHANGED <<table, owner, cli>>

UnlockDec(c) ==
    /\ At(c, "unlock_dec")
    /\ table' = [table EXCEPT ![frame[c].h].locks = Dec(@)]
    /\ Return(c, "ok") /\ UNCHANGED <<owner, cli>>

\* ---- 0Ah: free ------------------------------------------------------------
FreeCheck(c, h) == Enter(c, "free", h, 0, "free_lock")

\* xms_ext_realloc_emb calls xms_free_emb too, and ignores what it returns.
FreeReturn(c, code) == Return(c, IF frame[c].op = "realloc" THEN "ok" ELSE code)

FreeLock(c) ==
    /\ At(c, "free_lock")
    /\ IF table[frame[c].h].locks # 0
       THEN FreeReturn(c, "fail")
       ELSE Goto(c, "free_begin") /\ UNCHANGED frame
    /\ UNCHANGED <<table, owner, cli>>

\* Mutant: interrupts stay on while the blocks are merged.
FreeBeginOpen(c) ==
    /\ At(c, "free_begin")
    /\ LET e == table[frame[c].h]
       IN  frame' = [frame EXCEPT ![c].lo = e.base, ![c].hi = e.base + e.size,
                                  ![c].i = 1, ![c].left = NumHandles]
    /\ owner' = IF frame[c].op = "free"
                THEN [owner EXCEPT ![frame[c].arg] = "nobody"] ELSE owner
    /\ Goto(c, "free_scan") /\ UNCHANGED <<table, cli>>

FreeBegin(c) ==
    /\ At(c, "free_begin")
    /\ cli' = TRUE
    /\ LET e == table[frame[c].h]
       IN  frame' = [frame EXCEPT ![c].lo = e.base, ![c].hi = e.base + e.size,
                                  ![c].i = 1, ![c].left = NumHandles]
    /\ owner' = IF frame[c].op = "free"
                THEN [owner EXCEPT ![frame[c].arg] = "nobody"] ELSE owner
    /\ Goto(c, "free_scan") /\ UNCHANGED table

\* A free block that ends where the freed one began, or begins where it ended.
Adjacent(c) ==
    LET e == table[frame[c].i]
    IN  /\ e.flags = "free"
        /\ e.base = frame[c].hi \/ e.base + e.size = frame[c].lo

FreeSkip(c) ==
    /\ At(c, "free_scan") /\ frame[c].left > 0 /\ ~Adjacent(c)
    /\ frame' = [frame EXCEPT ![c].i = @ + 1, ![c].left = @ - 1]
    /\ Goto(c, "free_scan") /\ UNCHANGED <<table, owner, cli>>

\* The scan goes on behind the lower of the two handles, the count only down.
FreeMerge(c) ==
    /\ At(c, "free_scan") /\ frame[c].left > 0 /\ Adjacent(c)
    /\ LET f    == frame[c]
           low  == IF f.i <= f.h THEN f.i ELSE f.h
           high == IF f.i <= f.h THEN f.h ELSE f.i
       IN  /\ table' = Merge(low, high)
           /\ frame' = [frame EXCEPT ![c].h = low, ![c].i = low + 1,
                                     ![c].left = @ - 1]
    /\ Goto(c, "free_scan") /\ UNCHANGED <<owner, cli>>

\* Mutants: a block of no size is marked free as well; the handle of the call is
\* marked, not the one being freed; popf is missing.
FreeEndAlways(c) ==
    /\ At(c, "free_scan") /\ frame[c].left = 0
    /\ table' = [table EXCEPT ![frame[c].h].flags = "free"]
    /\ FreeReturn(c, "ok") /\ Popf(c) /\ UNCHANGED owner

FreeEndArg(c) ==
    /\ At(c, "free_scan") /\ frame[c].left = 0
    /\ table' = [table EXCEPT ![frame[c].arg].flags =
                   IF table[frame[c].arg].size = 0 THEN "pool" ELSE "free"]
    /\ FreeReturn(c, "ok") /\ Popf(c) /\ UNCHANGED owner

FreeEndNoPopf(c) ==
    /\ At(c, "free_scan") /\ frame[c].left = 0
    /\ table' = [table EXCEPT ![frame[c].h].flags =
                   IF table[frame[c].h].size = 0 THEN "pool" ELSE "free"]
    /\ FreeReturn(c, "ok") /\ UNCHANGED <<owner, cli>>

FreeEnd(c) ==
    /\ At(c, "free_scan") /\ frame[c].left = 0
    /\ table' = [table EXCEPT ![frame[c].h].flags =
                   IF table[frame[c].h].size = 0 THEN "pool" ELSE "free"]
    /\ FreeReturn(c, "ok") /\ Popf(c) /\ UNCHANGED owner

\* ---- 0Fh, 8Fh: reallocate; interrupts are off only where said --------------
ReallocCheck(c, h, n) == Enter(c, "realloc", h, n, "re_lock")

\* Mutant: a locked block is reallocated like any other.
ReallocNoLock(c) ==
    /\ At(c, "re_lock")
    /\ Goto(c, "re_load") /\ UNCHANGED <<table, owner, frame, cli>>

ReallocLock(c) ==
    /\ At(c, "re_lock")
    /\ IF table[frame[c].h].locks # 0
       THEN Return(c, "fail")
       ELSE Goto(c, "re_load") /\ UNCHANGED frame
    /\ UNCHANGED <<table, owner, cli>>

ReallocLoad(c) ==
    /\ At(c, "re_load")
    /\ LET e == table[frame[c].h]
       IN  frame' = [frame EXCEPT ![c].hi = e.base + e.size, ![c].i = 1]
    /\ Goto(c, "re_scan") /\ UNCHANGED <<table, owner, cli>>

\* Mutant: the scan does not step to the next entry.
ReallocScanStays(c) ==
    /\ At(c, "re_scan")
    /\ LET f == frame[c]
       IN  IF table[f.i].flags = "free" /\ table[f.i].base = f.hi
           THEN frame' = [frame EXCEPT ![c].nh = f.i] /\ Goto(c, "re_fit")
           ELSE UNCHANGED frame /\ Goto(c, "re_scan")
    /\ UNCHANGED <<table, owner, cli>>

\* Look for a free block that begins where this one ends.
ReallocScan(c) ==
    /\ At(c, "re_scan")
    /\ LET f == frame[c]
       IN  IF f.i > NumHandles
           THEN Goto(c, "re_size") /\ UNCHANGED frame
           ELSE IF table[f.i].flags = "free" /\ table[f.i].base = f.hi
           THEN /\ frame' = [frame EXCEPT ![c].nh = f.i]
                /\ Goto(c, "re_fit")
           ELSE /\ frame' = [frame EXCEPT ![c].i = @ + 1]
                /\ Goto(c, "re_scan")
    /\ UNCHANGED <<table, owner, cli>>

ReallocFit(c) ==
    /\ At(c, "re_fit")
    /\ LET f == frame[c]
       IN  Goto(c, IF f.n > table[f.h].size + table[f.nh].size
                   THEN "re_grow" ELSE "re_w1")
    /\ UNCHANGED <<table, owner, frame, cli>>

\* The block and its successor are resized in place, field after field.
ReallocSetSize(c) ==
    /\ At(c, "re_w1")
    /\ LET f == frame[c]
       IN  /\ frame' = [frame EXCEPT ![c].d = f.n - table[f.h].size]
           /\ table' = [table EXCEPT ![f.h].size = f.n]
    /\ Goto(c, "re_w2") /\ UNCHANGED <<owner, cli>>

ReallocMoveBase(c) ==
    /\ At(c, "re_w2")
    /\ table' = [table EXCEPT ![frame[c].nh].base = @ + frame[c].d]
    /\ Goto(c, "re_w3") /\ UNCHANGED <<owner, frame, cli>>

\* Mutant: a successor that was used up is left as a free block.
TrimRestKeeps(c) ==
    /\ At(c, "re_w3")
    /\ table' = [table EXCEPT ![frame[c].nh].size = @ - frame[c].d]
    /\ Return(c, "ok") /\ UNCHANGED <<owner, cli>>

ReallocTrimRest(c) ==
    /\ At(c, "re_w3")
    /\ LET f == frame[c]
       IN  /\ table' = [table EXCEPT ![f.nh].size = @ - f.d]
           /\ IF table[f.nh].size = f.d
              THEN Goto(c, "re_w4") /\ UNCHANGED frame
              ELSE Return(c, "ok")
    /\ UNCHANGED <<owner, cli>>

ReallocPool(c) ==
    /\ At(c, "re_w4")
    /\ table' = [table EXCEPT ![frame[c].nh].flags = "pool"]
    /\ Goto(c, "re_w5") /\ UNCHANGED <<owner, frame, cli>>

ReallocClear(c) ==
    /\ At(c, "re_w5")
    /\ table' = [table EXCEPT ![frame[c].nh].base = 0]
    /\ Return(c, "ok") /\ UNCHANGED <<owner, cli>>

\* No free successor: shrink, or move to a new block.
ReallocSize(c) ==
    /\ At(c, "re_size")
    /\ LET f == frame[c]
           d == table[f.h].size - f.n
       IN  \/ d < 0 /\ Goto(c, "re_grow") /\ UNCHANGED frame
           \/ d = 0 /\ Return(c, "ok")
           \/ /\ d > 0 /\ Goto(c, "re_split")
              /\ frame' = [frame EXCEPT ![c].d = d]
    /\ UNCHANGED <<table, owner, cli>>

\* Mutant: the rest begins its own size behind the base.
SplitAtRest(c) ==
    /\ At(c, "re_split")
    /\ LET f == frame[c]
       IN  \E p \in Flagged("pool") :
             /\ Lowest(p, Flagged("pool"))
             /\ table' = [table EXCEPT
                  ![f.h].size = f.n,
                  ![p] = [flags |-> "free", locks |-> @.locks,
                          base |-> table[f.h].base + f.d, size |-> f.d]]
    /\ Return(c, "ok") /\ UNCHANGED <<owner, cli>>

ReallocSplit(c) ==
    /\ At(c, "re_split")
    /\ LET f == frame[c]
       IN  \E p \in Flagged("pool") :
             /\ Lowest(p, Flagged("pool"))
             /\ table' = [table EXCEPT
                  ![f.h].size = f.n,
                  ![p] = [flags |-> "free", locks |-> @.locks,
                          base |-> table[f.h].base + f.n, size |-> f.d]]
    /\ Return(c, "ok") /\ UNCHANGED <<owner, cli>>

ReallocNoHandle(c) ==
    /\ At(c, "re_split") /\ Flagged("pool") = {}
    /\ Return(c, "fail") /\ UNCHANGED <<table, owner, cli>>

\* The new block comes from the side of the 4 GB border the old one is on.
GrowFits(c) == Fits(frame[c].n, table[frame[c].h].base >= Limit4G)

ReallocGrow(c) ==
    /\ At(c, "re_grow")
    /\ \E h \in GrowFits(c) :
         /\ Lowest(h, GrowFits(c))
         /\ TakeWhole(h, frame[c].n) \/ TakePart(h, frame[c].n)
         /\ frame' = [frame EXCEPT ![c].nh = h]
    /\ Goto(c, "re_move") /\ UNCHANGED <<owner, cli>>

ReallocNoMem(c) ==
    /\ At(c, "re_grow") /\ GrowFits(c) = {}
    /\ Return(c, "fail") /\ UNCHANGED <<table, owner, cli>>

\* xms_move_emb copies the contents; it leaves the table alone.
ReallocMove(c) ==
    /\ At(c, "re_move")
    /\ Goto(c, "re_swap") /\ UNCHANGED <<table, owner, frame, cli>>

\* Mutant: the two handles keep their blocks.
ReallocNoSwap(c) ==
    /\ At(c, "re_swap")
    /\ Goto(c, "re_free") /\ UNCHANGED <<table, owner, frame, cli>>

ReallocSwap(c) ==
    /\ At(c, "re_swap")
    /\ LET f == frame[c]
       IN  table' = [table EXCEPT ![f.h] = table[f.nh], ![f.nh] = table[f.h]]
    /\ Goto(c, "re_free") /\ UNCHANGED <<owner, frame, cli>>

ReallocFree(c) ==
    /\ At(c, "re_free")
    /\ IF table[frame[c].nh].flags = "used"
       THEN /\ frame' = [frame EXCEPT ![c].h = frame[c].nh]
            /\ Goto(c, "free_lock")
       ELSE Return(c, "ok")
    /\ UNCHANGED <<table, owner, cli>>

-----------------------------------------------------------------------------
Alloc(c)   == \E n \in Requests, high \in BOOLEAN :
                 AllocFit(c, n, high) \/ AllocNull(c, n, high) \/ AllocFail(c, n, high)
Lock(c)    == \/ \E h \in Handles : \/ \E op \in {"lock", "slock"} : LockCheck(c, op, h)
                                    \/ LockBeyond4G(c, h)
              \/ LockInc(c) \/ LockUndo(c)
Unlock(c)  == \/ \E h \in Handles : UnlockCheck(c, h)
              \/ UnlockTest(c) \/ UnlockDec(c)
FreeEmb(c) == \/ \E h \in Handles : FreeCheck(c, h)
              \/ FreeLock(c) \/ FreeBegin(c) \/ FreeSkip(c) \/ FreeMerge(c) \/ FreeEnd(c)
Realloc(c) == \/ \E h \in Handles, n \in Requests : ReallocCheck(c, h, n)
              \/ ReallocLock(c) \/ ReallocLoad(c) \/ ReallocScan(c) \/ ReallocFit(c)
              \/ ReallocSetSize(c) \/ ReallocMoveBase(c) \/ ReallocTrimRest(c)
              \/ ReallocPool(c) \/ ReallocClear(c)
              \/ ReallocSize(c) \/ ReallocSplit(c) \/ ReallocNoHandle(c)
              \/ ReallocGrow(c) \/ ReallocNoMem(c) \/ ReallocMove(c) \/ ReallocSwap(c) \/ ReallocFree(c)

Step(c) == Alloc(c) \/ Lock(c) \/ Unlock(c) \/ FreeEmb(c) \/ Realloc(c)

Next == Interrupt \/ Iret \/ \E c \in Ctxs : Step(c)

Spec == Init /\ [][Next]_vars

-----------------------------------------------------------------------------
TypeOK ==
    /\ table \in [Handles -> Entry]
    /\ owner \in [Handles -> Ctxs \cup {"nobody"}]
    /\ pc \in [Ctxs -> Labels]
    /\ frame \in [Ctxs -> Frame]
    /\ ret \in [Ctxs -> Codes]
    /\ cur \in Ctxs
    /\ cli \in BOOLEAN

Block(t, h) == t[h].base .. t[h].base + t[h].size - 1

\* The kB geti15mem put under the driver's management.
Managed == UNION {Regions[j].base .. Regions[j].base + Regions[j].size - 1 :
                    j \in 1 .. Len(Regions)}

DisjointIn(t) == \A h, k \in Handles : h # k => Block(t, h) \cap Block(t, k) = {}
CoveredIn(t)  == UNION {Block(t, h) : h \in Handles} = Managed

\* An in-place reallocation changes two blocks field by field; these are the
\* labels between its first and its last write.
Writing == {"re_w2", "re_w3", "re_w4", "re_w5"}
Settled == \A c \in Ctxs : pc[c] \notin Writing

\* No kB belongs to two blocks, whatever was allocated, freed and resized in
\* what order (xms_alloc_emb, xms_free_emb, xms_ext_realloc_emb).
Disjoint == Settled => DisjointIn(table)

\* No kB is lost or invented: the blocks, free or used, are together what
\* geti15mem found.
Covered == Settled => CoveredIn(table)

\* The handle xms_free_emb is just freeing has no definite flag yet.
InFree(h) == \E c \in Ctxs : pc[c] = "free_scan" /\ frame[c].h = h

\* A handle in the pool holds no memory, so that handing it out bare for 0 kB
\* hands out nothing; a free block holds some, or it would only use up a handle.
PoolHoldsNothing ==
    Settled => \A h \in Handles :
                 /\ table[h].flags = "pool" /\ ~InFree(h) => table[h].size = 0
                 /\ table[h].flags = "free" => table[h].size > 0

\* Freed memory can be had again: when xms_free_emb ends, every kB of the block
\* it was given is in a block marked free.
FreedIsFree ==
    [][\A c \in Ctxs :
         At(c, "free_scan") /\ frame[c].left = 0 =>
           \A a \in frame[c].lo .. frame[c].hi - 1 :
             \E h \in Handles : a \in Block(table', h) /\ table'[h].flags = "free"]_vars

\* A reallocation that reports success left its handle a block of the size
\* asked for or more, and one in use.
ReallocDelivers ==
    [][\A c \in Ctxs :
         /\ frame[c].op = "realloc" /\ pc'[c] = "idle" /\ ret'[c] = "ok"
         => /\ table'[frame[c].arg].flags = "used"
            /\ table'[frame[c].arg].size >= frame[c].n]_vars

\* What clients see.  The second half of a lock that overflows is not seen.
Held ==
    [h \in Handles |->
       IF owner[h] = "nobody" THEN [base |-> 0, size |-> 0, locks |-> -1]
       ELSE [base |-> table[h].base, size |-> table[h].size,
             locks |-> IF \E c \in Ctxs : pc[c] = "lock_undo" /\ frame[c].h = h
                       THEN LockMod - 1 ELSE table[h].locks]]

Allocator == INSTANCE XmsAllocator WITH Memory <- Managed, held <- Held

\* The table keeps the promise XmsAllocator states: no two clients' blocks share
\* memory, no locked block moves, and no call changes a block it does not name.
KeepsPromise == Allocator!Spec

\* ---- liveness ---------------------------------------------------------------
\* A processor in the driver goes on; an interrupt routine makes finitely many
\* calls and ends; a main program that gets the processor back again and again
\* gets its next instruction done.
Fairness ==
    /\ SF_vars(pc["main"] # "idle" /\ Step("main"))
    /\ WF_vars(pc["isr"] # "idle" /\ Step("isr"))
    /\ SF_vars(Iret)

LiveSpec == Spec /\ Fairness

\* Every XMS call returns: the scans end though merging moves their pointer
\* back, however often an interrupt comes in between.
CallsReturn == \A c \in Ctxs : pc[c] # "idle" ~> pc[c] = "idle"

\* Interrupts do not stay off: every path through the driver and out of an
\* interrupt routine restores the flag it found.
InterruptsReturn == cli ~> ~cli

-----------------------------------------------------------------------------
(***************************************************************************)
(* The inductive invariant behind Disjoint, Covered and PoolHoldsNothing.  *)
(* It looks at the table as it will be when the in-place reallocation in   *)
(* progress, if any, has made its last write.                              *)
(***************************************************************************)

\* An interrupt routine does not touch blocks while the main program may be
\* inside xms_ext_realloc_emb, which only in places keeps interrupts off.
RaceFree == "realloc" \in MainOps => IsrOps \cap {"alloc", "free", "realloc"} = {}

After(c) ==
    LET f == frame[c]
        e == table[f.nh]
        rest == IF pc[c] \in {"re_w2", "re_w3"} THEN e.size - f.d ELSE e.size
    IN  IF pc[c] \in Writing
        THEN [table EXCEPT ![f.nh] =
                [flags |-> IF rest = 0 THEN "pool" ELSE "free", locks |-> e.locks,
                 base  |-> IF pc[c] = "re_w2" THEN e.base + f.d ELSE e.base,
                 size  |-> rest]]
        ELSE table

Final == IF pc["isr"] \in Writing THEN After("isr") ELSE After("main")

ReLabels == {"re_lock", "re_load", "re_scan", "re_fit", "re_w1", "re_w2",
             "re_w3", "re_w4", "re_w5", "re_size", "re_split", "re_grow",
             "re_move", "re_swap", "re_free"}

\* Only the interrupt routine runs when it has interrupted, and the main program
\* has interrupts off just while it merges blocks.
ControlOK ==
    /\ cur = "main" => pc["isr"] = "idle" /\ (cli <=> pc["main"] = "free_scan")
    /\ cur = "isr" => cli /\ pc["main"] # "free_scan"

FrameOK(c) ==
    LET f == frame[c]
    IN  /\ pc[c] # "idle" => f.h \in Handles /\ f.op \in OpsOf(c)
        /\ pc[c] \in ReLabels => f.op = "realloc" /\ table[f.h].flags = "used"
        /\ pc[c] \in {"free_lock", "free_begin", "free_scan"} => f.op \in {"free", "realloc"}
        /\ pc[c] = "re_scan" => f.i >= 1 /\ f.hi = table[f.h].base + table[f.h].size
        /\ pc[c] \in {"re_fit", "re_w1", "re_w2", "re_w3", "re_w4", "re_w5",
                      "re_move", "re_swap", "re_free"} => f.nh \in Handles \ {f.h}

\* xms_free_emb: what it remembers of the block lies in the merged block.
ScanOK(c) ==
    LET f == frame[c]
    IN  pc[c] = "free_scan" =>
          /\ f.i >= 1 /\ f.i + f.left <= NumHandles + 1
          /\ table[f.h].base <= f.lo /\ f.lo <= f.hi
          /\ f.hi <= table[f.h].base + table[f.h].size
          /\ table[f.h].flags = "free" => f.i > f.h \/ f.lo < f.hi

\* xms_ext_realloc_emb: the successor, and what is still to be written.
WriteOK(c) ==
    LET f == frame[c]
        e == table[f.h]
        s == table[f.nh]
    IN  /\ pc[c] \in {"re_fit", "re_w1"} => s.flags = "free" /\ s.base = e.base + e.size
        /\ pc[c] = "re_w1" => f.n <= e.size + s.size
        /\ pc[c] \in {"re_w2", "re_w3"} => s.flags = "free" /\ f.d <= s.size
        /\ pc[c] = "re_w2" => s.base + f.d = e.base + f.n
        /\ pc[c] = "re_w4" => s.flags = "free"
        /\ pc[c] \in {"re_w4", "re_w5"} => s.size = 0
        /\ pc[c] = "re_w5" => s.flags = "pool"
        /\ pc[c] = "re_split" => f.d > 0 /\ e.size = f.n + f.d
        /\ pc[c] \in {"re_move", "re_swap"} => s.flags = "used"

TableOK ==
    /\ DisjointIn(Final)
    /\ CoveredIn(Final)
    /\ \A h \in Handles :
         /\ Final[h].flags = "pool" /\ ~InFree(h) => Final[h].size = 0
         /\ Final[h].flags = "free" => Final[h].size > 0

IInv == /\ TypeOK /\ ControlOK /\ TableOK
        /\ \A c \in Ctxs : FrameOK(c) /\ ScanOK(c) /\ WriteOK(c)

-----------------------------------------------------------------------------
(***************************************************************************)
(* What KeepsPromise needs beyond IInv, where a client passes only handles *)
(* it owns: a handle a call works on is the caller's until the call gives  *)
(* it back, so that what the call has tested of its lock counter still     *)
(* holds when it acts on it.                                               *)
(***************************************************************************)
OwnedIsUsed == \A h \in Handles : owner[h] # "nobody" => table[h].flags = "used"

OwnLabels == {"lock_inc", "lock_undo", "unlock_test", "unlock_dec"} \cup ReLabels

OwnOK(c) ==
    LET f == frame[c]
    IN  /\ pc[c] \in OwnLabels => owner[f.h] = c /\ f.h = f.arg
        /\ pc[c] \in ReLabels \ {"re_lock"} => table[f.h].locks = 0
        /\ pc[c] = "lock_undo" => table[f.h].locks = 0
        /\ pc[c] = "unlock_dec" => table[f.h].locks > 0
        /\ pc[c] \in {"re_move", "re_swap", "re_free"} => owner[f.nh] = "nobody"
        /\ pc[c] \in {"re_move", "re_swap"} => table[f.nh].locks = 0
        /\ pc[c] \in {"free_lock", "free_begin"} =>
              IF f.op = "free" THEN owner[f.h] = c /\ f.h = f.arg
                               ELSE owner[f.h] = "nobody"
        /\ pc[c] = "free_begin" => table[f.h].locks = 0
        /\ pc[c] = "free_scan" => owner[f.h] = "nobody"

Owned == OwnedIsUsed /\ \A c \in Ctxs : OwnOK(c)

PromiseInv == IInv /\ Owned

\* What ReallocDelivers needs beyond IInv: the size the block of the call has, or
\* will have.
DeliverOK(c) ==
    LET f == frame[c]
    IN  /\ pc[c] = "idle" => f.op = "none"
        /\ pc[c] \in {"lock_inc", "lock_undo", "unlock_test", "unlock_dec"} =>
              f.op # "realloc"
        /\ pc[c] \in ReLabels => f.arg = f.h
        /\ pc[c] \in Writing => table[f.h].size = f.n
        /\ pc[c] \in {"re_move", "re_swap"} => table[f.nh].size >= f.n
        /\ pc[c] = "re_free" => table[f.h].size >= f.n
        /\ pc[c] \in {"free_lock", "free_begin", "free_scan"} /\ f.op = "realloc" =>
              /\ f.arg \in Handles \ {f.h}
              /\ table[f.arg].flags = "used" /\ table[f.arg].size >= f.n

DeliverInv == IInv /\ \A c \in Ctxs : DeliverOK(c)
=============================================================================

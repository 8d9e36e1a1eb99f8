--------------------------- MODULE XmsPromiseProofs ---------------------------
(***************************************************************************)
(* The handle table implements XmsAllocator: what clients hold never       *)
(* overlaps, never moves while it is locked, and is changed only by the    *)
(* calls that name it.  A reallocation that reports success delivers.      *)
(***************************************************************************)
EXTENDS XmsHandlesProofs

BlockOps == {"alloc", "free", "realloc"}

\* While one client is at work on blocks the other has no reallocation under
\* way, not even in the call of xms_free_emb at its end.
LEMMA NoOtherRealloc ==
    ASSUME IInv, RaceFree, NEW c \in Ctxs, cur = c, BlockOps \cap OpsOf(c) # {}
    PROVE  \A o \in Ctxs \ {c} : /\ pc[o] \notin ReLabels \cup {"free_scan"}
                                 /\ pc[o] # "idle" => frame[o].op # "realloc"
<1>1. \A o \in Ctxs \ {c} : pc[o] \notin ReLabels \cup {"free_scan"}
  BY Quiet DEF BlockOps
<1>2. CASE c = "main"
  BY <1>1, <1>2 DEF IInv, ControlOK, Ctxs
<1>3. CASE c = "isr"
  BY <1>1, <1>3 DEF IInv, FrameOK, RaceFree, OpsOf, Ctxs, BlockOps
<1> QED BY <1>2, <1>3 DEF Ctxs

\* What is known of a context that does not move: the other counts locks of its
\* own handles only, and is alone when it is at work on blocks.
LEMMA OwnKept ==
    ASSUME PromiseInv, RaceFree, NEW c \in Ctxs, cur = c,
           \A o \in Ctxs \ {c} : pc'[o] = pc[o] /\ frame'[o] = frame[o],
           \A h \in Handles : owner[h] \notin {c, "nobody"} =>
                                 owner'[h] = owner[h] /\ table'[h].locks = table[h].locks,
           \/ BlockOps \cap OpsOf(c) # {}
           \/ \A h \in Handles : /\ owner'[h] = owner[h]
                                 /\ owner[h] = "nobody" => table'[h].locks = table[h].locks
    PROVE  \A o \in Ctxs \ {c} : OwnOK(o)'
<1> SUFFICES ASSUME NEW o \in Ctxs \ {c} PROVE OwnOK(o)'
  OBVIOUS
<1> DEFINE f == frame[o]
<1>1. OwnOK(o) /\ pc'[o] = pc[o] /\ frame'[o] = f /\ o # "nobody" /\ o # c
  BY DEF PromiseInv, Owned, Ctxs
<1>2. pc[o] # "idle" => f.h \in Handles
  BY DEF PromiseInv, IInv, FrameOK
<1>3. CASE BlockOps \cap OpsOf(c) # {}
  <2>1. /\ pc[o] \notin ReLabels \cup {"free_scan"}
        /\ pc[o] # "idle" => f.op # "realloc"
    BY <1>3, NoOtherRealloc DEF PromiseInv
  <2>2. pc[o] \in {"free_lock", "free_begin"} => f.op = "free"
    BY <2>1 DEF PromiseInv, IInv, FrameOK
  <2>3. pc[o] \in OwnLabels \cup {"free_lock", "free_begin"} =>
          owner'[f.h] = o /\ table'[f.h].locks = table[f.h].locks
    BY <1>1, <1>2, <2>1, <2>2 DEF OwnOK, OwnLabels
  <2> QED BY <1>1, <2>1, <2>2, <2>3 DEF OwnOK, OwnLabels, ReLabels
<1>4. CASE \A h \in Handles : /\ owner'[h] = owner[h]
                              /\ owner[h] = "nobody" => table'[h].locks = table[h].locks
  <2>1. pc[o] \in {"re_move", "re_swap", "re_free"} => f.nh \in Handles
    BY DEF PromiseInv, IInv, FrameOK
  <2>2. pc[o] \in OwnLabels \cup {"free_lock", "free_begin", "free_scan"} =>
          owner'[f.h] = owner[f.h] /\ table'[f.h].locks = table[f.h].locks
    BY <1>1, <1>2, <1>4 DEF OwnOK, OwnLabels, ReLabels
  <2> QED BY <1>1, <1>4, <2>1, <2>2 DEF OwnOK, OwnLabels, ReLabels
<1> QED BY <1>3, <1>4

\* One step of one context: what has to be shown of it for Owned.
LEMMA OwnedStep ==
    ASSUME PromiseInv, RaceFree, NEW c \in Ctxs, cur = c,
           \A o \in Ctxs \ {c} : pc'[o] = pc[o] /\ frame'[o] = frame[o],
           \A h \in Handles : owner[h] \notin {c, "nobody"} =>
                                 owner'[h] = owner[h] /\ table'[h].locks = table[h].locks,
           \/ BlockOps \cap OpsOf(c) # {}
           \/ \A h \in Handles : /\ owner'[h] = owner[h]
                                 /\ owner[h] = "nobody" => table'[h].locks = table[h].locks,
           OwnedIsUsed', OwnOK(c)'
    PROVE  Owned'
<1>1. \A o \in Ctxs \ {c} : OwnOK(o)'
  BY OwnKept
<1> QED BY <1>1 DEF Owned

LEMMA Went ==
    ASSUME IInv, NEW c \in Ctxs, NEW l, Goto(c, l)
    PROVE  pc'[c] = l /\ \A o \in Ctxs \ {c} : pc'[o] = pc[o]
BY DEF Goto, IInv, TypeOK

LEMMA Returned ==
    ASSUME IInv, NEW c \in Ctxs, NEW code, Return(c, code)
    PROVE  /\ pc'[c] = "idle" /\ frame'[c] = NoFrame /\ ret'[c] = code
           /\ \A o \in Ctxs \ {c} : pc'[o] = pc[o] /\ frame'[o] = frame[o]
BY DEF Return, IInv, TypeOK

LEMMA IdleOwns == ASSUME NEW c \in Ctxs, pc'[c] = "idle" PROVE OwnOK(c)'
BY DEF OwnOK, OwnLabels, ReLabels

\* A step that tests, or moves on, and leaves table and owners alone.
LEMMA OwnedPlain ==
    ASSUME PromiseInv, RaceFree, NEW c \in Ctxs, cur = c,
           \A o \in Ctxs \ {c} : pc'[o] = pc[o] /\ frame'[o] = frame[o],
           table' = table, owner' = owner, OwnOK(c)'
    PROVE  Owned'
<1>1. OwnedIsUsed'
  BY DEF PromiseInv, Owned, OwnedIsUsed
<1> QED BY <1>1, OwnedStep

LEMMA OwnedReturn ==
    ASSUME PromiseInv, RaceFree, NEW c \in Ctxs, cur = c, NEW code, Return(c, code),
           table' = table, owner' = owner
    PROVE  Owned'
BY Returned, IdleOwns, OwnedPlain DEF PromiseInv

LEMMA OwnedEnter ==
    ASSUME PromiseInv, RaceFree, Private, NEW c \in Ctxs,
           NEW op \in Ops, NEW h \in Handles, NEW n \in Nat,
           NEW l \in {"lock_inc", "unlock_test", "free_lock", "re_lock"},
           l = "free_lock" <=> op = "free",
           Enter(c, op, h, n, l)
    PROVE  Owned'
<1>1. cur = c /\ table' = table /\ owner' = owner
  BY DEF Enter, Call, At
<1>2. CASE table[h].flags = "used"
  <2>1. /\ pc'[c] = l /\ frame'[c] = CallFrame(op, h, n)
        /\ \A o \in Ctxs \ {c} : pc'[o] = pc[o] /\ frame'[o] = frame[o]
    BY <1>2, Went DEF Enter, PromiseInv, IInv, TypeOK
  <2>2. owner[h] = c
    BY <1>2 DEF Enter, MayPass
  <2>3. OwnOK(c)'
    BY <1>1, <2>1, <2>2 DEF OwnOK, OwnLabels, ReLabels, CallFrame
  <2> QED BY <1>1, <2>1, <2>3, OwnedPlain
<1>3. CASE table[h].flags # "used"
  BY <1>1, <1>3, OwnedReturn DEF Enter
<1> QED BY <1>2, <1>3

LEMMA OwnedCheck ==
    ASSUME PromiseInv, RaceFree, Private, NEW c \in Ctxs, NEW h \in Handles,
           \/ \E op \in {"lock", "slock"} : LockCheck(c, op, h)
           \/ LockBeyond4G(c, h) \/ UnlockCheck(c, h) \/ FreeCheck(c, h)
           \/ \E n \in Requests : ReallocCheck(c, h, n)
    PROVE  Owned'
<1>1. ASSUME NEW op \in {"lock", "slock"}, LockCheck(c, op, h) PROVE Owned'
  BY <1>1, OwnedEnter DEF LockCheck, Ops
<1>2. CASE LockBeyond4G(c, h)
  BY <1>2, OwnedReturn DEF LockBeyond4G, Call, At
<1>3. CASE UnlockCheck(c, h)
  BY <1>3, OwnedEnter DEF UnlockCheck, Ops
<1>4. CASE FreeCheck(c, h)
  BY <1>4, OwnedEnter DEF FreeCheck, Ops
<1>5. ASSUME NEW n \in Requests, ReallocCheck(c, h, n) PROVE Owned'
  <2>1. n \in Nat
    BY SizeAssumption
  <2> QED BY <1>5, <2>1, OwnedEnter DEF ReallocCheck, Ops
<1> QED BY <1>1, <1>2, <1>3, <1>4, <1>5

\* The tests of xms_unlock_emb and xms_free_emb, and the count of its scan.
LEMMA OwnedTest ==
    ASSUME PromiseInv, RaceFree, NEW c \in Ctxs,
           UnlockTest(c) \/ FreeLock(c) \/ FreeSkip(c)
    PROVE  Owned'
<1>1. cur = c /\ table' = table /\ owner' = owner /\ OwnOK(c) /\ pc[c] \in Labels
  BY DEF UnlockTest, FreeLock, FreeSkip, At, PromiseInv, Owned, IInv, TypeOK
<1>2. \A h \in Handles : table[h].locks \in Nat
  BY SizeAssumption DEF PromiseInv, IInv, TypeOK, Entry
<1>3. pc[c] # "idle" => frame[c].h \in Handles
  BY DEF PromiseInv, IInv, FrameOK
<1>4. CASE \E code : Return(c, code)
  BY <1>1, <1>4, OwnedReturn
<1>5. CASE UnlockTest(c) /\ Goto(c, "unlock_dec") /\ frame' = frame
           /\ table[frame[c].h].locks # 0
  <2>1. OwnOK(c)'
    BY <1>1, <1>2, <1>3, <1>5, Went DEF UnlockTest, At, OwnOK, OwnLabels, ReLabels, PromiseInv
  <2> QED BY <1>1, <1>5, <2>1, Went, OwnedPlain DEF PromiseInv
<1>6. CASE FreeLock(c) /\ Goto(c, "free_begin") /\ frame' = frame
           /\ table[frame[c].h].locks = 0
  <2>1. OwnOK(c)'
    BY <1>1, <1>6, Went DEF FreeLock, At, OwnOK, OwnLabels, ReLabels, PromiseInv
  <2> QED BY <1>1, <1>6, <2>1, Went, OwnedPlain DEF PromiseInv
<1>7. CASE FreeSkip(c)
  <2>1. /\ frame'[c].h = frame[c].h
        /\ \A o \in Ctxs \ {c} : frame'[o] = frame[o]
    BY <1>7 DEF FreeSkip, PromiseInv, IInv, TypeOK, Frame
  <2>2. pc'[c] = "free_scan" /\ pc[c] = "free_scan"
    BY <1>7, Went DEF FreeSkip, At, PromiseInv
  <2>3. OwnOK(c)'
    BY <1>1, <2>1, <2>2 DEF OwnOK, OwnLabels, ReLabels
  <2> QED BY <1>1, <1>7, <2>1, <2>3, Went, OwnedPlain DEF PromiseInv, FreeSkip
<1> QED BY <1>4, <1>5, <1>6, <1>7 DEF UnlockTest, FreeLock, FreeReturn

\* xms_ext_realloc_emb up to its first write, and where it gives up.
LEMMA OwnedReallocPlain ==
    ASSUME PromiseInv, RaceFree, NEW c \in Ctxs,
           \/ ReallocLock(c) \/ ReallocLoad(c) \/ ReallocScan(c) \/ ReallocFit(c)
           \/ ReallocSize(c) \/ ReallocNoHandle(c) \/ ReallocNoMem(c) \/ ReallocMove(c)
    PROVE  Owned'
<1>1. /\ cur = c /\ table' = table /\ owner' = owner /\ OwnOK(c)
      /\ pc[c] \in {"re_lock", "re_load", "re_scan", "re_fit", "re_size", "re_split",
                    "re_grow", "re_move"}
  BY DEF ReallocLock, ReallocLoad, ReallocScan, ReallocFit, ReallocSize, ReallocNoHandle,
         ReallocNoMem, ReallocMove, At, PromiseInv, Owned
<1>2. CASE \E code : Return(c, code)
  BY <1>1, <1>2, OwnedReturn
<1>3. ASSUME NEW l \in {"re_load", "re_scan", "re_fit", "re_size", "re_grow", "re_w1",
                        "re_split", "re_swap"},
             Goto(c, l),
             l = "re_swap" <=> pc[c] = "re_move",
             pc[c] = "re_lock" => table[frame[c].h].locks = 0,
             frame'[c].h = frame[c].h, frame'[c].arg = frame[c].arg,
             l = "re_swap" => frame'[c].nh = frame[c].nh,
             \A o \in Ctxs \ {c} : frame'[o] = frame[o]
      PROVE  Owned'
  <2>1. pc'[c] = l /\ \A o \in Ctxs \ {c} : pc'[o] = pc[o]
    BY <1>3, Went DEF PromiseInv
  <2>2. OwnOK(c)'
    BY <1>1, <1>3, <2>1 DEF OwnOK, OwnLabels, ReLabels
  <2> QED BY <1>1, <1>3, <2>1, <2>2, OwnedPlain
<1>4. frame \in [Ctxs -> Frame]
  BY DEF PromiseInv, IInv, TypeOK
<1>5. CASE ReallocLock(c)
  BY SMTT(60), <1>2, <1>3, <1>5 DEF ReallocLock, At
<1>6. CASE ReallocLoad(c)
  <2>1. /\ frame'[c].h = frame[c].h /\ frame'[c].arg = frame[c].arg
        /\ \A o \in Ctxs \ {c} : frame'[o] = frame[o]
    BY <1>4, <1>6 DEF ReallocLoad, Frame
  <2>2. Goto(c, "re_scan") /\ pc[c] = "re_load"
    BY <1>6 DEF ReallocLoad, At
  <2> QED BY <1>3, <2>1, <2>2
<1>7. CASE ReallocScan(c)
  <2>1. /\ frame'[c].h = frame[c].h /\ frame'[c].arg = frame[c].arg
        /\ \A o \in Ctxs \ {c} : frame'[o] = frame[o]
    BY <1>4, <1>7 DEF ReallocScan, Frame
  <2> QED BY <1>3, <1>7, <2>1 DEF ReallocScan, At
<1>8. CASE ReallocFit(c)
  BY <1>3, <1>8 DEF ReallocFit, At
<1>9. CASE ReallocSize(c)
  <2>1. CASE \E code : Return(c, code)
    BY <1>2, <2>1
  <2>2. CASE ~\E code : Return(c, code)
    <3>1. /\ frame'[c].h = frame[c].h /\ frame'[c].arg = frame[c].arg
          /\ \A o \in Ctxs \ {c} : frame'[o] = frame[o]
      BY <1>4, <1>9, <2>2 DEF ReallocSize, Frame
    <3> QED BY <1>3, <1>9, <2>2, <3>1 DEF ReallocSize, At
  <2> QED BY <2>1, <2>2
<1>10. CASE ReallocMove(c)
  BY <1>3, <1>10 DEF ReallocMove, At
<1>11. CASE ReallocNoHandle(c) \/ ReallocNoMem(c)
  BY <1>2, <1>11 DEF ReallocNoHandle, ReallocNoMem
<1> QED BY <1>5, <1>6, <1>7, <1>8, <1>9, <1>10, <1>11

LEMMA OwnedReallocFree ==
    ASSUME PromiseInv, RaceFree, NEW c \in Ctxs, ReallocFree(c)
    PROVE  Owned'
<1>1. /\ cur = c /\ table' = table /\ owner' = owner /\ OwnOK(c) /\ pc[c] = "re_free"
      /\ frame[c].op = "realloc"
  BY DEF ReallocFree, At, PromiseInv, Owned, IInv, FrameOK, ReLabels
<1>2. CASE table[frame[c].nh].flags = "used"
  <2>1. /\ frame'[c].h = frame[c].nh /\ frame'[c].op = frame[c].op
        /\ \A o \in Ctxs \ {c} : frame'[o] = frame[o]
    BY <1>2 DEF ReallocFree, PromiseInv, IInv, TypeOK, Frame
  <2>2. pc'[c] = "free_lock" /\ \A o \in Ctxs \ {c} : pc'[o] = pc[o]
    BY <1>2, Went DEF ReallocFree, PromiseInv
  <2>3. OwnOK(c)'
    BY <1>1, <2>1, <2>2 DEF OwnOK, OwnLabels, ReLabels
  <2> QED BY <1>1, <2>1, <2>2, <2>3, OwnedPlain
<1>3. CASE table[frame[c].nh].flags # "used"
  BY <1>1, <1>3, OwnedReturn DEF ReallocFree
<1> QED BY <1>2, <1>3

\* A lock counter is one's own.
LEMMA OwnedCount ==
    ASSUME PromiseInv, RaceFree, NEW c \in Ctxs, cur = c,
           NEW h \in Handles, owner[h] = c,
           NEW k, table' = [table EXCEPT ![h].locks = k],
           owner' = owner,
           \A o \in Ctxs \ {c} : pc'[o] = pc[o] /\ frame'[o] = frame[o],
           OwnOK(c)'
    PROVE  Owned'
<1>1. \A j \in Handles : /\ table'[j].flags = table[j].flags
                         /\ j # h => table'[j] = table[j]
  BY DEF PromiseInv, IInv, TypeOK, Entry
<1>2. OwnedIsUsed'
  BY <1>1 DEF PromiseInv, Owned, OwnedIsUsed
<1>3. owner[h] # "nobody"
  BY DEF Ctxs
<1> QED BY <1>1, <1>2, <1>3, OwnedStep

LEMMA OwnedLock ==
    ASSUME PromiseInv, RaceFree, NEW c \in Ctxs,
           LockInc(c) \/ LockUndo(c) \/ UnlockDec(c)
    PROVE  Owned'
<1> DEFINE h == frame[c].h
<1>1. /\ pc[c] \in {"lock_inc", "lock_undo", "unlock_dec"} /\ cur = c
      /\ owner' = owner
  BY DEF LockInc, LockUndo, UnlockDec, At
<1>2. /\ h \in Handles /\ owner[h] = c /\ h = frame[c].arg
      /\ table[h].locks \in 0 .. LockMod - 1
      /\ table \in [Handles -> Entry]
  BY <1>1 DEF PromiseInv, IInv, FrameOK, Owned, OwnOK, OwnLabels, TypeOK, Entry
<1>3. ASSUME NEW k, table' = [table EXCEPT ![h].locks = k], \E code : Return(c, code)
      PROVE  Owned'
  BY <1>1, <1>2, <1>3, Returned, IdleOwns, OwnedCount DEF PromiseInv
<1>4. CASE LockInc(c) /\ Inc(table[h].locks) = 0
  <2>1. /\ table' = [table EXCEPT ![h].locks = 0] /\ frame' = frame
        /\ pc'[c] = "lock_undo" /\ \A o \in Ctxs \ {c} : pc'[o] = pc[o]
    BY <1>4, Went DEF LockInc, PromiseInv
  <2>2. table'[h].locks = 0
    BY <1>2, <2>1 DEF Entry
  <2>3. OwnOK(c)'
    BY <1>1, <1>2, <2>1, <2>2 DEF OwnOK, OwnLabels, ReLabels
  <2> QED BY <1>1, <1>2, <2>1, <2>3, OwnedCount
<1>5. CASE LockInc(c) /\ Inc(table[h].locks) # 0
  BY <1>3, <1>5 DEF LockInc
<1>6. CASE LockUndo(c) \/ UnlockDec(c)
  <2>1. table' = [table EXCEPT ![h].locks = Dec(table[h].locks)]
    BY <1>2, <1>6 DEF LockUndo, UnlockDec
  <2> QED BY <1>3, <1>6, <2>1 DEF LockUndo, UnlockDec
<1> QED BY <1>4, <1>5, <1>6

-----------------------------------------------------------------------------
\* A step that works on the blocks of the handles in T, which are nobody's or
\* the caller's.
LEMMA OwnedBlocks ==
    ASSUME PromiseInv, RaceFree, NEW c \in Ctxs, cur = c, BlockOps \cap OpsOf(c) # {},
           \A o \in Ctxs \ {c} : pc'[o] = pc[o] /\ frame'[o] = frame[o],
           NEW T \in SUBSET Handles,
           \A h \in T : /\ owner[h] \in {c, "nobody"}
                        /\ owner'[h] # "nobody" => table'[h].flags = "used",
           \A h \in Handles \ T : table'[h] = table[h] /\ owner'[h] = owner[h],
           OwnOK(c)'
    PROVE  Owned'
<1>1. OwnedIsUsed'
  BY DEF PromiseInv, Owned, OwnedIsUsed
<1>2. \A h \in Handles : owner[h] \notin {c, "nobody"} =>
                            owner'[h] = owner[h] /\ table'[h].locks = table[h].locks
  OBVIOUS
<1> QED BY <1>1, <1>2, OwnedStep

LEMMA Unowned ==
    ASSUME PromiseInv, NEW h \in Handles, table[h].flags # "used"
    PROVE  owner[h] = "nobody"
BY DEF PromiseInv, Owned, OwnedIsUsed

\* xms_alloc_emb and the new block of a reallocation.
LEMMA TakesUnowned ==
    ASSUME PromiseInv, NEW h \in Handles, table[h].flags = "free", NEW n \in Nat,
           TakeWhole(h, n) \/ TakePart(h, n)
    PROVE  \E T \in SUBSET Handles :
              /\ h \in T /\ \A j \in T : owner[j] = "nobody"
              /\ \A j \in Handles \ T : table'[j] = table[j]
              /\ table'[h].flags = "used" /\ table'[h].locks = 0
<1>1. table \in [Handles -> Entry] /\ owner[h] = "nobody"
  BY Unowned DEF PromiseInv, IInv, TypeOK
<1>2. CASE TakeWhole(h, n)
  <2>1. /\ table'[h].flags = "used" /\ table'[h].locks = 0
        /\ \A j \in Handles \ {h} : table'[j] = table[j]
    BY <1>1, <1>2 DEF TakeWhole, MarkUsed
  <2>2. {h} \in SUBSET Handles
    OBVIOUS
  <2> WITNESS {h} \in SUBSET Handles
  <2> QED BY <1>1, <2>1
<1>3. CASE TakePart(h, n)
  <2>1. PICK p \in Flagged("pool") :
          table' = [table EXCEPT
              ![h] = MarkUsed(@, n),
              ![p] = [flags |-> "free", locks |-> 0, base |-> table[h].base + n,
                      size |-> table[h].size - n]]
    BY <1>3 DEF TakePart
  <2>2. p \in Handles /\ p # h /\ owner[p] = "nobody"
    BY Unowned DEF Flagged
  <2>3. /\ table'[h].flags = "used" /\ table'[h].locks = 0
        /\ \A j \in Handles \ {h, p} : table'[j] = table[j]
    BY <1>1, <2>1, <2>2 DEF MarkUsed
  <2>4. {h, p} \in SUBSET Handles
    BY <2>2
  <2> WITNESS {h, p} \in SUBSET Handles
  <2> QED BY <1>1, <2>2, <2>3
<1> QED BY <1>2, <1>3

LEMMA OwnedAlloc ==
    ASSUME PromiseInv, RaceFree, NEW c \in Ctxs, NEW n \in Requests, NEW high \in BOOLEAN,
           AllocFit(c, n, high) \/ AllocNull(c, n, high) \/ AllocFail(c, n, high)
    PROVE  Owned'
<1>1. cur = c /\ "alloc" \in OpsOf(c) /\ n \in Nat /\ owner \in [Handles -> Ctxs \cup {"nobody"}]
  BY SizeAssumption DEF AllocFit, AllocNull, AllocFail, Call, At, PromiseInv, IInv, TypeOK
<1>2. BlockOps \cap OpsOf(c) # {}
  BY <1>1 DEF BlockOps
<1>3. /\ \A o \in Ctxs \ {c} : pc'[o] = pc[o] /\ frame'[o] = frame[o]
      /\ OwnOK(c)'
  BY Returned, IdleOwns DEF AllocFit, AllocNull, AllocFail, PromiseInv
<1>4. CASE AllocFit(c, n, high)
  <2>1. PICK h \in Fits(n, high) : /\ TakeWhole(h, n) \/ TakePart(h, n)
                                   /\ owner' = [owner EXCEPT ![h] = c]
    BY <1>4 DEF AllocFit
  <2>2. h \in Handles /\ table[h].flags = "free"
    BY DEF Fits, Flagged
  <2>3. PICK T \in SUBSET Handles :
              /\ h \in T /\ \A j \in T : owner[j] = "nobody"
              /\ \A j \in Handles \ T : table'[j] = table[j]
              /\ table'[h].flags = "used" /\ table'[h].locks = 0
    BY <1>1, <2>1, <2>2, TakesUnowned
  <2>4. /\ \A j \in T : /\ owner[j] \in {c, "nobody"}
                        /\ owner'[j] # "nobody" => table'[j].flags = "used"
        /\ \A j \in Handles \ T : table'[j] = table[j] /\ owner'[j] = owner[j]
    BY <1>1, <2>1, <2>3
  <2> QED BY <1>1, <1>2, <1>3, <2>4, OwnedBlocks
<1>5. CASE AllocNull(c, n, high)
  <2>1. PICK p \in Flagged("pool") : /\ table' = [table EXCEPT ![p] = MarkUsed(@, @.size)]
                                     /\ owner' = [owner EXCEPT ![p] = c]
    BY <1>5 DEF AllocNull
  <2>2. p \in Handles /\ owner[p] = "nobody"
    BY Unowned DEF Flagged
  <2>3. /\ table'[p].flags = "used"
        /\ \A j \in Handles \ {p} : table'[j] = table[j] /\ owner'[j] = owner[j]
    BY <2>1, <2>2 DEF MarkUsed, PromiseInv, IInv, TypeOK
  <2>4. {p} \in SUBSET Handles
    BY <2>2
  <2> QED BY <1>1, <1>2, <1>3, <2>2, <2>3, <2>4, OwnedBlocks
<1>6. CASE AllocFail(c, n, high)
  BY <1>1, <1>6, OwnedReturn DEF AllocFail
<1> QED BY <1>4, <1>5, <1>6

\* xms_free_emb at work; a merge leaves every handle but its two alone.
LEMMA FreeAt ==
    ASSUME NEW c \in Ctxs, FreeBegin(c) \/ FreeMerge(c) \/ FreeEnd(c)
    PROVE  cur = c /\ pc[c] \in {"free_begin", "free_scan"}
<1>1. CASE FreeBegin(c)
  BY <1>1 DEF FreeBegin, At
<1>2. CASE FreeMerge(c)
  BY <1>2 DEF FreeMerge, At
<1>3. CASE FreeEnd(c)
  BY <1>3 DEF FreeEnd, At
<1> QED BY <1>1, <1>2, <1>3

LEMMA MergeElsewhere ==
    ASSUME NEW c \in Ctxs, table \in [Handles -> Entry], FreeMerge(c)
    PROVE  \A j \in Handles \ {frame[c].i, frame[c].h} : table'[j] = table[j]
<1>1. ASSUME NEW low, NEW high PROVE \A j \in Handles \ {low, high} : Merge(low, high)[j] = table[j]
  BY DEF Merge
<1>2. \E low \in {frame[c].i, frame[c].h}, high \in {frame[c].i, frame[c].h} :
         table' = Merge(low, high)
  BY Zenon DEF FreeMerge
<1> QED BY <1>1, <1>2

LEMMA MergesFree ==
    ASSUME PromiseInv, NEW c \in Ctxs, FreeMerge(c)
    PROVE  frame[c].i \in Handles /\ owner[frame[c].i] = "nobody"
<1>1. /\ frame[c].i \in 0 .. NumHandles + 1 /\ frame[c].left \in Nat /\ frame[c].left > 0
      /\ pc[c] = "free_scan" /\ ScanOK(c) /\ NumHandles \in Nat
  BY SizeAssumption DEF FreeMerge, At, PromiseInv, IInv, TypeOK, Frame
<1>2. frame[c].i \in Handles
  BY <1>1 DEF ScanOK, Handles
<1>3. table[frame[c].i].flags = "free"
  BY DEF FreeMerge, Adjacent
<1> QED BY <1>2, <1>3, Unowned

\* Freeing gives the handle back before its block is merged with its neighbours.
LEMMA OwnedFree ==
    ASSUME PromiseInv, RaceFree, NEW c \in Ctxs,
           FreeBegin(c) \/ FreeMerge(c) \/ FreeEnd(c)
    PROVE  Owned'
<1> DEFINE f == frame[c]
<1>1. /\ cur = c /\ pc[c] \in {"free_begin", "free_scan"} /\ OwnOK(c)
      /\ table \in [Handles -> Entry] /\ owner \in [Handles -> Ctxs \cup {"nobody"}]
      /\ frame \in [Ctxs -> Frame]
  BY FreeAt DEF PromiseInv, Owned, IInv, TypeOK
<1>2. /\ f.h \in Handles /\ f.op \in OpsOf(c) /\ f.op \in {"free", "realloc"}
  BY <1>1 DEF PromiseInv, IInv, FrameOK
<1>3. BlockOps \cap OpsOf(c) # {}
  BY <1>2 DEF BlockOps
<1>4. CASE FreeBegin(c)
  <2>1. /\ pc'[c] = "free_scan" /\ \A o \in Ctxs \ {c} : pc'[o] = pc[o]
    BY <1>4, Went DEF FreeBegin, PromiseInv
  <2>2. /\ frame'[c].h = f.h /\ \A o \in Ctxs \ {c} : frame'[o] = frame[o]
    BY <1>1, <1>4 DEF FreeBegin, Frame
  <2>3. /\ owner[f.h] \in {c, "nobody"}
        /\ owner'[f.h] = "nobody"
        /\ \A j \in Handles \ {f.h} : owner'[j] = owner[j]
    BY <1>1, <1>2, <1>4 DEF FreeBegin, At, OwnOK
  <2>4. OwnOK(c)'
    BY <2>1, <2>2, <2>3 DEF OwnOK, OwnLabels, ReLabels
  <2> DEFINE T == {f.h}
  <2>5. T \in SUBSET Handles /\ table' = table
    BY <1>2, <1>4 DEF FreeBegin
  <2>6. \A j \in T : /\ owner[j] \in {c, "nobody"}
                     /\ owner'[j] # "nobody" => table'[j].flags = "used"
    BY <2>3
  <2>7. \A j \in Handles \ T : table'[j] = table[j] /\ owner'[j] = owner[j]
    BY <2>3, <2>5
  <2>8. cur = c /\ \A o \in Ctxs \ {c} : pc'[o] = pc[o] /\ frame'[o] = frame[o]
    BY <1>1, <2>1, <2>2
  <2> HIDE DEF f, T
  <2> QED BY <1>3, <2>4, <2>5, <2>6, <2>7, <2>8, OwnedBlocks
<1>5. CASE FreeMerge(c)
  <2> DEFINE low  == IF f.i <= f.h THEN f.i ELSE f.h
             high == IF f.i <= f.h THEN f.h ELSE f.i
  <2>1. /\ pc'[c] = "free_scan" /\ \A o \in Ctxs \ {c} : pc'[o] = pc[o]
        /\ pc[c] = "free_scan" /\ table' = Merge(low, high)
    BY <1>5, Went DEF FreeMerge, PromiseInv, At
  <2>2. /\ frame'[c].h = low /\ \A o \in Ctxs \ {c} : frame'[o] = frame[o]
    BY <1>1, <1>5 DEF FreeMerge, Frame
  <2>3. f.i \in Handles /\ owner[f.i] = "nobody"
    BY <1>5, MergesFree
  <2>4. owner[f.i] = "nobody" /\ owner[f.h] = "nobody"
    BY <1>1, <2>1, <2>3 DEF OwnOK
  <2>5. {f.i, f.h} \in SUBSET Handles /\ low \in {f.i, f.h} /\ high \in {f.i, f.h}
    BY SMTT(60), <1>2, <2>3
  <2>6. \A j \in Handles \ {f.i, f.h} : table'[j] = table[j]
    BY <1>1, <1>5, MergeElsewhere
  <2>7. owner' = owner
    BY <1>5 DEF FreeMerge
  <2>8. OwnOK(c)'
    BY <2>1, <2>2, <2>4, <2>5, <2>7 DEF OwnOK, OwnLabels, ReLabels
  <2>9. \A j \in {f.i, f.h} : /\ owner[j] \in {c, "nobody"}
                              /\ owner'[j] # "nobody" => table'[j].flags = "used"
    BY <2>4, <2>7
  <2>10. \A j \in Handles \ {f.i, f.h} : table'[j] = table[j] /\ owner'[j] = owner[j]
    BY <2>6, <2>7
  <2>11. \A o \in Ctxs \ {c} : pc'[o] = pc[o] /\ frame'[o] = frame[o]
    BY <2>1, <2>2
  <2> HIDE DEF f, low, high
  <2> QED BY <1>1, <1>3, <2>5, <2>8, <2>9, <2>10, <2>11, OwnedBlocks
<1>6. CASE FreeEnd(c)
  <2>1. /\ \A o \in Ctxs \ {c} : pc'[o] = pc[o] /\ frame'[o] = frame[o]
        /\ OwnOK(c)'
    BY <1>6, Returned, IdleOwns DEF FreeEnd, FreeReturn, PromiseInv
  <2>2. owner[f.h] = "nobody" /\ owner' = owner
    BY <1>1, <1>6 DEF FreeEnd, At, OwnOK
  <2>3. \A j \in Handles \ {f.h} : table'[j] = table[j]
    BY <1>1, <1>6 DEF FreeEnd
  <2> DEFINE T == {f.h}
  <2>4. T \in SUBSET Handles
    BY <1>2
  <2>5. \A j \in T : /\ owner[j] \in {c, "nobody"}
                     /\ owner'[j] # "nobody" => table'[j].flags = "used"
    BY <2>2
  <2>6. \A j \in Handles \ T : table'[j] = table[j] /\ owner'[j] = owner[j]
    BY <2>2, <2>3
  <2>7. cur = c
    BY <1>1
  <2> HIDE DEF f, T
  <2> QED BY <1>3, <2>1, <2>4, <2>5, <2>6, <2>7, OwnedBlocks
<1> QED BY SMTT(60), <1>4, <1>5, <1>6

\* A reallocation at work: the caller's block is unlocked, its successor or the
\* new block is nobody's.
LEMMA ReallocOwns ==
    ASSUME PromiseInv, RaceFree, NEW c \in Ctxs, At(c, pc[c]), pc[c] \in ReLabels
    PROVE  /\ cur = c /\ BlockOps \cap OpsOf(c) # {}
           /\ frame[c].h \in Handles /\ owner[frame[c].h] = c /\ c # "nobody"
           /\ frame[c].h = frame[c].arg /\ table[frame[c].h].flags = "used"
           /\ pc[c] # "re_lock" => table[frame[c].h].locks = 0
           /\ pc[c] \in {"re_fit", "re_w1", "re_w2", "re_w3", "re_w4", "re_w5",
                         "re_move", "re_swap", "re_free"} =>
                 /\ frame[c].nh \in Handles /\ frame[c].nh # frame[c].h
                 /\ owner[frame[c].nh] = "nobody"
           /\ pc[c] \in {"re_move", "re_swap"} => /\ table[frame[c].nh].flags = "used"
                                                  /\ table[frame[c].nh].locks = 0
           /\ table \in [Handles -> Entry] /\ frame \in [Ctxs -> Frame]
<1>1. FrameOK(c) /\ WriteOK(c) /\ OwnOK(c) /\ TypeOK
  BY DEF PromiseInv, IInv, Owned
<1>2. frame[c].op \in OpsOf(c) /\ frame[c].op = "realloc"
  BY <1>1 DEF FrameOK, ReLabels
<1>3. cur = c /\ BlockOps \cap OpsOf(c) # {} /\ c # "nobody"
  BY <1>2 DEF At, BlockOps, Ctxs
<1>4. pc[c] \in {"re_fit", "re_w1", "re_w2", "re_w3", "re_w4", "re_w5"} =>
         frame[c].nh \in Handles /\ table[frame[c].nh].flags # "used"
  BY <1>1 DEF FrameOK, WriteOK
<1>5. pc[c] \in {"re_fit", "re_w1", "re_w2", "re_w3", "re_w4", "re_w5"} =>
         owner[frame[c].nh] = "nobody"
  BY <1>4, Unowned
<1> QED BY <1>1, <1>3, <1>5 DEF FrameOK, WriteOK, OwnOK, OwnLabels, ReLabels, TypeOK

\* A reallocation writes to its own block and to the blocks in T, and goes on.
WritesOwn(c, T) ==
    LET h == frame[c].h
    IN  /\ At(c, pc[c]) /\ pc[c] \in ReLabels \ {"re_lock"} /\ owner' = owner
        /\ h \notin T /\ \A k \in T : owner[k] = "nobody"
        /\ \A k \in Handles \ (T \cup {h}) : table'[k] = table[k]
        /\ table'[h].flags = "used" /\ table'[h].locks = 0
        /\ \A o \in Ctxs \ {c} : pc'[o] = pc[o] /\ frame'[o] = frame[o]
        /\ \/ pc'[c] = "idle"
           \/ /\ pc'[c] \in Writing
              /\ frame'[c].h = h /\ frame'[c].arg = frame[c].arg
           \/ /\ pc'[c] \in {"re_move", "re_free"}
              /\ frame'[c].h = h /\ frame'[c].arg = frame[c].arg
              /\ frame'[c].nh \in T /\ table'[frame'[c].nh].locks = 0

LEMMA OwnedWrite ==
    ASSUME PromiseInv, RaceFree, NEW c \in Ctxs, NEW T \in SUBSET Handles, WritesOwn(c, T)
    PROVE  Owned'
<1> DEFINE h == frame[c].h
<1>1. /\ cur = c /\ BlockOps \cap OpsOf(c) # {} /\ h \in Handles /\ owner[h] = c
      /\ h = frame[c].arg
  BY ReallocOwns DEF WritesOwn
<1>2. OwnOK(c)'
  BY <1>1 DEF OwnOK, OwnLabels, ReLabels, Writing, WritesOwn
<1>3. T \cup {h} \in SUBSET Handles
  BY <1>1
<1>4. \A k \in T \cup {h} : /\ owner[k] \in {c, "nobody"}
                            /\ owner'[k] # "nobody" => table'[k].flags = "used"
  BY <1>1 DEF WritesOwn
<1>5. \A k \in Handles \ (T \cup {h}) : table'[k] = table[k] /\ owner'[k] = owner[k]
  BY DEF WritesOwn
<1>6. \A o \in Ctxs \ {c} : pc'[o] = pc[o] /\ frame'[o] = frame[o]
  BY DEF WritesOwn
<1> HIDE DEF h
<1> QED BY <1>1, <1>2, <1>3, <1>4, <1>5, <1>6, OwnedBlocks

LEMMA ReallocInPlace ==
    ASSUME PromiseInv, RaceFree, NEW c \in Ctxs,
           \/ ReallocSetSize(c) \/ ReallocMoveBase(c) \/ ReallocTrimRest(c)
           \/ ReallocPool(c) \/ ReallocClear(c)
    PROVE  \E T \in SUBSET Handles : WritesOwn(c, T)
<1> DEFINE f == frame[c]
<1>1. /\ At(c, pc[c]) /\ pc[c] \in {"re_w1", "re_w2", "re_w3", "re_w4", "re_w5"}
      /\ owner' = owner
  BY DEF ReallocSetSize, ReallocMoveBase, ReallocTrimRest, ReallocPool, ReallocClear, At
<1>2. /\ f.h \in Handles /\ f.nh \in Handles /\ f.nh # f.h
      /\ owner[f.nh] = "nobody" /\ table[f.h].flags = "used" /\ table[f.h].locks = 0
      /\ table \in [Handles -> Entry] /\ frame \in [Ctxs -> Frame]
  BY <1>1, ReallocOwns DEF ReLabels
<1>3. /\ table'[f.h].flags = "used" /\ table'[f.h].locks = 0
      /\ \A k \in Handles \ {f.nh, f.h} : table'[k] = table[k]
  <2>1. CASE ReallocSetSize(c)
    BY <1>2, <2>1 DEF ReallocSetSize, Entry
  <2>2. CASE ~ReallocSetSize(c)
    BY <1>2, <2>2 DEF ReallocMoveBase, ReallocTrimRest, ReallocPool, ReallocClear
  <2> QED BY <2>1, <2>2
<1>4. /\ \A o \in Ctxs \ {c} : pc'[o] = pc[o] /\ frame'[o] = frame[o]
      /\ \/ pc'[c] = "idle"
         \/ /\ pc'[c] \in Writing
            /\ frame'[c].h = frame[c].h /\ frame'[c].arg = frame[c].arg
  <2>1. CASE \E code : Return(c, code)
    BY <2>1, Returned DEF PromiseInv
  <2>2. CASE ~\E code : Return(c, code)
    <3>1. /\ frame'[c].h = frame[c].h /\ frame'[c].arg = frame[c].arg
          /\ \A o \in Ctxs \ {c} : frame'[o] = frame[o]
      BY <1>2, <2>2 DEF ReallocSetSize, ReallocMoveBase, ReallocTrimRest, ReallocPool,
                        ReallocClear, Frame
    <3>2. \E l \in Writing : Goto(c, l)
      BY <2>2 DEF ReallocSetSize, ReallocMoveBase, ReallocTrimRest, ReallocPool,
                  ReallocClear, Writing
    <3> QED BY <3>1, <3>2, Went DEF PromiseInv
  <2> QED BY <2>1, <2>2
<1>5. {f.nh} \in SUBSET Handles /\ f.h \notin {f.nh}
  BY <1>2
<1>6. \A k \in Handles \ ({f.nh} \cup {f.h}) : table'[k] = table[k]
  BY <1>3
<1>7. pc[c] \in ReLabels \ {"re_lock"} /\ \A k \in {f.nh} : owner[k] = "nobody"
  BY <1>1, <1>2 DEF ReLabels
<1>8. table'[f.h].flags = "used" /\ table'[f.h].locks = 0
  BY <1>3
<1> QED BY <1>1, <1>4, <1>5, <1>6, <1>7, <1>8 DEF WritesOwn

LEMMA ReallocElsewhere ==
    ASSUME PromiseInv, RaceFree, NEW c \in Ctxs,
           ReallocSplit(c) \/ ReallocGrow(c) \/ ReallocSwap(c)
    PROVE  \E T \in SUBSET Handles : WritesOwn(c, T)
<1> DEFINE f == frame[c]
<1>1. /\ At(c, pc[c]) /\ pc[c] \in {"re_split", "re_grow", "re_swap"} /\ owner' = owner
  BY DEF ReallocSplit, ReallocGrow, ReallocSwap, At
<1>2. /\ f.h \in Handles /\ owner[f.h] = c /\ c # "nobody"
      /\ table[f.h].flags = "used" /\ table[f.h].locks = 0
      /\ table \in [Handles -> Entry] /\ frame \in [Ctxs -> Frame]
  BY <1>1, ReallocOwns DEF ReLabels
<1>3. CASE ReallocSplit(c)
  <2>1. PICK p \in Flagged("pool") :
             table' = [table EXCEPT
                  ![f.h].size = f.n,
                  ![p] = [flags |-> "free", locks |-> @.locks,
                          base |-> table[f.h].base + f.n, size |-> f.d]]
    BY <1>3 DEF ReallocSplit
  <2>2. p \in Handles /\ owner[p] = "nobody" /\ p # f.h
    BY <1>2, Unowned DEF Flagged
  <2>3. /\ table'[f.h].flags = "used" /\ table'[f.h].locks = 0
        /\ \A k \in Handles \ ({p} \cup {f.h}) : table'[k] = table[k]
    BY <1>2, <2>1, <2>2 DEF Entry
  <2>4. /\ pc'[c] = "idle" /\ \A o \in Ctxs \ {c} : pc'[o] = pc[o] /\ frame'[o] = frame[o]
    BY <1>3, Returned DEF ReallocSplit, PromiseInv
  <2>5. {p} \in SUBSET Handles /\ f.h \notin {p}
    BY <2>2
  <2> QED BY <1>1, <2>2, <2>3, <2>4, <2>5 DEF WritesOwn, ReLabels
<1>4. CASE ReallocGrow(c)
  <2>1. PICK h \in GrowFits(c) : /\ TakeWhole(h, f.n) \/ TakePart(h, f.n)
                                 /\ frame' = [frame EXCEPT ![c].nh = h]
    BY <1>4 DEF ReallocGrow
  <2>2. h \in Handles /\ table[h].flags = "free" /\ f.n \in Nat
    BY <1>2 DEF GrowFits, Fits, Flagged, Frame
  <2>3. PICK T \in SUBSET Handles :
              /\ h \in T /\ \A j \in T : owner[j] = "nobody"
              /\ \A j \in Handles \ T : table'[j] = table[j]
              /\ table'[h].flags = "used" /\ table'[h].locks = 0
    BY <2>1, <2>2, TakesUnowned
  <2>4. f.h \notin T /\ table'[f.h] = table[f.h]
    BY <1>2, <2>3
  <2>5. /\ pc'[c] = "re_move" /\ \A o \in Ctxs \ {c} : pc'[o] = pc[o]
    BY <1>4, Went DEF ReallocGrow, PromiseInv
  <2>6. /\ frame'[c].h = frame[c].h /\ frame'[c].arg = frame[c].arg /\ frame'[c].nh = h
        /\ \A o \in Ctxs \ {c} : frame'[o] = frame[o]
    BY <1>2, <2>1 DEF Frame
  <2> QED BY <1>1, <1>2, <2>3, <2>4, <2>5, <2>6 DEF WritesOwn, ReLabels
<1>5. CASE ReallocSwap(c)
  <2>1. /\ f.nh \in Handles /\ f.nh # f.h /\ owner[f.nh] = "nobody"
        /\ table[f.nh].flags = "used" /\ table[f.nh].locks = 0
    BY <1>1, <1>5, ReallocOwns DEF ReLabels, ReallocSwap, At
  <2>2. /\ table'[f.h] = table[f.nh] /\ table'[f.nh] = table[f.h]
        /\ \A k \in Handles \ ({f.nh} \cup {f.h}) : table'[k] = table[k]
    BY <1>2, <1>5, <2>1 DEF ReallocSwap
  <2>3. /\ pc'[c] = "re_free" /\ \A o \in Ctxs \ {c} : pc'[o] = pc[o]
    BY <1>5, Went DEF ReallocSwap, PromiseInv
  <2>4. frame' = frame
    BY <1>5 DEF ReallocSwap
  <2>5. {f.nh} \in SUBSET Handles /\ f.h \notin {f.nh}
    BY <2>1
  <2> QED BY <1>1, <1>2, <2>1, <2>2, <2>3, <2>4, <2>5 DEF WritesOwn, ReLabels
<1> QED BY <1>3, <1>4, <1>5

LEMMA OwnedInv ==
    ASSUME PromiseInv, RaceFree, Private, [Next]_vars
    PROVE  PromiseInv'
<1>1. IInv'
  BY StepInv DEF PromiseInv
<1>2. CASE UNCHANGED vars
  <2>1. Owned'
    BY <1>2 DEF vars, PromiseInv, Owned, OwnedIsUsed, OwnOK, OwnLabels
  <2> QED BY <1>1, <2>1 DEF PromiseInv
<1>3. CASE Interrupt \/ Iret
  <2>1. Owned'
    BY <1>3 DEF Interrupt, Iret, PromiseInv, Owned, OwnedIsUsed, OwnOK, OwnLabels
  <2> QED BY <1>1, <2>1 DEF PromiseInv
<1>4. ASSUME NEW c \in Ctxs, Step(c) PROVE Owned'
  <2>1. CASE Alloc(c)
    BY <2>1, OwnedAlloc DEF Alloc
  <2>2. CASE Lock(c)
    BY <2>2, OwnedCheck, OwnedLock DEF Lock
  <2>3. CASE Unlock(c)
    BY <2>3, OwnedCheck, OwnedLock, OwnedTest DEF Unlock
  <2>4. CASE FreeEmb(c)
    BY <2>4, OwnedCheck, OwnedTest, OwnedFree DEF FreeEmb
  <2>5. CASE Realloc(c)
    BY <2>5, OwnedCheck, OwnedReallocPlain, OwnedReallocFree, OwnedWrite,
       ReallocInPlace, ReallocElsewhere DEF Realloc
  <2> QED BY <1>4, <2>1, <2>2, <2>3, <2>4, <2>5 DEF Step
<1> QED BY <1>1, <1>2, <1>3, <1>4 DEF Next, PromiseInv

\* No client owns a handle that is not in use, and what a call has found out about
\* the handle it works on still holds when it acts on it.
THEOREM HandlesAreOwned == ASSUME RaceFree, Private PROVE Spec => []PromiseInv
<1>1. ASSUME Init PROVE PromiseInv
  <2>1. IInv
    BY <1>1, InitInv
  <2>2. Owned
    BY <1>1 DEF Init, Owned, OwnedIsUsed, OwnOK, OwnLabels, ReLabels
  <2> QED BY <2>1, <2>2 DEF PromiseInv
<1>2. PromiseInv /\ [Next]_vars => PromiseInv'
  BY OwnedInv
<1> QED BY <1>1, <1>2, PTL DEF Spec

-----------------------------------------------------------------------------
\* The memory a client holds is its own: used blocks are what they will be, and
\* those do not overlap.
LEMMA HeldSound ==
    PromiseInv => \A h \in Handles : owner[h] # "nobody" => Allocator!Sound(Held, h)
<1> SUFFICES ASSUME PromiseInv, NEW h \in Handles, owner[h] # "nobody"
             PROVE  Allocator!Sound(Held, h)
  OBVIOUS
<1>1. \A k \in Handles : owner[k] # "nobody" => Final[k].base = table[k].base
                                                /\ Final[k].size = table[k].size
  <2> SUFFICES ASSUME NEW k \in Handles, owner[k] # "nobody", NEW c \in Ctxs
               PROVE  After(c)[k] = table[k]
    BY DEF Final, Ctxs
  <2>1. table[k].flags = "used" /\ table \in [Handles -> Entry]
    BY DEF PromiseInv, Owned, OwnedIsUsed, IInv, TypeOK
  <2>2. pc[c] \in Writing => frame[c].nh \in Handles /\ table[frame[c].nh].flags # "used"
    BY DEF PromiseInv, IInv, FrameOK, WriteOK, Writing
  <2> QED BY <2>1, <2>2 DEF After
<1>2. \A k \in Handles :
        Allocator!Run(Held[k]) = IF owner[k] = "nobody" THEN {} ELSE Block(Final, k)
  BY <1>1 DEF Held, Allocator!Run, Block
<1>3. Block(Final, h) \subseteq Managed
  BY DEF PromiseInv, IInv, TableOK, CoveredIn
<1>4. \A k \in Handles \ {h} : Block(Final, h) \cap Block(Final, k) = {}
  BY DEF PromiseInv, IInv, TableOK, DisjointIn
<1> QED BY <1>2, <1>3, <1>4 DEF Allocator!Sound

LEMMA HeldSoundNext ==
    (PromiseInv => \A h \in Handles : owner[h] # "nobody" => Allocator!Sound(Held, h))'
BY HeldSound, PTL

\* What is seen of a handle whose owner is not inside a lock that overflowed.
SeesTable(h) ==
    Held[h] = [base |-> table[h].base, size |-> table[h].size, locks |-> table[h].locks]

LEMMA HeldOwn ==
    PromiseInv => \A c \in Ctxs, h \in Handles :
                     owner[h] = c /\ pc[c] # "lock_undo" => SeesTable(h)
<1> SUFFICES ASSUME PromiseInv, NEW c \in Ctxs, NEW h \in Handles,
                    owner[h] = c, pc[c] # "lock_undo"
             PROVE  SeesTable(h)
  OBVIOUS
<1>1. \A o \in Ctxs : ~(pc[o] = "lock_undo" /\ frame[o].h = h)
  BY DEF PromiseInv, Owned, OwnOK, OwnLabels
<1>2. owner[h] # "nobody"
  BY DEF Ctxs
<1> QED BY <1>1, <1>2 DEF SeesTable, Held

LEMMA HeldOwnNext ==
    (PromiseInv => \A c \in Ctxs, h \in Handles :
                      owner[h] = c /\ pc[c] # "lock_undo" => SeesTable(h))'
BY HeldOwn, PTL

LEMMA HeldNobody ==
    ASSUME NEW h \in Handles
    PROVE  /\ owner[h] = "nobody" => Held[h] = Allocator!NotHeld
           /\ owner'[h] = "nobody" => Held'[h] = Allocator!NotHeld
BY DEF Held, Allocator!NotHeld

\* Outside S a step changes nothing that clients see.
LEMMA Unseen ==
    ASSUME PromiseInv, NEW c \in Ctxs,
           pc[c] # "lock_undo", pc'[c] # "lock_undo",
           \A o \in Ctxs \ {c} : pc'[o] = pc[o] /\ frame'[o] = frame[o],
           NEW S \in SUBSET Handles,
           \A k \in Handles \ S : /\ owner'[k] = owner[k]
                                  /\ owner[k] = "nobody" \/ table'[k] = table[k]
    PROVE  \A k \in Handles \ S : Held'[k] = Held[k]
<1> SUFFICES ASSUME NEW k \in Handles \ S PROVE Held'[k] = Held[k]
  OBVIOUS
<1>1. (\E o \in Ctxs : pc[o] = "lock_undo" /\ frame[o].h = k)
        <=> (\E o \in Ctxs : pc'[o] = "lock_undo" /\ frame'[o].h = k)
  OBVIOUS
<1>2. CASE owner[k] = "nobody"
  BY <1>2, HeldNobody
<1>3. CASE owner[k] # "nobody"
  <2>1. owner'[k] = owner[k] /\ table'[k] = table[k]
    BY <1>3
  <2> QED BY <1>1, <1>3, <2>1 DEF Held
<1> QED BY <1>2, <1>3

LEMMA Stutters ==
    ASSUME \A k \in Handles : Held'[k] = Held[k]
    PROVE  [Allocator!Next]_Held
<1>1. Held' = Held
  BY DEF Held
<1> QED BY <1>1

LEMMA UnseenStep ==
    ASSUME PromiseInv, NEW c \in Ctxs,
           pc[c] # "lock_undo", pc'[c] # "lock_undo",
           \A o \in Ctxs \ {c} : pc'[o] = pc[o] /\ frame'[o] = frame[o],
           \A k \in Handles : /\ owner'[k] = owner[k]
                              /\ owner[k] = "nobody" \/ table'[k] = table[k]
    PROVE  [Allocator!Next]_Held
<1>1. \A k \in Handles \ {} : Held'[k] = Held[k]
  BY Unseen
<1> QED BY <1>1, Stutters

-----------------------------------------------------------------------------
\* Steps that change neither table nor owners are not seen.
LEMMA PlainUnseen ==
    ASSUME PromiseInv, table' = table, owner' = owner, NEW c \in Ctxs, At(c, pc[c]),
           pc[c] # "lock_undo",
           \/ \E code : Return(c, code)
           \/ /\ \E l \in Labels \ {"lock_undo"} : Goto(c, l)
              /\ \A o \in Ctxs \ {c} : frame'[o] = frame[o]
    PROVE  [Allocator!Next]_Held
<1>1. /\ pc'[c] # "lock_undo"
      /\ \A o \in Ctxs \ {c} : pc'[o] = pc[o] /\ frame'[o] = frame[o]
  BY Returned, Went DEF PromiseInv
<1> QED BY <1>1, UnseenStep

LEMMA EnterUnseen ==
    ASSUME PromiseInv, NEW c \in Ctxs, NEW op, NEW h, NEW n,
           NEW l \in Labels \ {"lock_undo"}, Enter(c, op, h, n, l)
    PROVE  [Allocator!Next]_Held
<1>1. /\ At(c, pc[c]) /\ pc[c] # "lock_undo" /\ table' = table /\ owner' = owner
  BY DEF Enter, Call, At
<1>2. CASE table[h].flags = "used"
  <2>1. \A o \in Ctxs \ {c} : frame'[o] = frame[o]
    BY <1>2 DEF Enter, PromiseInv, IInv, TypeOK
  <2> QED BY <1>1, <1>2, <2>1, PlainUnseen DEF Enter
<1>3. CASE table[h].flags # "used"
  BY <1>1, <1>3, PlainUnseen DEF Enter
<1> QED BY <1>2, <1>3

LEMMA CheckUnseen ==
    ASSUME PromiseInv, NEW c \in Ctxs, NEW h \in Handles,
           \/ \E op \in {"lock", "slock"} : LockCheck(c, op, h)
           \/ LockBeyond4G(c, h) \/ UnlockCheck(c, h) \/ FreeCheck(c, h)
           \/ \E n \in Requests : ReallocCheck(c, h, n)
    PROVE  [Allocator!Next]_Held
<1>1. CASE LockBeyond4G(c, h)
  BY <1>1, PlainUnseen DEF LockBeyond4G, Call, At
<1>2. CASE \E op, n : \E l \in Labels \ {"lock_undo"} : Enter(c, op, h, n, l)
  BY <1>2, EnterUnseen
<1> QED BY <1>1, <1>2 DEF LockCheck, UnlockCheck, FreeCheck, ReallocCheck, Labels

LEMMA TestUnseen ==
    ASSUME PromiseInv, NEW c \in Ctxs,
           \/ \E n \in Requests, high \in BOOLEAN : AllocFail(c, n, high)
           \/ UnlockTest(c) \/ FreeLock(c) \/ FreeSkip(c)
           \/ ReallocLock(c) \/ ReallocLoad(c) \/ ReallocScan(c) \/ ReallocFit(c)
           \/ ReallocSize(c) \/ ReallocNoHandle(c) \/ ReallocNoMem(c) \/ ReallocMove(c)
           \/ ReallocFree(c)
    PROVE  [Allocator!Next]_Held
<1>1. /\ At(c, pc[c]) /\ pc[c] # "lock_undo" /\ table' = table /\ owner' = owner
  BY DEF AllocFail, Call, UnlockTest, FreeLock, FreeSkip, ReallocLock, ReallocLoad,
         ReallocScan, ReallocFit, ReallocSize, ReallocNoHandle, ReallocNoMem, ReallocMove,
         ReallocFree, At
<1>2. CASE \E code : Return(c, code)
  BY <1>1, <1>2, PlainUnseen
<1>3. CASE ~\E code : Return(c, code)
  <2>1. \E l \in Labels \ {"lock_undo"} : Goto(c, l)
    BY <1>3 DEF AllocFail, UnlockTest, FreeLock, FreeReturn, FreeSkip, ReallocLock,
         ReallocLoad, ReallocScan, ReallocFit, ReallocSize, ReallocNoHandle, ReallocNoMem,
         ReallocMove, ReallocFree, Labels
  <2>2. \A o \in Ctxs \ {c} : frame'[o] = frame[o]
    BY <1>3 DEF AllocFail, UnlockTest, FreeLock, FreeReturn, FreeSkip, ReallocLock,
         ReallocLoad, ReallocScan, ReallocFit, ReallocSize, ReallocNoHandle, ReallocNoMem,
         ReallocMove, ReallocFree, PromiseInv, IInv, TypeOK
  <2> QED BY <1>1, <2>1, <2>2, PlainUnseen
<1> QED BY <1>2, <1>3

-----------------------------------------------------------------------------
\* Locks are counted up or down by one, and not at all where the byte overflows.
LEMMA LockPromised ==
    ASSUME PromiseInv, PromiseInv', NEW c \in Ctxs,
           LockInc(c) \/ LockUndo(c) \/ UnlockDec(c)
    PROVE  [Allocator!Next]_Held
<1> DEFINE h == frame[c].h
<1>1. /\ pc[c] \in {"lock_inc", "lock_undo", "unlock_dec"} /\ owner' = owner
  BY SMTT(60) DEF LockInc, LockUndo, UnlockDec, At
<1>2. /\ h \in Handles /\ owner[h] = c /\ c # "nobody"
      /\ table \in [Handles -> Entry] /\ table[h].locks \in 0 .. LockMod - 1
      /\ pc[c] = "lock_undo" => table[h].locks = 0
      /\ pc[c] = "unlock_dec" => table[h].locks > 0
      /\ \A o \in Ctxs \ {c} : ~(pc[o] = "lock_undo" /\ frame[o].h = h)
  BY <1>1 DEF PromiseInv, IInv, FrameOK, Owned, OwnOK, OwnLabels, TypeOK, Entry, Ctxs
<1>3. PICK k : /\ table' = [table EXCEPT ![h].locks = k]
               /\ k = IF pc[c] = "lock_inc" THEN Inc(table[h].locks) ELSE Dec(table[h].locks)
  <2>1. CASE LockInc(c)
    BY <2>1, Zenon DEF LockInc, At
  <2>2. CASE LockUndo(c)
    BY <2>2 DEF LockUndo, At
  <2>3. CASE UnlockDec(c)
    BY <2>3 DEF UnlockDec, At
  <2> QED BY <2>1, <2>2, <2>3
<1>4. /\ table'[h].base = table[h].base /\ table'[h].size = table[h].size
      /\ table'[h].locks = k
      /\ \A j \in Handles \ {h} : table'[j] = table[j]
  BY <1>2, <1>3 DEF Entry
<1>5. /\ \A o \in Ctxs \ {c} : pc'[o] = pc[o] /\ frame'[o] = frame[o]
      /\ \/ pc'[c] = "idle"
         \/ /\ pc[c] = "lock_inc" /\ k = 0
            /\ pc'[c] = "lock_undo" /\ frame'[c] = frame[c]
      /\ pc[c] = "lock_inc" /\ k = 0 => pc'[c] = "lock_undo"
  BY <1>1, <1>3, Returned, Went DEF LockInc, LockUndo, UnlockDec, At, PromiseInv
<1>6. \A j \in Handles \ {h} : Held'[j] = Held[j]
  <2> SUFFICES ASSUME NEW j \in Handles \ {h} PROVE Held'[j] = Held[j]
    OBVIOUS
  <2>1. (\E o \in Ctxs : pc[o] = "lock_undo" /\ frame[o].h = j)
          <=> (\E o \in Ctxs : pc'[o] = "lock_undo" /\ frame'[o].h = j)
    BY <1>1, <1>5
  <2> QED BY <1>1, <1>4, <2>1 DEF Held
<1>7. /\ Held[h].base = table[h].base /\ Held[h].size = table[h].size
      /\ Held[h].locks = IF pc[c] = "lock_undo" THEN LockMod - 1 ELSE table[h].locks
  BY SMTT(60), <1>2 DEF Held
<1>8. /\ Held'[h].base = table[h].base /\ Held'[h].size = table[h].size
      /\ Held'[h].locks = IF pc'[c] = "lock_undo" THEN LockMod - 1 ELSE k
      /\ Held'[h] = [base |-> table[h].base, size |-> table[h].size,
                     locks |-> IF pc'[c] = "lock_undo" THEN LockMod - 1 ELSE k]
  <2>1. (\E o \in Ctxs : pc'[o] = "lock_undo" /\ frame'[o].h = h) <=> pc'[c] = "lock_undo"
    BY <1>2, <1>5
  <2> QED BY <1>1, <1>2, <1>4, <2>1 DEF Held
<1>9. Held[h] = [base |-> table[h].base, size |-> table[h].size,
                 locks |-> IF pc[c] = "lock_undo" THEN LockMod - 1 ELSE table[h].locks]
  BY <1>2 DEF Held
<1>10. LockMod \in Nat \ {0, 1}
  BY SizeAssumption
<1> HIDE DEF h
<1>11. CASE pc[c] = "lock_undo" \/ pc'[c] = "lock_undo"
  <2>1. Held'[h] = Held[h]
    BY <1>1, <1>2, <1>3, <1>5, <1>8, <1>9, <1>10, <1>11 DEF Inc, Dec
  <2> QED BY <1>6, <2>1, Stutters
<1>12. CASE pc[c] # "lock_undo" /\ pc'[c] # "lock_undo"
  <2>1. \/ Held'[h].locks = Held[h].locks + 1
        \/ Held[h].locks > 0 /\ Held'[h].locks = Held[h].locks - 1
    BY <1>1, <1>2, <1>3, <1>5, <1>7, <1>8, <1>10, <1>12 DEF Inc, Dec
  <2>2. Allocator!CountLock(h)
    BY <1>2, <1>7, <1>8, <1>12, <2>1 DEF Allocator!CountLock, Allocator!IsHeld
  <2>3. Allocator!OnlyChanges(h)
    BY <1>6 DEF Allocator!OnlyChanges
  <2> QED BY <1>2, <2>2, <2>3 DEF Allocator!Next
<1> QED BY <1>11, <1>12

LEMMA AllocPromised ==
    ASSUME PromiseInv, PromiseInv', NEW c \in Ctxs, NEW n \in Requests, NEW high \in BOOLEAN,
           AllocFit(c, n, high) \/ AllocNull(c, n, high)
    PROVE  [Allocator!Next]_Held
<1>1. /\ n \in Nat /\ table \in [Handles -> Entry]
      /\ owner \in [Handles -> Ctxs \cup {"nobody"}] /\ c # "nobody"
      /\ pc[c] = "idle"
  BY SizeAssumption DEF PromiseInv, IInv, TypeOK, Ctxs, AllocFit, AllocNull, Call, At
<1>2. \E h \in Handles, T \in SUBSET Handles :
         /\ h \in T /\ \A j \in T : owner[j] = "nobody"
         /\ \A j \in Handles \ T : table'[j] = table[j]
         /\ table'[h].locks = 0
         /\ owner' = [owner EXCEPT ![h] = c]
  <2>1. CASE AllocFit(c, n, high)
    <3>1. PICK h \in Fits(n, high) : /\ TakeWhole(h, n) \/ TakePart(h, n)
                                     /\ owner' = [owner EXCEPT ![h] = c]
      BY <2>1 DEF AllocFit
    <3>2. h \in Handles /\ table[h].flags = "free"
      BY DEF Fits, Flagged
    <3> QED BY <1>1, <3>1, <3>2, TakesUnowned
  <2>2. CASE AllocNull(c, n, high)
    <3>1. PICK p \in Flagged("pool") : /\ table' = [table EXCEPT ![p] = MarkUsed(@, @.size)]
                                       /\ owner' = [owner EXCEPT ![p] = c]
      BY <2>2 DEF AllocNull
    <3>2. p \in Handles /\ owner[p] = "nobody"
      BY Unowned DEF Flagged
    <3>3. /\ table'[p].locks = 0 /\ \A j \in Handles \ {p} : table'[j] = table[j]
      BY <1>1, <3>1, <3>2 DEF MarkUsed
    <3>4. {p} \in SUBSET Handles
      BY <3>2
    <3> QED BY <3>1, <3>2, <3>3, <3>4
  <2> QED BY <2>1, <2>2
<1>3. PICK h \in Handles, T \in SUBSET Handles :
         /\ h \in T /\ \A j \in T : owner[j] = "nobody"
         /\ \A j \in Handles \ T : table'[j] = table[j]
         /\ table'[h].locks = 0
         /\ owner' = [owner EXCEPT ![h] = c]
  BY <1>2
<1>4. /\ pc'[c] = "idle" /\ \A o \in Ctxs \ {c} : pc'[o] = pc[o] /\ frame'[o] = frame[o]
  BY Returned DEF PromiseInv, AllocFit, AllocNull
<1>5. \A k \in Handles \ {h} : Held'[k] = Held[k]
  <2>1. \A k \in Handles \ {h} : /\ owner'[k] = owner[k]
                                 /\ owner[k] = "nobody" \/ table'[k] = table[k]
    BY <1>1, <1>3
  <2>2. {h} \in SUBSET Handles
    OBVIOUS
  <2> QED BY <1>1, <1>4, <2>1, <2>2, Unseen
<1>6. owner'[h] = c
  BY <1>1, <1>3
<1>7. Held'[h].locks = 0
  <2>1. SeesTable(h)'
    BY <1>4, <1>6, HeldOwnNext
  <2> QED BY <1>3, <2>1 DEF SeesTable
<1>8. Allocator!Sound(Held', h)
  BY <1>1, <1>6, HeldSoundNext
<1>9. ~Allocator!IsHeld(h)
  BY <1>3, HeldNobody DEF Allocator!IsHeld, Allocator!NotHeld
<1>10. Allocator!Grant(h) /\ Allocator!OnlyChanges(h)
  BY <1>5, <1>7, <1>8, <1>9 DEF Allocator!Grant, Allocator!OnlyChanges
<1> QED BY <1>10 DEF Allocator!Next

\* A handle is given back before its block is merged, and that is not seen.
LEMMA FreePromised ==
    ASSUME PromiseInv, PromiseInv', NEW c \in Ctxs,
           FreeBegin(c) \/ FreeMerge(c) \/ FreeEnd(c)
    PROVE  [Allocator!Next]_Held
<1> DEFINE f == frame[c]
<1>1. /\ table \in [Handles -> Entry] /\ frame \in [Ctxs -> Frame] /\ OwnOK(c)
      /\ owner \in [Handles -> Ctxs \cup {"nobody"}]
      /\ pc[c] \in {"free_begin", "free_scan"} /\ f.h \in Handles
  BY FreeAt DEF PromiseInv, IInv, TypeOK, Owned, FrameOK
<1>2. /\ pc'[c] # "lock_undo"
      /\ \A o \in Ctxs \ {c} : pc'[o] = pc[o] /\ frame'[o] = frame[o]
  <2>1. IInv
    BY DEF PromiseInv
  <2> HIDE DEF f
  <2>2. CASE FreeEnd(c)
    <3>1. \E code : Return(c, code)
      BY <2>2 DEF FreeEnd, FreeReturn
    <3> QED BY <2>1, <3>1, Returned
  <2>3. CASE FreeBegin(c) \/ FreeMerge(c)
    <3>1. \A o \in Ctxs \ {c} : frame'[o] = frame[o]
      <4>1. CASE FreeBegin(c)
        BY <1>1, <4>1 DEF FreeBegin
      <4>2. CASE FreeMerge(c)
        <5>1. \E g : frame' = [frame EXCEPT ![c] = g]
          BY <4>2 DEF FreeMerge
        <5> QED BY <1>1, <5>1
      <4> QED BY <2>3, <4>1, <4>2
    <3>2. Goto(c, "free_scan")
      BY Zenon, <2>3 DEF FreeBegin, FreeMerge
    <3> QED BY <2>1, <3>1, <3>2, Went
  <2> QED BY <2>2, <2>3
<1>3. CASE FreeBegin(c)
  <2>1. /\ table' = table /\ pc[c] = "free_begin"
        /\ owner' = IF f.op = "free" THEN [owner EXCEPT ![f.arg] = "nobody"] ELSE owner
    BY <1>3 DEF FreeBegin, At
  <2>2. CASE f.op = "free"
    <3>1. owner[f.h] = c /\ f.h = f.arg /\ table[f.h].locks = 0
      BY <1>1, <2>1, <2>2 DEF OwnOK
    <3>2. owner'[f.h] = "nobody" /\ \A k \in Handles \ {f.h} : owner'[k] = owner[k]
      BY <1>1, <2>1, <2>2, <3>1
    <3>3. \A k \in Handles \ {f.h} : Held'[k] = Held[k]
      <4>1. {f.h} \in SUBSET Handles
        BY <1>1
      <4> QED BY <1>1, <1>2, <2>1, <3>2, <4>1, Unseen
    <3>4. Held[f.h].locks = 0
      <4>1. SeesTable(f.h)
        BY <1>1, <2>1, <3>1, HeldOwn
      <4> QED BY <3>1, <4>1 DEF SeesTable
    <3>5. Held'[f.h] = Allocator!NotHeld
      BY <1>1, <3>2, HeldNobody
    <3>6. Allocator!Release(f.h) /\ Allocator!OnlyChanges(f.h)
      BY <3>3, <3>4, <3>5 DEF Allocator!Release, Allocator!OnlyChanges
    <3> QED BY <1>1, <3>6 DEF Allocator!Next
  <2>3. CASE f.op # "free"
    BY <1>1, <1>2, <2>1, <2>3, UnseenStep
  <2> QED BY <2>2, <2>3
<1>4. CASE FreeMerge(c) \/ FreeEnd(c)
  <2>1. owner' = owner /\ pc[c] = "free_scan" /\ owner[f.h] = "nobody"
    <3>1. owner' = owner /\ pc[c] = "free_scan"
      BY <1>4 DEF FreeMerge, FreeEnd, At
    <3> QED BY <1>1, <3>1 DEF OwnOK
  <2>2. \A k \in Handles : owner[k] = "nobody" \/ table'[k] = table[k]
    <3>1. CASE FreeEnd(c)
      BY <1>1, <2>1, <3>1 DEF FreeEnd
    <3>2. CASE FreeMerge(c)
      <4>1. f.i \in Handles /\ owner[f.i] = "nobody"
        BY SMTT(60), <3>2, MergesFree
      <4>2. \A k \in Handles \ {f.i, f.h} : table'[k] = table[k]
        BY <1>1, <3>2, MergeElsewhere
      <4> QED BY <2>1, <4>1, <4>2
    <3> QED BY <1>4, <3>1, <3>2
  <2> QED BY <1>1, <1>2, <2>1, <2>2, UnseenStep
<1> QED BY SMTT(60), <1>3, <1>4

\* A reallocation changes one unlocked block, at its first write or not at all.
LEMMA ReallocPromised ==
    ASSUME PromiseInv, PromiseInv', RaceFree, NEW c \in Ctxs,
           NEW T \in SUBSET Handles, WritesOwn(c, T)
    PROVE  [Allocator!Next]_Held
<1> PICK h \in Handles : h = frame[c].h
  BY ReallocOwns DEF WritesOwn
<1>1. /\ owner[h] = c /\ c # "nobody" /\ table[h].locks = 0
      /\ pc[c] # "lock_undo" /\ pc'[c] # "lock_undo"
      /\ owner'[h] = c /\ table'[h].locks = 0
  BY ReallocOwns DEF WritesOwn, ReLabels, Writing
<1>2. \A k \in Handles \ {h} : Held'[k] = Held[k]
  <2>1. /\ \A k \in Handles \ {h} : /\ owner'[k] = owner[k]
                                    /\ owner[k] = "nobody" \/ table'[k] = table[k]
        /\ \A o \in Ctxs \ {c} : pc'[o] = pc[o] /\ frame'[o] = frame[o]
    BY DEF WritesOwn
  <2>2. {h} \in SUBSET Handles
    OBVIOUS
  <2> QED BY <1>1, <2>1, <2>2, Unseen
<1>3. Held[h].locks = 0
  <2>1. SeesTable(h)
    BY <1>1, HeldOwn
  <2> QED BY <1>1, <2>1 DEF SeesTable
<1>4. Held'[h].locks = 0
  <2>1. SeesTable(h)'
    BY <1>1, HeldOwnNext
  <2> QED BY <1>1, <2>1 DEF SeesTable
<1>5. Allocator!Sound(Held', h)
  BY <1>1, HeldSoundNext
<1>6. Allocator!Reallocate(h) /\ Allocator!OnlyChanges(h)
  BY <1>2, <1>3, <1>4, <1>5 DEF Allocator!Reallocate, Allocator!OnlyChanges
<1> QED BY <1>1, <1>6 DEF Allocator!Next

LEMMA StepPromised ==
    ASSUME PromiseInv, PromiseInv', RaceFree, [Next]_vars
    PROVE  [Allocator!Next]_Held
<1>1. CASE UNCHANGED <<table, owner, pc, frame>>
  BY <1>1 DEF Held
<1>2. CASE Interrupt \/ Iret \/ UNCHANGED vars
  BY <1>1, <1>2 DEF Interrupt, Iret, vars
<1>3. ASSUME NEW c \in Ctxs, Step(c) PROVE [Allocator!Next]_Held
  <2>1. CASE Alloc(c)
    BY <2>1, AllocPromised, TestUnseen DEF Alloc
  <2>2. CASE Lock(c)
    BY <2>2, CheckUnseen, LockPromised DEF Lock
  <2>3. CASE Unlock(c)
    BY <2>3, CheckUnseen, TestUnseen, LockPromised DEF Unlock
  <2>4. CASE FreeEmb(c)
    BY <2>4, CheckUnseen, TestUnseen, FreePromised DEF FreeEmb
  <2>5. CASE Realloc(c)
    BY <2>5, CheckUnseen, TestUnseen, ReallocInPlace, ReallocElsewhere, ReallocPromised
    DEF Realloc
  <2> QED BY <1>3, <2>1, <2>2, <2>3, <2>4, <2>5 DEF Step
<1> QED BY <1>2, <1>3 DEF Next

\* The handle table keeps the promise XmsAllocator states to clients that pass only
\* their own handles: whatever is allocated, freed, locked and resized in what order,
\* by the main program and its interrupt routines.
THEOREM PromiseIsKept == ASSUME RaceFree, Private PROVE Spec => KeepsPromise
<1>1. Init => Allocator!Init
  BY HeldNobody DEF Init, Held, Allocator!Init, Allocator!NotHeld
<1>2. PromiseInv /\ PromiseInv' /\ [Next]_vars => [Allocator!Next]_Held
  BY StepPromised
<1>3. Spec => []PromiseInv
  BY HandlesAreOwned
<1> QED BY <1>1, <1>2, <1>3, PTL DEF Spec, KeepsPromise, Allocator!Spec

-----------------------------------------------------------------------------
(***************************************************************************)
(* A reallocation that reports success delivers.  Clients may pass handles *)
(* they do not own here; interrupt routines may lock them meanwhile.       *)
(***************************************************************************)

\* What is known of a context that does not move.
LEMMA DeliverKept ==
    ASSUME DeliverInv, RaceFree, NEW c \in Ctxs, cur = c,
           \A o \in Ctxs \ {c} : pc'[o] = pc[o] /\ frame'[o] = frame[o],
           \/ BlockOps \cap OpsOf(c) # {}
           \/ \A h \in Handles : /\ table'[h].flags = table[h].flags
                                 /\ table'[h].size = table[h].size
    PROVE  \A o \in Ctxs \ {c} : DeliverOK(o)'
<1> SUFFICES ASSUME NEW o \in Ctxs \ {c} PROVE DeliverOK(o)'
  OBVIOUS
<1>1. /\ DeliverOK(o) /\ FrameOK(o) /\ pc'[o] = pc[o] /\ frame'[o] = frame[o]
  BY DEF DeliverInv, IInv
<1>2. CASE BlockOps \cap OpsOf(c) # {}
  <2>1. /\ pc[o] \notin ReLabels \cup {"free_scan"}
        /\ pc[o] # "idle" => frame[o].op # "realloc"
    BY <1>2, NoOtherRealloc DEF DeliverInv
  <2> QED BY <1>1, <2>1 DEF DeliverOK, ReLabels, Writing
<1>3. CASE \A h \in Handles : /\ table'[h].flags = table[h].flags
                              /\ table'[h].size = table[h].size
  <2>1. /\ pc[o] # "idle" => frame[o].h \in Handles
        /\ pc[o] \in {"re_move", "re_swap", "re_free"} => frame[o].nh \in Handles
    BY <1>1 DEF FrameOK
  <2> QED BY <1>1, <1>3, <2>1 DEF DeliverOK, ReLabels, Writing
<1> QED BY <1>2, <1>3

LEMMA DeliverStep ==
    ASSUME DeliverInv, IInv', RaceFree, NEW c \in Ctxs, cur = c,
           \A o \in Ctxs \ {c} : pc'[o] = pc[o] /\ frame'[o] = frame[o],
           \/ BlockOps \cap OpsOf(c) # {}
           \/ \A h \in Handles : /\ table'[h].flags = table[h].flags
                                 /\ table'[h].size = table[h].size,
           DeliverOK(c)'
    PROVE  DeliverInv'
<1>1. \A o \in Ctxs \ {c} : DeliverOK(o)'
  BY DeliverKept
<1> QED BY <1>1 DEF DeliverInv

\* The end of a call.
LEMMA DeliverReturn ==
    ASSUME DeliverInv, IInv', RaceFree, NEW c \in Ctxs, cur = c, NEW code, Return(c, code),
           \/ BlockOps \cap OpsOf(c) # {}
           \/ \A h \in Handles : /\ table'[h].flags = table[h].flags
                                 /\ table'[h].size = table[h].size
    PROVE  DeliverInv'
<1>1. /\ pc'[c] = "idle" /\ frame'[c] = NoFrame
      /\ \A o \in Ctxs \ {c} : pc'[o] = pc[o] /\ frame'[o] = frame[o]
  BY Returned DEF DeliverInv
<1>2. DeliverOK(c)'
  BY <1>1 DEF DeliverOK, ReLabels, Writing, NoFrame, CallFrame
<1> QED BY <1>1, <1>2, DeliverStep

LEMMA DeliverEnter ==
    ASSUME DeliverInv, IInv', RaceFree, NEW c \in Ctxs, NEW op, NEW h, NEW n,
           NEW l \in {"lock_inc", "unlock_test", "free_lock", "re_lock"},
           l = "re_lock" <=> op = "realloc",
           Enter(c, op, h, n, l)
    PROVE  DeliverInv'
<1>1. cur = c /\ table' = table
  BY DEF Enter, Call, At
<1>2. CASE table[h].flags = "used"
  <2>1. /\ pc'[c] = l /\ frame'[c] = CallFrame(op, h, n)
        /\ \A o \in Ctxs \ {c} : pc'[o] = pc[o] /\ frame'[o] = frame[o]
    BY <1>2, Went DEF Enter, DeliverInv, IInv, TypeOK
  <2>2. DeliverOK(c)'
    BY <2>1 DEF DeliverOK, ReLabels, Writing, CallFrame
  <2> QED BY <1>1, <2>1, <2>2, DeliverStep
<1>3. CASE table[h].flags # "used"
  BY <1>1, <1>3, DeliverReturn DEF Enter
<1> QED BY <1>2, <1>3

LEMMA DeliverCheck ==
    ASSUME DeliverInv, IInv', RaceFree, NEW c \in Ctxs, NEW h \in Handles,
           \/ \E op \in {"lock", "slock"} : LockCheck(c, op, h)
           \/ LockBeyond4G(c, h) \/ UnlockCheck(c, h) \/ FreeCheck(c, h)
           \/ \E n \in Requests : ReallocCheck(c, h, n)
    PROVE  DeliverInv'
<1>1. CASE LockBeyond4G(c, h)
  BY <1>1, DeliverReturn DEF LockBeyond4G, Call, At
<1>2. CASE ~LockBeyond4G(c, h)
  BY <1>2, DeliverEnter DEF LockCheck, UnlockCheck, FreeCheck, ReallocCheck
<1> QED BY <1>1, <1>2

\* Locks have no part in it.
LEMMA DeliverLock ==
    ASSUME DeliverInv, IInv', RaceFree, NEW c \in Ctxs,
           LockInc(c) \/ LockUndo(c) \/ UnlockTest(c) \/ UnlockDec(c)
    PROVE  DeliverInv'
<1>1. /\ cur = c /\ DeliverOK(c) /\ table \in [Handles -> Entry]
      /\ pc[c] \in {"lock_inc", "lock_undo", "unlock_test", "unlock_dec"}
  BY DEF LockInc, LockUndo, UnlockTest, UnlockDec, At, DeliverInv, IInv, TypeOK
<1>2. \A h \in Handles : /\ table'[h].flags = table[h].flags
                         /\ table'[h].size = table[h].size
  <2>1. CASE LockInc(c)
    BY <1>1, <2>1 DEF LockInc, Entry
  <2>2. CASE LockUndo(c) \/ UnlockDec(c)
    BY <1>1, <2>2 DEF LockUndo, UnlockDec, Entry
  <2>3. CASE UnlockTest(c)
    BY <2>3 DEF UnlockTest
  <2> QED BY <2>1, <2>2, <2>3
<1>3. CASE \E code : Return(c, code)
  BY <1>1, <1>2, <1>3, DeliverReturn
<1>4. CASE ~\E code : Return(c, code)
  <2>1. frame' = frame /\ (Goto(c, "lock_undo") \/ Goto(c, "unlock_dec"))
    BY <1>4 DEF LockInc, LockUndo, UnlockTest, UnlockDec
  <2>2. /\ frame' = frame /\ pc'[c] \in {"lock_undo", "unlock_dec"}
        /\ \A o \in Ctxs \ {c} : pc'[o] = pc[o]
    BY <2>1, Went DEF DeliverInv
  <2>3. DeliverOK(c)'
    BY <1>1, <2>2 DEF DeliverOK, ReLabels, Writing
  <2> QED BY <1>1, <1>2, <2>2, <2>3, DeliverStep
<1> QED BY <1>3, <1>4

LEMMA DeliverAlloc ==
    ASSUME DeliverInv, IInv', RaceFree, NEW c \in Ctxs, NEW n, NEW high,
           AllocFit(c, n, high) \/ AllocNull(c, n, high) \/ AllocFail(c, n, high)
    PROVE  DeliverInv'
<1>1. cur = c /\ BlockOps \cap OpsOf(c) # {}
  BY DEF AllocFit, AllocNull, AllocFail, Call, At, BlockOps
<1> QED BY <1>1, DeliverReturn DEF AllocFit, AllocNull, AllocFail

\* xms_free_emb: the block of a reallocation is not the one it frees.
LEMMA DeliverFree ==
    ASSUME DeliverInv, IInv', RaceFree, NEW c \in Ctxs,
           FreeLock(c) \/ FreeBegin(c) \/ FreeSkip(c) \/ FreeMerge(c) \/ FreeEnd(c)
    PROVE  DeliverInv'
<1> DEFINE f == frame[c]
<1>1. /\ cur = c /\ DeliverOK(c) /\ table \in [Handles -> Entry] /\ frame \in [Ctxs -> Frame]
      /\ pc[c] \in {"free_lock", "free_begin", "free_scan"}
  <2>1. CASE FreeLock(c) \/ FreeSkip(c)
    BY <2>1 DEF FreeLock, FreeSkip, At, DeliverInv, IInv, TypeOK
  <2>2. CASE FreeBegin(c) \/ FreeMerge(c) \/ FreeEnd(c)
    BY <2>2, FreeAt DEF DeliverInv, IInv, TypeOK
  <2> QED BY <2>1, <2>2
<1>2. /\ f.h \in Handles /\ f.op \in OpsOf(c) /\ f.op \in {"free", "realloc"}
  BY <1>1 DEF DeliverInv, IInv, FrameOK
<1>3. BlockOps \cap OpsOf(c) # {}
  BY <1>2 DEF BlockOps
<1>4. CASE \E code : Return(c, code)
  BY <1>1, <1>3, <1>4, DeliverReturn
<1>5. CASE ~\E code : Return(c, code)
  <2>1. /\ Goto(c, "free_begin") \/ Goto(c, "free_scan")
        /\ ~FreeEnd(c)
    <3>1. ~FreeEnd(c)
      BY <1>5 DEF FreeEnd, FreeReturn
    <3>2. CASE FreeLock(c)
      BY <1>5, <3>1, <3>2 DEF FreeLock, FreeReturn
    <3>3. CASE FreeBegin(c)
      <4>1. Goto(c, "free_scan")
        BY <3>3 DEF FreeBegin
      <4> QED BY <3>1, <4>1
    <3>4. CASE FreeSkip(c)
      <4>1. Goto(c, "free_scan")
        BY <3>4 DEF FreeSkip
      <4> QED BY <3>1, <4>1
    <3>5. CASE FreeMerge(c)
      <4>1. Goto(c, "free_scan")
        BY <3>5 DEF FreeMerge
      <4> QED BY <3>1, <4>1
    <3> QED BY <3>1, <3>2, <3>3, <3>4, <3>5
  <2>2. pc'[c] \in {"free_begin", "free_scan"} /\ \A o \in Ctxs \ {c} : pc'[o] = pc[o]
    BY <2>1, Went DEF DeliverInv
  <2>3. /\ frame'[c].op = f.op /\ frame'[c].arg = f.arg /\ frame'[c].n = f.n
        /\ \A o \in Ctxs \ {c} : frame'[o] = frame[o]
    <3>1. CASE FreeLock(c)
      BY <1>5, <3>1 DEF FreeLock, FreeReturn
    <3>2. CASE FreeBegin(c)
      BY <1>1, <3>2 DEF FreeBegin, Frame
    <3>3. CASE FreeSkip(c)
      BY <1>1, <3>3 DEF FreeSkip, Frame
    <3>4. CASE FreeMerge(c)
      BY <1>1, <3>4 DEF FreeMerge, Frame
    <3> QED BY <2>1, <3>1, <3>2, <3>3, <3>4
  <2>4. f.op = "realloc" => /\ f.arg \in Handles \ {frame'[c].h}
                            /\ table'[f.arg] = table[f.arg]
    <3>1. CASE FreeMerge(c)
      <4>1. table[f.i].flags = "free" /\ frame'[c].h \in {f.h, f.i}
        BY <1>1, <3>1 DEF FreeMerge, Adjacent, Frame
      <4>2. f.op = "realloc" => f.arg \in Handles \ {f.h, f.i}
        BY SMTT(60), <1>1, <4>1 DEF DeliverOK
      <4>3. \A k \in Handles \ {f.h, f.i} : table'[k] = table[k]
        BY <1>1, <3>1, MergeElsewhere
      <4> QED BY <4>1, <4>2, <4>3
    <3>2. CASE FreeLock(c) \/ FreeBegin(c) \/ FreeSkip(c)
      <4>1. table' = table /\ frame'[c].h = f.h
        <5>1. CASE FreeLock(c)
          BY <1>5, <5>1 DEF FreeLock, FreeReturn
        <5>2. CASE FreeBegin(c)
          BY <1>1, <5>2 DEF FreeBegin, Frame
        <5>3. CASE FreeSkip(c)
          BY <1>1, <5>3 DEF FreeSkip, Frame
        <5> QED BY <3>2, <5>1, <5>2, <5>3
      <4> QED BY <1>1, <4>1 DEF DeliverOK
    <3> QED BY <2>1, <3>1, <3>2
  <2>5. DeliverOK(c)'
    BY <1>1, <2>2, <2>3, <2>4 DEF DeliverOK, ReLabels, Writing
  <2> QED BY SMTT(60), <1>1, <1>3, <2>2, <2>3, <2>5, DeliverStep
<1> QED BY SMTT(60), <1>4, <1>5

\* What FrameOK and WriteOK say of a reallocation at work.
LEMMA DeliverContext ==
    ASSUME DeliverInv, NEW c \in Ctxs, At(c, pc[c]), pc[c] \in ReLabels
    PROVE  /\ cur = c /\ BlockOps \cap OpsOf(c) # {} /\ DeliverOK(c)
           /\ frame[c].h \in Handles /\ frame[c].h = frame[c].arg /\ frame[c].op = "realloc"
           /\ frame[c].n \in Nat
           /\ table[frame[c].h].flags = "used"
           /\ pc[c] \in {"re_fit", "re_w1", "re_w2", "re_w3", "re_w4", "re_w5",
                         "re_move", "re_swap", "re_free"} =>
                 frame[c].nh \in Handles /\ frame[c].nh # frame[c].h
           /\ table \in [Handles -> Entry] /\ frame \in [Ctxs -> Frame]
<1>1. FrameOK(c) /\ DeliverOK(c) /\ TypeOK
  BY DEF DeliverInv, IInv
<1>2. frame[c].op \in OpsOf(c) /\ frame[c].op = "realloc"
  BY <1>1 DEF FrameOK, ReLabels
<1>3. cur = c /\ BlockOps \cap OpsOf(c) # {} /\ frame[c].n \in Nat
  BY <1>1, <1>2 DEF At, BlockOps, TypeOK, Frame
<1> QED BY <1>1, <1>2, <1>3 DEF FrameOK, DeliverOK, ReLabels, TypeOK

\* xms_ext_realloc_emb between its writes.
LEMMA DeliverReallocPlain ==
    ASSUME DeliverInv, IInv', RaceFree, NEW c \in Ctxs,
           \/ ReallocLock(c) \/ ReallocLoad(c) \/ ReallocScan(c) \/ ReallocFit(c)
           \/ ReallocSize(c) \/ ReallocNoHandle(c) \/ ReallocNoMem(c) \/ ReallocMove(c)
    PROVE  DeliverInv'
<1>1. /\ At(c, pc[c]) /\ table' = table
      /\ pc[c] \in {"re_lock", "re_load", "re_scan", "re_fit", "re_size", "re_split",
                    "re_grow", "re_move"}
  BY DEF ReallocLock, ReallocLoad, ReallocScan, ReallocFit, ReallocSize, ReallocNoHandle,
         ReallocNoMem, ReallocMove, At
<1>2. /\ cur = c /\ BlockOps \cap OpsOf(c) # {} /\ DeliverOK(c) /\ frame \in [Ctxs -> Frame]
      /\ frame[c].h = frame[c].arg
  BY <1>1, DeliverContext DEF ReLabels
<1>3. CASE \E code : Return(c, code)
  BY <1>2, <1>3, DeliverReturn
<1>4. CASE ~\E code : Return(c, code)
  <2>1. \E l \in {"re_load", "re_scan", "re_fit", "re_size", "re_grow", "re_w1",
                  "re_split", "re_swap"} : Goto(c, l) /\ (l = "re_swap" <=> ReallocMove(c))
    BY <1>4 DEF ReallocLock, ReallocLoad, ReallocScan, ReallocFit, ReallocSize,
         ReallocNoHandle, ReallocNoMem, ReallocMove, At
  <2>2. /\ frame'[c].h = frame[c].h /\ frame'[c].arg = frame[c].arg
        /\ frame'[c].n = frame[c].n
        /\ ReallocMove(c) => frame'[c].nh = frame[c].nh
        /\ \A o \in Ctxs \ {c} : frame'[o] = frame[o]
    BY <1>2, <1>4 DEF ReallocLock, ReallocLoad, ReallocScan, ReallocFit, ReallocSize,
         ReallocNoHandle, ReallocNoMem, ReallocMove, Frame, At
  <2>3. /\ pc'[c] \in {"re_load", "re_scan", "re_fit", "re_size", "re_grow", "re_w1",
                       "re_split", "re_swap"}
        /\ pc'[c] = "re_swap" => pc[c] = "re_move" /\ ReallocMove(c)
        /\ \A o \in Ctxs \ {c} : pc'[o] = pc[o]
    BY <2>1, Went DEF ReallocMove, At, DeliverInv
  <2>4. DeliverOK(c)'
    BY <1>1, <1>2, <2>2, <2>3 DEF DeliverOK, ReLabels, Writing
  <2> QED BY <1>2, <2>2, <2>3, <2>4, DeliverStep
<1> QED BY <1>3, <1>4

\* A write of an in-place reallocation: from the first on the block has the size
\* asked for.
LEMMA DeliverInPlace ==
    ASSUME DeliverInv, NEW c \in Ctxs,
           \/ ReallocSetSize(c) \/ ReallocMoveBase(c) \/ ReallocTrimRest(c)
           \/ ReallocPool(c) \/ ReallocClear(c)
    PROVE  /\ table'[frame[c].h].size = frame[c].n
           /\ table'[frame[c].h].flags = "used"
<1>1. At(c, pc[c]) /\ pc[c] \in {"re_w1", "re_w2", "re_w3", "re_w4", "re_w5"}
  BY DEF ReallocSetSize, ReallocMoveBase, ReallocTrimRest, ReallocPool, ReallocClear, At
<1>2. /\ frame[c].h \in Handles /\ frame[c].nh # frame[c].h /\ DeliverOK(c)
      /\ table \in [Handles -> Entry] /\ table[frame[c].h].flags = "used"
  BY <1>1, DeliverContext DEF ReLabels
<1>3. CASE ReallocSetSize(c)
  BY <1>2, <1>3 DEF ReallocSetSize, Entry
<1>4. CASE ~ReallocSetSize(c)
  <2>1. table'[frame[c].h] = table[frame[c].h] /\ pc[c] \in Writing
    BY <1>2, <1>4 DEF ReallocMoveBase, ReallocTrimRest, ReallocPool, ReallocClear, At, Writing
  <2> QED BY <1>2, <2>1 DEF DeliverOK
<1> QED BY <1>3, <1>4

LEMMA DeliverWrite ==
    ASSUME DeliverInv, IInv', RaceFree, NEW c \in Ctxs,
           \/ ReallocSetSize(c) \/ ReallocMoveBase(c) \/ ReallocTrimRest(c)
           \/ ReallocPool(c) \/ ReallocClear(c)
    PROVE  DeliverInv'
<1>1. At(c, pc[c]) /\ pc[c] \in {"re_w1", "re_w2", "re_w3", "re_w4", "re_w5"}
  BY DEF ReallocSetSize, ReallocMoveBase, ReallocTrimRest, ReallocPool, ReallocClear, At
<1>2. /\ cur = c /\ BlockOps \cap OpsOf(c) # {} /\ frame \in [Ctxs -> Frame]
      /\ frame[c].h = frame[c].arg
  BY <1>1, DeliverContext DEF ReLabels
<1>3. CASE \E code : Return(c, code)
  BY <1>2, <1>3, DeliverReturn
<1>4. CASE ~\E code : Return(c, code)
  <2>1. \E l \in Writing : Goto(c, l)
    BY <1>4 DEF ReallocSetSize, ReallocMoveBase, ReallocTrimRest, ReallocPool,
                ReallocClear, Writing
  <2>2. /\ frame'[c].h = frame[c].h /\ frame'[c].arg = frame[c].arg
        /\ frame'[c].n = frame[c].n
        /\ \A o \in Ctxs \ {c} : frame'[o] = frame[o]
    BY <1>2, <1>4 DEF ReallocSetSize, ReallocMoveBase, ReallocTrimRest, ReallocPool,
                      ReallocClear, Frame
  <2>3. pc'[c] \in Writing /\ \A o \in Ctxs \ {c} : pc'[o] = pc[o]
    BY <2>1, Went DEF DeliverInv
  <2>4. table'[frame[c].h].size = frame[c].n
    BY DeliverInPlace
  <2>5. DeliverOK(c)'
    BY <1>2, <2>2, <2>3, <2>4 DEF DeliverOK, ReLabels, Writing
  <2> QED BY <1>2, <2>2, <2>3, <2>5, DeliverStep
<1> QED BY <1>3, <1>4

LEMMA DeliverElsewhere ==
    ASSUME DeliverInv, IInv', RaceFree, NEW c \in Ctxs,
           ReallocSplit(c) \/ ReallocGrow(c) \/ ReallocSwap(c) \/ ReallocFree(c)
    PROVE  DeliverInv'
<1> DEFINE f == frame[c]
<1>1. At(c, pc[c]) /\ pc[c] \in {"re_split", "re_grow", "re_swap", "re_free"}
  BY DEF ReallocSplit, ReallocGrow, ReallocSwap, ReallocFree, At
<1>2. /\ cur = c /\ BlockOps \cap OpsOf(c) # {} /\ DeliverOK(c)
      /\ f.h \in Handles /\ f.h = f.arg /\ f.n \in Nat /\ table[f.h].flags = "used"
      /\ pc[c] \in {"re_swap", "re_free"} => f.nh \in Handles /\ f.nh # f.h
      /\ table \in [Handles -> Entry] /\ frame \in [Ctxs -> Frame]
  BY <1>1, DeliverContext DEF ReLabels
<1>3. CASE \E code : Return(c, code)
  BY <1>2, <1>3, DeliverReturn
<1>4. CASE ReallocGrow(c)
  <2>1. PICK h \in GrowFits(c) : /\ TakeWhole(h, f.n) \/ TakePart(h, f.n)
                                 /\ frame' = [frame EXCEPT ![c].nh = h]
    BY <1>4 DEF ReallocGrow
  <2>2. h \in Handles /\ table[h].flags = "free" /\ f.n <= table[h].size
    BY DEF GrowFits, Fits, Flagged
  <2>3. table'[h].size >= f.n
    <3>1. CASE TakeWhole(h, f.n)
      BY <1>2, <2>2, <3>1 DEF TakeWhole, MarkUsed, Entry
    <3>2. CASE TakePart(h, f.n)
      <4>1. PICK p \in Flagged("pool") :
              table' = [table EXCEPT
                  ![h] = MarkUsed(@, f.n),
                  ![p] = [flags |-> "free", locks |-> 0, base |-> table[h].base + f.n,
                          size |-> table[h].size - f.n]]
        BY <3>2 DEF TakePart
      <4>2. p # h
        BY <2>2 DEF Flagged
      <4> QED BY <1>2, <2>2, <4>1, <4>2 DEF MarkUsed
    <3> QED BY <2>1, <3>1, <3>2
  <2>4. pc'[c] = "re_move" /\ \A o \in Ctxs \ {c} : pc'[o] = pc[o]
    BY <1>4, Went DEF ReallocGrow, DeliverInv
  <2>5. /\ frame'[c].h = f.h /\ frame'[c].arg = f.arg /\ frame'[c].n = f.n /\ frame'[c].nh = h
        /\ \A o \in Ctxs \ {c} : frame'[o] = frame[o]
    BY <1>2, <2>1 DEF Frame
  <2>6. DeliverOK(c)'
    BY <1>2, <2>3, <2>4, <2>5 DEF DeliverOK, ReLabels, Writing
  <2> QED BY <1>2, <2>4, <2>5, <2>6, DeliverStep
<1>5. CASE ReallocSwap(c)
  <2>1. table'[f.h] = table[f.nh] /\ table[f.nh].size >= f.n
    BY <1>2, <1>5 DEF ReallocSwap, At, DeliverOK
  <2>2. pc'[c] = "re_free" /\ \A o \in Ctxs \ {c} : pc'[o] = pc[o]
    BY <1>5, Went DEF ReallocSwap, DeliverInv
  <2>3. frame' = frame
    BY <1>5 DEF ReallocSwap
  <2>4. DeliverOK(c)'
    BY <1>2, <2>1, <2>2, <2>3 DEF DeliverOK, ReLabels, Writing
  <2> QED BY <1>2, <2>2, <2>3, <2>4, DeliverStep
<1>6. CASE ReallocFree(c) /\ table[f.nh].flags = "used"
  <2>1. /\ frame'[c].h = f.nh /\ frame'[c].arg = f.arg /\ frame'[c].n = f.n
        /\ \A o \in Ctxs \ {c} : frame'[o] = frame[o]
    BY <1>2, <1>6 DEF ReallocFree, Frame
  <2>2. pc'[c] = "free_lock" /\ \A o \in Ctxs \ {c} : pc'[o] = pc[o]
    BY <1>6, Went DEF ReallocFree, DeliverInv
  <2>3. pc[c] = "re_free" /\ table' = table
    BY <1>6 DEF ReallocFree, At
  <2>4. DeliverOK(c)'
    BY <1>2, <2>1, <2>2, <2>3 DEF DeliverOK, ReLabels, Writing
  <2> QED BY <1>2, <2>1, <2>2, <2>4, DeliverStep
<1> QED BY <1>3, <1>4, <1>5, <1>6 DEF ReallocSplit, ReallocFree

LEMMA DeliverIsInv ==
    ASSUME DeliverInv, RaceFree, [Next]_vars
    PROVE  DeliverInv'
<1>1. IInv'
  BY StepInv DEF DeliverInv
<1>2. CASE UNCHANGED <<table, pc, frame>>
  BY <1>1, <1>2 DEF DeliverInv, DeliverOK
<1>3. CASE Interrupt \/ Iret \/ UNCHANGED vars
  BY <1>2, <1>3 DEF Interrupt, Iret, vars
<1>4. ASSUME NEW c \in Ctxs, Step(c) PROVE DeliverInv'
  <2>1. CASE Alloc(c)
    BY <1>1, <2>1, DeliverAlloc DEF Alloc
  <2>2. CASE Lock(c)
    BY <1>1, <2>2, DeliverCheck, DeliverLock DEF Lock
  <2>3. CASE Unlock(c)
    BY <1>1, <2>3, DeliverCheck, DeliverLock DEF Unlock
  <2>4. CASE FreeEmb(c)
    BY <1>1, <2>4, DeliverCheck, DeliverFree DEF FreeEmb
  <2>5. CASE Realloc(c)
    BY <1>1, <2>5, DeliverCheck, DeliverReallocPlain, DeliverWrite, DeliverElsewhere
    DEF Realloc
  <2> QED BY <1>4, <2>1, <2>2, <2>3, <2>4, <2>5 DEF Step
<1> QED BY <1>3, <1>4 DEF Next

\* A reallocation knows the size of its block at every label, whatever locks the
\* interrupt routine counts meanwhile.
THEOREM ReallocKnows == ASSUME RaceFree PROVE Spec => []DeliverInv
<1>1. ASSUME Init PROVE DeliverInv
  <2>1. IInv
    BY <1>1, InitInv
  <2>2. \A c \in Ctxs : DeliverOK(c)
    BY <1>1 DEF Init, DeliverOK, ReLabels, Writing, NoFrame, CallFrame
  <2> QED BY <2>1, <2>2 DEF DeliverInv
<1>2. DeliverInv /\ [Next]_vars => DeliverInv'
  BY DeliverIsInv
<1> QED BY <1>1, <1>2, PTL DEF Spec

Delivers(c) == /\ table'[frame[c].arg].flags = "used"
               /\ table'[frame[c].arg].size >= frame[c].n

\* The call of xms_free_emb at the end: its result is ignored, and the block it
\* frees is the old one.
LEMMA FreeDelivers ==
    ASSUME DeliverInv, NEW c \in Ctxs, frame[c].op = "realloc", FreeLock(c) \/ FreeEnd(c)
    PROVE  Delivers(c)
<1>1. /\ DeliverOK(c) /\ table \in [Handles -> Entry]
      /\ pc[c] \in {"free_lock", "free_scan"}
  BY DEF FreeLock, FreeEnd, At, DeliverInv, IInv, TypeOK
<1>2. /\ frame[c].arg \in Handles \ {frame[c].h}
      /\ table[frame[c].arg].flags = "used" /\ table[frame[c].arg].size >= frame[c].n
  BY <1>1 DEF DeliverOK
<1>3. table'[frame[c].arg] = table[frame[c].arg]
  BY <1>1, <1>2 DEF FreeLock, FreeEnd
<1> QED BY <1>2, <1>3 DEF Delivers

\* xms_ext_realloc_emb at work, past the check of its handle.
LEMMA ReallocAt ==
    ASSUME NEW c \in Ctxs, Realloc(c), pc[c] # "idle"
    PROVE  At(c, pc[c]) /\ pc[c] \in ReLabels
<1>1. ~ \E h \in Handles, n \in Requests : ReallocCheck(c, h, n)
  BY DEF ReallocCheck, Enter, Call, At
<1>2. CASE ReallocLock(c) \/ ReallocLoad(c) \/ ReallocScan(c) \/ ReallocFit(c)
  BY <1>2 DEF ReallocLock, ReallocLoad, ReallocScan, ReallocFit, At, ReLabels
<1>3. CASE ReallocSetSize(c) \/ ReallocMoveBase(c) \/ ReallocTrimRest(c)
  BY <1>3 DEF ReallocSetSize, ReallocMoveBase, ReallocTrimRest, At, ReLabels
<1>4. CASE ReallocPool(c) \/ ReallocClear(c) \/ ReallocSize(c) \/ ReallocSplit(c)
  BY <1>4 DEF ReallocPool, ReallocClear, ReallocSize, ReallocSplit, At, ReLabels
<1>5. CASE ReallocNoHandle(c) \/ ReallocGrow(c) \/ ReallocNoMem(c)
  BY <1>5 DEF ReallocNoHandle, ReallocGrow, ReallocNoMem, At, ReLabels
<1>6. CASE ReallocMove(c) \/ ReallocSwap(c) \/ ReallocFree(c)
  BY <1>6 DEF ReallocMove, ReallocSwap, ReallocFree, At, ReLabels
<1> QED BY <1>1, <1>2, <1>3, <1>4, <1>5, <1>6 DEF Realloc

LEMMA ReallocOkDelivers ==
    ASSUME DeliverInv, NEW c \in Ctxs, Realloc(c), pc[c] # "idle",
           pc'[c] = "idle", ret'[c] = "ok"
    PROVE  Delivers(c)
<1> DEFINE f == frame[c]
<1>1. /\ At(c, pc[c]) /\ pc[c] \in ReLabels
  BY ReallocAt
<1>2. /\ DeliverOK(c) /\ f.h \in Handles /\ f.h = f.arg /\ f.n \in Nat
      /\ table[f.h].flags = "used" /\ table \in [Handles -> Entry]
  BY <1>1, DeliverContext
<1>3. CASE \/ ReallocSetSize(c) \/ ReallocMoveBase(c) \/ ReallocTrimRest(c)
           \/ ReallocPool(c) \/ ReallocClear(c)
  BY <1>2, <1>3, DeliverInPlace DEF Delivers
<1>4. CASE ReallocSplit(c)
  <2>1. PICK p \in Flagged("pool") :
             table' = [table EXCEPT
                  ![f.h].size = f.n,
                  ![p] = [flags |-> "free", locks |-> @.locks,
                          base |-> table[f.h].base + f.n, size |-> f.d]]
    BY <1>4 DEF ReallocSplit
  <2>2. p # f.h
    BY <1>2 DEF Flagged
  <2>3. table'[f.h].flags = "used" /\ table'[f.h].size = f.n
    BY <1>2, <2>1, <2>2 DEF Entry
  <2> QED BY <1>2, <2>3 DEF Delivers
<1>5. CASE ReallocSize(c)
  <2>1. table' = table /\ table[f.h].size \in Nat
    BY <1>2, <1>5 DEF ReallocSize, Entry
  <2>2. table[f.h].size - f.n = 0
    BY <1>5, Went DEF ReallocSize, DeliverInv
  <2> QED BY <1>2, <2>1, <2>2 DEF Delivers
<1>6. CASE ReallocFree(c)
  <2>1. table' = table /\ pc[c] = "re_free"
    BY <1>6 DEF ReallocFree, At
  <2> QED BY <1>2, <2>1 DEF Delivers, DeliverOK
<1>7. CASE ReallocLock(c) \/ ReallocNoHandle(c) \/ ReallocNoMem(c)
  <2>1. Return(c, "fail") \/ Goto(c, "re_load")
    BY <1>7 DEF ReallocLock, ReallocNoHandle, ReallocNoMem
  <2> QED BY <2>1, Returned, Went DEF DeliverInv
<1>8. CASE ReallocLoad(c) \/ ReallocScan(c) \/ ReallocFit(c) \/ ReallocGrow(c)
           \/ ReallocMove(c) \/ ReallocSwap(c)
  <2>1. \E l \in Labels \ {"idle"} : Goto(c, l)
    BY <1>8 DEF ReallocLoad, ReallocScan, ReallocFit, ReallocGrow, ReallocMove, ReallocSwap,
                Labels
  <2> QED BY <2>1, Went DEF DeliverInv
<1>9. CASE \E h \in Handles, n \in Requests : ReallocCheck(c, h, n)
  BY <1>1, <1>9 DEF ReallocCheck, Enter, Call, At, ReLabels
<1> QED BY <1>3, <1>4, <1>5, <1>6, <1>7, <1>8, <1>9, ZenonT(60) DEF Realloc

\* A step of a context sends it to a label or makes it return.
LEMMA StepMoves ==
    ASSUME NEW c \in Ctxs, Step(c)
    PROVE  (\E l : Goto(c, l)) \/ (\E code : Return(c, code))
<1>1. CASE Alloc(c)
  BY <1>1 DEF Alloc, AllocFit, AllocNull, AllocFail
<1>2. CASE Lock(c)
  BY <1>2 DEF Lock, LockCheck, LockBeyond4G, LockInc, LockUndo, Enter
<1>3. CASE Unlock(c)
  BY SMTT(60), <1>3 DEF Unlock, UnlockCheck, UnlockTest, UnlockDec, Enter
<1>4. CASE FreeEmb(c)
  <2>1. CASE \E h \in Handles : FreeCheck(c, h)
    BY <2>1 DEF FreeCheck, Enter
  <2>2. CASE FreeLock(c) \/ FreeBegin(c)
    BY <2>2 DEF FreeLock, FreeReturn, FreeBegin
  <2>3. CASE FreeSkip(c) \/ FreeMerge(c) \/ FreeEnd(c)
    BY <2>3 DEF FreeSkip, FreeMerge, FreeEnd, FreeReturn
  <2> QED BY <1>4, <2>1, <2>2, <2>3 DEF FreeEmb
<1>5. CASE Realloc(c)
  <2>1. CASE \E h \in Handles, n \in Requests : ReallocCheck(c, h, n)
    BY <2>1 DEF ReallocCheck, Enter
  <2>2. CASE ReallocLock(c) \/ ReallocLoad(c) \/ ReallocScan(c) \/ ReallocFit(c)
    BY <2>2 DEF ReallocLock, ReallocLoad, ReallocScan, ReallocFit
  <2>3. CASE ReallocSetSize(c) \/ ReallocMoveBase(c) \/ ReallocTrimRest(c)
    BY <2>3 DEF ReallocSetSize, ReallocMoveBase, ReallocTrimRest
  <2>4. CASE ReallocPool(c) \/ ReallocClear(c) \/ ReallocSize(c) \/ ReallocSplit(c)
    BY <2>4 DEF ReallocPool, ReallocClear, ReallocSize, ReallocSplit
  <2>5. CASE ReallocNoHandle(c) \/ ReallocGrow(c) \/ ReallocNoMem(c)
    BY <2>5 DEF ReallocNoHandle, ReallocGrow, ReallocNoMem
  <2>6. CASE ReallocMove(c) \/ ReallocSwap(c) \/ ReallocFree(c)
    BY <2>6 DEF ReallocMove, ReallocSwap, ReallocFree
  <2> QED BY <1>5, <2>1, <2>2, <2>3, <2>4, <2>5, <2>6 DEF Realloc
<1> QED BY <1>1, <1>2, <1>3, <1>4, <1>5 DEF Step

LEMMA StepDelivers ==
    ASSUME DeliverInv, Next, NEW c \in Ctxs,
           frame[c].op = "realloc", pc'[c] = "idle", ret'[c] = "ok"
    PROVE  Delivers(c)
<1>1. pc[c] # "idle" /\ DeliverOK(c)
  BY DEF DeliverInv, DeliverOK
<1>2. CASE pc' = pc
  BY <1>1, <1>2
<1>3. CASE Interrupt \/ Iret
  BY <1>2, <1>3 DEF Interrupt, Iret
<1>4. ASSUME NEW o \in Ctxs, Step(o) PROVE Delivers(c)
  <2>1. o = c
    <3>1. IInv
      BY DEF DeliverInv
    <3>2. CASE \E l : Goto(o, l)
      BY <3>1, <3>2, <1>1, Went
    <3>3. CASE \E code : Return(o, code)
      BY <3>1, <3>3, <1>1, Returned
    <3> QED BY <1>4, <3>2, <3>3, StepMoves
  <2>2. pc[c] \notin {"idle", "lock_inc", "lock_undo", "unlock_test", "unlock_dec"}
    BY <1>1 DEF DeliverOK
  <2>3. ~Alloc(c) /\ ~Lock(c) /\ ~Unlock(c)
    BY <2>2 DEF Alloc, AllocFit, AllocNull, AllocFail, Lock, LockCheck, LockBeyond4G,
                LockInc, LockUndo, Unlock, UnlockCheck, UnlockTest, UnlockDec, Enter, Call, At
  <2>4. CASE FreeEmb(c)
    <3>1. ~ \E h \in Handles : FreeCheck(c, h)
      BY <1>1 DEF FreeCheck, Enter, Call, At
    <3>2. ~FreeBegin(c) /\ ~FreeSkip(c) /\ ~FreeMerge(c)
      BY Went DEF FreeBegin, FreeSkip, FreeMerge, DeliverInv
    <3> QED BY <2>4, <3>1, <3>2, FreeDelivers DEF FreeEmb
  <2>5. CASE Realloc(c)
    BY <1>1, <2>5, ReallocOkDelivers
  <2> QED BY <1>4, <2>1, <2>3, <2>4, <2>5 DEF Step
<1> QED BY <1>3, <1>4 DEF Next

\* A reallocation that reports success has the block it promises, whoever owns the
\* handle, and the old block's release cannot take it away.
THEOREM ReallocKeepsWord == ASSUME RaceFree PROVE Spec => ReallocDelivers
<1>1. DeliverInv /\ [Next]_vars =>
        [\A c \in Ctxs :
           /\ frame[c].op = "realloc" /\ pc'[c] = "idle" /\ ret'[c] = "ok"
           => /\ table'[frame[c].arg].flags = "used"
              /\ table'[frame[c].arg].size >= frame[c].n]_vars
  BY StepDelivers DEF Delivers
<1>2. Spec => []DeliverInv
  BY ReallocKnows
<1> QED BY <1>1, <1>2, PTL DEF Spec, ReallocDelivers

===============================================================================

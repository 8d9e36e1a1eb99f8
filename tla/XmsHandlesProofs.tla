-------------------------- MODULE XmsHandlesProofs --------------------------
(***************************************************************************)
(* Proofs about XmsHandles, for tables of every length, every memory map   *)
(* and every choice of the functions the two clients call that satisfies   *)
(* RaceFree.                                                               *)
(***************************************************************************)
EXTENDS XmsHandles, SequenceTheorems, TLAPS

Tables == [Handles -> Entry]

\* Blocks h and k are redrawn over the same memory; nothing else changes.
LEMMA Redraw ==
    ASSUME NEW t \in Tables, NEW u \in Tables,
           NEW h \in Handles, NEW k \in Handles, h # k,
           \A j \in Handles \ {h, k} : u[j].base = t[j].base /\ u[j].size = t[j].size,
           \A a \in Int : a \in Block(u, h) \/ a \in Block(u, k)
                          <=> a \in Block(t, h) \/ a \in Block(t, k),
           \A a \in Int : ~(a \in Block(u, h) /\ a \in Block(u, k)),
           DisjointIn(t), CoveredIn(t)
    PROVE  DisjointIn(u) /\ CoveredIn(u)
<1>1. \A j \in Handles \ {h, k} : Block(u, j) = Block(t, j)
  BY DEF Block
<1>2. \A j \in Handles : Block(u, j) \subseteq Int /\ Block(t, j) \subseteq Int
  BY DEF Block, Tables, Entry
<1>3. DisjointIn(u)
  <2> SUFFICES ASSUME NEW i \in Handles, NEW j \in Handles, i # j,
                      NEW a \in Int, a \in Block(u, i), a \in Block(u, j)
               PROVE  FALSE
    BY <1>2, Zenon DEF DisjointIn
  <2>1. CASE i \in {h, k} /\ j \in {h, k}
    BY <2>1
  <2>2. CASE i \in {h, k} /\ j \notin {h, k}
    BY <2>2, <1>1 DEF DisjointIn
  <2>3. CASE i \notin {h, k} /\ j \in {h, k}
    BY <2>3, <1>1 DEF DisjointIn
  <2>4. CASE i \notin {h, k} /\ j \notin {h, k}
    BY <2>4, <1>1 DEF DisjointIn
  <2> QED BY <2>1, <2>2, <2>3, <2>4
<1>4. \A a : (\E j \in Handles : a \in Block(u, j)) <=> (\E j \in Handles : a \in Block(t, j))
  <2> TAKE a
  <2>1. ASSUME NEW j \in Handles, a \in Block(u, j)
        PROVE  \E i \in Handles : a \in Block(t, i)
    <3>1. a \in Int
      BY <2>1, <1>2
    <3> QED BY <2>1, <3>1, <1>1
  <2>2. ASSUME NEW j \in Handles, a \in Block(t, j)
        PROVE  \E i \in Handles : a \in Block(u, i)
    <3>1. a \in Int
      BY <2>2, <1>2
    <3> QED BY <2>2, <3>1, <1>1
  <2> QED BY <2>1, <2>2
<1>5. CoveredIn(u)
  BY <1>4 DEF CoveredIn
<1> QED BY <1>3, <1>5

\* Flags and lock counters have no part in which memory a block is.
LEMMA SameMemory ==
    ASSUME NEW t, NEW u,
           \A j \in Handles : u[j].base = t[j].base /\ u[j].size = t[j].size,
           DisjointIn(t), CoveredIn(t)
    PROVE  DisjointIn(u) /\ CoveredIn(u)
<1>1. \A j \in Handles : Block(u, j) = Block(t, j)
  BY DEF Block
<1> QED BY <1>1 DEF DisjointIn, CoveredIn

\* Where k takes over from h, moving the border between them keeps everything
\* else: xms_alloc_emb cutting a block in two, a reallocation in place.
LEMMA MoveBorder ==
    ASSUME NEW t \in Tables, NEW u \in Tables,
           NEW h \in Handles, NEW k \in Handles, h # k,
           \A j \in Handles \ {h, k} : u[j].base = t[j].base /\ u[j].size = t[j].size,
           t[k].size = 0 \/ t[k].base = t[h].base + t[h].size,
           u[h].base = t[h].base,
           u[k].size = 0 \/ u[k].base = u[h].base + u[h].size,
           u[h].size + u[k].size = t[h].size + t[k].size,
           DisjointIn(t), CoveredIn(t)
    PROVE  DisjointIn(u) /\ CoveredIn(u)
<1>1. /\ t[h].base \in Nat /\ t[h].size \in Nat /\ t[k].base \in Nat /\ t[k].size \in Nat
      /\ u[h].base \in Nat /\ u[h].size \in Nat /\ u[k].base \in Nat /\ u[k].size \in Nat
  BY DEF Tables, Entry
<1>2. \A a \in Int : a \in Block(u, h) \/ a \in Block(u, k)
                     <=> a \in Block(t, h) \/ a \in Block(t, k)
  BY <1>1 DEF Block
<1>3. \A a \in Int : ~(a \in Block(u, h) /\ a \in Block(u, k))
  BY <1>1 DEF Block
<1> QED BY <1>2, <1>3, Redraw

\* Two neighbours merged into one are the same memory.
LEMMA MergeBlocks ==
    ASSUME NEW t \in Tables, NEW u \in Tables,
           NEW low \in Handles, NEW high \in Handles, low # high,
           \A j \in Handles \ {low, high} : u[j].base = t[j].base /\ u[j].size = t[j].size,
           \/ t[high].base = t[low].base + t[low].size
           \/ t[low].base = t[high].base + t[high].size,
           u[low].base = IF t[high].base > t[low].base THEN t[low].base ELSE t[high].base,
           u[low].size = t[low].size + t[high].size,
           u[high].size = 0,
           DisjointIn(t), CoveredIn(t)
    PROVE  DisjointIn(u) /\ CoveredIn(u)
<1>1. /\ t[low].base \in Nat /\ t[low].size \in Nat /\ t[high].base \in Nat
      /\ t[high].size \in Nat /\ u[high].base \in Nat
  BY DEF Tables, Entry
<1>2. \A a \in Int : a \in Block(u, low) \/ a \in Block(u, high)
                     <=> a \in Block(t, low) \/ a \in Block(t, high)
  BY <1>1 DEF Block
<1>3. \A a \in Int : ~(a \in Block(u, low) /\ a \in Block(u, high))
  BY <1>1 DEF Block
<1> QED BY <1>2, <1>3, Redraw

-----------------------------------------------------------------------------
\* Nothing is being written: the table is what it will be.
LEMMA FinalIsTable ==
    ASSUME \A c \in Ctxs : pc[c] \notin Writing
    PROVE  Final = table
BY DEF Final, After, Writing, Ctxs

\* A step that leaves the table and every reallocation in progress alone.
LEMMA FinalSame ==
    ASSUME table' = table,
           \A c \in Ctxs : pc[c] \in Writing \/ pc'[c] \in Writing
                           => pc'[c] = pc[c] /\ frame'[c] = frame[c]
    PROVE  Final' = Final
<1>1. \A c \in Ctxs : (pc[c] \in Writing) <=> (pc'[c] \in Writing)
  OBVIOUS
<1>2. \A c \in Ctxs : pc[c] \in Writing => After(c)' = After(c)
  BY ZenonT(60) DEF After
<1>3. \A c \in Ctxs : pc[c] \notin Writing => After(c) = table /\ After(c)' = table
  BY <1>1 DEF After, Writing
<1> QED BY <1>1, <1>2, <1>3 DEF Final, Ctxs

\* While one client is at work on blocks the other is not.
LEMMA Quiet ==
    ASSUME IInv, RaceFree, NEW c \in Ctxs, cur = c,
           \E op \in {"alloc", "free", "realloc"} : op \in OpsOf(c)
    PROVE  \A o \in Ctxs \ {c} : pc[o] \notin ReLabels \cup {"free_scan"}
<1>1. CASE c = "main"
  BY <1>1 DEF IInv, ControlOK, ReLabels, Ctxs
<1>2. CASE c = "isr"
  <2>1. pc["main"] \in ReLabels => "realloc" \in MainOps
    BY DEF IInv, FrameOK, OpsOf, ReLabels, Ctxs
  <2> QED BY <1>2, <2>1 DEF IInv, ControlOK, RaceFree, OpsOf, Ctxs
<1> QED BY <1>1, <1>2 DEF Ctxs

-----------------------------------------------------------------------------
\* The table geti15mem and initialize set up satisfies the invariant.
THEOREM InitInv == Init => IInv
<1> SUFFICES ASSUME Init PROVE IInv
  OBVIOUS
<1>1. \A j \in 1 .. Len(Regions) : /\ j \in Handles
                                   /\ Regions[j] \in [base : Nat, size : Nat \ {0}]
  <2>1. /\ Regions \in Seq([base : Nat, size : Nat \ {0}])
        /\ Len(Regions) <= NumHandles /\ NumHandles \in Nat
    BY SizeAssumption, RegionAssumption
  <2>2. Len(Regions) \in Nat
    BY <2>1, LenProperties
  <2>3. \A j \in 1 .. Len(Regions) : Regions[j] \in [base : Nat, size : Nat \ {0}]
    <3> DEFINE S == [base : Nat, size : Nat \ {0}]
    <3>1. Regions \in Seq(S)
      BY <2>1
    <3> HIDE DEF S
    <3>2. \A j \in 1 .. Len(Regions) : Regions[j] \in S
      BY ONLY <3>1, ElementOfSeq, ZenonT(60)
    <3> QED BY <3>2 DEF S
  <2> QED BY <2>1, <2>2, <2>3 DEF Handles
<1>2. \A c \in Ctxs : pc[c] = "idle" /\ frame[c] = NoFrame
  BY DEF Init
<1>3. TypeOK
  <2>1. table \in [Handles -> Entry]
    BY <1>1, SizeAssumption DEF Init, Entry, Handles
  <2>2. frame \in [Ctxs -> Frame]
    <3>1. NoFrame \in Frame
      BY SizeAssumption DEF NoFrame, CallFrame, Frame, Ops
    <3> QED BY <3>1 DEF Init
  <2> QED BY <2>1, <2>2 DEF TypeOK, Init, Ctxs, Labels, Codes
<1>4. Final = table
  BY <1>2, FinalIsTable DEF Writing
<1>5. \A h \in Handles :
        Block(table, h) = IF h <= Len(Regions)
                          THEN Regions[h].base .. Regions[h].base + Regions[h].size - 1
                          ELSE {}
  BY DEF Init, Block, Handles
<1>6. DisjointIn(table)
  <2> SUFFICES ASSUME NEW h \in Handles, NEW k \in Handles, h # k,
                      NEW a, a \in Block(table, h), a \in Block(table, k)
               PROVE  FALSE
    BY Zenon DEF DisjointIn
  <2>1. h \in 1 .. Len(Regions) /\ k \in 1 .. Len(Regions)
    BY <1>5 DEF Handles
  <2>2. /\ a \in Regions[h].base .. Regions[h].base + Regions[h].size - 1
        /\ a \in Regions[k].base .. Regions[k].base + Regions[k].size - 1
    BY <2>1, <1>5
  <2>3. \/ Regions[h].base + Regions[h].size <= Regions[k].base
        \/ Regions[k].base + Regions[k].size <= Regions[h].base
    BY <2>1, RegionAssumption
  <2>4. Regions[h] \in [base : Nat, size : Nat] /\ Regions[k] \in [base : Nat, size : Nat]
    BY <2>1, <1>1
  <2> QED BY <2>2, <2>3, <2>4
<1>7. CoveredIn(table)
  <2>1. \A h \in Handles : h \in 1 .. Len(Regions) =>
           Block(table, h) = Regions[h].base .. Regions[h].base + Regions[h].size - 1
    BY <1>5, SizeAssumption DEF Handles
  <2>2. \A h \in Handles : h \notin 1 .. Len(Regions) => Block(table, h) = {}
    <3>1. Len(Regions) \in Nat
      BY RegionAssumption, LenProperties
    <3> QED BY <3>1, <1>5, SizeAssumption DEF Handles
  <2>3. ASSUME NEW a \in Managed PROVE \E h \in Handles : a \in Block(table, h)
    BY <1>1, <2>1 DEF Managed
  <2>4. ASSUME NEW h \in Handles, NEW a \in Block(table, h) PROVE a \in Managed
    BY <2>1, <2>2 DEF Managed
  <2> QED BY <2>3, <2>4 DEF CoveredIn
<1>8. \A h \in Handles : /\ table[h].flags = "pool" => table[h].size = 0
                         /\ table[h].flags = "free" => table[h].size > 0
  BY <1>1 DEF Init, Handles
<1>9. TableOK
  BY <1>4, <1>6, <1>7, <1>8 DEF TableOK
<1>10. ControlOK
  BY DEF Init, ControlOK, Ctxs
<1>11. \A c \in Ctxs : FrameOK(c) /\ ScanOK(c) /\ WriteOK(c)
  BY <1>2 DEF FrameOK, ScanOK, WriteOK, ReLabels
<1> QED BY <1>3, <1>9, <1>10, <1>11 DEF IInv

-----------------------------------------------------------------------------
\* What is known of a context that does not move stays true while the blocks
\* stay as they are, and in any case when it is not at work on blocks.
LEMMA Kept ==
    ASSUME IInv, NEW o \in Ctxs, pc'[o] = pc[o], frame'[o] = frame[o],
           \/ pc[o] \notin ReLabels \cup {"free_scan"}
           \/ \A h \in Handles : /\ table'[h].flags = table[h].flags
                                 /\ table'[h].base = table[h].base
                                 /\ table'[h].size = table[h].size
    PROVE  FrameOK(o)' /\ ScanOK(o)' /\ WriteOK(o)'
<1>1. FrameOK(o) /\ ScanOK(o) /\ WriteOK(o)
  BY DEF IInv
<1>2. FrameOK(o)'
  BY <1>1 DEF FrameOK, ReLabels
<1>3. ScanOK(o)'
  BY <1>1 DEF ScanOK, FrameOK
<1>4. WriteOK(o)'
  BY <1>1 DEF WriteOK, FrameOK, ReLabels
<1> QED BY <1>2, <1>3, <1>4

\* A step that leaves the table alone and neither begins nor ends a write.
LEMMA TableKept ==
    ASSUME IInv, table' = table, NEW c \in Ctxs,
           \A o \in Ctxs \ {c} : pc'[o] = pc[o] /\ frame'[o] = frame[o],
           pc[c] \notin Writing, pc'[c] \notin Writing,
           pc[c] = "free_scan" => pc'[c] = "free_scan" /\ frame'[c].h = frame[c].h
    PROVE  TableOK'
<1>1. Final' = Final
  BY FinalSame
<1>2. \A h \in Handles : InFree(h) => InFree(h)'
  BY DEF InFree
<1>3. TableOK
  BY DEF IInv
<1> QED BY <1>1, <1>2, <1>3 DEF TableOK, DisjointIn, CoveredIn, Block, Managed

\* Locking: flags, addresses and sizes stay.
LEMMA LocksOnly ==
    ASSUME IInv, NEW h \in Handles, NEW k \in 0 .. LockMod - 1,
           table' = [table EXCEPT ![h].locks = k],
           NEW c \in Ctxs,
           \A o \in Ctxs \ {c} : pc'[o] = pc[o] /\ frame'[o] = frame[o],
           pc[c] \notin Writing \cup {"free_scan"}, pc'[c] \notin Writing
    PROVE  TableOK'
<1>1. \A j \in Handles : /\ table'[j].flags = table[j].flags
                         /\ table'[j].base = table[j].base
                         /\ table'[j].size = table[j].size
  BY DEF IInv, TypeOK, Entry
<1>2. \A o \in Ctxs : pc[o] \in Writing => frame[o].nh \in Handles
  BY DEF IInv, FrameOK, Writing
<1>3. \A o \in Ctxs, j \in Handles :
          /\ After(o)'[j].flags = After(o)[j].flags
          /\ After(o)'[j].base = After(o)[j].base
          /\ After(o)'[j].size = After(o)[j].size
  <2> SUFFICES ASSUME NEW o \in Ctxs, NEW j \in Handles
               PROVE  /\ After(o)'[j].flags = After(o)[j].flags
                      /\ After(o)'[j].base = After(o)[j].base
                      /\ After(o)'[j].size = After(o)[j].size
    OBVIOUS
  <2>1. CASE pc[o] \in Writing
    <3>1. pc'[o] = pc[o] /\ frame'[o] = frame[o] /\ frame[o].nh \in Handles
      BY <2>1, <1>2
    <3>2. DOMAIN table = Handles /\ DOMAIN table' = Handles
      BY DEF IInv, TypeOK
    <3>3. CASE j = frame[o].nh
      BY <2>1, <3>1, <3>2, <3>3, <1>1 DEF After
    <3>4. CASE j # frame[o].nh
      <4>1. After(o)[j] = table[j]
        BY <2>1, <3>1, <3>2, <3>4 DEF After
      <4>2. After(o)'[j] = table'[j]
        BY <2>1, <3>1, <3>2, <3>4 DEF After
      <4> QED BY <4>1, <4>2, <1>1
    <3> QED BY <3>3, <3>4
  <2>2. CASE pc[o] \notin Writing
    <3>1. pc'[o] \notin Writing
      BY <2>2
    <3> QED BY <2>2, <3>1, <1>1 DEF After
  <2> QED BY <2>1, <2>2
<1>4. \A j \in Handles : /\ Final'[j].flags = Final[j].flags
                         /\ Final'[j].base = Final[j].base
                         /\ Final'[j].size = Final[j].size
  BY <1>3 DEF Final, Ctxs
<1>5. DisjointIn(Final') /\ CoveredIn(Final')
  BY <1>4, SameMemory DEF IInv, TableOK
<1>6. \A j \in Handles : InFree(j) => InFree(j)'
  BY DEF InFree
<1> QED BY <1>4, <1>5, <1>6 DEF IInv, TableOK, DisjointIn, CoveredIn, Block, Managed

-----------------------------------------------------------------------------
\* One step of one context: what has to be shown of it for the invariant.
LEMMA Assemble ==
    ASSUME IInv, NEW c \in Ctxs,
           \A o \in Ctxs \ {c} : /\ pc'[o] = pc[o] /\ frame'[o] = frame[o]
                                 /\ \/ pc[o] \notin ReLabels \cup {"free_scan"}
                                    \/ \A h \in Handles :
                                         /\ table'[h].flags = table[h].flags
                                         /\ table'[h].base = table[h].base
                                         /\ table'[h].size = table[h].size,
           TypeOK', ControlOK', TableOK',
           FrameOK(c)', ScanOK(c)', WriteOK(c)'
    PROVE  IInv'
<1>1. \A o \in Ctxs \ {c} : FrameOK(o)' /\ ScanOK(o)' /\ WriteOK(o)'
  BY Kept
<1> QED BY <1>1 DEF IInv

LEMMA InterruptStep == ASSUME IInv, Interrupt PROVE IInv'
<1> USE DEF Interrupt
<1>1. TypeOK'
  BY DEF IInv, TypeOK, Ctxs
<1>2. ControlOK'
  BY DEF IInv, ControlOK, TypeOK, Ctxs
<1>3. TableOK'
  <2>1. "main" \in Ctxs /\ "isr" \in Ctxs
    BY DEF Ctxs
  <2>2. Final' = Final
    BY FinalSame
  <2> QED BY <2>2 DEF IInv, TableOK, InFree, DisjointIn, CoveredIn, Block, Managed
<1>4. \A o \in Ctxs : FrameOK(o)' /\ ScanOK(o)' /\ WriteOK(o)'
  BY Kept
<1> QED BY <1>1, <1>2, <1>3, <1>4 DEF IInv

LEMMA IretStep == ASSUME IInv, Iret PROVE IInv'
<1> USE DEF Iret, At
<1>1. TypeOK'
  BY DEF IInv, TypeOK, Ctxs
<1>2. ControlOK'
  BY DEF IInv, ControlOK, TypeOK, Ctxs
<1>3. TableOK'
  <2>2. Final' = Final
    BY FinalSame
  <2> QED BY <2>2 DEF IInv, TableOK, InFree, DisjointIn, CoveredIn, Block, Managed
<1>4. \A o \in Ctxs : FrameOK(o)' /\ ScanOK(o)' /\ WriteOK(o)'
  BY Kept
<1> QED BY <1>1, <1>2, <1>3, <1>4 DEF IInv

LEMMA NewFrame ==
    ASSUME NEW op \in Ops, NEW h \in Handles, NEW n \in Nat
    PROVE  LET f == CallFrame(op, h, n)
           IN  f \in Frame /\ f.op = op /\ f.h = h /\ NoFrame \in Frame
<1>1. h \in 0 .. NumHandles /\ 0 \in 0 .. NumHandles /\ 0 \in 0 .. NumHandles + 1
  BY SizeAssumption DEF Handles
<1> QED BY <1>1 DEF CallFrame, NoFrame, Frame

\* A call that gets past xms_check_handle, or does not.
LEMMA EnterStep ==
    ASSUME IInv, NEW c \in Ctxs, NEW op \in Ops, NEW h \in Handles, NEW n \in Nat,
           NEW l \in {"lock_inc", "unlock_test", "free_lock", "re_lock"},
           l = "free_lock" => op \in {"free", "realloc"},
           l = "re_lock" => op = "realloc",
           Enter(c, op, h, n, l)
    PROVE  IInv'
<1> DEFINE f == CallFrame(op, h, n)
<1>0. f \in Frame /\ f.op = op /\ f.h = h /\ NoFrame \in Frame
  BY NewFrame
<1> HIDE DEF f
<1>1. /\ pc[c] = "idle" /\ cur = c /\ op \in OpsOf(c)
      /\ table' = table /\ owner' = owner /\ cli' = cli /\ cur' = cur
      /\ \A o \in Ctxs \ {c} : pc'[o] = pc[o] /\ frame'[o] = frame[o]
  BY DEF Enter, Call, At, Goto, Return, IInv, TypeOK
<1>2. \/ /\ pc' = [pc EXCEPT ![c] = l] /\ frame' = [frame EXCEPT ![c] = f] /\ ret' = ret
         /\ table[h].flags = "used"
      \/ /\ pc' = [pc EXCEPT ![c] = "idle"] /\ frame' = [frame EXCEPT ![c] = NoFrame]
         /\ ret' = [ret EXCEPT ![c] = "fail"]
  BY DEF Enter, Call, At, Goto, Return, f
<1>3. /\ \/ pc'[c] = l /\ frame'[c] = f /\ table[h].flags = "used"
         \/ pc'[c] = "idle"
      /\ pc'[c] \in {l, "idle"}
  BY <1>2 DEF IInv, TypeOK
<1>4. TypeOK'
  BY <1>0, <1>1, <1>2 DEF IInv, TypeOK, Labels, Codes
<1>5. ControlOK'
  BY <1>1, <1>3 DEF IInv, ControlOK, Ctxs
<1>6. TableOK'
  BY <1>1, <1>3, TableKept DEF Writing
<1>7. FrameOK(c)' /\ ScanOK(c)' /\ WriteOK(c)'
  BY <1>0, <1>1, <1>3 DEF FrameOK, ScanOK, WriteOK, ReLabels, OpsOf
<1> QED BY <1>1, <1>4, <1>5, <1>6, <1>7, Assemble

-----------------------------------------------------------------------------
\* Before and after the step no write is in progress.
LEMMA TableAtRest ==
    ASSUME \A o \in Ctxs : pc'[o] \notin Writing,
           DisjointIn(table'), CoveredIn(table'),
           \A h \in Handles :
              /\ table'[h].flags = "pool" /\ ~InFree(h)' => table'[h].size = 0
              /\ table'[h].flags = "free" => table'[h].size > 0
    PROVE  TableOK'
<1>1. Final' = table'
  BY DEF Final, After, Writing, Ctxs
<1> QED BY <1>1 DEF TableOK, DisjointIn, CoveredIn, Block, Managed

\* First fit takes a free block, whole or its lower part.
LEMMA Take ==
    ASSUME TypeOK, TableOK, Final = table, \A j \in Handles : ~InFree(j),
           NEW h \in Handles, table[h].flags = "free",
           NEW n \in Nat, n <= table[h].size,
           TakeWhole(h, n) \/ TakePart(h, n)
    PROVE  /\ table' \in Tables
           /\ DisjointIn(table') /\ CoveredIn(table')
           /\ \A j \in Handles : /\ table'[j].flags = "pool" => table'[j].size = 0
                                 /\ table'[j].flags = "free" => table'[j].size > 0
           /\ table'[h].flags = "used"
           /\ \A j \in Handles \ {h} : table[j].flags = "used" => table'[j] = table[j]
<1> USE DEF Tables
<1>1. table \in Tables /\ DisjointIn(table) /\ CoveredIn(table)
  BY DEF TypeOK, TableOK
<1>2. \A j \in Handles : /\ table[j].flags = "pool" => table[j].size = 0
                         /\ table[j].flags = "free" => table[j].size > 0
  BY DEF TableOK
<1>3. CASE TakeWhole(h, n)
  <2>1. table' \in Tables
    <3>1. MarkUsed(table[h], table[h].size) \in Entry
      BY <1>1, SizeAssumption DEF Entry, MarkUsed
    <3>2. table' = [table EXCEPT ![h] = MarkUsed(table[h], table[h].size)]
      BY <1>1, <1>3 DEF TakeWhole
    <3> QED BY <1>1, <3>1, <3>2
  <2>2. \A j \in Handles : /\ table'[j].base = table[j].base /\ table'[j].size = table[j].size
                           /\ j # h => table'[j] = table[j]
                           /\ j = h => table'[j].flags = "used"
    BY <1>1, <1>3 DEF TakeWhole, MarkUsed, Entry
  <2>3. DisjointIn(table') /\ CoveredIn(table')
    BY <1>1, <2>2, SameMemory
  <2> QED BY <1>2, <2>1, <2>2, <2>3
<1>4. CASE TakePart(h, n)
  <2>1. PICK p \in Flagged("pool") :
          table' = [table EXCEPT
              ![h] = MarkUsed(@, n),
              ![p] = [flags |-> "free", locks |-> 0, base |-> table[h].base + n,
                      size |-> table[h].size - n]]
    BY <1>4 DEF TakePart
  <2>2. p \in Handles /\ p # h /\ table[p].size = 0 /\ table[p].flags = "pool"
    BY <1>2 DEF Flagged
  <2>3. /\ table[h].base \in Nat /\ table[h].size \in Nat
        /\ n < table[h].size
    <3>1. table[h] \in Entry /\ n # table[h].size
      BY <1>1, <1>4 DEF TakePart
    <3> QED BY <3>1 DEF Entry
  <2>4. /\ table'[h] = [flags |-> "used", locks |-> 0, base |-> table[h].base, size |-> n]
        /\ table'[p] = [flags |-> "free", locks |-> 0, base |-> table[h].base + n,
                        size |-> table[h].size - n]
        /\ \A j \in Handles \ {h, p} : table'[j] = table[j]
    BY <1>1, <2>1, <2>2 DEF MarkUsed
  <2>5. table' \in Tables
    <3>1. table'[h] \in Entry /\ table'[p] \in Entry
      BY <2>3, <2>4, SizeAssumption DEF Entry
    <3>2. DOMAIN table' = Handles /\ table' = [j \in Handles |-> table'[j]]
      BY <1>1, <2>1
    <3> QED BY <1>1, <2>4, <3>1, <3>2
  <2>6. DisjointIn(table') /\ CoveredIn(table')
    <3> HIDE DEF Tables
    <3> QED BY <1>1, <2>2, <2>3, <2>4, <2>5, MoveBorder
  <2> QED BY <1>2, <2>2, <2>3, <2>4, <2>5, <2>6
<1> QED BY <1>3, <1>4

LEMMA AllocFitStep ==
    ASSUME IInv, RaceFree, NEW c \in Ctxs, NEW n \in Requests, NEW high \in BOOLEAN,
           AllocFit(c, n, high)
    PROVE  IInv'
<1>1. /\ pc[c] = "idle" /\ cur = c /\ "alloc" \in OpsOf(c)
      /\ pc' = [pc EXCEPT ![c] = "idle"] /\ frame' = [frame EXCEPT ![c] = NoFrame]
      /\ ret' = [ret EXCEPT ![c] = "ok"] /\ cur' = cur /\ cli' = cli
  BY DEF AllocFit, Call, At, Return
<1>2. PICK h \in Fits(n, high) : /\ TakeWhole(h, n) \/ TakePart(h, n)
                                 /\ owner' = [owner EXCEPT ![h] = c]
  BY DEF AllocFit
<1>3. h \in Handles /\ table[h].flags = "free" /\ n <= table[h].size /\ n \in Nat
  BY SizeAssumption DEF Fits, Flagged
<1>4. \A o \in Ctxs \ {c} : pc[o] \notin ReLabels \cup {"free_scan"}
  BY <1>1, Quiet
<1>5. \A o \in Ctxs : pc[o] \notin ReLabels \cup {"free_scan"}
  BY <1>1, <1>4 DEF ReLabels
<1>6. Final = table
  BY <1>5, FinalIsTable DEF Writing, ReLabels
<1>7. \A j \in Handles : ~InFree(j)
  BY <1>5 DEF InFree
<1>8. /\ table' \in Tables /\ DisjointIn(table') /\ CoveredIn(table')
      /\ \A j \in Handles : /\ table'[j].flags = "pool" => table'[j].size = 0
                            /\ table'[j].flags = "free" => table'[j].size > 0
  BY <1>2, <1>3, <1>6, <1>7, Take DEF IInv
<1>9. /\ pc'[c] = "idle"
      /\ \A o \in Ctxs \ {c} : pc'[o] = pc[o] /\ frame'[o] = frame[o]
  BY <1>1 DEF IInv, TypeOK
<1>10. TypeOK'
  <2>1. NoFrame \in Frame
    BY SizeAssumption DEF NoFrame, CallFrame, Frame
  <2> QED BY <1>1, <1>2, <1>3, <1>8, <2>1 DEF IInv, TypeOK, Tables, Labels, Codes
<1>11. ControlOK'
  BY <1>1, <1>9 DEF IInv, ControlOK, Ctxs
<1>12. TableOK'
  BY <1>5, <1>8, <1>9, TableAtRest DEF Writing, ReLabels
<1>13. FrameOK(c)' /\ ScanOK(c)' /\ WriteOK(c)'
  BY <1>9 DEF FrameOK, ScanOK, WriteOK, ReLabels
<1> QED BY <1>4, <1>9, <1>10, <1>11, <1>12, <1>13, Assemble

-----------------------------------------------------------------------------
\* A call that ends without having touched the table.
LEMMA ReturnStep ==
    ASSUME IInv, NEW c \in Ctxs, cur = c, NEW code \in Codes, Return(c, code),
           table' = table, owner' = owner, cli' = cli,
           pc[c] \notin Writing \cup {"free_scan"}
    PROVE  IInv'
<1>1. /\ pc'[c] = "idle" /\ cur' = cur
      /\ \A o \in Ctxs \ {c} : pc'[o] = pc[o] /\ frame'[o] = frame[o]
  BY DEF Return, IInv, TypeOK
<1>2. TypeOK'
  <2>1. NoFrame \in Frame
    BY SizeAssumption DEF NoFrame, CallFrame, Frame
  <2> QED BY <2>1 DEF Return, IInv, TypeOK, Labels
<1>3. ControlOK'
  BY <1>1 DEF IInv, ControlOK, Ctxs
<1>4. TableOK'
  BY <1>1, TableKept DEF Writing
<1>5. FrameOK(c)' /\ ScanOK(c)' /\ WriteOK(c)'
  BY <1>1 DEF FrameOK, ScanOK, WriteOK, ReLabels
<1> QED BY <1>1, <1>2, <1>3, <1>4, <1>5, Assemble

\* A step inside a call that changes only registers.
LEMMA RegisterStep ==
    ASSUME IInv, NEW c \in Ctxs, cur = c, NEW l \in Labels \ Writing, Goto(c, l),
           table' = table, owner' = owner, cli' = cli,
           NEW f \in Frame, frame' = [frame EXCEPT ![c] = f],
           pc[c] \notin Writing,
           pc[c] = "free_scan" <=> l = "free_scan",
           l = "free_scan" => f.h = frame[c].h,
           FrameOK(c)', ScanOK(c)', WriteOK(c)'
    PROVE  IInv'
<1>1. /\ pc'[c] = l /\ frame'[c] = f /\ cur' = cur
      /\ \A o \in Ctxs \ {c} : pc'[o] = pc[o] /\ frame'[o] = frame[o]
  BY DEF Goto, IInv, TypeOK
<1>2. TypeOK'
  BY DEF Goto, IInv, TypeOK
<1>3. ControlOK'
  BY <1>1 DEF IInv, ControlOK, Ctxs
<1>4. TableOK'
  BY <1>1, TableKept
<1> QED BY <1>1, <1>2, <1>3, <1>4, Assemble

LEMMA AllocFailStep ==
    ASSUME IInv, NEW c \in Ctxs, NEW n \in Requests, NEW high \in BOOLEAN,
           AllocFail(c, n, high)
    PROVE  IInv'
BY ReturnStep DEF AllocFail, Call, At, Codes, Writing

LEMMA LockBeyondStep ==
    ASSUME IInv, NEW c \in Ctxs, NEW h \in Handles, LockBeyond4G(c, h)
    PROVE  IInv'
BY ReturnStep DEF LockBeyond4G, Call, At, Codes, Writing

LEMMA AllocNullStep ==
    ASSUME IInv, RaceFree, NEW c \in Ctxs, NEW n \in Requests, NEW high \in BOOLEAN,
           AllocNull(c, n, high)
    PROVE  IInv'
<1>1. /\ pc[c] = "idle" /\ cur = c /\ "alloc" \in OpsOf(c)
      /\ pc' = [pc EXCEPT ![c] = "idle"] /\ frame' = [frame EXCEPT ![c] = NoFrame]
      /\ ret' = [ret EXCEPT ![c] = "ok"] /\ cur' = cur /\ cli' = cli
  BY DEF AllocNull, Call, At, Return
<1>2. PICK p \in Handles : /\ table' = [table EXCEPT ![p] = MarkUsed(table[p], table[p].size)]
                           /\ owner' = [owner EXCEPT ![p] = c]
  BY DEF AllocNull, Flagged
<1>3. \A o \in Ctxs : pc[o] \notin ReLabels \cup {"free_scan"}
  BY <1>1, Quiet DEF ReLabels
<1>4. Final = table
  BY <1>3, FinalIsTable DEF Writing, ReLabels
<1>5. \A j \in Handles : ~InFree(j)
  BY <1>3 DEF InFree
<1>6. table' \in Tables
  <2>1. MarkUsed(table[p], table[p].size) \in Entry
    BY SizeAssumption DEF MarkUsed, Entry, IInv, TypeOK
  <2> QED BY <1>2, <2>1 DEF IInv, TypeOK, Tables
<1>7. \A j \in Handles : /\ table'[j].base = table[j].base /\ table'[j].size = table[j].size
                         /\ table'[j].flags = IF j = p THEN "used" ELSE table[j].flags
  BY <1>2 DEF MarkUsed, IInv, TypeOK
<1>8. DisjointIn(table') /\ CoveredIn(table')
  BY <1>4, <1>7, SameMemory DEF IInv, TableOK
<1>9. /\ pc'[c] = "idle"
      /\ \A o \in Ctxs \ {c} : pc'[o] = pc[o] /\ frame'[o] = frame[o]
  BY <1>1 DEF IInv, TypeOK
<1>10. TypeOK'
  <2>1. NoFrame \in Frame
    BY SizeAssumption DEF NoFrame, CallFrame, Frame
  <2> QED BY <1>1, <1>2, <1>6, <2>1 DEF IInv, TypeOK, Tables, Labels, Codes
<1>11. ControlOK'
  BY <1>1, <1>9 DEF IInv, ControlOK, Ctxs
<1>12. TableOK'
  <2>1. \A o \in Ctxs : pc'[o] \notin Writing
    BY <1>3, <1>9 DEF Writing, ReLabels
  <2>2. \A j \in Handles : /\ table'[j].flags = "pool" => table'[j].size = 0
                           /\ table'[j].flags = "free" => table'[j].size > 0
    BY <1>4, <1>5, <1>7 DEF IInv, TableOK
  <2> QED BY <1>8, <2>1, <2>2, TableAtRest
<1>13. FrameOK(c)' /\ ScanOK(c)' /\ WriteOK(c)'
  BY <1>9 DEF FrameOK, ScanOK, WriteOK, ReLabels
<1> QED BY <1>3, <1>9, <1>10, <1>11, <1>12, <1>13, Assemble

\* A step that changes a lock counter.
LEMMA CountStep ==
    ASSUME IInv, NEW c \in Ctxs, cur = c, NEW h \in Handles, NEW k \in 0 .. LockMod - 1,
           table' = [table EXCEPT ![h].locks = k],
           owner' = owner, cli' = cli, cur' = cur, ret' \in [Ctxs -> Codes],
           frame' \in [Ctxs -> Frame],
           \A o \in Ctxs \ {c} : pc'[o] = pc[o] /\ frame'[o] = frame[o],
           NEW l \in {"idle", "lock_undo"}, pc' = [pc EXCEPT ![c] = l],
           l = "lock_undo" => frame'[c] = frame[c],
           pc[c] \in {"lock_inc", "lock_undo", "unlock_dec"}
    PROVE  IInv'
<1>1. \A j \in Handles : /\ table'[j].flags = table[j].flags
                         /\ table'[j].base = table[j].base
                         /\ table'[j].size = table[j].size
  BY DEF IInv, TypeOK, Entry
<1>2. pc'[c] = l
  BY DEF IInv, TypeOK
<1>3. TypeOK'
  <2>1. table' \in [Handles -> Entry]
    BY DEF IInv, TypeOK, Entry
  <2> QED BY <2>1 DEF IInv, TypeOK, Labels
<1>4. ControlOK'
  BY <1>2 DEF IInv, ControlOK, Ctxs
<1>5. TableOK'
  BY <1>2, LocksOnly DEF Writing
<1>6. FrameOK(c)' /\ ScanOK(c)' /\ WriteOK(c)'
  BY <1>2 DEF FrameOK, ScanOK, WriteOK, ReLabels, IInv, OpsOf
<1> QED BY <1>1, <1>3, <1>4, <1>5, <1>6, Assemble

LEMMA LockIncStep == ASSUME IInv, NEW c \in Ctxs, LockInc(c) PROVE IInv'
<1> DEFINE h == frame[c].h
           k == Inc(table[h].locks)
<1>1. h \in Handles /\ k \in 0 .. LockMod - 1 /\ table[h] \in Entry
  <2>1. h \in Handles /\ table \in [Handles -> Entry]
    BY DEF LockInc, At, IInv, FrameOK, TypeOK
  <2> QED BY <2>1, SizeAssumption DEF Entry, Inc
<1>2. /\ cur = c /\ pc[c] = "lock_inc" /\ table' = [table EXCEPT ![h].locks = k]
      /\ owner' = owner /\ cli' = cli /\ cur' = cur
  BY DEF LockInc, At, Goto, Return
<1>3. CASE k = 0
  <2>1. /\ frame' = frame /\ ret' = ret /\ pc' = [pc EXCEPT ![c] = "lock_undo"]
        /\ frame \in [Ctxs -> Frame] /\ ret \in [Ctxs -> Codes] /\ pc \in [Ctxs -> Labels]
    BY <1>3 DEF LockInc, Goto, IInv, TypeOK
  <2>2. \A o \in Ctxs \ {c} : pc'[o] = pc[o] /\ frame'[o] = frame[o]
    BY <2>1
  <2> HIDE DEF h, k
  <2> QED BY <1>1, <1>2, <2>1, <2>2, CountStep
<1>4. CASE k # 0
  <2>1. NoFrame \in Frame
    BY SizeAssumption DEF NoFrame, CallFrame, Frame
  <2>2. /\ pc' = [pc EXCEPT ![c] = "idle"] /\ frame' = [frame EXCEPT ![c] = NoFrame]
        /\ ret' = [ret EXCEPT ![c] = "ok"]
    BY <1>4 DEF LockInc, Return
  <2> QED BY <1>1, <1>2, <2>1, <2>2, CountStep DEF IInv, TypeOK, Codes
<1> QED BY <1>3, <1>4

\* The two steps that count down and return.
LEMMA CountDownStep ==
    ASSUME IInv, NEW c \in Ctxs, LockUndo(c) \/ UnlockDec(c)
    PROVE  IInv'
<1> DEFINE h == frame[c].h
           k == Dec(table[h].locks)
<1>1. PICK code \in Codes : Return(c, code)
  BY DEF LockUndo, UnlockDec, Codes
<1>2. /\ cur = c /\ pc[c] \in {"lock_undo", "unlock_dec"}
      /\ table' = [table EXCEPT ![h].locks = k] /\ owner' = owner /\ cli' = cli
  BY DEF LockUndo, UnlockDec, At
<1>3. h \in Handles /\ k \in 0 .. LockMod - 1
  BY <1>2, SizeAssumption DEF IInv, FrameOK, TypeOK, Entry, Dec
<1>4. NoFrame \in Frame
  BY SizeAssumption DEF NoFrame, CallFrame, Frame
<1> QED BY <1>1, <1>2, <1>3, <1>4, CountStep DEF Return, IInv, TypeOK

\* Inside a call, before it has touched anything: go on or give up.
LEMMA EarlyStep ==
    ASSUME IInv, NEW c \in Ctxs, UnlockTest(c) \/ FreeLock(c) \/ ReallocLock(c)
    PROVE  IInv'
<1>1. /\ cur = c /\ pc[c] \in {"unlock_test", "free_lock", "re_lock"}
      /\ table' = table /\ owner' = owner /\ cli' = cli
  BY DEF UnlockTest, FreeLock, ReallocLock, At
<1>2. CASE \E code \in Codes : Return(c, code)
  BY <1>1, <1>2, ReturnStep DEF Writing
<1>3. ASSUME NEW l \in {"unlock_dec", "free_begin", "re_load"}, Goto(c, l), frame' = frame,
             l = "free_begin" => pc[c] = "free_lock",
             l = "re_load" => pc[c] = "re_lock"
      PROVE  IInv'
  <2>1. pc'[c] = l /\ frame[c] \in Frame /\ frame' = [frame EXCEPT ![c] = frame[c]]
    BY <1>3 DEF Goto, IInv, TypeOK
  <2>2. FrameOK(c)' /\ ScanOK(c)' /\ WriteOK(c)'
    BY <1>1, <1>3, <2>1 DEF FrameOK, ScanOK, WriteOK, ReLabels, IInv
  <2> QED BY <1>1, <1>3, <2>1, <2>2, RegisterStep DEF Labels, Writing
<1>4. \/ \E code \in Codes : Return(c, code)
      \/ \E l \in {"unlock_dec", "free_begin", "re_load"} :
            /\ Goto(c, l) /\ frame' = frame
            /\ l = "free_begin" => pc[c] = "free_lock"
            /\ l = "re_load" => pc[c] = "re_lock"
  BY <1>1 DEF UnlockTest, FreeLock, ReallocLock, FreeReturn, Codes, At
<1> QED BY <1>2, <1>3, <1>4

-----------------------------------------------------------------------------
\* What a client inside xms_free_emb may rely on.
LEMMA FreeContext ==
    ASSUME IInv, RaceFree, NEW c \in Ctxs, cur = c,
           pc[c] \in {"free_begin", "free_scan"}
    PROVE  /\ \A o \in Ctxs \ {c} : pc[o] \notin ReLabels \cup {"free_scan"}
           /\ Final = table
           /\ \A j \in Handles : InFree(j) <=> pc[c] = "free_scan" /\ j = frame[c].h
           /\ frame[c].h \in Handles /\ frame[c] \in Frame
           /\ table[frame[c].h] \in Entry
           /\ \A j \in Handles : /\ table[j].flags = "pool" /\ ~InFree(j) => table[j].size = 0
                                 /\ table[j].flags = "free" => table[j].size > 0
<1>1. frame[c].op \in OpsOf(c) /\ frame[c].op \in {"free", "realloc"}
  BY DEF IInv, FrameOK
<1>2. \A o \in Ctxs \ {c} : pc[o] \notin ReLabels \cup {"free_scan"}
  BY <1>1, Quiet
<1>3. Final = table
  BY <1>2, FinalIsTable DEF Writing, ReLabels
<1>4. \A j \in Handles : InFree(j) <=> pc[c] = "free_scan" /\ j = frame[c].h
  BY <1>2 DEF InFree
<1>5. frame[c].h \in Handles /\ frame[c] \in Frame /\ table[frame[c].h] \in Entry
  BY DEF IInv, FrameOK, TypeOK
<1> QED BY <1>2, <1>3, <1>4, <1>5 DEF IInv, TableOK

LEMMA FreeBeginStep ==
    ASSUME IInv, RaceFree, NEW c \in Ctxs, FreeBegin(c)
    PROVE  IInv'
<1> DEFINE h == frame[c].h
           e == table[h]
           f == [frame[c] EXCEPT !.lo = e.base, !.hi = e.base + e.size,
                                 !.i = 1, !.left = NumHandles]
<1>1. /\ cur = c /\ pc[c] = "free_begin" /\ cli' = TRUE /\ cur' = cur /\ ret' = ret
      /\ table' = table /\ pc' = [pc EXCEPT ![c] = "free_scan"]
      /\ frame' = [frame EXCEPT ![c] = f]
      /\ owner' = IF frame[c].op = "free"
                  THEN [owner EXCEPT ![frame[c].arg] = "nobody"] ELSE owner
  <2>1. frame' = [frame EXCEPT ![c] = f]
    BY DEF FreeBegin
  <2> HIDE DEF f, e
  <2> QED BY <2>1 DEF FreeBegin, At, Goto
<1>2. /\ \A o \in Ctxs \ {c} : pc[o] \notin ReLabels \cup {"free_scan"}
      /\ Final = table /\ h \in Handles /\ frame[c] \in Frame /\ e \in Entry
      /\ e.flags = "free" => e.size > 0
  BY <1>1, FreeContext
<1>3. /\ f \in Frame /\ f.h = h /\ f.i = 1 /\ f.left = NumHandles
      /\ f.lo = e.base /\ f.hi = e.base + e.size /\ f.op = frame[c].op
  <2>1. /\ 1 \in 0 .. NumHandles + 1 /\ NumHandles \in 0 .. NumHandles
        /\ e.base \in Nat /\ e.base + e.size \in Nat
    BY <1>2, SizeAssumption DEF Entry
  <2> HIDE DEF e
  <2>2. f \in Frame
    BY <1>2, <2>1 DEF Frame
  <2> QED BY <1>2, <2>2 DEF Frame
<1> HIDE DEF f
<1>4. /\ pc'[c] = "free_scan" /\ frame'[c] = f
      /\ \A o \in Ctxs \ {c} : pc'[o] = pc[o] /\ frame'[o] = frame[o]
  BY <1>1 DEF IInv, TypeOK
<1>5. TypeOK'
  BY <1>1, <1>3 DEF IInv, TypeOK, Labels
<1>6. ControlOK'
  BY <1>1, <1>4 DEF IInv, ControlOK, Ctxs
<1>7. TableOK'
  BY <1>1, <1>4, TableKept DEF Writing
<1>8. FrameOK(c)' /\ ScanOK(c)' /\ WriteOK(c)'
  <2>1. frame[c].op \in OpsOf(c) /\ frame[c].op \in {"free", "realloc"}
    BY <1>1 DEF IInv, FrameOK
  <2>2. FrameOK(c)' /\ WriteOK(c)'
    BY <1>1, <1>2, <1>3, <1>4, <2>1 DEF FrameOK, WriteOK, ReLabels, OpsOf
  <2>3. ScanOK(c)'
    BY <1>1, <1>2, <1>3, <1>4, SizeAssumption DEF ScanOK, Entry, Handles
  <2> QED BY <2>2, <2>3
<1> QED BY SMTT(60), <1>1, <1>2, <1>4, <1>5, <1>6, <1>7, <1>8, Assemble

LEMMA FreeSkipStep ==
    ASSUME IInv, NEW c \in Ctxs, FreeSkip(c)
    PROVE  IInv'
<1> DEFINE f == [frame[c] EXCEPT !.i = @ + 1, !.left = @ - 1]
<1>1. /\ cur = c /\ pc[c] = "free_scan" /\ cli' = cli /\ table' = table /\ owner' = owner
      /\ Goto(c, "free_scan") /\ frame' = [frame EXCEPT ![c] = f] /\ frame[c].left > 0
  BY DEF FreeSkip, At
<1>2. ScanOK(c) /\ FrameOK(c) /\ frame[c] \in Frame
  BY DEF IInv, TypeOK
<1>3. /\ f \in Frame /\ f.h = frame[c].h /\ f.i = frame[c].i + 1 /\ f.left = frame[c].left - 1
      /\ f.lo = frame[c].lo /\ f.hi = frame[c].hi /\ f.op = frame[c].op
  <2>1. frame[c].i + 1 \in 0 .. NumHandles + 1 /\ frame[c].left - 1 \in 0 .. NumHandles
    BY <1>1, <1>2, SizeAssumption DEF Frame, ScanOK
  <2>2. f \in Frame
    BY <1>2, <2>1 DEF Frame
  <2> QED BY <1>2, <2>2 DEF Frame
<1> HIDE DEF f
<1>4. pc'[c] = "free_scan" /\ frame'[c] = f
  BY <1>1 DEF Goto, IInv, TypeOK
<1>5. ScanOK(c)'
  BY <1>1, <1>2, <1>3, <1>4, SizeAssumption DEF ScanOK, Frame, Handles
<1>6. FrameOK(c)' /\ WriteOK(c)'
  BY <1>1, <1>2, <1>3, <1>4 DEF FrameOK, WriteOK, ReLabels, OpsOf
<1> QED BY <1>1, <1>3, <1>5, <1>6, RegisterStep DEF Labels, Writing

LEMMA Touch ==
    ASSUME NEW b \in Nat, NEW s \in Nat, NEW bi \in Nat, NEW si \in Nat,
           NEW lo \in Nat, NEW hi \in Nat, si > 0,
           b <= lo, lo <= hi, hi <= b + s, bi = hi \/ bi + si = lo
    PROVE  /\ b = bi /\ s = si => ~(lo < hi)
           /\ (\A a \in Int : ~(b <= a /\ a < b + s /\ bi <= a /\ a < bi + si))
              => (bi = hi /\ bi = b + s) \/ (b = lo /\ b = bi + si)
<1>1. b = bi /\ s = si => ~(lo < hi)
  OBVIOUS
<1>2. ASSUME \A a \in Int : ~(b <= a /\ a < b + s /\ bi <= a /\ a < bi + si)
      PROVE  (bi = hi /\ bi = b + s) \/ (b = lo /\ b = bi + si)
  <2>1. ~(b <= bi /\ bi < b + s)
    BY <1>2
  <2>2. bi + si - 1 \in Int
    OBVIOUS
  <2>3. ~(b <= bi + si - 1 /\ bi + si - 1 < b + s)
    BY <1>2, <2>2
  <2> QED BY <2>1, <2>3
<1> QED BY <1>1, <1>2

\* The free block xms_free_emb finds touches the block it is freeing, which may
\* have grown since it began.
LEMMA Neighbours ==
    ASSUME IInv, RaceFree, NEW c \in Ctxs, cur = c, pc[c] = "free_scan",
           frame[c].left > 0, Adjacent(c)
    PROVE  LET h == frame[c].h
               i == frame[c].i
           IN  /\ i \in Handles /\ i # h
               /\ table[i].flags = "free" /\ table[i].size > 0
               /\ \/ /\ table[i].base = table[h].base + table[h].size
                     /\ table[i].base = frame[c].hi
                  \/ /\ table[h].base = table[i].base + table[i].size
                     /\ table[h].base = frame[c].lo
<1> DEFINE h == frame[c].h
           i == frame[c].i
           b == table[h].base
           s == table[h].size
           bi == table[i].base
           si == table[i].size
           lo == frame[c].lo
           hi == frame[c].hi
<1>1. /\ i >= 1 /\ i + frame[c].left <= NumHandles + 1
      /\ b <= lo /\ lo <= hi /\ hi <= b + s
      /\ table[h].flags = "free" => i > h \/ lo < hi
  BY DEF IInv, ScanOK
<1>2. /\ Final = table /\ h \in Handles /\ table[h] \in Entry
      /\ \A j \in Handles : table[j].flags = "free" => table[j].size > 0
      /\ frame[c] \in Frame
  BY FreeContext
<1>3. i \in Handles
  BY <1>1, <1>2, SizeAssumption DEF Frame, Handles
<1>4. table[i] \in Entry /\ table[i].flags = "free" /\ si > 0
  BY <1>2, <1>3 DEF Adjacent, IInv, TypeOK
<1>5. bi = hi \/ bi + si = lo
  BY DEF Adjacent
<1>6. b \in Nat /\ s \in Nat /\ bi \in Nat /\ si \in Nat /\ lo \in Nat /\ hi \in Nat
  <2>1. table[h] \in Entry /\ table[i] \in Entry /\ frame[c] \in Frame
    BY <1>2, <1>4
  <2> QED BY <2>1 DEF Entry, Frame
<1>7. i # h
  <2> SUFFICES ASSUME i = h PROVE FALSE
    OBVIOUS
  <2>1. lo < hi /\ bi = b /\ si = s
    BY <1>1, <1>4, <1>2, SizeAssumption DEF Handles
  <2> HIDE DEF h, i, b, s, bi, si, lo, hi
  <2> QED BY <2>1, <1>1, <1>4, <1>5, <1>6, Touch
<1>8. Block(table, h) \cap Block(table, i) = {}
  BY <1>2, <1>3, <1>7 DEF IInv, TableOK, DisjointIn
<1>9. \A a \in Int : ~(b <= a /\ a < b + s /\ bi <= a /\ a < bi + si)
  BY <1>6, <1>8 DEF Block
<1>10. (bi = hi /\ bi = b + s) \/ (b = lo /\ b = bi + si)
  <2> HIDE DEF h, i, b, s, bi, si, lo, hi
  <2> QED BY <1>1, <1>4, <1>5, <1>6, <1>9, Touch
<1> QED BY <1>3, <1>4, <1>7, <1>10

LEMMA FreeMergeStep ==
    ASSUME IInv, RaceFree, NEW c \in Ctxs, FreeMerge(c)
    PROVE  IInv'
<1> DEFINE g == frame[c]
           h == g.h
           i == g.i
<1>1. /\ cur = c /\ pc[c] = "free_scan" /\ g.left > 0 /\ Adjacent(c)
      /\ cli' = cli /\ owner' = owner /\ cur' = cur /\ ret' = ret
      /\ pc' = [pc EXCEPT ![c] = "free_scan"]
  BY DEF FreeMerge, At, Goto
<1>2. /\ \A o \in Ctxs \ {c} : pc[o] \notin ReLabels \cup {"free_scan"}
      /\ Final = table /\ h \in Handles /\ g \in Frame
      /\ \A j \in Handles : InFree(j) <=> j = h
      /\ \A j \in Handles : /\ table[j].flags = "pool" /\ j # h => table[j].size = 0
                            /\ table[j].flags = "free" => table[j].size > 0
  BY <1>1, FreeContext
<1>3. /\ i \in Handles /\ i # h /\ table[i].flags = "free" /\ table[i].size > 0
      /\ \/ table[i].base = table[h].base + table[h].size /\ table[i].base = g.hi
         \/ table[h].base = table[i].base + table[i].size /\ table[h].base = g.lo
  BY <1>1, Neighbours
<1>4. PICK low \in Handles, high \in Handles :
         low = (IF i <= h THEN i ELSE h) /\ high = (IF i <= h THEN h ELSE i)
  BY <1>2, <1>3
<1>5. /\ low # high /\ low <= i /\ {low, high} = {h, i}
  BY <1>2, <1>3, <1>4 DEF Handles
<1> DEFINE f == [g EXCEPT !.h = low, !.i = low + 1, !.left = @ - 1]
<1>6. table' = Merge(low, high) /\ frame' = [frame EXCEPT ![c] = f]
  BY <1>4 DEF FreeMerge
<1>7. /\ \A j \in Handles : table[j] \in Entry
      /\ ScanOK(c) /\ FrameOK(c)
  BY DEF IInv, TypeOK
<1>8. /\ f \in Frame /\ f.h = low /\ f.i = low + 1 /\ f.left = g.left - 1
      /\ f.lo = g.lo /\ f.hi = g.hi /\ f.op = g.op
  <2>1. /\ low \in 0 .. NumHandles /\ low + 1 \in 0 .. NumHandles + 1
        /\ g.left - 1 \in 0 .. NumHandles
    BY <1>1, <1>2, <1>4, <1>5, SizeAssumption DEF Frame, Handles
  <2>2. f \in Frame
    BY <1>2, <2>1, ZenonT(60) DEF Frame
  <2> QED BY <1>2, <2>2 DEF Frame
<1> HIDE DEF f
<1>9. /\ table'[high] = [flags |-> "pool", locks |-> table[high].locks,
                         base |-> 0, size |-> 0]
      /\ table'[low] = [flags |-> table[low].flags, locks |-> table[low].locks,
                        base |-> IF table[high].base > table[low].base
                                 THEN table[low].base ELSE table[high].base,
                        size |-> table[low].size + table[high].size]
      /\ \A j \in Handles \ {low, high} : table'[j] = table[j]
      /\ DOMAIN table' = Handles
      /\ table' = [j \in Handles |-> table'[j]]
  <2>1. table \in [Handles -> Entry]
    BY DEF IInv, TypeOK
  <2> QED BY <1>4, <1>5, <1>6, <2>1, ZenonT(60) DEF Merge
<1>9a. /\ table'[high].flags = "pool" /\ table'[high].size = 0
       /\ table'[low].flags = table[low].flags
       /\ table'[low].base = IF table[high].base > table[low].base
                             THEN table[low].base ELSE table[high].base
       /\ table'[low].size = table[low].size + table[high].size
       /\ \A j \in Handles \ {low, high} : table'[j] = table[j]
  <2> HIDE DEF g, h, i
  <2> QED BY <1>9
<1>10. table' \in Tables
  <2>1. table'[high] \in Entry /\ table'[low] \in Entry
    <3>1. table[high] \in Entry /\ table[low] \in Entry
      BY SMTT(60), <1>4, <1>7
    <3> QED BY <1>9, <3>1, SizeAssumption DEF Entry
  <2>2. \A j \in Handles : table'[j] \in Entry
    BY <1>7, <1>9a, <2>1
  <2> HIDE DEF g, h, i
  <2> QED BY <1>9, <2>2 DEF Tables
<1>11. DisjointIn(table') /\ CoveredIn(table')
  <2>1. \/ table[high].base = table[low].base + table[low].size
        \/ table[low].base = table[high].base + table[high].size
    BY <1>3, <1>5
  <2>2. table \in Tables /\ DisjointIn(table) /\ CoveredIn(table)
    BY <1>2 DEF IInv, TypeOK, TableOK, Tables
  <2>3. low # high /\ \A j \in Handles \ {low, high} :
           table'[j].base = table[j].base /\ table'[j].size = table[j].size
    BY <1>5, <1>9a
  <2> HIDE DEF g, h, i
  <2> QED BY <2>1, <2>2, <2>3, <1>9a, <1>10, MergeBlocks
<1>12. /\ pc'[c] = "free_scan" /\ frame'[c] = f
       /\ \A o \in Ctxs \ {c} : pc'[o] = pc[o] /\ frame'[o] = frame[o]
  BY <1>1, <1>6 DEF IInv, TypeOK
<1>13. TypeOK'
  BY <1>1, <1>6, <1>8, <1>10 DEF IInv, TypeOK, Tables, Labels
<1>14. ControlOK'
  BY SMTT(30), <1>1, <1>12 DEF IInv, ControlOK, Ctxs
<1>15. table'[low].size > 0
  <2>1. table[low].size + table[high].size > 0
    BY <1>3, <1>4, <1>5, <1>7 DEF Entry
  <2> QED BY <1>9a, <2>1
<1>16. TableOK'
  <2>1. InFree(low)'
    BY SMTT(30), <1>8, <1>12 DEF InFree
  <2>2. \A j \in Handles : /\ table'[j].flags = "pool" /\ ~InFree(j)' => table'[j].size = 0
                           /\ table'[j].flags = "free" => table'[j].size > 0
    <3>1. \A j \in Handles \ {low, high} : j # h
      BY <1>5
    <3> HIDE DEF g, h, i
    <3> QED BY <1>2, <1>5, <1>9a, <1>15, <2>1, <3>1
  <2>3. \A o \in Ctxs : pc'[o] \notin Writing
    BY <1>2, <1>12 DEF Writing, ReLabels
  <2> QED BY <1>11, <2>2, <2>3, TableAtRest
<1>17. ScanOK(c)'
  <2>1. /\ f.i >= 1 /\ f.i + f.left <= NumHandles + 1 /\ f.i > f.h
    BY <1>1, <1>2, <1>4, <1>5, <1>7, <1>8, SizeAssumption DEF ScanOK, Frame, Handles
  <2>2. /\ table[h].base <= g.lo /\ g.lo <= g.hi /\ g.hi <= table[h].base + table[h].size
        /\ g.lo \in Nat /\ g.hi \in Nat
    BY SMTT(30), <1>1, <1>2, <1>7 DEF ScanOK, Frame
  <2>3. /\ table'[low].base <= g.lo /\ g.hi <= table'[low].base + table'[low].size
    <3>1. /\ table[low] \in Entry /\ table[high] \in Entry
          /\ {low, high} = {h, i} /\ low # high
          /\ \/ table[i].base = table[h].base + table[h].size
             \/ table[h].base = table[i].base + table[i].size
      BY <1>3, <1>5, <1>7
    <3> HIDE DEF g, h, i
    <3> QED BY <1>9a, <2>2, <3>1 DEF Entry
  <2> QED BY <1>8, <1>12, <2>1, <2>2, <2>3 DEF ScanOK
<1>18. FrameOK(c)' /\ WriteOK(c)'
  BY <1>1, <1>4, <1>5, <1>7, <1>8, <1>12 DEF FrameOK, WriteOK, ReLabels, OpsOf
<1> QED BY <1>2, <1>12, <1>13, <1>14, <1>16, <1>17, <1>18, Assemble

LEMMA FreeEndStep ==
    ASSUME IInv, RaceFree, NEW c \in Ctxs, FreeEnd(c)
    PROVE  IInv'
<1> DEFINE h == frame[c].h
           l == IF table[h].size = 0 THEN "pool" ELSE "free"
<1>1. /\ cur = c /\ pc[c] = "free_scan" /\ cli' = (c = "isr") /\ owner' = owner /\ cur' = cur
      /\ pc' = [pc EXCEPT ![c] = "idle"] /\ frame' = [frame EXCEPT ![c] = NoFrame]
      /\ \E code \in Codes : ret' = [ret EXCEPT ![c] = code]
      /\ table' = [table EXCEPT ![h].flags = l]
  BY DEF FreeEnd, At, FreeReturn, Return, Popf, Codes
<1>2. /\ \A o \in Ctxs \ {c} : pc[o] \notin ReLabels \cup {"free_scan"}
      /\ Final = table /\ h \in Handles /\ table[h] \in Entry
      /\ \A j \in Handles : InFree(j) <=> j = h
      /\ \A j \in Handles : /\ table[j].flags = "pool" /\ j # h => table[j].size = 0
                            /\ table[j].flags = "free" => table[j].size > 0
  BY <1>1, FreeContext
<1>3. /\ pc'[c] = "idle"
      /\ \A o \in Ctxs \ {c} : pc'[o] = pc[o] /\ frame'[o] = frame[o]
  BY <1>1 DEF IInv, TypeOK
<1>4. \A j \in Handles : /\ table'[j].base = table[j].base /\ table'[j].size = table[j].size
                         /\ table'[j].flags = IF j = h THEN l ELSE table[j].flags
  BY <1>1, <1>2 DEF IInv, TypeOK, Entry
<1>5. DisjointIn(table') /\ CoveredIn(table')
  BY <1>2, <1>4, SameMemory DEF IInv, TableOK
<1>6. TypeOK'
  <2>1. NoFrame \in Frame
    BY SizeAssumption DEF NoFrame, CallFrame, Frame
  <2>2. table' \in [Handles -> Entry]
    BY <1>1, <1>2 DEF IInv, TypeOK, Entry
  <2> QED BY <1>1, <2>1, <2>2 DEF IInv, TypeOK, Labels
<1>7. ControlOK'
  BY <1>1, <1>3 DEF IInv, ControlOK, Ctxs
<1>8. TableOK'
  <2>1. \A j \in Handles : /\ table'[j].flags = "pool" => table'[j].size = 0
                           /\ table'[j].flags = "free" => table'[j].size > 0
    BY <1>2, <1>4 DEF Entry
  <2>2. \A o \in Ctxs : pc'[o] \notin Writing
    BY <1>2, <1>3 DEF Writing, ReLabels
  <2> QED BY <1>5, <2>1, <2>2, TableAtRest
<1>9. FrameOK(c)' /\ ScanOK(c)' /\ WriteOK(c)'
  BY <1>3 DEF FrameOK, ScanOK, WriteOK, ReLabels
<1> QED BY <1>2, <1>3, <1>6, <1>7, <1>8, <1>9, Assemble

-----------------------------------------------------------------------------
\* What a client inside xms_ext_realloc_emb may rely on.
LEMMA ReallocContext ==
    ASSUME IInv, RaceFree, NEW c \in Ctxs, cur = c, pc[c] \in ReLabels
    PROVE  /\ \A o \in Ctxs \ {c} : pc[o] \notin ReLabels \cup {"free_scan"}
           /\ Final = After(c)
           /\ \A j \in Handles : ~InFree(j)
           /\ frame[c].h \in Handles /\ frame[c] \in Frame
           /\ frame[c].op = "realloc" /\ "realloc" \in OpsOf(c)
           /\ table[frame[c].h] \in Entry /\ table[frame[c].h].flags = "used"
           /\ FrameOK(c) /\ WriteOK(c)
<1>1. FrameOK(c) /\ WriteOK(c) /\ frame[c].op = "realloc" /\ "realloc" \in OpsOf(c)
  BY DEF IInv, FrameOK, ReLabels
<1>2. \A o \in Ctxs \ {c} : pc[o] \notin ReLabels \cup {"free_scan"}
  BY <1>1, Quiet
<1>3. Final = After(c)
  BY ZenonT(60), <1>2 DEF Final, After, Writing, ReLabels, Ctxs
<1>4. \A j \in Handles : ~InFree(j)
  BY <1>2 DEF InFree, ReLabels
<1>5. frame[c].h \in Handles /\ frame[c] \in Frame
  BY <1>1 DEF IInv, TypeOK, FrameOK, ReLabels
<1>6. table[frame[c].h] \in Entry /\ table[frame[c].h].flags = "used"
  BY <1>1, <1>5 DEF IInv, TypeOK, FrameOK
<1> QED BY <1>1, <1>2, <1>3, <1>4, <1>5, <1>6

LEMMA ReallocLoadStep ==
    ASSUME IInv, RaceFree, NEW c \in Ctxs, ReallocLoad(c)
    PROVE  IInv'
<1> DEFINE e == table[frame[c].h]
           f == [frame[c] EXCEPT !.hi = e.base + e.size, !.i = 1]
<1>1. /\ cur = c /\ pc[c] = "re_load" /\ cli' = cli /\ table' = table /\ owner' = owner
      /\ Goto(c, "re_scan") /\ frame' = [frame EXCEPT ![c] = f]
  BY DEF ReallocLoad, At
<1>2. /\ frame[c].h \in Handles /\ frame[c] \in Frame /\ e \in Entry /\ e.flags = "used"
      /\ frame[c].op = "realloc" /\ "realloc" \in OpsOf(c)
  BY <1>1, ReallocContext DEF ReLabels
<1>3. /\ f \in Frame /\ f.h = frame[c].h /\ f.op = frame[c].op /\ f.i = 1
      /\ f.hi = e.base + e.size
  <2>1. e.base + e.size \in Nat /\ 1 \in 0 .. NumHandles + 1
    BY <1>2, SizeAssumption DEF Entry
  <2> HIDE DEF e
  <2>2. f \in Frame
    BY <1>2, <2>1 DEF Frame
  <2> QED BY <1>2, <2>2 DEF Frame
<1> HIDE DEF f
<1>4. pc'[c] = "re_scan" /\ frame'[c] = f
  BY <1>1 DEF Goto, IInv, TypeOK
<1>5. FrameOK(c)' /\ ScanOK(c)' /\ WriteOK(c)'
  BY <1>1, <1>2, <1>3, <1>4 DEF FrameOK, ScanOK, WriteOK, ReLabels, OpsOf
<1> QED BY <1>1, <1>3, <1>4, <1>5, RegisterStep DEF Labels, Writing

LEMMA ReallocScanStep ==
    ASSUME IInv, RaceFree, NEW c \in Ctxs, ReallocScan(c)
    PROVE  IInv'
<1> DEFINE g == frame[c]
<1>1. /\ cur = c /\ pc[c] = "re_scan" /\ cli' = cli /\ table' = table /\ owner' = owner
  BY DEF ReallocScan, At
<1>2. /\ g.h \in Handles /\ g \in Frame /\ table[g.h] \in Entry /\ table[g.h].flags = "used"
      /\ g.op = "realloc" /\ "realloc" \in OpsOf(c)
  BY <1>1, ReallocContext DEF ReLabels
<1>3. g.i >= 1 /\ g.hi = table[g.h].base + table[g.h].size
  BY <1>1 DEF IInv, FrameOK
<1>4. CASE g.i > NumHandles
  <2>1. Goto(c, "re_size") /\ frame' = [frame EXCEPT ![c] = g]
    BY <1>4 DEF ReallocScan, IInv, TypeOK
  <2>2. pc'[c] = "re_size" /\ frame'[c] = g
    BY <2>1 DEF Goto, IInv, TypeOK
  <2>3. FrameOK(c)' /\ ScanOK(c)' /\ WriteOK(c)'
    BY <1>1, <1>2, <2>2 DEF FrameOK, ScanOK, WriteOK, ReLabels, OpsOf
  <2> QED BY <1>1, <1>2, <2>1, <2>2, <2>3, RegisterStep DEF Labels, Writing
<1>5. CASE g.i <= NumHandles /\ table[g.i].flags = "free" /\ table[g.i].base = g.hi
  <2> DEFINE f == [g EXCEPT !.nh = g.i]
  <2>1. Goto(c, "re_fit") /\ frame' = [frame EXCEPT ![c] = f]
    BY <1>2, <1>5, SizeAssumption DEF ReallocScan, Frame
  <2>2. g.i \in Handles /\ g.i \in 0 .. NumHandles /\ g.i # g.h
    BY <1>2, <1>3, <1>5, SizeAssumption DEF Frame, Handles
  <2>3. f \in Frame /\ f.h = g.h /\ f.nh = g.i /\ f.op = g.op
    BY <1>2, <2>2 DEF Frame
  <2> HIDE DEF f
  <2>4. pc'[c] = "re_fit" /\ frame'[c] = f
    BY <2>1 DEF Goto, IInv, TypeOK
  <2>5. FrameOK(c)' /\ ScanOK(c)' /\ WriteOK(c)'
    BY <1>1, <1>2, <1>3, <1>5, <2>2, <2>3, <2>4
    DEF FrameOK, ScanOK, WriteOK, ReLabels, OpsOf
  <2> QED BY <1>1, <2>1, <2>3, <2>4, <2>5, RegisterStep DEF Labels, Writing
<1>6. CASE g.i <= NumHandles /\ ~(table[g.i].flags = "free" /\ table[g.i].base = g.hi)
  <2> DEFINE f == [g EXCEPT !.i = @ + 1]
  <2>1. Goto(c, "re_scan") /\ frame' = [frame EXCEPT ![c] = f]
    BY <1>2, <1>6, SizeAssumption DEF ReallocScan, Frame
  <2>2. g.i + 1 \in 0 .. NumHandles + 1 /\ g.i + 1 >= 1
    BY <1>2, <1>3, <1>6, SizeAssumption DEF Frame
  <2>3. f \in Frame /\ f.h = g.h /\ f.i = g.i + 1 /\ f.op = g.op /\ f.hi = g.hi
    BY <1>2, <2>2 DEF Frame
  <2> HIDE DEF f
  <2>4. pc'[c] = "re_scan" /\ frame'[c] = f
    BY <2>1 DEF Goto, IInv, TypeOK
  <2>5. FrameOK(c)' /\ ScanOK(c)' /\ WriteOK(c)'
    BY <1>1, <1>2, <1>3, <2>2, <2>3, <2>4
    DEF FrameOK, ScanOK, WriteOK, ReLabels, OpsOf
  <2> QED BY <1>1, <2>1, <2>3, <2>4, <2>5, RegisterStep DEF Labels, Writing
<1> QED BY <1>2, <1>4, <1>5, <1>6, SizeAssumption DEF Frame

LEMMA ReallocSizeStep ==
    ASSUME IInv, RaceFree, NEW c \in Ctxs, ReallocSize(c)
    PROVE  IInv'
<1> DEFINE g == frame[c]
           d == table[g.h].size - g.n
<1>1. /\ cur = c /\ pc[c] = "re_size" /\ cli' = cli /\ table' = table /\ owner' = owner
  BY DEF ReallocSize, At
<1>2. /\ g.h \in Handles /\ g \in Frame /\ table[g.h] \in Entry /\ table[g.h].flags = "used"
      /\ g.op = "realloc" /\ "realloc" \in OpsOf(c)
  BY <1>1, ReallocContext DEF ReLabels
<1>3. CASE Goto(c, "re_grow") /\ UNCHANGED frame
  <2>1. pc'[c] = "re_grow" /\ frame' = [frame EXCEPT ![c] = g]
    BY <1>3 DEF Goto, IInv, TypeOK
  <2>2. FrameOK(c)' /\ ScanOK(c)' /\ WriteOK(c)'
    BY <1>1, <1>2, <1>3, <2>1 DEF FrameOK, ScanOK, WriteOK, ReLabels, OpsOf
  <2> QED BY <1>1, <1>2, <1>3, <2>1, <2>2, RegisterStep DEF Labels, Writing
<1>4. CASE Return(c, "ok")
  BY <1>1, <1>4, ReturnStep DEF Writing, Codes
<1>5. CASE d > 0 /\ Goto(c, "re_split") /\ frame' = [frame EXCEPT ![c].d = d]
  <2> DEFINE f == [g EXCEPT !.d = d]
  <2>1. d \in Int /\ table[g.h].size = g.n + d
    BY <1>2 DEF Entry, Frame
  <2>2. frame' = [frame EXCEPT ![c] = f]
    BY <1>5
  <2> HIDE DEF d
  <2>3. f \in Frame /\ f.h = g.h /\ f.n = g.n /\ f.d = d /\ f.op = g.op
    BY <1>2, <2>1 DEF Frame
  <2> HIDE DEF f
  <2>4. pc'[c] = "re_split" /\ frame'[c] = f
    BY <1>5, <2>2 DEF Goto, IInv, TypeOK
  <2>5. FrameOK(c)' /\ ScanOK(c)' /\ WriteOK(c)'
    BY <1>1, <1>2, <1>5, <2>1, <2>3, <2>4 DEF FrameOK, ScanOK, WriteOK, ReLabels, OpsOf
  <2> QED BY <1>1, <1>5, <2>2, <2>3, <2>4, <2>5, RegisterStep DEF Labels, Writing
<1> QED BY <1>3, <1>4, <1>5 DEF ReallocSize

\* A step of xms_ext_realloc_emb that leaves the table the step is on the way to
\* sound keeps the invariant.
LEMMA WriteStep ==
    ASSUME IInv, RaceFree, NEW c \in Ctxs, cur = c, pc[c] \in ReLabels,
           NEW l \in (Labels \ {"free_scan"}), pc' = [pc EXCEPT ![c] = l],
           NEW f \in Frame, frame' = [frame EXCEPT ![c] = f],
           NEW r \in [Ctxs -> Codes], ret' = r,
           owner' = owner, cli' = cli, cur' = cur, table' \in Tables,
           NEW u \in Tables, After(c)' = u, DisjointIn(u), CoveredIn(u),
           \A j \in Handles : /\ u[j].flags = "pool" => u[j].size = 0
                              /\ u[j].flags = "free" => u[j].size > 0,
           FrameOK(c)', WriteOK(c)'
    PROVE  IInv'
<1>1. /\ pc'[c] = l /\ frame'[c] = f
      /\ \A o \in Ctxs \ {c} : pc'[o] = pc[o] /\ frame'[o] = frame[o]
  BY DEF IInv, TypeOK
<1>2. \A o \in Ctxs \ {c} : pc[o] \notin ReLabels \cup {"free_scan"}
  BY ReallocContext
<1>3. TypeOK'
  BY DEF IInv, TypeOK, Tables
<1>4. ControlOK'
  BY <1>1 DEF IInv, ControlOK, ReLabels, Ctxs
<1>5. Final' = u
  BY <1>1, <1>2 DEF Final, After, Writing, ReLabels, Ctxs
<1>6. TableOK'
  BY <1>5 DEF TableOK, DisjointIn, CoveredIn, Block, Managed
<1>7. ScanOK(c)'
  BY <1>1 DEF ScanOK
<1> QED BY <1>1, <1>2, <1>3, <1>4, <1>6, <1>7, Assemble

LEMMA ReallocFitStep ==
    ASSUME IInv, RaceFree, NEW c \in Ctxs, ReallocFit(c)
    PROVE  IInv'
<1> DEFINE g == frame[c]
<1>1. /\ cur = c /\ pc[c] = "re_fit" /\ cli' = cli /\ table' = table /\ owner' = owner
      /\ frame' = [frame EXCEPT ![c] = g]
  BY DEF ReallocFit, At, IInv, TypeOK
<1>2. /\ g.h \in Handles /\ g \in Frame /\ table[g.h] \in Entry /\ table[g.h].flags = "used"
      /\ g.op = "realloc" /\ "realloc" \in OpsOf(c) /\ FrameOK(c) /\ WriteOK(c)
  BY <1>1, ReallocContext DEF ReLabels
<1>3. table[g.nh] \in Entry
  BY <1>1, <1>2 DEF FrameOK, IInv, TypeOK
<1>4. PICK l \in {"re_grow", "re_w1"} :
         Goto(c, l) /\ (l = "re_w1" => ~(g.n > table[g.h].size + table[g.nh].size))
  BY DEF ReallocFit
<1>5. pc'[c] = l /\ frame'[c] = g
  BY <1>1, <1>4 DEF Goto, IInv, TypeOK
<1>6. l = "re_w1" => g.n <= table[g.h].size + table[g.nh].size
  BY <1>2, <1>3, <1>4 DEF Entry, Frame
<1>7. FrameOK(c)' /\ ScanOK(c)' /\ WriteOK(c)'
  BY SMTT(60), <1>1, <1>2, <1>4, <1>5, <1>6 DEF FrameOK, ScanOK, WriteOK, ReLabels, OpsOf
<1> QED BY <1>1, <1>2, <1>4, <1>5, <1>7, RegisterStep DEF Labels, Writing

\* A context that is between two writes after the step.
LEMMA FrameWrites ==
    ASSUME NEW c \in Ctxs, pc'[c] \in Writing, frame'[c].h \in Handles,
           frame'[c].nh \in Handles, frame'[c].nh # frame'[c].h,
           frame'[c].op = "realloc", "realloc" \in OpsOf(c),
           table'[frame'[c].h].flags = "used"
    PROVE  FrameOK(c)'
BY DEF FrameOK, Writing, ReLabels, OpsOf

\* The first write moves the border between the block and its successor in the
\* table the writes lead to.
LEMMA ReallocSetSizeStep ==
    ASSUME IInv, RaceFree, NEW c \in Ctxs, ReallocSetSize(c)
    PROVE  IInv'
<1> DEFINE g == frame[c]
           h == g.h
           k == g.nh
           d == g.n - table[h].size
           f == [g EXCEPT !.d = d]
           rest == table[k].size - d
           s == [flags |-> IF rest = 0 THEN "pool" ELSE "free", locks |-> table[k].locks,
                 base |-> table[k].base + d, size |-> rest]
           u == [table' EXCEPT ![k] = s]
<1>1. /\ cur = c /\ pc[c] = "re_w1" /\ cli' = cli /\ owner' = owner /\ cur' = cur
      /\ ret' = ret /\ pc' = [pc EXCEPT ![c] = "re_w2"]
      /\ frame' = [frame EXCEPT ![c] = f] /\ table' = [table EXCEPT ![h].size = g.n]
  BY DEF ReallocSetSize, At, Goto
<1>2. /\ h \in Handles /\ g \in Frame /\ table[h] \in Entry /\ table[h].flags = "used"
      /\ g.op = "realloc" /\ "realloc" \in OpsOf(c) /\ FrameOK(c) /\ WriteOK(c)
      /\ \A j \in Handles : ~InFree(j)
      /\ Final = After(c)
  BY <1>1, ReallocContext DEF ReLabels
<1>3. Final = table
  BY <1>1, <1>2 DEF After, Writing
<1>4. /\ k \in Handles /\ k # h /\ table[k] \in Entry
      /\ table[k].flags = "free" /\ table[k].base = table[h].base + table[h].size
      /\ g.n <= table[h].size + table[k].size
  BY <1>1, <1>2 DEF FrameOK, WriteOK, IInv, TypeOK
<1>5. /\ table[h].base \in Nat /\ table[h].size \in Nat
      /\ table[k].base \in Nat /\ table[k].size \in Nat /\ g.n \in Nat
  BY <1>2, <1>4 DEF Entry, Frame
<1>6. /\ f \in Frame /\ f.h = h /\ f.nh = k /\ f.n = g.n /\ f.d = d /\ f.op = g.op
  <2>1. d \in Int
    BY <1>5
  <2> HIDE DEF d
  <2>2. f \in Frame
    BY <1>2, <2>1 DEF Frame
  <2> QED BY <1>2, <2>2 DEF Frame
<1>7. /\ table'[h] = [flags |-> "used", locks |-> table[h].locks,
                      base |-> table[h].base, size |-> g.n]
      /\ \A j \in Handles \ {h} : table'[j] = table[j]
      /\ table' \in Tables
  BY <1>1, <1>2, <1>5 DEF IInv, TypeOK, Tables, Entry
<1>8. /\ rest \in Nat /\ s \in Entry
      /\ s.base = table[h].base + g.n
  BY <1>4, <1>5 DEF Entry
<1>9. /\ u \in Tables /\ u[k] = s /\ u[h] = table'[h]
      /\ \A j \in Handles \ {h, k} : u[j] = table[j]
  <2> HIDE DEF s
  <2> QED BY <1>4, <1>7, <1>8 DEF Tables
<1>10. DisjointIn(u) /\ CoveredIn(u)
  <2>1. table \in Tables /\ DisjointIn(table) /\ CoveredIn(table)
    BY <1>3 DEF IInv, TypeOK, TableOK, Tables
  <2>2. /\ u[h].base = table[h].base /\ u[h].size = g.n
        /\ u[k].base = table[h].base + g.n
        /\ u[k].size = table[k].size - d
    <3>1. s.size = table[k].size - d
      OBVIOUS
    <3> HIDE DEF u, s, d
    <3> QED BY <1>7, <1>8, <1>9, <3>1
  <2>3. u[h].size + u[k].size = table[h].size + table[k].size
    BY <2>2, <1>5
  <2> HIDE DEF u, d
  <2> QED BY SMTT(60), <2>1, <2>2, <2>3, <1>2, <1>4, <1>9, MoveBorder
<1>11. \A j \in Handles : /\ u[j].flags = "pool" => u[j].size = 0
                          /\ u[j].flags = "free" => u[j].size > 0
  <2>1. \A j \in Handles : /\ table[j].flags = "pool" => table[j].size = 0
                           /\ table[j].flags = "free" => table[j].size > 0
    BY <1>2, <1>3 DEF IInv, TableOK
  <2>2. s.flags = "pool" => s.size = 0
    OBVIOUS
  <2>3. s.flags = "free" => s.size > 0
    BY <1>8
  <2> HIDE DEF u, s
  <2> QED BY <1>7, <1>9, <2>1, <2>2, <2>3
<1>12. pc'[c] = "re_w2" /\ frame'[c] = f
  BY <1>1 DEF IInv, TypeOK
<1>13. After(c)' = u
  <2>1. table'[k] = table[k]
    BY <1>4, <1>7
  <2> HIDE DEF f
  <2> QED BY <1>6, <1>12, <2>1 DEF After, Writing
<1>14. FrameOK(c)' /\ WriteOK(c)'
  <2> HIDE DEF f
  <2>1. d <= table[k].size /\ table[k].base + d = table[h].base + g.n
    BY <1>4, <1>5
  <2>2. /\ table'[h].base = table[h].base /\ table'[h].flags = "used"
        /\ table'[k] = table[k] /\ table[k].flags = "free"
    BY <1>4, <1>7
  <2>3. /\ frame'[c].h = h /\ frame'[c].nh = k /\ frame'[c].n = g.n /\ frame'[c].d = d
        /\ frame'[c].op = "realloc" /\ pc'[c] = "re_w2"
    BY <1>2, <1>6, <1>12
  <2>4. table'[h].size = g.n
    BY <1>7
  <2>5. h \in Handles /\ k \in Handles /\ k # h /\ "realloc" \in OpsOf(c)
    BY <1>2, <1>4
  <2> HIDE DEF g, h, k, d, s, u, rest
  <2>6. FrameOK(c)'
    BY <2>2, <2>3, <2>5, FrameWrites DEF Writing
  <2>7. WriteOK(c)'
    BY <2>1, <2>2, <2>3, <2>4 DEF WriteOK
  <2> QED BY <2>6, <2>7
<1>15. /\ pc[c] \in ReLabels /\ "re_w2" \in Labels \ {"free_scan"}
       /\ ret' \in [Ctxs -> Codes] /\ table' \in Tables /\ f \in Frame /\ u \in Tables
  <2> HIDE DEF f, u, g, h, k, d, s, rest
  <2>1. pc[c] \in ReLabels /\ "re_w2" \in Labels \ {"free_scan"}
    BY <1>1 DEF Labels, ReLabels
  <2>2. ret' \in [Ctxs -> Codes]
    BY <1>1 DEF IInv, TypeOK
  <2> QED BY <1>6, <1>7, <1>9, <2>1, <2>2
<1> HIDE DEF f, u, g, h, k, d, s, rest
<1> QED BY <1>1, <1>10, <1>11, <1>13, <1>14, <1>15, WriteStep

\* The later writes carry out what was left: the table they lead to is the one
\* the invariant already speaks of.
LEMMA LaterWrite ==
    ASSUME IInv, RaceFree, NEW c \in Ctxs, cur = c, pc[c] \in {"re_w2", "re_w3", "re_w4"},
           NEW l \in {"idle", "re_w3", "re_w4", "re_w5"}, pc' = [pc EXCEPT ![c] = l],
           NEW f \in Frame, frame' = [frame EXCEPT ![c] = f],
           NEW r \in [Ctxs -> Codes], ret' = r,
           owner' = owner, cli' = cli, cur' = cur, table' \in Tables,
           After(c)' = After(c), After(c) \in Tables,
           FrameOK(c)', WriteOK(c)'
    PROVE  IInv'
<1>1. PICK u \in Tables : u = After(c)
  OBVIOUS
<1>2. /\ Final = u /\ \A j \in Handles : ~InFree(j)
  BY <1>1, ReallocContext DEF ReLabels
<1>3. /\ DisjointIn(u) /\ CoveredIn(u)
      /\ \A j \in Handles : /\ u[j].flags = "pool" => u[j].size = 0
                            /\ u[j].flags = "free" => u[j].size > 0
  BY <1>2 DEF IInv, TableOK
<1> QED BY <1>1, <1>3, WriteStep DEF ReLabels, Labels

\* What is known between the writes.
LEMMA WriteContext ==
    ASSUME IInv, RaceFree, NEW c \in Ctxs, cur = c, pc[c] \in Writing
    PROVE  LET g == frame[c]
           IN  /\ g.h \in Handles /\ g.nh \in Handles /\ g.nh # g.h /\ g \in Frame
               /\ g.op = "realloc" /\ "realloc" \in OpsOf(c)
               /\ table[g.h] \in Entry /\ table[g.h].flags = "used"
               /\ table[g.nh] \in Entry /\ g.d \in Int /\ g.n \in Nat
               /\ WriteOK(c) /\ table \in Tables
<1>1. pc[c] \in ReLabels
  BY DEF Writing, ReLabels
<1>2. FrameOK(c)
  BY <1>1, ReallocContext
<1>3. frame[c].nh \in Handles /\ frame[c].nh # frame[c].h
  BY <1>2 DEF FrameOK, Writing
<1>4. table[frame[c].nh] \in Entry /\ table \in Tables
  BY <1>3 DEF IInv, TypeOK, Tables
<1>5. frame[c].d \in Int /\ frame[c].n \in Nat
  BY SMTT(30), <1>1, ReallocContext DEF Frame
<1> QED BY <1>1, <1>3, <1>4, <1>5, ReallocContext

LEMMA ReallocMoveBaseStep ==
    ASSUME IInv, RaceFree, NEW c \in Ctxs, ReallocMoveBase(c)
    PROVE  IInv'
<1> DEFINE g == frame[c]
<1>1. /\ cur = c /\ pc[c] = "re_w2" /\ cli' = cli /\ owner' = owner /\ cur' = cur
      /\ ret' = ret /\ pc' = [pc EXCEPT ![c] = "re_w3"]
      /\ frame' = [frame EXCEPT ![c] = g]
      /\ table' = [table EXCEPT ![g.nh].base = @ + g.d]
  BY DEF ReallocMoveBase, At, Goto, IInv, TypeOK
<1>2. PICK h \in Handles, k \in Handles, d \in Int, n \in Nat :
         /\ h = g.h /\ k = g.nh /\ k # h /\ d = g.d /\ n = g.n
         /\ g \in Frame /\ g.op = "realloc" /\ "realloc" \in OpsOf(c)
         /\ table[h] \in Entry /\ table[h].flags = "used" /\ table[k] \in Entry
         /\ table \in Tables
  BY <1>1, WriteContext DEF Writing
<1>3. /\ table[k].flags = "free" /\ d <= table[k].size
      /\ table[k].base + d = table[h].base + n
  BY <1>1, <1>2, WriteContext DEF WriteOK, Writing
<1>4. /\ table[k].base \in Nat /\ table[k].size \in Nat /\ table[h].base \in Nat
      /\ table[k].base + d \in Nat
  BY <1>2, <1>3 DEF Entry
<1>5. /\ table'[k] = [flags |-> "free", locks |-> table[k].locks,
                      base |-> table[k].base + d, size |-> table[k].size]
      /\ \A j \in Handles \ {k} : table'[j] = table[j]
      /\ table' \in Tables
  <2>1. table' = [table EXCEPT ![k].base = @ + d]
    BY <1>1, <1>2
  <2>2. table \in Tables /\ table[k] \in Entry
    BY <1>2
  <2> HIDE DEF g
  <2> QED BY <1>3, <1>4, <2>1, <2>2 DEF Tables, Entry
<1>6. pc'[c] = "re_w3" /\ frame'[c] = g
  BY <1>1 DEF IInv, TypeOK
<1> DEFINE rest == table[k].size - d
           s == [flags |-> IF rest = 0 THEN "pool" ELSE "free", locks |-> table[k].locks,
                 base |-> table[k].base + d, size |-> rest]
<1>7. After(c) = [table EXCEPT ![k] = s]
  BY <1>1, <1>2 DEF After, Writing
<1>8. s \in Entry
  BY <1>2, <1>3, <1>4 DEF Entry
<1>9. After(c) \in Tables
  <2> HIDE DEF s
  <2> QED BY <1>2, <1>7, <1>8 DEF Tables
<1>10. After(c)' = [table' EXCEPT ![k] = s]
  <2>1. /\ table'[k].locks = table[k].locks /\ table'[k].base = table[k].base + d
        /\ table'[k].size = table[k].size
    BY <1>5
  <2>2. pc'[c] = "re_w3" /\ frame'[c].nh = k /\ frame'[c].d = d
    BY <1>2, <1>6
  <2> QED BY <2>1, <2>2 DEF After, Writing
<1>11. After(c)' = After(c)
  <2> HIDE DEF s
  <2> QED BY <1>1, <1>2, <1>7, <1>10 DEF Tables
<1>12. FrameOK(c)' /\ WriteOK(c)'
  <2>1. /\ table'[h].flags = "used" /\ table'[k].flags = "free"
        /\ table'[k].size = table[k].size
    BY <1>2, <1>5
  <2>2. /\ frame'[c].h = h /\ frame'[c].nh = k /\ frame'[c].d = d
        /\ frame'[c].op = "realloc" /\ pc'[c] = "re_w3"
    BY <1>2, <1>6
  <2>3. k # h /\ "realloc" \in OpsOf(c) /\ d <= table[k].size
    BY <1>2, <1>3
  <2> HIDE DEF g, s, rest
  <2>4. FrameOK(c)'
    BY <2>1, <2>2, <2>3, FrameWrites DEF Writing
  <2>5. WriteOK(c)'
    BY <2>1, <2>2, <2>3 DEF WriteOK
  <2> QED BY <2>4, <2>5
<1>13. g \in Frame /\ table' \in Tables /\ ret' \in [Ctxs -> Codes]
  BY <1>1, <1>2, <1>5 DEF IInv, TypeOK
<1> HIDE DEF g, s, rest
<1> QED BY <1>1, <1>9, <1>11, <1>12, <1>13, LaterWrite

LEMMA ReallocTrimRestStep ==
    ASSUME IInv, RaceFree, NEW c \in Ctxs, ReallocTrimRest(c)
    PROVE  IInv'
<1> DEFINE g == frame[c]
<1>1. /\ cur = c /\ pc[c] = "re_w3" /\ cli' = cli /\ owner' = owner
      /\ table' = [table EXCEPT ![g.nh].size = @ - g.d]
  BY DEF ReallocTrimRest, At
<1>2. PICK h \in Handles, k \in Handles, d \in Int :
         /\ h = g.h /\ k = g.nh /\ k # h /\ d = g.d
         /\ g \in Frame /\ g.op = "realloc" /\ "realloc" \in OpsOf(c)
         /\ table[h] \in Entry /\ table[h].flags = "used" /\ table[k] \in Entry
         /\ table \in Tables
  BY <1>1, WriteContext DEF Writing
<1>3. table[k].flags = "free" /\ d <= table[k].size
  BY <1>1, <1>2, WriteContext DEF WriteOK, Writing
<1>4. /\ table[k].base \in Nat /\ table[k].size \in Nat /\ table[k].size - d \in Nat
  BY <1>2, <1>3 DEF Entry
<1>5. /\ table'[k] = [flags |-> "free", locks |-> table[k].locks,
                      base |-> table[k].base, size |-> table[k].size - d]
      /\ \A j \in Handles \ {k} : table'[j] = table[j]
      /\ table' \in Tables
  BY <1>1, <1>2, <1>3, <1>4 DEF Tables, Entry
<1>6. PICK l \in {"idle", "re_w4"}, f \in Frame, r \in [Ctxs -> Codes] :
         /\ pc' = [pc EXCEPT ![c] = l] /\ frame' = [frame EXCEPT ![c] = f]
         /\ ret' = r /\ cur' = cur
         /\ l = "re_w4" => f = g /\ table[k].size = d
         /\ l = "idle" => table[k].size # d
  <2>1. CASE table[k].size = d
    BY <1>2, <2>1 DEF ReallocTrimRest, Goto, IInv, TypeOK
  <2>2. CASE table[k].size # d
    <3>1. NoFrame \in Frame
      BY SizeAssumption DEF NoFrame, CallFrame, Frame
    <3> QED BY <1>2, <2>2, <3>1 DEF ReallocTrimRest, Return, Codes, IInv, TypeOK
  <2> QED BY <2>1, <2>2
<1>7. pc'[c] = l /\ frame'[c] = f
  BY <1>6 DEF IInv, TypeOK
<1> DEFINE rest == table[k].size - d
           s == [flags |-> IF rest = 0 THEN "pool" ELSE "free", locks |-> table[k].locks,
                 base |-> table[k].base, size |-> rest]
<1>8. After(c) = [table EXCEPT ![k] = s]
  BY <1>1, <1>2 DEF After, Writing
<1>9. s \in Entry
  BY <1>2, <1>3, <1>4 DEF Entry
<1>10. After(c) \in Tables
  <2> HIDE DEF s
  <2> QED BY <1>2, <1>8, <1>9 DEF Tables
<1>11. After(c)' = [table' EXCEPT ![k] = s]
  <2>1. CASE l = "re_w4"
    <3>1. rest = 0
      BY <1>4, <1>6, <2>1
    <3>2. /\ table'[k].locks = table[k].locks /\ table'[k].base = table[k].base
          /\ table'[k].size = rest
      BY <1>5
    <3>3. pc'[c] = "re_w4" /\ frame'[c].nh = k
      BY <1>2, <1>6, <1>7, <2>1
    <3> QED BY <3>1, <3>2, <3>3 DEF After, Writing
  <2>2. CASE l = "idle"
    <3>1. rest # 0
      BY <1>2, <1>4, <1>6, <2>2
    <3>2. After(c)' = table' /\ table'[k] = s
      BY <1>5, <1>7, <2>2, <3>1 DEF After, Writing
    <3> HIDE DEF s
    <3> QED BY <1>5, <3>2 DEF Tables
  <2> QED BY <2>1, <2>2
<1>12. After(c)' = After(c)
  <2> HIDE DEF s
  <2> QED BY <1>1, <1>2, <1>8, <1>11 DEF Tables
<1>13. FrameOK(c)' /\ WriteOK(c)'
  <2>1. CASE l = "re_w4"
    <3>1. /\ table'[h].flags = "used" /\ table'[k].flags = "free" /\ table'[k].size = 0
      BY <1>2, <1>4, <1>5, <1>6, <2>1
    <3>2. /\ frame'[c].h = h /\ frame'[c].nh = k
          /\ frame'[c].op = "realloc" /\ pc'[c] = "re_w4"
      BY <1>2, <1>6, <1>7, <2>1
    <3>3. k # h /\ "realloc" \in OpsOf(c)
      BY <1>2
    <3> HIDE DEF g, s, rest
    <3>4. FrameOK(c)'
      BY <3>1, <3>2, <3>3, FrameWrites DEF Writing
    <3>5. WriteOK(c)'
      BY <3>1, <3>2 DEF WriteOK
    <3> QED BY <3>4, <3>5
  <2>2. CASE l = "idle"
    BY <1>7, <2>2 DEF FrameOK, WriteOK, ReLabels
  <2> QED BY <2>1, <2>2
<1>14. table' \in Tables
  BY <1>5
<1> HIDE DEF g, s, rest
<1> QED BY <1>1, <1>6, <1>10, <1>12, <1>13, <1>14, LaterWrite

LEMMA ReallocPoolStep ==
    ASSUME IInv, RaceFree, NEW c \in Ctxs, ReallocPool(c)
    PROVE  IInv'
<1> DEFINE g == frame[c]
<1>1. /\ cur = c /\ pc[c] = "re_w4" /\ cli' = cli /\ owner' = owner /\ cur' = cur
      /\ ret' = ret /\ pc' = [pc EXCEPT ![c] = "re_w5"]
      /\ frame' = [frame EXCEPT ![c] = g]
      /\ table' = [table EXCEPT ![g.nh].flags = "pool"]
  BY DEF ReallocPool, At, Goto, IInv, TypeOK
<1>2. PICK h \in Handles, k \in Handles :
         /\ h = g.h /\ k = g.nh /\ k # h
         /\ g \in Frame /\ g.op = "realloc" /\ "realloc" \in OpsOf(c)
         /\ table[h] \in Entry /\ table[h].flags = "used" /\ table[k] \in Entry
         /\ table \in Tables
  BY <1>1, WriteContext DEF Writing
<1>3. table[k].flags = "free" /\ table[k].size = 0
  BY <1>1, <1>2, WriteContext DEF WriteOK, Writing
<1> DEFINE s == [flags |-> "pool", locks |-> table[k].locks,
                 base |-> table[k].base, size |-> 0]
<1>4. s \in Entry
  BY <1>2 DEF Entry
<1>5. /\ table'[k] = s
      /\ \A j \in Handles \ {k} : table'[j] = table[j]
  BY <1>1, <1>2, <1>3 DEF Tables, Entry
<1>6. table' \in Tables
  <2> HIDE DEF s
  <2> QED BY <1>1, <1>2, <1>4, <1>5 DEF Tables
<1>7. pc'[c] = "re_w5" /\ frame'[c] = g
  BY <1>1 DEF IInv, TypeOK
<1>8. After(c) = [table EXCEPT ![k] = s]
  BY <1>1, <1>2, <1>3 DEF After, Writing
<1>9. After(c)' = [table' EXCEPT ![k] = s]
  <2>1. /\ table'[k].locks = table[k].locks /\ table'[k].base = table[k].base
        /\ table'[k].size = 0
    BY <1>5
  <2>2. pc'[c] = "re_w5" /\ frame'[c].nh = k
    BY <1>2, <1>7
  <2> QED BY <2>1, <2>2 DEF After, Writing
<1>10. After(c) \in Tables /\ After(c)' = After(c)
  <2> HIDE DEF s
  <2>1. After(c) \in Tables /\ After(c)' \in Tables
    BY <1>2, <1>4, <1>6, <1>8, <1>9 DEF Tables
  <2>2. \A j \in Handles : After(c)'[j] = After(c)[j]
    BY SMTT(60), <1>2, <1>5, <1>6, <1>8, <1>9 DEF Tables
  <2> QED BY <2>1, <2>2 DEF Tables
<1>11. FrameOK(c)' /\ WriteOK(c)'
  <2>1. /\ table'[h].flags = "used" /\ table'[k].flags = "pool" /\ table'[k].size = 0
    BY <1>2, <1>5
  <2>2. /\ frame'[c].h = h /\ frame'[c].nh = k
        /\ frame'[c].op = "realloc" /\ pc'[c] = "re_w5"
    BY <1>2, <1>7
  <2>3. k # h /\ "realloc" \in OpsOf(c)
    BY <1>2
  <2> HIDE DEF g, s
  <2>4. FrameOK(c)'
    BY <2>1, <2>2, <2>3, FrameWrites DEF Writing
  <2>5. WriteOK(c)'
    BY <2>1, <2>2 DEF WriteOK
  <2> QED BY <2>4, <2>5
<1>12. g \in Frame /\ ret' \in [Ctxs -> Codes]
  BY <1>1, <1>2 DEF IInv, TypeOK
<1> HIDE DEF g, s
<1> QED BY <1>1, <1>6, <1>10, <1>11, <1>12, LaterWrite

\* The last write clears the address of a handle that holds no memory.
LEMMA ReallocClearStep ==
    ASSUME IInv, RaceFree, NEW c \in Ctxs, ReallocClear(c)
    PROVE  IInv'
<1> DEFINE g == frame[c]
<1>1. /\ cur = c /\ pc[c] = "re_w5" /\ cli' = cli /\ owner' = owner /\ cur' = cur
      /\ ret' = [ret EXCEPT ![c] = "ok"] /\ pc' = [pc EXCEPT ![c] = "idle"]
      /\ frame' = [frame EXCEPT ![c] = NoFrame]
      /\ table' = [table EXCEPT ![g.nh].base = 0]
  BY DEF ReallocClear, At, Return
<1>2. PICK h \in Handles, k \in Handles :
         /\ h = g.h /\ k = g.nh /\ k # h
         /\ table[h] \in Entry /\ table[k] \in Entry /\ table \in Tables
  BY <1>1, WriteContext DEF Writing
<1>3. table[k].flags = "pool" /\ table[k].size = 0
  BY <1>1, <1>2, WriteContext DEF WriteOK, Writing
<1> DEFINE s == [flags |-> "pool", locks |-> table[k].locks,
                 base |-> table[k].base, size |-> 0]
<1>4. After(c) = [table EXCEPT ![k] = s]
  BY <1>1, <1>2, <1>3 DEF After, Writing
<1>5. table[k] = s /\ After(c) = table
  <2>1. table[k] = s
    BY <1>2, <1>3 DEF Entry
  <2> HIDE DEF s
  <2> QED BY <1>2, <1>4, <2>1 DEF Tables
<1>6. /\ DisjointIn(table) /\ CoveredIn(table)
      /\ \A j \in Handles : /\ table[j].flags = "pool" => table[j].size = 0
                            /\ table[j].flags = "free" => table[j].size > 0
  <2>1. Final = table /\ \A j \in Handles : ~InFree(j)
    BY <1>1, <1>5, ReallocContext DEF ReLabels
  <2> QED BY <2>1 DEF IInv, TableOK
<1>7. /\ \A j \in Handles : /\ table'[j].flags = table[j].flags
                            /\ table'[j].size = table[j].size
                            /\ j # k => table'[j].base = table[j].base
      /\ table' \in Tables
  BY <1>1, <1>2 DEF Tables, Entry
<1>8. DisjointIn(table') /\ CoveredIn(table')
  BY <1>2, <1>3, <1>6, <1>7, MoveBorder
<1>9. pc'[c] = "idle" /\ After(c)' = table'
  BY <1>1 DEF After, Writing, IInv, TypeOK
<1>10. NoFrame \in Frame /\ ret' \in [Ctxs -> Codes]
  BY <1>1, SizeAssumption DEF NoFrame, CallFrame, Frame, IInv, TypeOK, Codes
<1>11. FrameOK(c)' /\ WriteOK(c)'
  BY <1>9 DEF FrameOK, WriteOK, ReLabels
<1>12. /\ pc[c] \in ReLabels /\ "idle" \in Labels \ {"free_scan"}
       /\ pc' = [pc EXCEPT ![c] = "idle"] /\ frame' = [frame EXCEPT ![c] = NoFrame]
       /\ owner' = owner /\ cli' = cli /\ cur' = cur /\ cur = c
  BY <1>1 DEF Labels, ReLabels
<1>13. \A j \in Handles : /\ table'[j].flags = "pool" => table'[j].size = 0
                          /\ table'[j].flags = "free" => table'[j].size > 0
  BY <1>6, <1>7
<1> HIDE DEF s, g
<1> QED BY <1>7, <1>8, <1>9, <1>10, <1>11, <1>12, <1>13, WriteStep

\* Outside the writes the table is sound as it is.
LEMMA PlainContext ==
    ASSUME IInv, RaceFree, NEW c \in Ctxs, cur = c, pc[c] \in ReLabels \ Writing
    PROVE  LET g == frame[c]
           IN  /\ g.h \in Handles /\ g \in Frame /\ g.op = "realloc" /\ "realloc" \in OpsOf(c)
               /\ table[g.h] \in Entry /\ table[g.h].flags = "used"
               /\ FrameOK(c) /\ WriteOK(c) /\ table \in Tables
               /\ Final = table /\ \A j \in Handles : ~InFree(j)
               /\ DisjointIn(table) /\ CoveredIn(table)
               /\ \A j \in Handles : /\ table[j].flags = "pool" => table[j].size = 0
                                     /\ table[j].flags = "free" => table[j].size > 0
<1>1. Final = table /\ \A j \in Handles : ~InFree(j)
  BY ReallocContext DEF After
<1> QED BY <1>1, ReallocContext DEF IInv, TypeOK, TableOK, Tables

LEMMA ReallocSplitStep ==
    ASSUME IInv, RaceFree, NEW c \in Ctxs, ReallocSplit(c)
    PROVE  IInv'
<1> DEFINE g == frame[c]
<1>1. /\ cur = c /\ pc[c] = "re_split" /\ cli' = cli /\ owner' = owner /\ cur' = cur
      /\ ret' = [ret EXCEPT ![c] = "ok"] /\ pc' = [pc EXCEPT ![c] = "idle"]
      /\ frame' = [frame EXCEPT ![c] = NoFrame]
  BY DEF ReallocSplit, At, Return
<1>2. PICK p \in Handles :
         /\ table[p].flags = "pool"
         /\ table' = [table EXCEPT
              ![g.h].size = g.n,
              ![p] = [flags |-> "free", locks |-> @.locks,
                      base |-> table[g.h].base + g.n, size |-> g.d]]
  BY DEF ReallocSplit, Flagged
<1>3. PICK h \in Handles, n \in Nat, d \in Int :
         h = g.h /\ n = g.n /\ d = g.d
  BY <1>1, PlainContext DEF ReLabels, Writing, Frame
<1>4. /\ table[h] \in Entry /\ table[h].flags = "used" /\ table \in Tables
      /\ d > 0 /\ table[h].size = n + d
      /\ DisjointIn(table) /\ CoveredIn(table)
      /\ \A j \in Handles : /\ table[j].flags = "pool" => table[j].size = 0
                            /\ table[j].flags = "free" => table[j].size > 0
  BY <1>1, <1>3, PlainContext DEF ReLabels, Writing, WriteOK
<1>5. p # h /\ table[p].size = 0 /\ table[p] \in Entry
  BY SMTT(60), <1>2, <1>4 DEF Tables
<1>6. /\ table'[h] = [flags |-> "used", locks |-> table[h].locks,
                      base |-> table[h].base, size |-> n]
      /\ table'[p] = [flags |-> "free", locks |-> table[p].locks,
                      base |-> table[h].base + n, size |-> d]
      /\ \A j \in Handles \ {h, p} : table'[j] = table[j]
      /\ DOMAIN table' = Handles
      /\ table' = [j \in Handles |-> table'[j]]
  <2>1. table' = [table EXCEPT
              ![h].size = n,
              ![p] = [flags |-> "free", locks |-> @.locks,
                      base |-> table[h].base + n, size |-> d]]
    BY <1>2, <1>3
  <2> HIDE DEF g
  <2> QED BY <2>1, <1>4, <1>5, ZenonT(60) DEF Tables, Entry
<1>7. table' \in Tables
  <2>1. table'[h] \in Entry /\ table'[p] \in Entry
    BY <1>3, <1>4, <1>5, <1>6 DEF Entry
  <2> QED BY <1>4, <1>6, <2>1 DEF Tables
<1>8. DisjointIn(table') /\ CoveredIn(table')
  BY <1>4, <1>5, <1>6, <1>7, MoveBorder
<1>9. \A j \in Handles : /\ table'[j].flags = "pool" => table'[j].size = 0
                         /\ table'[j].flags = "free" => table'[j].size > 0
  BY <1>4, <1>6
<1>10. pc'[c] = "idle" /\ After(c)' = table'
  BY <1>1 DEF After, Writing, IInv, TypeOK
<1>11. NoFrame \in Frame /\ ret' \in [Ctxs -> Codes]
  BY <1>1, SizeAssumption DEF NoFrame, CallFrame, Frame, IInv, TypeOK, Codes
<1>12. FrameOK(c)' /\ WriteOK(c)'
  BY <1>10 DEF FrameOK, WriteOK, ReLabels
<1> QED BY <1>1, <1>7, <1>8, <1>9, <1>10, <1>11, <1>12, WriteStep DEF Labels, ReLabels

\* A reallocation that gives up.
LEMMA ReallocFailStep ==
    ASSUME IInv, NEW c \in Ctxs, ReallocNoHandle(c) \/ ReallocNoMem(c)
    PROVE  IInv'
BY ReturnStep DEF ReallocNoHandle, ReallocNoMem, At, Codes, Writing

LEMMA ReallocGrowStep ==
    ASSUME IInv, RaceFree, NEW c \in Ctxs, ReallocGrow(c)
    PROVE  IInv'
<1> DEFINE g == frame[c]
<1>1. /\ cur = c /\ pc[c] = "re_grow" /\ cli' = cli /\ owner' = owner /\ cur' = cur
      /\ ret' = ret /\ pc' = [pc EXCEPT ![c] = "re_move"]
  BY DEF ReallocGrow, At, Goto
<1>2. PICK k \in GrowFits(c) : /\ TakeWhole(k, g.n) \/ TakePart(k, g.n)
                               /\ frame' = [frame EXCEPT ![c].nh = k]
  BY DEF ReallocGrow
<1>3. k \in Handles /\ table[k].flags = "free" /\ g.n <= table[k].size
  BY <1>2 DEF GrowFits, Fits, Flagged
<1>4. /\ g.h \in Handles /\ g \in Frame /\ g.op = "realloc" /\ "realloc" \in OpsOf(c)
      /\ table[g.h].flags = "used" /\ Final = table /\ \A j \in Handles : ~InFree(j)
      /\ g.n \in Nat
  BY <1>1, PlainContext DEF ReLabels, Writing, Frame
<1>5. /\ table' \in Tables /\ DisjointIn(table') /\ CoveredIn(table')
      /\ \A j \in Handles : /\ table'[j].flags = "pool" => table'[j].size = 0
                            /\ table'[j].flags = "free" => table'[j].size > 0
      /\ table'[k].flags = "used"
      /\ \A j \in Handles \ {k} : table[j].flags = "used" => table'[j] = table[j]
  BY <1>2, <1>3, <1>4, Take DEF IInv
<1> DEFINE f == [g EXCEPT !.nh = k]
<1>6. f \in Frame /\ f.h = g.h /\ f.nh = k /\ f.op = g.op
  <2>1. k \in 0 .. NumHandles
    BY <1>3, SizeAssumption DEF Handles
  <2> QED BY <1>4, <2>1 DEF Frame
<1>7. frame' = [frame EXCEPT ![c] = f]
  BY <1>2
<1> HIDE DEF f
<1>8. pc'[c] = "re_move" /\ frame'[c] = f /\ After(c)' = table'
  BY <1>1, <1>7 DEF After, Writing, IInv, TypeOK
<1>9. k # g.h /\ table'[g.h].flags = "used"
  BY <1>3, <1>4, <1>5
<1>10. FrameOK(c)' /\ WriteOK(c)'
  BY <1>1, <1>3, <1>4, <1>5, <1>6, <1>8, <1>9 DEF FrameOK, WriteOK, ReLabels, OpsOf
<1> QED BY <1>1, <1>5, <1>6, <1>7, <1>8, <1>10, WriteStep DEF Labels, ReLabels, IInv, TypeOK

LEMMA ReallocMoveStep ==
    ASSUME IInv, RaceFree, NEW c \in Ctxs, ReallocMove(c)
    PROVE  IInv'
<1> DEFINE g == frame[c]
<1>1. /\ cur = c /\ pc[c] = "re_move" /\ cli' = cli /\ table' = table /\ owner' = owner
      /\ Goto(c, "re_swap") /\ frame' = [frame EXCEPT ![c] = g]
  BY DEF ReallocMove, At, IInv, TypeOK
<1>2. /\ g.h \in Handles /\ g \in Frame /\ g.op = "realloc" /\ "realloc" \in OpsOf(c)
      /\ table[g.h].flags = "used" /\ FrameOK(c) /\ WriteOK(c)
  BY <1>1, PlainContext DEF ReLabels, Writing
<1>3. pc'[c] = "re_swap" /\ frame'[c] = g
  BY <1>1 DEF Goto, IInv, TypeOK
<1>4. FrameOK(c)' /\ ScanOK(c)' /\ WriteOK(c)'
  BY SMTT(60), <1>1, <1>2, <1>3 DEF FrameOK, ScanOK, WriteOK, ReLabels, OpsOf
<1> QED BY <1>1, <1>2, <1>3, <1>4, RegisterStep DEF Labels, Writing

LEMMA ReallocSwapStep ==
    ASSUME IInv, RaceFree, NEW c \in Ctxs, ReallocSwap(c)
    PROVE  IInv'
<1> DEFINE g == frame[c]
<1>1. /\ cur = c /\ pc[c] = "re_swap" /\ cli' = cli /\ owner' = owner /\ cur' = cur
      /\ ret' = ret /\ pc' = [pc EXCEPT ![c] = "re_free"] /\ frame' = [frame EXCEPT ![c] = g]
      /\ table' = [table EXCEPT ![g.h] = table[g.nh], ![g.nh] = table[g.h]]
  BY DEF ReallocSwap, At, Goto, IInv, TypeOK
<1>2. /\ g.h \in Handles /\ g \in Frame /\ g.op = "realloc" /\ "realloc" \in OpsOf(c)
      /\ table[g.h].flags = "used" /\ FrameOK(c) /\ WriteOK(c) /\ table \in Tables
      /\ DisjointIn(table) /\ CoveredIn(table)
      /\ \A j \in Handles : /\ table[j].flags = "pool" => table[j].size = 0
                            /\ table[j].flags = "free" => table[j].size > 0
  BY <1>1, PlainContext DEF ReLabels, Writing
<1>3. PICK h \in Handles, k \in Handles : h = g.h /\ k = g.nh /\ k # h
  BY <1>1, <1>2 DEF FrameOK
<1>4. table[k].flags = "used"
  BY <1>1, <1>2, <1>3 DEF WriteOK
<1>5. /\ table'[h] = table[k] /\ table'[k] = table[h]
      /\ \A j \in Handles \ {h, k} : table'[j] = table[j]
      /\ table' \in Tables
  BY <1>1, <1>2, <1>3 DEF Tables
<1>6. DisjointIn(table') /\ CoveredIn(table')
  <2>1. Block(table', h) = Block(table, k) /\ Block(table', k) = Block(table, h)
    BY <1>5 DEF Block
  <2>2. Block(table, h) \cap Block(table, k) = {}
    BY <1>2, <1>3 DEF DisjointIn
  <2> QED BY <1>2, <1>3, <1>5, <2>1, <2>2, Redraw
<1>7. \A j \in Handles : /\ table'[j].flags = "pool" => table'[j].size = 0
                         /\ table'[j].flags = "free" => table'[j].size > 0
  BY <1>2, <1>3, <1>5
<1>8. pc'[c] = "re_free" /\ frame'[c] = g /\ After(c)' = table'
  <2>1. pc'[c] = "re_free" /\ frame'[c] = g
    BY <1>1 DEF IInv, TypeOK
  <2> QED BY <2>1 DEF After, Writing
<1>9. FrameOK(c)' /\ WriteOK(c)'
  <2>1. FrameOK(c)'
    BY ZenonT(60), <1>1, <1>2, <1>3, <1>4, <1>5, <1>8 DEF FrameOK, OpsOf, ReLabels
  <2>2. WriteOK(c)'
    BY <1>2, <1>3, <1>4, <1>5, <1>8 DEF WriteOK, ReLabels
  <2> QED BY <2>1, <2>2
<1>10. /\ pc[c] \in ReLabels /\ "re_free" \in Labels \ {"free_scan"}
       /\ ret' \in [Ctxs -> Codes] /\ table' \in Tables /\ g \in Frame
  BY <1>1, <1>2, <1>5 DEF Labels, ReLabels, IInv, TypeOK
<1> HIDE DEF g
<1> QED BY <1>1, <1>6, <1>7, <1>8, <1>9, <1>10, WriteStep

LEMMA ReallocFreeStep ==
    ASSUME IInv, RaceFree, NEW c \in Ctxs, ReallocFree(c)
    PROVE  IInv'
<1> DEFINE g == frame[c]
<1>1. /\ cur = c /\ pc[c] = "re_free" /\ cli' = cli /\ table' = table /\ owner' = owner
  BY DEF ReallocFree, At
<1>2. CASE Return(c, "ok")
  BY <1>1, <1>2, ReturnStep DEF Writing, Codes
<1>3. CASE Goto(c, "free_lock") /\ frame' = [frame EXCEPT ![c].h = g.nh]
  <2> DEFINE f == [g EXCEPT !.h = g.nh]
  <2>1. /\ g \in Frame /\ g.op = "realloc" /\ "realloc" \in OpsOf(c)
        /\ g.nh \in Handles
    BY <1>1, PlainContext DEF ReLabels, Writing, FrameOK
  <2>2. f \in Frame /\ f.h = g.nh /\ f.op = "realloc"
    BY <2>1 DEF Frame
  <2>3. frame' = [frame EXCEPT ![c] = f]
    BY <1>3
  <2> HIDE DEF f
  <2>4. pc'[c] = "free_lock" /\ frame'[c] = f
    BY <1>3, <2>3 DEF Goto, IInv, TypeOK
  <2>5. FrameOK(c)' /\ ScanOK(c)' /\ WriteOK(c)'
    BY <1>1, <2>1, <2>2, <2>4 DEF FrameOK, ScanOK, WriteOK, ReLabels, OpsOf
  <2> QED BY <1>1, <1>3, <2>2, <2>3, <2>4, <2>5, RegisterStep DEF Labels, Writing
<1> QED BY <1>2, <1>3 DEF ReallocFree

-----------------------------------------------------------------------------
\* Every step of the driver keeps the invariant.
LEMMA StepInv == ASSUME IInv, RaceFree, [Next]_vars PROVE IInv'
<1>1. CASE UNCHANGED vars
  <2>1. Final' = Final
    BY <1>1 DEF vars, Final, After
  <2> QED BY SMTT(60), <1>1, <2>1 DEF vars, IInv, TypeOK, ControlOK, TableOK, InFree, FrameOK, ScanOK,
           WriteOK, DisjointIn, CoveredIn, Block, Managed
<1>2. CASE Interrupt
  BY <1>2, InterruptStep
<1>3. CASE Iret
  BY <1>3, IretStep
<1>4. ASSUME NEW c \in Ctxs, Alloc(c) PROVE IInv'
  BY <1>4, AllocFitStep, AllocNullStep, AllocFailStep DEF Alloc
<1>5. ASSUME NEW c \in Ctxs, Lock(c) PROVE IInv'
  <2>1. ASSUME NEW h \in Handles, NEW op \in {"lock", "slock"}, LockCheck(c, op, h)
        PROVE  IInv'
    BY <2>1, EnterStep DEF LockCheck, Ops
  <2> QED BY <1>5, <2>1, LockBeyondStep, LockIncStep, CountDownStep DEF Lock
<1>6. ASSUME NEW c \in Ctxs, Unlock(c) PROVE IInv'
  <2>1. ASSUME NEW h \in Handles, UnlockCheck(c, h) PROVE IInv'
    BY <2>1, EnterStep DEF UnlockCheck, Ops
  <2> QED BY <1>6, <2>1, EarlyStep, CountDownStep DEF Unlock
<1>7. ASSUME NEW c \in Ctxs, FreeEmb(c) PROVE IInv'
  <2>1. ASSUME NEW h \in Handles, FreeCheck(c, h) PROVE IInv'
    BY <2>1, EnterStep DEF FreeCheck, Ops
  <2> QED BY <1>7, <2>1, EarlyStep, FreeBeginStep, FreeSkipStep, FreeMergeStep, FreeEndStep
      DEF FreeEmb
<1>8. ASSUME NEW c \in Ctxs, Realloc(c) PROVE IInv'
  <2>1. ASSUME NEW h \in Handles, NEW n \in Requests, ReallocCheck(c, h, n) PROVE IInv'
    <3>1. n \in Nat
      BY SizeAssumption
    <3> QED BY <2>1, <3>1, EnterStep DEF ReallocCheck, Ops
  <2> QED BY <1>8, <2>1, EarlyStep, ReallocLoadStep, ReallocScanStep, ReallocFitStep,
             ReallocSetSizeStep, ReallocMoveBaseStep, ReallocTrimRestStep, ReallocPoolStep,
             ReallocClearStep, ReallocSizeStep, ReallocSplitStep, ReallocFailStep,
             ReallocGrowStep, ReallocMoveStep, ReallocSwapStep, ReallocFreeStep
      DEF Realloc
<1> QED BY SMTT(60), <1>1, <1>2, <1>3, <1>4, <1>5, <1>6, <1>7, <1>8 DEF Next, Step

\* The invariant holds in every run of a driver whose interrupt routines leave
\* blocks alone while the main program may reallocate one.
THEOREM Invariance == ASSUME RaceFree PROVE Spec => []IInv
<1>1. Init => IInv
  BY InitInv
<1>2. IInv /\ [Next]_vars => IInv'
  BY StepInv
<1> QED BY <1>1, <1>2, PTL DEF Spec

\* The table, the frames and the rest of the state keep their types, whatever
\* is called in what order.
THEOREM TypeCorrect == ASSUME RaceFree PROVE Spec => []TypeOK
<1>1. IInv => TypeOK
  BY DEF IInv
<1> QED BY <1>1, Invariance, PTL

\* xms_alloc_emb, xms_free_emb and xms_ext_realloc_emb never let two handles own
\* the same kB, for tables and memory maps of every size.
THEOREM NoOverlap == ASSUME RaceFree PROVE Spec => []Disjoint
<1>1. IInv => Disjoint
  BY FinalIsTable DEF IInv, TableOK, Disjoint, Settled
<1> QED BY <1>1, Invariance, PTL

\* No kB that geti15mem found ever leaves the table, and none comes in.
THEOREM NothingLost == ASSUME RaceFree PROVE Spec => []Covered
<1>1. IInv => Covered
  BY FinalIsTable DEF IInv, TableOK, Covered, Settled
<1> QED BY <1>1, Invariance, PTL

\* Handles in the pool hold no memory and free blocks are not empty.
THEOREM PoolIsBare == ASSUME RaceFree PROVE Spec => []PoolHoldsNothing
<1>1. IInv => PoolHoldsNothing
  BY FinalIsTable DEF IInv, TableOK, PoolHoldsNothing, Settled
<1> QED BY <1>1, Invariance, PTL

\* Only the context that runs takes a step.
LEMMA StepRuns == ASSUME NEW c \in Ctxs, Step(c) PROVE cur = c
<1>1. CASE Alloc(c)
  BY <1>1 DEF Alloc, AllocFit, AllocNull, AllocFail, Call, At
<1>2. CASE Lock(c)
  BY <1>2 DEF Lock, LockCheck, LockBeyond4G, LockInc, LockUndo, Enter, Call, At
<1>3. CASE Unlock(c)
  BY SMTT(60), <1>3 DEF Unlock, UnlockCheck, UnlockTest, UnlockDec, Enter, Call, At
<1>4. CASE FreeEmb(c)
  <2>1. CASE \E h \in Handles : FreeCheck(c, h)
    BY <2>1 DEF FreeCheck, Enter, Call, At
  <2>2. CASE FreeLock(c) \/ FreeBegin(c)
    BY <2>2 DEF FreeLock, FreeBegin, At
  <2>3. CASE FreeSkip(c) \/ FreeMerge(c) \/ FreeEnd(c)
    BY <2>3 DEF FreeSkip, FreeMerge, FreeEnd, At
  <2> QED BY <1>4, <2>1, <2>2, <2>3 DEF FreeEmb
<1>5. CASE Realloc(c)
  <2>1. CASE \E h \in Handles, n \in Requests : ReallocCheck(c, h, n)
    BY <2>1 DEF ReallocCheck, Enter, Call, At
  <2>2. CASE ReallocLock(c) \/ ReallocLoad(c) \/ ReallocScan(c) \/ ReallocFit(c)
    BY <2>2 DEF ReallocLock, ReallocLoad, ReallocScan, ReallocFit, At
  <2>3. CASE ReallocSetSize(c) \/ ReallocMoveBase(c) \/ ReallocTrimRest(c)
    BY <2>3 DEF ReallocSetSize, ReallocMoveBase, ReallocTrimRest, At
  <2>4. CASE ReallocPool(c) \/ ReallocClear(c) \/ ReallocSize(c) \/ ReallocSplit(c)
    BY <2>4 DEF ReallocPool, ReallocClear, ReallocSize, ReallocSplit, At
  <2>5. CASE ReallocNoHandle(c) \/ ReallocGrow(c) \/ ReallocNoMem(c)
    BY <2>5 DEF ReallocNoHandle, ReallocGrow, ReallocNoMem, At
  <2>6. CASE ReallocMove(c) \/ ReallocSwap(c) \/ ReallocFree(c)
    BY <2>6 DEF ReallocMove, ReallocSwap, ReallocFree, At
  <2> QED BY <1>5, <2>1, <2>2, <2>3, <2>4, <2>5, <2>6 DEF Realloc
<1> QED BY <1>1, <1>2, <1>3, <1>4, <1>5 DEF Step

\* The step that ends the scan of xms_free_emb is the only one that can be taken
\* once every entry has been looked at.
LEMMA ScanEnds ==
    ASSUME IInv, Next, NEW c \in Ctxs, At(c, "free_scan"), frame[c].left = 0
    PROVE  FreeEnd(c)
<1>1. \A o \in Ctxs : cur = o => o = c
  BY DEF At
<1>2. ~Interrupt /\ ~Iret
  BY DEF IInv, ControlOK, Interrupt, Iret, At, Ctxs
<1>3. ASSUME NEW o \in Ctxs, Step(o) PROVE FreeEnd(c)
  <2>1. cur = o /\ o = c
    BY <1>1, <1>3, StepRuns
  <2>2. pc[c] = "free_scan" /\ ~(frame[c].left > 0)
    BY DEF At
  <2>3. ~Alloc(c) /\ ~Lock(c) /\ ~Unlock(c)
    BY <2>2
    DEF Alloc, AllocFit, AllocNull, AllocFail, Lock, LockCheck, LockBeyond4G, LockInc,
        LockUndo, Unlock, UnlockCheck, UnlockTest, UnlockDec, Enter, Call, At
  <2>4. ~Realloc(c)
    BY <2>2
    DEF Realloc, ReallocCheck, ReallocLock,
        ReallocLoad, ReallocScan, ReallocFit, ReallocSetSize, ReallocMoveBase,
        ReallocTrimRest, ReallocPool, ReallocClear, ReallocSize, ReallocSplit,
        ReallocNoHandle, ReallocGrow, ReallocNoMem, ReallocMove, ReallocSwap, ReallocFree,
        Enter, Call, At
  <2>5. FreeEmb(c)
    BY <1>3, <2>1, <2>3, <2>4 DEF Step
  <2>6. ~FreeLock(c) /\ ~FreeBegin(c) /\ ~FreeSkip(c) /\ ~FreeMerge(c)
    BY <2>2 DEF FreeLock, FreeBegin, FreeSkip, FreeMerge, At
  <2>7. ASSUME NEW k \in Handles PROVE ~FreeCheck(c, k)
    BY <2>2 DEF FreeCheck, Enter, Call, At
  <2> QED BY <2>5, <2>6, <2>7, ZenonT(60) DEF FreeEmb
<1> QED BY <1>2, <1>3 DEF Next

\* Whatever xms_free_emb merged, all of the freed block is free memory in the end.
THEOREM FreedMemoryIsFree == ASSUME RaceFree PROVE Spec => FreedIsFree
<1> DEFINE Freed(c) == \A a \in frame[c].lo .. frame[c].hi - 1 :
                         \E h \in Handles : a \in Block(table', h) /\ table'[h].flags = "free"
<1>1. ASSUME IInv, Next, NEW c \in Ctxs, At(c, "free_scan"), frame[c].left = 0
      PROVE  Freed(c)
  <2>1. FreeEnd(c)
    BY <1>1, ScanEnds
  <2> SUFFICES ASSUME NEW a \in frame[c].lo .. frame[c].hi - 1
               PROVE  \E h \in Handles : a \in Block(table', h) /\ table'[h].flags = "free"
    OBVIOUS
  <2>2. PICK h \in Handles : h = frame[c].h
    BY <1>1 DEF IInv, FrameOK, At
  <2>3. /\ table[h].base <= frame[c].lo /\ frame[c].hi <= table[h].base + table[h].size
        /\ table[h].base \in Nat /\ table[h].size \in Nat
        /\ frame[c].lo \in Nat /\ frame[c].hi \in Nat
    <3>1. table[h] \in Entry /\ frame[c] \in Frame
      BY <1>1 DEF IInv, TypeOK
    <3> QED BY <1>1, <2>2, <3>1 DEF IInv, ScanOK, At, Entry, Frame
  <2>4. table[h].base <= a /\ a <= table[h].base + table[h].size - 1 /\ table[h].size # 0
    BY <2>3
  <2>5. table'[h].base = table[h].base /\ table'[h].size = table[h].size
        /\ table'[h].flags = "free"
    BY <1>1, <2>1, <2>2, <2>4 DEF FreeEnd, IInv, TypeOK, Entry
  <2>6. a \in Block(table', h)
    BY <2>3, <2>4, <2>5 DEF Block
  <2> QED BY <2>5, <2>6
<1>2. IInv /\ [Next]_vars
      => [\A c \in Ctxs : At(c, "free_scan") /\ frame[c].left = 0 => Freed(c)]_vars
  BY <1>1
<1> QED BY <1>2, Invariance, PTL DEF Spec, FreedIsFree
=============================================================================

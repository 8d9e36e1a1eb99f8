---------------------------- MODULE XmsMoveProofs ----------------------------
(***************************************************************************)
(* Proofs about XmsMove: what a block move and the copying of a growing    *)
(* reallocation do to memory, for every memory map, chunk size and request.*)
(***************************************************************************)
EXTENDS XmsMove, TLAPS

End(h) == IF h = 0 THEN ConvTop ELSE (table[h].base + table[h].size) * KB

Source == Location(args.sh, args.so)
Target == Location(args.dh, args.do)
Total  == IF args.op = "grow" THEN table[args.sh].size * KB ELSE args.len

\* How much of Total has been copied.
Progress == IF args.op = "grow" THEN grow.off + grow.len - move.left
                                ELSE args.len - move.left

\* The table satisfies what is assumed of Blocks.
TableOK ==
    /\ \A h \in Handles : /\ (table[h].base + table[h].size) * KB <= MemTop
                          /\ \/ (table[h].base + table[h].size) * KB <= FourGB
                             \/ FourGB <= table[h].base * KB
    /\ \A h, k \in Handles : h # k =>
          \/ (table[h].base + table[h].size) * KB <= table[k].base * KB
          \/ (table[k].base + table[k].size) * KB <= table[h].base * KB

\* In the copy loop: where it is, what it has checked and what it has done.
CopyOK ==
    pc = "copy" =>
        /\ args.op \in {"move", "grow"}
        /\ Progress \in Nat /\ Progress + move.left <= Total
        /\ move.s = Source + Progress /\ move.d = Target + Progress
        /\ Source + Total <= End(args.sh) /\ Target + Total <= End(args.dh)
        /\ ~Overlaps(Source, Target, Total)
        /\ move.by = "rmcopy" => Source + Total <= FourGB /\ Target + Total <= FourGB
        /\ ~missed => origin = Copied(Source, Target, Progress)
        /\ args.op = "move" => ~missed

\* In a reallocation: where its loop is.
GrowOK ==
    /\ pc \in {"grow", "next", "swap"} => args.op = "grow"
    /\ pc # "idle" /\ args.op = "grow" =>
        /\ args.sh \in used \cap Handles /\ args.dh \in used \cap Handles
        /\ args.sh # args.dh /\ args.so = 0 /\ args.do = 0
        /\ table[args.sh].size < table[args.dh].size
        /\ grow.off + grow.left * KB = table[args.sh].size * KB
        /\ pc \in {"copy", "next"} =>
              \E c \in 0 .. grow.left : grow.len = c * KB
        /\ pc = "grow" /\ ~missed => origin = Copied(Source, Target, grow.off)
        /\ pc = "next" /\ ~missed => origin = Copied(Source, Target, grow.off + grow.len)
        /\ pc = "swap" => grow.left = 0
        /\ pc = "swap" /\ ~missed => origin = Copied(Source, Target, Total)

IInv == TypeOK /\ TableOK /\ CopyOK /\ GrowOK /\ WithinBlocks /\ MoveCopies /\ GrowKeeps

-----------------------------------------------------------------------------
(* Arithmetic: rounding up to kB, and a product divided by its factor.      *)

\* If x rounded up to units of k is at most z units then x fits in z units.
LEMMA RoundUp ==
    ASSUME NEW k \in Nat \ {0}, NEW x \in Nat, NEW z \in Nat, (x + k - 1) \div k <= z
    PROVE  x <= z * k
<1> DEFINE q == (x + k - 1) \div k
<1>1. q \in Int /\ x + k - 1 < k * (q + 1)
  OBVIOUS
<1>2. k * (q + 1) <= k * (z + 1)
  BY <1>1
<1>3. k * (z + 1) = z * k + k
  OBVIOUS
<1> QED BY <1>1, <1>2, <1>3

\* And the other way round.
LEMMA RoundDown ==
    ASSUME NEW k \in Nat \ {0}, NEW x \in Nat, NEW z \in Nat, x <= z * k
    PROVE  (x + k - 1) \div k <= z
<1> DEFINE q == (x + k - 1) \div k
<1>1. q \in Int /\ k * q <= x + k - 1
  OBVIOUS
<1>2. SUFFICES ASSUME q >= z + 1 PROVE FALSE
  BY <1>1
<1>3. k * (z + 1) <= k * q
  BY <1>1, <1>2
<1>4. k * (z + 1) = z * k + k
  OBVIOUS
<1> QED BY <1>1, <1>3, <1>4

LEMMA DivTimes ==
    ASSUME NEW k \in Nat \ {0}, NEW c \in Nat
    PROVE  (c * k) \div k = c
<1> DEFINE q == (c * k) \div k
<1>1. q \in Int /\ k * q <= c * k /\ c * k < k * (q + 1)
  OBVIOUS
<1>2. q < c => k * (q + 1) <= k * c
  BY <1>1
<1>3. q > c => k * (c + 1) <= k * q
  BY <1>1
<1> QED BY <1>1, <1>2, <1>3

LEMMA EvenTimes ==
    ASSUME NEW k \in Nat, k % 2 = 0, NEW c \in Nat
    PROVE  (c * k) % 2 = 0
<1>1. PICK j \in Nat : k = 2 * j
  OBVIOUS
<1>2. c * k = 2 * (c * j) /\ c * j \in Nat
  BY <1>1
<1>3. \A e \in Nat : (2 * e) % 2 = 0
  OBVIOUS
<1>4. (2 * (c * j)) % 2 = 0
  BY <1>2, <1>3
<1> QED BY <1>2, <1>4

-----------------------------------------------------------------------------
(* Copying.                                                                 *)

\* If m bytes have been copied from s to d, copying the next n, from where the
\* source is now, copies m + n: what Overlaps lets through is never read after it
\* was overwritten.
LEMMA CopyStep ==
    ASSUME NEW s \in Nat, NEW d \in Nat, NEW m \in Nat, NEW n \in Nat, NEW t \in Nat,
           m + n <= t, ~Overlaps(s, d, t), s + t <= MemTop, d + t <= MemTop,
           origin = Copied(s, d, m), CopyTo(s + m, d + m, n)
    PROVE  origin' = Copied(s, d, m + n)
<1>0. MemTop \in Nat
  BY MoveAssumption
<1>1. ASSUME NEW a \in Addrs
      PROVE  (IF a \in (d + m) .. (d + m) + n - 1 THEN origin[(s + m) + (a - (d + m))]
                                                  ELSE origin[a])
             = IF a \in d .. d + (m + n) - 1 THEN s + (a - d) ELSE a
  <2>1. CASE a \in (d + m) .. (d + m) + n - 1
    <3>1. (s + m) + (a - (d + m)) = s + (a - d) /\ s + (a - d) \in Addrs
      BY <1>0, <2>1 DEF Addrs
    <3>2. s + (a - d) \notin d .. d + m - 1
      BY <1>0, <2>1 DEF Addrs, Overlaps
    <3>3. origin[s + (a - d)] = s + (a - d)
      BY <3>1, <3>2 DEF Copied
    <3> QED BY <1>0, <2>1, <3>1, <3>3 DEF Addrs
  <2>2. CASE a \notin (d + m) .. (d + m) + n - 1
    BY <1>0, <2>2 DEF Addrs, Copied
  <2> QED BY <2>1, <2>2
<1> QED BY <1>1, ZenonT(60) DEF CopyTo, Copied

LEMMA CopyNothing ==
    ASSUME NEW s \in Nat, NEW d \in Nat
    PROVE  Copied(s, d, 0) = Untouched
BY MoveAssumption DEF Copied, Untouched, Addrs

\* Any chunk keeps addresses addresses.
LEMMA CopyToType ==
    ASSUME origin \in [Addrs -> Addrs], NEW s \in Nat, NEW d \in Nat, NEW n \in Nat,
           s + n <= MemTop, CopyTo(s, d, n)
    PROVE  origin' \in [Addrs -> Addrs]
<1>1. \A a \in Addrs : a \in d .. d + n - 1 => s + (a - d) \in Addrs
  BY SMTT(60), MoveAssumption DEF Addrs
<1>2. \A a \in Addrs : origin'[a] \in Addrs
  BY <1>1 DEF CopyTo
<1>3. origin' = [a \in Addrs |-> origin'[a]]
  BY DEF CopyTo
<1> QED BY <1>2, <1>3

-----------------------------------------------------------------------------
(* Places in memory.                                                        *)

\* What passes the check of a length lies in the block, and the block in memory.
LEMMA InRoom ==
    ASSUME TypeOK, TableOK, NEW h \in Handles \cup {0}, NEW o \in Nat, NEW n \in Nat,
           FitsIn(h, o, n)
    PROVE  /\ Location(h, o) \in Nat /\ End(h) \in Nat /\ End(h) <= MemTop
           /\ Location(h, o) + n <= End(h)
<1>0. KB \in Nat \ {0} /\ ConvTop \in Nat /\ MemTop \in Nat /\ ConvTop <= MemTop
  BY MoveAssumption, MemoryAssumption
<1>1. CASE h = 0
  BY <1>0, <1>1 DEF FitsIn, Location, End
<1>2. CASE h # 0
  <2> DEFINE b == table[h].base
             z == table[h].size
  <2>1. h \in Handles /\ b \in Nat /\ z \in Nat /\ (b + z) * KB <= MemTop
    BY <1>2 DEF TypeOK, TableOK
  <2>2. ((o + n) + KB - 1) \div KB <= z
    BY <1>2 DEF FitsIn
  <2> HIDE DEF b, z
  <2>3. o + n <= z * KB
    BY <1>0, <2>1, <2>2, RoundUp
  <2>4. (b + z) * KB = b * KB + z * KB /\ b * KB \in Nat /\ z * KB \in Nat
    BY <1>0, <2>1
  <2>5. Location(h, o) = b * KB + o /\ End(h) = (b + z) * KB
    BY <1>2 DEF Location, End, b, z
  <2> QED BY <2>1, <2>3, <2>4, <2>5
<1> QED BY <1>1, <1>2

\* A block that begins below 4 GB ends there.
LEMMA BelowBorder ==
    ASSUME TypeOK, TableOK, NEW h \in Handles \cup {0}, NEW o \in Nat, Location(h, o) < FourGB
    PROVE  End(h) <= FourGB
<1>0. KB \in Nat \ {0} /\ FourGB \in Nat /\ ConvTop \in Nat /\ ConvTop <= FourGB
  BY MoveAssumption, BorderAssumption
<1>1. CASE h = 0
  BY <1>0, <1>1 DEF End
<1>2. CASE h # 0
  <2>1. /\ h \in Handles /\ table[h].base * KB \in Nat
        /\ \/ (table[h].base + table[h].size) * KB <= FourGB
           \/ FourGB <= table[h].base * KB
    BY <1>0, <1>2 DEF TypeOK, TableOK
  <2> QED BY <1>0, <1>2, <2>1 DEF Location, End
<1> QED BY <1>1, <1>2

\* A copy from block to block changes nothing outside them.
LEMMA CopiedWithin ==
    ASSUME TypeOK, TableOK, args.op = "move", NEW m \in Nat,
           Source + m <= End(args.sh), Target + m <= End(args.dh),
           NEW a \in Addrs, NEW f, f = Copied(Source, Target, m), f[a] # a
    PROVE  InBlock(args.dh, a) /\ InBlock(args.sh, f[a])
<1>1. a \in Target .. Target + m - 1 /\ f[a] = Source + (a - Target)
  BY DEF Copied
<1>2. /\ args.sh \in Handles \cup {0} /\ args.dh \in Handles \cup {0}
      /\ args.so \in Nat /\ args.do \in Nat /\ KB \in Nat /\ ConvTop \in Nat
      /\ \A h \in Handles : table[h].base * KB \in Nat
                            /\ (table[h].base + table[h].size) * KB \in Nat
  BY MoveAssumption DEF TypeOK
<1>3. InBlock(args.dh, a)
  BY <1>1, <1>2 DEF InBlock, Target, Location, End, Addrs
<1>4. InBlock(args.sh, f[a])
  <2>1. Source \in Nat /\ Target \in Nat /\ f[a] \in Nat /\ Source <= f[a] /\ f[a] < Source + m
    BY <1>1, <1>2 DEF Source, Target, Location, Addrs
  <2> QED BY <1>2, <2>1 DEF InBlock, Source, Location, End
<1> QED BY <1>3, <1>4

-----------------------------------------------------------------------------
(* The invariant holds at the start and after each step.                    *)

LEMMA InitInv == Init => IInv
<1> SUFFICES ASSUME Init PROVE IInv
  OBVIOUS
<1>1. TypeOK
  BY MoveAssumption DEF Init, TypeOK, NoArgs, NoMove, NoGrow, Untouched, Handles
<1>2. TableOK
  BY MemoryAssumption, BorderAssumption DEF Init, TableOK
<1> QED BY <1>1, <1>2 DEF Init, IInv, CopyOK, GrowOK, WithinBlocks, MoveCopies, GrowKeeps, NoArgs

\* What a call or a chunk of a reallocation has passed when it is copied.
LEMMA CopyVerdict ==
    ASSUME NEW sh, NEW so, NEW dh, NEW do, NEW n, Verdict(sh, so, dh, do, n) \in {"copy", "ok"}
    PROVE  /\ FitsIn(dh, do, n) /\ FitsIn(sh, so, n)
           /\ Verdict(sh, so, dh, do, n) = "ok" => n = 0
           /\ Verdict(sh, so, dh, do, n) = "copy"
                 => n # 0 /\ ~Overlaps(Location(sh, so), Location(dh, do), n)
BY DEF Verdict

LEMMA MoveInv ==
    ASSUME IInv, NEW sh \in Handles \cup {0}, NEW dh \in Handles \cup {0},
           NEW so \in Nat, NEW do \in Nat, NEW n \in Nat, Move(sh, so, dh, do, n)
    PROVE  IInv'
<1> DEFINE v == Verdict(sh, so, dh, do, n)
           s == Location(sh, so)
           d == Location(dh, do)
<1>0. TypeOK /\ TableOK /\ MemTop \in Nat
  BY MoveAssumption DEF IInv
<1>1. /\ table' = table /\ used' = used /\ grow' = grow /\ origin' = Untouched
      /\ missed' = FALSE /\ pc = "idle"
      /\ args' = [op |-> "move", sh |-> sh, so |-> so, dh |-> dh, do |-> do, len |-> n]
  BY DEF Move
<1>2. Source' = s /\ Target' = d /\ Total' = n
  BY <1>1 DEF Source, Target, Total, Location
<1>3. TableOK'
  BY <1>0, <1>1 DEF TableOK
<1>4. WithinBlocks'
  BY <1>1 DEF WithinBlocks, Untouched
<1>5. GrowKeeps'
  BY <1>1 DEF GrowKeeps
<1>6. CASE v = "copy"
  <2>1. PICK v86 \in BOOLEAN :
          /\ move' = [s |-> s, d |-> d, left |-> n, by |-> Routine(s, d, v86)]
          /\ pc' = "copy"
    BY <1>6 DEF Move, BeginMove
  <2>2. /\ s \in Nat /\ s + n <= End(sh) /\ End(sh) \in Nat
        /\ d \in Nat /\ d + n <= End(dh) /\ End(dh) \in Nat
        /\ n # 0 /\ ~Overlaps(s, d, n)
    <3>1. FitsIn(dh, do, n) /\ FitsIn(sh, so, n) /\ n # 0 /\ ~Overlaps(s, d, n)
      BY <1>6, CopyVerdict
    <3>2. s \in Nat /\ s + n <= End(sh) /\ End(sh) \in Nat
      BY <1>0, <3>1, InRoom
    <3>3. d \in Nat /\ d + n <= End(dh) /\ End(dh) \in Nat
      BY <1>0, <3>1, InRoom
    <3> QED BY <3>1, <3>2, <3>3
  <2>3. /\ Routine(s, d, v86) \in {"rmcopy", "rmcopysx", "pmcopy"}
        /\ Routine(s, d, v86) = "rmcopy" => End(sh) <= FourGB /\ End(dh) <= FourGB
    BY <1>0, BelowBorder DEF Routine
  <2>4. End(args.sh)' = End(sh) /\ End(args.dh)' = End(dh) /\ Progress' = 0
    BY <1>1, <2>1, <2>2 DEF End, Progress
  <2> HIDE DEF s, d
  <2>5. TypeOK'
    <3>1. /\ move' \in [s : Nat, d : Nat, left : Nat, by : {"rmcopy", "rmcopysx", "pmcopy"}]
          /\ move'.left > 0 /\ origin' \in [Addrs -> Addrs]
      BY <1>1, <2>1, <2>2, <2>3 DEF Untouched
    <3>2. args' \in [op : {"none", "move", "grow"}, sh : Handles \cup {0}, so : Nat,
                     dh : Handles \cup {0}, do : Nat, len : Nat]
      BY <1>1
    <3> QED BY <1>0, <1>1, <2>1, <3>1, <3>2 DEF TypeOK
  <2>6. origin' = Copied(s, d, 0)
    BY <1>1, <2>2, CopyNothing
  <2>7. CopyOK'
    <3>1. /\ args'.op = "move" /\ Progress' = 0 /\ move'.left = n /\ missed' = FALSE
          /\ move'.s = s /\ move'.d = d /\ move'.by = Routine(s, d, v86)
          /\ args'.sh = sh /\ args'.dh = dh
      BY <1>1, <2>1, <2>4
    <3>2. Overlaps(Source, Target, Total)' = Overlaps(s, d, n)
      BY <1>2 DEF Overlaps
    <3>3. Copied(Source, Target, Progress)' = Copied(s, d, 0)
      BY <1>2, <3>1 DEF Copied
    <3>4. Routine(s, d, v86) = "rmcopy" => s + n <= FourGB /\ d + n <= FourGB
      BY <2>2, <2>3, MoveAssumption
    <3> QED BY <1>2, <2>2, <2>3, <2>4, <2>6, <3>1, <3>2, <3>3, <3>4 DEF CopyOK
  <2>8. GrowOK' /\ MoveCopies'
    BY <1>1, <2>1 DEF GrowOK, MoveCopies
  <2> QED BY <1>3, <1>4, <1>5, <2>5, <2>7, <2>8 DEF IInv
<1>7. CASE v # "copy"
  <2>1. move' = NoMove /\ pc' = "idle" /\ ret' = v
    BY <1>1, <1>7 DEF Move, BeginMove, MoveReturns
  <2>2. TypeOK'
    BY <1>0, <1>1, <2>1 DEF TypeOK, Untouched, NoMove
  <2>3. MoveCopies'
    <3>1. SUFFICES ASSUME v = "ok" PROVE origin' = Copied(s, d, n)
      BY <1>1, <2>1 DEF MoveCopies, Location, Copied
    <3>2. n = 0 /\ FitsIn(dh, do, n) /\ FitsIn(sh, so, n)
      BY <3>1, CopyVerdict
    <3>3. s \in Nat /\ d \in Nat
      BY <1>0, <3>2, InRoom
    <3> QED BY <1>1, <3>2, <3>3, CopyNothing
  <2>4. CopyOK' /\ GrowOK'
    BY <2>1 DEF CopyOK, GrowOK
  <2> QED BY <1>3, <1>4, <1>5, <2>2, <2>3, <2>4 DEF IInv
<1> QED BY <1>6, <1>7

\* What a chunk, or the part of it the BIOS moved before it failed, does to memory.
LEMMA ChunkCopies ==
    ASSUME IInv, pc = "copy", NEW n \in Nat, n <= move.left, CopyTo(move.s, move.d, n),
           args' = args, table' = table
    PROVE  /\ origin' \in [Addrs -> Addrs]
           /\ Source \in Nat /\ Target \in Nat /\ Total \in Nat
           /\ ~missed => origin' = Copied(Source, Target, Progress + n)
           /\ WithinBlocks'
<1>0. TypeOK /\ TableOK /\ CopyOK /\ GrowOK /\ MemTop \in Nat /\ KB \in Nat /\ FourGB \in Nat
  BY MoveAssumption DEF IInv
<1>1. /\ args.op \in {"move", "grow"}
      /\ Progress \in Nat /\ Progress + move.left <= Total
      /\ move.s = Source + Progress /\ move.d = Target + Progress
      /\ Source + Total <= End(args.sh) /\ Target + Total <= End(args.dh)
      /\ ~Overlaps(Source, Target, Total)
      /\ ~missed => origin = Copied(Source, Target, Progress)
      /\ args.op = "move" => ~missed
  BY <1>0 DEF CopyOK
<1>2. Source \in Nat /\ Target \in Nat /\ Total \in Nat
  <2>1. /\ args.sh \in Handles \cup {0} /\ args.dh \in Handles \cup {0}
        /\ args.so \in Nat /\ args.do \in Nat /\ args.len \in Nat
        /\ args.op = "grow" => args.sh \in Handles
        /\ \A h \in Handles : table[h].base * KB \in Nat /\ table[h].size * KB \in Nat
    BY <1>0 DEF TypeOK, GrowOK
  <2> QED BY <2>1 DEF Source, Target, Total, Location
<1>3. End(args.sh) \in Nat /\ End(args.dh) \in Nat
      /\ End(args.sh) <= MemTop /\ End(args.dh) <= MemTop
  <2>1. /\ ConvTop \in Nat /\ ConvTop <= MemTop
        /\ \A h \in Handles : /\ (table[h].base + table[h].size) * KB \in Nat
                              /\ (table[h].base + table[h].size) * KB <= MemTop
    BY <1>0, MoveAssumption, MemoryAssumption DEF TypeOK, TableOK
  <2>2. args.sh \in Handles \cup {0} /\ args.dh \in Handles \cup {0}
    BY <1>0 DEF TypeOK
  <2> QED BY <2>1, <2>2 DEF End
<1>4. move.left \in Nat /\ origin \in [Addrs -> Addrs]
  BY <1>0 DEF TypeOK
<1>5. origin' \in [Addrs -> Addrs]
  <2>1. move.s \in Nat /\ move.d \in Nat /\ move.s + n <= MemTop
    BY <1>0, <1>1, <1>2, <1>3, <1>4
  <2> QED BY <1>4, <2>1, CopyToType
<1>6. ASSUME ~missed PROVE origin' = Copied(Source, Target, Progress + n)
  <2>1. /\ Progress + n <= Total /\ Source + Total <= MemTop /\ Target + Total <= MemTop
        /\ CopyTo(Source + Progress, Target + Progress, n)
    BY <1>0, <1>1, <1>2, <1>3, <1>4
  <2> HIDE DEF Source, Target, Total, Progress
  <2> QED BY SMTT(60), <1>1, <1>2, <1>6, <2>1, CopyStep
<1>7. WithinBlocks'
  <2> SUFFICES ASSUME args.op = "move", NEW a \in Addrs, origin'[a] # a
               PROVE  InBlock(args.dh, a) /\ InBlock(args.sh, origin'[a])
    BY DEF WithinBlocks, InBlock
  <2>1. origin' = Copied(Source, Target, Progress + n) /\ Progress + n \in Nat
    BY <1>1, <1>6
  <2>2. Source + (Progress + n) <= End(args.sh) /\ Target + (Progress + n) <= End(args.dh)
    BY <1>0, <1>1, <1>2, <1>3, <1>4
  <2> QED BY <1>0, <2>1, <2>2, CopiedWithin
<1> QED BY <1>2, <1>5, <1>6, <1>7

LEMMA BiosFailsInv == IInv /\ BiosFails => IInv'
<1> SUFFICES ASSUME IInv, BiosFails PROVE IInv'
  OBVIOUS
<1>1. /\ pc = "copy" /\ args' = args /\ move' = NoMove /\ missed' = TRUE
      /\ table' = table /\ used' = used /\ grow' = grow
      /\ pc' = (IF args.op = "grow" THEN "next" ELSE "idle") /\ ret' = "A20 failure"
  BY DEF BiosFails, MoveReturns
<1>2. PICK n \in {0, ChunkLength} : CopyTo(move.s, move.d, n)
  BY DEF BiosFails
<1>3. n \in Nat /\ n <= move.left
  BY MoveAssumption DEF IInv, TypeOK, ChunkLength, Lesser
<1>4. origin' \in [Addrs -> Addrs] /\ WithinBlocks'
  BY <1>1, <1>2, <1>3, ChunkCopies
<1>5. TypeOK'
  BY <1>1, <1>4 DEF IInv, TypeOK, NoMove
<1>6. TableOK' /\ CopyOK' /\ MoveCopies' /\ GrowKeeps'
  BY <1>1 DEF IInv, TableOK, CopyOK, MoveCopies, GrowKeeps
<1>7. GrowOK'
  BY <1>1 DEF IInv, GrowOK
<1> QED BY <1>4, <1>5, <1>6, <1>7 DEF IInv

LEMMA ChunkInv == IInv /\ CopyChunk => IInv'
<1> SUFFICES ASSUME IInv, CopyChunk PROVE IInv'
  OBVIOUS
<1> DEFINE n == ChunkLength
<1>0. TypeOK /\ TableOK /\ CopyOK /\ GrowOK /\ FourGB \in Nat \ {0}
  BY MoveAssumption DEF IInv
<1>1. /\ pc = "copy" /\ args' = args /\ missed' = missed /\ table' = table /\ used' = used
      /\ grow' = grow /\ CopyTo(move.s, move.d, n)
  BY DEF CopyChunk
<1>2. n \in Nat /\ 0 < n /\ n <= move.left /\ move.left \in Nat
  BY <1>0, <1>1, MoveAssumption DEF TypeOK, ChunkLength, Lesser
<1>3. /\ origin' \in [Addrs -> Addrs]
      /\ Source \in Nat /\ Target \in Nat /\ Total \in Nat
      /\ ~missed => origin' = Copied(Source, Target, Progress + n)
      /\ WithinBlocks'
  BY <1>1, <1>2, ChunkCopies
<1>4. Source' = Source /\ Target' = Target /\ Total' = Total
  BY <1>1 DEF Source, Target, Total, Location
<1>5. TableOK'
  BY <1>0, <1>1 DEF TableOK
<1>6. /\ args.op \in {"move", "grow"}
      /\ Progress \in Nat /\ Progress + move.left <= Total
      /\ move.s = Source + Progress /\ move.d = Target + Progress
      /\ Source + Total <= End(args.sh) /\ Target + Total <= End(args.dh)
      /\ ~Overlaps(Source, Target, Total)
      /\ move.by = "rmcopy" => Source + Total <= FourGB /\ Target + Total <= FourGB
      /\ args.op = "move" => ~missed
  BY <1>0, <1>1 DEF CopyOK
<1> HIDE DEF n
<1>7. CASE move.left # n
  <2>1. /\ pc' = "copy" /\ ret' = ret
        /\ move' = [move EXCEPT !.s = Advance(@, n), !.d = Advance(@, n), !.left = @ - n]
    BY <1>1, <1>7 DEF CopyChunk, n, MoveReturns, Advance
  <2>2. Advance(move.s, n) = move.s + n /\ Advance(move.d, n) = move.d + n
    <3>1. CASE move.by = "rmcopy"
      <4>1. move.s + n \in 0 .. FourGB - 1 /\ move.d + n \in 0 .. FourGB - 1
        <5>1. n < move.left /\ FourGB \in Nat
          BY <1>0, <1>2, <1>7
        <5>2. Source + Total <= FourGB /\ Target + Total <= FourGB
          BY <1>6, <3>1
        <5>3. /\ move.s = Source + Progress /\ move.d = Target + Progress
              /\ Progress + move.left <= Total /\ Progress \in Nat
          BY <1>6
        <5> HIDE DEF Source, Target, Total, Progress
        <5> QED BY <1>2, <1>3, <5>1, <5>2, <5>3
      <4> QED BY <1>0, <3>1, <4>1 DEF Advance
    <3> QED BY <3>1 DEF Advance
  <2>3. /\ move'.s = move.s + n /\ move'.d = move.d + n /\ move'.left = move.left - n
        /\ move'.by = move.by
        /\ move' \in [s : Nat, d : Nat, left : Nat, by : {"rmcopy", "rmcopysx", "pmcopy"}]
    <3>1. move \in [s : Nat, d : Nat, left : Nat, by : {"rmcopy", "rmcopysx", "pmcopy"}]
      BY <1>0 DEF TypeOK
    <3>2. move' = [move EXCEPT !.s = move.s + n, !.d = move.d + n, !.left = move.left - n]
      BY <2>1, <2>2
    <3>3. move.s + n \in Nat /\ move.d + n \in Nat /\ move.left - n \in Nat
      BY <1>2, <3>1
    <3>4. /\ move'.s = move.s + n /\ move'.d = move.d + n /\ move'.left = move.left - n
          /\ move'.by = move.by
      BY <3>1, <3>2
    <3> QED BY <3>1, <3>2, <3>3, <3>4
  <2>4. Progress' = Progress + n
    BY <1>0, <1>1, <1>2, <2>3 DEF Progress, TypeOK
  <2>5. TypeOK'
    BY SMTT(60), <1>0, <1>1, <1>2, <1>3, <1>7, <2>1, <2>3 DEF TypeOK
  <2>6. CopyOK'
    <3>1. /\ Overlaps(Source, Target, Total)' = Overlaps(Source, Target, Total)
          /\ End(args.sh)' = End(args.sh) /\ End(args.dh)' = End(args.dh)
      BY <1>1, <1>4 DEF Overlaps, End
    <3>2. Copied(Source, Target, Progress)' = Copied(Source, Target, Progress + n)
      BY <1>4, <2>4 DEF Copied
    <3>3. Progress' \in Nat /\ Progress' + move'.left <= Total
      BY <1>2, <1>6, <2>3, <2>4
    <3>4. move'.s = Source + Progress' /\ move'.d = Target + Progress'
      BY <1>2, <1>3, <1>6, <2>3, <2>4
    <3> QED BY <1>1, <1>3, <1>4, <1>6, <2>3, <3>1, <3>2, <3>3, <3>4 DEF CopyOK
  <2>7. GrowOK' /\ MoveCopies' /\ GrowKeeps'
    BY <1>0, <1>1, <2>1 DEF GrowOK, MoveCopies, GrowKeeps
  <2> QED BY <1>3, <1>5, <2>5, <2>6, <2>7 DEF IInv
<1>8. CASE move.left = n
  <2>1. /\ move' = NoMove /\ ret' = "ok"
        /\ pc' = IF args.op = "grow" THEN "next" ELSE "idle"
    BY <1>1, <1>8 DEF CopyChunk, n, MoveReturns
  <2>2. TypeOK'
    BY <1>0, <1>1, <1>3, <2>1 DEF TypeOK, NoMove
  <2>3. MoveCopies'
    <3>1. SUFFICES ASSUME args.op = "move" PROVE origin' = Copied(Source, Target, args.len)
      BY <1>1 DEF MoveCopies, Source, Target, Location, Copied
    <3>2. Progress + n = args.len
      BY <1>0, <1>2, <1>8, <3>1 DEF Progress, TypeOK
    <3> QED BY <1>3, <1>6, <3>1, <3>2
  <2>4. GrowOK'
    <3>1. CASE args.op = "grow"
      <4>1. Progress + n = grow.off + grow.len
        BY <1>0, <1>2, <1>8, <3>1 DEF Progress, TypeOK
      <4>2. ~missed => origin' = Copied(Source, Target, grow.off + grow.len)'
        BY <1>1, <1>3, <1>4, <4>1 DEF Copied
      <4> QED BY <1>0, <1>1, <2>1, <3>1, <4>2 DEF GrowOK
    <3>2. CASE args.op # "grow"
      BY <1>1, <2>1, <3>2 DEF GrowOK
    <3> QED BY <3>1, <3>2
  <2>5. CopyOK' /\ GrowKeeps'
    BY <1>1, <2>1 DEF CopyOK, GrowKeeps
  <2> QED BY <1>3, <1>5, <2>2, <2>3, <2>4, <2>5 DEF IInv
<1> QED BY <1>7, <1>8

LEMMA GrowInv ==
    ASSUME IInv, NEW h \in Handles, NEW k \in Handles, Grow(h, k)
    PROVE  IInv'
<1>0. TypeOK /\ TableOK /\ KB \in Nat /\ 0 \notin Handles
  BY MoveAssumption DEF IInv
<1>1. /\ pc' = "grow" /\ table' = table /\ used' = used \cup {k} /\ move' = move
      /\ origin' = Untouched /\ missed' = FALSE
      /\ h \in used /\ k \notin used /\ table[h].size < table[k].size
      /\ grow' = [off |-> 0, left |-> table[h].size, len |-> 0]
      /\ args' = [op |-> "grow", sh |-> h, so |-> 0, dh |-> k, do |-> 0, len |-> 0]
  BY DEF Grow, NoArgs
<1>2. TypeOK'
  BY <1>0, <1>1 DEF TypeOK, Untouched
<1>3. TableOK'
  BY <1>0, <1>1 DEF TableOK
<1>4. CopyOK' /\ WithinBlocks' /\ MoveCopies' /\ GrowKeeps'
  BY <1>1 DEF CopyOK, WithinBlocks, MoveCopies, GrowKeeps
<1>5. GrowOK'
  <2>1. origin' = Copied(Source, Target, grow.off)'
    <3>1. Source' \in Nat /\ Target' \in Nat
      BY <1>0, <1>1 DEF Source, Target, Location, TypeOK
    <3> QED BY <1>1, <3>1, CopyNothing DEF Copied
  <2>2. 0 + table[h].size * KB = table[h].size * KB
    BY <1>0 DEF TypeOK
  <2> QED BY <1>1, <2>1, <2>2 DEF GrowOK
<1> QED BY <1>2, <1>3, <1>4, <1>5 DEF IInv

\* A chunk of a reallocation passes every check of the move: its length is even and
\* fits 32 bits, it lies in both blocks, and they do not overlap.
LEMMA ChunkAccepted ==
    ASSUME IInv, pc = "grow", NEW n, n = InBytes(ChunkSize)
    PROVE  /\ n \in Nat /\ n <= grow.left * KB
           /\ \E c \in 0 .. grow.left : n = c * KB
           /\ Source + Total <= End(args.sh) /\ Target + Total <= End(args.dh)
           /\ ~Overlaps(Source, Target, Total)
           /\ Verdict(args.sh, grow.off, args.dh, grow.off, n) = IF n = 0 THEN "ok" ELSE "copy"
<1> DEFINE h == args.sh
           k == args.dh
           c == ChunkSize
           off == grow.off
<1>0. /\ TypeOK /\ TableOK /\ GrowOK /\ KB \in Nat \ {0} /\ FourGB \in Nat /\ MaxChunk \in Nat
      /\ 0 \notin Handles /\ MaxChunk * KB < FourGB /\ KB % 2 = 0
  BY MoveAssumption, ChunkAssumption DEF IInv
<1>1. /\ args.op = "grow" /\ h \in Handles /\ k \in Handles /\ h \in used /\ k \in used
      /\ h # k /\ args.so = 0 /\ args.do = 0
      /\ table[h].size < table[k].size
      /\ off + grow.left * KB = table[h].size * KB
  BY <1>0 DEF GrowOK
<1>2. /\ off \in Nat /\ grow.left \in Nat
      /\ table[h].base \in Nat /\ table[h].size \in Nat
      /\ table[k].base \in Nat /\ table[k].size \in Nat
  BY <1>0, <1>1 DEF TypeOK
<1>3. c \in Nat /\ c <= grow.left /\ c <= MaxChunk
  BY <1>0, <1>2 DEF ChunkSize, Lesser
<1> DEFINE H == table[h].base * KB
           K == table[k].base * KB
           x == table[h].size * KB
           y == table[k].size * KB
<1>4. /\ H \in Nat /\ K \in Nat /\ x \in Nat /\ y \in Nat
      /\ (table[h].base + table[h].size) * KB = H + x
      /\ (table[k].base + table[k].size) * KB = K + y
  BY <1>0, <1>2
<1>5. x <= y
  BY <1>0, <1>1, <1>2
<1>6. c * KB <= grow.left * KB /\ c * KB <= MaxChunk * KB /\ c * KB \in Nat
      /\ grow.left * KB \in Nat /\ MaxChunk * KB \in Nat
  BY <1>0, <1>2, <1>3
<1>7. n = c * KB
  <2>1. c * KB \in 0 .. FourGB - 1
    BY <1>0, <1>6
  <2> HIDE DEF c
  <2>2. (c * KB) % FourGB = c * KB
    BY <1>0, <2>1
  <2> QED BY <2>2 DEF InBytes, c
<1>8. n % 2 = 0
  BY <1>0, <1>3, <1>7, EvenTimes
<1>9. Source = H /\ Target = K /\ Total = x
      /\ End(h) = H + x /\ End(k) = K + y
      /\ Location(h, off) = H + off /\ Location(k, off) = K + off
  BY <1>0, <1>1, <1>2, <1>4 DEF Source, Target, Total, End, Location
<1>10. H + x <= K \/ K + y <= H
  BY <1>0, <1>1, <1>4 DEF TableOK
<1>11. off + n <= x
  BY <1>1, <1>2, <1>4, <1>6, <1>7
<1> HIDE DEF h, k, c, off, H, K, x, y
<1>12. ~Overlaps(Source, Target, Total) /\ ~Overlaps(Location(h, off), Location(k, off), n)
  BY <1>2, <1>4, <1>5, <1>6, <1>7, <1>9, <1>10, <1>11 DEF Overlaps
<1>13. FitsIn(h, off, n) /\ FitsIn(k, off, n)
  <2>1. off + n \in Nat
    BY <1>2, <1>6, <1>7
  <2>2. (off + n + KB - 1) \div KB <= table[h].size
    BY <1>0, <1>2, <1>11, <2>1, RoundDown DEF x
  <2>3. (off + n + KB - 1) \div KB <= table[k].size
    <3>1. off + n <= table[k].size * KB
      BY <1>4, <1>5, <1>11, <2>1 DEF y
    <3> QED BY <1>0, <1>2, <2>1, <3>1, RoundDown
  <2> QED BY <1>0, <1>1, <2>2, <2>3 DEF FitsIn
<1>14. ~Invalid(h) /\ ~Invalid(k)
  BY <1>1 DEF Invalid
<1>15. Verdict(h, off, k, off, n) = IF n = 0 THEN "ok" ELSE "copy"
  BY <1>8, <1>12, <1>13, <1>14 DEF Verdict
<1>16. Source + Total <= End(h) /\ Target + Total <= End(k)
  BY <1>4, <1>5, <1>9
<1> QED BY <1>3, <1>6, <1>7, <1>12, <1>15, <1>16, <1>2 DEF h, k, off

LEMMA GrowMoveInv == IInv /\ GrowMove => IInv'
<1> SUFFICES ASSUME IInv, GrowMove PROVE IInv'
  OBVIOUS
<1> DEFINE n == InBytes(ChunkSize)
           s == Location(args.sh, grow.off)
           d == Location(args.dh, grow.off)
<1>0. TypeOK /\ TableOK /\ GrowOK /\ WithinBlocks /\ MoveCopies /\ GrowKeeps /\ KB \in Nat
  BY MoveAssumption DEF IInv
<1>1. /\ pc = "grow" /\ args' = args /\ grow' = [grow EXCEPT !.len = n]
      /\ table' = table /\ used' = used /\ origin' = origin /\ missed' = missed
  BY DEF GrowMove
<1>2. /\ n \in Nat /\ n <= grow.left * KB /\ \E c \in 0 .. grow.left : n = c * KB
      /\ Source + Total <= End(args.sh) /\ Target + Total <= End(args.dh)
      /\ ~Overlaps(Source, Target, Total)
      /\ Verdict(args.sh, grow.off, args.dh, grow.off, n) = IF n = 0 THEN "ok" ELSE "copy"
  BY <1>1, ChunkAccepted
<1> HIDE DEF n
<1>3. /\ args.op = "grow" /\ args.sh \in Handles /\ args.dh \in Handles
      /\ args.sh \in used /\ args.dh \in used /\ args.sh # args.dh
      /\ args.so = 0 /\ args.do = 0 /\ table[args.sh].size < table[args.dh].size
      /\ grow.off + grow.left * KB = table[args.sh].size * KB
      /\ ~missed => origin = Copied(Source, Target, grow.off)
  BY <1>0, <1>1 DEF GrowOK
<1>4. /\ grow.off \in Nat /\ grow.left \in Nat /\ grow.left * KB \in Nat
      /\ 0 \notin Handles /\ table[args.sh].base * KB \in Nat
      /\ table[args.dh].base * KB \in Nat /\ table[args.sh].size * KB \in Nat
  BY <1>0, <1>3, MoveAssumption DEF TypeOK
<1>5. /\ grow'.off = grow.off /\ grow'.left = grow.left /\ grow'.len = n
      /\ grow' \in [off : Nat, left : Nat, len : Nat]
  BY <1>0, <1>1, <1>2 DEF TypeOK
<1>6. /\ Source \in Nat /\ Target \in Nat /\ Total = table[args.sh].size * KB
      /\ s = Source + grow.off /\ d = Target + grow.off
  BY <1>3, <1>4 DEF Source, Target, Total, Location
<1>7. Source' = Source /\ Target' = Target /\ Total' = Total
  BY <1>1 DEF Source, Target, Total, Location
<1>8. TableOK' /\ WithinBlocks'
  BY <1>0, <1>1 DEF TableOK, WithinBlocks, InBlock
<1>9. MoveCopies'
  BY <1>1, <1>3 DEF MoveCopies
<1>10. CASE n # 0
  <2>1. PICK v86 \in BOOLEAN :
          /\ move' = [s |-> s, d |-> d, left |-> n, by |-> Routine(s, d, v86)]
          /\ pc' = "copy"
    BY <1>2, <1>10 DEF GrowMove, BeginMove, n
  <2> HIDE DEF s, d
  <2>2. Routine(s, d, v86) \in {"rmcopy", "rmcopysx", "pmcopy"}
    BY DEF Routine
  <2>3. Routine(s, d, v86) = "rmcopy" => End(args.sh) <= FourGB /\ End(args.dh) <= FourGB
    BY <1>0, <1>3, <1>4, BelowBorder DEF Routine, s, d
  <2>4. s \in Nat /\ d \in Nat /\ 0 < n
    BY <1>2, <1>4, <1>6, <1>10
  <2>5. TypeOK'
    <3>1. /\ move' \in [s : Nat, d : Nat, left : Nat, by : {"rmcopy", "rmcopysx", "pmcopy"}]
          /\ move'.left > 0
      BY <1>2, <2>1, <2>2, <2>4
    <3> QED BY <1>0, <1>1, <1>5, <2>1, <3>1 DEF TypeOK
  <2>6. move'.left = n /\ Progress' = grow.off
    BY <1>1, <1>2, <1>3, <1>4, <1>5, <2>1 DEF Progress
  <2>7. CopyOK'
    <3>1. /\ Overlaps(Source, Target, Total)' = Overlaps(Source, Target, Total)
          /\ End(args.sh)' = End(args.sh) /\ End(args.dh)' = End(args.dh)
      BY <1>1, <1>7 DEF Overlaps, End
    <3>2. Copied(Source, Target, Progress)' = Copied(Source, Target, grow.off)
      BY <1>7, <2>6 DEF Copied
    <3>3. Progress' \in Nat /\ Progress' + move'.left <= Total
      BY <1>2, <1>3, <1>4, <1>6, <2>6
    <3>4. move'.s = Source + Progress' /\ move'.d = Target + Progress'
          /\ move'.by = Routine(s, d, v86)
      BY <1>6, <2>1, <2>6
    <3>5. Routine(s, d, v86) = "rmcopy"
             => Source + Total <= FourGB /\ Target + Total <= FourGB
      <4>1. /\ FourGB \in Nat /\ Total \in Nat
            /\ End(args.sh) \in Nat /\ End(args.dh) \in Nat
        BY <1>0, <1>3, <1>4, <1>6, MoveAssumption DEF End, TypeOK
      <4> QED BY <1>2, <1>6, <2>3, <4>1
    <3> QED BY <1>1, <1>2, <1>3, <1>7, <3>1, <3>2, <3>3, <3>4, <3>5 DEF CopyOK
  <2>8. GrowOK' /\ GrowKeeps'
    BY <1>0, <1>1, <1>2, <1>3, <1>5, <2>1 DEF GrowOK, GrowKeeps
  <2> QED BY <1>8, <1>9, <2>5, <2>7, <2>8 DEF IInv
<1>11. CASE n = 0
  <2>1. pc' = "next" /\ move' = NoMove
    BY <1>1, <1>2, <1>3, <1>11 DEF GrowMove, BeginMove, MoveReturns, n
  <2>2. TypeOK'
    BY <1>0, <1>1, <1>5, <2>1 DEF TypeOK, NoMove
  <2>3. CopyOK' /\ GrowKeeps'
    BY <2>1 DEF CopyOK, GrowKeeps
  <2>4. GrowOK'
    <3>1. grow'.off + grow'.len = grow.off
      BY <1>4, <1>5, <1>11
    <3>2. ~missed => origin' = Copied(Source, Target, grow.off + grow.len)'
      BY <1>1, <1>3, <1>7, <3>1 DEF Copied
    <3> QED BY <1>1, <1>2, <1>3, <1>5, <2>1, <3>2 DEF GrowOK
  <2> QED BY <1>8, <1>9, <2>2, <2>3, <2>4 DEF IInv
<1> QED BY <1>10, <1>11

LEMMA GrowNextInv == IInv /\ GrowNext => IInv'
<1> SUFFICES ASSUME IInv, GrowNext PROVE IInv'
  OBVIOUS
<1>0. TypeOK /\ TableOK /\ GrowOK /\ WithinBlocks /\ MoveCopies /\ GrowKeeps
      /\ KB \in Nat \ {0}
  BY MoveAssumption DEF IInv
<1>1. /\ pc = "next" /\ table' = table /\ used' = used /\ origin' = origin /\ args' = args
      /\ move' = move /\ missed' = missed /\ ret' = ret
      /\ grow' = [off |-> grow.off + grow.len, left |-> grow.left - (grow.len \div KB), len |-> 0]
      /\ pc' = IF grow'.left = 0 THEN "swap" ELSE "grow"
  BY DEF GrowNext
<1>2. /\ args.op = "grow" /\ args.sh \in Handles /\ args.dh \in Handles
      /\ args.sh \in used /\ args.dh \in used /\ args.sh # args.dh
      /\ args.so = 0 /\ args.do = 0 /\ table[args.sh].size < table[args.dh].size
      /\ grow.off + grow.left * KB = table[args.sh].size * KB
      /\ \E c \in 0 .. grow.left : grow.len = c * KB
      /\ ~missed => origin = Copied(Source, Target, grow.off + grow.len)
  BY <1>0, <1>1 DEF GrowOK
<1>3. PICK c \in 0 .. grow.left : grow.len = c * KB
  BY <1>2
<1>4. grow.off \in Nat /\ grow.left \in Nat /\ grow.len \in Nat /\ c \in Nat /\ c <= grow.left
  BY <1>0, <1>3 DEF TypeOK
<1>5. grow.len \div KB = c
  BY <1>0, <1>3, <1>4, DivTimes
<1>6. /\ grow'.off = grow.off + grow.len /\ grow'.left = grow.left - c /\ grow'.len = 0
      /\ grow' \in [off : Nat, left : Nat, len : Nat]
  BY <1>1, <1>4, <1>5
<1>7. grow'.off + grow'.left * KB = table[args.sh].size * KB
  <2>1. (grow.left - c) * KB = grow.left * KB - c * KB
    BY <1>0, <1>4
  <2>2. grow.left * KB \in Nat /\ c * KB \in Nat
    BY <1>0, <1>4
  <2> QED BY <1>2, <1>3, <1>4, <1>6, <2>1, <2>2
<1>8. TypeOK'
  BY <1>0, <1>1, <1>6 DEF TypeOK
<1>9. TableOK' /\ WithinBlocks' /\ MoveCopies' /\ GrowKeeps' /\ CopyOK'
  BY <1>0, <1>1 DEF TableOK, WithinBlocks, InBlock, MoveCopies, GrowKeeps, CopyOK
<1>10. GrowOK'
  <2>1. Source' = Source /\ Target' = Target /\ Total' = table[args.sh].size * KB
    BY <1>1, <1>2 DEF Source, Target, Total, Location
  <2>2. ~missed => origin' = Copied(Source, Target, grow.off)'
    BY <1>1, <1>2, <1>6, <2>1 DEF Copied
  <2>3. grow'.left = 0 => grow'.off = Total'
    BY <1>0, <1>6, <1>7, <2>1
  <2>4. pc' = "swap" /\ ~missed => origin' = Copied(Source, Target, Total)'
    BY <1>1, <1>2, <1>6, <2>1, <2>3 DEF Copied
  <2> QED BY <1>1, <1>2, <1>7, <2>2, <2>4 DEF GrowOK
<1> QED BY <1>8, <1>9, <1>10 DEF IInv

LEMMA GrowSwapInv == IInv /\ GrowSwap => IInv'
<1> SUFFICES ASSUME IInv, GrowSwap PROVE IInv'
  OBVIOUS
<1> DEFINE h == args.sh
           k == args.dh
<1>0. TypeOK /\ TableOK /\ GrowOK
  BY DEF IInv
<1>1. /\ pc = "swap" /\ pc' = "idle" /\ table' = [table EXCEPT ![h] = table[k], ![k] = table[h]]
      /\ used' = used \ {k} /\ origin' = origin /\ args' = args /\ move' = move
      /\ grow' = grow /\ missed' = missed
  BY DEF GrowSwap
<1>2. /\ args.op = "grow" /\ h \in Handles /\ k \in Handles /\ h # k
      /\ args.so = 0 /\ args.do = 0
      /\ ~missed => origin = Copied(Source, Target, Total)
  BY <1>0, <1>1 DEF GrowOK
<1> HIDE DEF h, k
<1>3. /\ table' \in [Handles -> [base : Nat, size : Nat]]
      /\ table'[h] = table[k] /\ table'[k] = table[h]
      /\ \A j \in Handles \ {h, k} : table'[j] = table[j]
  BY <1>0, <1>1, <1>2 DEF TypeOK
<1>4. TypeOK'
  BY <1>0, <1>1, <1>3 DEF TypeOK
<1>5. TableOK'
  <2> DEFINE Ends(e) == /\ (e.base + e.size) * KB <= MemTop
                        /\ \/ (e.base + e.size) * KB <= FourGB
                           \/ FourGB <= e.base * KB
             Apart(e, f) == \/ (e.base + e.size) * KB <= f.base * KB
                            \/ (f.base + f.size) * KB <= e.base * KB
  <2>1. /\ \A i \in Handles : Ends(table[i])
        /\ \A i, j \in Handles : i # j => Apart(table[i], table[j])
    BY <1>0 DEF TableOK
  <2>2. \A e, f : Apart(e, f) => Apart(f, e)
    OBVIOUS
  <2> HIDE DEF Ends, Apart
  <2>3. \A i \in Handles : Ends(table'[i])
    BY <1>2, <1>3, <2>1
  <2>4. \A i, j \in Handles : i # j => Apart(table'[i], table'[j])
    BY <1>2, <1>3, <2>1, <2>2
  <2> QED BY <2>3, <2>4 DEF TableOK, Ends, Apart
<1>6. CopyOK' /\ GrowOK' /\ WithinBlocks' /\ MoveCopies'
  BY <1>1, <1>2 DEF CopyOK, GrowOK, WithinBlocks, MoveCopies
<1>7. GrowKeeps'
  <2>1. /\ Location(k, 0)' = Source /\ Location(h, 0)' = Target
        /\ table'[k].size * KB = Total
    BY <1>1, <1>2, <1>3, MoveAssumption DEF Location, Source, Target, Total, h, k
  <2> QED BY <1>1, <1>2, <2>1 DEF GrowKeeps, Copied, h, k
<1> QED BY <1>4, <1>5, <1>6, <1>7 DEF IInv

LEMMA StepInv == IInv /\ [Next]_vars => IInv'
<1> SUFFICES ASSUME IInv, [Next]_vars PROVE IInv'
  OBVIOUS
<1>1. CASE \E sh, dh \in Handles \cup {0}, so, do \in Offsets, n \in Lengths :
              Move(sh, so, dh, do, n)
  BY SMTT(60), <1>1, MoveInv, MoveAssumption
<1>2. CASE CopyChunk
  BY <1>2, ChunkInv
<1>3. CASE BiosFails
  BY <1>3, BiosFailsInv
<1>4. CASE \E h, k \in Handles : Grow(h, k)
  BY <1>4, GrowInv
<1>5. CASE GrowMove
  BY <1>5, GrowMoveInv
<1>6. CASE GrowNext
  BY <1>6, GrowNextInv
<1>7. CASE GrowSwap
  BY <1>7, GrowSwapInv
<1>8. CASE UNCHANGED vars
  <2>1. TypeOK' /\ TableOK'
    BY <1>8 DEF vars, IInv, TypeOK, TableOK
  <2>2. CopyOK' /\ GrowOK'
    BY <1>8 DEF vars, IInv, CopyOK, GrowOK, Source, Target, Total, Progress, End, Location,
                InBlock, Copied, Overlaps
  <2>3. WithinBlocks' /\ MoveCopies' /\ GrowKeeps'
    BY <1>8 DEF vars, IInv, WithinBlocks, MoveCopies, GrowKeeps, Source, Target, Total,
                Progress, End, Location, InBlock, Copied, Overlaps
  <2> QED BY <2>1, <2>2, <2>3 DEF IInv
<1> QED BY <1>1, <1>2, <1>3, <1>4, <1>5, <1>6, <1>7, <1>8 DEF Next

-----------------------------------------------------------------------------
\* The inductive invariant holds of every call on every memory map.
THEOREM Invariance == Spec => []IInv
BY InitInv, StepInv, PTL DEF Spec

\* Registers and memory keep their ranges.
THEOREM TypeCorrect == Spec => []TypeOK
<1>1. IInv => TypeOK
  BY DEF IInv
<1> QED BY <1>1, Invariance, PTL

\* A move that reports success has copied the whole source and nothing else.
THEOREM MoveIsCopy == Spec => []MoveCopies
<1>1. IInv => MoveCopies
  BY DEF IInv
<1> QED BY <1>1, Invariance, PTL

\* No move changes or reads memory outside the blocks it names.
THEOREM MoveStaysInside == Spec => []WithinBlocks
<1>1. IInv => WithinBlocks
  BY DEF IInv
<1> QED BY <1>1, Invariance, PTL

\* A reallocation that moves a block moves its contents, unless the BIOS fails.
THEOREM GrowIsCopy == Spec => []GrowKeeps
<1>1. IInv => GrowKeeps
  BY DEF IInv
<1> QED BY <1>1, Invariance, PTL
===============================================================================

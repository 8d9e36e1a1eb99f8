-------------------------- MODULE SrdReachProofs ---------------------------
(***************************************************************************)
(* Proofs about SrdResize: resizing never reads or writes a sector that    *)
(* has no memory behind it (StaysInReach), for every chain of parts, every *)
(* disk, every format asked for and any amount of free memory.             *)
(*                                                                         *)
(* The argument.  calc_alloc asks the parts for no less than the goal      *)
(* (CalcEnough), and every step of the recursion through the parts leaves  *)
(* the sum of what they hold, or still have to get or give, no smaller     *)
(* than the goal (Settled, Fits).  So a finished allocation has memory for *)
(* both formats, and each of them ends where its memory does; each step of *)
(* the move stays within one of the two.                                   *)
(*                                                                         *)
(* What is assumed, besides memory managers that never refuse to make a    *)
(* block smaller: no disk is so near the largest number of Kbytes that     *)
(* their sum wraps (NoWrap), a sector holds at least four FAT entries of   *)
(* 12 bits (the real one holds 85 and more), and a disk that is Ordinary:  *)
(* a cluster of it is used, and the new root directory, put where the old  *)
(* one starts, ends within the old disk or within the new one.             *)
(***************************************************************************)
EXTENDS SrdProofs

-----------------------------------------------------------------------------
(***************************************************************************)
(* What the parts have together.                                           *)
(***************************************************************************)
LEMMA TotalIs ==
  ASSUME NEW sec \in [Parts -> Nat]
  PROVE  Total(sec) \in Nat
<1>1. Len(Kind) + 1 \in 1..Len(Kind) + 1
  BY ChainTypes
<1> QED BY <1>1, FirstOfSteps DEF Total

\* Parts that are no smaller are no smaller together.
LEMMA TotalGrows ==
  ASSUME NEW a \in [Parts -> Nat], NEW b \in [Parts -> Nat], \A p \in Parts : a[p] <= b[p]
  PROVE  Total(a) <= Total(b)
<1> DEFINE N == Len(Kind)
           Bad == {r \in 1..N + 1 : ~(FirstOf(a, r) <= FirstOf(b, r))}
<1>1. N \in Nat /\ Parts = 1..N
  BY ChainTypes
<1>2. /\ FirstOf(a, 1) = 0 /\ FirstOf(b, 1) = 0
      /\ \A p \in 1..N : FirstOf(a, p + 1) = FirstOf(a, p) + a[p]
      /\ \A p \in 1..N : FirstOf(b, p + 1) = FirstOf(b, p) + b[p]
      /\ \A p \in 1..N + 1 : FirstOf(a, p) \in Nat /\ FirstOf(b, p) \in Nat
  BY <1>1, FirstOfSteps
<1>3. Bad = {}
  <2> SUFFICES ASSUME Bad # {} PROVE FALSE
    OBVIOUS
  <2>1. PICK t \in Bad : \A u \in Bad : t <= u
    <3>1. Bad \in SUBSET Nat
      BY <1>1
    <3> QED BY <3>1, Smallest
  <2>2. t \in 1..N + 1 /\ ~(FirstOf(a, t) <= FirstOf(b, t))
    OBVIOUS
  <2>3. t # 1
    BY <1>2, <2>2
  <2>4. t - 1 \in 1..N /\ t - 1 \in 1..N + 1 /\ t - 1 \notin Bad /\ (t - 1) + 1 = t
    BY <1>1, <2>1, <2>2, <2>3
  <2> DEFINE u == t - 1
             a1 == FirstOf(a, u)
             b1 == FirstOf(b, u)
  <2>5. a1 \in Nat /\ b1 \in Nat /\ a1 <= b1 /\ a[u] \in Nat /\ b[u] \in Nat /\ a[u] <= b[u]
    BY <1>1, <1>2, <2>4
  <2>6. FirstOf(a, t) = a1 + a[u] /\ FirstOf(b, t) = b1 + b[u]
    BY <1>2, <2>4
  <2> HIDE DEF u, a1, b1, Bad
  <2> QED BY <2>2, <2>5, <2>6
<1>4. N + 1 \in 1..N + 1
  BY <1>1
<1> QED BY <1>3, <1>4 DEF Total

LEMMA TotalShifts ==
  ASSUME NEW s \in [Parts -> Nat], NEW i \in Parts, NEW a \in Nat
  PROVE  /\ Total(WithSize(s, i, a)) = Total(s) + a - s[i]
         /\ WithSize(s, i, a) \in [Parts -> Nat] /\ WithSize(s, i, a)[i] = a
         /\ \A p \in Parts \ {i} : WithSize(s, i, a)[p] = s[p]
<1>1. Shifted(WithSize(s, i, a), s, i, a)
  BY FirstOfShifts
<1>2. Len(Kind) + 1 \in 1..Len(Kind) + 1 /\ Len(Kind) + 1 > i /\ s[i] \in Nat
  BY ChainTypes
<1>3. Total(WithSize(s, i, a)) = Total(s) + (a - s[i])
  BY <1>1, <1>2 DEF Shifted, Total
<1>4. Total(s) \in Nat
  BY TotalIs
<1> QED BY <1>1, <1>2, <1>3, <1>4 DEF Shifted

-----------------------------------------------------------------------------
(***************************************************************************)
(* calc_alloc asks for no less than the goal.                              *)
(***************************************************************************)
\* A goal so small that no number of Kbytes the loops work with wraps.
Small(total) == \A i \in Parts : total + MaxK[i] + AllocUnit(i) <= Word

\* So much is given to the parts and so much is left to give.
Divided(d, total) ==
    /\ d \in DivSet /\ Total(d.need) + d.left = total
    /\ \A p \in Parts : d.need[p] < total + MaxK[p] + AllocUnit(p)

LEMMA KeptBound ==
  ASSUME Sizes, NEW i \in Parts, NEW p, p.left \in Int
  PROVE  KeptOf(p, i) \in Nat /\ KeptOf(p, i) < MaxK[i] + AllocUnit(i)
<1> DEFINE m == Least(size[i], MaxK[i])
           a == Least(m, Dword(p.left))
<1>1. size[i] \in Nat /\ MaxK[i] \in Nat /\ AllocUnit(i) \in Nat \ {0}
  BY ChainTypes DEF Sizes
<1>2. m \in Nat /\ m <= MaxK[i]
  BY <1>1 DEF Least
<1>3. KeptOf(p, i) = Adjust(a, AllocUnit(i))
  BY DEF KeptOf, MinA
<1>4. Dword(p.left) \in Nat
  BY WordOf
<1> HIDE DEF m
<1>5. a \in Nat /\ a <= MaxK[i]
  BY <1>1, <1>2, <1>4 DEF Least
<1> HIDE DEF a
<1>6. Adjust(a, AllocUnit(i)) \in Nat /\ Adjust(a, AllocUnit(i)) < a + AllocUnit(i)
  BY <1>1, <1>5, Rounded
<1> QED BY <1>1, <1>3, <1>5, <1>6

LEMMA KeptDivides ==
  ASSUME Sizes, NEW total \in Nat
  PROVE  Divided(Kept(total), total)
<1> DEFINE N == Len(Kind)
<1>1. PICK upto : /\ Kept(total) = upto[Len(Kind)] /\ upto[0] = Nothing(total)
                  /\ \A i \in 1..Len(Kind) : upto[i] = KeptPart(upto[i - 1], i)
  <2>1. Sizes /\ total \in Int
    OBVIOUS
  <2> QED BY ONLY <2>1, KeptSteps, Zenon
<1>2. N \in Nat /\ Parts = 1..N
  BY ChainTypes
<1>3. \A i \in 0..N : upto[i] \in KeptSet(i)
  BY <1>1, KeptTypes
<1> DEFINE K == [i \in 1..N |-> KeptOf(upto[i - 1], i)]
<1>4. K \in [Parts -> Nat] /\ \A i \in 1..N : K[i] = KeptOf(upto[i - 1], i)
                                              /\ K[i] < MaxK[i] + AllocUnit(i)
  <2>1. \A i \in 1..N : KeptOf(upto[i - 1], i) \in Nat /\ KeptOf(upto[i - 1], i) < MaxK[i] + AllocUnit(i)
    <3> SUFFICES ASSUME NEW i \in 1..N
                 PROVE  KeptOf(upto[i - 1], i) \in Nat /\ KeptOf(upto[i - 1], i) < MaxK[i] + AllocUnit(i)
      OBVIOUS
    <3>1. upto[i - 1].left \in Int
      BY <1>2, <1>3 DEF KeptSet
    <3> QED BY <1>2, <3>1, KeptBound
  <2> QED BY <1>2, <2>1
<1> HIDE DEF K
\* Each part keeps what it was given when its turn came.
<1> DEFINE Early(i) == {x \in KeptSet(i) : \A j \in 1..i : x.need[j] = K[j]}
           D == [i \in 0..N |-> Early(i)]
<1>5. \A i \in 0..N : upto[i] \in D[i]
  <2>1. upto[0] \in D[0]
    BY <1>2, <1>3
  <2>2. \A i \in 1..N : upto[i - 1] \in D[i - 1] => upto[i] \in D[i]
    <3> SUFFICES ASSUME NEW i \in 1..N, upto[i - 1] \in D[i - 1] PROVE upto[i] \in D[i]
      OBVIOUS
    <3> DEFINE p == upto[i - 1]
               s == p.need
    <3>1. p \in KeptSet(i - 1) /\ \A j \in 1..i - 1 : p.need[j] = K[j]
      BY <1>2
    <3>2. upto[i].need = Append(s, K[i])
      <4>1. upto[i] = KeptPart(p, i) /\ K[i] = KeptOf(p, i)
        BY <1>1, <1>2, <1>4
      <4> HIDE DEF p
      <4> QED BY <4>1 DEF KeptPart
    <3>3. s \in [1..i - 1 -> Nat] /\ K[i] \in Nat
      BY <1>2, <1>4, <3>1 DEF KeptSet
    <3>4. s \in Seq(Nat) /\ Len(s) = i - 1
      <4> HIDE DEF s, p
      <4> DEFINE k == i - 1
      <4>1. k \in Nat /\ s \in [1..k -> Nat]
        BY <1>2, <3>3
      <4> HIDE DEF k
      <4>2. s \in Seq(Nat)
        BY <4>1, SeqDef
      <4>3. Len(s) \in Nat /\ DOMAIN s = 1..Len(s)
        BY ONLY <4>2, LenProperties, Zenon
      <4>4. DOMAIN s = 1..k
        BY <4>1
      <4>5. Len(s) = k
        BY ONLY <4>1, <4>3, <4>4
      <4> QED BY <4>2, <4>5 DEF k
    <3>5. \A j \in 1..i : Append(s, K[i])[j] = IF j = i THEN K[i] ELSE s[j]
      <4> HIDE DEF s, p, D
      <4> QED BY <1>2, <3>3, <3>4, AppendProperties
    <3>6. upto[i] \in KeptSet(i) /\ \A j \in 1..i : upto[i].need[j] = K[j]
      <4> HIDE DEF p, D
      <4>1. \A j \in 1..i : j # i => j \in 1..i - 1
        BY <1>2
      <4>2. \A j \in 1..i : upto[i].need[j] = IF j = i THEN K[i] ELSE p.need[j]
        BY <3>2, <3>5
      <4>3. \A j \in 1..i : upto[i].need[j] = K[j]
        BY <3>1, <4>1, <4>2
      <4> QED BY <1>2, <1>3, <4>3
    <3> HIDE DEF p
    <3> QED BY <1>2, <3>6
  <2> HIDE DEF D
  <2> QED BY ONLY <1>2, <2>1, <2>2, LoopKeeps
<1>6. Kept(total).need = K /\ Kept(total) \in DivSet
  <2>1. upto[N] \in KeptSet(N) /\ \A j \in 1..N : upto[N].need[j] = K[j]
    BY <1>2, <1>5
  <2> HIDE DEF N
  <2>2. upto[N].need = K
    BY <1>2, <1>4, <2>1 DEF KeptSet
  <2> QED BY <1>1, <1>2, <2>1, <2>2 DEF KeptSet, DivSet, N
\* What is left when a part's turn comes is what those before it have not.
<1> DEFINE So == {i \in 0..N : ~(FirstOf(K, i + 1) + upto[i].left = total)}
<1>7. So = {}
  <2> SUFFICES ASSUME So # {} PROVE FALSE
    OBVIOUS
  <2>1. PICK t \in So : \A u \in So : t <= u
    <3>1. So \in SUBSET Nat
      BY <1>2
    <3> QED BY <3>1, Smallest
  <2>2. t \in 0..N /\ ~(FirstOf(K, t + 1) + upto[t].left = total)
    OBVIOUS
  <2>3. t # 0
    <3>1. FirstOf(K, 1) = 0
      BY <1>4, FirstOfSteps
    <3> QED BY <1>1, <2>2, <3>1 DEF Nothing
  <2>4. t \in 1..N /\ t - 1 \in 0..N /\ t - 1 \notin So /\ (t - 1) + 1 = t
    BY <1>2, <2>1, <2>2, <2>3
  <2>5. FirstOf(K, t) + upto[t - 1].left = total
    BY <2>4
  <2>6. FirstOf(K, t + 1) = FirstOf(K, t) + K[t] /\ FirstOf(K, t) \in Nat /\ K[t] \in Nat
    <3>1. t \in Parts /\ t \in 1..Len(Kind) + 1
      BY <1>2, <2>4
    <3> QED BY <1>4, <3>1, FirstOfSteps
  <2>7. upto[t].left = upto[t - 1].left - K[t] /\ upto[t - 1].left \in Int
    <3>1. upto[t] = KeptPart(upto[t - 1], t) /\ K[t] = KeptOf(upto[t - 1], t)
          /\ upto[t - 1] \in KeptSet(t - 1)
      BY <1>1, <1>2, <1>3, <1>4, <2>4
    <3> QED BY <3>1 DEF KeptPart, KeptSet
  <2> HIDE DEF So
  <2> QED BY <2>2, <2>5, <2>6, <2>7
<1>8. Total(Kept(total).need) + Kept(total).left = total
  <2>1. N \in 0..N /\ N \notin So
    BY <1>2, <1>7
  <2> QED BY <1>1, <1>6, <2>1 DEF Total
<1>9. \A p \in Parts : K[p] < total + MaxK[p] + AllocUnit(p)
  <2> SUFFICES ASSUME NEW p \in Parts PROVE K[p] < total + MaxK[p] + AllocUnit(p)
    OBVIOUS
  <2>1. K[p] \in Nat /\ MaxK[p] \in Nat /\ AllocUnit(p) \in Nat /\ K[p] < MaxK[p] + AllocUnit(p)
    BY <1>2, <1>4, ChainTypes
  <2> QED BY <2>1
<1> QED BY <1>6, <1>8, <1>9 DEF Divided


LEMMA GrownDivides ==
  ASSUME Sizes, NEW total \in Nat, NEW div, Divided(div, total), NEW limit \in [Parts -> Nat]
  PROVE  Divided(Grown(div, limit), total)
<1> DEFINE N == Len(Kind)
           D == {d \in DivSet : Divided(d, total)}
<1>1. N \in Nat /\ Parts = 1..N
  BY ChainTypes
<1>2. div \in D
  BY DEF Divided
<1>3. PICK upto : /\ Grown(div, limit) = upto[Len(Kind)] /\ upto[0] = div
                  /\ \A i \in 1..Len(Kind) : upto[i] = GrownPart(limit, upto[i - 1], i)
                  /\ \A i \in 0..Len(Kind) : upto[i] \in DivSet
  BY <1>2, GrownSteps
<1>4. \A i \in 1..N : upto[i - 1] \in D => upto[i] \in D
  <2> SUFFICES ASSUME NEW i \in 1..N, upto[i - 1] \in D PROVE Divided(upto[i], total)
    BY <1>3
  <2> DEFINE p == upto[i - 1]
             q == upto[i]
  <2> SUFFICES Divided(q, total)
    OBVIOUS
  <2>1. q = GrownPart(limit, p, i) /\ Divided(p, total) /\ i \in Parts /\ q \in DivSet
    BY <1>1, <1>3
  <2> HIDE DEF p, q
  <2>2. CASE ~(p.left > 0 /\ p.need[i] < MaxK[i])
    BY <2>1, <2>2 DEF GrownPart
  <2>3. CASE p.left > 0 /\ p.need[i] < MaxK[i]
    <3> DEFINE k == GrownOf(limit, p, i)
               s == p.need
    <3>1. /\ p.left \in Nat /\ s \in [Parts -> Nat] /\ Total(s) + p.left = total
          /\ \A r \in Parts : s[r] < total + MaxK[r] + AllocUnit(r)
      BY <2>1, <2>3 DEF Divided, DivSet
    <3>2. k \in Nat /\ k < p.left + AllocUnit(i)
      BY <2>1, <3>1, GrownOfType
    <3>3. q = p \/ (q.need = WithSize(s, i, s[i] + k) /\ q.left = p.left - k)
      BY <2>1 DEF GrownPart, WithSize
    <3>4. s[i] < MaxK[i] /\ s[i] \in Nat /\ MaxK[i] \in Nat /\ AllocUnit(i) \in Nat /\ Total(s) \in Nat
      BY <2>1, <2>3, <3>1, TotalIs, ChainTypes
    <3> HIDE DEF k, s
    <3> DEFINE a == s[i] + k
               new == WithSize(s, i, a)
    <3>5. a \in Nat /\ a < total + MaxK[i] + AllocUnit(i) /\ a - s[i] = k
      <4> DEFINE x == s[i]
                 u == AllocUnit(i)
                 m == MaxK[i]
                 l == p.left
                 t == Total(s)
      <4>1. /\ x \in Nat /\ m \in Nat /\ u \in Nat /\ l \in Nat /\ t \in Nat /\ k \in Nat
            /\ x < m /\ k < l + u /\ t + l = total
        BY <3>1, <3>2, <3>4
      <4> HIDE DEF x, u, m, l, t
      <4>2. x + k \in Nat /\ x + k < total + m + u /\ (x + k) - x = k
        BY <4>1
      <4> QED BY <4>2 DEF x, u, m
    <3> HIDE DEF a
    <3>6. /\ Total(new) = Total(s) + a - s[i] /\ new[i] = a
          /\ \A r \in Parts \ {i} : new[r] = s[r]
      <4>1. s \in [Parts -> Nat] /\ i \in Parts /\ a \in Nat
        BY <2>1, <3>1, <3>5
      <4> QED BY ONLY SMTT(30), <4>1, TotalShifts DEF new
    <3> HIDE DEF new
    <3>7. Total(new) + (p.left - k) = total
      <4> DEFINE x == s[i]
                 l == p.left
                 t == Total(s)
                 n == Total(new)
      <4>1. x \in Nat /\ l \in Nat /\ t \in Nat /\ k \in Nat /\ a \in Nat /\ a - x = k
            /\ t + l = total /\ n = t + a - x
        BY <3>1, <3>2, <3>4, <3>5, <3>6
      <4> HIDE DEF x, l, t, n
      <4>2. n + (l - k) = total
        BY <4>1
      <4> QED BY <4>2 DEF n, l
    <3>8. \A r \in Parts : new[r] < total + MaxK[r] + AllocUnit(r)
      BY <3>1, <3>5, <3>6
    <3> QED BY <2>1, <3>3, <3>7, <3>8 DEF Divided, new, a
  <2> QED BY <2>2, <2>3
<1>5. \A i \in 0..N : upto[i] \in D
  <2>1. upto[0] \in D
    BY <1>2, <1>3
  <2> HIDE DEF D
  <2> QED BY ONLY <1>1, <1>4, <2>1, LoopStays
<1>6. N \in 0..N
  BY <1>1
<1> QED BY <1>3, <1>5, <1>6

\* The numbers of Kbytes are below the end of a Dword and not too small.
Enough(d, total) ==
    /\ d \in DivSet /\ Total(d.need) + d.left >= total
    /\ \A p \in Parts : d.need[p] < Word

\* Only a number below zero wraps, and it becomes no smaller.
LEMMA WordAbove ==
  ASSUME NEW x \in Int, x < Word
  PROVE  Dword(x) \in Nat /\ Dword(x) >= x /\ Dword(x) < Word
<1>1. Word \in Nat \ {0}
  BY ChainTypes
<1>2. x % Word \in 0..Word - 1
  BY <1>1
<1>3. x >= 0 => x % Word = x
  BY <1>1
<1> QED BY <1>1, <1>2, <1>3 DEF Dword

LEMMA ShrunkEnough ==
  ASSUME NEW total \in Nat, NEW div, Enough(div, total)
  PROVE  Enough(Shrunk(div), total)
<1> DEFINE D == {d \in DivSet : Enough(d, total)}
<1>1. div \in D
  BY DEF Enough
<1>0. PICK N \in Nat : \E after :
             /\ Shrunk(div) = after[N] /\ after[0] = div
             /\ \A n \in 1..N : after[n] = ShrunkPart(after[n - 1], PartAt(n)) /\ PartAt(n) \in Parts
             /\ \A n \in 0..N : after[n] \in DivSet
  BY <1>1, ShrunkSteps
<1>2. PICK after :
             /\ Shrunk(div) = after[N] /\ after[0] = div
             /\ \A n \in 1..N : after[n] = ShrunkPart(after[n - 1], PartAt(n)) /\ PartAt(n) \in Parts
             /\ \A n \in 0..N : after[n] \in DivSet
  BY <1>0
<1>3. \A n \in 1..N : after[n - 1] \in D => after[n] \in D
  <2> SUFFICES ASSUME NEW n \in 1..N, after[n - 1] \in D PROVE Enough(after[n], total)
    BY <1>2
  <2> DEFINE p == after[n - 1]
             q == after[n]
             i == PartAt(n)
  <2> SUFFICES Enough(q, total)
    OBVIOUS
  <2>1. q = ShrunkPart(p, i) /\ Enough(p, total) /\ i \in Parts /\ q \in DivSet
    BY <1>2
  <2> HIDE DEF p, q, i
  <2>2. CASE ~(AllocUnit(i) < -p.left)
    BY <2>1, <2>2 DEF ShrunkPart
  <2>3. CASE AllocUnit(i) < -p.left
    <3> DEFINE k == (-p.left) \div AllocUnit(i)
               s == p.need
               d == s[i] - k
               a == Dword(d)
    <3>1. /\ p.left \in Int /\ s \in [Parts -> Nat] /\ Total(s) + p.left >= total
          /\ \A r \in Parts : s[r] < Word
      BY <2>1 DEF Enough, DivSet
    <3>2. s[i] \in Nat /\ AllocUnit(i) \in Nat \ {0} /\ Total(s) \in Nat /\ Word \in Nat
      BY <2>1, <3>1, TotalIs, ChainTypes
    <3>3. q.need = WithSize(s, i, a) /\ q.left = p.left + k
      BY <2>1, <2>3 DEF ShrunkPart, WithSize
    <3>4. k \in Nat
      <4> DEFINE u == AllocUnit(i)
                 l == -p.left
      <4>1. u \in Nat \ {0} /\ l \in Nat
        BY <2>3, <3>1, <3>2
      <4> HIDE DEF u, l
      <4>2. l \div u \in Nat
        BY <4>1
      <4> QED BY <4>2 DEF u, l
    <3> HIDE DEF k, s
    <3>5. d \in Int /\ d < Word
      BY <2>1, <3>1, <3>2, <3>4
    <3>6. a \in Nat /\ a >= d /\ a < Word
      <4> HIDE DEF d
      <4> QED BY <3>5, WordAbove
    <3> HIDE DEF a
    <3> DEFINE new == WithSize(s, i, a)
    <3>7. /\ Total(new) = Total(s) + a - s[i] /\ new[i] = a
          /\ \A r \in Parts \ {i} : new[r] = s[r]
      BY <2>1, <3>1, <3>6, TotalShifts
    <3> HIDE DEF new
    <3>8. Total(new) + (p.left + k) >= total
      BY <3>1, <3>2, <3>4, <3>6, <3>7
    <3>9. \A r \in Parts : new[r] < Word
      BY <3>1, <3>6, <3>7
    <3> QED BY <2>1, <3>3, <3>8, <3>9 DEF Enough, new
  <2> QED BY <2>2, <2>3
<1>4. \A n \in 0..N : after[n] \in D
  <2>1. after[0] \in D
    BY <1>1, <1>2
  <2> HIDE DEF D
  <2> QED BY ONLY <1>3, <2>1, N \in Nat, LoopStays
<1> QED BY <1>2, <1>4

\* calc_alloc gives the parts the goal or more, or says how much is missing.
LEMMA CalcEnough ==
  ASSUME Sizes, NEW total \in Nat, Small(total)
  PROVE  Enough(CalcAlloc(total), total)
<1> DEFINE s == [i \in Parts |-> SafeSize(i)]
           x == [i \in Parts |-> MaxSize(i)]
           kept == Kept(total)
<1>1. \A i \in Parts : size[i] \in Nat /\ free[Kind[i]] \in Nat /\ free["xms"] \in Nat /\ free["ems"] \in Nat
  BY ChainTypes DEF Sizes, Pools
<1>2. s \in [Parts -> Nat]
  BY <1>1 DEF SafeSize, Most
<1>3. x \in [Parts -> Nat]
  BY <1>1 DEF MaxSize
<1>4. CalcAlloc(total) = Shrunk(IF Grown(kept, s).left > 0 THEN Grown(kept, x) ELSE Grown(kept, s))
  BY DEF CalcAlloc
<1>5. Divided(kept, total)
  BY KeptDivides
<1> HIDE DEF s, x, kept
<1>6. Divided(Grown(kept, s), total) /\ Divided(Grown(kept, x), total)
  BY <1>2, <1>3, <1>5, GrownDivides
<1>7. \A d : Divided(d, total) => Enough(d, total)
  <2> SUFFICES ASSUME NEW d, Divided(d, total) PROVE Enough(d, total)
    OBVIOUS
  <2>1. d \in DivSet /\ Total(d.need) + d.left = total /\ d.need \in [Parts -> Nat] /\ d.left \in Int
    BY DEF Divided, DivSet
  <2>2. Total(d.need) \in Nat
    BY <2>1, TotalIs
  <2>3. \A p \in Parts : d.need[p] < Word
    <3> SUFFICES ASSUME NEW p \in Parts PROVE d.need[p] < Word
      OBVIOUS
    <3>1. d.need[p] < total + MaxK[p] + AllocUnit(p) /\ total + MaxK[p] + AllocUnit(p) <= Word
      BY DEF Divided, Small
    <3>2. d.need[p] \in Nat /\ MaxK[p] \in Nat /\ AllocUnit(p) \in Nat /\ Word \in Nat
      BY <2>1, ChainTypes
    <3> QED BY <3>1, <3>2
  <2> QED BY <2>1, <2>2, <2>3 DEF Enough
<1> QED BY <1>4, <1>6, <1>7, ShrunkEnough

-----------------------------------------------------------------------------
(***************************************************************************)
(* What has memory behind it.                                              *)
(***************************************************************************)
\* The blocks hold the sectors that the parts are addressed with.
Stands(bl, sec) == BlocksOK(bl) /\ sec \in [Parts -> Nat] /\ \A p \in Parts : sec[p] <= Len(bl[p])

LEMMA AllBacked ==
  ASSUME NEW bl, NEW sec, Stands(bl, sec), NEW s \in Int, 0 <= s, s < Total(sec)
  PROVE  Backed(bl, sec, s)
<1>1. BlocksOK(bl) /\ sec \in [Parts -> Nat] /\ \A p \in Parts : sec[p] <= Len(bl[p])
  BY DEF Stands
<1>2. PICK p \in Parts : \E k \in 1..sec[p] : s = FirstOf(sec, p) + k - 1
  BY <1>1, HomeIs
<1>3. PICK k \in 1..sec[p] : s = FirstOf(sec, p) + k - 1
  BY <1>2
<1>4. k <= Len(bl[p])
  <2>1. Len(bl[p]) \in Nat /\ sec[p] \in Nat /\ sec[p] <= Len(bl[p])
    BY <1>1, BlockLen DEF BlocksOK
  <2> QED BY <2>1
<1>5. Backed(bl, sec, FirstOf(sec, p) + k - 1)
  BY <1>1, <1>4, ReadAt
<1> QED BY <1>3, <1>5

LEMMA MoveBacked ==
  ASSUME NEW bl, NEW sec, Stands(bl, sec), NEW dest \in Int, NEW orig \in Int, NEW number \in Int,
         number <= 0 \/ ( /\ 0 <= dest /\ dest + number <= Total(sec)
                          /\ 0 <= orig /\ orig + number <= Total(sec) )
  PROVE  ~Unbacked(bl, sec, dest, orig, number)
<1> SUFFICES ASSUME NEW k \in 0..(number - 1)
             PROVE  Backed(bl, sec, orig + k) /\ Backed(bl, sec, dest + k)
  BY DEF Unbacked
<1>1. Total(sec) \in Nat
  BY TotalIs DEF Stands
<1> DEFINE o == orig + k
           d == dest + k
<1>2. o \in Int /\ 0 <= o /\ o < Total(sec) /\ d \in Int /\ 0 <= d /\ d < Total(sec)
  BY <1>1
<1> HIDE DEF o, d
<1>3. Backed(bl, sec, o) /\ Backed(bl, sec, d)
  BY <1>2, AllBacked
<1> QED BY <1>3 DEF o, d

LEMMA WriteBacked ==
  ASSUME NEW at, Write(at), Stands(block, sect), ~ioerr,
         \A s \in DOMAIN at : s \in Int /\ 0 <= s /\ s < Total(sect)
  PROVE  ~ioerr'
<1>1. \A s \in DOMAIN at : Backed(block, sect, s)
  BY AllBacked
<1> QED BY <1>1 DEF Write

-----------------------------------------------------------------------------
(***************************************************************************)
(* Formats fit on the disks they are made for.                             *)
(***************************************************************************)
FormatFits(fmt) ==
    /\ fmt.clusters > 0 /\ fmt.spf >= 0 /\ fmt.dirs >= 0 /\ fmt.dirStart >= Reserved
    /\ fmt.system = fmt.dirStart + fmt.dirs /\ fmt.size = fmt.system + fmt.clusters
    /\ fmt.type \in {12, 16} /\ Small(fmt.size)

\* No disk asked for is so large that calc_alloc wraps.
NoWrap == \A d \in Disks : Small(d.size)

LEMMA FatForFits ==
  ASSUME NEW data \in Nat, NEW fats \in Nat, NEW type \in {12, 16}
  PROVE  FatFor(data, fats, type) \in Nat
<1> DEFINE b == SectorBits + fats * type
           a == (data + 2) * type
<1>1. b \in Nat \ {0}
  BY Consts
<1>2. a \in Nat
  OBVIOUS
<1>3. FatFor(data, fats, type) = CeilDiv(a, b)
  BY DEF FatFor
<1> HIDE DEF a, b
<1> DEFINE n == a + b - 1
<1>4. n \in Nat
  BY <1>1, <1>2
<1>5. CeilDiv(a, b) = n \div b
  BY DEF CeilDiv
<1> HIDE DEF n
<1>6. n \div b \in Nat
  BY <1>1, <1>4
<1> QED BY <1>3, <1>5, <1>6

LEMMA ClustersFit ==
  ASSUME NEW data \in Nat, NEW fats \in Nat, NEW type \in {12, 16}
  PROVE  /\ ClustersFor(data, fats, type) \in Nat /\ fats * FatFor(data, fats, type) \in Nat
         /\ ClustersFor(data, fats, type) > 0 =>
               fats * FatFor(data, fats, type) + ClustersFor(data, fats, type) = data
<1> DEFINE n == FatFor(data, fats, type)
           c == ClustersFor(data, fats, type)
           m == fats * n
<1>1. n \in Nat
  BY FatForFits
<1>2. c = Most(0, data - m)
  BY DEF ClustersFor
<1> HIDE DEF n, c
<1>3. m \in Nat
  BY <1>1, Products
<1> HIDE DEF m
<1>4. c \in Nat /\ (c > 0 => m + c = data)
  BY <1>2, <1>3 DEF Most
<1> QED BY <1>3, <1>4 DEF m, n, c

LEMMA MadeFits ==
  ASSUME NoWrap, NEW d \in Disks, NEW dirs \in Nat, MakeNewf(d, dirs).clusters # 0
  PROVE  FormatFits(MakeNewf(d, dirs))
<1> DEFINE data == Most(0, d.size - Reserved - dirs)
           c12 == ClustersFor(data, d.fats, 12)
           c16 == ClustersFor(data, d.fats, 16)
           type == IF c12 > Max12 /\ c16 > Min16 THEN 16 ELSE 12
           clusters == IF type = 16 THEN c16 ELSE Least(c12, Max12)
           spf == FatFor(data, d.fats, type)
           fat == d.fats * spf
           dirStart == Reserved + fat
           fmt == MakeNewf(d, dirs)
<1>1. d.size \in Nat /\ d.fats \in Nat
  BY Consts
<1>2. data \in Nat /\ (data > 0 => data = d.size - 1 - dirs)
  BY <1>1 DEF Most, Reserved
<1>9. fmt =
        [size |-> dirStart + dirs + clusters, fats |-> d.fats, spf |-> spf,
         dirs |-> dirs, type |-> type, clusters |-> clusters,
         dirStart |-> dirStart, system |-> dirStart + dirs]
  BY DEF MakeNewf
<1> HIDE DEF data, fmt
<1>4. type \in {12, 16}
  OBVIOUS
<1>3. /\ c12 \in Nat /\ c16 \in Nat /\ spf \in Nat /\ fat \in Nat
      /\ type = 12 /\ c12 > 0 => fat + c12 = data
      /\ type = 16 /\ c16 > 0 => fat + c16 = data
  <2>1. c12 \in Nat /\ c16 \in Nat
    BY <1>1, <1>2, ClustersFit
  <2> HIDE DEF c12, c16
  <2>2. spf \in Nat
    BY <1>1, <1>2, <1>4, FatForFits
  <2>3. CASE type = 12
    <3>1. fat = d.fats * FatFor(data, d.fats, 12)
      BY <2>3
    <3>2. fat \in Nat /\ (c12 > 0 => fat + c12 = data)
      BY ONLY <1>1, <1>2, <3>1, ClustersFit DEF c12
    <3> HIDE DEF type, spf, fat
    <3> QED BY <2>1, <2>2, <2>3, <3>2
  <2>4. CASE type = 16
    <3>1. fat = d.fats * FatFor(data, d.fats, 16)
      BY <2>4
    <3>2. fat \in Nat /\ (c16 > 0 => fat + c16 = data)
      BY ONLY <1>1, <1>2, <3>1, ClustersFit DEF c16
    <3> HIDE DEF type, spf, fat
    <3> QED BY <2>1, <2>2, <2>4, <3>2
  <2> QED BY <1>4, <2>3, <2>4
<1> HIDE DEF c12, c16
<1>5. clusters \in Nat /\ (type = 12 => clusters <= c12) /\ (type = 16 => clusters = c16)
  BY <1>3, Consts DEF Least
<1> HIDE DEF type, spf
<1>6. clusters > 0
  BY <1>5, <1>9 DEF fmt
<1> HIDE DEF clusters, fat
<1>7. fat + clusters <= data
  BY <1>2, <1>3, <1>4, <1>5, <1>6
<1>8. dirStart + dirs + clusters <= d.size /\ dirStart >= Reserved
  BY <1>1, <1>2, <1>3, <1>5, <1>6, <1>7 DEF Reserved
<1> HIDE DEF dirStart
<1>10. dirStart \in Nat
  BY <1>3 DEF dirStart, Reserved
<1>11. Small(dirStart + dirs + clusters)
  <2> DEFINE n == dirStart + dirs + clusters
  <2>1. n \in Nat /\ n <= d.size
    BY <1>5, <1>8, <1>10
  <2> HIDE DEF n
  <2> SUFFICES ASSUME NEW i \in Parts PROVE n + MaxK[i] + AllocUnit(i) <= Word
    BY DEF Small, n
  <2>2. MaxK[i] \in Nat /\ AllocUnit(i) \in Nat /\ Word \in Nat
        /\ d.size + MaxK[i] + AllocUnit(i) <= Word
    BY ChainTypes DEF NoWrap, Small
  <2> QED BY <1>1, <2>1, <2>2
<1>12. FormatFits(fmt)
  BY <1>3, <1>4, <1>6, <1>8, <1>9, <1>11 DEF FormatFits
<1> QED BY <1>12 DEF fmt

LEMMA DirsFit ==
  ASSUME NEW d \in Disks, IsSeq(root)
  PROVE  DirsFor(d) \in Nat
<1>1. DirsFor(d) \in Int
  BY DirsType
<1>2. d.dirs \in Nat
  BY Consts
<1> DEFINE n == CeilDiv(Cardinality({x \in DOMAIN root : ~root[x].gone}), PerDir)
<1>3. DirsFor(d) = Most(d.dirs, n)
  BY DEF DirsFor
<1> HIDE DEF n
<1> QED BY <1>1, <1>2, <1>3 DEF Most

-----------------------------------------------------------------------------
(***************************************************************************)
(* The activations of AllocPart and the parts they have dealt with.        *)
(***************************************************************************)
\* AllocPart waits at a part for those behind it; it has been at a part.
WaitsAt(st, p) == \E j \in 1..Len(st) : st[j].below /\ st[j].part = p
Passed(st, p) == st = <<>> \/ Head(st).below \/ p < Head(st).part
\* A part that AllocPart has been at has the size it shall have, or waits for it.
Settled(sz, wn, st) == \A p \in Parts : Passed(st, p) => WaitsAt(st, p) \/ sz[p] = wn[p]

LEMMA WaitsPush ==
  ASSUME NEW st \in Seq(FrameSet), NEW x \in FrameSet, NEW p
  PROVE  WaitsAt(<<x>> \o st, p) <=> (x.below /\ x.part = p) \/ WaitsAt(st, p)
<1> DEFINE t == <<x>> \o st
<1>1. Len(st) \in Nat
  BY LenProperties
<1>2. <<x>> \in Seq(FrameSet) /\ Len(<<x>>) = 1 /\ <<x>>[1] = x
  OBVIOUS
<1>3. Len(t) = 1 + Len(st) /\ \A j \in 1..Len(t) : t[j] = IF j = 1 THEN x ELSE st[j - 1]
  BY <1>1, <1>2, ConcatProperties
<1> HIDE DEF t
<1>4. \A j \in 1..Len(t) : j # 1 => j - 1 \in 1..Len(st)
  BY <1>1, <1>3
<1>5. WaitsAt(t, p) => (x.below /\ x.part = p) \/ WaitsAt(st, p)
  BY <1>3, <1>4 DEF WaitsAt
<1>6. x.below /\ x.part = p => WaitsAt(t, p)
  <2>1. 1 \in 1..Len(t) /\ t[1] = x
    BY <1>1, <1>3
  <2> QED BY <2>1 DEF WaitsAt
<1>7. WaitsAt(st, p) => WaitsAt(t, p)
  <2> SUFFICES ASSUME NEW j \in 1..Len(st), st[j].below /\ st[j].part = p PROVE WaitsAt(t, p)
    BY DEF WaitsAt
  <2>1. j + 1 \in 1..Len(t) /\ t[j + 1] = st[j]
    BY <1>1, <1>3
  <2> QED BY <2>1 DEF WaitsAt
<1> QED BY <1>5, <1>6, <1>7 DEF t

LEMMA PushIs ==
  ASSUME NEW st \in Seq(FrameSet), NEW x \in FrameSet
  PROVE  <<x>> \o st # <<>> /\ Head(<<x>> \o st) = x
<1> DEFINE t == <<x>> \o st
<1>1. Len(st) \in Nat
  BY LenProperties
<1>2. <<x>> \in Seq(FrameSet) /\ Len(<<x>>) = 1 /\ <<x>>[1] = x
  OBVIOUS
<1>3. t \in Seq(FrameSet) /\ Len(t) = 1 + Len(st) /\ \A j \in 1..Len(t) : t[j] = IF j = 1 THEN x ELSE st[j - 1]
  BY <1>1, <1>2, ConcatProperties
<1> HIDE DEF t
<1>4. t # <<>> /\ 1 \in 1..Len(t)
  BY <1>1, <1>3, EmptySeq
<1>5. Head(t) = t[1]
  BY <1>3, <1>4, HeadTailProperties
<1> QED BY <1>3, <1>4, <1>5 DEF t

LEMMA WaitsTop ==
  ASSUME NEW st \in Seq(FrameSet), st # <<>>, NEW p
  PROVE  WaitsAt(st, p) <=> (Head(st).below /\ Head(st).part = p) \/ WaitsAt(Tail(st), p)
<1>1. Head(st) \in FrameSet /\ Tail(st) \in Seq(FrameSet)
  BY StackOK
<1>2. st = <<Head(st)>> \o Tail(st)
  <2> DEFINE h == Head(st)
             t == Tail(st)
             s == <<h>> \o t
  <2>1. Len(st) \in Nat /\ h = st[1] /\ Len(t) = Len(st) - 1 /\ \A j \in 1..Len(t) : t[j] = st[j + 1]
    BY LenProperties, HeadTailProperties, EmptySeq
  <2>2. h \in FrameSet /\ t \in Seq(FrameSet)
    BY <1>1
  <2> HIDE DEF h, t
  <2>3. <<h>> \in Seq(FrameSet) /\ Len(<<h>>) = 1 /\ <<h>>[1] = h
    BY <2>2
  <2>4. s \in Seq(FrameSet) /\ Len(s) = 1 + Len(t) /\ \A j \in 1..Len(s) : s[j] = IF j = 1 THEN h ELSE t[j - 1]
    BY <2>1, <2>2, <2>3, ConcatProperties
  <2> HIDE DEF s
  <2>5. \A j \in 1..Len(s) : s[j] = st[j]
    <3> SUFFICES ASSUME NEW j \in 1..Len(s) PROVE s[j] = st[j]
      OBVIOUS
    <3>1. CASE j = 1
      BY <2>1, <2>4, <3>1
    <3>2. CASE j # 1
      <4>1. j - 1 \in 1..Len(t) /\ (j - 1) + 1 = j
        BY <2>1, <2>4, <3>2
      <4> QED BY <2>1, <2>4, <3>2, <4>1
    <3> QED BY <3>1, <3>2
  <2>6. Len(s) = Len(st)
    BY <2>1, <2>4
  <2>7. s = st
    BY <2>4, <2>5, <2>6, SeqEqual
  <2> QED BY <2>7 DEF s, h, t
<1> DEFINE h == Head(st)
           t == Tail(st)
<1>3. WaitsAt(<<h>> \o t, p) <=> (h.below /\ h.part = p) \/ WaitsAt(t, p)
  BY <1>1, WaitsPush
<1> QED BY <1>2, <1>3

\* What is known of the parts before the one AllocPart is at.
LEMMA SettledTop ==
  ASSUME NEW sz, NEW wn, NEW st \in Seq(FrameSet), st # <<>>, Settled(sz, wn, st), NEW p \in Parts,
         Head(st).below \/ p < Head(st).part
  PROVE  (Head(st).below /\ Head(st).part = p) \/ WaitsAt(Tail(st), p) \/ sz[p] = wn[p]
  BY WaitsTop DEF Settled, Passed

LEMMA SettledPush ==
  ASSUME NEW sz, NEW wn, NEW st \in Seq(FrameSet), NEW x \in FrameSet, ~x.below,
         \A p \in Parts : p < x.part => WaitsAt(st, p) \/ sz[p] = wn[p]
  PROVE  Settled(sz, wn, <<x>> \o st)
<1> DEFINE t == <<x>> \o st
<1>1. t # <<>> /\ Head(t) = x /\ \A p \in Parts : WaitsAt(st, p) => WaitsAt(t, p)
  BY PushIs, WaitsPush
<1> HIDE DEF t
<1>2. Settled(sz, wn, t)
  BY <1>1 DEF Settled, Passed
<1> QED BY <1>2 DEF t

-----------------------------------------------------------------------------
(***************************************************************************)
(* SavingDiskAllocate and AllocPart stay on the memory.                    *)
(***************************************************************************)
\* The goal and the sectors to save fit on the disk as it is and as it will be.
Fits(gl, sv, al, sz, wn, st) ==
    /\ gl \in Nat /\ Small(gl) /\ sv <= gl
    /\ al \in {"calc", "part", "yes", "no", "lost"}
    /\ al # "lost" => sv <= Total(sz)
    /\ al = "yes" => gl <= Total(sz)
    /\ al = "part" => gl <= Total(wn) /\ Settled(sz, wn, st)
AllocFits == Fits(goal, saved, alloc, size, want, stack)
FitsOn == Fits(goal', saved', alloc', size', want', stack') /\ ~ioerr'

LEMMA CalculateFits ==
  ASSUME ChainOK, AllocFits, ~ioerr, Calculate
  PROVE  FitsOn
<1>1. alloc = "calc" /\ UNCHANGED <<size, goal, saved, ioerr>> /\ Sizes
  BY DEF Calculate, ChainOK, MemOK
<1>2. goal \in Nat /\ Small(goal) /\ saved <= goal /\ saved <= Total(size)
  BY <1>1 DEF AllocFits, Fits
<1>3. CASE alloc' = "no"
  BY <1>1, <1>2, <1>3 DEF FitsOn, Fits
<1>4. CASE alloc' # "no"
  <2> DEFINE div == CalcAlloc(goal)
             x == Frame(1, 0)
  <2>1. want' = div.need /\ ~(div.left > 0) /\ alloc' = "part" /\ stack' = <<x>>
    BY <1>4 DEF Calculate
  <2>2. Enough(div, goal)
    BY <1>1, <1>2, CalcEnough
  <2> HIDE DEF div
  <2>3. /\ div.left \in Int /\ div.need \in [Parts -> Nat] /\ Total(div.need) + div.left >= goal
    BY <2>2 DEF Enough, DivSet
  <2>4. goal <= Total(want')
    <3>1. Total(div.need) \in Nat
      BY <2>3, TotalIs
    <3> QED BY <1>2, <2>1, <2>3, <3>1
  <2>5. Settled(size', want', stack')
    <3>1. x \in FrameSet /\ ~x.below /\ x.part = 1
      BY FrameOK DEF Frame
    <3> HIDE DEF x
    <3>2. <<x>> # <<>> /\ Head(<<x>>) = x
      OBVIOUS
    <3>3. \A p \in Parts : ~(p < 1)
      BY ChainTypes
    <3> QED BY <2>1, <3>1, <3>2, <3>3 DEF Settled, Passed
  <2> QED BY <1>1, <1>2, <2>1, <2>4, <2>5 DEF FitsOn, Fits
<1> QED BY <1>3, <1>4

LEMMA PartKeptFits ==
  ASSUME ChainOK, Held, AllocFits, ~ioerr, PartKept
  PROVE  FitsOn
<1> DEFINE i == Part
           x == Frame(i + 1, NewEnd)
           st == Tail(stack)
<1>1. Begun /\ ~Top.below /\ want[i] = size[i] /\ stack' = <<x>> \o st
      /\ UNCHANGED <<size, want, goal, saved, alloc, ioerr>>
  BY DEF PartKept
<1>2. alloc = "part" /\ stack # <<>> /\ stack \in Seq(FrameSet) /\ Settled(size, want, stack)
  BY <1>1 DEF Begun, ChainOK, AllocFits, Fits
<1>3. i \in Parts /\ i \in Int /\ NewEnd \in Int /\ st \in Seq(FrameSet)
  BY <1>1, TopOK
<1>4. x \in FrameSet /\ ~x.below /\ x.part = i + 1
  BY <1>3, FrameOK DEF Frame
<1>5. \A p \in Parts : p < i => WaitsAt(st, p) \/ size[p] = want[p]
  BY <1>1, <1>2, SettledTop DEF Top, Part
<1> HIDE DEF i, x, st
<1>6. \A p \in Parts : p < x.part => WaitsAt(st, p) \/ size[p] = want[p]
  <2>1. \A p \in Parts : p < i + 1 => p < i \/ p = i
    BY <1>3, ChainTypes
  <2> QED BY <1>1, <1>4, <1>5, <2>1
<1>7. Settled(size, want, <<x>> \o st)
  BY <1>3, <1>4, <1>6, SettledPush
<1> QED BY <1>1, <1>2, <1>7 DEF FitsOn, AllocFits, Fits

LEMMA ChainEndFits ==
  ASSUME ChainOK, Held, AllocFits, ~ioerr, ChainEnd
  PROVE  FitsOn
<1> DEFINE st == Tail(stack)
           h == Head(stack)
<1>1. alloc = "part" /\ stack # <<>> /\ h.part \notin Parts /\ stack' = st
      /\ UNCHANGED <<size, want, goal, saved, alloc, ioerr>>
  BY DEF ChainEnd, Top, Part
<1>2. stack \in Seq(FrameSet) /\ Settled(size, want, stack) /\ Frames(size, stack)
      /\ Waiting(size, want, stack)
  BY <1>1 DEF ChainOK, AllocFits, Fits, Held
<1>3. h.part \in 1..Len(Kind) + 1 /\ Parts = 1..Len(Kind) /\ Len(Kind) \in Nat
  BY <1>1, <1>2, FramesTail, ChainTypes
<1>4. ~h.below
  <2>1. Len(stack) \in Nat /\ 1 \in 1..Len(stack) /\ h = stack[1]
    BY <1>1, <1>2, EmptySeq, LenProperties
  <2> QED BY <1>1, <1>2, <2>1 DEF Waiting
<1>5. \A p \in Parts : p < h.part
  BY <1>1, <1>3
<1>6. \A p \in Parts : WaitsAt(st, p) \/ size[p] = want[p]
  BY <1>1, <1>2, <1>4, <1>5, SettledTop
<1>7. Settled(size, want, st)
  BY <1>6 DEF Settled
<1> QED BY <1>1, <1>2, <1>7 DEF FitsOn, AllocFits, Fits

LEMMA AllocatedFits ==
  ASSUME ChainOK, AllocFits, ~ioerr, Allocated
  PROVE  FitsOn
<1>1. alloc = "part" /\ stack = <<>> /\ alloc' = "yes"
      /\ UNCHANGED <<size, want, goal, saved, stack, ioerr>>
  BY DEF Allocated
<1>2. Settled(size, want, stack) /\ goal <= Total(want) /\ size \in [Parts -> Nat] /\ want \in [Parts -> Nat]
  BY <1>1 DEF AllocFits, Fits, ChainOK, MemOK, Sizes
<1>3. \A p \in Parts : ~WaitsAt(stack, p)
  BY <1>1, EmptySeq DEF WaitsAt
<1>4. size = want
  <2>1. \A p \in Parts : size[p] = want[p]
    BY <1>1, <1>2, <1>3 DEF Settled, Passed
  <2> QED BY <1>2, <2>1
<1> QED BY <1>1, <1>2, <1>4 DEF FitsOn, AllocFits, Fits

LEMMA PartShrinksFits ==
  ASSUME ChainOK, Held, AllocFits, ~ioerr, PartShrinks
  PROVE  FitsOn
<1> DEFINE i == Part
           x == Frame(i + 1, OldEnd)
           y == [Top EXCEPT !.below = TRUE]
           st == Tail(stack)
<1>1. Begun /\ ~Top.below /\ stack' = <<x, y>> \o st
      /\ UNCHANGED <<size, want, goal, saved, alloc, ioerr>>
  BY DEF PartShrinks
<1>2. alloc = "part" /\ stack # <<>> /\ stack \in Seq(FrameSet) /\ Settled(size, want, stack)
  BY <1>1 DEF Begun, ChainOK, AllocFits, Fits
<1>3. i \in Parts /\ i \in Int /\ OldEnd \in Int /\ st \in Seq(FrameSet) /\ Top \in FrameSet /\ Top.part = i
  BY <1>1, TopOK DEF Part
<1>4. x \in FrameSet /\ ~x.below /\ x.part = i + 1 /\ y \in FrameSet /\ y.below /\ y.part = i
  <2>1. x \in FrameSet /\ ~x.below /\ x.part = i + 1
    BY <1>3, FrameOK DEF Frame
  <2>2. y \in FrameSet /\ y.below /\ y.part = i
    BY <1>3 DEF FrameSet
  <2> QED BY <2>1, <2>2
<1>5. \A p \in Parts : p < i => WaitsAt(st, p) \/ size[p] = want[p]
  BY <1>1, <1>2, SettledTop DEF Top, Part
<1> HIDE DEF i, x, y, st
<1> DEFINE s2 == <<y>> \o st
<1>6. s2 \in Seq(FrameSet)
  BY <1>3, <1>4, StackOK
<1>7. \A p \in Parts : p < x.part => WaitsAt(s2, p) \/ size[p] = want[p]
  <2>1. \A p \in Parts : p < i + 1 => p < i \/ p = i
    BY <1>3, ChainTypes
  <2>2. \A p \in Parts : p = i \/ WaitsAt(st, p) => WaitsAt(s2, p)
    BY <1>3, <1>4, WaitsPush
  <2> HIDE DEF s2
  <2> QED BY <1>4, <1>5, <2>1, <2>2
<1> HIDE DEF s2
<1>8. Settled(size, want, <<x>> \o s2)
  BY <1>4, <1>6, <1>7, SettledPush
<1>9. <<x, y>> \o st = <<x>> \o s2
  <2>1. <<x>> \in Seq(FrameSet) /\ <<y>> \in Seq(FrameSet)
    BY <1>4
  <2>2. <<x, y>> = <<x>> \o <<y>>
    BY <1>4, PairIs
  <2> QED BY <1>3, <2>1, <2>2, ConcatAssociative DEF s2
<1> QED BY <1>1, <1>2, <1>8, <1>9 DEF FitsOn, AllocFits, Fits, st, x, y


\* A part was given a block that holds the size it was given.
LEMMA GivenStands ==
  ASSUME NEW bl, NEW s1, Stands(bl, s1), NEW i \in Parts, NEW m, IsSeq(m), NEW a \in Nat, a <= Len(m)
  PROVE  Stands(WithBlock(bl, i, m), WithSize(s1, i, a))
<1> DEFINE b2 == WithBlock(bl, i, m)
           s2 == WithSize(s1, i, a)
<1>1. BlocksOK(bl) /\ s1 \in [Parts -> Nat] /\ \A p \in Parts : s1[p] <= Len(bl[p])
  BY DEF Stands
<1>2. BlocksOK(b2)
  BY <1>1, BlockGiven
<1>3. s2 \in [Parts -> Nat] /\ \A p \in Parts : s2[p] = IF p = i THEN a ELSE s1[p]
  BY <1>1 DEF WithSize
<1>4. \A p \in Parts : b2[p] = IF p = i THEN m ELSE bl[p]
  BY <1>1 DEF WithBlock, BlocksOK
<1> HIDE DEF b2, s2
<1>5. \A p \in Parts : s2[p] <= Len(b2[p])
  BY <1>1, <1>3, <1>4
<1>6. Stands(b2, s2)
  BY <1>2, <1>3, <1>5 DEF Stands
<1> QED BY <1>6 DEF b2, s2

LEMMA MemStands ==
  ASSUME MemOK
  PROVE  Stands(block, size)
  BY DEF MemOK, Sizes, Stands

LEMMA PartExpandsFits ==
  ASSUME ChainOK, Held, AllocFits, ~ioerr, PartExpands, "shrink" \notin Refusals
  PROVE  FitsOn
<1> DEFINE i == Part
           old == OldEnd
           st == Tail(stack)
<1>1. Begun /\ ~Top.below /\ want[i] > size[i] /\ UNCHANGED <<goal, saved>>
  BY DEF PartExpands
<1>2. PICK o \in PhysicalAlloc(i, block[i], want[i]) :
         LET lost == o.answer < size[i]
             to == Top.first + o.answer
             bl == [block EXCEPT ![i] = o.mem]
             sec == [sect EXCEPT ![i] = o.answer]
         IN /\ AllocMem(i, o)
            /\ IF lost
               THEN block' = bl /\ UNCHANGED <<sect, ioerr>>
               ELSE /\ sect' = sec
                    /\ Moved(bl, sec, old, to, saved - old)
            /\ IF o.answer = want[i]
               THEN /\ stack' = <<Frame(i + 1, to)>> \o st
                    /\ UNCHANGED <<best, alloc, tries>>
               ELSE /\ best' = [best EXCEPT ![i] = TRUE]
                    /\ GiveUp(lost)
  BY DEF PartExpands
<1> DEFINE a == o.answer
           m == o.mem
           b2 == WithBlock(block, i, m)
           s2 == WithSize(size, i, a)
           w2 == WithSize(want, i, a)
           to == Top.first + a
           x == Frame(i + 1, to)
<1>3. /\ i \in Parts /\ size \in [Parts -> Nat] /\ sect = size /\ want[i] \in Nat /\ size[i] \in Nat
      /\ IsSeq(block[i]) /\ size[i] <= Len(block[i]) /\ i \in Int
      /\ old = FirstOf(size, i + 1) /\ Top.first = FirstOf(size, i) /\ FirstOf(size, i) \in Nat
  BY <1>1, TopIs
<1>4. BlocksOK(block) /\ saved \in Int /\ Sizes /\ want \in [Parts -> Nat] /\ Stands(block, size)
      /\ stack \in Seq(FrameSet) /\ st \in Seq(FrameSet)
  BY <1>1, TopOK, MemStands DEF ChainOK, MemOK
<1>5. IsSeq(m) /\ a \in Nat /\ a <= Len(m)
  <2> HIDE DEF i
  <2> QED BY <1>2, <1>3, <1>4, RequestFair DEF Fair
<1>6. alloc = "part" /\ stack # <<>> /\ goal \in Nat /\ Small(goal) /\ saved <= goal
      /\ saved <= Total(size) /\ goal <= Total(want) /\ Settled(size, want, stack)
  BY <1>1 DEF Begun, AllocFits, Fits
<1>7. size' = s2 /\ want' = w2
  BY <1>2 DEF AllocMem, WithSize
<1>8. CASE a < size[i]
  <2>1. alloc' = "lost" /\ UNCHANGED ioerr
    BY <1>1, <1>2, <1>3, <1>5, <1>8 DEF GiveUp
  <2> QED BY <1>1, <1>6, <2>1 DEF FitsOn, Fits
<1>9. CASE ~(a < size[i])
  <2>1. /\ ioerr' <=> Unbacked(b2, s2, old, to, saved - old)
        /\ a = want[i] => stack' = <<x>> \o st /\ alloc' = "part"
        /\ a # want[i] => alloc' = "calc"
    BY <1>2, <1>3, <1>6, <1>9 DEF Moved, WithBlock, WithSize, GiveUp
  <2>2. Total(s2) = Total(size) + a - size[i] /\ Total(size) \in Nat /\ size[i] <= a
    <3> HIDE DEF i, a
    <3>1. Total(s2) = Total(size) + a - size[i]
      BY <1>3, <1>5, TotalShifts
    <3> QED BY <1>3, <1>5, <1>9, <3>1, TotalIs
  <2>3. Stands(b2, s2)
    <3> HIDE DEF i, a, m
    <3> QED BY <1>3, <1>4, <1>5, GivenStands
  <2>4. old = FirstOf(size, i) + size[i] /\ to = FirstOf(size, i) + a
    <3> HIDE DEF i
    <3>1. FirstOf(size, i + 1) = FirstOf(size, i) + size[i]
      BY <1>3, FirstOfSteps
    <3> QED BY <1>3, <3>1
  <2>5. ~ioerr'
    <3> DEFINE n == saved - old
               t == Total(s2)
    <3>1. /\ old \in Int /\ to \in Int /\ n \in Int /\ 0 <= old /\ 0 <= to
          /\ old + n <= t /\ to + n <= t
      <4> DEFINE u == Total(size)
                 q == FirstOf(size, i)
                 r == size[i]
      <4>1. u \in Nat /\ q \in Nat /\ r \in Nat /\ a \in Nat /\ r <= a /\ saved \in Int
            /\ saved <= u /\ t = u + a - r /\ old = q + r /\ to = q + a
        BY <1>3, <1>4, <1>5, <1>6, <2>2, <2>4
      <4> HIDE DEF u, q, r, t, old, to, a
      <4> QED BY <4>1
    <3> HIDE DEF n, old, to, b2, s2
    <3>2. ~Unbacked(b2, s2, old, to, n)
      BY ONLY <2>3, <3>1, MoveBacked DEF t
    <3> QED BY <2>1, <3>2 DEF n
  <2>6. saved <= Total(size')
    <3> HIDE DEF a, i, s2
    <3> QED BY <1>3, <1>4, <1>5, <1>6, <1>7, <2>2
  <2>7. CASE a = want[i]
    <3>1. want' = want
      BY <1>4, <1>7, <2>7 DEF WithSize
    <3>2. x \in FrameSet /\ ~x.below /\ x.part = i + 1
      <4>1. to \in Int
        BY <1>3, <1>5
      <4> QED BY <1>3, <4>1, FrameOK DEF Frame
    <3>3. \A p \in Parts : p < i => WaitsAt(st, p) \/ size[p] = want[p]
      BY <1>1, <1>4, <1>6, SettledTop DEF Top, Part
    <3> HIDE DEF i, x, st, a
    <3>4. \A p \in Parts : p < x.part => WaitsAt(st, p) \/ s2[p] = w2[p]
      <4> SUFFICES ASSUME NEW p \in Parts, p < x.part, ~WaitsAt(st, p) PROVE s2[p] = w2[p]
        OBVIOUS
      <4>1. p # i => size[p] = want[p]
        <5>1. p < i + 1 => p < i \/ p = i
          BY <1>3, ChainTypes
        <5>2. p < i + 1
          BY <3>2
        <5> QED BY <3>3, <5>1, <5>2
      <4> QED BY <1>3, <1>4, <4>1 DEF WithSize
    <3> HIDE DEF s2, w2
    <3>5. Settled(s2, w2, <<x>> \o st)
      BY <1>4, <3>2, <3>4, SettledPush
    <3>6. goal <= Total(want')
      BY <1>6, <3>1
    <3> QED BY <1>1, <1>6, <1>7, <2>1, <2>5, <2>6, <2>7, <3>5, <3>6 DEF FitsOn, Fits
  <2>8. CASE a # want[i]
    BY <1>1, <1>6, <2>1, <2>5, <2>6, <2>8 DEF FitsOn, Fits
  <2> QED BY <2>7, <2>8
<1> QED BY <1>8, <1>9


LEMMA PartShrunkFits ==
  ASSUME ChainOK, Held, AllocFits, ~ioerr, PartShrunk, "shrink" \notin Refusals
  PROVE  FitsOn
<1> DEFINE i == Part
           st == Tail(stack)
           over == saved - NewEnd
           room == MoveSectors(block, sect, OldEnd, NewEnd, over)
           w == want[i]
<1>1. Begun /\ Top.below /\ UNCHANGED <<goal, saved>>
  BY DEF PartShrunk
<1>2. PICK o \in PhysicalAlloc(i, room[i], w) :
            LET bl == [room EXCEPT ![i] = o.mem]
                sec == [sect EXCEPT ![i] = o.answer]
                back == Top.first + o.answer
            IN /\ AllocMem(i, o)
               /\ sect' = sec
               /\ block' = IF o.answer > w THEN MoveSectors(bl, sec, NewEnd, back, over) ELSE bl
               /\ ioerr' = \/ ioerr
                           \/ Unbacked(block, sect, OldEnd, NewEnd, over)
                           \/ o.answer > w /\ Unbacked(bl, sec, NewEnd, back, over)
               /\ IF o.answer = w
                  THEN stack' = st /\ UNCHANGED <<alloc, tries>>
                  ELSE GiveUp(o.answer < w)
  BY DEF PartShrunk
<1> DEFINE a == o.answer
           m == o.mem
           b2 == WithBlock(room, i, m)
           s2 == WithSize(size, i, a)
           w2 == WithSize(want, i, a)
           ws == WithSize(size, i, w)
           back == Top.first + a
<1>3. /\ i \in Parts /\ size \in [Parts -> Nat] /\ sect = size /\ w \in Nat /\ size[i] \in Nat
      /\ IsSeq(block[i]) /\ size[i] <= Len(block[i]) /\ FirstOf(size, i) \in Nat /\ w < size[i]
      /\ OldEnd = FirstOf(size, i + 1) /\ NewEnd = FirstOf(size, i) + w /\ Top.first = FirstOf(size, i)
      /\ OldEnd \in Int /\ NewEnd \in Int
  BY <1>1, TopIs, TopOK
<1>4. BlocksOK(block) /\ saved \in Int /\ Sizes /\ over \in Int /\ want \in [Parts -> Nat]
      /\ Stands(block, size) /\ stack \in Seq(FrameSet) /\ st \in Seq(FrameSet)
  <2>1. ChainOK /\ MemOK /\ NewEnd \in Int
    BY <1>3 DEF ChainOK
  <2>2. BlocksOK(block) /\ saved \in Int /\ Sizes /\ want \in [Parts -> Nat] /\ stack \in Seq(FrameSet)
    BY <2>1 DEF ChainOK, MemOK, Sizes
  <2>3. over \in Int
    BY <2>1, <2>2
  <2>4. Stands(block, size) /\ st \in Seq(FrameSet)
    BY <1>1, <2>1, TopOK, MemStands
  <2> QED BY <2>2, <2>3, <2>4
<1>5. SameSize(room, block)
  <2> HIDE DEF over
  <2> QED BY <1>3, <1>4, MovesKeep
<1> HIDE DEF room
<1>6. IsSeq(room[i]) /\ size[i] <= Len(room[i]) /\ Stands(room, size)
  <2>1. \A p \in Parts : size[p] <= Len(room[p])
    BY <1>4, <1>5 DEF SameSize, Stands
  <2> QED BY <1>3, <1>5, <2>1 DEF SameSize, BlocksOK, Stands
<1>7. IsSeq(m) /\ a \in Nat /\ a <= Len(m)
  <2> HIDE DEF i, w
  <2> QED BY <1>2, <1>3, <1>4, <1>6, RequestFair DEF Fair, w
<1>8. size' = s2 /\ want' = w2
  BY <1>2 DEF AllocMem, WithSize
<1>9. alloc = "part" /\ stack # <<>> /\ goal \in Nat /\ Small(goal) /\ saved <= goal
      /\ saved <= Total(size) /\ goal <= Total(want) /\ Settled(size, want, stack)
  BY <1>1 DEF Begun, AllocFits, Fits
\* Every part has the size it shall have or waits to get a smaller one.
<1>10. \A p \in Parts : p = i \/ WaitsAt(st, p) \/ size[p] = want[p]
  BY <1>1, <1>4, <1>9, SettledTop DEF Top, Part
<1>11. goal <= Total(ws) /\ Total(ws) = Total(size) + w - size[i] /\ Total(size) \in Nat
  <2>1. Waiting(size, want, st)
    BY <1>1, TopIs
  <2> HIDE DEF i, st
  <2>2. \A p \in Parts : WaitsAt(st, p) => want[p] < size[p]
    BY <2>1 DEF Waiting, WaitsAt
  <2>3. /\ Total(ws) = Total(size) + w - size[i] /\ ws \in [Parts -> Nat] /\ ws[i] = w
        /\ \A p \in Parts \ {i} : ws[p] = size[p]
    <3> HIDE DEF w, i
    <3>1. size \in [Parts -> Nat] /\ i \in Parts /\ w \in Nat
      BY <1>3
    <3> QED BY ONLY <3>1, TotalShifts DEF ws
  <2> HIDE DEF ws
  <2>4. \A p \in Parts : want[p] <= ws[p]
    <3> SUFFICES ASSUME NEW p \in Parts PROVE want[p] <= ws[p]
      OBVIOUS
    <3>1. want[p] \in Nat /\ size[p] \in Nat
      BY <1>3, <1>4
    <3>2. CASE p = i
      BY <2>3, <3>1, <3>2
    <3>3. CASE p # i
      BY <1>10, <2>2, <2>3, <3>1, <3>3
    <3> QED BY <3>2, <3>3
  <2>5. Total(want) <= Total(ws) /\ Total(want) \in Nat /\ Total(ws) \in Nat /\ Total(size) \in Nat
    <3>1. ws \in [Parts -> Nat] /\ want \in [Parts -> Nat] /\ size \in [Parts -> Nat]
          /\ \A p \in Parts : want[p] <= ws[p]
      BY <1>3, <1>4, <2>3, <2>4
    <3>2. Total(want) <= Total(ws)
      BY ONLY <3>1, TotalGrows, Zenon
    <3> QED BY ONLY <3>1, <3>2, TotalIs, Zenon
  <2> DEFINE t == Total(ws)
             v == Total(want)
             u == Total(size)
             x == size[i]
  <2>6. v <= t /\ v \in Nat /\ t \in Nat /\ u \in Nat /\ goal \in Nat /\ goal <= v /\ t = u + w - x
    BY <1>9, <2>3, <2>5
  <2> HIDE DEF t, v, u, x, w
  <2>7. goal <= t /\ t = u + w - x /\ u \in Nat
    BY <2>6
  <2> QED BY <2>7 DEF t, u, x
<1>12. saved <= Total(size) + w - size[i]
  <2> DEFINE u == Total(size)
             x == size[i]
             t == Total(ws)
  <2>1. saved <= goal /\ saved \in Int /\ goal \in Nat /\ goal <= t /\ t = u + w - x
        /\ u \in Nat /\ x \in Nat /\ w \in Nat
    BY <1>3, <1>4, <1>9, <1>11
  <2> HIDE DEF u, x, t, w
  <2>2. saved <= u + w - x
    BY <2>1
  <2> QED BY ONLY <2>2 DEF u, x
<1>13. Total(s2) = Total(size) + a - size[i]
  <2> HIDE DEF i, a
  <2>1. size \in [Parts -> Nat] /\ i \in Parts /\ a \in Nat
    BY <1>3, <1>7
  <2> QED BY ONLY SMTT(30), <2>1, TotalShifts DEF s2
<1>14. Stands(b2, s2)
  <2> HIDE DEF i, a, m
  <2> QED BY <1>3, <1>6, <1>7, GivenStands
<1>15. OldEnd = FirstOf(size, i) + size[i]
  <2> HIDE DEF i
  <2> QED BY <1>3, FirstOfSteps
<1>16. ~Unbacked(block, size, OldEnd, NewEnd, over)
  <2> DEFINE t == Total(size)
  <2>1. 0 <= OldEnd /\ OldEnd + over <= t /\ 0 <= NewEnd /\ NewEnd + over <= t
    <3> DEFINE q == FirstOf(size, i)
               r == size[i]
    <3>1. t \in Nat /\ q \in Nat /\ r \in Nat /\ w \in Nat /\ w < r /\ saved \in Int
          /\ saved <= t + w - r /\ OldEnd = q + r /\ NewEnd = q + w
      BY <1>3, <1>4, <1>11, <1>12, <1>15
    <3> HIDE DEF q, r, t, w
    <3> QED BY <3>1
  <2> HIDE DEF over
  <2> QED BY ONLY <1>3, <1>4, <2>1, MoveBacked DEF t
<1>17. a > w => ~Unbacked(b2, s2, NewEnd, back, over)
  <2> SUFFICES ASSUME a > w PROVE ~Unbacked(b2, s2, NewEnd, back, over)
    OBVIOUS
  <2> DEFINE t == Total(s2)
  <2>1. back \in Int /\ 0 <= NewEnd /\ NewEnd + over <= t /\ 0 <= back /\ back + over <= t
    <3> DEFINE q == FirstOf(size, i)
               r == size[i]
               u == Total(size)
    <3>1. u \in Nat /\ q \in Nat /\ r \in Nat /\ w \in Nat /\ a \in Nat /\ a > w /\ saved \in Int
          /\ saved <= u + w - r /\ NewEnd = q + w /\ back = q + a /\ t = u + a - r
      BY <1>3, <1>4, <1>7, <1>11, <1>12, <1>13
    <3> HIDE DEF q, r, t, w, u, a, back
    <3> QED BY <3>1
  <2>2. Stands(b2, s2) /\ NewEnd \in Int /\ over \in Int
    BY <1>3, <1>4, <1>14
  <2>3. /\ 0 <= NewEnd /\ NewEnd + over <= Total(s2)
        /\ 0 <= back /\ back + over <= Total(s2) /\ back \in Int
    BY <2>1
  <2> HIDE DEF over, b2, s2, back
  <2> QED BY ONLY <2>2, <2>3, MoveBacked, Zenon
<1>18. ~ioerr'
  BY <1>2, <1>3, <1>16, <1>17 DEF WithBlock, WithSize
<1>19. a < w => alloc' = "lost"
  BY <1>2, <1>3, <1>7 DEF GiveUp
<1>20. a >= w => saved <= Total(size')
  <2> DEFINE u == Total(size)
             x == size[i]
             t == Total(s2)
  <2>1. /\ saved \in Int /\ saved <= u + w - x /\ t = u + a - x
        /\ u \in Nat /\ x \in Nat /\ w \in Nat /\ a \in Nat
    BY <1>3, <1>4, <1>7, <1>11, <1>12, <1>13
  <2> HIDE DEF u, x, t, w, a
  <2>2. a >= w => saved <= t
    BY <2>1
  <2> QED BY <1>8, <2>2 DEF t
<1>21. CASE a = w
  <2>1. stack' = st /\ alloc' = "part"
    BY <1>2, <1>9, <1>21
  <2>2. want' = want
    BY <1>4, <1>8, <1>21 DEF WithSize
  <2>3. Settled(s2, w2, st)
    <3> HIDE DEF i, st, a
    <3>1. \A p \in Parts : ~WaitsAt(st, p) => s2[p] = w2[p]
      BY <1>3, <1>4, <1>10 DEF WithSize
    <3> QED BY <3>1 DEF Settled
  <2> HIDE DEF s2, w2
  <2> QED BY <1>1, <1>3, <1>7, <1>8, <1>9, <1>18, <1>20, <1>21, <2>1, <2>2, <2>3 DEF FitsOn, Fits
<1>22. CASE a # w
  <2>1. alloc' = IF a < w THEN "lost" ELSE "calc"
    BY <1>2, <1>22 DEF GiveUp
  <2> QED BY <1>1, <1>3, <1>7, <1>9, <1>18, <1>20, <2>1 DEF FitsOn, Fits
<1> QED BY <1>21, <1>22

LEMMA AllocStepFits ==
  ASSUME ChainOK, Held, AllocFits, ~ioerr, AllocStep, "shrink" \notin Refusals
  PROVE  FitsOn
  BY CalculateFits, PartKeptFits, PartExpandsFits, PartShrinksFits, PartShrunkFits, ChainEndFits,
     AllocatedFits DEF AllocStep


-----------------------------------------------------------------------------
(***************************************************************************)
(* The program stays on the memory.                                        *)
(***************************************************************************)
Allocs == {"growing", "undoing", "shrinking"}
Moves == {"up", "dirup", "fat", "copies", "dirdown", "down", "shrink"}
Packed == Moves \union Allocs \union {"grow", "finish"}

\* Some cluster is used, and a root directory of the new length at the place of
\* the old one would end within the old disk or within the new one.
Ordinary == pc \in Packed =>
    last > 0 /\ (f.dirStart + g.dirs <= f.size \/ f.dirStart + g.dirs <= g.size)

FormatsFit ==
    /\ FormatFits(f)
    /\ pc \in (Packed \union {"resize", "pack"}) \ {"undoing"} => FormatFits(g)
LastFits ==
    /\ pc \in Packed => last <= f.clusters + 1 /\ last <= g.clusters + 1
    /\ pc = "pack" => top <= f.clusters + 1 /\ top <= g.clusters + 1
FatSectors == (f.clusters + 1) \div PerFat(g.type)
SecnoFits == pc = "fat" => secno \in 0..FatSectors
SizeFits ==
    /\ pc \notin Allocs \union {"fatal", "finish"} => f.size <= Total(size)
    /\ pc \in Moves \union {"finish"} => g.size <= Total(size)
GoalFits ==
    /\ pc \in Allocs => AllocFits /\ goal = g.size
    /\ pc = "growing" => f.size <= g.size
ReachInv == FormatsFit /\ LastFits /\ SecnoFits /\ SizeFits /\ GoalFits /\ ~ioerr

\* What is known in every state of a run.
Known == IInv /\ Held /\ ReachInv /\ Ordinary

\* The sectors that the program works with are those of the parts.
LEMMA AtHome ==
  ASSUME Known, alloc # "lost"
  PROVE  /\ sect = size /\ Stands(block, sect) /\ Total(sect) = Total(size) /\ Total(size) \in Nat
         /\ MemOK /\ ChainOK
<1>1. MemOK /\ ChainOK /\ sect = size
  BY DEF Known, IInv, ChainOK, Held
<1>2. Total(size) \in Nat
  BY <1>1, TotalIs DEF MemOK, Sizes
<1> QED BY <1>1, <1>2, MemStands

\* A format in numbers.
LEMMA FormatNumbers ==
  ASSUME NEW fmt, fmt \in FormatSet, FormatFits(fmt)
  PROVE  /\ fmt.clusters \in Nat \ {0} /\ fmt.spf \in Nat /\ fmt.dirs \in Nat
         /\ fmt.dirStart \in Nat \ {0} /\ fmt.system \in Nat /\ fmt.size \in Nat
         /\ fmt.system = fmt.dirStart + fmt.dirs /\ fmt.size = fmt.system + fmt.clusters
         /\ fmt.type \in {12, 16} /\ Small(fmt.size)
<1>1. /\ fmt.size \in Int /\ fmt.spf \in Int /\ fmt.dirs \in Int /\ fmt.clusters \in Int
      /\ fmt.dirStart \in Int /\ fmt.system \in Int
  BY DEF FormatSet
<1> QED BY <1>1 DEF FormatFits, Reserved

\* The sectors up to the last used cluster lie on the old disk and on the new one.
LEMMA DataFits ==
  ASSUME Known, pc \in Packed \ {"undoing"}
  PROVE  /\ Data \in Nat /\ Data <= f.clusters /\ Data <= g.clusters
         /\ Used = f.system + Data /\ Used \in Int /\ Used <= f.size /\ last \in Int
<1>1. f \in FormatSet /\ g \in FormatSet /\ last \in Int /\ FormatFits(f) /\ FormatFits(g)
      /\ last > 0 /\ last <= f.clusters + 1 /\ last <= g.clusters + 1
  BY DEF Known, IInv, ReachInv, FormatsFit, LastFits, Ordinary, Packed
<1>2. f.clusters \in Nat /\ g.clusters \in Nat /\ f.system \in Nat /\ f.size = f.system + f.clusters
  BY <1>1, FormatNumbers
<1> DEFINE n == last - 1
           r == n % Word16
<1>3. n \in Nat /\ n <= f.clusters /\ n <= g.clusters
  BY <1>1, <1>2
<1>4. Data = r /\ Used = r + f.system
  <2> DEFINE k == (last + 1) - 2
  <2>1. k = n
    BY <1>1
  <2>2. Used = (k % Word16) + f.system /\ Data = n % Word16
    BY DEF Data, Used, ClusterToSector
  <2> HIDE DEF k, n
  <2> QED BY ONLY <2>1, <2>2
<1> HIDE DEF n
<1>5. r \in Nat /\ r <= n
  <2>1. Word16 \in Nat \ {0}
    BY Consts
  <2> DEFINE q == n \div Word16
  <2>2. n = Word16 * q + r /\ q \in Nat /\ r \in Nat
    BY <1>3, <2>1
  <2> HIDE DEF q, r
  <2>3. Word16 * q \in Nat
    BY <2>1, <2>2
  <2> QED BY <1>3, <2>2, <2>3
<1> HIDE DEF r
<1> QED BY <1>1, <1>2, <1>3, <1>4, <1>5

\* The first FAT fits before the clusters it describes.
LEMMA FatFits ==
  ASSUME SectorBits >= 48, NEW type \in {12, 16}, NEW c \in Nat \ {0}
  PROVE  (c + 1) \div PerFat(type) \in 0..(c - 1)
<1> DEFINE n == PerFat(type)
           k == c + 1
<1>1. n \in Nat /\ n >= 3
  <2> DEFINE q == SectorBits \div type
             r == SectorBits % type
  <2>1. SectorBits = type * q + r /\ q \in Int /\ r \in 0..type - 1
    BY Consts
  <2>2. n = q
    BY DEF PerFat
  <2> HIDE DEF q, r, n
  <2>3. type = 12 => q >= 3
    BY <2>1
  <2>4. type = 16 => q >= 3
    BY <2>1
  <2> QED BY <2>1, <2>2, <2>3, <2>4
<1>2. k \in Nat /\ k >= 2 /\ k - 1 = c
  OBVIOUS
<1> HIDE DEF n, k
<1> DEFINE q == k \div n
           r == k % n
<1>3. k = n * q + r /\ q \in Nat /\ r \in 0..n - 1
  BY <1>1, <1>2
<1> HIDE DEF q, r
<1>4. n * q >= 3 * q
  BY <1>1, <1>3
<1>5. q \in 0..(k - 2)
  BY <1>1, <1>2, <1>3, <1>4
<1> QED BY <1>2, <1>5 DEF q, n, k


-----------------------------------------------------------------------------
\* The steps, one by one.
LEMMA StartsFit == ASSUME NoWrap PROVE Init => ReachInv
<1> SUFFICES ASSUME Init PROVE ReachInv
  OBVIOUS
<1>1. PICK d \in Disks, dir \in Layouts, split \in Splits, left \in FreeMem :
      LET fmt == MakeNewf(d, d.dirs) IN
      /\ fmt.clusters > 0 /\ Total(split) >= fmt.size
      /\ f = fmt /\ size = split
      /\ ioerr = FALSE /\ pc = "idle"
  BY DEF Init
<1>2. d.dirs \in Nat
  BY Consts
<1>3. FormatFits(MakeNewf(d, d.dirs))
  <2>1. MakeNewf(d, d.dirs).clusters # 0
    BY <1>1
  <2> QED BY <1>2, <2>1, MadeFits
<1>4. f.size <= Total(size)
  <2>1. IInv
    BY StartsWell
  <2>2. size \in [Parts -> Nat] /\ f \in FormatSet
    BY <2>1 DEF IInv, ChainOK, MemOK, Sizes
  <2>3. Total(size) \in Nat /\ f.size \in Int
    BY <2>2, TotalIs DEF FormatSet
  <2> QED BY <1>1, <2>3
<1> QED BY <1>1, <1>3, <1>4 DEF ReachInv, FormatsFit, LastFits, SecnoFits, SizeFits, GoalFits,
                                Packed, Moves, Allocs

LEMMA FormatDiskFits ==
  ASSUME Known, NoWrap, FormatDisk
  PROVE  ReachInv'
<1>1. PICK d \in Disks :
         LET new == MakeNewf(d, DirsFor(d)) IN
         /\ g' = new
         /\ pc' = IF CalcAlloc(new.size).left > 0 \/ new.clusters = 0 THEN "refused"
                  ELSE IF [size |-> new.size, dirs |-> new.dirs, fats |-> new.fats] =
                          [size |-> f.size, dirs |-> f.dirs, fats |-> f.fats]
                  THEN "idle" ELSE "resize"
  BY DEF FormatDisk
<1>2. pc \in Ended \ {"fatal"} /\ UNCHANGED <<f, size, ioerr>>
  BY DEF FormatDisk
<1>3. FormatFits(f) /\ f.size <= Total(size) /\ ~ioerr
  BY <1>2 DEF Known, ReachInv, FormatsFit, SizeFits, Ended, Allocs
<1>4. pc' \in {"refused", "idle"} \/ (pc' = "resize" /\ g'.clusters # 0)
  BY <1>1
<1>5. pc' = "resize" => FormatFits(g')
  <2>1. DirsFor(d) \in Nat
    BY DirsFit DEF Known, IInv
  <2> DEFINE n == DirsFor(d)
  <2> HIDE DEF n
  <2>2. MakeNewf(d, n).clusters # 0 => FormatFits(MakeNewf(d, n))
    BY <2>1, MadeFits DEF n
  <2> QED BY <1>1, <1>4, <2>2 DEF n
<1> QED BY <1>2, <1>3, <1>4, <1>5 DEF ReachInv, FormatsFit, LastFits, SecnoFits, SizeFits,
                                      GoalFits, Packed, Moves, Allocs

\* The numbers of used clusters and of the last of them.
LEMMA UsedFits ==
  ASSUME f \in FormatSet, f.clusters \in Nat
  PROVE  /\ Cardinality(UsedClusters(f)) \in 0..f.clusters
         /\ Highest(UsedClusters(f)) \in 0..(f.clusters + 1)
<1> DEFINE S == UsedClusters(f)
           b == f.clusters + 1
           I == 2..b
<1>1. b \in Nat /\ S \subseteq I /\ f.clusters = b - 1 /\ b >= 1
  BY DEF UsedClusters, Clusters
<1> HIDE DEF S, b
<1>2. IsFiniteSet(I) /\ Cardinality(I) = IF 2 > b THEN 0 ELSE b - 2 + 1
  BY <1>1, FS_Interval
<1> HIDE DEF I
<1>3. Cardinality(S) \in Nat /\ Cardinality(S) <= Cardinality(I)
  BY <1>1, <1>2, FS_Subset, FS_CardinalityType
<1>4. Cardinality(S) <= b - 1
  BY <1>1, <1>2, <1>3
<1> DEFINE h == Highest(S)
<1>5. h \in S \union {0}
  <2>1. b \in Int /\ S \subseteq 2..b
    BY <1>1 DEF I
  <2> QED BY ONLY <2>1, HighestIs
<1> HIDE DEF h
<1>6. h \in 0..b
  BY <1>1, <1>5 DEF I
<1> QED BY <1>1, <1>3, <1>4, <1>6 DEF h, S

LEMMA ResizeFits ==
  ASSUME Known, Resize
  PROVE  ReachInv'
<1> DEFINE used == Cardinality(UsedClusters(f))
           end == Highest(UsedClusters(f))
<1>1. pc = "resize" /\ UNCHANGED <<f, g, size, ioerr>>
  BY DEF Resize, chainVars, memVars, formatVars
<1>2. /\ FormatFits(f) /\ FormatFits(g) /\ f.size <= Total(size) /\ ~ioerr
      /\ f \in FormatSet /\ g \in FormatSet
  BY <1>1 DEF Known, IInv, ReachInv, FormatsFit, SizeFits, Allocs
<1>3. \/ pc' = "toosmall"
      \/ pc' = "pack" /\ used <= g.clusters /\ top' = used + 1
      \/ pc' = "grow" /\ ~(g.clusters < f.clusters) /\ last' = end
  <2>1. f.clusters \in Nat
    BY <1>2, FormatNumbers
  <2>2. used \in Nat
    BY <1>2, <2>1, UsedFits
  <2>3. g.clusters \in Nat
    BY <1>2, FormatNumbers
  <2> QED BY <2>2, <2>3 DEF Resize
<1>4. f.clusters \in Nat /\ g.clusters \in Nat
  BY <1>2, FormatNumbers
<1>5. used \in 0..f.clusters /\ end \in 0..(f.clusters + 1)
  BY <1>2, <1>4, UsedFits
<1> HIDE DEF used, end
<1>6. LastFits'
  <2>1. pc' = "pack" => top' <= f.clusters + 1 /\ top' <= g.clusters + 1
    BY <1>3, <1>4, <1>5
  <2>2. pc' = "grow" => last' <= f.clusters + 1 /\ last' <= g.clusters + 1
    BY <1>3, <1>4, <1>5
  <2> QED BY <1>1, <1>3, <2>1, <2>2 DEF LastFits, Packed, Moves, Allocs
<1> QED BY <1>1, <1>2, <1>3, <1>6 DEF ReachInv, FormatsFit, SecnoFits, SizeFits, GoalFits, Packed,
                                     Moves, Allocs

LEMMA PackFits ==
  ASSUME Known, PackSkips \/ PackFile \/ PackChain
  PROVE  ReachInv'
<1>1. pc = "pack" /\ UNCHANGED <<f, g, size, ioerr, top, pc>>
  BY DEF PackSkips, PackFile, PackChain, chainVars, memVars, memRest, formatVars
<1>2. FormatFits(f) /\ FormatFits(g) /\ f.size <= Total(size) /\ ~ioerr
      /\ top <= f.clusters + 1 /\ top <= g.clusters + 1
  BY <1>1 DEF Known, ReachInv, FormatsFit, LastFits, SizeFits, Allocs
<1> QED BY <1>1, <1>2 DEF ReachInv, FormatsFit, LastFits, SecnoFits, SizeFits, GoalFits, Packed,
                         Moves, Allocs

LEMMA PackEndsFits ==
  ASSUME Known, PackEnds
  PROVE  ReachInv'
<1> DEFINE n == Len(pk.out) \div PerDir
           at == [s \in (f.dirStart + n + 1)..(f.system - 1) |-> Zero]
<1>1. pc = "pack" /\ pc' = "grow" /\ last' = top /\ UNCHANGED <<f, g, size>> /\ Write(at)
  BY DEF PackEnds, memRest, formatVars
<1>2. /\ FormatFits(f) /\ FormatFits(g) /\ f.size <= Total(size) /\ ~ioerr
      /\ top <= f.clusters + 1 /\ top <= g.clusters + 1 /\ f \in FormatSet
  BY <1>1 DEF Known, IInv, ReachInv, FormatsFit, LastFits, SizeFits, Allocs
<1>3. alloc # "lost"
  BY <1>1 DEF Known, Held
<1>4. n \in Nat
  <2>1. Len(pk.out) \in Nat /\ PerDir \in Nat \ {0}
    BY BlockLen, Consts DEF Known, IInv, PkOK
  <2> DEFINE l == Len(pk.out)
  <2>2. l \in Nat
    BY <2>1
  <2> HIDE DEF l
  <2>3. l \div PerDir \in Nat
    BY <2>1, <2>2
  <2> QED BY <2>3 DEF l
<1>5. \A s \in DOMAIN at : s \in Int /\ 0 <= s /\ s < Total(sect)
  <2>1. /\ f.dirStart \in Nat /\ f.system \in Nat /\ f.clusters \in Nat /\ f.size = f.system + f.clusters
        /\ Total(sect) \in Nat /\ f.size <= Total(sect)
    BY <1>2, <1>3, FormatNumbers, AtHome
  <2> HIDE DEF n
  <2> SUFFICES ASSUME NEW s \in (f.dirStart + n + 1)..(f.system - 1)
               PROVE  s \in Int /\ 0 <= s /\ s < Total(sect)
    OBVIOUS
  <2> QED BY <1>4, <2>1
<1>6. ~ioerr'
  <2> HIDE DEF at
  <2> QED BY <1>1, <1>2, <1>3, <1>5, AtHome, WriteBacked
<1> QED BY <1>1, <1>2, <1>6 DEF ReachInv, FormatsFit, LastFits, SecnoFits, SizeFits, GoalFits, Packed,
                               Moves, Allocs


\* The memory of a larger disk.
LEMMA GrowFits ==
  ASSUME Known, Grow
  PROVE  ReachInv'
<1>1. pc = "grow" /\ UNCHANGED <<f, g, size, ioerr, last, want, stack>>
  BY DEF Grow, diskVars, formatVars
<1>2. /\ FormatFits(f) /\ FormatFits(g) /\ f.size <= Total(size) /\ ~ioerr
      /\ f \in FormatSet /\ g \in FormatSet
      /\ last <= f.clusters + 1 /\ last <= g.clusters + 1
  BY <1>1 DEF Known, IInv, ReachInv, FormatsFit, LastFits, SizeFits, Packed, Allocs
<1>3. /\ f.size \in Nat /\ g.size \in Nat /\ Small(g.size) /\ Total(size) \in Nat
      /\ Used \in Int /\ Used <= f.size
  <2>1. alloc # "lost"
    BY <1>1 DEF Known, Held
  <2>2. pc \in Packed \ {"undoing"}
    BY <1>1 DEF Packed
  <2> QED BY <1>2, <2>1, <2>2, FormatNumbers, AtHome, DataFits
<1>4. CASE g.size > f.size
  <2>1. pc' = "growing" /\ goal' = g.size /\ saved' = Used /\ alloc' = "calc"
    BY <1>4 DEF Grow, StartAlloc
  <2>2. saved' <= goal' /\ saved' <= Total(size')
    BY <1>1, <1>2, <1>3, <1>4, <2>1
  <2>3. AllocFits'
    BY <1>3, <2>1, <2>2 DEF AllocFits, Fits
  <2>4. f.size <= g.size
    BY <1>3, <1>4
  <2> QED BY <1>1, <1>2, <2>1, <2>3, <2>4 DEF ReachInv, FormatsFit, LastFits, SecnoFits, SizeFits,
                                              GoalFits, Packed, Moves, Allocs
<1>5. CASE ~(g.size > f.size)
  <2>1. pc' = "up"
    BY <1>5 DEF Grow
  <2>2. g.size <= Total(size)
    BY <1>2, <1>3, <1>5
  <2> QED BY <1>1, <1>2, <2>1, <2>2 DEF ReachInv, FormatsFit, LastFits, SecnoFits, SizeFits,
                                        GoalFits, Packed, Moves, Allocs
<1> QED BY <1>4, <1>5

LEMMA AllocatingFits ==
  ASSUME Known, Allocating, "shrink" \notin Refusals
  PROVE  ReachInv'
<1>1. pc \in Allocs /\ AllocStep /\ UNCHANGED <<f, g, last, pc>>
  BY DEF Allocating, diskVars, formatVars, Allocs
<1>2. UNCHANGED <<goal, saved>>
  BY <1>1 DEF AllocStep, Calculate, PartKept, PartExpands, PartShrinks, PartShrunk, ChainEnd, Allocated
<1>3. FitsOn
  BY <1>1, AllocStepFits DEF Known, IInv, ReachInv, GoalFits
<1>4. AllocFits' /\ ~ioerr'
  BY <1>3 DEF FitsOn, AllocFits
<1>5. /\ FormatsFit /\ LastFits /\ GoalFits /\ pc \notin Moves \union {"finish", "fat", "pack"}
  BY <1>1 DEF Known, ReachInv, Moves, Allocs
<1> QED BY <1>1, <1>2, <1>4, <1>5 DEF ReachInv, FormatsFit, LastFits, SecnoFits, SizeFits, GoalFits

LEMMA GrewFits ==
  ASSUME Known, Grew \/ GrowFails \/ Undone
  PROVE  ReachInv'
<1>1. pc \in {"growing", "undoing"} /\ UNCHANGED <<f, size, ioerr, last>>
  BY DEF Grew, GrowFails, Undone, chainVars, diskVars, formatVars, memVars
<1>2. FormatFits(f) /\ f \in FormatSet /\ g \in FormatSet /\ ~ioerr
      /\ AllocFits /\ goal = g.size /\ Total(size) \in Nat
      /\ last <= f.clusters + 1 /\ last <= g.clusters + 1
  <2>1. size \in [Parts -> Nat]
    BY DEF Known, IInv, ChainOK, MemOK, Sizes
  <2> QED BY <1>1, <2>1, TotalIs DEF Known, IInv, ReachInv, FormatsFit, LastFits, GoalFits, Packed, Allocs
<1>3. CASE Grew
  <2>1. pc = "growing" /\ alloc = "yes" /\ pc' = "up" /\ g' = g
    BY <1>3 DEF Grew, diskVars, formatVars
  <2>2. FormatFits(g) /\ f.size <= g.size /\ g.size <= Total(size)
    BY <1>2, <2>1 DEF Known, ReachInv, FormatsFit, GoalFits, AllocFits, Fits, Packed, Allocs
  <2>3. f.size <= Total(size)
    BY <1>2, <2>2, FormatNumbers
  <2> QED BY <1>1, <1>2, <2>1, <2>2, <2>3 DEF ReachInv, FormatsFit, LastFits, SecnoFits, SizeFits,
                                              GoalFits, Packed, Moves, Allocs
<1>4. CASE pc' = "fatal"
  BY <1>1, <1>2, <1>4 DEF ReachInv, FormatsFit, LastFits, SecnoFits, SizeFits, GoalFits, Packed, Moves,
                          Allocs
<1>5. CASE GrowFails /\ pc' # "fatal"
  <2>1. /\ pc = "growing" /\ pc' = "undoing" /\ CurrentSize > f.size
        /\ g' = [g EXCEPT !.size = f.size]
        /\ goal' = f.size /\ saved' = Used /\ alloc' = "calc"
    BY <1>5 DEF GrowFails, StartAlloc, Fatal
  <2>2. f.size \in Nat /\ Small(f.size) /\ Used \in Int /\ Used <= f.size
    <3>1. pc \in Packed \ {"undoing"}
      BY <2>1 DEF Packed, Allocs
    <3> QED BY <1>2, <3>1, FormatNumbers, DataFits
  <2>3. g'.size = f.size /\ g'.clusters = g.clusters
    BY <1>2, <2>1 DEF FormatSet
  <2>4. saved' <= goal' /\ saved' <= Total(size')
    BY <1>1, <1>2, <2>1, <2>2 DEF CurrentSize
  <2>5. AllocFits'
    BY <2>1, <2>2, <2>4 DEF AllocFits, Fits
  <2> QED BY <1>1, <1>2, <2>1, <2>3, <2>5 DEF ReachInv, FormatsFit, LastFits, SecnoFits, SizeFits,
                                              GoalFits, Packed, Moves, Allocs
<1>6. CASE Undone
  BY <1>4, <1>6 DEF Undone, Fatal
<1> QED BY <1>3, <1>4, <1>5, <1>6

\* What holds while the disk is moved from the old format to the new one.
LEMMA MovesKnown ==
  ASSUME Known, pc \in Moves \union {"finish"}
  PROVE  /\ FormatFits(f) /\ FormatFits(g) /\ f \in FormatSet /\ g \in FormatSet /\ ~ioerr
         /\ last <= f.clusters + 1 /\ last <= g.clusters + 1
         /\ pc # "finish" => f.size <= Total(size)
         /\ g.size <= Total(size) /\ alloc # "lost" /\ pc \in Packed \ {"undoing"}
         /\ f.dirStart + g.dirs <= f.size \/ f.dirStart + g.dirs <= g.size
<1>1. pc \in Packed \ {"undoing"} /\ pc \notin Allocs /\ pc # "fatal"
  BY DEF Packed, Moves, Allocs
<1>2. alloc # "lost"
  BY <1>1 DEF Known, Held, Allocs
<1> QED BY <1>1, <1>2 DEF Known, IInv, ReachInv, FormatsFit, LastFits, SizeFits, Ordinary, Packed

\* A step of it that keeps to the memory.
LEMMA MovesOn ==
  ASSUME Known, pc \in Moves \ {"shrink"}, pc' \in Moves,
         UNCHANGED <<f, g, last, size>>, ~ioerr', SecnoFits'
  PROVE  ReachInv'
<1>1. /\ FormatFits(f) /\ FormatFits(g) /\ last <= f.clusters + 1 /\ last <= g.clusters + 1
      /\ f.size <= Total(size) /\ g.size <= Total(size)
  BY MovesKnown DEF Moves
<1> QED BY <1>1 DEF ReachInv, FormatsFit, LastFits, SizeFits, GoalFits, Packed, Moves, Allocs

LEMMA MoveOnFits ==
  ASSUME Known, pc \in Moves \ {"shrink"}, NEW to, to \in Moves, NEW dest \in Int, NEW orig \in Int,
         NEW number \in Int, MoveOn(dest, orig, number, to),
         number <= 0 \/ ( /\ 0 <= dest /\ dest + number <= Total(size)
                          /\ 0 <= orig /\ orig + number <= Total(size) ),
         SecnoFits'
  PROVE  ReachInv'
<1>1. alloc # "lost" /\ ~ioerr
  BY MovesKnown
<1>2. Stands(block, sect) /\ Total(sect) = Total(size)
  BY <1>1, AtHome
<1>3. ~Unbacked(block, sect, dest, orig, number)
  BY <1>2, MoveBacked
<1>4. ~ioerr' /\ pc' = to /\ UNCHANGED <<f, g, last, size>>
  BY <1>1, <1>3 DEF MoveOn, Moved, formatVars
<1> QED BY <1>4, MovesOn


\* The numbers of the two formats and of what moves.
LEMMA MoveNumbers ==
  ASSUME Known, pc \in Moves
  PROVE  /\ f.clusters \in Nat \ {0} /\ f.dirs \in Nat /\ f.dirStart \in Nat \ {0} /\ f.system \in Nat
         /\ f.spf \in Nat /\ f.system = f.dirStart + f.dirs /\ f.size = f.system + f.clusters
         /\ g.clusters \in Nat \ {0} /\ g.dirs \in Nat /\ g.dirStart \in Nat \ {0} /\ g.system \in Nat
         /\ g.spf \in Nat /\ g.system = g.dirStart + g.dirs /\ g.size = g.system + g.clusters
         /\ g.type \in {12, 16} /\ g.size \in Nat /\ Small(g.size)
         /\ f.size <= Total(size) /\ g.size <= Total(size) /\ Total(size) \in Nat
         /\ f.dirStart + g.dirs <= f.size \/ f.dirStart + g.dirs <= g.size
         /\ Data \in Nat /\ Data <= f.clusters /\ Data <= g.clusters
<1>1. pc # "finish"
  BY DEF Moves
<1> QED BY <1>1, MovesKnown, FormatNumbers, AtHome, DataFits

LEMMA ClustersUpFits ==
  ASSUME Known, ClustersUp
  PROVE  ReachInv'
<1> DEFINE n == IF g.system > f.system THEN Data ELSE 0
<1>1. pc = "up" /\ MoveOn(g.system, f.system, n, "dirup") /\ pc' = "dirup"
  BY DEF ClustersUp, MoveOn
<1>2. pc \in Moves \ {"shrink"} /\ "dirup" \in Moves /\ SecnoFits'
  BY <1>1 DEF Moves, SecnoFits
<1>3. /\ g.system \in Int /\ f.system \in Int /\ n \in Int
      /\ n <= 0 \/ ( /\ 0 <= g.system /\ g.system + n <= Total(size)
                     /\ 0 <= f.system /\ f.system + n <= Total(size) )
  BY <1>2, MoveNumbers
<1> HIDE DEF n
<1> QED BY <1>1, <1>2, <1>3, MoveOnFits

LEMMA ClustersDownFits ==
  ASSUME Known, ClustersDown
  PROVE  ReachInv'
<1> DEFINE n == IF g.system < f.system THEN Data ELSE 0
<1>1. pc = "down" /\ MoveOn(g.system, f.system, n, "shrink") /\ pc' = "shrink"
  BY DEF ClustersDown, MoveOn
<1>2. pc \in Moves \ {"shrink"} /\ "shrink" \in Moves /\ SecnoFits'
  BY <1>1 DEF Moves, SecnoFits
<1>3. /\ g.system \in Int /\ f.system \in Int /\ n \in Int
      /\ n <= 0 \/ ( /\ 0 <= g.system /\ g.system + n <= Total(size)
                     /\ 0 <= f.system /\ f.system + n <= Total(size) )
  BY <1>2, MoveNumbers
<1> HIDE DEF n
<1> QED BY <1>1, <1>2, <1>3, MoveOnFits

LEMMA RootDirDownFits ==
  ASSUME Known, RootDirDown
  PROVE  ReachInv'
<1> DEFINE n == IF g.dirStart < f.dirStart THEN g.dirs ELSE 0
<1>1. pc = "dirdown" /\ MoveOn(g.dirStart, f.dirStart, n, "down") /\ pc' = "down"
  BY DEF RootDirDown, MoveOn
<1>2. pc \in Moves \ {"shrink"} /\ "down" \in Moves /\ SecnoFits'
  BY <1>1 DEF Moves, SecnoFits
<1>3. /\ g.dirStart \in Int /\ f.dirStart \in Int /\ n \in Int
      /\ n <= 0 \/ ( /\ 0 <= g.dirStart /\ g.dirStart + n <= Total(size)
                     /\ 0 <= f.dirStart /\ f.dirStart + n <= Total(size) )
  BY <1>2, MoveNumbers
<1> HIDE DEF n
<1> QED BY <1>1, <1>2, <1>3, MoveOnFits

LEMMA RootDirUpFits ==
  ASSUME Known, RootDirUp, SectorBits >= 48
  PROVE  ReachInv'
<1> DEFINE n == IF g.dirStart > f.dirStart THEN g.dirs ELSE 0
           to == IF Convert THEN "fat" ELSE "copies"
<1>1. pc = "dirup" /\ MoveOn(g.dirStart, f.dirStart, n, to) /\ secno' = FirstFatSector
      /\ UNCHANGED <<f, g>>
  BY DEF RootDirUp, MoveOn, formatVars
<1>2. pc \in Moves \ {"shrink"} /\ to \in Moves
  BY <1>1 DEF Moves
<1> HIDE DEF to
<1>3. FatSectors \in Nat /\ FirstFatSector \in {0, FatSectors}
  <2>1. FatSectors \in 0..(f.clusters - 1)
    BY <1>2, MoveNumbers, FatFits DEF FatSectors
  <2>2. FirstFatSector \in {0, FatSectors}
    BY DEF FirstFatSector, FatSectors
  <2> QED BY <2>1, <2>2
<1>4. SecnoFits'
  <2>1. FatSectors' = FatSectors
    BY <1>1 DEF FatSectors
  <2>2. secno' \in 0..FatSectors
    BY <1>1, <1>3
  <2> QED BY <2>1, <2>2 DEF SecnoFits
<1>5. /\ g.dirStart \in Int /\ f.dirStart \in Int /\ n \in Int
      /\ n <= 0 \/ ( /\ 0 <= g.dirStart /\ g.dirStart + n <= Total(size)
                     /\ 0 <= f.dirStart /\ f.dirStart + n <= Total(size) )
  BY <1>2, MoveNumbers
<1> HIDE DEF n
<1> QED BY <1>1, <1>2, <1>4, <1>5, MoveOnFits

\* A step of the move that writes sectors of the system.
LEMMA WritesFit ==
  ASSUME Known, pc \in Moves \ {"shrink"}, pc' \in Moves, UNCHANGED <<f, g, last, size>>, SecnoFits',
         NEW at, Write(at), \A s \in DOMAIN at : s \in Int /\ 0 <= s /\ s < Total(size)
  PROVE  ReachInv'
<1>1. alloc # "lost" /\ ~ioerr
  BY MovesKnown
<1>2. Stands(block, sect) /\ Total(sect) = Total(size)
  BY <1>1, AtHome
<1>3. ~ioerr'
  BY <1>1, <1>2, WriteBacked
<1> QED BY <1>3, MovesOn

LEMMA FixFATFits ==
  ASSUME Known, FixFAT, SectorBits >= 48
  PROVE  ReachInv'
<1>1. pc = "fat" /\ UNCHANGED <<f, g, last, size>> /\ pc' \in {"fat", "copies"}
      /\ \E t : Write([s \in {Reserved + secno} |-> t])
      /\ (pc' = "fat" => secno # LastFatSector /\ secno' = IF g.type = 16 THEN secno - 1 ELSE secno + 1)
  BY DEF FixFAT, formatVars, memRest
<1>2. PICK t : Write([s \in {Reserved + secno} |-> t])
  BY <1>1
<1> DEFINE at == [s \in {Reserved + secno} |-> t]
<1>3. pc \in Moves \ {"shrink"} /\ pc' \in Moves
  BY <1>1 DEF Moves
<1>4. g.type \in {12, 16} /\ f.clusters \in Nat \ {0}
  BY <1>3, MoveNumbers
<1>5. FatSectors \in 0..(f.clusters - 1) /\ FatSectors' = FatSectors
  BY <1>1, <1>4, FatFits DEF FatSectors
<1>6. secno \in 0..FatSectors
  BY <1>1 DEF Known, ReachInv, SecnoFits
<1>7. SecnoFits'
  <2>1. LastFatSector = IF g.type = 16 THEN 0 ELSE FatSectors
    BY <1>4 DEF LastFatSector, FatSectors
  <2>2. pc' = "fat" => secno' \in 0..FatSectors
    BY <1>1, <1>4, <1>5, <1>6, <2>1
  <2> QED BY <1>5, <2>2 DEF SecnoFits
<1>8. DOMAIN at = {Reserved + secno}
  OBVIOUS
<1>10. Write(at)
  BY <1>2
<1> HIDE DEF at
<1>9. Reserved + secno \in Int /\ 0 <= Reserved + secno /\ Reserved + secno < Total(size)
  BY <1>3, <1>5, <1>6, MoveNumbers DEF Reserved
<1>11. \A s \in DOMAIN at : s \in Int /\ 0 <= s /\ s < Total(size)
  BY <1>8, <1>9
<1> QED BY <1>1, <1>3, <1>7, <1>10, <1>11, WritesFit

LEMMA CopyFATFits ==
  ASSUME Known, CopyFAT, SectorBits >= 48
  PROVE  ReachInv'
<1> DEFINE used == IF Convert THEN ((f.clusters + 1) \div PerFat(g.type)) + 1 ELSE f.spf
           first(k) == IF k < used THEN Read(Reserved + k) ELSE Zero
           at == [s \in (Reserved + Least(used, g.spf))..(g.dirStart - 1) |-> first((s - Reserved) % g.spf)]
<1>1. pc = "copies" /\ pc' = "dirdown" /\ Write(at) /\ UNCHANGED <<f, g, last, size>>
  BY DEF CopyFAT, formatVars, memRest
<1>2. pc \in Moves \ {"shrink"} /\ pc' \in Moves /\ SecnoFits'
  BY <1>1 DEF Moves, SecnoFits
<1>3. used \in Nat
  <2>1. (f.clusters + 1) \div PerFat(g.type) \in 0..(f.clusters - 1)
    BY <1>2, MoveNumbers, FatFits
  <2>2. f.spf \in Nat
    BY <1>2, MoveNumbers
  <2> QED BY <2>1, <2>2
<1> HIDE DEF used
<1>4. DOMAIN at = (Reserved + Least(used, g.spf))..(g.dirStart - 1)
  OBVIOUS
<1> HIDE DEF at
<1>5. \A s \in DOMAIN at : s \in Int /\ 0 <= s /\ s < Total(size)
  <2> DEFINE low == Least(used, g.spf)
  <2>1. low \in Nat /\ g.spf \in Nat
    BY <1>2, <1>3, MoveNumbers DEF Least
  <2>2. g.dirStart \in Nat /\ g.dirStart <= Total(size) /\ Total(size) \in Nat
    <3>1. /\ g.dirStart \in Nat \ {0} /\ g.dirs \in Nat /\ g.clusters \in Nat \ {0} /\ g.system \in Nat
          /\ g.system = g.dirStart + g.dirs /\ g.size = g.system + g.clusters
          /\ g.size <= Total(size) /\ Total(size) \in Nat
      BY <1>2, MoveNumbers
    <3> QED BY <3>1
  <2> HIDE DEF low
  <2>3. DOMAIN at = (1 + low)..(g.dirStart - 1)
    BY <1>4 DEF low, Reserved
  <2> QED BY <2>1, <2>2, <2>3
<1> QED BY <1>1, <1>2, <1>5, WritesFit

\* The memory of a smaller disk is given back.
LEMMA ShrinkFits ==
  ASSUME Known, Shrink
  PROVE  ReachInv'
<1>1. pc = "shrink" /\ UNCHANGED <<f, g, size, ioerr, last, want, stack>>
  BY DEF Shrink, diskVars, formatVars
<1>2. pc \in Moves /\ pc # "finish"
  BY <1>1 DEF Moves
<1>3. /\ FormatFits(f) /\ FormatFits(g) /\ last <= f.clusters + 1 /\ last <= g.clusters + 1
      /\ f.size <= Total(size) /\ g.size <= Total(size) /\ ~ioerr
  BY <1>2, MovesKnown
<1>4. CASE g.size < f.size
  <2>1. pc' = "shrinking" /\ goal' = g.size /\ saved' = Data + g.system /\ alloc' = "calc"
    BY <1>4 DEF Shrink, StartAlloc
  <2>2. saved' <= goal' /\ saved' <= Total(size') /\ g.size \in Nat /\ Small(g.size)
    BY <1>1, <1>2, <2>1, MoveNumbers
  <2>3. AllocFits'
    BY <2>1, <2>2 DEF AllocFits, Fits
  <2> QED BY <1>1, <1>3, <2>1, <2>3 DEF ReachInv, FormatsFit, LastFits, SecnoFits, SizeFits,
                                        GoalFits, Packed, Moves, Allocs
<1>5. CASE ~(g.size < f.size)
  <2>1. pc' = "finish"
    BY <1>5 DEF Shrink
  <2> QED BY <1>1, <1>3, <2>1 DEF ReachInv, FormatsFit, LastFits, SecnoFits, SizeFits,
                                  GoalFits, Packed, Moves, Allocs
<1> QED BY <1>4, <1>5

LEMMA ShrankFits ==
  ASSUME Known, Shrank
  PROVE  ReachInv'
<1>1. /\ pc = "shrinking" /\ UNCHANGED <<f, g, size, ioerr, last>>
      /\ \/ alloc = "yes" /\ pc' = "finish"
         \/ pc' = "fatal"
  BY DEF Shrank, Fatal, chainVars, memVars, formatVars
<1>2. /\ FormatFits(f) /\ FormatFits(g) /\ last <= f.clusters + 1 /\ last <= g.clusters + 1
      /\ ~ioerr /\ (alloc = "yes" => g.size <= Total(size))
  BY <1>1 DEF Known, ReachInv, FormatsFit, LastFits, GoalFits, AllocFits, Fits, Packed, Allocs
<1> QED BY <1>1, <1>2 DEF ReachInv, FormatsFit, LastFits, SecnoFits, SizeFits, GoalFits, Packed, Moves,
                          Allocs

LEMMA FinishFits ==
  ASSUME Known, Finish
  PROVE  ReachInv'
<1> DEFINE at == [s \in (g.dirStart + f.dirs)..(g.system - 1) |-> Zero]
<1>1. pc = "finish" /\ pc' = "done" /\ Write(at) /\ f' = g /\ UNCHANGED <<g, last, size>>
  BY DEF Finish, memRest
<1>2. /\ FormatFits(f) /\ FormatFits(g) /\ f \in FormatSet /\ g \in FormatSet /\ ~ioerr
      /\ g.size <= Total(size) /\ alloc # "lost"
  BY <1>1, MovesKnown
<1>3. Stands(block, sect) /\ Total(sect) = Total(size) /\ Total(size) \in Nat
  BY <1>2, AtHome
<1>4. DOMAIN at = (g.dirStart + f.dirs)..(g.system - 1)
  OBVIOUS
<1> HIDE DEF at
<1>5. \A s \in DOMAIN at : s \in Int /\ 0 <= s /\ s < Total(sect)
  <2>1. /\ f.dirs \in Nat /\ g.dirStart \in Nat /\ g.system \in Nat /\ g.clusters \in Nat
        /\ g.size = g.system + g.clusters
    BY <1>2, FormatNumbers
  <2> QED BY <1>2, <1>3, <1>4, <2>1
<1>6. ~ioerr'
  BY <1>1, <1>2, <1>3, <1>5, WriteBacked
<1> QED BY <1>1, <1>2, <1>6 DEF ReachInv, FormatsFit, LastFits, SecnoFits, SizeFits, GoalFits, Packed,
                               Moves, Allocs

LEMMA RestFits ==
  ASSUME Known, Rest \/ UNCHANGED vars
  PROVE  ReachInv'
<1>1. UNCHANGED <<f, g, last, top, secno, size, want, stack, goal, saved, alloc, ioerr, pc>>
  BY DEF Rest, vars, chainVars, memVars, diskVars, formatVars, packVars
<1> QED BY <1>1 DEF Known, ReachInv, FormatsFit, LastFits, SecnoFits, SizeFits, GoalFits, AllocFits, FatSectors

\* Where the memory managers never refuse to make a block smaller, no disk is
\* near the largest number of Kbytes, a sector holds at least four FAT entries
\* and the disk is Ordinary, every sector that the program reads or writes has
\* memory behind it, on every chain, for all formats and any amount of memory.
THEOREM StaysInReach ==
  ASSUME "shrink" \notin Refusals, NoWrap, SectorBits >= 48
  PROVE  Spec /\ []Ordinary => []InReach
<1>1. Init => ReachInv
  BY StartsFit
<1>2. IInv /\ Held /\ Ordinary /\ ReachInv /\ [Next]_vars => ReachInv'
  <2> SUFFICES ASSUME IInv, Held, Ordinary, ReachInv, [Next]_vars PROVE ReachInv'
    OBVIOUS
  <2>1. Known
    BY DEF Known
  <2> QED BY <2>1, FormatDiskFits, ResizeFits, PackFits, PackEndsFits, GrowFits, AllocatingFits,
             GrewFits, ClustersUpFits, RootDirUpFits, FixFATFits, CopyFATFits, RootDirDownFits,
             ClustersDownFits, ShrinkFits, ShrankFits, FinishFits, RestFits DEF Next, Step
<1>3. ReachInv => InReach
  BY DEF ReachInv, InReach
<1>4. Spec => [](IInv /\ Held)
  BY PlacesAreKnown
<1> QED BY <1>1, <1>2, <1>3, <1>4, PTL DEF Spec

=============================================================================

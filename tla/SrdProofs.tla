----------------------------- MODULE SrdProofs ------------------------------
(***************************************************************************)
(* Proofs about the memory of a RAM disk in SrdChain and SrdResize, for    *)
(* every chain of parts, every disk, every format asked for and any amount *)
(* of free memory.  No driver believes in more memory than it holds        *)
(* (SizesAreHeld); MoveSectors makes an exact copy (ContentsMove); memory  *)
(* is taken and given back with the contents kept (SavedSectorsStay).      *)
(*                                                                         *)
(* The theorems about runs assume that no memory manager refuses to make a *)
(* block smaller.  The drivers are not made for that: physical_alloc then  *)
(* asks for a second block, and may report the size of one it does not     *)
(* hold.                                                                   *)
(*                                                                         *)
(* calc_alloc and MoveSectors are loops over parts and batches.  What a    *)
(* loop keeps is proved from the least step that would break it (Smallest, *)
(* LoopKeeps, MovesKeep).                                                  *)
(***************************************************************************)
EXTENDS SrdResize, FiniteSetTheorems, SequenceTheorems, WellFoundedInduction, TLAPS

-----------------------------------------------------------------------------
(***************************************************************************)
(* Sequences and blocks of memory.                                         *)
(***************************************************************************)
\* A set of numbers has a least member.
LEMMA Smallest ==
  ASSUME NEW S \in SUBSET Nat, S # {}
  PROVE  \E m \in S : \A n \in S : m <= n
<1> DEFINE R == OpToRel(<, Nat)
<1>1. IsWellFoundedOn(R, Nat)
  BY NatLessThanWellFounded
<1>2. \A x, y \in Nat : x < y => <<x, y>> \in R
  BY DEF OpToRel
<1> HIDE DEF R
<1>3. PICK m \in S : \A n \in S : ~ (<<n, m>> \in R)
  BY <1>1, WFMin
<1>4. ASSUME NEW n \in S PROVE m <= n
  <2>1. m \in Nat /\ n \in Nat
    OBVIOUS
  <2>2. ~ (n < m)
    BY <1>2, <1>3, <2>1
  <2> QED BY <2>1, <2>2
<1> QED BY <1>4

Holds(b, n) == n \in Nat /\ b = [k \in 1..n |-> b[k]]
IsSeq(b) == \E n \in Nat : Holds(b, n)

\* A function on 1..n is a sequence of length n.
LEMMA Length ==
  ASSUME NEW b, NEW n, Holds(b, n)
  PROVE  Len(b) = n /\ (b = <<>> <=> n = 0) /\ IsSeq(b) /\ Holds(b, Len(b))
<1> DEFINE S == {b[k] : k \in 1..n}
<1>1. n \in Nat /\ b \in [1..n -> S]
  BY DEF Holds
<1>2. b \in Seq(S) /\ Len(b) = n
  BY SMTT(30), <1>1, SeqDef, LenProperties
<1>3. b = <<>> <=> n = 0
  BY <1>2, EmptySeq
<1> QED BY <1>1, <1>2, <1>3 DEF IsSeq, Holds

BlocksOK(bl) == bl = [p \in Parts |-> bl[p]] /\ \A p \in Parts : IsSeq(bl[p])
SameSize(a, bl) == BlocksOK(a) /\ \A p \in Parts : Len(a[p]) = Len(bl[p])

LEMMA BlockLen ==
  ASSUME NEW b, IsSeq(b)
  PROVE  Len(b) \in Nat /\ Holds(b, Len(b)) /\ (b = <<>> <=> Len(b) = 0)
  BY Length DEF IsSeq, Holds

\* A batch of sectors is copied within the blocks, whose lengths stay.
LEMMA CopyKeeps ==
  ASSUME NEW bl, BlocksOK(bl), NEW sec, NEW dest, NEW orig, NEW n
  PROVE  SameSize(CopyBatch(bl, sec, dest, orig, n), bl)
<1> DEFINE V(p, k) == LET s == FirstOf(sec, p) + k - 1 IN
                      IF k <= sec[p] /\ dest <= s /\ s < dest + n
                      THEN Sector(bl, sec, orig + s - dest) ELSE bl[p][k]
<1> DEFINE a == [p \in Parts |-> [k \in 1..Len(bl[p]) |-> V(p, k)]]
<1>1. CopyBatch(bl, sec, dest, orig, n) = a
  BY DEF CopyBatch
<1> HIDE DEF V
<1>2. \A p \in Parts : Holds(a[p], Len(bl[p]))
  BY BlockLen DEF BlocksOK, Holds
<1>3. a = [p \in Parts |-> a[p]]
  OBVIOUS
<1> HIDE DEF a
<1> QED BY <1>1, <1>2, <1>3, Length DEF SameSize, BlocksOK

\* So do they when sectors are written.
LEMMA PutKeeps ==
  ASSUME NEW bl, BlocksOK(bl), NEW at
  PROVE  SameSize(Put(bl, at), bl)
<1> DEFINE V(p, k) == LET s == FirstOf(sect, p) + k - 1 IN
                      IF k <= sect[p] /\ s \in DOMAIN at THEN at[s] ELSE bl[p][k]
           a == [p \in Parts |-> [k \in 1..Len(bl[p]) |-> V(p, k)]]
<1>1. Put(bl, at) = a
  BY DEF Put
<1> HIDE DEF V
<1>2. \A p \in Parts : Holds(a[p], Len(bl[p]))
  BY BlockLen DEF BlocksOK, Holds
<1>3. a = [p \in Parts |-> a[p]]
  OBVIOUS
<1> HIDE DEF a
<1> QED BY <1>1, <1>2, <1>3, Length DEF SameSize, BlocksOK

LEMMA SameAgain ==
  ASSUME NEW a, NEW b, NEW c, SameSize(a, b), SameSize(b, c)
  PROVE  SameSize(a, c)
  BY DEF SameSize

LEMMA SameSelf ==
  ASSUME NEW a, BlocksOK(a)
  PROVE  SameSize(a, a)
  BY DEF SameSize

\* The sectors of a batch, and what is left below it.
LEMMA BatchFits ==
  ASSUME NEW batch \in Nat \ {0}, NEW k \in Nat \ {0}
  PROVE  LET n == IF k % batch = 0 THEN batch ELSE k % batch IN n \in 1..k
<1>1. k = batch * (k \div batch) + (k % batch) /\ k % batch \in 0..batch - 1 /\ k \div batch \in Nat
  OBVIOUS
<1> DEFINE q == k \div batch
           r == k % batch
<1>2. k = batch * q + r /\ r \in 0..batch - 1 /\ q \in Nat
  BY <1>1
<1> HIDE DEF q, r
<1>3. r = 0 => batch <= k
  <2>1. q = 0 => batch * q = 0
    OBVIOUS
  <2>2. q >= 1 => batch * q >= batch
    BY <1>2
  <2> QED BY <1>2, <2>1, <2>2
<1>4. r <= k
  <2>1. batch * q >= 0
    BY <1>2
  <2> QED BY <1>2, <2>1
<1> QED BY <1>2, <1>3, <1>4 DEF r

\* The batches of a move: how many sectors the one that ends with the k-th has,
\* and what it makes of the blocks.
BatchSize(dest, orig) == Least(IF orig > dest THEN orig - dest ELSE dest - orig, Buffer)
BatchOf(dest, orig, k) == IF k % BatchSize(dest, orig) = 0 THEN BatchSize(dest, orig)
                          ELSE k % BatchSize(dest, orig)
BatchAt(dest, orig, number, k) ==
    IF orig > dest THEN k - BatchOf(dest, orig, k) ELSE number - k
Copied(sec, dest, orig, number, k, b) ==
    CopyBatch(b, sec, dest + BatchAt(dest, orig, number, k), orig + BatchAt(dest, orig, number, k),
              BatchOf(dest, orig, k))
\* The blocks after each batch.
Moving(moved, bl, sec, dest, orig, number) ==
    /\ moved[0] = bl
    /\ \A k \in 1..number :
          /\ BatchOf(dest, orig, k) \in 1..k
          /\ BatchOf(dest, orig, k) <= IF orig > dest THEN orig - dest ELSE dest - orig
          /\ moved[k] = Copied(sec, dest, orig, number, k, moved[k - BatchOf(dest, orig, k)])

\* MoveSectors is such a sequence of batches.
LEMMA MoveSteps ==
  ASSUME NEW bl, NEW sec, NEW dest \in Int, NEW orig \in Int, NEW number \in Int,
         orig # dest, number > 0
  PROVE  \E moved : /\ Moving(moved, bl, sec, dest, orig, number)
                    /\ MoveSectors(bl, sec, dest, orig, number) = moved[number]
<1> DEFINE batch == BatchSize(dest, orig)
           last_1(k) == BatchOf(dest, orig, k)
           Made(k, b) == Copied(sec, dest, orig, number, k, b)
           prev(k) == k - last_1(k)
           Body(m, t) == [k \in 0..t |-> IF k = 0 THEN bl ELSE Made(k, m[prev(k)])]
           Full(m) == [k \in 0..number |->
              IF k = 0 THEN bl
              ELSE LET n == IF k % batch = 0 THEN batch ELSE k % batch
                       at == IF orig > dest THEN k - n ELSE number - k
                   IN Once(LAMBDA b : CopyBatch(b, sec, dest + at, orig + at, n), m[k - n])]
           moved == CHOOSE m : m = Full(m)
<1>1. MoveSectors(bl, sec, dest, orig, number) = moved[number]
  BY DEF MoveSectors, BatchSize
<1>2. \A m : Full(m) = Body(m, number)
  BY DEF Once, Copied, BatchAt, BatchOf
<1>3. batch \in Nat \ {0}
  BY ChainAssumption DEF Least, BatchSize
<1>4. \A k \in 1..number : prev(k) \in 0..k - 1 /\ last_1(k) \in 1..k /\ last_1(k) <= batch
  <2> SUFFICES ASSUME NEW k \in 1..number
               PROVE  prev(k) \in 0..k - 1 /\ last_1(k) \in 1..k /\ last_1(k) <= batch
    OBVIOUS
  <2>1. last_1(k) = IF k % batch = 0 THEN batch ELSE k % batch
    BY DEF BatchOf
  <2> HIDE DEF batch, last_1
  <2>2. last_1(k) \in 1..k
    BY <1>3, <2>1, BatchFits
  <2>3. last_1(k) <= batch
    <3>1. k % batch \in 0..batch - 1
      BY <1>3
    <3> QED BY <1>3, <2>1, <3>1
  <2> QED BY <2>2, <2>3
<1>5. batch <= IF orig > dest THEN orig - dest ELSE dest - orig
  BY ChainAssumption DEF Least, BatchSize
<1> HIDE DEF batch, last_1, Made, prev
<1> DEFINE Gap == {t \in 0..number : ~ \E m : m = Body(m, t)}
<1>6. Gap = {}
  <2> SUFFICES ASSUME Gap # {} PROVE FALSE
    OBVIOUS
  <2>1. PICK t \in Gap : \A u \in Gap : t <= u
    <3>1. Gap \in SUBSET Nat
      OBVIOUS
    <3> QED BY <3>1, Smallest
  <2>2. t \in 0..number /\ ~ \E m : m = Body(m, t)
    OBVIOUS
  <2>3. CASE t = 0
    <3> DEFINE m == [k \in 0..0 |-> bl]
    <3>1. m = Body(m, 0)
      OBVIOUS
    <3> QED BY <2>2, <2>3, <3>1
  <2>4. CASE t > 0
    <3>1. t - 1 \in 0..number /\ t - 1 \notin Gap
      BY <2>1, <2>2, <2>4
    <3>2. PICK w : w = Body(w, t - 1)
      BY <3>1
    <3> DEFINE m == [k \in 0..t |-> IF k = t THEN Made(t, w[prev(t)]) ELSE w[k]]
    <3>3. \A k \in 0..t : m[k] = IF k = 0 THEN bl ELSE Made(k, m[prev(k)])
      <4> SUFFICES ASSUME NEW k \in 0..t PROVE m[k] = IF k = 0 THEN bl ELSE Made(k, m[prev(k)])
        OBVIOUS
      <4>1. CASE k = 0
        BY <2>4, <3>2, <4>1
      <4>2. CASE k > 0 /\ k < t
        <5>1. prev(k) \in 0..k - 1
          BY SMTT(30), <1>4, <2>2, <4>2
        <5>2. m[prev(k)] = w[prev(k)] /\ m[k] = w[k]
          BY <2>2, <4>2, <5>1
        <5>3. w[k] = Made(k, w[prev(k)])
          <6>1. k \in 0..t - 1 /\ k # 0
            BY <2>2, <4>2
          <6> QED BY <3>2, <6>1
        <5> QED BY <4>2, <5>2, <5>3
      <4>3. CASE k = t
        <5>1. prev(t) \in 0..t - 1
          BY <1>4, <2>2, <2>4
        <5>2. m[prev(t)] = w[prev(t)]
          BY <2>2, <5>1
        <5> QED BY <2>4, <4>3, <5>2
      <4> QED BY <2>2, <4>1, <4>2, <4>3
    <3>4. m = [k \in 0..t |-> m[k]]
      OBVIOUS
    <3> HIDE DEF m
    <3>5. m = Body(m, t)
      BY <3>3, <3>4
    <3> QED BY <2>2, <3>5
  <2> QED BY <2>2, <2>3, <2>4
<1>7. moved = Body(moved, number)
  <2>1. \E m : m = Body(m, number)
    BY <1>6
  <2> HIDE DEF Body
  <2>2. \E m : m = Full(m)
    BY <1>2, <2>1
  <2> HIDE DEF Full
  <2>3. moved = Full(moved)
    BY <2>2
  <2> QED BY <1>2, <2>3
<1> HIDE DEF moved
<1>8. moved[0] = bl /\ \A k \in 1..number : moved[k] = Made(k, moved[prev(k)])
  BY <1>7
<1>9. ASSUME NEW k \in 1..number
      PROVE  /\ BatchOf(dest, orig, k) \in 1..k
             /\ BatchOf(dest, orig, k) <= IF orig > dest THEN orig - dest ELSE dest - orig
             /\ moved[k] = Copied(sec, dest, orig, number, k, moved[k - BatchOf(dest, orig, k)])
  <2>1. last_1(k) \in 1..k /\ last_1(k) <= batch
    BY <1>4
  <2>2. last_1(k) <= IF orig > dest THEN orig - dest ELSE dest - orig
    BY <1>3, <1>5, <2>1
  <2>3. moved[k] = Made(k, moved[prev(k)])
    BY <1>8
  <2> QED BY <2>1, <2>2, <2>3 DEF last_1, Made, prev
<1>10. Moving(moved, bl, sec, dest, orig, number)
  BY <1>8, <1>9 DEF Moving
<1> QED BY <1>1, <1>10

\* However many batches a move takes, every block keeps its length.
LEMMA MovesKeep ==
  ASSUME NEW bl, BlocksOK(bl), NEW sec, NEW dest \in Int, NEW orig \in Int, NEW number \in Int
  PROVE  SameSize(MoveSectors(bl, sec, dest, orig, number), bl)
<1>1. CASE orig = dest \/ number <= 0
  BY <1>1, SameSelf DEF MoveSectors
<1>2. CASE orig # dest /\ number > 0
  <2>1. PICK moved : /\ Moving(moved, bl, sec, dest, orig, number)
                     /\ MoveSectors(bl, sec, dest, orig, number) = moved[number]
    BY <1>2, MoveSteps
  <2> DEFINE Bad == {k \in 0..number : ~SameSize(moved[k], bl)}
  <2>2. Bad = {}
    <3> SUFFICES ASSUME Bad # {} PROVE FALSE
      OBVIOUS
    <3>1. PICK t \in Bad : \A u \in Bad : t <= u
      <4>1. Bad \in SUBSET Nat
        OBVIOUS
      <4> QED BY <4>1, Smallest
    <3>2. t \in 0..number /\ ~SameSize(moved[t], bl)
      OBVIOUS
    <3>3. t # 0
      BY <2>1, <3>2, SameSelf DEF Moving
    <3> DEFINE p == t - BatchOf(dest, orig, t)
    <3>4. p \in 0..t - 1 /\ moved[t] = Copied(sec, dest, orig, number, t, moved[p])
      <4>1. t \in 1..number
        BY <1>2, <3>2, <3>3
      <4> QED BY <2>1, <4>1 DEF Moving
    <3> HIDE DEF p
    <3>5. SameSize(moved[p], bl)
      BY <3>1, <3>2, <3>4
    <3>6. SameSize(moved[t], moved[p])
      BY SMTT(30), <3>4, <3>5, CopyKeeps DEF SameSize, Copied
    <3> QED BY <3>2, <3>5, <3>6, SameAgain
  <2> QED BY <1>2, <2>1, <2>2
<1> QED BY <1>1, <1>2

-----------------------------------------------------------------------------
\* calc_alloc: loops over the parts.

\* If every step of a loop keeps to D, step by step, so does all of it.
LEMMA LoopKeeps ==
  ASSUME NEW N \in Nat, NEW D, NEW m, m[0] \in D[0],
         \A k \in 1..N : m[k - 1] \in D[k - 1] => m[k] \in D[k]
  PROVE  \A k \in 0..N : m[k] \in D[k]
<1> DEFINE Bad == {k \in 0..N : m[k] \notin D[k]}
<1> SUFFICES ASSUME Bad # {} PROVE FALSE
  OBVIOUS
<1>1. PICK t \in Bad : \A u \in Bad : t <= u
  <2>1. Bad \in SUBSET Nat
    OBVIOUS
  <2> QED BY <2>1, Smallest
<1>2. t \in 1..N /\ m[t] \notin D[t]
  OBVIOUS
<1>3. t - 1 \in 0..N /\ m[t - 1] \in D[t - 1]
  BY <1>1, <1>2
<1> QED BY <1>2, <1>3

LEMMA LoopStays ==
  ASSUME NEW N \in Nat, NEW D, NEW m, m[0] \in D,
         \A k \in 1..N : m[k - 1] \in D => m[k] \in D
  PROVE  \A k \in 0..N : m[k] \in D
<1> DEFINE F == [k \in 0..N |-> D]
<1>1. m[0] \in F[0] /\ \A k \in 1..N : m[k - 1] \in F[k - 1] => m[k] \in F[k]
  OBVIOUS
<1> HIDE DEF F
<1>2. \A k \in 0..N : m[k] \in F[k]
  BY ONLY <1>1, N \in Nat, LoopKeeps
<1> QED BY <1>2 DEF F

\* What a loop makes of a value, step by step.
Loop(m, N, a, G) == m[0] = a /\ \A k \in 1..N : m[k] = G[k][m[k - 1]]

\* The loops of calc_alloc have a value at each step: the record of all values
\* that the code's loop stands for exists.
LEMMA LoopEnds ==
  ASSUME NEW N \in Nat, NEW D, NEW a \in D, NEW G \in [1..N -> [D -> D]]
  PROVE  \E m \in [0..N -> D] : Loop(m, N, a, G)
<1> DEFINE step(k, x) == G[k][x]
           Body(m, t) == [k \in 0..t |-> IF k = 0 THEN a ELSE step(k, m[k - 1])]
<1> HIDE DEF step
<1>1. \E m : m = Body(m, N)
  <2> DEFINE Gap == {t \in 0..N : ~ \E m : m = Body(m, t)}
  <2> SUFFICES ASSUME Gap # {} PROVE FALSE
    <3>1. N \in 0..N
      OBVIOUS
    <3> QED BY <3>1
  <2>1. PICK t \in Gap : \A u \in Gap : t <= u
    <3>1. Gap \in SUBSET Nat
      OBVIOUS
    <3> QED BY <3>1, Smallest
  <2>2. t \in 0..N /\ ~ \E m : m = Body(m, t)
    OBVIOUS
  <2>3. CASE t = 0
    <3> DEFINE m == [k \in 0..0 |-> a]
    <3>1. m = Body(m, 0)
      OBVIOUS
    <3> QED BY <2>2, <2>3, <3>1
  <2>4. CASE t > 0
    <3>1. t - 1 \in 0..N /\ t - 1 \notin Gap
      BY <2>1, <2>2, <2>4
    <3>2. PICK w : w = Body(w, t - 1)
      BY <3>1
    <3> DEFINE m == [k \in 0..t |-> IF k = t THEN step(t, w[t - 1]) ELSE w[k]]
    <3>3. \A k \in 0..t : m[k] = IF k = 0 THEN a ELSE step(k, m[k - 1])
      <4> SUFFICES ASSUME NEW k \in 0..t PROVE m[k] = IF k = 0 THEN a ELSE step(k, m[k - 1])
        OBVIOUS
      <4>1. CASE k < t
        <5>1. k \in 0..t - 1 /\ (k # 0 => k - 1 \in 0..t /\ k - 1 # t)
          BY <2>2, <4>1
        <5> QED BY <3>2, <4>1, <5>1
      <4>2. CASE k = t
        <5>1. t - 1 \in 0..t /\ t - 1 # t /\ t # 0
          BY <2>2, <2>4
        <5> QED BY <4>2, <5>1
      <4> QED BY <2>2, <4>1, <4>2
    <3>4. m = [k \in 0..t |-> m[k]]
      OBVIOUS
    <3> HIDE DEF m
    <3>5. m = Body(m, t)
      BY <3>3, <3>4
    <3> QED BY <2>2, <3>5
  <2> QED BY <2>2, <2>3, <2>4
<1>2. PICK m : m = Body(m, N)
  BY <1>1
<1>3. m[0] = a /\ \A k \in 1..N : m[k] = step(k, m[k - 1])
  BY <1>2
<1>4. \A k \in 0..N : m[k] \in D
  <2>1. m[0] \in D /\ \A k \in 1..N : m[k - 1] \in D => m[k] \in D
    BY <1>3 DEF step
  <2> QED BY ONLY <2>1, N \in Nat, LoopStays
<1>5. m = [k \in 0..N |-> m[k]]
  BY <1>2
<1> QED BY <1>3, <1>4, <1>5 DEF step, Loop

LEMMA ChainTypes ==
  /\ Len(Kind) \in Nat \ {0} /\ Parts = 1..Len(Kind)
  /\ \A i \in Parts : Kind[i] \in Pools /\ MaxK[i] \in Nat /\ AllocUnit(i) \in Nat \ {0}
  /\ Page \in Nat \ {0} /\ Word \in Nat \ {0}
<1>1. Kind \in Seq({"xms", "ems"}) /\ Len(Kind) > 0 /\ MaxK \in Seq(Nat) /\ Len(MaxK) = Len(Kind)
      /\ Page \in Nat \ {0} /\ Word \in Nat \ {0}
  BY ChainAssumption
<1>2. Len(Kind) \in Nat \ {0} /\ Parts = 1..Len(Kind)
  BY <1>1 DEF Parts
<1>3. \A i \in 1..Len(Kind) : Kind[i] \in {"xms", "ems"} /\ MaxK[i] \in Nat
  BY <1>1, <1>2
<1> QED BY <1>1, <1>2, <1>3 DEF Pools, AllocUnit

\* A request is rounded up to whole allocation units.
LEMMA Rounded ==
  ASSUME NEW a \in Nat, NEW u \in Nat \ {0}
  PROVE  Adjust(a, u) \in Nat /\ Adjust(a, u) < a + u
<1> DEFINE q == (a + u - 1) \div u
           e == (a + u - 1) % u
<1>1. a + u - 1 = u * q + e /\ e \in 0..u - 1 /\ q \in Nat
  OBVIOUS
<1> HIDE DEF q, e
<1>2. q * u = u * q /\ u * q \in Nat
  BY <1>1
<1>3. q * u \in Nat /\ q * u < a + u
  BY <1>1, <1>2
<1> QED BY <1>3 DEF Adjust, q

LEMMA WordOf ==
  ASSUME NEW x \in Int
  PROVE  Dword(x) \in Nat
  BY ChainTypes DEF Dword

Sizes == size \in [Parts -> Nat] /\ free \in [Pools -> Nat]
DivSet == [need : [Parts -> Nat], left : Int]

\* The three loops of calc_alloc, step by step.  The first keeps of each part
\* what is needed.
KeptOf(p, i) == MinA(Least(size[i], MaxK[i]), Dword(p.left), AllocUnit(i))
KeptPart(p, i) == [need |-> Append(p.need, KeptOf(p, i)), left |-> p.left - KeptOf(p, i)]
Nothing(total) == [need |-> <<>>, left |-> total]

LEMMA KeptOfType ==
  ASSUME Sizes, NEW i \in Parts, NEW p, p.left \in Int
  PROVE  KeptOf(p, i) \in Nat
<1>1. size[i] \in Nat /\ MaxK[i] \in Nat /\ AllocUnit(i) \in Nat \ {0}
  BY ChainTypes DEF Sizes
<1>2. Dword(p.left) \in Nat
  BY WordOf
<1> QED BY <1>1, <1>2, Rounded DEF KeptOf, MinA, Least

LEMMA KeptSteps ==
  ASSUME Sizes, NEW total \in Int
  PROVE  \E upto : /\ Kept(total) = upto[Len(Kind)] /\ upto[0] = Nothing(total)
                   /\ \A i \in 1..Len(Kind) : upto[i] = KeptPart(upto[i - 1], i)
<1> DEFINE N == Len(Kind)
           D == [need : Seq(Nat), left : Int]
           first == Nothing(total)
           part(p, i) == KeptPart(p, i)
           G == [i \in 1..N |-> [p \in D |-> part(p, i)]]
           Full(m) == [i \in 0..N |->
              IF i = 0 THEN [need |-> <<>>, left |-> total]
              ELSE LET p == m[i - 1]
                       k == MinA(Least(size[i], MaxK[i]), Dword(p.left), AllocUnit(i))
                   IN [need |-> Append(p.need, k), left |-> p.left - k]]
           upto == CHOOSE m : m = Full(m)
<1>1. Kept(total) = upto[N]
  BY DEF Kept
<1>2. N \in Nat /\ Parts = 1..N /\ first \in D
  BY ChainTypes DEF Nothing
<1>3. \A i \in 1..N : \A p \in D : part(p, i) \in D
  <2> SUFFICES ASSUME NEW i \in 1..N, NEW p \in D PROVE part(p, i) \in D
    OBVIOUS
  <2>1. KeptOf(p, i) \in Nat
    BY <1>2, KeptOfType
  <2> QED BY <2>1 DEF KeptPart
<1>4. \A m : Full(m) = [k \in 0..N |-> IF k = 0 THEN first ELSE part(m[k - 1], k)]
  BY DEF KeptPart, KeptOf, Nothing
<1> HIDE DEF first, part, Full
<1>5. \E m : m = Full(m)
  <2>1. G \in [1..N -> [D -> D]]
    BY <1>3
  <2>2. \A k \in 1..N : \A p \in D : G[k][p] = part(p, k)
    OBVIOUS
  <2> HIDE DEF G, D
  <2>3. PICK m \in [0..N -> D] : Loop(m, N, first, G)
    <3>1. N \in Nat /\ first \in D
      BY <1>2
    <3> HIDE DEF N
    <3> QED BY ONLY <2>1, <3>1, LoopEnds
  <2>4. \A k \in 0..N : m[k] = IF k = 0 THEN first ELSE part(m[k - 1], k)
    <3> SUFFICES ASSUME NEW k \in 0..N, k # 0 PROVE m[k] = part(m[k - 1], k)
      BY <2>3 DEF Loop
    <3>1. k \in 1..N /\ k - 1 \in 0..N
      BY <1>2
    <3>2. m[k - 1] \in D
      BY <3>1
    <3> QED BY <2>2, <2>3, <3>1, <3>2 DEF Loop
  <2>5. m = [k \in 0..N |-> m[k]]
    OBVIOUS
  <2>6. m = [k \in 0..N |-> IF k = 0 THEN first ELSE part(m[k - 1], k)]
    BY ONLY <2>4, <2>5
  <2> QED BY <1>4, <2>6
<1> HIDE DEF G
<1>6. upto = Full(upto)
  BY <1>5
<1> HIDE DEF upto
<1>7. upto[0] = first /\ \A i \in 1..N : upto[i] = part(upto[i - 1], i)
  <2>1. upto = [k \in 0..N |-> IF k = 0 THEN first ELSE part(upto[k - 1], k)]
    BY <1>4, <1>6
  <2> QED BY ONLY SMTT(60), <1>2, <2>1
<1> HIDE DEF N, D
<1>8. upto[0] = Nothing(total) /\ \A i \in 1..N : upto[i] = KeptPart(upto[i - 1], i)
  BY ONLY <1>7 DEF first, part
<1>9. Kept(total) = upto[Len(Kind)] /\ upto[0] = Nothing(total)
      /\ \A i \in 1..Len(Kind) : upto[i] = KeptPart(upto[i - 1], i)
  BY ONLY <1>1, <1>8 DEF N
<1> QED BY ONLY <1>9

\* They divide the memory into numbers of Kbytes.
KeptSet(k) == [need : [1..k -> Nat], left : Int]

LEMMA KeptTypes ==
  ASSUME Sizes, NEW total \in Int, NEW upto, upto[0] = Nothing(total),
         \A i \in 1..Len(Kind) : upto[i] = KeptPart(upto[i - 1], i)
  PROVE  \A i \in 0..Len(Kind) : upto[i] \in KeptSet(i)
<1> DEFINE N == Len(Kind)
           D == [need : Seq(Nat), left : Int]
           F == [k \in 0..N |-> KeptSet(k)]
<1>2. N \in Nat /\ Parts = 1..N
  BY ChainTypes
<1>8. \A i \in 0..N : upto[i] \in F[i]
  <2>1. upto[0] \in F[0]
    BY <1>2 DEF Nothing, KeptSet
  <2>2. \A i \in 1..N : upto[i - 1] \in F[i - 1] => upto[i] \in F[i]
    <3> SUFFICES ASSUME NEW i \in 1..N, upto[i - 1] \in F[i - 1] PROVE upto[i] \in F[i]
      OBVIOUS
    <3>0. F[i - 1] = KeptSet(i - 1) /\ F[i] = KeptSet(i)
      BY <1>2
    <3> HIDE DEF F
    <3> DEFINE p == upto[i - 1]
    <3>1. p.need \in [1..i - 1 -> Nat] /\ p.left \in Int /\ p \in [need : [1..i - 1 -> Nat], left : Int]
      BY <3>0 DEF KeptSet
    <3>2. p.need \in Seq(Nat) /\ Len(p.need) = i - 1 /\ p \in D
      <4>1. p = [need |-> p.need, left |-> p.left]
        BY <3>1
      <4> DEFINE s == p.need
      <4>2. s \in [1..i - 1 -> Nat] /\ i - 1 \in Nat
        BY <3>1
      <4> HIDE DEF s, p
      <4>3. s \in Seq(Nat)
        BY <4>2, SeqDef
      <4>4. Len(s) = i - 1
        BY <4>2, <4>3, LenProperties
      <4> QED BY <3>1, <4>1, <4>3, <4>4 DEF s
    <3>3. KeptOf(p, i) \in Nat
      BY <1>2, <3>1, KeptOfType
    <3>4. Append(p.need, KeptOf(p, i)) \in [1..i -> Nat]
      <4> DEFINE s == p.need
                 k == KeptOf(p, i)
      <4>1. s \in Seq(Nat) /\ Len(s) = i - 1 /\ k \in Nat
        BY <3>2, <3>3
      <4> HIDE DEF s, k
      <4>2. Append(s, k) \in Seq(Nat) /\ Len(Append(s, k)) = i
        BY <4>1, AppendProperties
      <4>3. Append(s, k) \in [1..i -> Nat]
        BY <4>2, LenProperties
      <4> QED BY <4>3 DEF s, k
    <3>5. upto[i] = KeptPart(p, i)
      BY <1>2
    <3> HIDE DEF p
    <3> QED BY <3>0, <3>1, <3>3, <3>4, <3>5 DEF KeptPart, KeptSet
  <2> HIDE DEF F
  <2> QED BY ONLY <1>2, <2>1, <2>2, LoopKeeps
<1> QED BY <1>8

LEMMA KeptType ==
  ASSUME Sizes, NEW total \in Int
  PROVE  Kept(total) \in DivSet
<1>1. PICK upto : /\ Kept(total) = upto[Len(Kind)] /\ upto[0] = Nothing(total)
                  /\ \A i \in 1..Len(Kind) : upto[i] = KeptPart(upto[i - 1], i)
  BY KeptSteps
<1>2. upto[Len(Kind)] \in KeptSet(Len(Kind))
  BY <1>1, KeptTypes, ChainTypes
<1> QED BY <1>1, <1>2, ChainTypes DEF KeptSet, DivSet

\* The second takes more from a part that can give it.
GrownOf(limit, p, i) == MinA(p.left, Dword(Least(limit[i], MaxK[i]) - size[i]), AllocUnit(i))
GrownPart(limit, p, i) ==
    IF /\ p.left > 0 /\ ~best[i] /\ p.need[i] < MaxK[i]
       /\ p.need[i] < Least(limit[i], MaxK[i])
    THEN [need |-> [p.need EXCEPT ![i] = @ + GrownOf(limit, p, i)],
          left |-> p.left - GrownOf(limit, p, i)]
    ELSE p

LEMMA GrownOfType ==
  ASSUME Sizes, NEW i \in Parts, NEW p, p.left \in Nat, NEW limit \in [Parts -> Nat]
  PROVE  GrownOf(limit, p, i) \in Nat /\ GrownOf(limit, p, i) < p.left + AllocUnit(i)
<1> DEFINE d == Least(limit[i], MaxK[i]) - size[i]
           a == Least(p.left, Dword(d))
<1>0. size[i] \in Nat /\ MaxK[i] \in Nat /\ limit[i] \in Nat /\ AllocUnit(i) \in Nat \ {0}
  BY ChainTypes DEF Sizes
<1>1. d \in Int /\ AllocUnit(i) \in Nat \ {0}
  BY <1>0 DEF Least
<1>2. GrownOf(limit, p, i) = Adjust(a, AllocUnit(i))
  BY DEF GrownOf, MinA
<1> HIDE DEF d
<1>3. Dword(d) \in Nat
  BY <1>1, WordOf
<1>4. a \in Nat /\ a <= p.left
  BY <1>3 DEF Least
<1> HIDE DEF a
<1>5. Adjust(a, AllocUnit(i)) \in Nat /\ Adjust(a, AllocUnit(i)) < a + AllocUnit(i)
  BY <1>1, <1>4, Rounded
<1> QED BY <1>1, <1>2, <1>4, <1>5

LEMMA GrownSteps ==
  ASSUME Sizes, NEW div \in DivSet, NEW limit \in [Parts -> Nat]
  PROVE  \E upto : /\ Grown(div, limit) = upto[Len(Kind)] /\ upto[0] = div
                   /\ \A i \in 1..Len(Kind) : upto[i] = GrownPart(limit, upto[i - 1], i)
                   /\ \A i \in 0..Len(Kind) : upto[i] \in DivSet
<1> DEFINE N == Len(Kind)
           can_1(i) == Least(limit[i], MaxK[i])
           part(p, i) == GrownPart(limit, p, i)
           G == [i \in 1..N |-> [p \in DivSet |-> part(p, i)]]
           Full(m) == [i \in 0..N |->
              IF i = 0 THEN div
              ELSE LET p == m[i - 1]
                       k == MinA(p.left, Dword(can_1(i) - size[i]), AllocUnit(i))
                   IN IF p.left > 0 /\ ~best[i] /\ p.need[i] < MaxK[i] /\ p.need[i] < can_1(i)
                      THEN [need |-> [p.need EXCEPT ![i] = @ + k], left |-> p.left - k]
                      ELSE p]
           upto == CHOOSE m : m = Full(m)
<1>1. Grown(div, limit) = upto[N]
  BY DEF Grown
<1>2. N \in Nat /\ Parts = 1..N
  BY ChainTypes
<1>3. \A i \in 1..N : \A p \in DivSet : part(p, i) \in DivSet
  <2> SUFFICES ASSUME NEW i \in 1..N, NEW p \in DivSet PROVE part(p, i) \in DivSet
    OBVIOUS
  <2>1. p.left \in Int /\ p.need \in [1..N -> Nat] /\ p.need[i] \in Nat
    BY <1>2 DEF DivSet
  <2>2. p.left > 0 => GrownOf(limit, p, i) \in Nat
    BY <1>2, <2>1, GrownOfType
  <2> QED BY SMTT(30), <1>2, <2>1, <2>2 DEF DivSet, GrownPart
<1>4. \A m : Full(m) = [k \in 0..N |-> IF k = 0 THEN div ELSE part(m[k - 1], k)]
  BY DEF GrownPart, GrownOf
<1> HIDE DEF part, Full
<1>5. \E m : m = Full(m)
  <2>1. G \in [1..N -> [DivSet -> DivSet]]
    BY <1>3
  <2>2. \A k \in 1..N : \A p \in DivSet : G[k][p] = part(p, k)
    OBVIOUS
  <2> HIDE DEF G
  <2>3. PICK m \in [0..N -> DivSet] : Loop(m, N, div, G)
    <3> HIDE DEF N
    <3> QED BY ONLY <1>2, <2>1, div \in DivSet, LoopEnds
  <2>4. \A k \in 0..N : m[k] = IF k = 0 THEN div ELSE part(m[k - 1], k)
    <3> SUFFICES ASSUME NEW k \in 0..N, k # 0 PROVE m[k] = part(m[k - 1], k)
      BY <2>3 DEF Loop
    <3>1. k \in 1..N /\ k - 1 \in 0..N
      BY <1>2
    <3>2. m[k - 1] \in DivSet
      BY <3>1
    <3> QED BY <2>2, <2>3, <3>1, <3>2 DEF Loop
  <2>5. m = [k \in 0..N |-> m[k]]
    OBVIOUS
  <2>6. m = [k \in 0..N |-> IF k = 0 THEN div ELSE part(m[k - 1], k)]
    BY ONLY <2>4, <2>5
  <2> QED BY <1>4, <2>6
<1> HIDE DEF G
<1>6. upto = Full(upto)
  BY <1>5
<1> HIDE DEF upto
<1>7. upto = [k \in 0..N |-> IF k = 0 THEN div ELSE part(upto[k - 1], k)]
  BY <1>4, <1>6
<1>8. upto[0] = div /\ \A i \in 1..N : upto[i] = part(upto[i - 1], i)
  BY ONLY <1>2, <1>7
<1>9. \A k \in 0..N : upto[k] \in DivSet
  <2>1. upto[0] \in DivSet /\ \A i \in 1..N : upto[i - 1] \in DivSet => upto[i] \in DivSet
    BY <1>3, <1>8
  <2> HIDE DEF N
  <2> QED BY ONLY <1>2, <2>1, LoopStays
<1> QED BY <1>1, <1>8, <1>9 DEF part

LEMMA GrownType ==
  ASSUME Sizes, NEW div \in DivSet, NEW limit \in [Parts -> Nat]
  PROVE  Grown(div, limit) \in DivSet
  BY GrownSteps, ChainTypes

\* The third gives back what rounding took too much, going round the parts.
ShrunkPart(p, i) ==
    LET k == (-p.left) \div AllocUnit(i) IN
    IF AllocUnit(i) < -p.left
    THEN [need |-> [p.need EXCEPT ![i] = Dword(@ - k)], left |-> p.left + k]
    ELSE p
PartAt(n) == ((n - 1) % Len(Kind)) + 1

LEMMA ShrunkSteps ==
  ASSUME NEW div \in DivSet
  PROVE  \E N \in Nat : \E after :
             /\ Shrunk(div) = after[N] /\ after[0] = div
             /\ \A n \in 1..N : after[n] = ShrunkPart(after[n - 1], PartAt(n)) /\ PartAt(n) \in Parts
             /\ \A n \in 0..N : after[n] \in DivSet
<1> DEFINE N == Len(Kind) * Most(0, -div.left)
           visit_1(p, i) == ShrunkPart(p, i)
           at(n) == PartAt(n)
           part(p, n) == visit_1(p, at(n))
           G == [i \in 1..N |-> [p \in DivSet |-> part(p, i)]]
           Full(m) == [n \in 0..N |->
              IF n = 0 THEN div
              ELSE Once(LAMBDA p : visit_1(p, at(n)), m[n - 1])]
           after == CHOOSE m : m = Full(m)
<1>1. Shrunk(div) = after[N]
  BY DEF Shrunk, ShrunkPart, PartAt
<1>2. N \in Nat
  <2>1. div.left \in Int
    BY DEF DivSet
  <2>2. Most(0, -div.left) \in Nat
    BY <2>1 DEF Most
  <2> QED BY <2>2, ChainTypes
<1>10. \A n \in 1..N : at(n) \in Parts
  <2> SUFFICES ASSUME NEW n \in 1..N PROVE at(n) \in Parts
    OBVIOUS
  <2> HIDE DEF N
  <2>1. n - 1 \in Int
    BY <1>2
  <2> QED BY <2>1, ChainTypes DEF PartAt
<1>3. \A n \in 1..N : \A p \in DivSet : part(p, n) \in DivSet
  <2> SUFFICES ASSUME NEW n \in 1..N, NEW p \in DivSet PROVE part(p, n) \in DivSet
    OBVIOUS
  <2>1. at(n) \in Parts
    BY <1>10
  <2> DEFINE i == at(n)
  <2>2. i \in Parts /\ AllocUnit(i) \in Nat \ {0}
    BY <2>1, ChainTypes
  <2>3. part(p, n) = visit_1(p, i)
    OBVIOUS
  <2> HIDE DEF i, at
  <2>4. p.left \in Int /\ p.need \in [Parts -> Nat] /\ p.need[i] \in Nat
    BY <2>2 DEF DivSet
  <2> DEFINE k == (-p.left) \div AllocUnit(i)
  <2>5. k \in Int
    BY <2>2, <2>4
  <2> HIDE DEF k
  <2>6. Dword(p.need[i] - k) \in Nat
    <3> DEFINE d == p.need[i] - k
    <3>1. d \in Int
      BY <2>4, <2>5
    <3> HIDE DEF d
    <3>2. Dword(d) \in Nat
      BY <3>1, WordOf
    <3> QED BY <3>2 DEF d
  <2>7. [need |-> [p.need EXCEPT ![i] = Dword(@ - k)], left |-> p.left + k] \in DivSet
    BY <2>2, <2>4, <2>5, <2>6 DEF DivSet
  <2> QED BY <2>3, <2>7 DEF k, ShrunkPart
<1>4. \A m : Full(m) = [k \in 0..N |-> IF k = 0 THEN div ELSE part(m[k - 1], k)]
  BY DEF Once
<1> HIDE DEF part, Full
<1>5. \E m : m = Full(m)
  <2>1. G \in [1..N -> [DivSet -> DivSet]]
    BY <1>3
  <2>2. \A k \in 1..N : \A p \in DivSet : G[k][p] = part(p, k)
    OBVIOUS
  <2> HIDE DEF G, N
  <2>3. PICK m \in [0..N -> DivSet] : Loop(m, N, div, G)
    BY ONLY <1>2, <2>1, div \in DivSet, LoopEnds
  <2>4. \A k \in 0..N : m[k] = IF k = 0 THEN div ELSE part(m[k - 1], k)
    <3> SUFFICES ASSUME NEW k \in 0..N, k # 0 PROVE m[k] = part(m[k - 1], k)
      BY <2>3 DEF Loop
    <3>1. k \in 1..N /\ k - 1 \in 0..N
      BY <1>2
    <3>2. m[k - 1] \in DivSet
      BY <3>1
    <3> QED BY <2>2, <2>3, <3>1, <3>2 DEF Loop
  <2>5. m = [k \in 0..N |-> m[k]]
    OBVIOUS
  <2>6. m = [k \in 0..N |-> IF k = 0 THEN div ELSE part(m[k - 1], k)]
    BY ONLY <2>4, <2>5
  <2> QED BY <1>4, <2>6
<1> HIDE DEF G
<1>6. after = Full(after)
  BY <1>5
<1> HIDE DEF after
<1>7. after = [k \in 0..N |-> IF k = 0 THEN div ELSE part(after[k - 1], k)]
  BY <1>4, <1>6
<1> HIDE DEF N
<1>8. after[0] = div /\ \A i \in 1..N : after[i] = part(after[i - 1], i)
  BY ONLY <1>2, <1>7
<1>9. \A k \in 0..N : after[k] \in DivSet
  <2>1. after[0] \in DivSet /\ \A i \in 1..N : after[i - 1] \in DivSet => after[i] \in DivSet
    BY <1>3, <1>8
  <2> QED BY ONLY <1>2, <2>1, LoopStays
<1>11. \A i \in 1..N : after[i] = ShrunkPart(after[i - 1], PartAt(i)) /\ PartAt(i) \in Parts
  BY <1>8, <1>10 DEF part
<1> QED BY <1>1, <1>2, <1>8, <1>9, <1>11

LEMMA ShrunkType ==
  ASSUME NEW div \in DivSet
  PROVE  Shrunk(div) \in DivSet
  BY ShrunkSteps

\* calc_alloc asks each part for a natural number of Kbytes.
LEMMA CalcType ==
  ASSUME Sizes, NEW total \in Int
  PROVE  CalcAlloc(total) \in DivSet
<1>1. \A i \in Parts : size[i] \in Nat /\ free[Kind[i]] \in Nat /\ free["xms"] \in Nat /\ free["ems"] \in Nat
  BY ChainTypes DEF Sizes, Pools
<1>2. [i \in Parts |-> SafeSize(i)] \in [Parts -> Nat]
  BY <1>1 DEF SafeSize, Most
<1>3. [i \in Parts |-> MaxSize(i)] \in [Parts -> Nat]
  BY <1>1 DEF MaxSize
<1>4. Kept(total) \in DivSet
  BY KeptType
<1> DEFINE s == [i \in Parts |-> SafeSize(i)]
           x == [i \in Parts |-> MaxSize(i)]
<1>5. Grown(Kept(total), s) \in DivSet /\ Grown(Kept(total), x) \in DivSet
  <2> HIDE DEF s, x
  <2> QED BY <1>2, <1>3, <1>4, GrownType DEF s, x
<1>6. CalcAlloc(total) = Shrunk(IF Grown(Kept(total), s).left > 0 THEN Grown(Kept(total), x)
                                ELSE Grown(Kept(total), s))
  BY DEF CalcAlloc
<1> QED BY <1>5, <1>6, ShrunkType

-----------------------------------------------------------------------------
\* What a memory manager and physical_alloc make of a request.

\* A block is made as long as it is asked to be.
LEMMA ResizedHolds ==
  ASSUME NEW b, NEW n \in Nat
  PROVE  IsSeq(Resized(b, n)) /\ Len(Resized(b, n)) = n
<1> DEFINE r == Resized(b, n)
<1>1. Holds(r, n)
  BY DEF Holds, Resized
<1> HIDE DEF r
<1>2. IsSeq(r) /\ Len(r) = n
  BY <1>1, Length
<1> QED BY <1>2 DEF r

\* An answer that the block behind it holds, paid for from what was free.
Fair(i, o) ==
    /\ IsSeq(o.mem) /\ o.answer \in Nat /\ o.answer <= Len(o.mem)
    /\ o.taken \in Int /\ o.taken <= free[Kind[i]]

LEMMA OutcomeFair ==
  ASSUME NEW i, NEW m, NEW t \in Int, NEW a \in Nat, IsSeq(m), a <= Len(m), t <= free[Kind[i]]
  PROVE  Fair(i, Outcome(m, t, a))
  BY DEF Fair, Outcome

LEMMA Shape ==
  ASSUME NEW m, NEW t, NEW a
  PROVE  Outcome(m, t, a).mem = m /\ Outcome(m, t, a).taken = t /\ Outcome(m, t, a).answer = a
  BY DEF Outcome

\* A manager that only refuses to grow a block leaves at least what it had; when
\* the driver then helps itself, the new block is larger than the answer.
LEMMA RequestFair ==
  ASSUME NEW i \in Parts, Sizes, "shrink" \notin Refusals,
         NEW b, IsSeq(b), size[i] <= Len(b), NEW request \in Nat,
         NEW o \in PhysicalAlloc(i, b, request)
  PROVE  Fair(i, o)
<1> DEFINE n == Adjust(request, AllocUnit(i))
           more == n - Len(b)
           pool == free[Kind[i]]
<1>1. n \in Nat /\ Len(b) \in Nat /\ more \in Int /\ pool \in Nat /\ size[i] \in Nat
  <2>1. AllocUnit(i) \in Nat \ {0} /\ Kind[i] \in Pools
    BY ChainTypes
  <2>2. n \in Nat
    BY <2>1, Rounded
  <2> HIDE DEF n
  <2>3. Len(b) \in Nat
    BY BlockLen
  <2>4. pool \in Nat /\ size[i] \in Nat
    BY <2>1 DEF Sizes
  <2> QED BY <2>2, <2>3, <2>4
<1>2. IsSeq(<<>>) /\ Len(<<>>) = 0
  <2>1. Holds(<<>>, 0)
    BY DEF Holds
  <2> QED BY <2>1, Length
<1> HIDE DEF n
<1>3. CASE b = <<>>
  <2>1. \/ n = 0 /\ o = Outcome(<<>>, 0, size[i])
        \/ n <= pool /\ o = Outcome(Resized(<<>>, n), n, n)
        \/ o = Outcome(<<>>, 0, 0)
    BY <1>3 DEF PhysicalAlloc, n
  <2>2. Len(b) = 0
    BY <1>2, <1>3
  <2>3. IsSeq(Resized(<<>>, n)) /\ Len(Resized(<<>>, n)) = n
    BY <1>1, ResizedHolds
  <2> QED BY <1>1, <1>2, <2>1, <2>2, <2>3, OutcomeFair
<1>4. CASE b # <<>> /\ request = 0
  <2>1. o = Outcome(<<>>, -Len(b), 0)
    BY <1>4 DEF PhysicalAlloc
  <2>2. -Len(b) \in Int /\ -Len(b) <= pool
    BY <1>1
  <2> QED BY <1>1, <1>2, <2>1, <2>2, OutcomeFair
<1>5. CASE b # <<>> /\ request # 0
  <2>1. PICK q \in Realloc(i, b, request) :
          o \in IF q.answer # request /\ request <= pool - q.taken
                THEN WithoutManager(i, q, request) ELSE {q}
    BY <1>5 DEF PhysicalAlloc
  <2>2. \/ more <= pool /\ q = Outcome(Resized(b, n), more, n)
        \/ more > 0 /\ q \in {Outcome(b, 0, Len(b)), Outcome(b, 0, size[i])}
    <3>1. \/ more <= pool /\ q = Outcome(Resized(b, n), more, n)
          \/ /\ more > pool \/ (IF more > 0 THEN "grow" ELSE "shrink") \in Refusals
             /\ q \in {Outcome(b, 0, Len(b)), Outcome(b, 0, size[i])}
      BY DEF Realloc, n
    <3> QED BY <1>1, <3>1
  <2>3. IsSeq(Resized(b, n)) /\ Len(Resized(b, n)) = n
    BY <1>1, ResizedHolds
  <2>4. /\ q.answer \in Nat /\ q.answer <= n /\ q.taken \in Int /\ Len(q.mem) \in Nat
        /\ q.taken <= pool
    BY SMTT(30), <1>1, <2>2, <2>3, Shape
  <2>5. Fair(i, q)
    BY <1>1, <2>2, <2>3, OutcomeFair
  <2>6. CASE o = q
    BY <2>5, <2>6
  <2>7. CASE o # q
    <3> DEFINE copy == Resized(SubSeq(q.mem, 1, Least(q.answer, Len(q.mem))), n)
               cost == q.taken + n - Len(q.mem)
    <3>1. n <= pool - q.taken /\ o = Outcome(copy, cost, q.answer)
      BY <2>1, <2>7 DEF WithoutManager, n
    <3>2. IsSeq(copy) /\ Len(copy) = n
      BY <1>1, ResizedHolds
    <3>3. cost \in Int /\ cost <= pool
      BY SMTT(60), <1>1, <2>4, <3>1
    <3> HIDE DEF copy, cost
    <3>4. Fair(i, Outcome(copy, cost, q.answer))
      BY <2>4, <3>2, <3>3, OutcomeFair
    <3> QED BY <3>1, <3>4
  <2> QED BY <2>6, <2>7
<1> QED BY <1>3, <1>4, <1>5
-----------------------------------------------------------------------------
(***************************************************************************)
(* The invariant.                                                          *)
(***************************************************************************)
FrameSet == [part : Int, first : Int, below : BOOLEAN]
MemOK ==
    /\ Sizes /\ want \in [Parts -> Nat]
    /\ BlocksOK(block) /\ \A p \in Parts : size[p] <= Len(block[p])

ChainOK ==
    /\ MemOK
    /\ goal \in Int /\ saved \in Int /\ stack \in Seq(FrameSet)

FormatSet == [size : Int, fats : Nat, spf : Int, dirs : Int, type : Int, clusters : Int,
              dirStart : Int, system : Int]
PkOK ==
    /\ pk = [n |-> pk.n, out |-> pk.out, start |-> pk.start, prev |-> pk.prev, next |-> pk.next]
    /\ IsSeq(pk.out)

IInv ==
    /\ ChainOK
    /\ f \in FormatSet /\ g \in FormatSet
    /\ last \in Int /\ top \in Int /\ IsSeq(root) /\ PkOK

\* What became of the blocks when one part was given another.
LEMMA Given ==
  ASSUME MemOK, NEW bl, SameSize(bl, block), NEW i \in Parts, NEW o, Fair(i, o)
  PROVE  /\ BlocksOK([bl EXCEPT ![i] = o.mem])
         /\ \A p \in Parts : [size EXCEPT ![i] = o.answer][p] <= Len([bl EXCEPT ![i] = o.mem][p])
         /\ [size EXCEPT ![i] = o.answer] \in [Parts -> Nat]
         /\ [want EXCEPT ![i] = o.answer] \in [Parts -> Nat]
         /\ [free EXCEPT ![Kind[i]] = @ - o.taken] \in [Pools -> Nat]
<1> DEFINE new == [bl EXCEPT ![i] = o.mem]
           m == o.mem
           a == o.answer
<1>1. IsSeq(m) /\ a \in Nat /\ a <= Len(m) /\ o.taken \in Int /\ o.taken <= free[Kind[i]]
  BY DEF Fair
<1>2. bl = [p \in Parts |-> bl[p]] /\ \A p \in Parts : IsSeq(bl[p]) /\ Len(bl[p]) = Len(block[p])
  BY DEF SameSize, BlocksOK
<1>3. new = [p \in Parts |-> IF p = i THEN m ELSE bl[p]]
  BY <1>2
<1>4. new = [p \in Parts |-> new[p]] /\ \A p \in Parts : new[p] = IF p = i THEN m ELSE bl[p]
  BY <1>3
<1> DEFINE s == [size EXCEPT ![i] = a]
<1>5. s \in [Parts -> Nat] /\ [want EXCEPT ![i] = a] \in [Parts -> Nat]
      /\ \A p \in Parts : s[p] = IF p = i THEN a ELSE size[p]
  BY <1>1 DEF MemOK, Sizes
<1>6. [free EXCEPT ![Kind[i]] = @ - o.taken] \in [Pools -> Nat]
  <2>1. Kind[i] \in Pools /\ free \in [Pools -> Nat]
    BY ChainTypes DEF MemOK, Sizes
  <2>2. free[Kind[i]] - o.taken \in Nat
    BY <1>1, <2>1
  <2> QED BY <2>1, <2>2
<1> HIDE DEF new, m, a, s
<1>7. BlocksOK(new)
  BY <1>1, <1>2, <1>4 DEF BlocksOK
<1>8. \A p \in Parts : s[p] <= Len(new[p])
  <2>1. \A p \in Parts : size[p] <= Len(block[p])
    BY DEF MemOK
  <2> QED BY <1>1, <1>2, <1>4, <1>5, <2>1
<1> QED BY <1>5, <1>6, <1>7, <1>8 DEF new, m, a, s
-----------------------------------------------------------------------------
(***************************************************************************)
(* SavingDiskAllocate and AllocPart.                                       *)
(***************************************************************************)
\* Calls and returns of AllocPart.
LEMMA StackOK ==
  ASSUME NEW S, NEW s \in Seq(S)
  PROVE  /\ s # <<>> => Head(s) \in S /\ Tail(s) \in Seq(S)
         /\ \A x \in S : <<x>> \o s \in Seq(S)
         /\ \A x, y \in S : <<x, y>> \o s \in Seq(S)
<1>1. s # <<>> => Head(s) \in S /\ Tail(s) \in Seq(S)
  BY HeadTailProperties
<1>2. \A x \in S : <<x>> \in Seq(S)
  OBVIOUS
<1>3. \A x, y \in S : <<x, y>> \in Seq(S)
  OBVIOUS
<1> QED BY <1>1, <1>2, <1>3, ConcatProperties

LEMMA TopOK ==
  ASSUME ChainOK, Begun
  PROVE  /\ Part \in Parts /\ Top.first \in Int /\ Top \in FrameSet /\ Tail(stack) \in Seq(FrameSet)
         /\ OldEnd \in Int /\ NewEnd \in Int /\ Part \in Int
         /\ size[Part] \in Nat /\ want[Part] \in Nat /\ IsSeq(block[Part])
<1>1. Part \in Parts /\ stack # <<>> /\ stack \in Seq(FrameSet)
  BY DEF Begun, ChainOK
<1>2. Top \in FrameSet /\ Tail(stack) \in Seq(FrameSet)
  BY <1>1, StackOK DEF Top
<1>3. Top.first \in Int /\ Part \in Int
  BY <1>2 DEF FrameSet, Part
<1>4. size[Part] \in Nat /\ want[Part] \in Nat /\ IsSeq(block[Part])
  BY <1>1 DEF ChainOK, MemOK, Sizes, BlocksOK
<1> QED BY <1>1, <1>2, <1>3, <1>4 DEF OldEnd, NewEnd

\* The memory and the numbers that AllocPart works with.
LEMMA MemStays ==
  ASSUME MemOK, UNCHANGED <<block, size, want, free>>
  PROVE  MemOK'
  BY DEF MemOK, Sizes, BlocksOK, IsSeq, Holds

LEMMA FrameOK ==
  ASSUME NEW i \in Int, NEW first \in Int
  PROVE  Frame(i, first) \in FrameSet
  BY DEF Frame, FrameSet

LEMMA GiveUpOK ==
  ASSUME NEW lost, GiveUp(lost)
  PROVE  stack' \in Seq(FrameSet)
  BY DEF GiveUp

\* AllocMem leaves the memory sound, whatever was copied before and after it.
LEMMA MemGiven ==
  ASSUME MemOK, NEW bl, SameSize(bl, block), NEW i \in Parts, NEW o, Fair(i, o), AllocMem(i, o),
         SameSize(block', [bl EXCEPT ![i] = o.mem])
  PROVE  MemOK'
<1>1. /\ BlocksOK([bl EXCEPT ![i] = o.mem])
      /\ \A p \in Parts : [size EXCEPT ![i] = o.answer][p] <= Len([bl EXCEPT ![i] = o.mem][p])
      /\ [size EXCEPT ![i] = o.answer] \in [Parts -> Nat]
      /\ [want EXCEPT ![i] = o.answer] \in [Parts -> Nat]
      /\ [free EXCEPT ![Kind[i]] = @ - o.taken] \in [Pools -> Nat]
  BY Given
<1>2. size' = [size EXCEPT ![i] = o.answer] /\ want' = [want EXCEPT ![i] = o.answer]
      /\ free' = [free EXCEPT ![Kind[i]] = @ - o.taken]
  BY DEF AllocMem
<1>3. BlocksOK(block') /\ \A p \in Parts : Len(block'[p]) = Len([bl EXCEPT ![i] = o.mem][p])
  BY DEF SameSize
<1>4. \A p \in Parts : size'[p] <= Len(block'[p])
  BY <1>1, <1>2, <1>3
<1>5. BlocksOK(block)'
  BY <1>3 DEF BlocksOK, IsSeq, Holds
<1> QED BY <1>1, <1>2, <1>4, <1>5 DEF MemOK, Sizes

\* The steps of SavingDiskAllocate and AllocPart, one by one.
LEMMA CalculateOK ==
  ASSUME ChainOK, Calculate
  PROVE  ChainOK'
<1>1. CASE tries = 3
  BY <1>1, MemStays DEF Calculate, ChainOK
<1>2. CASE tries # 3
  <2> DEFINE div == CalcAlloc(goal)
  <2>1. div \in DivSet
    BY CalcType DEF ChainOK, MemOK
  <2>2. div.need \in [Parts -> Nat]
    BY <2>1 DEF DivSet
  <2>3. want' = div.need
    BY <1>2 DEF Calculate
  <2>4. MemOK'
    BY <2>2, <2>3 DEF Calculate, ChainOK, MemOK, Sizes, BlocksOK, IsSeq, Holds
  <2>5. stack' = stack \/ stack' = <<Frame(1, 0)>>
    BY <1>2 DEF Calculate
  <2>6. stack' \in Seq(FrameSet)
    <3>1. Frame(1, 0) \in FrameSet
      BY FrameOK
    <3>2. <<Frame(1, 0)>> \in Seq(FrameSet)
      BY <3>1
    <3> QED BY <2>5, <3>2 DEF ChainOK
  <2> QED BY <2>4, <2>6 DEF Calculate, ChainOK
<1> QED BY <1>1, <1>2

LEMMA PartKeptOK ==
  ASSUME ChainOK, PartKept
  PROVE  ChainOK'
<1>1. Begun
  BY DEF PartKept
<1>2. stack' \in Seq(FrameSet)
  <2>1. Frame(Part + 1, NewEnd) \in FrameSet
    BY <1>1, TopOK, FrameOK
  <2> QED BY <1>1, <2>1, TopOK, StackOK DEF PartKept
<1>3. MemOK'
  BY MemStays DEF PartKept, ChainOK
<1> QED BY <1>2, <1>3 DEF PartKept, ChainOK

LEMMA PartShrinksOK ==
  ASSUME ChainOK, PartShrinks
  PROVE  ChainOK'
<1>1. Begun
  BY DEF PartShrinks
<1>2. stack' \in Seq(FrameSet)
  <2>1. Frame(Part + 1, OldEnd) \in FrameSet
    BY <1>1, TopOK, FrameOK
  <2>2. [Top EXCEPT !.below = TRUE] \in FrameSet
    BY <1>1, TopOK DEF FrameSet
  <2> QED BY <1>1, <2>1, <2>2, TopOK, StackOK DEF PartShrinks
<1>3. MemOK'
  BY MemStays DEF PartShrinks, ChainOK
<1> QED BY <1>2, <1>3 DEF PartShrinks, ChainOK

LEMMA ChainEndOK ==
  ASSUME ChainOK, ChainEnd
  PROVE  ChainOK'
<1>1. stack' \in Seq(FrameSet)
  BY StackOK DEF ChainEnd, ChainOK
<1>2. MemOK'
  BY MemStays DEF ChainEnd, ChainOK
<1> QED BY <1>1, <1>2 DEF ChainEnd, ChainOK

LEMMA PartExpandsOK ==
  ASSUME ChainOK, PartExpands, "shrink" \notin Refusals
  PROVE  ChainOK'
<1> DEFINE i == Part
<1>1. Begun /\ want[i] > size[i]
  BY DEF PartExpands
<1>2. PICK o \in PhysicalAlloc(i, block[i], want[i]) :
         LET lost == o.answer < size[i]
             to == Top.first + o.answer
             bl == [block EXCEPT ![i] = o.mem]
             sec == [sect EXCEPT ![i] = o.answer]
         IN /\ AllocMem(i, o)
            /\ IF lost
               THEN block' = bl /\ UNCHANGED <<sect, ioerr>>
               ELSE /\ sect' = sec
                    /\ Moved(bl, sec, OldEnd, to, saved - OldEnd)
            /\ IF o.answer = want[i]
               THEN /\ stack' = <<Frame(i + 1, to)>> \o Tail(stack)
                    /\ UNCHANGED <<best, alloc, tries>>
               ELSE /\ best' = [best EXCEPT ![i] = TRUE]
                    /\ GiveUp(lost)
  BY DEF PartExpands
<1>3. /\ i \in Parts /\ i \in Int /\ Top.first \in Int /\ OldEnd \in Int
      /\ want[i] \in Nat /\ IsSeq(block[i]) /\ Tail(stack) \in Seq(FrameSet)
  BY <1>1, TopOK
<1>4. MemOK /\ saved \in Int /\ goal \in Int
  BY DEF ChainOK
<1> HIDE DEF i
<1>5. Fair(i, o)
  <2>1. Sizes /\ size[i] <= Len(block[i])
    BY <1>3, <1>4 DEF MemOK
  <2> QED BY <1>2, <1>3, <2>1, RequestFair
<1> DEFINE to == Top.first + o.answer
           bl == [block EXCEPT ![i] = o.mem]
           sec == [sect EXCEPT ![i] = o.answer]
<1>6. to \in Int
  BY <1>3, <1>5 DEF Fair
<1>7. SameSize(block, block)
  BY <1>4, SameSelf DEF MemOK
<1>8. BlocksOK(bl)
  BY <1>3, <1>4, <1>5, <1>7, Given
<1>9. SameSize(block', bl)
  <2>1. \/ block' = bl
        \/ block' = MoveSectors(bl, sec, OldEnd, to, saved - OldEnd)
    BY <1>2 DEF Moved
  <2>2. saved - OldEnd \in Int
    BY <1>3, <1>4
  <2> HIDE DEF bl, sec, to
  <2> QED BY <1>3, <1>6, <1>8, <2>1, <2>2, SameSelf, MovesKeep
<1>10. MemOK'
  BY <1>2, <1>3, <1>4, <1>5, <1>7, <1>9, MemGiven
<1>11. stack' \in Seq(FrameSet)
  <2>1. CASE o.answer = want[i]
    <3>1. Frame(i + 1, to) \in FrameSet
      BY <1>3, <1>6, FrameOK
    <3> QED BY SMTT(30), <1>2, <1>3, <2>1, <3>1, StackOK
  <2>2. CASE o.answer # want[i]
    <3>1. PICK lost : GiveUp(lost)
      BY <1>2, <2>2
    <3> QED BY <3>1, GiveUpOK
  <2> QED BY <2>1, <2>2
<1> QED BY <1>4, <1>10, <1>11 DEF PartExpands, ChainOK

LEMMA PartShrunkOK ==
  ASSUME ChainOK, PartShrunk, "shrink" \notin Refusals
  PROVE  ChainOK'
<1> DEFINE i == Part
           over == saved - NewEnd
           room == MoveSectors(block, sect, OldEnd, NewEnd, over)
<1>1. Begun
  BY DEF PartShrunk
<1>2. PICK o \in PhysicalAlloc(i, room[i], want[i]) :
            LET bl == [room EXCEPT ![i] = o.mem]
                sec == [sect EXCEPT ![i] = o.answer]
                back == Top.first + o.answer
            IN /\ AllocMem(i, o)
               /\ block' = IF o.answer > want[i]
                           THEN MoveSectors(bl, sec, NewEnd, back, over) ELSE bl
               /\ IF o.answer = want[i]
                  THEN stack' = Tail(stack) /\ UNCHANGED <<alloc, tries>>
                  ELSE GiveUp(o.answer < want[i])
  BY DEF PartShrunk
<1>3. /\ i \in Parts /\ Top.first \in Int /\ OldEnd \in Int /\ NewEnd \in Int
      /\ want[i] \in Nat /\ Tail(stack) \in Seq(FrameSet)
  BY <1>1, TopOK
<1>4. MemOK /\ saved \in Int /\ goal \in Int
  BY DEF ChainOK
<1> HIDE DEF i
<1>5. over \in Int
  BY <1>3, <1>4
<1> HIDE DEF over
<1>6. SameSize(room, block)
  BY <1>3, <1>4, <1>5, MovesKeep DEF MemOK
<1> HIDE DEF room
<1>7. Fair(i, o)
  <2>1. Sizes /\ size[i] <= Len(block[i])
    BY <1>3, <1>4 DEF MemOK
  <2>2. IsSeq(room[i]) /\ Len(room[i]) = Len(block[i])
    BY <1>3, <1>6 DEF SameSize, BlocksOK
  <2>3. size[i] <= Len(room[i])
    BY <2>1, <2>2
  <2> QED BY <1>2, <1>3, <2>1, <2>2, <2>3, RequestFair
<1> DEFINE back == Top.first + o.answer
           bl == [room EXCEPT ![i] = o.mem]
           sec == [sect EXCEPT ![i] = o.answer]
<1>8. back \in Int
  BY <1>3, <1>7 DEF Fair
<1>9. BlocksOK(bl)
  BY <1>3, <1>4, <1>6, <1>7, Given
<1>10. SameSize(block', bl)
  <2>1. \/ block' = bl
        \/ block' = MoveSectors(bl, sec, NewEnd, back, over)
    BY <1>2
  <2> HIDE DEF bl, sec, back
  <2> QED BY <1>3, <1>5, <1>8, <1>9, <2>1, SameSelf, MovesKeep
<1>11. MemOK'
  BY <1>2, <1>3, <1>4, <1>6, <1>7, <1>10, MemGiven
<1>12. stack' \in Seq(FrameSet)
  <2>1. CASE o.answer = want[i]
    BY <1>2, <1>3, <2>1
  <2>2. CASE o.answer # want[i]
    <3>1. PICK lost : GiveUp(lost)
      BY <1>2, <2>2
    <3> QED BY <3>1, GiveUpOK
  <2> QED BY <2>1, <2>2
<1> QED BY <1>4, <1>11, <1>12 DEF PartShrunk, ChainOK

LEMMA AllocStepOK ==
  ASSUME ChainOK, AllocStep, "shrink" \notin Refusals
  PROVE  ChainOK'
<1>1. CASE Allocated
  BY <1>1, MemStays DEF Allocated, ChainOK
<1> QED BY <1>1, CalculateOK, PartKeptOK, PartExpandsOK, PartShrinksOK, PartShrunkOK, ChainEndOK
        DEF AllocStep
-----------------------------------------------------------------------------
(***************************************************************************)
(* Formats and numbers.                                                    *)
(***************************************************************************)
LEMMA Consts ==
  /\ SectorBits \in Nat \ {0} /\ PerDir \in Nat \ {0} /\ Word16 \in Nat \ {0}
  /\ Max12 \in Nat \ {0} /\ Min16 \in Nat \ {0}
  /\ Disks \subseteq [size : Nat, fats : Nat, dirs : Nat]
  BY ResizeAssumption

LEMMA Products ==
  ASSUME NEW a \in Int, NEW b \in Int
  PROVE  a * b \in Int /\ (a >= 0 /\ b >= 0 => a * b >= 0)
  OBVIOUS

LEMMA CeilType ==
  ASSUME NEW a \in Int, NEW b \in Nat \ {0}
  PROVE  CeilDiv(a, b) \in Int
  BY DEF CeilDiv

LEMMA FatForType ==
  ASSUME NEW data \in Int, NEW fats \in Nat, NEW type \in {12, 16}
  PROVE  FatFor(data, fats, type) \in Int
<1> DEFINE b == SectorBits + fats * type
           a == (data + 2) * type
<1>1. b \in Nat \ {0}
  BY Consts
<1>2. a \in Int
  OBVIOUS
<1>3. FatFor(data, fats, type) = CeilDiv(a, b)
  BY DEF FatFor
<1> HIDE DEF a, b
<1> QED BY <1>1, <1>2, <1>3, CeilType

LEMMA ClustersForType ==
  ASSUME NEW data \in Int, NEW fats \in Nat, NEW type \in {12, 16}
  PROVE  ClustersFor(data, fats, type) \in Int
<1> DEFINE n == FatFor(data, fats, type)
<1>1. n \in Int
  BY FatForType
<1>2. ClustersFor(data, fats, type) = Most(0, data - fats * n)
  BY DEF ClustersFor
<1> HIDE DEF n
<1>3. fats * n \in Int
  BY <1>1, Products
<1> QED BY <1>2, <1>3 DEF Most

\* A new format consists of numbers.
LEMMA FormatType ==
  ASSUME NEW d \in Disks, NEW dirs \in Int
  PROVE  MakeNewf(d, dirs) \in FormatSet
<1> DEFINE data == Most(0, d.size - Reserved - dirs)
           c12 == ClustersFor(data, d.fats, 12)
           c16 == ClustersFor(data, d.fats, 16)
           type == IF c12 > Max12 /\ c16 > Min16 THEN 16 ELSE 12
           clusters == IF type = 16 THEN c16 ELSE Least(c12, Max12)
           spf == FatFor(data, d.fats, type)
           dirStart == Reserved + d.fats * spf
<1>1. d.size \in Nat /\ d.fats \in Nat
  BY Consts
<1>2. data \in Int
  BY <1>1 DEF Most, Reserved
<1> HIDE DEF data
<1>3. c12 \in Int /\ c16 \in Int
  BY <1>1, <1>2, ClustersForType
<1> HIDE DEF c12, c16
<1>4. type \in {12, 16}
  OBVIOUS
<1>5. clusters \in Int
  BY <1>3, Consts DEF Least
<1> HIDE DEF type
<1>6. spf \in Int
  BY <1>1, <1>2, <1>4, FatForType
<1> HIDE DEF clusters, spf
<1>7. d.fats * spf \in Int
  BY <1>1, <1>6, Products
<1>8. dirStart \in Int
  BY <1>7 DEF Reserved
<1> HIDE DEF dirStart
<1>9. MakeNewf(d, dirs) =
        [size |-> dirStart + dirs + clusters, fats |-> d.fats, spf |-> spf,
         dirs |-> dirs, type |-> type, clusters |-> clusters,
         dirStart |-> dirStart, system |-> dirStart + dirs]
  BY DEF MakeNewf, data, c12, c16, type, clusters, spf, dirStart
<1> QED BY <1>1, <1>4, <1>5, <1>6, <1>8, <1>9 DEF FormatSet

LEMMA SectorType ==
  ASSUME NEW fmt \in FormatSet, NEW c \in Int
  PROVE  ClusterToSector(fmt, c) \in Int
<1>1. fmt.system \in Int
  BY DEF FormatSet
<1>2. (c - 2) % Word16 \in Int
  BY Consts
<1> QED BY <1>1, <1>2 DEF ClusterToSector

\* A part of an interval has a size, and a last member or none.
LEMMA PartOfInterval ==
  ASSUME NEW a \in Int, NEW b \in Int, NEW S, S \subseteq a..b
  PROVE  Cardinality(S) \in Nat
  BY FS_Interval, FS_Subset, FS_CardinalityType

\* The last used cluster is a number.
LEMMA HighestIs ==
  ASSUME NEW b \in Int, NEW S, S \subseteq 2..b
  PROVE  Highest(S) \in Int /\ Highest(S) \in S \union {0}
<1>1. \A c \in S : c \in Int /\ c <= b
  OBVIOUS
<1>2. \E c \in S \union {0} : \A d \in S : c >= d
  <2>1. CASE S = {}
    BY <2>1
  <2>2. CASE S # {}
    <3> DEFINE T == {b - c : c \in S}
    <3>1. T \in SUBSET Nat
      <4>1. \A t \in T : t \in Nat
        <5> SUFFICES ASSUME NEW c \in S PROVE b - c \in Nat
          OBVIOUS
        <5> QED BY <1>1
      <4> HIDE DEF T
      <4> QED BY <4>1
    <3>2. T # {}
      BY <2>2
    <3> HIDE DEF T
    <3>3. PICK m \in T : \A n \in T : m <= n
      BY <3>1, <3>2, Smallest
    <3>4. PICK c \in S : m = b - c
      BY DEF T
    <3>5. ASSUME NEW d \in S PROVE c >= d
      <4>1. b - d \in T
        BY DEF T
      <4>2. m <= b - d
        BY <3>3, <4>1
      <4>3. c \in Int /\ d \in Int
        BY <1>1
      <4> QED BY <3>4, <4>2, <4>3
    <3> QED BY <3>5
  <2> QED BY <2>1, <2>2
<1>3. Highest(S) \in S \union {0}
  BY <1>2 DEF Highest
<1> DEFINE h == Highest(S)
<1>4. h \in S \/ h = 0
  BY <1>3
<1> HIDE DEF h
<1>5. h \in Int
  BY ONLY <1>1, <1>4
<1> QED BY <1>3, <1>5 DEF h

LEMMA UsedTypes ==
  ASSUME f \in FormatSet
  PROVE  Cardinality(UsedClusters(f)) \in Nat /\ Highest(UsedClusters(f)) \in Int
<1> DEFINE S == UsedClusters(f)
           b == f.clusters + 1
<1>1. b \in Int
  BY DEF FormatSet
<1>2. S \subseteq 2..b
  BY DEF UsedClusters, Clusters
<1> HIDE DEF S, b
<1>3. Cardinality(S) \in Nat
  BY ONLY <1>1, <1>2, 2 \in Int, PartOfInterval
<1>4. Highest(S) \in Int
  BY ONLY <1>1, <1>2, HighestIs
<1> QED BY <1>3, <1>4 DEF S

LEMMA DirsType ==
  ASSUME NEW d \in Disks, IsSeq(root)
  PROVE  DirsFor(d) \in Int
<1> DEFINE S == {n \in DOMAIN root : ~root[n].gone}
<1>1. PICK n \in Nat : Holds(root, n)
  BY DEF IsSeq
<1>2. DOMAIN root = 1..n
  BY <1>1 DEF Holds
<1>3. S \subseteq 1..n
  BY <1>2
<1> HIDE DEF S
<1>4. Cardinality(S) \in Nat
  BY ONLY <1>3, n \in Nat, 1 \in Int, n \in Int, PartOfInterval
<1>5. CeilDiv(Cardinality(S), PerDir) \in Int
  BY <1>4, Consts, CeilType
<1>6. d.dirs \in Int
  BY Consts
<1>7. DirsFor(d) = Most(d.dirs, CeilDiv(Cardinality(S), PerDir))
  BY DEF DirsFor, S
<1> QED BY <1>5, <1>6, <1>7 DEF Most

\* packdata appends to a sequence.
LEMMA Appended ==
  ASSUME NEW b, IsSeq(b), NEW x
  PROVE  IsSeq(Append(b, x))
<1>1. PICK n \in Nat : Holds(b, n)
  BY DEF IsSeq
<1> DEFINE S == {b[k] : k \in 1..n} \union {x}
<1>2. b \in [1..n -> S] /\ x \in S
  BY <1>1 DEF Holds
<1> HIDE DEF S
<1>3. b \in Seq(S)
  BY <1>2, SeqDef
<1>4. Append(b, x) \in Seq(S)
  BY <1>2, <1>3, AppendProperties
<1>5. Len(Append(b, x)) \in Nat /\ Append(b, x) \in [1..Len(Append(b, x)) -> S]
  BY <1>4, LenProperties
<1> DEFINE s == Append(b, x)
<1> HIDE DEF s
<1>6. Holds(s, Len(s))
  BY <1>5 DEF Holds, s
<1> QED BY <1>5, <1>6 DEF IsSeq, s
-----------------------------------------------------------------------------
(***************************************************************************)
(* The steps of the resizer.                                               *)
(***************************************************************************)
LEMMA StartsWell == Init => IInv
<1> SUFFICES ASSUME Init PROVE IInv
  OBVIOUS
<1>1. PICK d \in Disks, dir \in Layouts, split \in Splits, left \in FreeMem :
      LET fmt == MakeNewf(d, d.dirs) IN
      /\ f = fmt /\ g = fmt
      /\ root = [n \in DOMAIN dir |-> FileOf(dir[n])]
      /\ size = split /\ want = split
      /\ block = [p \in Parts |-> [k \in 1..split[p] |->
                     LET s == FirstOf(split, p) + k - 1 IN
                     IF s < fmt.size THEN Image(fmt, dir)[s] ELSE Junk]]
      /\ free = left
      /\ goal = fmt.size /\ saved = 0 /\ stack = <<>>
      /\ last = 0 /\ top = 0 /\ pk = NoFile
  BY DEF Init
<1>2. split \in [Parts -> Nat] /\ left \in [Pools -> Nat] /\ dir \in Seq(ToSet(dir))
  BY ResizeAssumption DEF Parts
<1>3. MakeNewf(d, d.dirs) \in FormatSet
  <2>1. d.dirs \in Int
    BY Consts
  <2> QED BY <2>1, FormatType
<1>4. f \in FormatSet /\ g \in FormatSet /\ goal \in Int
  BY <1>1, <1>3 DEF FormatSet
<1>5. Sizes /\ want \in [Parts -> Nat]
  BY <1>1, <1>2 DEF Sizes
<1>6. \A p \in Parts : Holds(block[p], size[p])
  BY <1>1, <1>2 DEF Holds
<1>7. block = [p \in Parts |-> block[p]]
  BY <1>1
<1>8. BlocksOK(block) /\ \A p \in Parts : size[p] <= Len(block[p])
  <2>1. \A p \in Parts : IsSeq(block[p]) /\ Len(block[p]) = size[p] /\ size[p] \in Nat
    BY <1>5, <1>6, Length DEF Sizes
  <2> QED BY <1>7, <2>1 DEF BlocksOK
<1>9. IsSeq(root)
  <2>1. DOMAIN dir = 1..Len(dir) /\ Len(dir) \in Nat
    BY <1>2, LenProperties
  <2>2. Holds(root, Len(dir))
    BY <1>1, <2>1 DEF Holds
  <2> QED BY <2>1, <2>2 DEF IsSeq
<1>10. PkOK
  <2>1. pk = NoFile
    BY <1>1
  <2>2. Holds(<<>>, 0)
    BY DEF Holds
  <2>3. IsSeq(<<>>)
    BY <2>2 DEF IsSeq
  <2> QED BY <2>1, <2>3 DEF PkOK, NoFile
<1>11. saved \in Int /\ stack \in Seq(FrameSet) /\ last \in Int /\ top \in Int
  BY <1>1
<1> QED BY <1>4, <1>5, <1>8, <1>9, <1>10, <1>11 DEF IInv, ChainOK, MemOK

\* Steps that leave the memory, or only write sectors of it.
LEMMA ChainStays ==
  ASSUME ChainOK, UNCHANGED <<block, size, want, free, goal, saved, stack>>
  PROVE  ChainOK'
<1>1. MemOK'
  BY MemStays DEF ChainOK
<1> QED BY <1>1 DEF ChainOK

LEMMA ChainWritten ==
  ASSUME ChainOK, SameSize(block', block), UNCHANGED <<size, want, free, goal, saved, stack>>
  PROVE  ChainOK'
<1>1. BlocksOK(block') /\ \A p \in Parts : Len(block'[p]) = Len(block[p])
  BY DEF SameSize
<1>2. BlocksOK(block)'
  BY <1>1 DEF BlocksOK, IsSeq, Holds
<1>3. \A p \in Parts : size[p] <= Len(block'[p])
  BY <1>1 DEF ChainOK, MemOK
<1> QED BY <1>2, <1>3 DEF ChainOK, MemOK, Sizes

\* What is not memory.
RestOK ==
    /\ f \in FormatSet /\ g \in FormatSet
    /\ last \in Int /\ top \in Int /\ IsSeq(root) /\ PkOK

LEMMA RestStays ==
  ASSUME RestOK, UNCHANGED <<f, g, last, top, root, pk>>
  PROVE  RestOK'
  BY DEF RestOK, PkOK, IsSeq, Holds

LEMMA Parted == IInv <=> ChainOK /\ RestOK
  BY DEF IInv, RestOK

LEMMA NumbersOf ==
  ASSUME RestOK
  PROVE  /\ f.size \in Int /\ f.system \in Int /\ f.dirStart \in Int /\ f.dirs \in Int
         /\ g.size \in Int /\ g.system \in Int /\ g.dirStart \in Int /\ g.dirs \in Int
         /\ Used \in Int /\ Data \in Int
<1>1. f \in FormatSet /\ g \in FormatSet /\ last \in Int
  BY DEF RestOK
<1>2. last + 1 \in Int
  BY <1>1
<1>3. Used \in Int
  BY <1>1, <1>2, SectorType DEF Used
<1>4. Data \in Int
  <2> DEFINE x == last - 1
  <2>1. x \in Int
    BY <1>1
  <2> HIDE DEF x
  <2>2. x % Word16 \in Int
    BY <2>1, Consts
  <2> QED BY <2>2 DEF Data, x
<1> QED BY <1>1, <1>3, <1>4 DEF FormatSet

LEMMA FormatDiskOK ==
  ASSUME IInv, FormatDisk
  PROVE  IInv'
<1>1. ChainOK'
  BY ChainStays DEF FormatDisk, IInv
<1>2. PICK d \in Disks : g' = MakeNewf(d, DirsFor(d))
  BY DEF FormatDisk
<1>3. g' \in FormatSet
  <2>1. DirsFor(d) \in Int
    BY DirsType DEF IInv
  <2> QED BY <1>2, <2>1, FormatType
<1>4. PkOK' /\ IsSeq(root)'
  BY DEF FormatDisk, packVars, IInv, PkOK, IsSeq, Holds
<1> QED BY <1>1, <1>3, <1>4 DEF FormatDisk, packVars, IInv

LEMMA ResizeOK ==
  ASSUME IInv, Resize
  PROVE  IInv'
<1>1. ChainOK'
  BY ChainStays DEF Resize, chainVars, memVars, IInv
<1> DEFINE used == Cardinality(UsedClusters(f))
<1>2. used \in Nat /\ Highest(UsedClusters(f)) \in Int
  BY UsedTypes DEF IInv
<1>3. last' = Highest(UsedClusters(f))
  BY DEF Resize
<1>4. \/ UNCHANGED <<top, pk>>
      \/ top' = used + 1 /\ pk' = [NoFile EXCEPT !.n = 1]
  BY DEF Resize
<1>5. top' \in Int
  BY <1>2, <1>4 DEF IInv
<1>6. PkOK'
  <2>1. CASE UNCHANGED pk
    BY <2>1 DEF IInv, PkOK, IsSeq, Holds
  <2>2. CASE pk' = [NoFile EXCEPT !.n = 1]
    <3>1. pk' = [n |-> 1, out |-> <<>>, start |-> 0, prev |-> 0, next |-> 0]
      BY <2>2 DEF NoFile
    <3>2. Holds(<<>>, 0)
      BY DEF Holds
    <3>3. IsSeq(<<>>)
      BY <3>2 DEF IsSeq
    <3> QED BY <3>1, <3>3 DEF PkOK, IsSeq, Holds
  <2> QED BY <1>4, <2>1, <2>2
<1>7. UNCHANGED <<f, g, root>>
  BY DEF Resize, formatVars
<1> QED BY <1>1, <1>2, <1>3, <1>5, <1>6, <1>7 DEF IInv, IsSeq, Holds

\* The steps of Resize and FixFAT.
LEMMA MoveOnOK ==
  ASSUME IInv, NEW dest \in Int, NEW orig \in Int, NEW number \in Int, NEW to,
         MoveOn(dest, orig, number, to)
  PROVE  IInv'
<1>1. block' = MoveSectors(block, sect, dest, orig, number)
  BY DEF MoveOn, Moved
<1>2. BlocksOK(block)
  BY DEF IInv, ChainOK, MemOK
<1>3. SameSize(block', block)
  BY <1>1, <1>2, MovesKeep
<1>4. ChainOK'
  BY <1>3, ChainWritten DEF MoveOn, memRest, IInv
<1>5. RestOK'
  BY RestStays, Parted DEF MoveOn, formatVars, packVars
<1> QED BY <1>4, <1>5 DEF IInv, RestOK

LEMMA ClustersUpOK ==
  ASSUME IInv, ClustersUp \/ RootDirUp \/ RootDirDown \/ ClustersDown
  PROVE  IInv'
<1>1. /\ f.system \in Int /\ f.dirStart \in Int /\ g.system \in Int /\ g.dirStart \in Int
      /\ g.dirs \in Int /\ Data \in Int
  BY NumbersOf, Parted
<1>2. CASE ClustersUp
  BY <1>1, <1>2, MoveOnOK DEF ClustersUp
<1>3. CASE RootDirUp
  BY <1>1, <1>3, MoveOnOK DEF RootDirUp
<1>4. CASE RootDirDown
  BY <1>1, <1>4, MoveOnOK DEF RootDirDown
<1>5. CASE ClustersDown
  BY <1>1, <1>5, MoveOnOK DEF ClustersDown
<1> QED BY <1>2, <1>3, <1>4, <1>5

LEMMA WriteOK ==
  ASSUME IInv, NEW at, Write(at), UNCHANGED <<size, want, free, goal, saved, stack>>
  PROVE  ChainOK'
<1>1. block' = Put(block, at)
  BY DEF Write
<1>2. BlocksOK(block)
  BY DEF IInv, ChainOK, MemOK
<1>3. SameSize(block', block)
  BY <1>1, <1>2, PutKeeps
<1> QED BY <1>3, ChainWritten DEF IInv

LEMMA SetKeeps ==
  ASSUME NEW bl, BlocksOK(bl), NEW c, NEW to
  PROVE  SameSize(SetNext(bl, c, to), bl)
  BY PutKeeps DEF SetNext

LEMMA RelocateKeeps ==
  ASSUME BlocksOK(block), NEW c, NEW to
  PROVE  SameSize(Relocate(c, to), block)
<1> DEFINE a == Put(block, ClusterToSector(f, to) :> Read(ClusterToSector(f, c)))
<1>1. SameSize(a, block)
  BY PutKeeps
<1>2. BlocksOK(a)
  BY <1>1 DEF SameSize
<1>3. Relocate(c, to) = SetNext(a, c, 0)
  BY DEF Relocate
<1> HIDE DEF a
<1> QED BY <1>1, <1>2, <1>3, SetKeeps, SameAgain

\* packdata.
LEMMA ListedOK ==
  ASSUME PkOK, NEW start, Listed(start)
  PROVE  PkOK'
<1> DEFINE x == [Entry EXCEPT !.start = start]
           s == Append(pk.out, x)
<1>1. pk' = [n |-> pk.n + 1, out |-> s, start |-> 0, prev |-> 0, next |-> 0]
  BY DEF Listed, NoFile
<1>2. IsSeq(s)
  BY Appended DEF PkOK
<1> HIDE DEF s
<1> QED BY <1>1, <1>2 DEF PkOK, IsSeq, Holds

LEMMA PkKept ==
  ASSUME PkOK, NEW n, NEW a, NEW b, NEW c,
         pk' = [n |-> n, out |-> pk.out, start |-> a, prev |-> b, next |-> c]
  PROVE  PkOK'
  BY DEF PkOK, IsSeq, Holds

LEMMA PackSkipsOK ==
  ASSUME IInv, PackSkips
  PROVE  IInv'
<1>1. ChainOK'
  BY ChainStays DEF PackSkips, chainVars, memVars, IInv
<1>2. pk' = [n |-> pk.n + 1, out |-> pk.out, start |-> pk.start, prev |-> pk.prev,
             next |-> pk.next]
  BY DEF PackSkips, IInv, PkOK
<1>3. PkOK'
  BY <1>2, PkKept DEF IInv
<1> QED BY <1>1, <1>3 DEF PackSkips, formatVars, IInv, IsSeq, Holds

LEMMA PackFileOK ==
  ASSUME IInv, PackFile
  PROVE  IInv'
<1> DEFINE c == Entry.start
           next == NextCluster(c)
           begin_1(at) == pk' = [pk EXCEPT !.start = at, !.prev = at, !.next = next]
<1>1. BlocksOK(block) /\ PkOK
  BY DEF IInv, ChainOK, MemOK
<1>2. \/ Listed(0) /\ UNCHANGED block
      \/ \E to : block' = SetNext(Relocate(c, to), to, next) /\ begin_1(to)
      \/ begin_1(c) /\ UNCHANGED block
  BY DEF PackFile
<1>3. SameSize(block', block)
  <2>1. CASE UNCHANGED block
    BY <1>1, <2>1, SameSelf
  <2>2. CASE \E to : block' = SetNext(Relocate(c, to), to, next)
    <3>1. PICK to : block' = SetNext(Relocate(c, to), to, next)
      BY <2>2
    <3> HIDE DEF c, next
    <3>2. SameSize(Relocate(c, to), block)
      BY <1>1, RelocateKeeps
    <3>3. SameSize(block', Relocate(c, to))
      BY <3>1, <3>2, SetKeeps DEF SameSize
    <3> QED BY <3>2, <3>3, SameAgain
  <2> QED BY <1>2, <2>1, <2>2
<1>4. ASSUME NEW at, begin_1(at) PROVE PkOK'
  <2> HIDE DEF c, next
  <2>1. pk' = [n |-> pk.n, out |-> pk.out, start |-> at, prev |-> at, next |-> next]
    BY <1>1, <1>4 DEF PkOK
  <2> QED BY <1>1, <2>1, PkKept
<1>5. PkOK'
  <2> HIDE DEF begin_1
  <2> QED BY <1>1, <1>2, <1>4, ListedOK
<1>6. ChainOK'
  BY <1>3, ChainWritten DEF PackFile, memRest, IInv
<1> QED BY <1>5, <1>6 DEF PackFile, formatVars, IInv, IsSeq, Holds

LEMMA PackChainOK ==
  ASSUME IInv, PackChain
  PROVE  IInv'
<1> DEFINE c == pk.next
           next == NextCluster(c)
           step_1(at) == pk' = [pk EXCEPT !.prev = at, !.next = next]
<1>1. BlocksOK(block) /\ PkOK
  BY DEF IInv, ChainOK, MemOK
<1>2. \/ \E start : Listed(start) /\ UNCHANGED block
      \/ \E to : /\ block' = SetNext(SetNext(Relocate(c, to), to, next), pk.prev, to)
                 /\ step_1(to)
      \/ step_1(c) /\ UNCHANGED block
  BY DEF PackChain
<1>3. SameSize(block', block)
  <2>1. CASE UNCHANGED block
    BY <1>1, <2>1, SameSelf
  <2>2. CASE \E to : block' = SetNext(SetNext(Relocate(c, to), to, next), pk.prev, to)
    <3>1. PICK to : block' = SetNext(SetNext(Relocate(c, to), to, next), pk.prev, to)
      BY <2>2
    <3> HIDE DEF c, next
    <3> DEFINE a == Relocate(c, to)
               b == SetNext(a, to, next)
    <3>2. SameSize(a, block)
      BY <1>1, RelocateKeeps
    <3> HIDE DEF a
    <3>3. SameSize(b, a)
      BY <3>2, SetKeeps DEF SameSize
    <3> HIDE DEF b
    <3>4. block' = SetNext(b, pk.prev, to)
      BY <3>1 DEF a, b
    <3>5. SameSize(block', b)
      BY <3>3, <3>4, SetKeeps DEF SameSize
    <3> QED BY <3>2, <3>3, <3>5, SameAgain
  <2> QED BY <1>2, <2>1, <2>2
<1>4. ASSUME NEW at, step_1(at) PROVE PkOK'
  <2> HIDE DEF c, next
  <2>1. pk' = [n |-> pk.n, out |-> pk.out, start |-> pk.start, prev |-> at, next |-> next]
    BY <1>1, <1>4 DEF PkOK
  <2> QED BY <1>1, <2>1, PkKept
<1>5. PkOK'
  <2> HIDE DEF step_1
  <2> QED BY <1>1, <1>2, <1>4, ListedOK
<1>6. ChainOK'
  BY <1>3, ChainWritten DEF PackChain, memRest, IInv
<1> QED BY <1>5, <1>6 DEF PackChain, formatVars, IInv, IsSeq, Holds

LEMMA PackEndsOK ==
  ASSUME IInv, PackEnds
  PROVE  IInv'
<1>1. ChainOK'
  BY WriteOK DEF PackEnds, memRest
<1>2. root' = pk.out /\ last' = top /\ UNCHANGED <<f, g, top, pk>>
  BY DEF PackEnds, formatVars
<1>3. PkOK' /\ IsSeq(root)'
  BY <1>2 DEF IInv, PkOK, IsSeq, Holds
<1> QED BY <1>1, <1>2, <1>3 DEF IInv

\* SavingDiskAllocate begins with numbers.
LEMMA StartOK ==
  ASSUME IInv, NEW total \in Int, NEW used \in Int, StartAlloc(total, used),
         UNCHANGED <<block, size, want, free, stack>>
  PROVE  ChainOK'
<1>1. MemOK'
  BY MemStays DEF IInv, ChainOK
<1>2. goal' = total /\ saved' = used
  BY DEF StartAlloc
<1> QED BY <1>1, <1>2 DEF IInv, ChainOK

LEMMA GrowOK ==
  ASSUME IInv, Grow \/ Shrink
  PROVE  IInv'
<1>1. UNCHANGED <<block, size, want, free, stack>> /\ UNCHANGED <<f, g, last, top, root, pk>>
  BY DEF Grow, Shrink, diskVars, formatVars, packVars
<1>2. RestOK'
  BY <1>1, Parted, RestStays
<1>3. g.size \in Int /\ Used \in Int /\ Data \in Int /\ g.system \in Int
  BY Parted, NumbersOf
<1>4. Data + g.system \in Int
  BY <1>3
<1>5. \/ \E total, used \in Int : StartAlloc(total, used)
      \/ UNCHANGED <<goal, saved>>
  BY <1>3, <1>4 DEF Grow, Shrink
<1>6. ChainOK'
  BY <1>1, <1>5, StartOK, ChainStays DEF IInv
<1> QED BY <1>2, <1>6 DEF IInv, RestOK

LEMMA GrowFailsOK ==
  ASSUME IInv, GrowFails
  PROVE  IInv'
<1>1. UNCHANGED <<block, size, want, free, stack>> /\ UNCHANGED <<f, last, top, root, pk>>
  BY DEF GrowFails, packVars
<1>2. f.size \in Int /\ Used \in Int
  BY Parted, NumbersOf
<1>3. \/ g' = [g EXCEPT !.size = f.size] /\ StartAlloc(f.size, Used)
      \/ UNCHANGED <<g, goal, saved>>
  BY DEF GrowFails
<1>4. ChainOK'
  BY <1>1, <1>2, <1>3, StartOK, ChainStays DEF IInv
<1>5. g' \in FormatSet
  <2>1. g \in FormatSet
    BY DEF IInv
  <2>2. [g EXCEPT !.size = f.size] \in FormatSet
    BY <1>2, <2>1 DEF FormatSet
  <2> QED BY <1>3, <2>1, <2>2
<1>6. PkOK' /\ IsSeq(root)'
  BY <1>1 DEF IInv, PkOK, IsSeq, Holds
<1> QED BY <1>1, <1>4, <1>5, <1>6 DEF IInv

LEMMA WritesOK ==
  ASSUME IInv, FixFAT \/ CopyFAT
  PROVE  IInv'
<1>1. ChainOK'
  BY WriteOK DEF FixFAT, CopyFAT, memRest
<1>2. UNCHANGED <<f, g, last, top, root, pk>>
  BY DEF FixFAT, CopyFAT, formatVars, packVars
<1> QED BY <1>1, <1>2, Parted, RestStays DEF IInv, RestOK

LEMMA FinishOK ==
  ASSUME IInv, Finish
  PROVE  IInv'
<1>1. ChainOK'
  BY WriteOK DEF Finish, memRest
<1>2. f' = g /\ UNCHANGED <<g, last, top, root, pk>>
  BY DEF Finish, packVars
<1>3. PkOK' /\ IsSeq(root)'
  BY <1>2 DEF IInv, PkOK, IsSeq, Holds
<1> QED BY <1>1, <1>2, <1>3 DEF IInv

\* No step of the program, and none that leaves its state alone, breaks IInv.
LEMMA StepsWell ==
  ASSUME IInv, [Next]_vars, "shrink" \notin Refusals
  PROVE  IInv'
<1>1. CASE UNCHANGED <<block, size, want, free, goal, saved, stack, f, g, last, top, root, pk>>
  BY <1>1, Parted, ChainStays, RestStays DEF IInv, RestOK
<1>2. CASE Grew \/ Undone \/ Shrank \/ Rest \/ UNCHANGED vars
  BY <1>1, <1>2 DEF Grew, Undone, Shrank, Rest, vars, chainVars, memVars, diskVars, formatVars,
                    packVars
<1>3. CASE Allocating
  <2>1. ChainOK'
    BY <1>3, AllocStepOK DEF Allocating, IInv
  <2>2. RestOK'
    BY <1>3, Parted, RestStays DEF Allocating, diskVars, formatVars, packVars
  <2> QED BY <2>1, <2>2 DEF IInv, RestOK
<1> QED BY <1>2, <1>3, FormatDiskOK, ResizeOK, PackSkipsOK, PackFileOK, PackChainOK, PackEndsOK,
           GrowOK, GrowFailsOK, ClustersUpOK, WritesOK, FinishOK DEF Next, Step

\* Where the memory managers never refuse to shrink a block: blocks, sizes and
\* requests are of their kinds, the managers give no more than they have, and
\* every part of the disk has the memory its driver believes in.
THEOREM Invariance == ASSUME "shrink" \notin Refusals PROVE Spec => []IInv
<1>1. Init => IInv
  BY StartsWell
<1>2. IInv /\ [Next]_vars => IInv'
  BY StepsWell
<1> QED BY <1>1, <1>2, PTL DEF Spec

\* A driver never believes in more memory than its block has (AllocMem,
\* physical_alloc), whatever is asked for, refused, undone and tried again, on
\* every chain of parts and however the contents move.
THEOREM SizesAreHeld == ASSUME "shrink" \notin Refusals PROVE Spec => []SizeIsHeld
<1>1. IInv => SizeIsHeld
  BY DEF IInv, ChainOK, MemOK, SizeIsHeld
<1> QED BY <1>1, Invariance, PTL
-----------------------------------------------------------------------------
(***************************************************************************)
(* Addresses: the parts of a chain serve consecutive sectors.              *)
(***************************************************************************)
\* Where a part begins, step by step.
LEMMA FirstOfSteps ==
  ASSUME NEW sec \in [Parts -> Nat]
  PROVE  /\ FirstOf(sec, 1) = 0 /\ FirstOf(sec, Len(Kind) + 1) = Total(sec)
         /\ \A p \in Parts : FirstOf(sec, p + 1) = FirstOf(sec, p) + sec[p]
         /\ \A p \in 1..Len(Kind) + 1 : FirstOf(sec, p) \in Nat
<1> DEFINE N == Len(Kind)
           G == [i \in 1..N |-> [x \in Nat |-> x + sec[i]]]
           Full(m) == [k \in 0..N |-> IF k = 0 THEN 0 ELSE m[k - 1] + sec[k]]
           upto == CHOOSE m : m = Full(m)
<1>1. \A p : FirstOf(sec, p) = upto[p - 1]
  BY DEF FirstOf
<1>2. N \in Nat /\ Parts = 1..N
  BY ChainTypes
<1>3. G \in [1..N -> [Nat -> Nat]] /\ \A k \in 1..N : \A x \in Nat : G[k][x] = x + sec[k]
  BY <1>2
<1> HIDE DEF G
<1>4. PICK m \in [0..N -> Nat] : Loop(m, N, 0, G)
  <2> HIDE DEF N
  <2> QED BY ONLY <1>2, <1>3, 0 \in Nat, LoopEnds
<1>5. \A k \in 0..N : m[k] = IF k = 0 THEN 0 ELSE m[k - 1] + sec[k]
  <2> SUFFICES ASSUME NEW k \in 0..N, k # 0 PROVE m[k] = m[k - 1] + sec[k]
    BY <1>4 DEF Loop
  <2>1. k \in 1..N /\ k - 1 \in 0..N
    BY <1>2
  <2>2. m[k - 1] \in Nat
    BY <2>1
  <2> QED BY <1>3, <1>4, <2>1, <2>2 DEF Loop
<1>6. m = [k \in 0..N |-> m[k]]
  OBVIOUS
<1>7. m = Full(m)
  BY ONLY <1>5, <1>6
<1> HIDE DEF Full
<1>8. upto = Full(upto)
  BY <1>7
<1> HIDE DEF upto
<1>9. \A k \in 0..N : upto[k] = IF k = 0 THEN 0 ELSE upto[k - 1] + sec[k]
  BY <1>8 DEF Full
<1>10. upto[0] \in Nat /\ \A k \in 1..N : upto[k - 1] \in Nat => upto[k] \in Nat
  <2>1. \A k \in 1..N : upto[k] = upto[k - 1] + sec[k] /\ sec[k] \in Nat
    BY <1>2, <1>9
  <2> QED BY <1>2, <1>9, <2>1
<1>11. \A k \in 0..N : upto[k] \in Nat
  <2> HIDE DEF N
  <2> QED BY ONLY <1>2, <1>10, LoopStays
<1>12. FirstOf(sec, 1) = 0
  BY <1>1, <1>2, <1>9
<1>13. ASSUME NEW p \in Parts PROVE FirstOf(sec, p + 1) = FirstOf(sec, p) + sec[p]
  <2>1. p \in 0..N /\ p # 0 /\ (p + 1) - 1 = p
    BY <1>2
  <2> QED BY <1>1, <1>9, <2>1
<1>14. ASSUME NEW p \in 1..N + 1 PROVE FirstOf(sec, p) \in Nat
  <2>1. p - 1 \in 0..N
    BY <1>2
  <2> QED BY <1>1, <1>11, <2>1
<1> QED BY <1>12, <1>13, <1>14 DEF Total

\* A later part begins no earlier.
LEMMA FirstOfGrows ==
  ASSUME NEW sec \in [Parts -> Nat], NEW p \in 1..Len(Kind) + 1, NEW q \in 1..Len(Kind) + 1, p <= q
  PROVE  FirstOf(sec, p) <= FirstOf(sec, q)
<1> DEFINE Bad == {r \in p..Len(Kind) + 1 : ~(FirstOf(sec, p) <= FirstOf(sec, r))}
<1> SUFFICES ASSUME Bad # {} PROVE FALSE
  BY ChainTypes
<1>1. PICK t \in Bad : \A u \in Bad : t <= u
  <2>1. Bad \in SUBSET Nat
    BY ChainTypes
  <2> QED BY <2>1, Smallest
<1>2. t \in p..Len(Kind) + 1 /\ ~(FirstOf(sec, p) <= FirstOf(sec, t))
  OBVIOUS
<1>3. t > p
  <2>1. FirstOf(sec, p) \in Nat
    BY FirstOfSteps
  <2> QED BY <1>2, <2>1, ChainTypes
<1>4. t - 1 \in p..Len(Kind) + 1 /\ t - 1 \notin Bad /\ t - 1 \in Parts
  BY <1>1, <1>2, <1>3, ChainTypes
<1>5. FirstOf(sec, p) <= FirstOf(sec, t - 1)
  BY <1>4
<1>6. FirstOf(sec, t) = FirstOf(sec, t - 1) + sec[t - 1]
  <2>1. (t - 1) + 1 = t
    BY <1>2, ChainTypes
  <2> QED BY <1>4, <2>1, FirstOfSteps
<1>7. FirstOf(sec, t - 1) \in Nat /\ FirstOf(sec, t) \in Nat /\ FirstOf(sec, p) \in Nat /\ sec[t - 1] \in Nat
  <2>1. t - 1 \in 1..Len(Kind) + 1 /\ t \in 1..Len(Kind) + 1
    BY <1>2, <1>4, ChainTypes
  <2> QED BY <1>4, <2>1, FirstOfSteps
<1> QED BY <1>2, <1>5, <1>6, <1>7

WithBlock(bl, i, m) == [bl EXCEPT ![i] = m]
WithSize(s1, i, a) == [s1 EXCEPT ![i] = a]
Shifted(s2, s1, i, a) ==
    /\ s2 \in [Parts -> Nat] /\ s2[i] = a /\ \A p \in Parts \ {i} : s2[p] = s1[p]
    /\ \A p \in 1..Len(Kind) + 1 :
          FirstOf(s2, p) = FirstOf(s1, p) + IF p > i THEN a - s1[i] ELSE 0

\* Sizes that differ in one part only: the parts up to it begin where they did,
\* those behind it are moved by the difference.
LEMMA FirstOfShifts ==
  ASSUME NEW s1 \in [Parts -> Nat], NEW i \in Parts, NEW a \in Nat
  PROVE  Shifted(WithSize(s1, i, a), s1, i, a)
<1> DEFINE s2 == WithSize(s1, i, a)
           Same(p) == FirstOf(s2, p) = FirstOf(s1, p) + IF p > i THEN a - s1[i] ELSE 0
           Bad == {r \in 1..Len(Kind) + 1 : ~Same(r)}
<1>1. s2 \in [Parts -> Nat] /\ s2[i] = a /\ \A p \in Parts \ {i} : s2[p] = s1[p]
  BY DEF WithSize
<1> HIDE DEF s2
<1>2. i \in 1..Len(Kind) /\ Len(Kind) \in Nat /\ Parts = 1..Len(Kind) /\ s1[i] \in Nat
  BY ChainTypes
<1>3. Bad = {}
  <2> SUFFICES ASSUME Bad # {} PROVE FALSE
    OBVIOUS
  <2>1. PICK t \in Bad : \A u \in Bad : t <= u
    <3>1. Bad \in SUBSET Nat
      BY <1>2
    <3> QED BY <3>1, Smallest
  <2>2. t \in 1..Len(Kind) + 1 /\ ~Same(t)
    OBVIOUS
  <2>3. FirstOf(s1, 1) = 0 /\ FirstOf(s2, 1) = 0
    BY <1>1, FirstOfSteps
  <2>4. t > 1
    BY <1>2, <2>2, <2>3
  <2>5. t - 1 \in 1..Len(Kind) + 1 /\ t - 1 \notin Bad /\ t - 1 \in Parts /\ (t - 1) + 1 = t
    BY <1>2, <2>1, <2>2, <2>4
  <2>6. Same(t - 1)
    BY <2>5
  <2>7. FirstOf(s1, t) = FirstOf(s1, t - 1) + s1[t - 1] /\ FirstOf(s2, t) = FirstOf(s2, t - 1) + s2[t - 1]
    BY ZenonT(60), <1>1, <2>5, FirstOfSteps
  <2>8. FirstOf(s1, t - 1) \in Nat /\ FirstOf(s2, t - 1) \in Nat /\ s1[t - 1] \in Nat
    BY <1>1, <2>5, FirstOfSteps
  <2>9. s2[t - 1] = IF t - 1 = i THEN a ELSE s1[t - 1]
    BY <1>1, <2>5
  <2>10. Same(t)
    <3> DEFINE u == t - 1
               a1 == FirstOf(s1, u)
               a2 == FirstOf(s2, u)
    <3>1. u \in Int /\ i \in Int /\ t = u + 1 /\ a1 \in Nat /\ a2 \in Nat /\ s1[i] \in Nat
          /\ s1[u] \in Nat
      BY <1>2, <2>2, <2>5, <2>8
    <3>2. a2 = a1 + (IF u > i THEN a - s1[i] ELSE 0)
      BY <2>6
    <3>3. FirstOf(s1, t) = a1 + s1[u] /\ FirstOf(s2, t) = a2 + s2[u]
      BY <2>7
    <3>4. s2[u] = IF u = i THEN a ELSE s1[u]
      BY <2>9
    <3> HIDE DEF u, a1, a2
    <3>5. FirstOf(s2, t) = FirstOf(s1, t) + IF u + 1 > i THEN a - s1[i] ELSE 0
      <4>1. CASE u < i
        BY <3>1, <3>2, <3>3, <3>4, <4>1
      <4>2. CASE u = i
        BY <3>1, <3>2, <3>3, <3>4, <4>2
      <4>3. CASE u > i
        BY SMTT(30), <3>1, <3>2, <3>3, <3>4, <4>3
      <4> QED BY <3>1, <4>1, <4>2, <4>3
    <3> QED BY <3>1, <3>5
  <2> QED BY <2>2, <2>10
<1> QED BY <1>1, <1>3 DEF s2, Shifted

\* A sector number is served by one part.
LEMMA HomeOf ==
  ASSUME NEW sec \in [Parts -> Nat], NEW p \in Parts, NEW k \in 1..sec[p]
  PROVE  /\ Home(sec, FirstOf(sec, p) + k - 1) = <<p, k>>
         /\ FirstOf(sec, p) + k - 1 \in 0..Total(sec) - 1
<1> DEFINE s == FirstOf(sec, p) + k - 1
           In(r) == FirstOf(sec, r) <= s /\ s < FirstOf(sec, r + 1)
           q == CHOOSE r \in Parts : In(r)
<1>1. Parts = 1..Len(Kind) /\ Len(Kind) \in Nat /\ sec[p] \in Nat /\ p + 1 \in 1..Len(Kind) + 1
  BY ChainTypes
<1>2. FirstOf(sec, p + 1) = FirstOf(sec, p) + sec[p]
      /\ \A r \in 1..Len(Kind) + 1 : FirstOf(sec, r) \in Nat
  BY FirstOfSteps
<1>3. FirstOf(sec, p) \in Nat
  BY <1>1, <1>2
<1>4. s \in Nat /\ In(p)
  BY <1>1, <1>2, <1>3
<1>5. q \in Parts /\ In(q)
  BY <1>4
<1>6. FirstOf(sec, q) \in Nat /\ FirstOf(sec, q + 1) \in Nat /\ q + 1 \in 1..Len(Kind) + 1
  BY SMTT(30), <1>1, <1>2, <1>5
<1> HIDE DEF s, q
<1>7. ~(q < p)
  <2> SUFFICES ASSUME q < p PROVE FALSE
    OBVIOUS
  <2>1. q + 1 <= p /\ p \in 1..Len(Kind) + 1
    BY <1>1, <1>5
  <2>2. FirstOf(sec, q + 1) <= FirstOf(sec, p)
    BY ONLY <1>6, <2>1, sec \in [Parts -> Nat], FirstOfGrows
  <2> QED BY <1>3, <1>4, <1>5, <1>6, <2>2
<1>8. ~(p < q)
  <2> SUFFICES ASSUME p < q PROVE FALSE
    OBVIOUS
  <2>1. p + 1 <= q /\ q \in 1..Len(Kind) + 1
    BY <1>1, <1>5
  <2>2. FirstOf(sec, p + 1) <= FirstOf(sec, q)
    BY ONLY <1>1, <2>1, sec \in [Parts -> Nat], FirstOfGrows
  <2>3. FirstOf(sec, p + 1) \in Nat
    BY <1>1, <1>2
  <2> QED BY <1>4, <1>5, <1>6, <2>2, <2>3
<1>9. q = p
  BY <1>1, <1>5, <1>7, <1>8
<1>10. Home(sec, s) = <<q, s - FirstOf(sec, q) + 1>>
  BY DEF Home, q
<1>11. s - FirstOf(sec, p) + 1 = k
  BY <1>1, <1>3 DEF s
<1>12. FirstOf(sec, p + 1) <= Total(sec) /\ Total(sec) \in Nat /\ FirstOf(sec, p + 1) \in Nat
  <2>1. Len(Kind) + 1 \in 1..Len(Kind) + 1 /\ p + 1 <= Len(Kind) + 1
    BY <1>1
  <2>2. FirstOf(sec, p + 1) <= FirstOf(sec, Len(Kind) + 1)
    BY ONLY <1>1, <2>1, sec \in [Parts -> Nat], FirstOfGrows
  <2>3. FirstOf(sec, Len(Kind) + 1) = Total(sec)
    BY DEF Total
  <2> QED BY <1>1, <1>2, <2>1, <2>2, <2>3
<1>13. s \in 0..Total(sec) - 1
  BY <1>4, <1>12
<1> QED BY <1>9, <1>10, <1>11, <1>13 DEF s

\* Every sector of the disk is served by some part.
LEMMA HomeIs ==
  ASSUME NEW sec \in [Parts -> Nat], NEW s \in Int, 0 <= s, s < Total(sec)
  PROVE  \E p \in Parts : \E k \in 1..sec[p] : s = FirstOf(sec, p) + k - 1
<1> DEFINE S == {p \in Parts : s < FirstOf(sec, p + 1)}
<1>1. Parts = 1..Len(Kind) /\ Len(Kind) \in Nat \ {0}
  BY ChainTypes
<1>2. S # {}
  <2>1. Len(Kind) \in Parts /\ s < FirstOf(sec, Len(Kind) + 1)
    BY <1>1 DEF Total
  <2> QED BY <2>1
<1>3. PICK t \in S : \A u \in S : t <= u
  <2>1. S \in SUBSET Nat
    BY <1>1
  <2> QED BY <1>2, <2>1, Smallest
<1>4. t \in 1..Len(Kind) /\ s < FirstOf(sec, t + 1) /\ FirstOf(sec, t + 1) = FirstOf(sec, t) + sec[t]
      /\ sec[t] \in Nat /\ FirstOf(sec, t) \in Nat /\ FirstOf(sec, 1) = 0
  <2>1. t \in Parts /\ s < FirstOf(sec, t + 1)
    OBVIOUS
  <2> QED BY <1>1, <2>1, FirstOfSteps
<1>5. FirstOf(sec, t) <= s
  <2>1. CASE t = 1
    BY <1>4, <2>1
  <2>2. CASE t > 1
    <3>1. t - 1 \in Parts /\ (t - 1) + 1 = t /\ t - 1 < t
      BY <1>1, <1>4, <2>2
    <3>2. t - 1 \notin S
      <4> HIDE DEF S
      <4>1. t - 1 \in S => t <= t - 1
        BY <1>3
      <4> QED BY <1>4, <4>1
    <3>3. ~(s < FirstOf(sec, (t - 1) + 1))
      BY <3>1, <3>2
    <3> QED BY <1>4, <3>1, <3>3
  <2> QED BY <1>4, <2>1, <2>2
<1> DEFINE k == s - FirstOf(sec, t) + 1
<1>6. k \in 1..sec[t] /\ s = FirstOf(sec, t) + k - 1
  BY <1>4, <1>5
<1> HIDE DEF k
<1> QED BY <1>1, <1>4, <1>6
-----------------------------------------------------------------------------
(***************************************************************************)
(* What moving sectors does to them.                                       *)
(***************************************************************************)
\* A sector is a place in the block of the part that serves it.
LEMMA ReadAt ==
  ASSUME NEW bl, BlocksOK(bl), NEW sec \in [Parts -> Nat], NEW p \in Parts, NEW k \in 1..sec[p]
  PROVE  /\ Sector(bl, sec, FirstOf(sec, p) + k - 1) = IF k <= Len(bl[p]) THEN bl[p][k] ELSE Junk
         /\ Backed(bl, sec, FirstOf(sec, p) + k - 1) <=> k <= Len(bl[p])
<1> DEFINE s == FirstOf(sec, p) + k - 1
<1>1. Home(sec, s) = <<p, k>> /\ s \in 0..Total(sec) - 1
  BY HomeOf
<1> HIDE DEF s
<1>2. 0 <= s /\ s < Total(sec)
  <2>1. Total(sec) \in Nat
    BY FirstOfSteps, ChainTypes DEF Total
  <2> QED BY <1>1, <2>1
<1>3. Backed(bl, sec, s) <=> k <= Len(bl[p])
  BY <1>1, <1>2 DEF Backed
<1>4. Sector(bl, sec, s) = IF k <= Len(bl[p]) THEN bl[p][k] ELSE Junk
  BY <1>1, <1>3 DEF Sector
<1> QED BY <1>3, <1>4 DEF s

\* Beyond the disk there is nothing.
LEMMA ReadOutside ==
  ASSUME NEW bl, NEW sec, NEW s, ~(0 <= s /\ s < Total(sec))
  PROVE  Sector(bl, sec, s) = Junk /\ ~Backed(bl, sec, s)
  BY DEF Sector, Backed

\* A batch copies its sectors and leaves the others alone.
LEMMA CopyReads ==
  ASSUME NEW bl, BlocksOK(bl), NEW sec \in [Parts -> Nat], NEW dest \in Int, NEW orig \in Int,
         NEW n \in Nat, NEW s \in Int, dest <= s /\ s < dest + n => Backed(bl, sec, s)
  PROVE  Sector(CopyBatch(bl, sec, dest, orig, n), sec, s) =
         IF dest <= s /\ s < dest + n THEN Sector(bl, sec, orig + s - dest) ELSE Sector(bl, sec, s)
<1> DEFINE a == CopyBatch(bl, sec, dest, orig, n)
           src == Sector(bl, sec, orig + s - dest)
<1>1. SameSize(a, bl)
  BY CopyKeeps
<1>2. CASE ~(0 <= s /\ s < Total(sec))
  <2>1. Sector(a, sec, s) = Junk /\ Sector(bl, sec, s) = Junk /\ ~Backed(bl, sec, s)
    BY <1>2, ReadOutside
  <2> QED BY <2>1
<1>3. CASE 0 <= s /\ s < Total(sec)
  <2>1. PICK p \in Parts : \E k \in 1..sec[p] : s = FirstOf(sec, p) + k - 1
    BY <1>3, HomeIs
  <2>2. PICK k \in 1..sec[p] : s = FirstOf(sec, p) + k - 1
    BY <2>1
  <2>3. BlocksOK(a) /\ Len(a[p]) = Len(bl[p]) /\ Len(bl[p]) \in Nat /\ sec[p] \in Nat
    BY <1>1, BlockLen DEF SameSize, BlocksOK
  <2>4. Sector(a, sec, s) = IF k <= Len(bl[p]) THEN a[p][k] ELSE Junk
    <3> HIDE DEF a
    <3> QED BY <2>2, <2>3, ReadAt
  <2>5. Sector(bl, sec, s) = (IF k <= Len(bl[p]) THEN bl[p][k] ELSE Junk)
        /\ (Backed(bl, sec, s) <=> k <= Len(bl[p]))
    BY <2>2, ReadAt
  <2>6. k <= Len(bl[p]) => a[p][k] = IF dest <= s /\ s < dest + n THEN src ELSE bl[p][k]
    <3> SUFFICES ASSUME k <= Len(bl[p])
                 PROVE  a[p][k] = IF dest <= s /\ s < dest + n THEN src ELSE bl[p][k]
      OBVIOUS
    <3>1. k \in 1..Len(bl[p]) /\ k <= sec[p]
      BY <2>3
    <3>2. a[p][k] = LET t == FirstOf(sec, p) + k - 1 IN
                    IF k <= sec[p] /\ dest <= t /\ t < dest + n
                    THEN Sector(bl, sec, orig + t - dest) ELSE bl[p][k]
      BY <3>1 DEF CopyBatch
    <3> HIDE DEF a
    <3> QED BY <2>2, <3>1, <3>2
  <2> HIDE DEF a, src
  <2>7. (dest <= s /\ s < dest + n) => k <= Len(bl[p])
    BY <2>5
  <2>8. Sector(a, sec, s) = IF dest <= s /\ s < dest + n THEN src ELSE Sector(bl, sec, s)
    BY <2>4, <2>5, <2>6, <2>7
  <2> QED BY <2>8 DEF a, src
<1> QED BY <1>2, <1>3

\* The sectors lo to hi of a move are at their places, all else is as it was.
Arrived(b, bl, sec, dest, orig, lo, hi) ==
    \A s \in Int : Sector(b, sec, s) = IF dest + lo <= s /\ s < dest + hi
                                      THEN Sector(bl, sec, orig + s - dest) ELSE Sector(bl, sec, s)

LEMMA BackedToo ==
  ASSUME NEW a, NEW bl, SameSize(a, bl), BlocksOK(bl), NEW sec \in [Parts -> Nat], NEW s \in Int,
         Backed(bl, sec, s)
  PROVE  Backed(a, sec, s)
<1>1. 0 <= s /\ s < Total(sec)
  BY DEF Backed
<1>2. PICK p \in Parts : \E k \in 1..sec[p] : s = FirstOf(sec, p) + k - 1
  BY <1>1, HomeIs
<1>3. PICK k \in 1..sec[p] : s = FirstOf(sec, p) + k - 1
  BY <1>2
<1>4. BlocksOK(a) /\ Len(a[p]) = Len(bl[p])
  BY DEF SameSize
<1>5. k <= Len(bl[p])
  BY <1>3, ReadAt
<1> QED BY <1>3, <1>4, <1>5, ReadAt

\* One more batch of a move down, and of a move up: it reads nothing that an
\* earlier one has overwritten.
LEMMA BatchDown ==
  ASSUME NEW b, NEW bl, SameSize(b, bl), BlocksOK(bl), NEW sec \in [Parts -> Nat],
         NEW dest \in Int, NEW orig \in Int, orig > dest, NEW lo \in Nat, NEW n \in Nat,
         Arrived(b, bl, sec, dest, orig, 0, lo),
         \A s \in Int : dest <= s /\ s < dest + lo + n => Backed(bl, sec, s)
  PROVE  Arrived(CopyBatch(b, sec, dest + lo, orig + lo, n), bl, sec, dest, orig, 0, lo + n)
<1> DEFINE a == CopyBatch(b, sec, dest + lo, orig + lo, n)
<1> SUFFICES ASSUME NEW s \in Int
             PROVE  Sector(a, sec, s) = IF dest + 0 <= s /\ s < dest + (lo + n)
                                        THEN Sector(bl, sec, orig + s - dest) ELSE Sector(bl, sec, s)
  BY DEF Arrived
<1>1. \A t \in Int : Sector(b, sec, t) = IF dest <= t /\ t < dest + lo
                                         THEN Sector(bl, sec, orig + t - dest) ELSE Sector(bl, sec, t)
  BY DEF Arrived
<1>2. Sector(a, sec, s) = IF dest + lo <= s /\ s < dest + lo + n
                          THEN Sector(b, sec, orig + lo + s - (dest + lo)) ELSE Sector(b, sec, s)
  <2>1. dest + lo <= s /\ s < dest + lo + n => Backed(b, sec, s)
    BY BackedToo
  <2>2. dest + lo \in Int /\ orig + lo \in Int /\ BlocksOK(b)
    BY DEF SameSize
  <2> QED BY <2>1, <2>2, CopyReads
<1> HIDE DEF a
<1>3. CASE dest + lo <= s /\ s < dest + lo + n
  <2> DEFINE t == orig + lo + s - (dest + lo)
  <2>1. t = orig + s - dest /\ t \in Int /\ ~(t < dest + lo)
    BY <1>3
  <2>2. Sector(b, sec, t) = Sector(bl, sec, t)
    BY <1>1, <2>1
  <2> QED BY <1>2, <1>3, <2>1, <2>2
<1>4. CASE ~(dest + lo <= s /\ s < dest + lo + n)
  BY <1>1, <1>2, <1>4
<1> QED BY <1>3, <1>4

LEMMA BatchUp ==
  ASSUME NEW b, NEW bl, SameSize(b, bl), BlocksOK(bl), NEW sec \in [Parts -> Nat],
         NEW dest \in Int, NEW orig \in Int, orig < dest, NEW lo \in Nat, NEW n \in Nat, NEW hi \in Nat,
         Arrived(b, bl, sec, dest, orig, lo + n, hi), lo + n <= hi,
         \A s \in Int : dest <= s /\ s < dest + hi => Backed(bl, sec, s)
  PROVE  Arrived(CopyBatch(b, sec, dest + lo, orig + lo, n), bl, sec, dest, orig, lo, hi)
<1> DEFINE a == CopyBatch(b, sec, dest + lo, orig + lo, n)
<1> SUFFICES ASSUME NEW s \in Int
             PROVE  Sector(a, sec, s) = IF dest + lo <= s /\ s < dest + hi
                                        THEN Sector(bl, sec, orig + s - dest) ELSE Sector(bl, sec, s)
  BY DEF Arrived
<1>1. \A t \in Int : Sector(b, sec, t) = IF dest + (lo + n) <= t /\ t < dest + hi
                                         THEN Sector(bl, sec, orig + t - dest) ELSE Sector(bl, sec, t)
  BY DEF Arrived
<1>2. Sector(a, sec, s) = IF dest + lo <= s /\ s < dest + lo + n
                          THEN Sector(b, sec, orig + lo + s - (dest + lo)) ELSE Sector(b, sec, s)
  <2>1. dest + lo <= s /\ s < dest + lo + n => Backed(b, sec, s)
    BY BackedToo
  <2>2. dest + lo \in Int /\ orig + lo \in Int /\ BlocksOK(b)
    BY DEF SameSize
  <2> QED BY <2>1, <2>2, CopyReads
<1> HIDE DEF a
<1>3. CASE dest + lo <= s /\ s < dest + lo + n
  <2> DEFINE t == orig + lo + s - (dest + lo)
  <2>1. t = orig + s - dest /\ t \in Int /\ ~(dest + (lo + n) <= t)
    BY <1>3
  <2>2. Sector(b, sec, t) = Sector(bl, sec, t)
    BY <1>1, <2>1
  <2> QED BY <1>2, <1>3, <2>1, <2>2
<1>4. CASE ~(dest + lo <= s /\ s < dest + lo + n)
  BY <1>1, <1>2, <1>4
<1> QED BY <1>3, <1>4

\* A move of sectors that all have memory behind them makes an exact copy,
\* however the source and the destination overlap and the batches fall
\* (MoveSectors), and touches no other sector.
THEOREM ContentsMove ==
  ASSUME NEW bl, BlocksOK(bl), NEW sec \in [Parts -> Nat], NEW dest \in Int, NEW orig \in Int,
         NEW number \in Int, ~Unbacked(bl, sec, dest, orig, number)
  PROVE  Arrived(MoveSectors(bl, sec, dest, orig, number), bl, sec, dest, orig, 0, number)
<1>1. CASE orig = dest
  <2>1. MoveSectors(bl, sec, dest, orig, number) = bl
    BY <1>1 DEF MoveSectors
  <2>2. \A s \in Int : orig + s - dest = s
    BY <1>1
  <2> QED BY <2>1, <2>2 DEF Arrived
<1>2. CASE number <= 0
  <2>1. MoveSectors(bl, sec, dest, orig, number) = bl
    BY <1>2 DEF MoveSectors
  <2>2. \A s \in Int : ~(dest + 0 <= s /\ s < dest + number)
    BY <1>2
  <2> QED BY <2>1, <2>2 DEF Arrived
<1>3. CASE orig # dest /\ number > 0
  <2>1. PICK moved : /\ Moving(moved, bl, sec, dest, orig, number)
                     /\ MoveSectors(bl, sec, dest, orig, number) = moved[number]
    BY <1>3, MoveSteps
  <2>2. \A s \in Int : dest <= s /\ s < dest + number => Backed(bl, sec, s)
    <3> SUFFICES ASSUME NEW s \in Int, dest <= s, s < dest + number PROVE Backed(bl, sec, s)
      OBVIOUS
    <3>1. s - dest \in 0..number - 1 /\ dest + (s - dest) = s
      OBVIOUS
    <3>2. \A k \in 0..number - 1 : Backed(bl, sec, dest + k)
      BY <1>3 DEF Unbacked
    <3>3. Backed(bl, sec, dest + (s - dest))
      BY <3>1, <3>2
    <3> QED BY <3>1, <3>3
  <2> DEFINE Good(k) == /\ SameSize(moved[k], bl)
                        /\ IF orig > dest THEN Arrived(moved[k], bl, sec, dest, orig, 0, k)
                           ELSE Arrived(moved[k], bl, sec, dest, orig, number - k, number)
             Bad == {k \in 0..number : ~Good(k)}
  <2>3. moved[0] = bl
    BY <2>1 DEF Moving
  <2>4. Good(0)
    <3>1. \A s \in Int : ~(dest + 0 <= s /\ s < dest + 0) /\ ~(dest + (number - 0) <= s /\ s < dest + number)
      OBVIOUS
    <3> QED BY <2>3, <3>1, SameSelf DEF Arrived
  <2>5. Bad = {}
    <3> SUFFICES ASSUME Bad # {} PROVE FALSE
      OBVIOUS
    <3>1. PICK t \in Bad : \A u \in Bad : t <= u
      <4>1. Bad \in SUBSET Nat
        OBVIOUS
      <4> QED BY <4>1, Smallest
    <3>2. t \in 0..number /\ ~Good(t)
      OBVIOUS
    <3>3. t # 0
      <4> HIDE DEF Good
      <4> QED BY <2>4, <3>2
    <3>4. t \in 1..number
      BY <1>3, <3>2, <3>3
    <3> DEFINE n == BatchOf(dest, orig, t)
               p == t - n
    <3>5. /\ n \in 1..t /\ n <= (IF orig > dest THEN orig - dest ELSE dest - orig)
          /\ moved[t] = Copied(sec, dest, orig, number, t, moved[p])
      BY <2>1, <3>4 DEF Moving
    <3>6. n \in Nat \ {0} /\ p \in 0..t - 1 /\ p \in 0..number /\ t = p + n
      BY <3>4, <3>5
    <3>7. moved[t] = CopyBatch(moved[p], sec, dest + BatchAt(dest, orig, number, t),
                               orig + BatchAt(dest, orig, number, t), n)
      BY <3>5 DEF Copied
    <3>8. BatchAt(dest, orig, number, t) = IF orig > dest THEN p ELSE number - t
      BY DEF BatchAt
    <3> HIDE DEF n, p
    <3>9. Good(p)
      <4> HIDE DEF Good
      <4>1. p \notin Bad
        <5> HIDE DEF Bad
        <5> QED BY <3>1, <3>2, <3>6
      <4> QED BY <3>6, <4>1
    <3>10. SameSize(moved[p], bl) /\ SameSize(moved[t], bl)
      <4>1. SameSize(moved[p], bl)
        BY <3>9
      <4>2. SameSize(moved[t], moved[p])
        BY <3>7, <4>1, CopyKeeps DEF SameSize
      <4> QED BY <4>1, <4>2, SameAgain
    <3>11. CASE orig > dest
      <4>1. Arrived(moved[p], bl, sec, dest, orig, 0, p)
        BY <3>9, <3>11
      <4>2. \A s \in Int : dest <= s /\ s < dest + p + n => Backed(bl, sec, s)
        BY <2>2, <3>4, <3>6
      <4>3. p \in Nat /\ n \in Nat
        BY <3>6
      <4>4. Arrived(CopyBatch(moved[p], sec, dest + p, orig + p, n), bl, sec, dest, orig, 0, p + n)
        BY <3>10, <3>11, <4>1, <4>2, <4>3, BatchDown
      <4> QED BY <3>2, <3>6, <3>7, <3>8, <3>10, <3>11, <4>4
    <3>12. CASE ~(orig > dest)
      <4> DEFINE lo == number - t
      <4>1. lo \in Nat /\ n \in Nat /\ number \in Nat /\ number - p = lo + n /\ lo + n <= number
        BY <1>3, <3>4, <3>6
      <4>2. Arrived(moved[p], bl, sec, dest, orig, number - p, number)
        BY <3>9, <3>12
      <4>3. BatchAt(dest, orig, number, t) = lo /\ orig < dest
        BY <1>3, <3>8, <3>12
      <4> HIDE DEF lo
      <4>4. Arrived(moved[p], bl, sec, dest, orig, lo + n, number)
        BY <4>1, <4>2
      <4>5. Arrived(CopyBatch(moved[p], sec, dest + lo, orig + lo, n), bl, sec, dest, orig, lo, number)
        BY <2>2, <3>10, <4>1, <4>3, <4>4, BatchUp
      <4>6. Arrived(moved[t], bl, sec, dest, orig, number - t, number)
        BY <3>7, <4>3, <4>5 DEF lo
      <4> QED BY <3>2, <3>10, <3>12, <4>6
    <3> QED BY <3>11, <3>12
  <2>6. Good(number)
    <3>1. number \in 0..number /\ number \notin Bad
      BY <1>3, <2>5
    <3> HIDE DEF Good
    <3> QED BY <3>1
  <2>7. number - number = 0
    OBVIOUS
  <2> QED BY <2>1, <2>6, <2>7
<1> QED BY <1>1, <1>2, <1>3
-----------------------------------------------------------------------------
(***************************************************************************)
(* AllocPart keeps the contents.                                           *)
(***************************************************************************)
Begins(m, b, r) == \A k \in 1..r : k <= Len(m) /\ k <= Len(b) /\ m[k] = b[k]
Renumbering(b2, s2, bl, s1, i, a, r) ==
    /\ \A s \in Int : s < FirstOf(s1, i) + r => Sector(b2, s2, s) = Sector(bl, s1, s)
    /\ \A s \in Int : s >= FirstOf(s1, i + 1) => Sector(b2, s2, s + a - s1[i]) = Sector(bl, s1, s)

\* A part gets another block and another size, the first r sectors of which are
\* the old ones: sectors up to there keep their number, those of the parts
\* behind are renumbered.
LEMMA Renumbered ==
  ASSUME NEW bl, BlocksOK(bl), NEW s1 \in [Parts -> Nat], NEW i \in Parts, NEW m, IsSeq(m),
         NEW a \in Nat, NEW r \in Nat, r <= a, r <= s1[i], Begins(m, bl[i], r)
  PROVE  Renumbering(WithBlock(bl, i, m), WithSize(s1, i, a), bl, s1, i, a, r)
<1> DEFINE b2 == WithBlock(bl, i, m)
           s2 == WithSize(s1, i, a)
<1>1. s2 \in [Parts -> Nat] /\ s2[i] = a /\ (\A p \in Parts \ {i} : s2[p] = s1[p])
      /\ \A p \in 1..Len(Kind) + 1 : FirstOf(s2, p) = FirstOf(s1, p) + IF p > i THEN a - s1[i] ELSE 0
  BY FirstOfShifts DEF Shifted
<1>2. BlocksOK(b2) /\ b2[i] = m /\ \A p \in Parts \ {i} : b2[p] = bl[p]
  <2>1. bl = [p \in Parts |-> bl[p]]
    BY DEF BlocksOK
  <2>2. b2 = [p \in Parts |-> IF p = i THEN m ELSE bl[p]]
    BY <2>1 DEF WithBlock
  <2>3. b2 = [p \in Parts |-> b2[p]] /\ \A p \in Parts : b2[p] = IF p = i THEN m ELSE bl[p]
    BY <2>2
  <2> HIDE DEF b2
  <2> QED BY <2>3 DEF BlocksOK
<1> HIDE DEF b2, s2
<1>3. Parts = 1..Len(Kind) /\ Len(Kind) \in Nat /\ i \in 1..Len(Kind) /\ s1[i] \in Nat
  BY ChainTypes
<1>4. /\ \A p \in 1..Len(Kind) + 1 : FirstOf(s1, p) \in Nat
      /\ FirstOf(s1, i + 1) = FirstOf(s1, i) + s1[i]
      /\ Total(s1) = FirstOf(s1, Len(Kind) + 1) /\ Total(s2) = FirstOf(s2, Len(Kind) + 1)
      /\ FirstOf(s1, i) \in Nat /\ FirstOf(s1, i + 1) \in Nat /\ FirstOf(s1, Len(Kind) + 1) \in Nat
  <2>1. i \in 1..Len(Kind) + 1 /\ i + 1 \in 1..Len(Kind) + 1 /\ Len(Kind) + 1 \in 1..Len(Kind) + 1
    BY <1>3
  <2>2. \A p \in 1..Len(Kind) + 1 : FirstOf(s1, p) \in Nat
    BY FirstOfSteps
  <2> QED BY <2>1, <2>2, FirstOfSteps DEF Total
<1>5. Total(s2) = Total(s1) + a - s1[i]
  <2>1. Len(Kind) + 1 \in 1..Len(Kind) + 1 /\ Len(Kind) + 1 > i
    BY <1>3
  <2> QED BY <1>1, <1>3, <1>4, <2>1
<1>6. FirstOf(s1, i + 1) <= Total(s1)
  <2>1. i + 1 \in 1..Len(Kind) + 1 /\ Len(Kind) + 1 \in 1..Len(Kind) + 1 /\ i + 1 <= Len(Kind) + 1
    BY <1>3
  <2> QED BY <1>4, <2>1, FirstOfGrows
<1>7. ASSUME NEW s \in Int, s < FirstOf(s1, i) + r
      PROVE  Sector(b2, s2, s) = Sector(bl, s1, s)
  <2>1. CASE s < 0
    BY <2>1, ReadOutside
  <2>2. CASE s >= 0
    <3>1. s < Total(s1)
      BY <1>3, <1>4, <1>6, <1>7
    <3>2. PICK p \in Parts : \E k \in 1..s1[p] : s = FirstOf(s1, p) + k - 1
      BY <2>2, <3>1, HomeIs
    <3>3. PICK k \in 1..s1[p] : s = FirstOf(s1, p) + k - 1
      BY <3>2
    <3>4. p \in 1..Len(Kind) /\ p \in 1..Len(Kind) + 1 /\ s1[p] \in Nat /\ FirstOf(s1, p) \in Nat
      <4>1. p \in 1..Len(Kind) /\ p \in 1..Len(Kind) + 1
        BY <1>3
      <4>2. s1[p] \in Nat
        OBVIOUS
      <4> QED BY <1>4, <4>1, <4>2
    <3>5. ~(p > i)
      <4> SUFFICES ASSUME p > i PROVE FALSE
        OBVIOUS
      <4>1. i + 1 <= p /\ i + 1 \in 1..Len(Kind) + 1
        BY <1>3, <3>4
      <4>2. FirstOf(s1, i + 1) <= FirstOf(s1, p)
        BY <3>4, <4>1, FirstOfGrows
      <4>3. FirstOf(s1, i) + r <= FirstOf(s1, i + 1)
        BY <1>3, <1>4
      <4>5. FirstOf(s1, p) <= s
        BY <3>3, <3>4
      <4>4. FirstOf(s1, i) \in Nat /\ FirstOf(s1, i + 1) \in Nat /\ FirstOf(s1, p) \in Nat
        BY <1>4, <3>4
      <4> QED BY ONLY <1>7, <4>2, <4>3, <4>4, <4>5, s \in Int, r \in Nat
    <3>6. FirstOf(s2, p) = FirstOf(s1, p)
      BY <1>1, <3>4, <3>5
    <3>7. Sector(bl, s1, s) = IF k <= Len(bl[p]) THEN bl[p][k] ELSE Junk
      BY <3>3, ReadAt
    <3>8. k \in 1..s2[p] => Sector(b2, s2, s) = IF k <= Len(b2[p]) THEN b2[p][k] ELSE Junk
      BY <1>1, <1>2, <3>3, <3>6, ReadAt
    <3>9. CASE p = i
      <4>1. k \in 1..r /\ k \in 1..a
        BY SMTT(30), <1>3, <1>4, <1>7, <3>3, <3>9
      <4> QED BY <1>1, <1>2, <3>7, <3>8, <3>9, <4>1 DEF Begins
    <3>10. CASE p # i
      BY <1>1, <1>2, <3>3, <3>7, <3>8, <3>10
    <3> QED BY <3>9, <3>10
  <2> QED BY <2>1, <2>2
<1>8. ASSUME NEW s \in Int, s >= FirstOf(s1, i + 1)
      PROVE  Sector(b2, s2, s + a - s1[i]) = Sector(bl, s1, s)
  <2> DEFINE t == s + a - s1[i]
  <2>1. t \in Int /\ (t < Total(s2) <=> s < Total(s1)) /\ 0 <= s
    BY SMTT(30), <1>3, <1>4, <1>5, <1>8
  <2>2. CASE ~(s < Total(s1))
    BY <2>1, <2>2, ReadOutside
  <2>3. CASE s < Total(s1)
    <3>1. PICK p \in Parts : \E k \in 1..s1[p] : s = FirstOf(s1, p) + k - 1
      BY <2>1, <2>3, HomeIs
    <3>2. PICK k \in 1..s1[p] : s = FirstOf(s1, p) + k - 1
      BY <3>1
    <3>3. p \in 1..Len(Kind) /\ p \in 1..Len(Kind) + 1 /\ s1[p] \in Nat /\ FirstOf(s1, p) \in Nat
      BY SMTT(60), <1>3, <1>4, <3>1
    <3>4. p > i
      <4> SUFFICES ASSUME p <= i PROVE FALSE
        BY <1>3, <3>3
      <4>1. p + 1 <= i + 1 /\ i + 1 \in 1..Len(Kind) + 1 /\ p + 1 \in 1..Len(Kind) + 1
        BY <1>3, <3>3
      <4>2. FirstOf(s1, p + 1) <= FirstOf(s1, i + 1)
        BY <4>1, FirstOfGrows
      <4>3. FirstOf(s1, p + 1) = FirstOf(s1, p) + s1[p]
        BY <3>1, FirstOfSteps
      <4>4. s < FirstOf(s1, p + 1) /\ FirstOf(s1, p + 1) \in Nat
        BY SMTT(30), <3>2, <3>3, <4>3
      <4>5. FirstOf(s1, i + 1) \in Nat
        BY <1>4
      <4> QED BY ONLY <1>8, <4>2, <4>4, <4>5, s \in Int
    <3>5. FirstOf(s2, p) = FirstOf(s1, p) + a - s1[i]
      BY <1>1, <1>3, <3>3, <3>4
    <3>6. t = FirstOf(s2, p) + k - 1 /\ s2[p] = s1[p] /\ b2[p] = bl[p] /\ k \in 1..s2[p]
      <4>1. p # i
        BY <1>3, <3>4
      <4>2. s2[p] = s1[p] /\ b2[p] = bl[p]
        BY <1>1, <1>2, <4>1
      <4> QED BY SMTT(30), <1>3, <3>2, <3>3, <3>5, <4>2
    <3>7. Sector(bl, s1, s) = IF k <= Len(bl[p]) THEN bl[p][k] ELSE Junk
      BY <3>2, ReadAt
    <3>8. Sector(b2, s2, t) = IF k <= Len(b2[p]) THEN b2[p][k] ELSE Junk
      <4> HIDE DEF t
      <4> QED BY <1>1, <1>2, <3>6, ReadAt
    <3> QED BY <3>6, <3>7, <3>8
  <2> QED BY <2>2, <2>3
<1> QED BY <1>7, <1>8 DEF b2, s2, Renumbering

\* The beginning of a block.
LEMMA SubSeqIs ==
  ASSUME NEW b, IsSeq(b), NEW l \in 0..Len(b)
  PROVE  Len(SubSeq(b, 1, l)) = l /\ \A k \in 1..l : SubSeq(b, 1, l)[k] = b[k]
<1>1. PICK n \in Nat : Holds(b, n)
  BY DEF IsSeq
<1> DEFINE S == {b[k] : k \in 1..n}
<1>2. b \in [1..n -> S]
  BY <1>1 DEF Holds
<1> HIDE DEF S
<1>3. b \in Seq(S) /\ Len(b) = n
  BY <1>1, <1>2, SeqDef, LenProperties
<1>4. l \in 0..n /\ l <= Len(b)
  BY <1>3
<1> QED BY <1>1, <1>3, <1>4, SubSeqProperties

\* Rounding up does not make a request smaller.
LEMMA RoundedUp ==
  ASSUME NEW a \in Nat, NEW u \in Nat \ {0}
  PROVE  Adjust(a, u) >= a
<1> DEFINE q == (a + u - 1) \div u
           e == (a + u - 1) % u
<1>1. a + u - 1 = u * q + e /\ e \in 0..u - 1 /\ q \in Nat
  OBVIOUS
<1> HIDE DEF q, e
<1>2. q * u = u * q /\ u * q \in Nat
  BY <1>1
<1>3. q * u >= a
  BY <1>1, <1>2
<1> QED BY <1>3 DEF Adjust, q

\* Whatever block a part gets for a request, it begins with what both sizes have
\* room for.
LEMMA RequestKeeps ==
  ASSUME NEW i \in Parts, Sizes, "shrink" \notin Refusals,
         NEW b, IsSeq(b), size[i] <= Len(b), NEW request \in Nat,
         NEW o \in PhysicalAlloc(i, b, request),
         NEW r \in Nat, r <= size[i], r <= request, r <= o.answer
  PROVE  Begins(o.mem, b, r)
<1> SUFFICES \A k \in 1..r : k <= Len(o.mem) /\ k <= Len(b) /\ o.mem[k] = b[k]
  BY DEF Begins
<1> DEFINE n == Adjust(request, AllocUnit(i))
<1>1. n \in Nat /\ n >= request /\ Len(b) \in Nat /\ size[i] \in Nat
  <2>1. AllocUnit(i) \in Nat \ {0} /\ Kind[i] \in Pools
    BY ChainTypes
  <2>2. n \in Nat /\ n >= request
    BY <2>1, Rounded, RoundedUp
  <2> HIDE DEF n
  <2>3. Len(b) \in Nat /\ size[i] \in Nat
    BY BlockLen DEF Sizes
  <2> QED BY <2>2, <2>3
<1> HIDE DEF n
<1>2. Fair(i, o)
  BY RequestFair
<1>3. r <= Len(b) /\ r <= Len(o.mem) /\ Len(o.mem) \in Nat /\ o.answer \in Nat
  <2>1. IsSeq(o.mem) /\ o.answer \in Nat /\ o.answer <= Len(o.mem)
    BY <1>2 DEF Fair
  <2>2. Len(o.mem) \in Nat
    BY <2>1, BlockLen
  <2> QED BY <1>1, <2>1, <2>2
<1>4. CASE b = <<>> \/ request = 0
  <2>1. b = <<>> => Len(b) = 0
    BY BlockLen
  <2>2. r = 0
    BY <1>1, <1>3, <1>4, <2>1
  <2> QED BY <2>2
<1>5. CASE b # <<>> /\ request # 0
  <2>1. PICK q \in Realloc(i, b, request) :
          o \in IF q.answer # request /\ request <= free[Kind[i]] - q.taken
                THEN WithoutManager(i, q, request) ELSE {q}
    BY <1>5 DEF PhysicalAlloc
  <2>2. q.mem = Resized(b, n) \/ q.mem = b
    <3>1. \/ q = Outcome(Resized(b, n), n - Len(b), n)
          \/ q \in {Outcome(b, 0, Len(b)), Outcome(b, 0, size[i])}
      BY <2>1 DEF Realloc, n
    <3> QED BY <3>1, Shape
  <2>3. /\ IsSeq(q.mem) /\ Len(q.mem) \in Nat /\ r <= Len(q.mem)
        /\ \A k \in 1..r : q.mem[k] = b[k]
    <3>1. CASE q.mem = Resized(b, n)
      <4>1. IsSeq(Resized(b, n)) /\ Len(Resized(b, n)) = n
        BY <1>1, ResizedHolds
      <4>2. \A k \in 1..n : Resized(b, n)[k] = IF k <= Len(b) THEN b[k] ELSE Junk
        BY DEF Resized
      <4>3. \A k \in 1..r : k \in 1..n /\ k <= Len(b)
        BY <1>1, <1>3
      <4> QED BY <1>1, <3>1, <4>1, <4>2, <4>3
    <3>2. CASE q.mem = b
      BY <1>1, <1>3, <3>2
    <3> QED BY <2>2, <3>1, <3>2
  <2>4. CASE o = q
    BY <1>3, <2>3, <2>4
  <2>5. CASE o # q
    <3> DEFINE l == Least(q.answer, Len(q.mem))
               part_1 == SubSeq(q.mem, 1, l)
    <3>1. \E t : o = Outcome(Resized(part_1, n), t, q.answer)
      BY <2>1, <2>5 DEF WithoutManager, n
    <3>2. o.mem = Resized(part_1, n) /\ o.answer = q.answer
      <4> HIDE DEF part_1
      <4> QED BY <3>1, Shape
    <3>3. l \in 0..Len(q.mem) /\ r <= l
      BY <1>3, <2>3, <3>2 DEF Least
    <3> HIDE DEF l
    <3>4. Len(part_1) = l /\ \A k \in 1..l : part_1[k] = q.mem[k]
      BY <2>3, <3>3, SubSeqIs
    <3> HIDE DEF part_1
    <3>5. \A k \in 1..n : Resized(part_1, n)[k] = IF k <= Len(part_1) THEN part_1[k] ELSE Junk
      BY DEF Resized
    <3>6. \A k \in 1..r : k \in 1..n /\ k \in 1..l
      BY <1>1, <3>3, <2>3
    <3> QED BY SMTT(60), <1>3, <2>3, <3>2, <3>4, <3>5, <3>6
  <2> QED BY <2>4, <2>5
<1> QED BY <1>4, <1>5

\* The activations of AllocPart: each is about a later part than its caller and
\* knows where its part begins.
Frames(sz, st) ==
    /\ st \in Seq(FrameSet)
    /\ \A j \in 1..Len(st) : /\ st[j].part \in 1..Len(Kind) + 1
                             /\ st[j].first = FirstOf(sz, st[j].part)
    /\ \A j, k \in 1..Len(st) : j < k => st[k].part < st[j].part

LEMMA FramesTail ==
  ASSUME NEW sz, NEW st, Frames(sz, st), st # <<>>
  PROVE  /\ Frames(sz, Tail(st)) /\ \A j \in 1..Len(Tail(st)) : Tail(st)[j].part < st[1].part
         /\ Head(st) = st[1] /\ st[1] \in FrameSet /\ st[1].part \in 1..Len(Kind) + 1
         /\ st[1].first = FirstOf(sz, st[1].part)
<1> DEFINE t == Tail(st)
<1>1. st \in Seq(FrameSet) /\ Len(st) \in Nat /\ 1 \in 1..Len(st)
  BY EmptySeq, LenProperties DEF Frames
<1>2. /\ Head(st) = st[1] /\ st[1] \in FrameSet /\ t \in Seq(FrameSet) /\ Len(t) = Len(st) - 1
      /\ \A j \in 1..Len(t) : t[j] = st[j + 1]
  BY <1>1, HeadTailProperties, ElementOfSeq
<1> HIDE DEF t
<1>3. \A j \in 1..Len(t) : j + 1 \in 1..Len(st) /\ 1 < j + 1
  BY <1>1, <1>2
<1>4. \A j \in 1..Len(t) : t[j].part < st[1].part
  BY <1>1, <1>2, <1>3 DEF Frames
<1>5. \A j \in 1..Len(t) : t[j].part \in 1..Len(Kind) + 1 /\ t[j].first = FirstOf(sz, t[j].part)
  BY <1>2, <1>3 DEF Frames
<1>6. \A j, k \in 1..Len(t) : j < k => t[k].part < t[j].part
  <2> SUFFICES ASSUME NEW j \in 1..Len(t), NEW k \in 1..Len(t), j < k PROVE t[k].part < t[j].part
    OBVIOUS
  <2>1. j + 1 \in 1..Len(st) /\ k + 1 \in 1..Len(st) /\ j + 1 < k + 1
    BY <1>3
  <2>2. st[k + 1].part < st[j + 1].part
    BY <2>1 DEF Frames
  <2> QED BY <1>2, <2>2
<1> QED BY <1>1, <1>2, <1>4, <1>5, <1>6 DEF Frames, t

LEMMA FramesPush ==
  ASSUME NEW sz, NEW st, Frames(sz, st), NEW x \in FrameSet, x.part \in 1..Len(Kind) + 1,
         x.first = FirstOf(sz, x.part), \A j \in 1..Len(st) : st[j].part < x.part
  PROVE  /\ Frames(sz, <<x>> \o st)
         /\ \A y \in Int : y > x.part => \A j \in 1..Len(<<x>> \o st) : (<<x>> \o st)[j].part < y
<1> DEFINE t == <<x>> \o st
<1>1. st \in Seq(FrameSet) /\ Len(st) \in Nat
  BY LenProperties DEF Frames
<1>2. <<x>> \in Seq(FrameSet) /\ Len(<<x>>) = 1 /\ <<x>>[1] = x
  OBVIOUS
<1>3. t \in Seq(FrameSet) /\ Len(t) = 1 + Len(st)
      /\ \A j \in 1..Len(t) : t[j] = IF j = 1 THEN x ELSE st[j - 1]
  BY <1>1, <1>2, ConcatProperties
<1> HIDE DEF t
<1>4. \A j \in 1..Len(t) : j # 1 => j - 1 \in 1..Len(st)
  BY <1>1, <1>3
<1>5. \A j \in 1..Len(t) : t[j].part \in 1..Len(Kind) + 1 /\ t[j].first = FirstOf(sz, t[j].part)
                           /\ (j # 1 => t[j].part < x.part)
  BY ZenonT(60), <1>3, <1>4 DEF Frames
<1>6. \A j, k \in 1..Len(t) : j < k => t[k].part < t[j].part
  <2> SUFFICES ASSUME NEW j \in 1..Len(t), NEW k \in 1..Len(t), j < k PROVE t[k].part < t[j].part
    OBVIOUS
  <2>1. k # 1
    BY <1>1, <1>3
  <2>2. CASE j = 1
    BY <1>3, <1>5, <2>1, <2>2
  <2>3. CASE j # 1
    <3>1. j - 1 \in 1..Len(st) /\ k - 1 \in 1..Len(st) /\ j - 1 < k - 1
      BY <1>1, <1>3, <2>1, <2>3
    <3>2. st[k - 1].part < st[j - 1].part
      BY <3>1 DEF Frames
    <3> QED BY <1>3, <2>1, <2>3, <3>2
  <2> QED BY <2>2, <2>3
<1>7. ASSUME NEW y \in Int, y > x.part, NEW j \in 1..Len(t) PROVE t[j].part < y
  <2>1. t[j].part \in Int /\ x.part \in Int
    BY <1>5, ChainTypes
  <2>2. j = 1 => t[j] = x
    BY <1>3
  <2>3. j # 1 => t[j].part < x.part
    BY <1>5
  <2> QED BY <1>7, <2>1, <2>2, <2>3
<1> QED BY <1>3, <1>5, <1>6, <1>7 DEF Frames, t

\* A part may change its size while only parts up to it are being worked on.
LEMMA FramesSame ==
  ASSUME NEW s1 \in [Parts -> Nat], NEW st, Frames(s1, st), NEW i \in Parts, NEW a \in Nat,
         \A j \in 1..Len(st) : st[j].part <= i
  PROVE  Frames(WithSize(s1, i, a), st)
<1> DEFINE s2 == WithSize(s1, i, a)
<1>1. \A p \in 1..Len(Kind) + 1 : FirstOf(s2, p) = FirstOf(s1, p) + IF p > i THEN a - s1[i] ELSE 0
  BY FirstOfShifts DEF Shifted
<1>2. \A p \in 1..Len(Kind) + 1 : FirstOf(s1, p) \in Nat
  BY FirstOfSteps
<1> HIDE DEF s2
<1>3. ASSUME NEW p \in 1..Len(Kind) + 1, p <= i PROVE FirstOf(s2, p) = FirstOf(s1, p)
  <2>1. ~(p > i) /\ FirstOf(s1, p) \in Nat
    BY <1>2, <1>3, ChainTypes
  <2> QED BY <1>1, <2>1
<1>4. \A j \in 1..Len(st) : FirstOf(s2, st[j].part) = FirstOf(s1, st[j].part)
  BY <1>3 DEF Frames
<1>5. Frames(s2, st)
  BY <1>4 DEF Frames
<1> QED BY <1>5 DEF s2

\* The activations that wait for the parts behind them to make room.
Waiting(sz, wn, st) ==
    \A j \in 1..Len(st) : st[j].below => st[j].part \in Parts /\ wn[st[j].part] < sz[st[j].part]

LEMMA WaitingTail ==
  ASSUME NEW sz, NEW wn, NEW st \in Seq(FrameSet), Waiting(sz, wn, st), st # <<>>
  PROVE  /\ Waiting(sz, wn, Tail(st))
         /\ Head(st).below => wn[Head(st).part] < sz[Head(st).part]
<1>1. Len(st) \in Nat /\ 1 \in 1..Len(st)
  BY EmptySeq, LenProperties
<1> DEFINE t == Tail(st)
<1>2. Head(st) = st[1] /\ Len(t) = Len(st) - 1 /\ \A j \in 1..Len(t) : t[j] = st[j + 1]
  BY <1>1, HeadTailProperties
<1> HIDE DEF t
<1>3. \A j \in 1..Len(t) : j + 1 \in 1..Len(st)
  BY <1>1, <1>2
<1>4. Waiting(sz, wn, t)
  BY <1>2, <1>3 DEF Waiting
<1> QED BY <1>1, <1>2, <1>4 DEF Waiting, t

LEMMA WaitingPush ==
  ASSUME NEW sz, NEW wn, NEW st \in Seq(FrameSet), Waiting(sz, wn, st), NEW x \in FrameSet,
         x.below => x.part \in Parts /\ wn[x.part] < sz[x.part]
  PROVE  Waiting(sz, wn, <<x>> \o st)
<1> DEFINE t == <<x>> \o st
<1>1. Len(st) \in Nat
  BY LenProperties
<1>2. <<x>> \in Seq(FrameSet) /\ Len(<<x>>) = 1 /\ <<x>>[1] = x
  OBVIOUS
<1>3. Len(t) = 1 + Len(st) /\ \A j \in 1..Len(t) : t[j] = IF j = 1 THEN x ELSE st[j - 1]
  BY <1>1, <1>2, ConcatProperties
<1> HIDE DEF t
<1>4. \A j \in 1..Len(t) : j # 1 => j - 1 \in 1..Len(st)
  BY <1>1, <1>3
<1>5. Waiting(sz, wn, t)
  BY <1>3, <1>4 DEF Waiting
<1> QED BY <1>5 DEF t

LEMMA WaitingSame ==
  ASSUME NEW sz \in [Parts -> Nat], NEW wn \in [Parts -> Nat], NEW st, Waiting(sz, wn, st),
         NEW i \in Parts, NEW a, \A j \in 1..Len(st) : st[j].part < i
  PROVE  Waiting(WithSize(sz, i, a), WithSize(wn, i, a), st)
<1> DEFINE s2 == WithSize(sz, i, a)
           w2 == WithSize(wn, i, a)
<1>1. \A p \in Parts \ {i} : s2[p] = sz[p] /\ w2[p] = wn[p]
  BY DEF WithSize
<1> HIDE DEF s2, w2
<1>2. \A p \in Parts : p < i => p # i
  BY ChainTypes
<1>3. Waiting(s2, w2, st)
  BY <1>1, <1>2 DEF Waiting
<1> QED BY <1>3 DEF s2, w2

LEMMA BlockGiven ==
  ASSUME NEW bl, BlocksOK(bl), NEW i \in Parts, NEW m, IsSeq(m)
  PROVE  BlocksOK(WithBlock(bl, i, m)) /\ WithBlock(bl, i, m)[i] = m
<1> DEFINE b2 == WithBlock(bl, i, m)
<1>1. bl = [p \in Parts |-> bl[p]] /\ \A p \in Parts : IsSeq(bl[p])
  BY DEF BlocksOK
<1>2. b2 = [p \in Parts |-> IF p = i THEN m ELSE bl[p]]
  BY <1>1 DEF WithBlock
<1>3. b2 = [p \in Parts |-> b2[p]] /\ \A p \in Parts : b2[p] = IF p = i THEN m ELSE bl[p]
  BY <1>2
<1> HIDE DEF b2
<1>4. BlocksOK(b2) /\ b2[i] = m
  BY <1>1, <1>3 DEF BlocksOK
<1> QED BY <1>4 DEF b2

\* A part that grows: the sectors behind its old end are renumbered, and then
\* moved down to their old numbers.
LEMMA GrowKeeps ==
  ASSUME NEW bl, BlocksOK(bl), NEW s1 \in [Parts -> Nat], NEW i \in Parts, NEW m, IsSeq(m),
         NEW a \in Nat, s1[i] <= a,
         Begins(m, bl[i], s1[i]),
         NEW used \in Int,
         ~Unbacked(WithBlock(bl, i, m), WithSize(s1, i, a), FirstOf(s1, i + 1),
                   FirstOf(s1, i) + a, used - FirstOf(s1, i + 1))
  PROVE  LET b2 == WithBlock(bl, i, m)
             s2 == WithSize(s1, i, a)
         IN \A s \in 0..used - 1 :
               Sector(MoveSectors(b2, s2, FirstOf(s1, i + 1), FirstOf(s1, i) + a,
                                  used - FirstOf(s1, i + 1)), s2, s) = Sector(bl, s1, s)
<1> DEFINE b2 == WithBlock(bl, i, m)
           s2 == WithSize(s1, i, a)
           end == FirstOf(s1, i + 1)
           back == FirstOf(s1, i) + a
           after == MoveSectors(b2, s2, end, back, used - end)
<1>1. s1[i] \in Nat /\ end \in Nat /\ FirstOf(s1, i) \in Nat /\ end = FirstOf(s1, i) + s1[i]
  <2>1. i \in 1..Len(Kind) + 1 /\ i + 1 \in 1..Len(Kind) + 1
    BY ChainTypes
  <2> QED BY <2>1, FirstOfSteps
<1>2. BlocksOK(b2)
  BY BlockGiven
<1>3. s2 \in [Parts -> Nat]
  BY DEF WithSize
<1>4. /\ \A s \in Int : s < end => Sector(b2, s2, s) = Sector(bl, s1, s)
      /\ \A s \in Int : s >= end => Sector(b2, s2, s + a - s1[i]) = Sector(bl, s1, s)
  <2>1. s1[i] <= s1[i]
    BY <1>1
  <2>2. Renumbering(b2, s2, bl, s1, i, a, s1[i])
    BY <1>1, <2>1, Renumbered
  <2> HIDE DEF b2, s2
  <2> QED BY <1>1, <2>2 DEF Renumbering
<1>5. ~Unbacked(b2, s2, end, back, used - end)
  OBVIOUS
<1> HIDE DEF b2, s2
<1>6. back \in Int /\ used - end \in Int
  BY <1>1
<1> HIDE DEF end, back
<1>7. Arrived(after, b2, s2, end, back, 0, used - end)
  <2>1. end \in Int
    BY <1>1
  <2> QED BY ONLY <1>2, <1>3, <1>5, <1>6, <2>1, ContentsMove
<1> HIDE DEF after
<1>8. ASSUME NEW s \in 0..used - 1 PROVE Sector(after, s2, s) = Sector(bl, s1, s)
  <2>1. Sector(after, s2, s) = IF end + 0 <= s /\ s < end + (used - end)
                               THEN Sector(b2, s2, back + s - end) ELSE Sector(b2, s2, s)
    BY <1>7 DEF Arrived
  <2>2. s \in Int /\ s < end + (used - end)
    BY <1>1
  <2>3. CASE s < end
    BY <1>1, <1>4, <2>1, <2>2, <2>3
  <2>4. CASE s >= end
    <3>1. back + s - end = s + a - s1[i]
      BY <1>1, <1>6, <2>2 DEF back, end
    <3>2. Sector(b2, s2, s + a - s1[i]) = Sector(bl, s1, s)
      BY <1>4, <2>2, <2>4
    <3> QED BY <1>1, <2>1, <2>2, <2>4, <3>1, <3>2
  <2> QED BY <1>1, <2>2, <2>3, <2>4
<1> QED BY <1>8 DEF after, end, back, b2, s2

Returned(room, bl, s1, i, m, w, a, used) ==
    LET b2 == WithBlock(room, i, m)
        s2 == WithSize(s1, i, a)
    IN \A s \in 0..used - 1 :
          Sector(MoveSectors(b2, s2, FirstOf(s1, i) + w, FirstOf(s1, i) + a,
                             used - (FirstOf(s1, i) + w)), s2, s) = Sector(bl, s1, s)

\* A part that shrinks: the sectors above its new end w are moved behind its old
\* end, which are renumbered; where the part kept more than was asked for, they
\* are moved back down.
LEMMA ShrinkKeeps ==
  ASSUME NEW bl, BlocksOK(bl), NEW s1 \in [Parts -> Nat], NEW i \in Parts, NEW m, IsSeq(m),
         NEW w \in Nat, w < s1[i], NEW a \in Nat, w <= a, NEW used \in Int, NEW room,
         room = MoveSectors(bl, s1, FirstOf(s1, i + 1), FirstOf(s1, i) + w,
                            used - (FirstOf(s1, i) + w)),
         ~Unbacked(bl, s1, FirstOf(s1, i + 1), FirstOf(s1, i) + w, used - (FirstOf(s1, i) + w)),
         Begins(m, room[i], w),
         ~Unbacked(WithBlock(room, i, m), WithSize(s1, i, a), FirstOf(s1, i) + w,
                   FirstOf(s1, i) + a, used - (FirstOf(s1, i) + w))
  PROVE  Returned(room, bl, s1, i, m, w, a, used)
<1> DEFINE b2 == WithBlock(room, i, m)
           s2 == WithSize(s1, i, a)
           old == FirstOf(s1, i + 1)
           new == FirstOf(s1, i) + w
           back == FirstOf(s1, i) + a
           over == used - new
           after == MoveSectors(b2, s2, new, back, over)
<1>1. s1[i] \in Nat /\ old \in Nat /\ FirstOf(s1, i) \in Nat /\ old = FirstOf(s1, i) + s1[i]
  <2>1. i \in 1..Len(Kind) + 1 /\ i + 1 \in 1..Len(Kind) + 1
    BY ChainTypes
  <2> QED BY <2>1, FirstOfSteps
<1>2. new \in Int /\ back \in Int /\ over \in Int /\ new < old /\ new + over = used
  BY <1>1
<1>3. room = MoveSectors(bl, s1, old, new, over) /\ ~Unbacked(bl, s1, old, new, over)
      /\ ~Unbacked(b2, s2, new, back, over)
  OBVIOUS
<1>4. SameSize(room, bl) /\ Arrived(room, bl, s1, old, new, 0, over)
  <2> HIDE DEF b2, s2, old, new, back, over
  <2>1. old \in Int /\ new \in Int /\ over \in Int /\ s1 \in [Parts -> Nat] /\ BlocksOK(bl)
    BY <1>1, <1>2
  <2>2. SameSize(room, bl)
    BY ONLY <1>3, <2>1, MovesKeep
  <2>3. Arrived(room, bl, s1, old, new, 0, over)
    BY ONLY <1>3, <2>1, ContentsMove
  <2> QED BY <2>2, <2>3
<1>5. BlocksOK(room)
  BY <1>4 DEF SameSize
<1>6. BlocksOK(b2)
  BY <1>5, BlockGiven
<1>7. s2 \in [Parts -> Nat]
  BY DEF WithSize
<1>8. /\ \A s \in Int : s < new => Sector(b2, s2, s) = Sector(room, s1, s)
      /\ \A s \in Int : s >= old => Sector(b2, s2, s + a - s1[i]) = Sector(room, s1, s)
  <2>1. w <= s1[i]
    BY <1>1
  <2>2. Renumbering(b2, s2, room, s1, i, a, w)
    BY <1>5, <2>1, Renumbered
  <2> HIDE DEF b2, s2
  <2> QED BY <2>2 DEF Renumbering
<1> HIDE DEF b2, s2
<1>9. Arrived(after, b2, s2, new, back, 0, over)
  <2> HIDE DEF new, back, over
  <2> QED BY ONLY <1>2, <1>3, <1>6, <1>7, ContentsMove
<1>10. back - new = a - w /\ old - new = s1[i] - w
  BY <1>1
<1> HIDE DEF after, old, new, back, over
<1>11. ASSUME NEW s \in 0..used - 1 PROVE Sector(after, s2, s) = Sector(bl, s1, s)
  <2>1. Sector(after, s2, s) = IF new + 0 <= s /\ s < new + over
                               THEN Sector(b2, s2, back + s - new) ELSE Sector(b2, s2, s)
    BY <1>9 DEF Arrived
  <2>2. s \in Int /\ s < new + over
    BY <1>2
  <2>3. CASE s < new
    <3>1. Sector(after, s2, s) = Sector(room, s1, s)
      BY <1>2, <1>8, <2>1, <2>2, <2>3
    <3>2. Sector(room, s1, s) = IF old + 0 <= s /\ s < old + over
                                THEN Sector(bl, s1, new + s - old) ELSE Sector(bl, s1, s)
      BY <1>4, <2>2 DEF Arrived
    <3>3. ~(old + 0 <= s)
      BY <1>1, <1>2, <2>2, <2>3
    <3> QED BY <3>1, <3>2, <3>3
  <2>4. CASE s >= new
    <3> DEFINE t == s + old - new
    <3>1. t \in Int /\ t >= old /\ t + a - s1[i] = back + s - new /\ t < old + over /\ new + t - old = s
      BY <1>1, <1>2, <1>10, <2>2, <2>4
    <3> HIDE DEF t
    <3>2. Sector(b2, s2, back + s - new) = Sector(room, s1, t)
      BY <1>8, <3>1
    <3>3. Sector(room, s1, t) = IF old + 0 <= t /\ t < old + over
                                THEN Sector(bl, s1, new + t - old) ELSE Sector(bl, s1, t)
      BY <1>4, <3>1 DEF Arrived
    <3>4. old + 0 <= t
      BY <1>1, <3>1
    <3>5. Sector(room, s1, t) = Sector(bl, s1, s)
      BY <3>1, <3>3, <3>4
    <3>6. new + 0 <= s
      BY <1>2, <2>2, <2>4
    <3> QED BY <2>1, <2>2, <3>2, <3>5, <3>6
  <2> QED BY <1>2, <2>2, <2>3, <2>4
<1> QED BY <1>11 DEF after, old, new, back, over, b2, s2, Returned

\* Between the steps of the allocation a disk is addressed by the sizes of its
\* parts, and the activations of AllocPart that wait are about parts to shrink,
\* each knowing where its part begins.  They are there only during an allocation.
Held ==
    /\ alloc # "lost" => sect = size
    /\ alloc = "lost" => pc \in {"growing", "undoing", "shrinking", "fatal"}
    /\ alloc \in {"calc", "part"} => pc \in {"growing", "undoing", "shrinking"}
    /\ alloc # "part" => stack = <<>>
    /\ Frames(size, stack) /\ Waiting(size, want, stack)

LEMMA PairIs ==
  ASSUME NEW a \in FrameSet, NEW b \in FrameSet
  PROVE  <<a, b>> = <<a>> \o <<b>>
<1> DEFINE x == <<a>>
           y == <<b>>
           t == <<a, b>>
<1>1. x \in Seq(FrameSet) /\ y \in Seq(FrameSet) /\ t \in Seq(FrameSet)
      /\ Len(x) = 1 /\ Len(y) = 1 /\ Len(t) = 2 /\ x[1] = a /\ y[1] = b /\ t[1] = a /\ t[2] = b
  OBVIOUS
<1> HIDE DEF x, y, t
<1>2. x \o y \in Seq(FrameSet) /\ Len(x \o y) = 2
      /\ \A i \in 1..2 : (x \o y)[i] = IF i <= 1 THEN x[i] ELSE y[i - 1]
  BY SMTT(60), <1>1, ConcatProperties
<1>3. \A i \in 1..Len(t) : t[i] = (x \o y)[i]
  <2>1. (x \o y)[1] = a /\ (x \o y)[2] = b
    BY <1>1, <1>2
  <2>2. \A i \in 1..Len(t) : i = 1 \/ i = 2
    BY <1>1
  <2> QED BY <1>1, <2>1, <2>2
<1>4. t = x \o y
  BY <1>1, <1>2, <1>3, SeqEqual
<1> QED BY <1>4 DEF x, y, t

LEMMA NoFrames ==
  ASSUME NEW sz
  PROVE  Frames(sz, <<>>)
  BY EmptySeq DEF Frames

LEMMA TopIs ==
  ASSUME ChainOK, Held, Begun
  PROVE  /\ Part \in Parts /\ size \in [Parts -> Nat] /\ sect = size /\ want[Part] \in Nat
         /\ IsSeq(block[Part]) /\ size[Part] \in Nat /\ size[Part] <= Len(block[Part])
         /\ Top.first = FirstOf(size, Part) /\ FirstOf(size, Part) \in Nat
         /\ OldEnd = FirstOf(size, Part + 1) /\ NewEnd = FirstOf(size, Part) + want[Part]
         /\ Frames(size, Tail(stack)) /\ \A j \in 1..Len(Tail(stack)) : Tail(stack)[j].part < Part
         /\ Part \in Int /\ Part + 1 \in 1..Len(Kind) + 1
         /\ Top.below => want[Part] < size[Part]
         /\ Waiting(size, want, Tail(stack))
<1>1. Part \in Parts /\ stack # <<>> /\ alloc = "part" /\ Frames(size, stack) /\ sect = size
  BY DEF Begun, Held
<1>2. size \in [Parts -> Nat] /\ want \in [Parts -> Nat]
  BY DEF ChainOK, MemOK, Sizes
<1>3. IsSeq(block[Part]) /\ size[Part] <= Len(block[Part]) /\ want[Part] \in Nat /\ size[Part] \in Nat
  BY <1>1, <1>2 DEF ChainOK, MemOK, BlocksOK
<1>4. /\ Frames(size, Tail(stack)) /\ \A j \in 1..Len(Tail(stack)) : Tail(stack)[j].part < Part
      /\ Top.first = FirstOf(size, Part)
  BY <1>1, FramesTail DEF Top, Part
<1>5. Part \in Int /\ Part + 1 \in 1..Len(Kind) + 1 /\ Part \in 1..Len(Kind) + 1
  BY <1>1, ChainTypes
<1>6. FirstOf(size, Part) \in Nat /\ FirstOf(size, Part + 1) = FirstOf(size, Part) + size[Part]
  BY <1>1, <1>2, <1>5, FirstOfSteps
<1>7. (Top.below => want[Part] < size[Part]) /\ Waiting(size, want, Tail(stack))
  <2>1. stack \in Seq(FrameSet) /\ Waiting(size, want, stack)
    BY DEF ChainOK, Held
  <2> QED BY <1>1, <2>1, WaitingTail DEF Top, Part
<1> QED BY <1>1, <1>2, <1>3, <1>4, <1>5, <1>6, <1>7 DEF OldEnd, NewEnd

\* The frame of the next part, below the frames of the parts before it.
LEMMA NextFrame ==
  ASSUME ChainOK, Held, Begun, NEW a \in Nat
  PROVE  LET s2 == WithSize(size, Part, a) IN
         /\ s2 \in [Parts -> Nat] /\ Frames(s2, Tail(stack))
         /\ Frames(s2, <<Frame(Part + 1, Top.first + a)>> \o Tail(stack))
<1> DEFINE i == Part
           st == Tail(stack)
           s2 == WithSize(size, i, a)
           x == Frame(i + 1, Top.first + a)
<1>1. /\ i \in Parts /\ size \in [Parts -> Nat] /\ Top.first = FirstOf(size, i) /\ FirstOf(size, i) \in Nat
      /\ Frames(size, st) /\ (\A j \in 1..Len(st) : st[j].part < i) /\ i \in Int
      /\ i + 1 \in 1..Len(Kind) + 1
  BY TopIs
<1>2. i \in 1..Len(Kind) + 1
  BY <1>1, ChainTypes
<1>3. \A j \in 1..Len(st) : st[j].part \in Int
  BY <1>1, ChainTypes DEF Frames
<1> HIDE DEF i, st
<1>4. \A j \in 1..Len(st) : st[j].part <= i /\ st[j].part < i + 1
  BY <1>1, <1>3
<1>5. Frames(s2, st)
  BY <1>1, <1>4, FramesSame
<1>6. Shifted(s2, size, i, a)
  BY <1>1, FirstOfShifts
<1> HIDE DEF s2
<1>7. FirstOf(s2, i) = FirstOf(size, i) /\ s2 \in [Parts -> Nat] /\ s2[i] = a
  <2>1. ~(i > i) /\ FirstOf(size, i) + 0 = FirstOf(size, i)
    BY <1>1
  <2> QED BY <1>2, <1>6, <2>1 DEF Shifted
<1>8. FirstOf(s2, i + 1) = FirstOf(size, i) + a
  <2>1. FirstOf(s2, i + 1) = FirstOf(s2, i) + s2[i]
    BY <1>1, <1>7, FirstOfSteps
  <2> QED BY <1>7, <2>1
<1>9. x \in FrameSet /\ x.part = i + 1 /\ x.first = FirstOf(s2, i + 1)
  <2>1. Top.first + a \in Int /\ i + 1 \in Int
    BY <1>1
  <2>2. x \in FrameSet
    BY <2>1, FrameOK
  <2>3. x.part = i + 1 /\ x.first = Top.first + a
    BY DEF Frame
  <2> QED BY <1>1, <1>8, <2>2, <2>3
<1> HIDE DEF x
<1>10. Frames(s2, <<x>> \o st)
  <2>1. x.part \in 1..Len(Kind) + 1 /\ \A j \in 1..Len(st) : st[j].part < x.part
    BY <1>1, <1>4, <1>9
  <2> QED BY <1>5, <1>9, <2>1, FramesPush
<1> QED BY <1>5, <1>7, <1>10 DEF s2, x, i, st

-----------------------------------------------------------------------------
\* The steps, one by one: how the disk is addressed afterwards, and that the
\* sectors that are to survive are what they were.
KeptOn ==
    /\ (alloc' # "lost" => sect' = size') /\ Frames(size', stack')
    /\ (alloc' # "lost" /\ ~ioerr' =>
          \A s \in 0..(saved - 1) : Sector(block', sect', s) = Sector(block, sect, s))

LEMMA NothingMoves ==
  ASSUME UNCHANGED block, sect' = sect
  PROVE  \A s \in 0..(saved - 1) : Sector(block', sect', s) = Sector(block, sect, s)
  OBVIOUS

LEMMA CalculateKeeps ==
  ASSUME ChainOK, Held, Calculate
  PROVE  KeptOn
<1>1. alloc = "calc" /\ sect = size /\ Frames(size, stack) /\ UNCHANGED <<block, size>>
  BY DEF Calculate, Held
<1>2. sect' = sect
  BY <1>1 DEF Calculate, SetSectors
<1>3. stack' = stack \/ stack' = <<Frame(1, 0)>>
  BY DEF Calculate
<1>4. Frames(size', stack')
  <2>1. CASE stack' = stack
    BY <1>1, <2>1
  <2>2. CASE stack' = <<Frame(1, 0)>>
    <3>1. size \in [Parts -> Nat]
      BY DEF ChainOK, MemOK, Sizes
    <3>2. Frame(1, 0) \in FrameSet /\ Frame(1, 0).part = 1 /\ Frame(1, 0).first = FirstOf(size, 1)
      BY <3>1, FrameOK, FirstOfSteps DEF Frame
    <3>3. Len(<<>>) = 0 /\ 1 \in 1..Len(Kind) + 1 /\ <<Frame(1, 0)>> \o <<>> = <<Frame(1, 0)>>
      <4>1. <<Frame(1, 0)>> \in Seq(FrameSet)
        BY <3>2
      <4> QED BY <4>1, ChainTypes, ConcatEmptySeq
    <3>4. Frames(size, <<Frame(1, 0)>> \o <<>>)
      <4>1. \A j \in 1..Len(<<>>) : <<>>[j].part < Frame(1, 0).part
        BY <3>3
      <4> QED BY <3>2, <3>3, <4>1, NoFrames, FramesPush
    <3> QED BY <1>1, <2>2, <3>3, <3>4
  <2> QED BY <1>3, <2>1, <2>2
<1> QED BY <1>1, <1>2, <1>4, NothingMoves DEF KeptOn

LEMMA PartKeptKeeps ==
  ASSUME ChainOK, Held, PartKept
  PROVE  KeptOn
<1>1. Begun /\ UNCHANGED <<block, size, sect, alloc>>
      /\ stack' = <<Frame(Part + 1, NewEnd)>> \o Tail(stack) /\ want[Part] = size[Part]
  BY DEF PartKept
<1>2. NewEnd = Top.first + size[Part] /\ size[Part] \in Nat /\ sect = size
  BY <1>1, TopIs DEF NewEnd
<1>3. WithSize(size, Part, size[Part]) = size
  BY <1>1, TopIs DEF WithSize
<1>4. Frames(size, <<Frame(Part + 1, NewEnd)>> \o Tail(stack))
  <2> DEFINE a == size[Part]
  <2>1. a \in Nat
    BY <1>2
  <2> HIDE DEF a
  <2>2. Frames(WithSize(size, Part, a), <<Frame(Part + 1, Top.first + a)>> \o Tail(stack))
    BY <1>1, <2>1, NextFrame
  <2> QED BY <1>2, <1>3, <2>2 DEF a
<1> QED BY <1>1, <1>2, <1>4, NothingMoves DEF KeptOn

LEMMA ChainEndKeeps ==
  ASSUME ChainOK, Held, ChainEnd \/ Allocated
  PROVE  KeptOn
<1>1. alloc = "part" /\ sect = size /\ Frames(size, stack) /\ UNCHANGED <<block, size>>
      /\ (stack' = stack \/ (stack' = Tail(stack) /\ stack # <<>>))
  BY DEF ChainEnd, Allocated, Held
<1>2. sect' = sect
  BY <1>1 DEF ChainEnd, Allocated, SetSectors
<1>3. Frames(size', stack')
  BY <1>1, FramesTail
<1> QED BY <1>1, <1>2, <1>3, NothingMoves DEF KeptOn

LEMMA PartShrinksKeeps ==
  ASSUME ChainOK, Held, PartShrinks
  PROVE  KeptOn
<1> DEFINE x == Frame(Part + 1, OldEnd)
           y == [Top EXCEPT !.below = TRUE]
           st == Tail(stack)
<1>1. Begun /\ UNCHANGED <<block, size, sect, alloc>> /\ stack' = <<x, y>> \o st
  BY DEF PartShrinks
<1>2. /\ sect = size /\ size \in [Parts -> Nat] /\ Frames(size, st) /\ Part \in Parts /\ Part \in Int
      /\ (\A j \in 1..Len(st) : st[j].part < Part) /\ OldEnd = FirstOf(size, Part + 1)
      /\ Part + 1 \in 1..Len(Kind) + 1 /\ OldEnd \in Int
  BY <1>1, TopIs, TopOK
<1>3. Top \in FrameSet /\ Top.part = Part /\ Top.first = FirstOf(size, Part)
  BY <1>1, TopIs, TopOK DEF Part
<1>4. y \in FrameSet /\ y.part = Part /\ y.first = FirstOf(size, Part)
  BY <1>3 DEF FrameSet
<1>5. x \in FrameSet /\ x.part = Part + 1 /\ x.first = FirstOf(size, Part + 1)
  <2>1. x \in FrameSet
    BY <1>2, FrameOK
  <2> QED BY <1>2, <2>1 DEF Frame
<1> HIDE DEF x, y, st
<1> DEFINE s2 == <<y>> \o st
<1>6. Frames(size, s2) /\ \A z \in Int : z > y.part => \A j \in 1..Len(s2) : s2[j].part < z
  <2>1. y.part \in 1..Len(Kind) + 1 /\ \A j \in 1..Len(st) : st[j].part < y.part
    BY <1>2, <1>4, ChainTypes
  <2> QED BY <1>2, <1>4, <2>1, FramesPush
<1> HIDE DEF s2
<1>7. Frames(size, <<x>> \o s2)
  <2>1. x.part \in Int /\ x.part > y.part
    BY <1>2, <1>4, <1>5
  <2>2. x.part \in 1..Len(Kind) + 1 /\ \A j \in 1..Len(s2) : s2[j].part < x.part
    BY <1>2, <1>5, <1>6, <2>1
  <2> QED BY <1>5, <1>6, <2>2, FramesPush
<1>8. <<x, y>> \o st = <<x>> \o s2
  <2>1. st \in Seq(FrameSet)
    BY <1>2 DEF Frames
  <2>2. <<x>> \in Seq(FrameSet) /\ <<y>> \in Seq(FrameSet)
    BY <1>4, <1>5
  <2>3. <<x, y>> = <<x>> \o <<y>>
    BY <1>4, <1>5, PairIs
  <2> QED BY <2>1, <2>2, <2>3, ConcatAssociative DEF s2
<1> QED BY <1>1, <1>2, <1>7, <1>8, NothingMoves DEF KeptOn

LEMMA PartExpandsKeeps ==
  ASSUME ChainOK, Held, PartExpands, "shrink" \notin Refusals
  PROVE  KeptOn
<1> DEFINE i == Part
           old == OldEnd
<1>1. Begun /\ want[i] > size[i] /\ UNCHANGED saved
  BY DEF PartExpands
<1>2. PICK o \in PhysicalAlloc(i, block[i], want[i]) :
         LET lost == o.answer < size[i]
             to == Top.first + o.answer
             bl == [block EXCEPT ![i] = o.mem]
             sec == [sect EXCEPT ![i] = o.answer]
         IN /\ AllocMem(i, o)
            /\ IF lost
               THEN block' = bl /\ UNCHANGED <<sect, ioerr>>
               ELSE /\ sect' = sec
                    /\ Moved(bl, sec, old, to, saved - old)
            /\ IF o.answer = want[i]
               THEN /\ stack' = <<Frame(i + 1, to)>> \o Tail(stack)
                    /\ UNCHANGED <<best, alloc, tries>>
               ELSE /\ best' = [best EXCEPT ![i] = TRUE]
                    /\ GiveUp(lost)
  BY DEF PartExpands
<1> DEFINE a == o.answer
           m == o.mem
           b2 == WithBlock(block, i, m)
           s2 == WithSize(size, i, a)
           to == Top.first + a
<1>3. /\ i \in Parts /\ size \in [Parts -> Nat] /\ sect = size /\ want[i] \in Nat /\ size[i] \in Nat
      /\ IsSeq(block[i]) /\ size[i] <= Len(block[i])
      /\ old = FirstOf(size, i + 1) /\ Top.first = FirstOf(size, i)
  BY <1>1, TopIs
<1>4. BlocksOK(block) /\ saved \in Int /\ Sizes
  BY DEF ChainOK, MemOK
<1>5. IsSeq(m) /\ a \in Nat
  <2> HIDE DEF i
  <2> QED BY <1>2, <1>3, <1>4, RequestFair DEF Fair
<1>6. size' = s2
  BY <1>2 DEF AllocMem, WithSize
<1>7. /\ a # want[i] => stack' = <<>>
      /\ a = want[i] => stack' = <<Frame(i + 1, to)>> \o Tail(stack)
      /\ a < size[i] => alloc' = "lost"
  BY <1>1, <1>2, <1>3, <1>5 DEF GiveUp
<1>8. Frames(size', stack')
  <2>1. CASE a # want[i]
    BY <1>7, <2>1, NoFrames
  <2>2. CASE a = want[i]
    <3> HIDE DEF a
    <3>1. Frames(s2, <<Frame(i + 1, to)>> \o Tail(stack))
      BY <1>1, <1>5, NextFrame
    <3> QED BY <1>6, <1>7, <2>2, <3>1
  <2> QED BY <2>1, <2>2
<1>9. CASE a < size[i]
  BY <1>7, <1>8, <1>9 DEF KeptOn
<1>10. CASE ~(a < size[i])
  <2>1. /\ sect' = s2 /\ block' = MoveSectors(b2, s2, old, to, saved - old)
        /\ ~ioerr' => ~Unbacked(b2, s2, old, to, saved - old)
    BY <1>2, <1>3, <1>10 DEF Moved, WithBlock, WithSize
  <2>2. Begins(m, block[i], size[i])
    <3>1. size[i] <= size[i] /\ size[i] <= want[i] /\ size[i] <= a
      BY <1>1, <1>3, <1>5, <1>10
    <3> HIDE DEF i
    <3> QED BY <1>2, <1>3, <1>4, <3>1, RequestKeeps
  <2> HIDE DEF a, m, i, old
  <2>3. ASSUME ~ioerr', NEW s \in 0..(saved - 1)
        PROVE  Sector(block', sect', s) = Sector(block, sect, s)
    <3>1. ~Unbacked(b2, s2, FirstOf(size, i + 1), FirstOf(size, i) + a, saved - FirstOf(size, i + 1))
      BY <1>3, <2>1, <2>3
    <3>2. size[i] <= a
      BY <1>3, <1>5, <1>10
    <3>3. \A u \in 0..saved - 1 :
             Sector(MoveSectors(b2, s2, FirstOf(size, i + 1), FirstOf(size, i) + a,
                                saved - FirstOf(size, i + 1)), s2, u) = Sector(block, size, u)
      BY <1>3, <1>4, <1>5, <2>2, <3>1, <3>2, GrowKeeps
    <3> HIDE DEF b2, s2
    <3> QED BY <1>3, <2>1, <3>3
  <2> QED BY <1>6, <1>8, <2>1, <2>3 DEF KeptOn
<1> QED BY <1>9, <1>10

LEMMA PartShrunkKeeps ==
  ASSUME ChainOK, Held, PartShrunk, "shrink" \notin Refusals
  PROVE  KeptOn
<1> DEFINE i == Part
           over == saved - NewEnd
           room == MoveSectors(block, sect, OldEnd, NewEnd, over)
           w == want[i]
<1>1. Begun
  BY DEF PartShrunk
<1>2. PICK o \in PhysicalAlloc(i, room[i], w) :
            LET bl == [room EXCEPT ![i] = o.mem]
                sec == [sect EXCEPT ![i] = o.answer]
                back == Top.first + o.answer
            IN /\ AllocMem(i, o)
               /\ sect' = sec
               /\ block' = IF o.answer > w THEN MoveSectors(bl, sec, NewEnd, back, over) ELSE bl
               /\ ioerr' = \/ ioerr
                           \/ Unbacked(block, sect, OldEnd, NewEnd, over)
                           \/ o.answer > w /\ Unbacked(bl, sec, NewEnd, back, over)
               /\ IF o.answer = w
                  THEN stack' = Tail(stack) /\ UNCHANGED <<alloc, tries>>
                  ELSE GiveUp(o.answer < w)
  BY DEF PartShrunk
<1> DEFINE a == o.answer
           m == o.mem
           b2 == WithBlock(room, i, m)
           s2 == WithSize(size, i, a)
           back == Top.first + a
<1>3. /\ i \in Parts /\ size \in [Parts -> Nat] /\ sect = size /\ w \in Nat /\ size[i] \in Nat
      /\ IsSeq(block[i]) /\ size[i] <= Len(block[i]) /\ FirstOf(size, i) \in Nat
      /\ OldEnd = FirstOf(size, i + 1) /\ NewEnd = FirstOf(size, i) + w /\ Top.first = FirstOf(size, i)
      /\ OldEnd \in Int /\ NewEnd \in Int
  BY <1>1, TopIs, TopOK
<1>4. BlocksOK(block) /\ saved \in Int /\ Sizes /\ over \in Int
  BY <1>3 DEF ChainOK, MemOK
<1>5. SameSize(room, block)
  <2> HIDE DEF over
  <2> QED BY <1>3, <1>4, MovesKeep
<1> HIDE DEF room
<1>6. IsSeq(room[i]) /\ size[i] <= Len(room[i])
  BY <1>3, <1>5 DEF SameSize, BlocksOK
<1>7. IsSeq(m) /\ a \in Nat
  <2> HIDE DEF i, w
  <2> QED BY <1>2, <1>3, <1>4, <1>6, RequestFair DEF Fair, w
<1>8. size' = s2
  BY <1>2 DEF AllocMem, WithSize
<1>9. /\ a # w => stack' = <<>>
      /\ a = w => stack' = Tail(stack)
      /\ a < w => alloc' = "lost"
  BY <1>2, <1>3, <1>7 DEF GiveUp
<1>10. Frames(size', stack')
  <2>1. CASE a # w
    BY <1>9, <2>1, NoFrames
  <2>2. CASE a = w
    <3> HIDE DEF a, w
    <3>1. Frames(s2, Tail(stack))
      BY <1>1, <1>7, NextFrame
    <3> QED BY <1>8, <1>9, <2>2, <3>1
  <2> QED BY <2>1, <2>2
<1>11. CASE a < w
  BY <1>9, <1>10, <1>11 DEF KeptOn
<1>12. CASE ~(a < w)
  <2>1. w <= a /\ w < size[i]
    <3>1. w < size[i]
      BY <1>1, TopIs DEF PartShrunk
    <3> QED BY <1>3, <1>7, <1>12, <3>1
  <2>2. Begins(m, room[i], w)
    <3>1. w <= w /\ w <= size[i]
      BY <1>3, <2>1
    <3> HIDE DEF i, w
    <3> QED BY <1>2, <1>3, <1>4, <1>6, <2>1, <3>1, RequestKeeps
  <2>3. sect' = s2 /\ block' = MoveSectors(b2, s2, NewEnd, back, over)
    <3>1. sect' = s2 /\ block' = IF a > w THEN MoveSectors(b2, s2, NewEnd, back, over) ELSE b2
      BY <1>2, <1>3 DEF WithBlock, WithSize
    <3>2. CASE a > w
      BY <3>1, <3>2
    <3>3. CASE ~(a > w)
      <4>1. a = w /\ back = NewEnd
        BY <1>3, <1>7, <2>1, <3>3
      <4> HIDE DEF b2, s2, back, over
      <4>2. MoveSectors(b2, s2, NewEnd, back, over) = b2
        BY <4>1 DEF MoveSectors
      <4> QED BY <3>1, <3>3, <4>2
    <3> QED BY <3>2, <3>3
  <2>4. ~ioerr' => /\ ~Unbacked(block, size, OldEnd, NewEnd, over)
                   /\ ~Unbacked(b2, s2, NewEnd, back, over)
    <3>1. ~ioerr' => /\ ~Unbacked(block, size, OldEnd, NewEnd, over)
                     /\ a > w => ~Unbacked(b2, s2, NewEnd, back, over)
      BY <1>2, <1>3 DEF WithBlock, WithSize
    <3>2. CASE a > w
      BY <3>1, <3>2
    <3>3. CASE ~(a > w)
      <4>1. back = NewEnd
        BY <1>3, <1>7, <2>1, <3>3
      <4>2. ~Unbacked(b2, s2, NewEnd, back, over)
        <5> HIDE DEF b2, s2, back, over
        <5> QED BY <4>1 DEF Unbacked
      <4> QED BY <3>1, <4>2
    <3> QED BY <3>2, <3>3
  <2>5. room = MoveSectors(block, size, OldEnd, NewEnd, over)
    BY <1>3 DEF room
  <2> HIDE DEF a, m, i, w
  <2>6. ASSUME ~ioerr', NEW s \in 0..(saved - 1)
        PROVE  Sector(block', sect', s) = Sector(block, sect, s)
    <3>1. /\ over = saved - (FirstOf(size, i) + w) /\ back = FirstOf(size, i) + a
          /\ OldEnd = FirstOf(size, i + 1) /\ NewEnd = FirstOf(size, i) + w
      BY <1>3
    <3> HIDE DEF over, back, b2, s2
    <3>2. /\ room = MoveSectors(block, size, FirstOf(size, i + 1), FirstOf(size, i) + w,
                                saved - (FirstOf(size, i) + w))
          /\ ~Unbacked(block, size, FirstOf(size, i + 1), FirstOf(size, i) + w,
                       saved - (FirstOf(size, i) + w))
          /\ ~Unbacked(b2, s2, FirstOf(size, i) + w, FirstOf(size, i) + a,
                       saved - (FirstOf(size, i) + w))
      BY <2>4, <2>5, <2>6, <3>1
    <3>3. Returned(room, block, size, i, m, w, a, saved)
      <4> USE DEF b2, s2
      <4> QED BY <1>3, <1>4, <1>7, <2>1, <2>2, <3>2, ShrinkKeeps
    <3>4. \A u \in 0..saved - 1 :
             Sector(MoveSectors(b2, s2, FirstOf(size, i) + w, FirstOf(size, i) + a,
                                saved - (FirstOf(size, i) + w)), s2, u) = Sector(block, size, u)
      BY <3>3 DEF Returned, b2, s2
    <3> QED BY <1>3, <2>3, <3>1, <3>4
  <2> QED BY <1>8, <1>10, <2>3, <2>6 DEF KeptOn
<1> QED BY <1>11, <1>12

-----------------------------------------------------------------------------
(***************************************************************************)
(* The program keeps to it.                                                *)
(***************************************************************************)
LEMMA AllocKeeps ==
  ASSUME ChainOK, Held, AllocStep, "shrink" \notin Refusals
  PROVE  KeptOn
  BY CalculateKeeps, PartKeptKeeps, PartExpandsKeeps, PartShrinksKeeps, PartShrunkKeeps, ChainEndKeeps
     DEF AllocStep

\* The activations that wait still wait for the same.
WaitOn == Waiting(size', want', stack') /\ (alloc' # "part" => stack' = <<>>)

LEMMA NoneWait ==
  ASSUME NEW sz, NEW wn
  PROVE  Waiting(sz, wn, <<>>)
  BY EmptySeq DEF Waiting

\* A frame for the next part does not wait.
LEMMA NextWaits ==
  ASSUME NEW sz, NEW wn, NEW st \in Seq(FrameSet), Waiting(sz, wn, st), NEW i \in Int, NEW n \in Int
  PROVE  Waiting(sz, wn, <<Frame(i, n)>> \o st)
<1>1. Frame(i, n) \in FrameSet /\ ~Frame(i, n).below
  BY FrameOK DEF Frame
<1> QED BY <1>1, WaitingPush

LEMMA GivenWaits ==
  ASSUME ChainOK, Held, Begun, NEW o, o.answer \in Int, AllocMem(Part, o),
         \/ stack' = <<>>
         \/ stack' = Tail(stack) /\ alloc' = alloc
         \/ stack' = <<Frame(Part + 1, Top.first + o.answer)>> \o Tail(stack) /\ alloc' = alloc
  PROVE  WaitOn
<1> DEFINE i == Part
           a == o.answer
           st == Tail(stack)
           s2 == WithSize(size, i, a)
           w2 == WithSize(want, i, a)
<1>1. /\ i \in Parts /\ size \in [Parts -> Nat] /\ Waiting(size, want, st) /\ i \in Int
      /\ st \in Seq(FrameSet) /\ (\A j \in 1..Len(st) : st[j].part < i)
  BY TopIs DEF Frames
<1>2. want \in [Parts -> Nat] /\ Top.first \in Int
  BY TopOK DEF ChainOK, MemOK
<1>3. size' = s2 /\ want' = w2
  BY DEF AllocMem, WithSize
<1>4. alloc = "part"
  BY DEF Begun
<1> HIDE DEF i, a, st
<1>5. Waiting(s2, w2, st)
  BY <1>1, <1>2, WaitingSame
<1> HIDE DEF s2, w2
<1>6. Waiting(s2, w2, <<>>)
  BY NoneWait
<1>7. Waiting(s2, w2, <<Frame(i + 1, Top.first + a)>> \o st)
  <2>1. i + 1 \in Int /\ Top.first + a \in Int
    BY <1>1, <1>2 DEF a
  <2> QED BY <1>1, <1>5, <2>1, NextWaits
<1> QED BY <1>3, <1>4, <1>5, <1>6, <1>7 DEF WaitOn, i, a, st

LEMMA AnswerIs ==
  ASSUME ChainOK, Begun, ChainOK', NEW o, AllocMem(Part, o)
  PROVE  o.answer \in Int
<1>1. Part \in Parts /\ size \in [Parts -> Nat] /\ size' \in [Parts -> Nat]
  BY DEF ChainOK, MemOK, Sizes, Begun
<1>2. size'[Part] = o.answer
  BY <1>1 DEF AllocMem
<1> QED BY <1>1, <1>2

LEMMA AllocWaits ==
  ASSUME ChainOK, Held, AllocStep, "shrink" \notin Refusals
  PROVE  WaitOn
<1>1. stack \in Seq(FrameSet) /\ Waiting(size, want, stack) /\ (alloc # "part" => stack = <<>>)
  BY DEF ChainOK, Held
<1>2. CASE Calculate
  <2>1. size' = size /\ (stack' = <<>> \/ (stack' = <<Frame(1, 0)>> /\ alloc' = "part"))
    BY <1>1, <1>2 DEF Calculate
  <2>2. Waiting(size, want', <<Frame(1, 0)>>)
    <3>1. <<>> \in Seq(FrameSet) /\ 1 \in Int /\ 0 \in Int
      OBVIOUS
    <3>2. Waiting(size, want', <<>>)
      BY NoneWait
    <3>4. Waiting(size, want', <<Frame(1, 0)>> \o <<>>)
      BY ONLY <3>1, <3>2, NextWaits
    <3>3. <<Frame(1, 0)>> \o <<>> = <<Frame(1, 0)>>
      <4>1. <<Frame(1, 0)>> \in Seq(FrameSet)
        BY FrameOK
      <4> QED BY <4>1, ConcatEmptySeq
    <3> QED BY <3>3, <3>4
  <2> QED BY <2>1, <2>2, NoneWait DEF WaitOn
<1>3. CASE PartKept
  <2>1. Begun /\ size' = size /\ want' = want /\ alloc' = alloc
        /\ stack' = <<Frame(Part + 1, NewEnd)>> \o Tail(stack)
    BY <1>3 DEF PartKept
  <2>2. Part + 1 \in Int /\ NewEnd \in Int /\ Tail(stack) \in Seq(FrameSet)
        /\ Waiting(size, want, Tail(stack)) /\ alloc = "part"
    BY <2>1, TopIs, TopOK DEF Begun
  <2> QED BY <2>1, <2>2, NextWaits DEF WaitOn
<1>4. CASE PartExpands
  <2>1. Begun
    BY <1>4 DEF PartExpands
  <2>2. PICK o \in PhysicalAlloc(Part, block[Part], want[Part]) :
          /\ AllocMem(Part, o)
          /\ \/ stack' = <<>>
             \/ /\ stack' = <<Frame(Part + 1, Top.first + o.answer)>> \o Tail(stack)
                /\ alloc' = alloc
    BY <1>4 DEF PartExpands, GiveUp
  <2>3. o.answer \in Int
    BY <2>1, <2>2, AllocStepOK, AnswerIs
  <2> QED BY <2>1, <2>2, <2>3, GivenWaits
<1>5. CASE PartShrinks
  <2> DEFINE x == Frame(Part + 1, OldEnd)
             y == [Top EXCEPT !.below = TRUE]
             st == Tail(stack)
  <2>1. Begun /\ UNCHANGED <<size, want, alloc>> /\ stack' = <<x, y>> \o st /\ want[Part] < size[Part]
    BY <1>5 DEF PartShrinks
  <2>2. /\ Part \in Parts /\ Part + 1 \in Int /\ OldEnd \in Int /\ st \in Seq(FrameSet)
        /\ Waiting(size, want, st) /\ alloc = "part" /\ Top \in FrameSet /\ Top.part = Part
    BY <2>1, TopIs, TopOK DEF Begun, Part
  <2>3. y \in FrameSet /\ y.part = Part
    BY <2>2 DEF FrameSet
  <2>4. x \in FrameSet
    BY <2>2, FrameOK
  <2>5. Waiting(size, want, <<y>> \o st)
    <3> HIDE DEF y, st
    <3> QED BY <2>1, <2>2, <2>3, WaitingPush
  <2>6. <<x, y>> \o st = <<x>> \o (<<y>> \o st) /\ <<y>> \o st \in Seq(FrameSet)
    <3> HIDE DEF x, y, st
    <3>1. <<x>> \in Seq(FrameSet) /\ <<y>> \in Seq(FrameSet)
      BY <2>3, <2>4
    <3>2. <<x, y>> = <<x>> \o <<y>>
      BY <2>3, <2>4, PairIs
    <3> QED BY <2>2, <3>1, <3>2, ConcatAssociative, ConcatProperties
  <2>7. Waiting(size, want, <<x>> \o (<<y>> \o st))
    <3> HIDE DEF y, st
    <3> QED BY <2>2, <2>5, <2>6, NextWaits
  <2> QED BY <2>1, <2>2, <2>6, <2>7 DEF WaitOn
<1>6. CASE PartShrunk
  <2>1. Begun
    BY <1>6 DEF PartShrunk
  <2>2. \E o : /\ AllocMem(Part, o)
               /\ stack' = <<>> \/ (stack' = Tail(stack) /\ alloc' = alloc)
    BY <1>6 DEF PartShrunk, GiveUp
  <2>3. PICK o : /\ AllocMem(Part, o)
                 /\ stack' = <<>> \/ (stack' = Tail(stack) /\ alloc' = alloc)
    BY <2>2
  <2>4. o.answer \in Int
    BY <2>1, <2>3, AllocStepOK, AnswerIs
  <2> QED BY <2>1, <2>3, <2>4, GivenWaits
<1>7. CASE ChainEnd \/ Allocated
  <2>1. size' = size /\ want' = want /\ alloc = "part"
        /\ \/ stack # <<>> /\ stack' = Tail(stack) /\ alloc' = alloc
           \/ stack' = <<>> /\ stack = <<>>
    BY <1>7 DEF ChainEnd, Allocated
  <2>2. stack # <<>> => Waiting(size, want, Tail(stack))
    BY <1>1, WaitingTail
  <2> QED BY <2>1, <2>2, NoneWait DEF WaitOn
<1> QED BY <1>2, <1>3, <1>4, <1>5, <1>6, <1>7 DEF AllocStep

LEMMA HeldStarts == Init => Held
<1> SUFFICES ASSUME Init PROVE Held
  OBVIOUS
<1>1. stack = <<>> /\ alloc = "idle" /\ sect = size
  BY DEF Init
<1> QED BY <1>1, NoFrames, NoneWait DEF Held

\* What the disk is addressed by stays as it is when no memory is asked for.
LEMMA HeldOn ==
  ASSUME Held, alloc \notin {"calc", "part", "lost"} \/ pc' = pc, UNCHANGED <<size, want, stack, alloc>>,
         sect' = sect \/ sect' = size
  PROVE  Held'
  BY DEF Held, Frames, Waiting

LEMMA HeldStays ==
  ASSUME IInv, Held, [Next]_vars, "shrink" \notin Refusals
  PROVE  Held'
<1>1. CASE Allocating
  <2>1. AllocStep /\ pc' = pc /\ ChainOK
    BY <1>1 DEF Allocating, IInv
  <2>2. alloc \in {"calc", "part"}
    BY <2>1 DEF AllocStep, Calculate, PartKept, PartExpands, PartShrinks, PartShrunk, ChainEnd,
                Allocated, Begun
  <2>3. KeptOn /\ WaitOn
    BY <2>1, AllocKeeps, AllocWaits
  <2>4. Frames(size, stack)' /\ Waiting(size, want, stack)'
    BY <2>3 DEF KeptOn, WaitOn, Frames, Waiting
  <2> QED BY <2>1, <2>2, <2>3, <2>4 DEF KeptOn, WaitOn, Held
<1>2. CASE FormatDisk
  <2>1. pc \in Ended \ {"fatal"} /\ alloc' = "idle" /\ UNCHANGED <<size, sect, want, stack>>
    BY <1>2 DEF FormatDisk
  <2>2. alloc \notin {"calc", "part", "lost"}
    BY <2>1 DEF Held, Ended
  <2> QED BY <2>1, <2>2 DEF Held, Frames, Waiting
<1>3. CASE Grow \/ Shrink \/ GrowFails
  <2>1. /\ UNCHANGED <<size, sect, want, stack>> /\ alloc \notin {"calc", "part"}
        /\ alloc = "lost" => pc = "growing"
        /\ \/ alloc # "lost" /\ alloc' = "calc" /\ pc' \in {"growing", "undoing", "shrinking"}
           \/ alloc' = alloc /\ (alloc = "lost" => pc' = "fatal")
    BY <1>3 DEF Grow, Shrink, GrowFails, StartAlloc, Fatal, Held
  <2> QED BY <2>1 DEF Held, Frames, Waiting
<1>4. CASE Grew \/ Undone \/ Shrank
  <2>1. /\ UNCHANGED <<size, sect, want, stack, alloc>> /\ alloc \in {"yes", "no", "lost"}
        /\ alloc = "lost" => pc' = "fatal"
    BY <1>4 DEF Grew, Undone, Shrank, Fatal, chainVars, memVars
  <2> QED BY <2>1 DEF Held, Frames, Waiting
<1>5. CASE Resize \/ PackSkips \/ PackFile \/ PackChain \/ PackEnds \/ ClustersUp \/ RootDirUp
           \/ FixFAT \/ CopyFAT \/ RootDirDown \/ ClustersDown \/ Finish
  <2>1. pc \in {"resize", "pack", "up", "dirup", "fat", "copies", "dirdown", "down", "finish"}
    BY <1>5 DEF Resize, PackSkips, PackFile, PackChain, PackEnds, ClustersUp, RootDirUp, FixFAT,
                CopyFAT, RootDirDown, ClustersDown, Finish
  <2>2. alloc \notin {"calc", "part", "lost"}
    BY <2>1 DEF Held
  <2>3. UNCHANGED <<size, want, stack, alloc>> /\ (sect' = sect \/ sect' = size)
    BY <1>5 DEF Resize, PackSkips, PackFile, PackChain, PackEnds, ClustersUp, RootDirUp, FixFAT,
                CopyFAT, RootDirDown, ClustersDown, Finish, MoveOn, chainVars, memVars, memRest
  <2> QED BY <2>2, <2>3, HeldOn
<1>6. CASE Rest \/ UNCHANGED vars
  <2>1. UNCHANGED <<size, want, stack, alloc, sect, pc>>
    BY <1>6 DEF Rest, vars, chainVars, memVars
  <2> QED BY <2>1, HeldOn
<1> QED BY <1>1, <1>2, <1>3, <1>4, <1>5, <1>6 DEF Next, Step

\* Where the memory managers never refuse to shrink a block, in every state of an
\* allocation the disk is addressed by the sizes its parts have, and each
\* activation of AllocPart knows the sector its part begins with.
THEOREM PlacesAreKnown == ASSUME "shrink" \notin Refusals PROVE Spec => [](IInv /\ Held)
<1>1. Init => IInv /\ Held
  BY StartsWell, HeldStarts
<1>2. IInv /\ Held /\ [Next]_vars => IInv' /\ Held'
  BY StepsWell, HeldStays
<1> QED BY <1>1, <1>2, PTL DEF Spec

\* Memory is taken and given back with the contents kept (AllocPart): on every
\* chain, for every order in which the managers refuse to grow blocks, what is
\* read from a sector up to `saved' is the same before and after each step,
\* whose moves stay on the memory, unless it reports data lost.
THEOREM SavedSectorsStay == ASSUME "shrink" \notin Refusals PROVE Spec => SavedStays
<1>1. IInv /\ Held /\ [Next]_vars =>
        [AllocStep /\ alloc' # "lost" /\ ~ioerr' =>
           \A s \in 0..(saved - 1) : Sector(block', sect', s) = Sector(block, sect, s)]_vars
  BY AllocKeeps DEF IInv, KeptOn
<1> QED BY <1>1, PlacesAreKnown, PTL DEF Spec, SavedStays
=============================================================================

------------------------------ MODULE SrdChain ------------------------------
(***************************************************************************)
(* SRDISK: the memory under a RAM disk and its resizing with the contents  *)
(* kept (allocate.c, realloc.c, diskio.c, MoveSectors of resize.c).        *)
(*                                                                         *)
(* A disk is a chain of device drivers; each holds one block of XMS or EMS *)
(* memory and serves conf->sectors sectors of the disk.  Changing the size *)
(* of one part shifts the sector numbers of every later part, so the       *)
(* contents must move along.  One sector is one Kbyte here; the contents   *)
(* of a sector are a tuple the module that composes this one chooses.      *)
(***************************************************************************)
EXTENDS Integers, Sequences, SequencesExt

CONSTANTS
    Kind,       \* the sequence of memory kinds along the chain, "xms" or "ems"
    MaxK,       \* subconf[i].maxK, the most a part may hold
    Page,       \* the allocation unit of EMS memory; that of XMS is one Kbyte
    Refusals,   \* what a memory manager may refuse to do to a block: subset of
                \* {"grow", "shrink"}; a request that has no room always fails
    Buffer,     \* sectors the copy buffer of MoveSectors holds
    Word        \* sizes are unsigned and wrap at this (2^32 in the program)

ASSUME ChainAssumption ==
    /\ Kind \in Seq({"xms", "ems"}) /\ Len(Kind) > 0
    /\ MaxK \in Seq(Nat) /\ Len(MaxK) = Len(Kind)
    /\ Page \in Nat \ {0} /\ Buffer \in Nat \ {0} /\ Word \in Nat \ {0}
    /\ Refusals \subseteq {"grow", "shrink"}

VARIABLES
    block,      \* the memory each driver really holds: a sequence of sectors
    size,       \* conf->size = f.subconf[i].size, what the driver believes
    sect,       \* conf->sectors, how many sectors are addressed in the part
    want,       \* newf.subconf[i].size, what calc_alloc decided on
    best,       \* alloc_best: this part has already given the most it can
    free,       \* Kbytes left with each memory manager (external)
    goal,       \* newf.size, the size the disk shall have
    saved,      \* used_sectors, the sectors whose contents must survive
    tries,      \* failed attempts of SavingDiskAllocate
    stack,      \* the activations of AllocPart, the innermost first
    alloc,      \* SavingDiskAllocate: idle, calc, part, yes, no, lost
    bad,        \* disk_bad: the disk on the memory may be broken
    oldBad,     \* disk_bad when SavingDiskAllocate began
    ioerr       \* a sector was addressed that no memory stands behind

memVars == <<block, size, sect, want, best, free, tries, stack, oldBad>>
chainVars == <<memVars, goal, saved, alloc, bad, ioerr>>

Parts == DOMAIN Kind
Pools == {"xms", "ems"}
Junk == <<"junk">>
AllocUnit(i) == IF Kind[i] = "ems" THEN Page ELSE 1

Once(Op(_), v) == CHOOSE r \in {Op(x) : x \in {v}} : TRUE   \* Op(v): TLC evaluates v once
Dword(x) == x % Word
Least(a, b) == IF a < b THEN a ELSE b
Most(a, b) == IF a < b THEN b ELSE a
\* Mutant: the size is not rounded up to whole pages.
AdjustNot(a, u) == a
Adjust(a, u) == ((a + u - 1) \div u) * u
MinA(a, b, u) == Adjust(Least(a, b), u)
-----------------------------------------------------------------------------
(***************************************************************************)
(* Sector addressing.  A sector is looked up part by part, as the chained  *)
(* drivers do; what they answer is <<part, index in its block>>.           *)
(***************************************************************************)
FirstOf(sec, i) ==
    LET upto[k \in 0..Len(Kind)] == IF k = 0 THEN 0 ELSE upto[k - 1] + sec[k]
    IN upto[i - 1]
Total(sec) == FirstOf(sec, Len(Kind) + 1)
CurrentSize == Total(size)
Home(sec, s) == LET i == CHOOSE p \in Parts : FirstOf(sec, p) <= s /\ s < FirstOf(sec, p + 1)
                IN <<i, s - FirstOf(sec, i) + 1>>
Backed(bl, sec, s) == /\ 0 <= s /\ s < Total(sec)
                      /\ Home(sec, s)[2] <= Len(bl[Home(sec, s)[1]])
Sector(bl, sec, s) == IF Backed(bl, sec, s)
                      THEN bl[Home(sec, s)[1]][Home(sec, s)[2]] ELSE Junk

\* One read_sector / write_sector pair: n sectors into the buffer and out.
CopyBatch(bl, sec, dest, orig, n) ==
    [p \in Parts |-> [k \in 1..Len(bl[p]) |->
        LET s == FirstOf(sec, p) + k - 1 IN
        IF k <= sec[p] /\ dest <= s /\ s < dest + n
        THEN Sector(bl, sec, orig + s - dest) ELSE bl[p][k]]]

\* Batches no longer than the distance, from the end the data moves away from.
MoveSectors(bl, sec, dest, orig, number) ==
    LET batch == Least(IF orig > dest THEN orig - dest ELSE dest - orig, Buffer)
        last(k) == IF k % batch = 0 THEN batch ELSE k % batch
        moved[k \in 0..number] ==
            IF k = 0 THEN bl
            ELSE LET n == last(k)
                     at == IF orig > dest THEN k - n ELSE number - k
                 IN Once(LAMBDA b : CopyBatch(b, sec, dest + at, orig + at, n), moved[k - n])
    IN IF orig = dest \/ number <= 0 THEN bl ELSE moved[number]

\* The sectors a move touches that nothing stands behind.
Unbacked(bl, sec, dest, orig, number) ==
    /\ orig # dest
    /\ \E k \in 0..(number - 1) : ~Backed(bl, sec, orig + k) \/ ~Backed(bl, sec, dest + k)
-----------------------------------------------------------------------------
(***************************************************************************)
(* calc_alloc: how the goal is divided among the parts.                    *)
(***************************************************************************)
MaxSize(i) == free[Kind[i]] + size[i]
SafeSize(i) == IF Kind[i] = "ems" THEN free["ems"] + size[i]
               ELSE Most(free["xms"], size[i])

\* Keep what the parts have, in chain order, as far as it is needed.
Kept(total) ==
    LET upto[i \in 0..Len(Kind)] ==
            IF i = 0 THEN [need |-> <<>>, left |-> total]
            ELSE LET p == upto[i - 1]
                     k == MinA(Least(size[i], MaxK[i]), Dword(p.left), AllocUnit(i))
                 IN [need |-> Append(p.need, k), left |-> p.left - k]
    IN upto[Len(Kind)]

\* Take more where the memory manager has it, from `limit' of each part.
Grown(div, limit) ==
    LET can(i) == Least(limit[i], MaxK[i])
        upto[i \in 0..Len(Kind)] ==
            IF i = 0 THEN div
            ELSE LET p == upto[i - 1]
                     k == MinA(p.left, Dword(can(i) - size[i]), AllocUnit(i))
                 IN IF p.left > 0 /\ ~best[i] /\ p.need[i] < MaxK[i] /\ p.need[i] < can(i)
                    THEN [need |-> [p.need EXCEPT ![i] = @ + k], left |-> p.left - k]
                    ELSE p
    IN upto[Len(Kind)]

\* Give back what rounding took too much, where the unit is small enough.
Shrunk(div) ==
    LET visit(p, i) ==
            LET k == (-p.left) \div AllocUnit(i) IN
            IF AllocUnit(i) < -p.left
            THEN [need |-> [p.need EXCEPT ![i] = Dword(@ - k)], left |-> p.left + k]
            ELSE p
        after[n \in 0..(Len(Kind) * Most(0, -div.left))] ==
            IF n = 0 THEN div
            ELSE Once(LAMBDA p : visit(p, ((n - 1) % Len(Kind)) + 1), after[n - 1])
    IN after[Len(Kind) * Most(0, -div.left)]

CalcAlloc(total) ==
    LET kept == Kept(total)
        safe == Grown(kept, [i \in Parts |-> SafeSize(i)])
        most == IF safe.left > 0 THEN Grown(kept, [i \in Parts |-> MaxSize(i)]) ELSE safe
    IN Shrunk(most)
-----------------------------------------------------------------------------
(***************************************************************************)
(* disk_alloc of a part whose contents matter: what the memory manager and *)
(* physical_alloc make of a request, as the set of possible outcomes: the  *)
(* block held afterwards, what it took from the pool, and the answer.      *)
(***************************************************************************)
Resized(b, n) == [k \in 1..n |-> IF k <= Len(b) THEN b[k] ELSE Junk]
Outcome(b, taken, answer) == [mem |-> b, taken |-> taken, answer |-> answer]

\* Mutant: a refusal is not noticed, the request is taken for the answer.
ReallocBlind(i, b, request) ==
    LET n == Adjust(request, AllocUnit(i))
        more == n - Len(b)
    IN (IF more <= free[Kind[i]] THEN {Outcome(Resized(b, n), more, n)} ELSE {})
       \union (IF more > 0 THEN {Outcome(b, 0, n)} ELSE {})

\* XMS 0Fh/8Fh, EMS 51h.  A refused block keeps its size; the driver reports
\* that size or, when the manager does not tell it, the size it believes in.
Realloc(i, b, request) ==
    LET n == Adjust(request, AllocUnit(i))
        more == n - Len(b)
    IN (IF more <= free[Kind[i]] THEN {Outcome(Resized(b, n), more, n)} ELSE {})
       \union
       (IF more > free[Kind[i]] \/ (IF more > 0 THEN "grow" ELSE "shrink") \in Refusals
        THEN {Outcome(b, 0, Len(b)), Outcome(b, 0, size[i])} ELSE {})

\* save_buffer, alloc, copy_to_new, free_old.  The answer stays that of the
\* reallocation that failed, also when the new block is there.
WithoutManager(i, o, request) ==
    LET n == Adjust(request, AllocUnit(i))
        left == free[Kind[i]] - o.taken
        copied == Resized(SubSeq(o.mem, 1, Least(o.answer, Len(o.mem))), n)
    IN IF n <= left
       THEN {Outcome(copied, o.taken + n - Len(o.mem), o.answer), o}
       ELSE {o}

PhysicalAlloc(i, b, request) ==
    IF b = <<>>
    THEN LET n == Adjust(request, AllocUnit(i)) IN
         IF n = 0 THEN {Outcome(<<>>, 0, size[i])}
         ELSE IF n <= free[Kind[i]] THEN {Outcome(Resized(<<>>, n), n, n)}
         ELSE {Outcome(<<>>, 0, 0)}
    ELSE IF request = 0
    THEN {Outcome(<<>>, -Len(b), 0)}
    ELSE UNION {IF o.answer # request /\ request <= free[Kind[i]] - o.taken
                THEN WithoutManager(i, o, request) ELSE {o} : o \in Realloc(i, b, request)}

\* AllocMem: the answer becomes the size of the part, wherever it is kept.
AllocMem(i, o) ==
    /\ size' = [size EXCEPT ![i] = o.answer]
    /\ want' = [want EXCEPT ![i] = o.answer]
    /\ free' = [free EXCEPT ![Kind[i]] = @ - o.taken]
    /\ bad' = (bad \/ o.answer # size[i])
-----------------------------------------------------------------------------
(***************************************************************************)
(* SavingDiskAllocate and AllocPart.                                       *)
(***************************************************************************)
Frame(i, first) == [part |-> i, first |-> first, below |-> FALSE]
SetSectors == sect' = size

StartAlloc(total, used) ==
    /\ goal' = total
    /\ saved' = used
    /\ tries' = 0
    /\ oldBad' = bad'
    /\ alloc' = "calc"

\* One try: decide the sizes, then go down the chain.  Three failures end it.
Calculate ==
    /\ alloc = "calc"
    /\ IF tries = 3
       THEN /\ alloc' = "no"
            /\ UNCHANGED <<want, stack, sect>>
       ELSE LET div == CalcAlloc(goal) IN
            /\ want' = div.need
            /\ IF div.left > 0
               THEN /\ alloc' = "no"
                    /\ SetSectors
                    /\ UNCHANGED stack
               ELSE /\ alloc' = "part"
                    /\ stack' = <<Frame(1, 0)>>
                    /\ UNCHANGED sect
    /\ UNCHANGED <<block, size, best, free, tries, oldBad, goal, saved, bad, ioerr>>

\* longjmp(jmp_allocfail): give the try up, or the data when some is lost.
GiveUp(lost) ==
    /\ stack' = <<>>
    /\ alloc' = IF lost THEN "lost" ELSE "calc"
    /\ tries' = IF lost THEN tries ELSE tries + 1

\* Move `count' sectors inside the blocks bl under the addressing sec.
Moved(bl, sec, dest, orig, count) ==
    /\ block' = MoveSectors(bl, sec, dest, orig, count)
    /\ ioerr' = (ioerr \/ Unbacked(bl, sec, dest, orig, count))

Top == Head(stack)
Part == Top.part
\* Mutant: the end the part shall have is taken for the one it has.
OldEndWanted == Top.first + want[Part]
OldEnd == Top.first + size[Part]
NewEnd == Top.first + want[Part]
Begun == alloc = "part" /\ stack # <<>> /\ Part \in Parts

\* The part keeps its size: on to the next.
PartKept ==
    /\ Begun /\ ~Top.below
    /\ want[Part] = size[Part]
    /\ stack' = <<Frame(Part + 1, NewEnd)>> \o Tail(stack)
    /\ UNCHANGED <<block, size, sect, want, best, free, tries, oldBad, goal, saved,
                   alloc, bad, ioerr>>

\* The part grows: take the memory, then pull the later sectors into it.
PartExpands ==
    /\ Begun /\ ~Top.below
    /\ want[Part] > size[Part]
    /\ \E o \in PhysicalAlloc(Part, block[Part], want[Part]) :
         LET i == Part
             lost == o.answer < size[i]
             to == Top.first + o.answer
             bl == [block EXCEPT ![i] = o.mem]
             sec == [sect EXCEPT ![i] = o.answer]
         IN /\ AllocMem(i, o)
            /\ IF lost
               THEN block' = bl /\ UNCHANGED <<sect, ioerr>>
               ELSE /\ sect' = sec
                    /\ Moved(bl, sec, OldEnd, to, saved - OldEnd)
            /\ IF o.answer = want[i]
               THEN /\ stack' = <<Frame(i + 1, to)>> \o Tail(stack)
                    /\ UNCHANGED <<best, alloc, tries>>
               ELSE /\ best' = [best EXCEPT ![i] = TRUE]
                    /\ GiveUp(lost)
    /\ UNCHANGED <<oldBad, goal, saved>>

\* Mutant: the way back is not told from the way down.
PartShrinksAgain ==
    /\ Begun
    /\ want[Part] < size[Part]
    /\ stack' = <<Frame(Part + 1, OldEnd)>> \o stack
    /\ stack[1].below = FALSE
    /\ UNCHANGED <<block, size, sect, want, best, free, tries, oldBad, goal, saved,
                   alloc, bad, ioerr>>

\* The part shrinks: first the parts behind it make room.
PartShrinks ==
    /\ Begun /\ ~Top.below
    /\ want[Part] < size[Part]
    /\ stack' = <<Frame(Part + 1, OldEnd), [Top EXCEPT !.below = TRUE]>> \o Tail(stack)
    /\ UNCHANGED <<block, size, sect, want, best, free, tries, oldBad, goal, saved,
                   alloc, bad, ioerr>>

\* Then what is above its new end moves to them, and the memory is given back.
\* When less is given back than asked for, the contents return.
PartShrunk ==
    /\ Begun /\ Top.below
    /\ LET i == Part
           over == saved - NewEnd
           room == MoveSectors(block, sect, OldEnd, NewEnd, over)
       IN \E o \in PhysicalAlloc(i, room[i], want[i]) :
            LET bl == [room EXCEPT ![i] = o.mem]
                sec == [sect EXCEPT ![i] = o.answer]
                back == Top.first + o.answer
            IN /\ AllocMem(i, o)
               /\ sect' = sec
               /\ block' = IF o.answer > want[i]
                           THEN MoveSectors(bl, sec, NewEnd, back, over) ELSE bl
               /\ ioerr' = \/ ioerr
                           \/ Unbacked(block, sect, OldEnd, NewEnd, over)
                           \/ o.answer > want[i] /\ Unbacked(bl, sec, NewEnd, back, over)
               /\ IF o.answer = want[i]
                  THEN stack' = Tail(stack) /\ UNCHANGED <<alloc, tries>>
                  ELSE GiveUp(o.answer < want[i])
               /\ best' = [best EXCEPT ![i] = @ \/ o.answer < want[i]]
    /\ UNCHANGED <<oldBad, goal, saved>>

\* Past the end of the chain: back to the part that was shrinking, or done.
ChainEnd ==
    /\ alloc = "part" /\ stack # <<>> /\ Part \notin Parts
    /\ stack' = Tail(stack)
    /\ UNCHANGED <<block, size, sect, want, best, free, tries, oldBad, goal, saved,
                   alloc, bad, ioerr>>

Allocated ==
    /\ alloc = "part" /\ stack = <<>>
    /\ alloc' = "yes"
    /\ bad' = oldBad
    /\ SetSectors
    /\ UNCHANGED <<block, size, want, best, free, tries, stack, oldBad, goal, saved, ioerr>>

AllocStep ==
    \/ Calculate \/ PartKept \/ PartExpands \/ PartShrinks \/ PartShrunk
    \/ ChainEnd \/ Allocated
=============================================================================

----------------------------- MODULE SrdResize ------------------------------
(***************************************************************************)
(* SRDISK: giving a RAM disk another format while its files stay on it     *)
(* (make_newf, format_disk, Resize, FixFAT, packdata), on top of the       *)
(* memory of SrdChain.  A sector holds a tuple: the boot record, a piece   *)
(* of the FAT, of the root directory or of a file.  A cluster is one       *)
(* sector and all files are in the root directory.                         *)
(***************************************************************************)
EXTENDS SrdChain, FiniteSets, TLC

CONSTANTS
    SectorBits, \* bits in a sector: how many FAT entries fit in it
    PerDir,     \* directory entries in a sector
    Max12,      \* the most clusters a 12 bit FAT is used for (0xFEE)
    Min16,      \* a 16 bit FAT needs more clusters than this (0xFF7)
    Word16,     \* cluster numbers wrap at this (2^16 in the program)
    Disks,      \* the formats asked for: records [size, fats, dirs]
    Layouts,    \* the root directories a disk may start with
    Splits,     \* how much of a disk each part of the chain may hold
    FreeMem,    \* what the memory managers may have left: [Pools -> Nat]
    Runs        \* how often the program is started

ASSUME ResizeAssumption ==
    /\ {SectorBits, PerDir, Max12, Min16, Word16} \subseteq Nat \ {0}
    /\ Max12 < Min16
    /\ Disks \subseteq [size : Nat, fats : Nat, dirs : Nat]
    /\ \A dir \in Layouts : dir \in Seq(ToSet(dir))
    /\ Splits \subseteq [DOMAIN Kind -> Nat] /\ FreeMem \subseteq [Pools -> Nat]

VARIABLES
    f,          \* the format the drive is configured with (f, and the BPB)
    g,          \* the format it shall have (newf)
    root,       \* the root directory: entries [file, start, len, gone]
    last,       \* fatstat.last_used
    top,        \* topcluster while packing: where the packed data ends
    visited,    \* visited_clusters of packdata
    pk,         \* where packdata is: [n, out, start, prev, next]
    secno,      \* the FAT sector FixFAT is at
    rw,         \* conf->RW_access: DOS may use the drive
    runs,       \* how often the program was started
    files,      \* the names of the files on the disk, for FilesKept
    pc          \* where the program is

formatVars == <<f, g>>
packVars == <<root, top, visited, pk>>
memRest == <<want, best, free, tries, stack, oldBad>>
diskVars == <<formatVars, packVars, last, secno, rw, runs, files>>
vars == <<chainVars, diskVars, pc>>

Reserved == 1
Eoc == Word16 - 1       \* end of chain, and what follows a cluster out of reach
Zero == <<"zero">>
-----------------------------------------------------------------------------
(***************************************************************************)
(* Formats (make_newf, the case of a size in Kbytes).                      *)
(***************************************************************************)
CeilDiv(a, b) == (a + b - 1) \div b
PerFat(type) == SectorBits \div type

\* The FAT and the clusters that share what boot record and directory leave.
FatFor(data, fats, type) == CeilDiv((data + 2) * type, SectorBits + fats * type)
ClustersFor(data, fats, type) == Most(0, data - fats * FatFor(data, fats, type))

MakeNewf(d, dirs) ==
    LET data == Most(0, d.size - Reserved - dirs)
        c12 == ClustersFor(data, d.fats, 12)
        c16 == ClustersFor(data, d.fats, 16)
        type == IF c12 > Max12 /\ c16 > Min16 THEN 16 ELSE 12
        clusters == IF type = 16 THEN c16 ELSE Least(c12, Max12)
        spf == FatFor(data, d.fats, type)
        dirStart == Reserved + d.fats * spf
    IN [size |-> dirStart + dirs + clusters, fats |-> d.fats, spf |-> spf,
        dirs |-> dirs, type |-> type, clusters |-> clusters,
        dirStart |-> dirStart, system |-> dirStart + dirs]

ClusterToSector(fmt, c) == ((c - 2) % Word16) + fmt.system
-----------------------------------------------------------------------------
(***************************************************************************)
(* Sectors by what they hold.                                              *)
(***************************************************************************)
\* The blocks after at[s] was written to every sector s of DOMAIN at.
Put(bl, at) == [p \in Parts |-> [k \in 1..Len(bl[p]) |->
                   LET s == FirstOf(sect, p) + k - 1 IN
                   IF k <= sect[p] /\ s \in DOMAIN at THEN at[s] ELSE bl[p][k]]]
Read(s) == Sector(block, sect, s)
Write(at) == /\ block' = Put(block, at)
             /\ ioerr' = (ioerr \/ \E s \in DOMAIN at : ~Backed(block, sect, s))

FatEntries(t, type) == IF t[1] = "fat" /\ t[2] = type THEN t[3]
                       ELSE [j \in 1..PerFat(type) |-> IF t = Zero THEN 0 ELSE Eoc]
FatSector(type, c) == Reserved + (c \div PerFat(type))
Next_cluster(bl, type, c) ==
    FatEntries(Sector(bl, sect, FatSector(type, c)), type)[(c % PerFat(type)) + 1]
NextCluster(c) == Next_cluster(block, f.type, c)

\* set_next_cluster, in the first FAT.
SetNext(bl, c, to) ==
    LET s == FatSector(f.type, c)
        old == FatEntries(Sector(bl, sect, s), f.type)
    IN Put(bl, s :> <<"fat", f.type, [old EXCEPT ![(c % PerFat(f.type)) + 1] = to]>>)

Clusters(fmt) == 2..(fmt.clusters + 1)
UsedClusters(fmt) == {c \in Clusters(fmt) : Next_cluster(block, fmt.type, c) # 0}
FreeClusters == Clusters(f) \ UsedClusters(f)
Lowest(S) == CHOOSE c \in S : \A d \in S : c <= d
Highest(S) == CHOOSE c \in S \union {0} : \A d \in S : c >= d

\* A disk of the format with the given files on it, as DOS would leave it.
Image(fmt, dir) ==
    LET live == {e \in ToSet(dir) : ~e.gone}
        holder(c) == {e \in live : c \in ToSet(e.clusters)}
        pos(c) == LET e == CHOOSE x \in holder(c) : TRUE
                  IN CHOOSE k \in DOMAIN e.clusters : e.clusters[k] = c
        succ(c) == IF c < 2 THEN Eoc ELSE IF holder(c) = {} THEN 0
                   ELSE LET e == CHOOSE x \in holder(c) : TRUE IN
                        IF pos(c) = Len(e.clusters) THEN Eoc ELSE e.clusters[pos(c) + 1]
        fat(k) == <<"fat", fmt.type,
                    [j \in 1..PerFat(fmt.type) |-> succ(k * PerFat(fmt.type) + j - 1)]>>
        data(c) == IF holder(c) = {} THEN Zero
                   ELSE <<"data", (CHOOSE x \in holder(c) : TRUE).file, pos(c)>>
    IN [s \in 0..(fmt.size - 1) |->
          IF s < Reserved THEN <<"boot">>
          ELSE IF s < fmt.dirStart THEN fat((s - Reserved) % fmt.spf)
          ELSE IF s < fmt.system THEN <<"dir", s - fmt.dirStart>>
          ELSE data(s - fmt.system + 2)]
-----------------------------------------------------------------------------
FileOf(e) == [file |-> e.file, len |-> Len(e.clusters), gone |-> e.gone,
              start |-> IF e.clusters = <<>> THEN 0 ELSE e.clusters[1]]
LiveFiles == {e.file : e \in {x \in ToSet(root) : ~x.gone}}
NoFile == [n |-> 0, out |-> <<>>, start |-> 0, prev |-> 0, next |-> 0]

Init ==
    \E d \in Disks, dir \in Layouts, split \in Splits, left \in FreeMem :
      LET fmt == MakeNewf(d, d.dirs) IN
      /\ fmt.clusters > 0
      /\ Len(dir) <= fmt.dirs * PerDir
      /\ \A e \in ToSet(dir) : ToSet(e.clusters) \subseteq Clusters(fmt)
      /\ Total(split) >= fmt.size
      /\ \A i \in Parts : split[i] <= MaxK[i] /\ split[i] % AllocUnit(i) = 0
      /\ f = fmt /\ g = fmt
      /\ root = [n \in DOMAIN dir |-> FileOf(dir[n])]
      /\ size = split /\ sect = split /\ want = split
      /\ block = [p \in Parts |-> [k \in 1..split[p] |->
                     LET s == FirstOf(split, p) + k - 1 IN
                     IF s < fmt.size THEN Image(fmt, dir)[s] ELSE Junk]]
      /\ free = left
      /\ best = [p \in Parts |-> FALSE]
      /\ goal = fmt.size /\ saved = 0 /\ tries = 0 /\ stack = <<>>
      /\ alloc = "idle" /\ bad = FALSE /\ oldBad = FALSE /\ ioerr = FALSE
      /\ last = 0 /\ top = 0 /\ visited = {} /\ pk = NoFile /\ secno = 0
      /\ files = LiveFiles /\ rw = TRUE /\ runs = 0 /\ pc = "idle"
-----------------------------------------------------------------------------
(***************************************************************************)
(* The program is started with another format (format_disk, make_newf).    *)
(***************************************************************************)
Ended == {"idle", "refused", "toosmall", "done", "fatal"}
\* error.c: after an error DOS gets the drive back, whatever is on it.
Fatal == pc' = "fatal" /\ rw' = TRUE
DirsFor(d) == Most(d.dirs, CeilDiv(Cardinality({n \in DOMAIN root : ~root[n].gone}), PerDir))

FormatDisk ==
    /\ pc \in Ended \ {"fatal"} /\ runs < Runs
    /\ \E d \in Disks :
         LET new == MakeNewf(d, DirsFor(d)) IN
         /\ g' = new
         /\ pc' = IF CalcAlloc(new.size).left > 0 \/ new.clusters = 0 THEN "refused"
                  ELSE IF [size |-> new.size, dirs |-> new.dirs, fats |-> new.fats] =
                          [size |-> f.size, dirs |-> f.dirs, fats |-> f.fats]
                  THEN "idle" ELSE "resize"
    /\ runs' = runs + 1
    /\ alloc' = "idle"
    /\ UNCHANGED <<block, size, sect, want, best, free, goal, saved, tries, stack, bad, oldBad,
                   ioerr, f, packVars, last, secno, rw, files>>

\* Resize, down to the decision to pack.
Resize ==
    /\ pc = "resize"
    /\ LET used == Cardinality(UsedClusters(f))
           end == Highest(UsedClusters(f))
           pack == g.clusters < f.clusters \/ g.dirs < f.dirs \/ used < end \div 2
       IN /\ last' = end
          /\ IF used > g.clusters
             THEN pc' = "toosmall" /\ UNCHANGED <<rw, top, visited, pk>>
             ELSE /\ rw' = FALSE
                  /\ IF pack
                     THEN /\ pc' = "pack"
                          /\ top' = used + 1
                          /\ visited' = {}
                          /\ pk' = [NoFile EXCEPT !.n = 1]
                     ELSE pc' = "grow" /\ UNCHANGED <<top, visited, pk>>
    /\ UNCHANGED <<chainVars, formatVars, root, secno, runs, files>>
-----------------------------------------------------------------------------
(***************************************************************************)
(* packdata: every cluster beyond `top' moves to the lowest free one; the  *)
(* entries of deleted files leave the directory, except one in the very    *)
(* first place, which DirRewind takes for a file.                          *)
(***************************************************************************)
Entry == root[pk.n]
Skipped == Entry.gone /\ pk.n > 1
Listed(start) == pk' = [NoFile EXCEPT !.n = pk.n + 1,
                                      !.out = Append(pk.out, [Entry EXCEPT !.start = start])]

\* relocate: the blocks with cluster c copied to `to' and c free.
Relocate(c, to) ==
    SetNext(Put(block, ClusterToSector(f, to) :> Read(ClusterToSector(f, c))), c, 0)

PackSkips ==
    /\ pc = "pack" /\ pk.prev = 0 /\ pk.n <= Len(root) /\ Skipped
    /\ pk' = [pk EXCEPT !.n = @ + 1]
    /\ UNCHANGED <<chainVars, formatVars, root, top, visited, last, secno, rw, runs, files, pc>>

\* packfile: the first cluster of a file.
PackFile ==
    /\ pc = "pack" /\ pk.prev = 0 /\ pk.n <= Len(root) /\ ~Skipped
    /\ LET c == Entry.start
           next == NextCluster(c)
           begin(at) == /\ visited' = visited \union {at}
                        /\ pk' = [pk EXCEPT !.start = at, !.prev = at, !.next = next]
       IN IF c = 0 THEN Listed(0) /\ UNCHANGED <<block, visited>>
          ELSE IF c \in visited \/ (c > top /\ FreeClusters = {})
          THEN Listed(0) /\ UNCHANGED <<block, visited>>
          ELSE IF c > top
          THEN LET to == Lowest(FreeClusters) IN
               /\ block' = SetNext(Relocate(c, to), to, next)
               /\ begin(to)
          ELSE begin(c) /\ UNCHANGED block
    /\ bad' = TRUE
    /\ UNCHANGED <<size, sect, memRest, goal, saved, alloc, ioerr, formatVars, root, top,
                   last, secno, rw, runs, files, pc>>

\* The rest of the chain, a cluster at a time.
PackChain ==
    /\ pc = "pack" /\ pk.prev # 0
    /\ LET c == pk.next
           next == NextCluster(c)
           step(at) == /\ visited' = visited \union {at}
                       /\ pk' = [pk EXCEPT !.prev = at, !.next = next]
       IN IF c = 0 \/ c = Eoc \/ c \in visited
          THEN Listed(pk.start) /\ UNCHANGED <<block, visited>>
          ELSE IF c <= top THEN step(c) /\ UNCHANGED block
          ELSE IF FreeClusters = {} THEN Listed(0) /\ UNCHANGED <<block, visited>>
          ELSE LET to == Lowest(FreeClusters) IN
               /\ block' = SetNext(SetNext(Relocate(c, to), to, next), pk.prev, to)
               /\ step(to)
    /\ UNCHANGED <<size, sect, memRest, goal, saved, alloc, bad, ioerr, formatVars, root,
                   top, last, secno, rw, runs, files, pc>>

\* The directory ends after the last entry kept; the rest of it is cleared.
PackEnds ==
    /\ pc = "pack" /\ pk.prev = 0 /\ pk.n > Len(root)
    /\ root' = pk.out
    /\ Write([s \in (f.dirStart + (Len(pk.out) \div PerDir) + 1)..(f.system - 1) |-> Zero])
    /\ last' = top
    /\ bad' = FALSE
    /\ pc' = "grow"
    /\ UNCHANGED <<size, sect, memRest, goal, saved, alloc, formatVars, top, visited, pk,
                   secno, rw, runs, files>>
-----------------------------------------------------------------------------
(***************************************************************************)
(* The memory of a larger disk is taken before anything moves, that of a   *)
(* smaller one is given back when all has moved.                           *)
(***************************************************************************)
\* Mutant: the sectors up to the last used cluster, without it.
UsedBeforeLast == ClusterToSector(f, last)
Used == ClusterToSector(f, last + 1)

Grow ==
    /\ pc = "grow"
    /\ UNCHANGED bad
    /\ IF g.size > f.size
       THEN /\ StartAlloc(g.size, Used)
            /\ pc' = "growing"
       ELSE pc' = "up" /\ UNCHANGED <<goal, saved, tries, oldBad, alloc>>
    /\ UNCHANGED <<block, size, sect, want, best, free, stack, ioerr, diskVars>>

Allocating ==
    /\ pc \in {"growing", "undoing", "shrinking"}
    /\ AllocStep
    /\ UNCHANGED <<diskVars, pc>>

Grew ==
    /\ pc = "growing" /\ alloc = "yes"
    /\ pc' = "up"
    /\ UNCHANGED <<chainVars, diskVars>>

\* Try to make the disk as it was.
GrowFails ==
    /\ pc = "growing" /\ alloc \in {"no", "lost"}
    /\ bad' = TRUE
    /\ IF alloc = "no" /\ CurrentSize > f.size
       THEN /\ g' = [g EXCEPT !.size = f.size]
            /\ StartAlloc(f.size, Used)
            /\ pc' = "undoing"
            /\ UNCHANGED rw
       ELSE /\ Fatal
            /\ UNCHANGED <<g, goal, saved, tries, oldBad, alloc>>
    /\ UNCHANGED <<block, size, sect, want, best, free, stack, ioerr, f, packVars, last,
                   secno, runs, files>>

Undone ==
    /\ pc = "undoing" /\ alloc \in {"yes", "no", "lost"}
    /\ bad' = ~(alloc = "yes" /\ CurrentSize >= f.size)
    /\ Fatal
    /\ UNCHANGED <<memVars, goal, saved, alloc, ioerr, formatVars, packVars, last, secno, runs, files>>

-----------------------------------------------------------------------------
(***************************************************************************)
(* From the old format to the new one, in an order in which nothing is     *)
(* overwritten before it has moved.                                        *)
(***************************************************************************)
MoveOn(dest, orig, number, to) ==
    /\ Moved(block, sect, dest, orig, number)
    /\ pc' = to
    /\ UNCHANGED <<size, sect, memRest, goal, saved, alloc, formatVars, packVars, last, rw, runs, files>>

\* Mutant: one sector for every number up to the last cluster's.
DataFromZero == last
Data == (last - 1) % Word16
Convert == g.type # f.type
FirstFatSector == IF g.type = 16 THEN (f.clusters + 1) \div PerFat(16) ELSE 0
LastFatSector == IF g.type = 16 THEN 0 ELSE (f.clusters + 1) \div PerFat(12)

ClustersUp ==
    /\ pc = "up"
    /\ bad' = TRUE
    /\ MoveOn(g.system, f.system, IF g.system > f.system THEN Data ELSE 0, "dirup")
    /\ UNCHANGED secno

RootDirUp ==
    /\ pc = "dirup"
    /\ MoveOn(g.dirStart, f.dirStart, IF g.dirStart > f.dirStart THEN g.dirs ELSE 0,
              IF Convert THEN "fat" ELSE "copies")
    /\ secno' = FirstFatSector
    /\ UNCHANGED bad

\* FixFAT of another width, a sector of the new FAT at a time, from the end
\* when it gets longer and from the start when it gets shorter.
FixFAT ==
    /\ pc = "fat"
    /\ LET first == secno * PerFat(g.type)
           succ(c) == IF c < 2 THEN Eoc ELSE IF c > f.clusters + 1 THEN 0 ELSE NextCluster(c)
       IN Write([s \in {Reserved + secno} |->
                  <<"fat", g.type, [j \in 1..PerFat(g.type) |-> succ(first + j - 1)]>>])
    /\ IF secno = LastFatSector
       THEN pc' = "copies" /\ UNCHANGED secno
       ELSE pc' = "fat" /\ secno' = IF g.type = 16 THEN secno - 1 ELSE secno + 1
    /\ UNCHANGED <<size, sect, memRest, goal, saved, alloc, bad, formatVars, packVars, last,
                   rw, runs, files>>

\* The rest of FixFAT: sectors behind the old FAT are cleared, the FAT copied.
CopyFAT ==
    /\ pc = "copies"
    /\ LET used == IF Convert THEN ((f.clusters + 1) \div PerFat(g.type)) + 1 ELSE f.spf
           first(k) == IF k < used THEN Read(Reserved + k) ELSE Zero
       IN Write([s \in (Reserved + Least(used, g.spf))..(g.dirStart - 1) |->
                   first((s - Reserved) % g.spf)])
    /\ pc' = "dirdown"
    /\ UNCHANGED <<size, sect, memRest, goal, saved, alloc, bad, formatVars, packVars, last,
                   secno, rw, runs, files>>

RootDirDown ==
    /\ pc = "dirdown"
    /\ MoveOn(g.dirStart, f.dirStart, IF g.dirStart < f.dirStart THEN g.dirs ELSE 0, "down")
    /\ UNCHANGED <<bad, secno>>

ClustersDown ==
    /\ pc = "down"
    /\ MoveOn(g.system, f.system, IF g.system < f.system THEN Data ELSE 0, "shrink")
    /\ UNCHANGED <<bad, secno>>

Shrink ==
    /\ pc = "shrink"
    /\ UNCHANGED bad
    /\ IF g.size < f.size
       THEN /\ StartAlloc(g.size, Data + g.system)
            /\ pc' = "shrinking"
       ELSE pc' = "finish" /\ UNCHANGED <<goal, saved, tries, oldBad, alloc>>
    /\ UNCHANGED <<block, size, sect, want, best, free, stack, ioerr, diskVars>>

Shrank ==
    /\ pc = "shrinking" /\ alloc \in {"yes", "no", "lost"}
    /\ IF alloc = "yes" THEN pc' = "finish" /\ UNCHANGED rw ELSE Fatal
    /\ UNCHANGED <<chainVars, formatVars, packVars, last, secno, runs, files>>

\* New directory sectors are cleared, the drive and its boot record configured.
\* The program ends, and with it what it has learned of the parts: the next run
\* starts with every alloc_best cleared, as Init does.  (A run that ends earlier
\* has allocated nothing, or is the last.)
Finish ==
    /\ pc = "finish"
    /\ Write([s \in (g.dirStart + f.dirs)..(g.system - 1) |-> Zero])
    /\ sect' = size
    /\ f' = g
    /\ bad' = FALSE
    /\ rw' = TRUE
    /\ pc' = "done"
    /\ best' = [p \in Parts |-> FALSE]
    /\ UNCHANGED <<size, want, free, tries, stack, oldBad, goal, saved, alloc, g, packVars,
                   last, secno, runs, files>>
-----------------------------------------------------------------------------
Step ==
    \/ Resize
    \/ PackSkips \/ PackFile \/ PackChain \/ PackEnds
    \/ Grow \/ Allocating \/ Grew \/ GrowFails \/ Undone
    \/ ClustersUp \/ RootDirUp \/ FixFAT \/ CopyFAT \/ RootDirDown \/ ClustersDown
    \/ Shrink \/ Shrank \/ Finish

Rest == /\ pc \in Ended /\ (runs = Runs \/ pc = "fatal")
        /\ UNCHANGED vars

Next == FormatDisk \/ Step \/ Rest
Spec == Init /\ [][Next]_vars
\* The program is one thread: it goes on until it ends.  (This is WF_vars(Step)
\* with what enables a step, that the program has not ended, put in its place.)
FairSpec == Spec /\ ([]<>(pc \in Ended) \/ []<><<Next>>_vars)
-----------------------------------------------------------------------------
(***************************************************************************)
(* Properties.                                                             *)
(***************************************************************************)
Pcs == Ended \union {"resize", "pack", "grow", "growing", "undoing", "up", "dirup", "fat",
                     "copies", "dirdown", "down", "shrink", "shrinking", "finish"}

\* The blocks, sizes and places are of their types; the parts of the disk
\* never hold more memory than there is.
TypeOK ==
    /\ pc \in Pcs /\ rw \in BOOLEAN /\ bad \in BOOLEAN /\ oldBad \in BOOLEAN
    /\ runs \in 0..Runs /\ tries \in 0..3
    /\ alloc \in {"idle", "calc", "part", "yes", "no", "lost"}
    /\ \A p \in Parts : size[p] \in Nat /\ sect[p] \in Nat /\ want[p] \in 0..(Word - 1)
    /\ \A p \in Parts : Len(block[p]) % AllocUnit(p) = 0
    /\ free \in [Pools -> Nat]
    /\ last \in 0..(Word16 - 1) /\ visited \subseteq 0..(Word16 - 1)
    /\ \A n \in DOMAIN root : root[n].start \in 0..(Word16 - 1)

\* What DOS finds on the drive when it reads it with format fmt.
Chain(fmt, start, len) ==
    LET at[k \in 1..len] == IF k = 1 THEN start ELSE Next_cluster(block, fmt.type, at[k - 1])
    IN at
FileReadable(fmt, e) ==
    IF e.len = 0 THEN e.start = 0
    ELSE LET at == Chain(fmt, e.start, e.len) IN
         /\ \A k \in 1..e.len : at[k] \in Clusters(fmt)
                                /\ Read(ClusterToSector(fmt, at[k])) = <<"data", e.file, k>>
         /\ Next_cluster(block, fmt.type, at[e.len]) = Eoc
Readable(fmt) ==
    /\ fmt.size <= Total(sect)
    /\ Read(0) = <<"boot">>
    /\ \A c \in 1..(fmt.fats - 1), k \in 0..(fmt.spf - 1) :
          FatEntries(Read(Reserved + c * fmt.spf + k), fmt.type) =
          FatEntries(Read(Reserved + k), fmt.type)
    /\ \A k \in 0..(fmt.dirs - 1) :
          \/ Read(fmt.dirStart + k) = <<"dir", k>>
          \/ k * PerDir = Len(root) /\ Read(fmt.dirStart + k) = Zero
          \/ k * PerDir > Len(root)
    /\ Len(root) <= fmt.dirs * PerDir
    /\ LiveFiles = files
    /\ \A e \in ToSet(root) : e.gone \/ FileReadable(fmt, e)

\* Whenever DOS may use the drive and the program does not call it bad, every
\* file is there with its contents, the copies of the FAT agree and the
\* directory ends where it should (Resize, packdata, FixFAT, AllocPart).
FilesKept == rw /\ ~bad => Readable(f)

\* No sector is read or written that no memory stands behind (MoveSectors,
\* ClearSectors: "Disk failure" on a RAM disk).
InReach == ~ioerr

\* A driver never believes in more memory than its block has (AllocMem).
SizeIsHeld == \A p \in Parts : size[p] <= Len(block[p])

\* Memory is taken and given back with the contents kept: whatever moves between
\* the parts, DOS's sectors up to `saved' are the same before and after each step
\* of it, unless it reports them lost or has left the disk (AllocPart).
SavedStays == [][AllocStep /\ alloc' # "lost" /\ ~ioerr' =>
                 \A s \in 0..(saved - 1) : Sector(block', sect', s) = Sector(block, sect, s)]_vars

\* allocate.c: "we expect memory can always be freed without fear of failure":
\* making a disk smaller does not fail.
FreeingIsSafe == pc = "shrinking" => alloc \notin {"no", "lost"}

\* The program ends, whatever the memory managers refuse (SavingDiskAllocate
\* gives up after three tries, AllocPart returns from every depth).
ResizeReturns == (pc \notin Ended) ~> (pc \in Ended)
=============================================================================

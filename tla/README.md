# Verification of tripartiteOS

TLA+ models of the parts of tripartiteOS that have behaviour worth checking: the
extended-memory driver the system is built on, the way from the boot menu to
the boot logo, the build, the sound emulation and the RAM disk that changes
size with its files on it. TLC checks the models on small instances; TLAPS
proves the safety results of the memory driver, of the build and of the sound
emulation for every instance, that the memory of a RAM disk changes size with its
contents kept, and that resizing never leaves that memory.

    tlc -config handles_seq.cfg MCXmsHandles     # one run
    tlapm XmsHandlesProofs.tla                   # the proofs about the table
    tlapm XmsPromiseProofs.tla                   # about what it promises clients
    tlapm XmsMoveProofs.tla                      # about block moves
    tlapm XmsA20Proofs.tla                       # about the A20 line
    tlapm BuildScriptProofs.tla                  # about the build
    tlapm SbOrderProofs.tla                      # about playback; takes minutes
    tlapm SrdProofs.tla                          # about a RAM disk; takes minutes
    tlapm SrdReachProofs.tla                     # and that resizing stays within it

`PROJECT.json` lists the runs, the line of code behind each definition, the
mutation that shows that each property can fail, and the hazards the properties
are for.

## 1. Inventory

tripartiteOS is a DOS-based system. Its own code is small; the drivers it leans
on are kept with it in source.

| Part | Where | State | Operations | Model |
| --- | --- | --- | --- | --- |
| HimemSX: handles | `src16/Drivers/source/himemsx/HimemSX.asm` 842-1262, 1861-2232 | table of handles (flags, locks, base, size) | allocate, free, lock, unlock, reallocate | `XmsHandles` |
| HimemSX: A20 and HMA | same, 477-832 | the line, `a20_locks`, `hma_used` | request, release, global and local enable and disable, query | `XmsA20` |
| HimemSX: block move | same, 1272-1846 | contents of memory | 0Bh, CBh | `XmsMove`; its A20 side in `XmsA20` |
| HimemSX: INT 15h hook | same, 570-616 | none of its own | AH=87h around the BIOS, reports of memory size | `XmsA20` (87h) |
| HimemSX: start | same, 2526-3975 | builds the table from the E820 map, patches in the A20 routine | `initialize` | the table it leaves is `Init` of `XmsHandles`; the rest planned |
| Boot files | `Configs/`, `BuildPrep/`, `src16/DrvInit/` | menu choice, PATH, what is resident | DEVICE lines, batch commands | `Boot` |
| TOS.COM | `src16/toscom/tos.asm` | what was found | version check, XMS check, disclaimer, logo | `Boot` |
| Build | `buildAll.bat`, `src32/build.bat` | files of the product and of the previous build | backup, nasm, gcc, stubedit, tree | `BuildScript` |
| Installer | `Assemble_binaries/` | progress form, temporary files | download, extract, copy | planned |
| Kernel, GUI, SDK, package tool | `src32/`, `src16/GUI`, `AppSDK/`, `SysTools/` | next to none | panic; test picture; headers | not modelled |
| SBEMU: playback | `src16/Drivers/source/sbemu/main.c`, `sbemu/sbemu.c`, `sbemu/vdma.c` | a DSP, two DMA channels, the sound interrupt's place in its loop | port writes and reads, the card's interrupt, the call of the program's handler | `SbDma`, `SbDsp`, `SbPlay` |
| SBEMU: the rest | `src16/Drivers/source/sbemu/` | traps, PIC and IRQ virtualisation, OPL, mixer, card drivers | | not modelled |
| SRDISK: resizing | `src16/Drivers/source/srdisk/*.c` | blocks of XMS or EMS memory in a chain of drivers, formats, FAT, root directory | reformat with the files kept: allocate, pack, move, convert the FAT | `SrdChain`, `SrdResize` |
| SRDISK: the rest | same | device drivers, command line, formats of an empty disk | | not modelled |
| Jemm386, XCDROM, CuteMouse | `src16/Drivers/source/` | | | not modelled; what each needs in order to load is in `Boot` |

**How the parts meet.** CONFIG.SYS loads HimemSX, which takes over all extended
memory and answers on INT 2Fh AX=43xxh with the address of its entry point. The
drivers behind it, the programs AUTOEXEC.BAT starts and their interrupt
routines are its clients. They share the handle table, the A20 line and the
interrupt flag, and nothing else orders their calls. AUTOEXEC.BAT ends in
TOS.COM, which looks for XMS and shows the logo. The build copies all of this
to one tree.

A DOS program that plays sound talks to ports. SBEMU traps each access and keeps the
state of a Sound Blaster; the real card's interrupt takes samples from the program's
buffer where the virtual DMA controller points, and when a block is over SBEMU calls the
program's own interrupt handler from the middle of that loop. The two sides share the DSP
and the DMA registers.

A RAM disk of SRDISK is a chain of device drivers, each with one block of XMS or EMS
memory (from HimemSX or Jemm386), that serve consecutive sectors of one drive. SRDISK.EXE
changes it from outside: it asks the drivers for more or less memory, and moves the
contents through ordinary sector reads and writes.

**What is hard.** HimemSX runs on one processor in real mode, so what is
concurrent in it is a main program and hardware interrupts. A routine that
calls the driver can get in wherever the interrupt flag is set. The driver
protects most, not all, of its updates with `cli`. Its scans change the table
they run over. It undoes a step that overflows a byte. It must restore the
interrupt flag and the A20 line on every path. The boot is a chain of
files in which each must hand over to the next, and in which a driver that
fails to load says so and the chain goes on. The build is a script that tests
little of what it does. In SBEMU the samples the card wants, the block of the DSP and
the buffer of the DMA end at different places, the interrupt can come between the two
bytes of a register or in the middle of one access, and the program's handler changes the
state its caller is using. In
SRDISK every size that changes renumbers the sectors behind it, source and destination
of each move overlap, a memory manager may give less than it was asked for in the
middle, and then the program must go back or say that the disk is bad.

**What makes each part correct.**

- Handles: blocks are a partition of the memory found at load time; locked
  blocks do not move; no call touches a block it does not name; freed memory is
  free; success means success; every call returns and gives interrupts back.
- Block move: success means that the destination holds the source and that nothing
  else changed; a move never leaves the blocks it names; a reallocation that moves a
  block moves its contents.
- A20: on whenever a client that enabled it runs and whenever a block is moved;
  left as found by what promises that; one owner of the HMA.
- Boot: safe modes are safe; drivers come in the order they need; each menu item
  ends where it says; messages are true.
- Build: the last good build survives failing ones; nothing old passes for new;
  messages are true.
- Playback: a handler is called when the whole block has been taken, and only then;
  samples come from the program's buffer and in order; a counter read in two halves is one
  that was; the DSP never ends up deaf and silent; interrupts keep coming.
- Resizing: whenever DOS may use the disk and it is not called bad, every file is there
  with its contents; no sector without memory is touched; drivers know the size of their
  memory; the program ends.

## 2. Modules

| Module | What it is |
| --- | --- |
| `XmsAllocator` | what the XMS functions promise a client, without a table |
| `XmsHandles` | the handle table; implements `XmsAllocator` |
| `XmsHandlesProofs` | the proofs about the table itself |
| `XmsPromiseProofs` | the proofs that it implements `XmsAllocator`, and that a reallocation delivers |
| `XmsMove` | what a block move, and the copying of a reallocation, do to memory |
| `XmsMoveProofs` | the proofs about it |
| `XmsA20` | the A20 line, the HMA, the A20 side of block moves |
| `XmsA20Proofs` | the proofs about it |
| `Boot` | boot menu to logo or prompt, for both sets of boot files |
| `BuildScript` | `buildAll.bat` and `src32\build.bat` |
| `BuildScriptProofs` | the proofs about them |
| `SrdChain` | the memory under a RAM disk, and changing it with the contents kept |
| `SrdResize` | another format for a RAM disk with files on it; extends `SrdChain` |
| `SrdProofs` | the proofs about the memory, its resizing and the moves in both |
| `SrdReachProofs` | the proof that every sector read or written has memory behind it |
| `SbDma`, `SbDsp` | a channel of the virtual DMA controller; the DSP: operators from state to state |
| `SbPlay` | program, DSP, DMA, card interrupt and interrupt handler together |
| `SbOrderProofs` | the proofs about it |
| `MC...` | the instances for TLC |

### XmsHandles

`table` is the array of XMS_HANDLE entries; `frame` holds what the code keeps in
registers during a call; `pc` is where each of the two contexts, `main` and
`isr`, is in the driver; `cli` is the interrupt flag; `ret` is AX on
return. `owner` is history: to which client a handle was returned. Sizes and
addresses are in kB, as in the table.

A step is what runs between two points at which an interrupt can get in. An
allocation is one step since all of it runs under `cli`; the resize in place
of `xms_ext_realloc_emb` (lines 2061-2067) is five, one for each instruction that
writes the table. The scan of `xms_free_emb` runs under `cli` and is a step per
entry all the same, for what is delicate about it is the order in which it
looks at entries while it merges them.

| Code | Actions |
| --- | --- |
| `xms_alloc_emb` and its 32-bit and super-extended entries | `AllocFit`, `AllocNull`, `AllocFail` |
| `xms_free_emb` | `FreeCheck`, `FreeLock`, `FreeBegin`, `FreeSkip`, `FreeMerge`, `FreeEnd` |
| `xms_lock_emb`, `xms_sext_lock_emb` | `LockCheck`, `LockBeyond4G`, `LockInc`, `LockUndo` |
| `xms_unlock_emb` | `UnlockCheck`, `UnlockTest`, `UnlockDec` |
| `xms_ext_realloc_emb`, `xms_realloc_emb` | `Realloc...` (the successor in place; a split; or allocate, copy, exchange, free) |
| a hardware interrupt and its end | `Interrupt`, `Iret` |

Left out: the 16-bit clipping of sizes by the old entry points, error codes, the
address a lock returns, the query functions. The contents of blocks are not in
this model, so `xms_move_emb` is a step without effect.

`Private` says whether a client only passes handles it was given. Without it the
models allow a routine to free what the main program is just locking; with it
the promise of `XmsAllocator` can be stated.

### XmsMove

`origin` describes memory by where each byte came from: `origin[a]` is the address
at which, when the call began, the byte now at `a` was. So a client may make any
number of calls and one property says what each does to all contents. `args` is
what the client passed, `move` holds the registers of `xms_move_emb` (ESI with BH, EDI
with BL, the bytes left, the copy routine in BP), `grow` those of the loop in
`xms_ext_realloc_emb`.

| Code | Definitions |
| --- | --- |
| `xms_get_move_addr` | `Location`, `FitsIn`, `Invalid` |
| checks and setup of `xms_move_emb` | `Verdict`, `Overlaps`, `Routine`, `BeginMove`, `Move` |
| copy loop, `rmcopy`, `rmcopysx`, `pmcopy` | `CopyChunk`, `Advance`, `BiosFails` |
| `xms_ext_realloc_emb` 2076-2157 | `Grow`, `GrowMove`, `GrowNext`, `GrowSwap` |

A step is a chunk, which is copied with interrupts off. The mode of the processor
is looked at in every call, so it may change between two chunks of a
reallocation, not within a move. Left out: how a routine reaches an address
(descriptors, page directory, unreal mode), interrupt routines, which share
nothing with a move but A20 (`XmsA20`) and the handles (`XmsHandles`). Taken from
`XmsHandles`: blocks are disjoint and lie in memory (`MemoryAssumption`). Taken from the PC:
the end of the first 4 GB belongs to the BIOS, so no block reaches across
(`BorderAssumption`); `rmcopy`, which is chosen by where the blocks begin, relies
on it. The allocation and the freeing within the reallocation are those of
`XmsHandles`: here the new block is any free one that is larger.

### XmsA20

`a20` is the line as `test_a20` finds it, `locks` and `hma` the driver's
variables, `holds` and `has` the history of who enabled the line and who
was assigned the HMA. One step reads or writes one of the driver's variables.
The routine patched in by `seta20method` is taken to do what it is asked; the
BIOS leaves the line as it likes. Clients give back only what they took, and an
interrupt routine gives back all of it before it ends.

### Boot

`Devices` and `Script` are the files, command for command; the actions are
what DOS and COMMAND.COM do with a command, and what TOS.COM does. COMMAND.COM
is not part of the repository: its rules (a batch file named without CALL does
not return; GOTO looks for a label; a label is no command) are DOS's. `LooksFor`
is what each program looks for before it stays resident, from its source. SBEMU stays with
one of QPIEMU (for programs in real mode) and HDPMI (for those in protected mode), and
`support` remembers which it found. `Optional` is what also depends on the machine. `tried`
is the sequence in which programs were started first, so that `DriversFirst` can say that
each came after what it looks for. `image` picks the set of files:
`Configs` with the tree of "File structure.txt", or `BuildPrep`.

### BuildScript

A file is the number of the run that made it, 0 for none, with its backup
beside it. Every tool may fail in every run, and sources may come and go between
runs.

### SrdChain and SrdResize

`block` is the memory each driver holds, sector by sector; `size` what the driver
believes it holds, `sect` how many sectors of the disk it serves; `f` and `g` are the old
and the new format. Sector s of the disk is looked up part by part (`Home`), as the
chained drivers do, so a change of `sect` renumbers all later contents by itself.

| Code | Definitions |
| --- | --- |
| `calc_alloc`, `max_size`, `safe_size` (allocate.c) | `Kept`, `Grown`, `Shrunk`, `CalcAlloc`, `MaxSize`, `SafeSize` |
| `disk_alloc`, `physical_alloc`, `AllocMem` (diskio.c, srdxmsf.c, srdemsf.c) | `Realloc`, `WithoutManager`, `PhysicalAlloc`, `AllocMem` |
| `SavingDiskAllocate`, `AllocPart` with their `longjmp` (realloc.c) | `StartAlloc`, `Calculate`, `PartKept`, `PartExpands`, `PartShrinks`, `PartShrunk`, `ChainEnd`, `Allocated`, `GiveUp` |
| `MoveSectors` (resize.c) | `MoveSectors`, `CopyBatch` |
| `make_newf` (makenewf.c) | `MakeNewf` and what it calls |
| `format_disk`, `Resize` (format.c, resize.c) | `FormatDisk`, `Resize`, `Grow`, `GrowFails`, `ClustersUp` ... `ClustersDown`, `Shrink`, `Finish` |
| `packdata`, `packfile`, `relocate`, `DirRewind`, `DirFindNext` | `PackSkips`, `PackFile`, `PackChain`, `PackEnds`, `Relocate` |
| `FixFAT` | `FixFAT`, `CopyFAT` |
| `fatal`, `crash` (error.c) | `Fatal` |

A sector holds a tuple that says what it is: a piece of the FAT with its entries, of the
directory, or of a file. One sector is one kB and one cluster; `Word`, `Word16`,
`SectorBits`, `Max12` and `Min16` are the widths and limits of the program made small, so
that numbers wrap, FAT entries share sectors, and both widths of the FAT occur, in disks
of a dozen sectors. The memory managers are external: `Refusals` says which requests
that could be met they turn down. Left out: subdirectories, cluster sizes, the buffers for
FAT and directory sectors (each write reaches the disk at once), other ways to ask for a
format than by size, and 32-bit sector access.

### SbDma, SbDsp and SbPlay

`SbDma` and `SbDsp` hold what `vdma.c` and `sbemu.c` do with one register access, as
operators. `SbPlay` puts them together: `dsp` and `dma` are the emulated chips, `irq` is
where `MAIN_Interrupt` is, with its local variables, `main` and `isr` are the accesses the
program and its handler are about to make. The program is external: it sets up a
channel and a block as the manuals of the chips say (`Play`), and then polls, pauses,
halts, resets or asks for an interrupt (`MainScripts`); its handler acknowledges, starts
the next block or ends the music (`BlockScripts`). `song` is the block it counts on.

| Code | Definitions |
| --- | --- |
| `VDMA_Write`, `VDMA_Read`, `VDMA_SetIndexCounter` and the getters | `WriteAddr`, `WriteCounter`, `ReadCounter`, `SetIndexCounter`, ... |
| `SBEMU_DSP_Write`, `SBEMU_DSP_Reset`, `SBEMU_SetPos`, `SBEMU_Stop`, acknowledges | `DspWrite` (`DspCommand`, `DspData`), `DspReset`, `SetPos`, `Stop`, `ReadStatus`, `Int16Ack` |
| a trapped access | `MainStep`, `HandlerStep`, with `MainAccess` and `Access` |
| a trapped access the card interrupts | `MainHalf` (`WriteChecked`, `StartHalf`, `ReadFetched`, `ReadHalf`), `MainResumes` |
| `MAIN_Interrupt` | `CardInterrupts`, `TakeSamples`, `TriggerAnswered`, `BlockAnswered` |
| `MAIN_InvokeIRQ`, `VIRQ_Invoke` | `HandlerStarts` |

A step is one trapped port access, or half of one, one pass of the loop, or one access of the
handler. A byte has `Base` values, so that a 16-bit register is a pair of small digits. Left out:
ADPCM, direct output, stereo, sample rates and resampling, identification, the mixer,
`VDMA_Complete`, and the address and page registers, which follow the index.

**Interrupts within an access.** The trap handlers run with interrupts on: the `pushf` and `cli`
of the one for real mode are commented out (qemm.c:32-33), the one for protected mode has none
(hdpmipt.c:71-93), and `SBEMU_DSP_Write` even waits for the card's interrupt (sbemu.c:24, 270,
508). So an access of the program may be cut in two (`MainHalf`), with `MAIN_Interrupt` and the
program's handler in between, and goes on with what it had looked up before (`MainResumes`). `mid`
is where it was cut. `torn` is history: which cuts came where nothing protects the access.
Accesses are cut wherever the interrupt can tell, the stores taken in source order:

| Cut | Code | What the interrupt sees or changes | `torn` |
| --- | --- | --- | --- |
| `checked` | a write to the DSP has seen that HighSpeed is off (233) and whether a command is open (236) | its handler may open or complete a command or enter high speed mode; the write then goes on as if not | `"write"`, if that happened |
| `starting` | Started is set (301, 377, 450 and the like), Pos is not, nor Auto and Bits of a single block | it plays with the position, width and channel of the block before | `"start"` |
| `fetched` | `VDMA_Read` has the register (vdma.c:121), and not yet set InIO (125) | at the second byte InIO is set, and the register waits; at the first the register may move on | `"count"`, at the first byte |
| `read` | at the second byte the register has caught up (128-138), the flags are still to be cleared (139, 140) | an update is delayed once more and then forgotten | `"count"` |

An interrupt elsewhere in an access is one before or after it. `SBEMU_DSP_Reset` and
`SBEMU_TRIGGER_IRQ` have one store the interrupt looks at, or nothing plays any more at the
first; a DMA channel is programmed while nothing plays; the two delays come after the last store
of their access. The handler's own accesses are not cut: `VIRQ_Invoke` calls it with all lines
masked (virq.c:95-96). An access is cut at most once, and an
interrupt that finds nothing to do cuts nothing.

What these windows do: in `fetched` a counter is torn. VDMA_Read copies the register before it
sets InIO, so the interrupt in between moves the register on, and the second read takes the high byte
of the new value: with `CountersWhole`, which is `PollsAreCurrent` without its exception, as the
invariant of `sb_play` TLC finds this execution. In `starting` the first samples of a block come
from where the block before left the registers: with `"start"` not excepted `WholeBlocks` is
violated by a program that plays a single 8-bit block after a 16-bit one. `WholeBlocks`, `InOrder` and `PollsAreCurrent` are about executions in which no access
has been torn, `NeverDeaf` about those in which no write has. That leaves in them every
interrupt between two accesses, in the middle of a write whose lookups stay true, and in the
second read of a counter before it catches up, where InIO does its work.

## 3. Runs

| Run | Expectation | Bounds | What it shows |
| --- | --- | --- | --- |
| `handles_seq` | holds | 3 handles, two touching regions of 1 and 3 kB, requests 0-2 kB, border at 2 kB, counters mod 2 | one client, all functions in all orders; the table implements `XmsAllocator` |
| `handles_isr_blocks` | holds | as above, border beyond memory, requests 1-2 kB | main and interrupt routine allocate, free, lock and unlock blocks of their own; `PromiseInv`, the inductive invariant from which `XmsPromiseProofs` proves that the table implements `XmsAllocator` for them |
| `handles_live` | holds | 3 handles, regions with a hole, requests 1 and 3 kB | a routine locks and unlocks any block while the main program reallocates, and the call knows the size of its block all the time (`DeliverInv`); every call returns; interrupts come back on |
| `move` | holds | 26 bytes: kB of 2, "4 GB" of 8, chunks of 4 bytes and 3 kB, three blocks, one across a multiple of 4 GB; 3 offsets, 5 lengths | moves and growing reallocations, with BIOS failures |
| `a20_isr` | holds | 2 chunks, 2 locks | main calls everything; a routine queries and moves blocks |
| `a20_move_isr` | violated | same | local disable between two chunks of a move |
| `boot_modes` | holds | none needed | both sets of files, every menu item, every outcome of optional drivers: safe modes load none, each program is started after those it looks for, each item ends where it says |
| `build_runs` | holds | 4 runs | any failure in any run |
| `srd_resize` | holds | a chain of XMS and EMS with pages of 2 kB; disks of 8, 11, 13 kB, 1-2 FATs, 1-2 directory sectors, 3 directories, 5 ways to divide the disk, 6 states of free memory; 2 changes; requests to grow may be refused | two changes of format in a row keep the files, in every combination, and each step that takes or gives back memory keeps the sectors (`SavedStays`) |
| `srd_free` | violated | EMS first, pages of 4 kB, 1 change | making a disk smaller can fail |
| `srd_deleted` | violated | 1 change, a deleted file in the first directory entry | packing can lose a file |
| `sb_play` | holds | bytes of 2 values, up to 3 samples an interrupt, 7 songs: every way to play, blocks of 1-3 in buffers of 2-4; 2 small blocks stop the playback | a program that does everything, interrupted between any two accesses and in the middle of any one |

**Why the bounds are enough.** Three handles are the fewest with which a block has
a predecessor and a successor and each order of the three in the table occurs, and
with which the pool is sometimes empty. Two regions that touch make blocks merge across the border at which
they were entered; two with a hole between them show that nothing merges across
it. A counter modulo 2 overflows at the second lock; 256 only takes longer to get
there. Two chunks are the fewest with a window between them; two local enables are
the fewest that need a count. In `move` a block of 5 kB holds moves of two chunks
that overlap by less than a chunk, odd ends that rounding decides about, and a
reallocation of two chunks; a kB more in a chunk would be 0 in 32 bits. In
`build_runs` four runs are two more than the state distinguishes (current and
backup). In `srd_resize` a chain of two parts has a part before and a part behind each
border, with units of 1 and of 2 kB; the sizes make the FAT change its width both ways, the
number of its sectors grow and shrink, and the data move up and down by less and by more than
the copy buffer; files are fragmented, contiguous, empty and deleted; the second change
starts from what the first left, a refused or undone one included. In `sb_play` blocks end
before, with and after the buffer, and after one or more passes of the loop; counters wrap;
both bytes of every register matter. An execution in which an access is torn is followed through
that access and one interrupt in it (`Followed`); after that the card wants nothing more, for what
the properties would have to say then is not known. What holds for all sizes is in section 4.

**Deadlock** is checked where the driver is modelled: a client may always make
a call, a program that plays may always make an access, and the resizer ends in `Rest`, an
explicit stutter, only where the program has ended. The boot ends at the logo or the
prompt and the build after its last run, so it is not checked there.

**Fairness.** `LiveSpec` of `XmsHandles`: a processor in the driver goes on
(there is nothing in it to wait for), a routine makes finitely many calls and
ends, and a main program that is interrupted again and again still gets its
next instruction done, which is strong fairness. The machine does this: after an
IRET at least one instruction runs before the next interrupt is taken. `LiveSpec`
of `XmsMove`: the same for the driver's own steps. `LiveSpec` of `Boot`: once the
menu has come up the computer does not stop by itself (the menu in CONFIG.SYS has a
default and a timeout). `FairSpec` of `SrdResize`: a program of one thread that has not
ended takes its next step; this is weak fairness, written with the condition under which
a step is enabled, which is cheaper to check. `FairSpec` of `SbPlay`: an interrupt that
has begun runs on, the program makes the accesses it is about to make and ends one that was
interrupted (`MainStep \/ MainResumes`), and the card
wants samples again and again while the DSP plays: strong fairness, for the trap handlers
keep it off for moments. Nothing is assumed of the program's decisions.

**What the violated runs show** is in `findings` of `PROJECT.json`, each with the
line that says otherwise: a race with a block move (`a20_move_isr`), a negative number in
unsigned arithmetic (`srd_free`), and a comparison of a signed character (`srd_deleted`).

**Also visible in the models**, and not stated as properties of their own:

- A free between two free blocks can leave one of them apart: a merge sets the scan pointer
  back while the count runs on (HimemSX.asm:1239): `FreeMerge`.
- A reallocation that shrinks a block relies on "surely NO free successor" (2193), but looked for
  one with interrupts on (2052); a routine can have freed it since: `ReallocSplit`.
- Local enable compares `a20_locks` and increments it with interrupts on (792-794): two enables
  can both see zero, or one the other's step. `a20_isr` and the proofs are about routines
  that do not enable or disable.
- Configs/autoexec.bat:3 runs `C:\pathcfg.bat` without CALL and is never returned to, so with
  these files TOS.COM, step 7 of "Docs/Markdown/Main/Boot process.md" (17), is not executed: `Script`.
- The check for XMS in TOS.COM cannot fail: INT 2Fh with AH=0C8h is answered by no driver
  and AX still holds C8xxh (tos.asm:71-75), so "Super-Extended XMS is available" (352) comes
  in safe mode too: `Int2f`, `CheckSuperexXms`.
- A growing reallocation does not look at what the move returned (HimemSX.asm:2117-2131): after
  a failure of the BIOS it reports success with a block of which a part was not copied.
  `GrowKeeps` leaves this out by `missed`.
- Offsets out of range are reported as an invalid length: the codes 0A4h and 0A6h of the table
  at HimemSX.asm:1330-1332 are never returned: `Verdict`.
- `hma_used` is tested and set with interrupts on (HimemSX.asm:693-700): `HmaRequest`
  and `HmaAssign` are two steps.
- The call of `start_kernel` is commented out (tos.asm:105), so step 9 of "Boot
  process.md" does not happen: no action follows `DisplayBootlogo`.
- BuildPrep's CMD has no GOTO END and falls through to the message "No drivers
  loaded" (BuildPrep/autoexec.bat:24-27): `PrepRest`.
- Configs/config.sys:14 names HIMEMSX.EXE in SYSTEM, "File structure.txt":42 and
  buildAll.bat:79 put it in SYSTEM\DRIVERS: `Missing`.
- The failure branch of buildAll.bat falls through to "Build SUCCEEDED!" (46-48, 90):
  `BootstrapFailed`. And since build.bat is run without CALL (36), that branch is the only
  one in which the tree is made at all: after `Stubedit` the script has ended.
- SRDISK: when a memory manager refuses to shrink a block the EMS and XMS parts report a
  size that is not the block's (diskio.c:177-192): with `Refusals = {"grow", "shrink"}` `SizeIsHeld`
  is violated. The EMS driver looks for the error "not
  implemented" in BL, where the number of pages is, and not in AH (srdemsf.c:130); `handleSize` of the XMS driver has its branches the wrong way
  round (srdxmsf.c:154-186).
- SRDISK: after a failed reallocation the EMS driver believes whatever is in BX (srdemsf.c:126-138).
  The model takes it for the real number of pages; that is so with the Jemm386 of the repository
  (EMS.ASM:649-682), on which `SizeIsHeld` and its theorem rely here.
- SRDISK: on a disk with only empty files `last_used` is 0, and 0 - 1 sectors are 65535
  (resize.c:198-202, 265): with such a layout `InReach` is violated.
- SRDISK: `RelocateRootDir` moves as many sectors as the new root directory has, from where the
  old one starts (resize.c:205-208); what follows the old one goes along, and is cleared at the end
  (303-313). With a new directory so long that it would end behind both disks the move reads
  past the memory: `StaysInReach` excludes that (`Ordinary`).
- SRDISK: after an error in the middle the drive is handed back to DOS with the old boot record
  over a disk half converted, and a message that it is bad (error.c:146-149): `Fatal`;
  `FilesKept` speaks only of disks not called bad.
- SBEMU: Started is set before Pos, and for single blocks before Auto and Bits
  (sbemu.c:301-303, 377-383): an interrupt in between plays with what the block before left: `StartHalf`.
- SBEMU: `VDMA_Read` copies a counter (vdma.c:121) before it sets `VDMA_InIO` (125), which is to hold
  the register: with an interrupt in between the two bytes are of different values: `ReadFetched`,
  `CountersWhole`.
- SBEMU: a program that reads one byte of a counter and then clears the flip-flop leaves
  `VDMA_InIO` set, and the register stands still until the next pair of accesses
  (vdma.c:43-44): with `MainUses <- LowPolls` `PollsAreCurrent` is violated.
- SBEMU: CONTINUE after a single block has ended plays it again, from behind the buffer
  (sbemu.c:277-284): with `MainUses <- SinglePauses` `InOrder` is violated.
- SBEMU: a handler that starts a 16-bit block after an 8-bit one on a channel that starts
  again by itself finds the loop with the old channel and size (main.c:1211, 1226, although 1314
  says "incase IRQ handler re-programs DMA"): with `HandlerUses <- Widening` `InOrder` is violated.
- SBEMU: a request for an interrupt made by the handler of a request is lost (main.c:1161-1165):
  `TriggerAnswered`. An update of a counter that waits for the second byte is dropped when that byte is
  written, of the address as well (vdma.c:71-76): `WriteByte`. Command 0xB4 is not in the list of
  commands that repeat (sbemu.c:432) and plays once.

## 4. Proofs

`XmsHandlesProofs` proves, for every `NumHandles`, `Regions`, `Limit4G`,
`LockMod`, `Requests`, `MainOps`, `IsrOps` and `Private` that satisfy

- `SizeAssumption`: the constants are of the right kind,
- `RegionAssumption`: the regions entered at load time are disjoint and not empty
  and fit the table,
- `RaceFree`: if the main program reallocates, interrupt routines may lock and
  unlock but do not allocate, free or reallocate,

the theorems `TypeCorrect`, `NoOverlap`, `NothingLost`, `PoolIsBare` and
`FreedMemoryIsFree`, which state the properties of the runs.

`RaceFree` is needed: the resize in place runs with interrupts on, and an
allocation in the middle of it gets a successor block that is half resized.

**The invariant.** `Disjoint` and `Covered` are not inductive, for two reasons.
During a resize in place the table is neither; and whether an update keeps it so
depends on what the code remembers in registers. `IInv` therefore speaks
of `Final`, the table as it will be when the pending writes are done. Then
four of the five writes leave `Final` as it is and the first one moves a border
between two neighbours. The registers are covered by `FrameOK` (whose call it is,
handles in range), `ScanOK` (the freed range lies in the block it was merged into,
pointer and count stay in the table) and `WriteOK` (the successor is free and begins
where the block ends, what is still to be written, sizes that cannot go negative).
`ControlOK` says where interrupts are off.

**The argument.** All updates of blocks are of four kinds, and each is a lemma about
tables alone: `Redraw` (two entries are redrawn over the same memory), `MoveBorder`,
`MergeBlocks` and `SameMemory` (flags and locks only). `StepInv` takes each
action, names its kind, and shows that the remembered facts of the other context
survive it (`Kept`, `TableKept`, `LocksOnly`). `FreedMemoryIsFree` also needs that the
last step of the scan can only be `FreeEnd` (`ScanEnds`).

`XmsPromiseProofs` proves two more results about the table, from the same assumptions.

*It implements `XmsAllocator`* (`PromiseIsKept`), also under `Private`: a client passes only
handles it was given. The refinement mapping is `Held`: base, size and locks of each handle that
has an owner, where a lock counter that has just overflowed still counts as it did. Most steps
change nothing in it and are stutters (`Unseen`, `UnseenStep`): tests, the scan, and every step
about blocks nobody owns. The others are each one step of `XmsAllocator`: `LockPromised`,
`AllocPromised`, `FreePromised`, `ReallocPromised`. For these `IInv` is too weak, since it does
not know whose a handle is. `PromiseInv` adds `Owned`: an owned handle is in use; the
handle in the registers of a call is the caller's own, or nobody's where the call has
taken it from its owner; and what the call has tested (that the block is not locked, that its
count is not zero) is still so, since only the owner could have changed it.
Without `Private` this is false: a routine may free what the main program is just locking.

*A reallocation that reports success delivers* (`ReallocKeepsWord`): the handle is in use and its
block is at least as large as was asked for, whether it was resized in place, split or moved,
and whoever owns the handle. `DeliverInv` says for each label of a reallocation what size the
block has or will have; the delicate part is the call of `xms_free_emb` at the end, which
merges free blocks around a handle that must not be touched (`DeliverFree`).

`XmsMoveProofs` proves `TypeOK`, `MoveCopies`, `WithinBlocks` and `GrowKeeps` of
`XmsMove` for every memory map, chunk size and request, from the four
assumptions of that module. Its invariant adds to these where the loops are:
`CopyOK` says that after `Progress` bytes memory is exactly `Copied(Source, Target,
Progress)`, and `CopyStep` shows that the next chunk keeps this, for what `Overlaps`
lets through is never read after it was overwritten. `GrowOK` says the same of the loop
around it, and `ChunkAccepted` that every chunk of it passes the checks: it is even,
fits 32 bits and both blocks, and the blocks do not overlap. `TableOK` carries the
assumptions about blocks over the exchange.

`XmsA20Proofs` proves `TypeOK`, `HolderHasA20`, `CopiedWithA20`, `StateRestored` and
`EnableIsTrue` of `XmsA20` for every `MaxChunks` and `MaxLocks`, whatever the main program
calls, where the interrupt routines are `Preserving`: they query the line and move blocks,
through XMS or INT 15h, but do not enable or disable the line. This is needed:
`a20_move_isr` is what happens without it. A routine in the middle of
a move may have the line either way, so the invariant is not about `a20` but about `Line`,
the line as the main program will find it when the routine has ended. `MainOK` says what
the main program relies on at each of its labels (after the test in a local enable, that
the locks are still what it saw; in a move, that the line is on and is to be turned off
only if nobody holds it), `IsrOK` the same for the routine, and `CountOK` that all local
enables are the main program's.

`BuildScriptProofs` proves `TypeOK`, `LastBuildKept` and `NothingStale` of `BuildScript`, for
every number of runs and every tool that fails in any of them. The invariant says in
addition that a current file is always the last that was built, and that between the
backup and the tool there is none, or none but what this run has made.

`SbOrderProofs` proves `NeverDeaf` of `SbPlay`, in `HighSpeedPlays`, for every set of songs,
every size of a byte and whatever program and handler do with the ports: the high speed
mode is entered only by commands that start the playback, and `DspWrite`, which could stop
it, accepts nothing then; the other ways to stop (`Stop`, the reset) end both. Only a write that
was under way when its interrupt's handler entered that mode gets past the test; the
property excepts it (`"write"` in `torn`), and no other cut of an access.

It also proves the rest of `SbPlay`'s safety, as long as no access has been torn: `TypeOK`,
`WholeBlocks`, `PollsAreCurrent` and the action property `InOrder`, for every base of a byte, every set of
songs and any number of samples an interrupt takes. These assume `Orderly`, a program that does
none of the three things section 3 tells of (`LowPolls`, `SinglePauses`, `Widening`), each of
which breaks one of the properties; `InOrder` assumes also `Behaved`, that a block is played
in a loop or ends within its buffer, since a DMA channel does not end a block that is longer
than its buffer. Both hold of `sb_play`. The invariant is `Inv`, that is, `IInv` and `MidOK` while
`torn` is empty. `torn` only grows (`TornStays`), so a step that leaves it empty began with it
empty. `MidOK` says what an access that was cut relies on: what it has looked up is still so, and the
register it has copied is still the register, since InIO is set. A cut changes nothing
else, so that each half is a stutter or the whole access to `IInv` (`HalfWhole`, `ResumesWhole`).

The properties are about samples and counters, but a block is asked for only by the last of
about ten port accesses, and the interrupt may come between any two of them. So what makes
them inductive is mostly about how far each side has got, and `IInv` has three layers. TLC
found it to hold on `sb_play`'s instance before it was proved.

- `Scripts`: the main program polls, or programs a channel and a block, or the handler does,
  and never two of them at once. `Programs` says of a side that programs that the accesses it
  has yet to make are the last ones of those for some song, and that the chips hold what the
  ones already made put there.
- `SongOK`, with `Plays` and `Placed`: once the block is asked for, the DSP's size, width and
  mode and the channel's counter and index agree with it, and both positions with the bytes
  taken. The arithmetic is here: bytes and samples are a factor of one or two apart, a channel
  that ends starts again, a block ends when its bytes are taken.
- `IrqOK`: what `MAIN_Interrupt` has in local variables (channel, counter, index, size,
  position) is still what the registers say when the loop uses it.

`PollOK` is `PollsAreCurrent` itself; for it `MainPolls` says that the byte read first is the
low one of a value that the register keeps until the second is read. The lemmas come in
this order: quotients; what a command makes of the DSP; what is left of a sequence of accesses;
a channel; an access of either side; a pass of the loop; then a step lemma for each action.

`SrdProofs` is about the memory of a RAM disk, for every chain of parts, every disk, format
and size of the copy buffer and any amount of free memory.

- `SizesAreHeld`: no driver believes in more memory than its block has. `IInv` adds to the
  property what decides an answer: blocks are sequences, requests are natural numbers, and a
  manager never gives more than it has (`RequestFair`, case by case over `physical_alloc`'s
  attempts).
- `ContentsMove`: `MoveSectors` makes an exact copy and touches no other sector, in either
  direction, however source and destination overlap and the batches fall, whenever memory stands
  behind every sector of the move.
- `SavedSectorsStay` (`SavedStays`): each step of `SavingDiskAllocate` and `AllocPart` leaves
  every sector up to `saved` with what it held, unless it reports data lost or a move has left the
  memory (`InReach`, see below). A part that changes its size renumbers all sectors behind it
  (`Renumbered`), and the moves before and after undo just that (`GrowKeeps`, `ShrinkKeeps`), on the
  way down the chain and on the way back, also where a manager gives less than it was asked for.
  For this the second invariant, `Held`, says what AllocPart relies on: the disk is addressed by the
  sizes of its parts; each activation is about a later part than its caller; the sector it was
  told its part begins with is still that part's first, though parts before it have changed; and one
  that waits has a part to shrink.

The theorems about runs assume that no memory manager refuses to make a block
smaller; that holds of `srd_resize`, and section 3 tells what happens without it. About the
constants they take in addition what they are: formats asked for, capacities and free memory are
natural numbers, a directory is a sequence (`ResizeAssumption`). TLC found both invariants to hold
on the instance of `srd_resize` before they were proved. The loops of `calc_alloc` over the parts
and of `MoveSectors` over batches are recursive functions. What they keep is proved without an
induction theorem, from the least step that would break it (`Smallest`, `LoopKeeps`, `LoopEnds`):
`CalcType` says that every part is asked for a number, `FirstOfSteps` where a part begins,
`MoveSteps` and `ContentsMove` what is at its place after so many batches.

`SrdReachProofs` proves `InReach`, in `StaysInReach`: no sector is read or written that has no
memory behind it. It assumes, besides managers that refuse no shrinking,

- `NoWrap`: no disk asked for is so near the largest number of Kbytes that the sums of
  `calc_alloc` wrap (they are 32-bit numbers in the program, and disks some megabytes);
- `SectorBits >= 48`: a sector holds four FAT entries or more, so that a FAT is shorter than the
  clusters it is about (real sectors have 4096 bits);
- `[]Ordinary`: when a disk is being resized some cluster is used (`last_used` is not 0), and the new
  root directory, put where the old one starts, would end within the old disk or within the new
  one. Without either, the code does leave its memory (section 3).

All of these hold of `srd_resize`: TLC found `Ordinary` and the inductive invariant true in
all its states before the proof was written. The argument has three parts.

- *calc_alloc asks for enough* (`CalcEnough`): the loops give parts of the goal away, take what
  is too much back, and round to the units of the managers; what they keep is that the sum of what
  is given and what is left to give is the goal (`Divided`), or no less than it (`Enough`) once
  rounding has given more.
- *AllocPart gets it* (`AllocStepFits`): `AllocFits` says, while parts are being changed, that the goal
  is no more than what is wanted of all parts together, and that each part before the one at hand
  has the size wanted or waits in the recursion to get smaller (`Settled`). So when the
  chain ends, the sizes have the sum asked for, and before that no part has been made smaller than
  what is saved needs: the move that precedes a shrink ends within the memory (`PartShrunkFits`).
- *The move keeps to the two formats*: `ReachInv` says that both formats are laid out as `make_newf`
  does, that the last used cluster is one of both (`LastFits`, for which `packdata`'s and
  `Resize`'s tests are needed), that the FAT sector `FixFAT` is at is one of the FAT (`SecnoFits`),
  and that the memory holds both while the contents move (`SizeFits`). Every move and write lies
  between the start of one of them and its end (`MoveOnFits`, `WritesFit`).

**Only model-checked.** Liveness (`CallsReturn`, `InterruptsReturn`, `EndsAsChosen`,
`InterruptsCome`, `ResizeReturns`), which needs fairness and ENABLED. `Boot`, which has no
parameter but the choice among four sets of files: there TLC's search is exhaustive, and a
proof would show nothing more. `TypeOK` and `FilesKept` of `SrdResize`: the first
holds only where a size rounded up to a page stays below `Word`, the second needs what each
chain in the FAT leads to, which is a recursion over data.

## 5. Not modelled, and why

- Driver start before the table is built, command line, trace log, messages: they
  run once, alone, and are about text and ports.
- Jemm386, XCDROM, CuteMouse: protected mode, hardware and a mouse; they are configured,
  not changed, here. Most of the source lines of the repository are the sound card drivers of
  SBEMU, taken from Linux and MPXPlay: registers of hardware that is not here to check against.
- SBEMU: port trapping, becoming resident, the virtual PIC beyond the masking of a call, OPL and
  mixer: instructions and devices rather than protocols. Of the DSP: see `SbDsp`.
- SRDISK: the resident drivers (`*.asm`) beyond their answer to a request for memory; the
  command line; formatting without keeping files; subdirectories, which are packed by
  recursion over the same steps as the root.
- Kernel: `main` calls `kernel_panic` at once. The interrupt table is not part
  of the build.
- Drawing in TOS.COM, KERNEL.ASM, PMODE.ASM; `WrapBinAsExe`; `AppSDK`; `SysTools`.

## 6. Plan

The order is that of importance.

1. Done: `XmsAllocator`, `XmsHandles`, its invariant and proofs; `XmsA20`; `Boot`;
   `BuildScript`.
2. Done: `XmsMove` and its proofs; the proofs about `XmsA20`.
3. Done: `SrdChain` and `SrdResize`; `SbDma`, `SbDsp`, `SbPlay` and its proofs.
4. `XmsInit`: `geti15mem` and `seti15handle` from an E820 map to a table; to check: the
   table satisfies what `RegionAssumption` asks (a usable range of exactly 68 kB at 1 MB would
   become an entry of size 0, HimemSX.asm:3609); `/MAX`, `/SUPERMAX`; the border of PSE-36, where a
   block that crosses 1 TB is cut at 0C0000000h kB, which is 3 TB (3711-3715).
5. Proofs. Done: the refinement of `XmsAllocator`, `ReallocDelivers`, `BuildScript`, `SbPlay`,
   `SizeIsHeld`, `SavedStays` and `InReach` of `SrdResize`. To do: its `TypeOK`; for which
   programs the blocks are whole though a start is torn.
6. `Installer`: the event handler, its task, a second click while the first runs.
7. SRDISK: subdirectories; SBEMU: ADPCM and stereo; the mouse cursor of KERNEL.ASM.

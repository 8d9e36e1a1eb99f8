------------------------------- MODULE SbDsp --------------------------------
(***************************************************************************)
(* SBEMU: the emulated DSP of a Sound Blaster (sbemu.c), as operators from *)
(* one state of it to the next.  Bytes of a size have Base values, as in   *)
(* SbDma.  Modelled are the commands that start, stop and size 8 and 16    *)
(* bit mono playback through DMA, interrupt requests and the reset; ADPCM, *)
(* direct output, sample rates, identification and the mixer are left out. *)
(***************************************************************************)
EXTENDS SbDma

INVALID == -1           \* SBEMU_DSPCMD_INVALID: no command is open
SET_SIZE == 72          \* 0x48
OUT_1 == 20             \* 0x14
OUT_AUTO == 28          \* 0x1C
OUT_1_HS == 145         \* 0x91
OUT_AUTO_HS == 144      \* 0x90
OUT16_1 == 176          \* 0xB0
OUT16_AUTO == 182       \* 0xB6
MODE_PCM16 == 16        \* 0x10
HALT == 208             \* 0xD0
CONTINUE == 212         \* 0xD4
EXIT_AUTO == 218        \* 0xDA
TRIGGER_IRQ == 242      \* 0xF2
TRIGGER_IRQ16 == 243    \* 0xF3

DspInit ==
    [cmd |-> INVALID, sub |-> 0, started |-> FALSE, samples |-> 0,
     auto |-> FALSE, wide |-> FALSE, pos |-> 0, hs |-> FALSE,
     trigger |-> FALSE, detect |-> 0, int8 |-> FALSE, int16 |-> FALSE,
     reset |-> "end"]

\* SBEMU_DSP_Reset.  The interrupt status bits are not among what is reset.
DspReset(d, value) ==
    IF value = 1
    THEN [DspInit EXCEPT !.reset = "start", !.int8 = d.int8, !.int16 = d.int16]
    ELSE [d EXCEPT !.reset = IF @ = "start" THEN "poll" ELSE @]

\* A byte that finds no command open.
DspCommand(d, value) ==
    CASE value = TRIGGER_IRQ -> [d EXCEPT !.int8 = TRUE, !.trigger = TRUE, !.sub = 0]
      [] value = TRIGGER_IRQ16 -> [d EXCEPT !.int16 = TRUE, !.trigger = TRUE, !.sub = 0]
      [] value \in {HALT, CONTINUE} -> [d EXCEPT !.started = value = CONTINUE, !.sub = 0]
      [] value \in {OUT_AUTO, OUT_AUTO_HS, OUT_1_HS} ->
            [d EXCEPT !.auto = value # OUT_1_HS, !.wide = FALSE,
                      !.hs = value # OUT_AUTO, !.started = TRUE, !.pos = 0, !.sub = 0]
      [] value = EXIT_AUTO ->
            [d EXCEPT !.started = @ /\ ~d.auto, !.auto = FALSE, !.sub = 0]
      [] OTHER -> [d EXCEPT !.cmd = value, !.sub = 0]

\* The two bytes of a size; Samples is changed with each.
TakeSize(d, value) ==
    [d EXCEPT !.samples = IF d.sub = 0 THEN value ELSE (@ % Base) + value * Base,
              !.sub = @ + 1]

\* Mutant: a third byte is waited for.
CompleteLate(d) == IF d.sub > 2 THEN [d EXCEPT !.cmd = INVALID] ELSE d

\* A command is over with its second byte.
Complete(d) == IF d.sub >= 2 THEN [d EXCEPT !.cmd = INVALID] ELSE d

\* A byte that belongs to the open command.
DspData(d, value) ==
    CASE d.cmd = SET_SIZE /\ d.sub # 0 ->
            Complete([TakeSize(d, value) EXCEPT !.started = FALSE, !.hs = FALSE,
                                                !.auto = FALSE])
      [] d.cmd = OUT_1 /\ d.sub # 0 ->
            Complete([TakeSize(d, value) EXCEPT !.started = TRUE, !.hs = FALSE,
                                                !.auto = FALSE, !.wide = FALSE, !.pos = 0])
      [] d.cmd \in {SET_SIZE, OUT_1, MODE_PCM16} /\ d.sub = 0 -> Complete(TakeSize(d, value))
      [] d.cmd \in {OUT16_1, OUT16_AUTO} ->
            [d EXCEPT !.auto = d.cmd = OUT16_AUTO, !.cmd = value, !.sub = 0]
      [] d.cmd = MODE_PCM16 /\ d.sub # 0 ->
            Complete([TakeSize(d, value) EXCEPT !.started = TRUE, !.wide = TRUE, !.pos = 0])
      [] OTHER -> Complete(d)

\* SBEMU_DSP_Write: in high speed mode the DSP accepts nothing.
DspWrite(d, value) ==
    IF d.hs THEN d
    ELSE IF d.cmd = INVALID THEN DspCommand(d, value) ELSE DspData(d, value)

\* A byte that starts playback, in two: Started is set (lines 301, 377, 450),
\* and what the code stores after that.
Starts(d, value) ==
    \/ d.cmd = INVALID /\ value \in {OUT_AUTO, OUT_AUTO_HS, OUT_1_HS}
    \/ d.cmd \in {OUT_1, MODE_PCM16} /\ d.sub # 0
StartFirst(d, value) ==
    CASE d.cmd = INVALID ->
            [d EXCEPT !.auto = value # OUT_1_HS, !.wide = FALSE, !.hs = value # OUT_AUTO,
                      !.started = TRUE, !.cmd = value, !.sub = 0]
      [] d.cmd = OUT_1 -> [TakeSize(d, value) EXCEPT !.started = TRUE]
      [] d.cmd = MODE_PCM16 -> [TakeSize(d, value) EXCEPT !.started = TRUE, !.wide = TRUE]
StartRest(d) ==
    LET single == d.cmd = OUT_1
    IN  [d EXCEPT !.cmd = INVALID, !.pos = 0, !.hs = @ /\ ~single,
                  !.auto = @ /\ ~single, !.wide = @ /\ ~single]

SampleSize(d) == IF d.wide THEN 2 ELSE 1
SampleBytes(d) == (d.samples + 1) * SampleSize(d)

\* SBEMU_SetPos: reaching the end of the block sets the interrupt status.
SetPos(d, pos) ==
    LET over == pos >= SampleBytes(d)
    IN  [d EXCEPT !.pos = pos, !.int8 = @ \/ (over /\ ~d.wide),
                  !.int16 = @ \/ (over /\ d.wide)]

\* Mutants: the transfer goes on; the high speed mode is left on.
StopNot(d) == [d EXCEPT !.hs = FALSE, !.pos = 0]
StopDeaf(d) == [d EXCEPT !.started = FALSE, !.pos = 0]

\* SBEMU_Stop.
Stop(d) == [d EXCEPT !.started = FALSE, !.hs = FALSE, !.pos = 0]

\* Reading 2xEh and 2xFh acknowledges the 8 bit and the 16 bit interrupt.
ReadStatus(d) == [d EXCEPT !.int8 = FALSE]
Int16Ack(d) == [d EXCEPT !.int16 = FALSE]
=============================================================================

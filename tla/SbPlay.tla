------------------------------- MODULE SbPlay -------------------------------
(***************************************************************************)
(* SBEMU: digital playback.  A DOS program and its interrupt handler use   *)
(* the ports of the DSP and the DMA controller; SBEMU traps each access.   *)
(* The real sound card may interrupt between two accesses and, nothing     *)
(* being masked in a trap handler, in the middle of one: MAIN_Interrupt    *)
(* moves samples from the program's buffer and calls its handler           *)
(* (MAIN_InvokeIRQ, VIRQ_Invoke) when a block is over.  The program is not *)
(* part of SBEMU: main and isr are the accesses it has yet to make.        *)
(***************************************************************************)
EXTENDS SbDsp, Sequences, FiniteSets

CONSTANTS
    Songs,          \* what the program plays: records [kind, block, count, loop]
    Space,          \* the most samples the card has room for at an interrupt
    SmallBlock,     \* bytes of a block taken for a detection routine (32)
    DetectLimit,    \* that many of them stop the playback (256)
    MainUses,       \* what the program does while its music plays
    HandlerUses     \* what its interrupt handler does

Kinds == {"single", "single_hs", "auto", "auto_hs", "wide", "wide_auto"}

ASSUME PlayAssumption ==
    /\ Space \in Nat /\ SmallBlock \in Nat /\ DetectLimit \in Nat
    /\ Songs \subseteq [kind : Kinds, block : 1..Word, count : 1..Word, loop : BOOLEAN]

VARIABLES
    dsp,        \* the DSP (SbDsp)
    dma,        \* its two DMA channels (SbDma): "low" for 8, "high" for 16 bit
    irq,        \* MAIN_Interrupt: where it is, and its local variables
    main,       \* port accesses the program is about to make
    isr,        \* those its interrupt handler is about to make
    song,       \* the block the program has asked for, and how far it is taken
    poll,       \* what the program read of a DMA counter
    rang,       \* the program's own flag: its handler has run
    mid,        \* where the card has interrupted an access of the main program
    torn        \* history: places of an access the interrupt has been let into
                \* that nothing protects from it

client == <<main, isr, song, poll, rang>>
cut == <<mid, torn>>
vars == <<dsp, dma, irq, client, cut>>

Least(a, b) == IF a < b THEN a ELSE b
Most(a, b) == IF a < b THEN b ELSE a

Channels == {"low", "high"}
Bytes(ch) == IF ch = "high" THEN 2 ELSE 1
None == [kind |-> "none"]
Idle == [at |-> "idle"]
NoMid == [at |-> "whole"]
NoPoll == [open |-> FALSE, got |-> 0, seen |-> {0}]
-----------------------------------------------------------------------------
(***************************************************************************)
(* What a program does with the ports: sequences of accesses.  "start" and *)
(* "stop" are writes to the DSP after which the program counts on a block  *)
(* being played, or on silence.                                            *)
(***************************************************************************)
Wide(kind) == kind \in {"wide", "wide_auto"}
AutoInit(kind) == kind \in {"auto", "auto_hs", "wide_auto"}
Fast(kind) == kind \in {"single_hs", "auto_hs"}
Channel(kind) == IF Wide(kind) THEN "high" ELSE "low"

Low(n) == (n - 1) % Base
High(n) == (n - 1) \div Base
Dsp(v) == [op |-> "dsp", v |-> v]
On(op, ch, v) == [op |-> op, ch |-> ch, v |-> v]

ProgramDma(s) ==
    LET ch == Channel(s.kind)
    IN  << On("mode", ch, s.loop), On("flipflop", ch, 0), On("addr", ch, 0), On("addr", ch, 0),
           On("count", ch, Low(s.count)), On("count", ch, High(s.count)) >>

\* taken: bytes of the block played; next: where in the buffer the next is.
Asked(s, next) == [kind |-> s.kind, block |-> s.block * Bytes(Channel(s.kind)), taken |-> 0,
                   count |-> s.count * Bytes(Channel(s.kind)), loop |-> s.loop, next |-> next]
Start(s, next, v) == [op |-> "start", v |-> v, asked |-> Asked(s, next)]

StartDsp(s, next) ==
    LET lo == Low(s.block)
        hi == High(s.block)
    IN  CASE s.kind = "single" -> << Dsp(OUT_1), Dsp(lo), Start(s, next, hi) >>
          [] s.kind = "single_hs" ->
                << Dsp(SET_SIZE), Dsp(lo), Dsp(hi), Start(s, next, OUT_1_HS) >>
          [] s.kind = "auto" -> << Dsp(SET_SIZE), Dsp(lo), Dsp(hi), Start(s, next, OUT_AUTO) >>
          [] s.kind = "auto_hs" ->
                << Dsp(SET_SIZE), Dsp(lo), Dsp(hi), Start(s, next, OUT_AUTO_HS) >>
          [] s.kind = "wide" -> << Dsp(OUT16_1), Dsp(MODE_PCM16), Dsp(lo), Start(s, next, hi) >>
          [] s.kind = "wide_auto" ->
                << Dsp(OUT16_AUTO), Dsp(MODE_PCM16), Dsp(lo), Start(s, next, hi) >>

Play(s) == ProgramDma(s) \o StartDsp(s, 0)
Poll(ch) == << On("flipflop", ch, 0), On("read", ch, 0), On("read", ch, 0) >>
PollLow(ch) == << On("flipflop", ch, 0), On("read", ch, 0) >>
Detect(v) == << Dsp(v), [op |-> "wait"] >>
Reset == << [op |-> "reset", v |-> 1], [op |-> "reset", v |-> 0] >>
Ack(wide) == << [op |-> IF wide THEN "ack16" ELSE "ack8"] >>
StopWith(v) == << [op |-> "stop", v |-> v] >>

\* What the main program may do next.  One that plays in high speed mode can
\* only reset the DSP.
MainScripts ==
    IF song = None
    THEN {Play(s) : s \in Songs} \cup (IF "detect" \in MainUses
                                       THEN {Detect(TRIGGER_IRQ), Detect(TRIGGER_IRQ16)} ELSE {})
    ELSE (IF "reset" \in MainUses THEN {Reset} ELSE {})
         \cup (IF "halt" \in MainUses /\ ~Fast(song.kind) THEN {StopWith(HALT)} ELSE {})
         \cup (IF "pause" \in MainUses /\ ~Fast(song.kind)
                  /\ (AutoInit(song.kind) \/ "pause_single" \in MainUses)
               THEN {<<Dsp(HALT), Dsp(CONTINUE)>>} ELSE {})
         \cup (IF "poll" \in MainUses /\ AutoInit(song.kind) THEN {Poll(Channel(song.kind))} ELSE {})
         \cup (IF "poll_low" \in MainUses /\ AutoInit(song.kind)
               THEN {PollLow(Channel(song.kind))} ELSE {})

\* The blocks a handler may play after a single one: the rest of the buffer
\* when the channel starts again by itself, or another buffer.
Following ==
    {StartDsp([kind |-> song.kind, block |-> song.block \div Bytes(Channel(song.kind)),
               count |-> song.count \div Bytes(Channel(song.kind)), loop |-> TRUE], song.next)
        : l \in {l \in {TRUE} : song.loop}}
    \cup {Play(s) : s \in {s \in Songs : IF "widen" \in HandlerUses THEN ~AutoInit(s.kind)
                                         ELSE s.kind = song.kind}}

\* The program is about to go on with what it has halted.
Pausing == \E i \in DOMAIN main : main[i] = Dsp(CONTINUE)

\* What the handler may do for a block: it acknowledges, and plays another
\* block, or ends the music unless the main program is pausing it, or does
\* nothing more.  It does nothing more in the middle of an access that starts
\* a block, where a command would be taken for a byte of the one still open.
BlockScripts ==
    LET ack == Ack(Wide(song.kind))
    IN  {ack}
        \cup (IF ~AutoInit(song.kind) /\ "next" \in HandlerUses /\ mid.at # "starting"
              THEN {ack \o f : f \in Following} ELSE {})
        \cup (IF AutoInit(song.kind) /\ ~Fast(song.kind) /\ "exit" \in HandlerUses /\ ~Pausing
                 /\ mid.at # "starting"
              THEN {ack \o StopWith(EXIT_AUTO)} ELSE {})
-----------------------------------------------------------------------------
Init ==
    /\ dsp = DspInit
    /\ dma = [ch \in Channels |-> DmaInit]
    /\ irq = Idle
    /\ main = <<>> /\ isr = <<>>
    /\ song = None
    /\ poll = NoPoll
    /\ rang = FALSE
    /\ mid = NoMid /\ torn = {}

(***************************************************************************)
(* One access to a port, as SBEMU's trap handler answers it.               *)
(***************************************************************************)
OnDsp(op) ==
    /\ op.op \in {"dsp", "start", "stop", "reset", "ack8", "ack16"}
    /\ dsp' = CASE op.op = "reset" -> DspReset(dsp, op.v)
                [] op.op = "ack8" -> ReadStatus(dsp)
                [] op.op = "ack16" -> Int16Ack(dsp)
                [] OTHER -> DspWrite(dsp, op.v)
    /\ song' = CASE op.op = "start" -> op.asked
                 [] op.op \in {"stop", "reset"} -> None
                 [] OTHER -> song
    /\ UNCHANGED <<dma, poll, rang>>

OnDma(op) ==
    /\ op.op \in {"mode", "flipflop", "addr", "count"}
    /\ dma' = [dma EXCEPT ![op.ch] =
                CASE op.op = "mode" -> WriteMode(@, op.v)
                  [] op.op = "flipflop" -> WriteFlipFlop(@)
                  [] op.op = "addr" -> WriteAddr(@)
                  [] op.op = "count" -> WriteCounter(@, op.v)]
    /\ UNCHANGED <<dsp, song, poll, rang>>

\* The program puts the two bytes it reads together; poll.seen are the values
\* the counter has had since the first of them.
OnCounter(op) ==
    /\ op.op = "read"
    /\ dma' = [dma EXCEPT ![op.ch] = ReadCounter(@)]
    /\ LET byte == ByteOf(dma[op.ch], dma[op.ch].reg)
           now == Shown(dma[op.ch])
       IN  poll' = IF dma[op.ch].odd
                   THEN [poll EXCEPT !.open = FALSE, !.got = @ + byte * Base]
                   ELSE [open |-> TRUE, got |-> byte, seen |-> {now}]
    /\ UNCHANGED <<dsp, song, rang>>

OnFlag(op) ==
    /\ op.op = "wait" /\ rang
    /\ UNCHANGED <<dsp, dma, song, poll, rang>>

Access(op) == OnDsp(op) \/ OnDma(op) \/ OnCounter(op) \/ OnFlag(op)

\* Bound: an access that the card has torn is followed to its end, and so is the
\* interrupt in it; after them the card has no room for samples.
Followed == torn = {} \/ (mid # NoMid /\ "card" \notin torn)

\* The program's next access, as SBEMU's handler for it runs to its end.
MainAccess ==
    /\ irq = Idle /\ main # <<>>
    /\ Access(Head(main))
    /\ main' = Tail(main)
    /\ UNCHANGED <<irq, isr>>

\* The card does not interrupt it, or only in the delay a trapped write to the
\* DSP ends with: all it has to store is stored by then.
MainStep == mid = NoMid /\ MainAccess /\ UNCHANGED cut

MainDecides ==
    /\ irq = Idle /\ main = <<>> /\ mid = NoMid
    /\ Followed
    /\ main' \in MainScripts
    /\ poll' = NoPoll
    /\ rang' = FALSE
    /\ UNCHANGED <<dsp, dma, irq, isr, song, cut>>
-----------------------------------------------------------------------------
(***************************************************************************)
(* An access the card interrupts, in two halves.  The interrupt can tell   *)
(* where: in a write to the DSP whether the command has been looked up,    *)
(* and whether playback is started and not all of it stored; in a read of  *)
(* a counter whether the register has been copied, and whether it has      *)
(* caught up and is not released.  The stores of a reset, and those to the *)
(* DMA before playback, come while nothing plays, or change nothing the    *)
(* interrupt looks at one by one.                                          *)
(***************************************************************************)
Cut(place, unprotected) ==
    /\ mid' = place
    /\ torn' = torn \cup unprotected
    /\ UNCHANGED <<irq, isr>>

\* SBEMU_DSP_Write has seen that HighSpeed is off, and whether a command is open.
WriteChecked(op) ==
    /\ op.op \in {"dsp", "start", "stop"} /\ ~dsp.hs
    /\ Cut([at |-> "checked", idle |-> dsp.cmd = INVALID], {})
    /\ UNCHANGED <<dsp, dma, main, song, poll, rang>>

\* It has set Started, and not yet Pos, and for a single block Auto and Bits.
StartHalf(op) ==
    /\ op.op = "start" /\ ~dsp.hs /\ Starts(dsp, op.v)
    /\ dsp' = StartFirst(dsp, op.v)
    /\ song' = op.asked
    /\ main' = Tail(main)
    /\ Cut([at |-> "starting"], {"start"})
    /\ UNCHANGED <<dma, poll, rang>>

\* VDMA_Read has the value of the register.  For the first byte InIO is not set
\* yet, and the register may change.
ReadFetched(op) ==
    /\ op.op = "read"
    /\ Cut([at |-> "fetched", value |-> dma[op.ch].reg],
           IF dma[op.ch].inIO THEN {} ELSE {"count"})
    /\ poll' = IF dma[op.ch].odd THEN poll
               ELSE [open |-> TRUE, got |-> 0, seen |-> {Shown(dma[op.ch])}]
    /\ UNCHANGED <<dsp, dma, main, song, rang>>

\* For the second byte the register has caught up, and InIO and DelayUpdate are
\* still to be cleared: what an interrupt delays now is forgotten.
ReadHalf(op) ==
    /\ op.op = "read" /\ dma[op.ch].odd
    /\ dma' = [dma EXCEPT ![op.ch] = CatchUp(@)]
    /\ poll' = [poll EXCEPT !.open = FALSE, !.got = @ + (dma[op.ch].reg \div Base) * Base]
    /\ main' = Tail(main)
    /\ Cut([at |-> "read", ch |-> op.ch], {"count"})
    /\ UNCHANGED <<dsp, song, rang>>

\* An interrupt that finds nothing played and nothing requested does nothing.
MainHalf ==
    /\ irq = Idle /\ main # <<>> /\ mid = NoMid
    /\ LET op == Head(main)
       IN  \/ (dsp.started \/ dsp.trigger) /\ (WriteChecked(op) \/ ReadFetched(op) \/ ReadHalf(op))
           \/ StartHalf(op)

\* The rest of the write: nothing is looked up again, though a handler may have
\* opened a command or started the high speed mode.
WriteResumes ==
    /\ mid.at = "checked"
    /\ torn' = IF dsp.hs \/ mid.idle # (dsp.cmd = INVALID) THEN torn \cup {"write"} ELSE torn
    /\ LET op == Head(main)
       IN  /\ dsp' = IF mid.idle THEN DspCommand(dsp, op.v) ELSE DspData(dsp, op.v)
           /\ song' = CASE op.op = "start" -> op.asked
                        [] op.op = "stop" -> None
                        [] OTHER -> song
    /\ main' = Tail(main)
    /\ UNCHANGED <<dma, poll>>

StartResumes ==
    /\ mid.at = "starting"
    /\ dsp' = StartRest(dsp)
    /\ UNCHANGED <<dma, main, song, poll, torn>>

\* The rest of the read: the byte is one of the value copied before.
ReadResumes ==
    \/ /\ mid.at = "fetched"
       /\ LET ch == Head(main).ch
              byte == ByteOf(dma[ch], mid.value)
          IN  /\ dma' = [dma EXCEPT ![ch] = ReadCounter(@)]
              /\ poll' = IF dma[ch].odd THEN [poll EXCEPT !.open = FALSE, !.got = @ + byte * Base]
                         ELSE [poll EXCEPT !.got = byte]
       /\ main' = Tail(main)
       /\ UNCHANGED <<dsp, song, torn>>
    \/ /\ mid.at = "read"
       /\ dma' = [dma EXCEPT ![mid.ch] = Release(@)]
       /\ UNCHANGED <<dsp, main, song, poll, torn>>

\* MAIN_Interrupt has returned into the access.
MainResumes ==
    /\ irq = Idle
    /\ WriteResumes \/ StartResumes \/ ReadResumes
    /\ mid' = NoMid
    /\ UNCHANGED <<irq, isr, rang>>
-----------------------------------------------------------------------------
(***************************************************************************)
(* MAIN_Interrupt.                                                         *)
(***************************************************************************)
\* What it reads before the loop: the channel and the size of a sample stay
\* as they are then.
Reading(samples, done, ch) ==
    [at |-> "play", samples |-> samples, done |-> done, ch |-> ch,
     count |-> GetCounter(dma[ch], Bytes(ch)), index |-> GetIndex(dma[ch], Bytes(ch)),
     bytes |-> SampleBytes(dsp), pos |-> dsp.pos]

Digital(samples) ==
    IF samples > 0 /\ dsp.started THEN Reading(samples, 0, IF dsp.wide THEN "high" ELSE "low")
    ELSE Idle

\* The card wants samples.  A requested interrupt comes first.
CardInterrupts ==
    /\ irq = Idle
    /\ \E samples \in IF Followed THEN 0..Space ELSE {0} :
          irq' = IF dsp.trigger THEN [at |-> "trigger", samples |-> samples]
                 ELSE Digital(samples)
    /\ torn' = IF torn = {} THEN {} ELSE torn \cup {"card"}
    /\ UNCHANGED <<dsp, dma, client, mid>>

\* Mutant: only the end of the buffer is looked at.
CountPastBlock(i, size) == Least(i.samples - i.done, Most(1, i.count \div size))

\* How many samples of the block and of the buffer are taken at once.
Count(i, size) ==
    LET left == IF i.pos > i.bytes THEN i.samples   \* unsigned: larger than any
                ELSE Most(1, (i.bytes - i.pos) \div size)
    IN  Least(i.samples - i.done, Least(Most(1, i.count \div size), left))

Again(i, ch) == dma'[ch].auto /\ i.done < i.samples /\ dsp'.started

\* One pass of the loop, up to the call of the client's handler.
TakeSamples ==
    /\ irq.at = "play"
    /\ LET ch == irq.ch
           size == Bytes(ch)
           n == Count(irq, size)
           bytes == n * size
           pos == irq.pos + bytes
           over == pos >= irq.bytes
           i == [irq EXCEPT !.done = @ + n, !.count = GetCounter(dma'[ch], size),
                            !.index = GetIndex(dma'[ch], size), !.pos = pos]
       IN  /\ dma' = [dma EXCEPT ![ch] = SetIndexCounter(@, size, irq.index + bytes,
                                                         irq.count - bytes)]
           /\ dsp' = IF ~over THEN SetPos(dsp, pos)
                     ELSE LET d == SetPos(dsp, pos) IN SetPos(IF d.auto THEN d ELSE Stop(d), 0)
           /\ irq' = IF over THEN [i EXCEPT !.at = "raise", !.pos = 0]
                     ELSE IF Again(i, ch) THEN i ELSE Idle
           /\ song' = IF song = None THEN None
                      ELSE [song EXCEPT !.taken = @ + bytes, !.next = (@ + bytes) % song.count]
           /\ poll' = IF poll.open THEN [poll EXCEPT !.seen = @ \cup {Shown(dma'[ch])}] ELSE poll
    /\ UNCHANGED <<main, isr, rang, cut>>

\* VIRQ_Invoke: all lines are masked, and the client's handler is called.
HandlerStarts ==
    /\ irq.at \in {"trigger", "raise"}
    /\ irq' = [irq EXCEPT !.at = IF @ = "trigger" THEN "triggered" ELSE "raised"]
    /\ rang' = (main # <<>> /\ main[Len(main)] = [op |-> "wait"])
    /\ IF irq.at = "trigger"
       THEN isr' = Ack(dsp.int16) /\ song' = song
       ELSE /\ isr' \in IF song = None THEN {Ack(dsp.int16)} ELSE BlockScripts
            /\ song' = IF song # None /\ AutoInit(song.kind) THEN [song EXCEPT !.taken = 0]
                       ELSE None
    /\ UNCHANGED <<dsp, dma, main, poll, cut>>

HandlerStep ==
    /\ irq.at \in {"triggered", "raised"} /\ isr # <<>>
    /\ Access(Head(isr))
    /\ isr' = Tail(isr)
    /\ UNCHANGED <<irq, main, cut>>

\* Mutant: the request stays.
TriggerStays ==
    /\ irq.at = "triggered" /\ isr = <<>>
    /\ irq' = Digital(irq.samples)
    /\ UNCHANGED <<dsp, dma, client, cut>>

\* The handler returns to a requested interrupt: the request is answered.
TriggerAnswered ==
    /\ irq.at = "triggered" /\ isr = <<>>
    /\ dsp' = [dsp EXCEPT !.trigger = FALSE]
    /\ irq' = Digital(irq.samples)
    /\ UNCHANGED <<dma, client, cut>>

\* The handler returns to the loop.  After a small block the loop ends, and
\* too many of them stop the playback; else the registers are read again.
BlockAnswered ==
    /\ irq.at = "raised" /\ isr = <<>>
    /\ UNCHANGED <<dma, client, cut>>
    /\ IF irq.bytes <= SmallBlock
       THEN /\ dsp' = [IF dsp.detect + 1 >= DetectLimit THEN Stop(dsp) ELSE dsp
                       EXCEPT !.detect = Least(@ + 1, DetectLimit)]
            /\ irq' = Idle
       ELSE /\ dsp' = dsp
            /\ LET i == Reading(irq.samples, irq.done, irq.ch)
               IN  irq' = IF dma[irq.ch].auto /\ i.done < i.samples /\ dsp.started
                          THEN i ELSE Idle
-----------------------------------------------------------------------------
Next ==
    \/ MainStep \/ MainDecides \/ MainHalf \/ MainResumes
    \/ CardInterrupts \/ TakeSamples \/ HandlerStarts \/ HandlerStep
    \/ TriggerAnswered \/ BlockAnswered

Spec == Init /\ [][Next]_vars

\* The program and the interrupt run on; the card wants samples again and again.
FairSpec ==
    /\ Spec
    /\ WF_vars(MainStep \/ MainResumes)
    /\ WF_vars(TakeSamples \/ HandlerStarts \/ HandlerStep \/ TriggerAnswered \/ BlockAnswered)
    /\ SF_vars(CardInterrupts /\ irq' # Idle)
-----------------------------------------------------------------------------
TypeOK ==
    /\ dsp \in [cmd : Int, sub : 0..2, started : BOOLEAN, samples : 0..Word - 1,
                auto : BOOLEAN, wide : BOOLEAN, pos : Nat, hs : BOOLEAN,
                trigger : BOOLEAN, detect : 0..DetectLimit, int8 : BOOLEAN,
                int16 : BOOLEAN, reset : {"start", "poll", "end"}]
    /\ dma \in [Channels -> [auto : BOOLEAN, counter : 0..Word, cur : 0..Word, index : Nat,
                             reg : 0..Word - 1, odd : BOOLEAN, inIO : BOOLEAN,
                             delay : BOOLEAN]]
    /\ irq.at \in {"idle", "trigger", "triggered", "play", "raise", "raised"}
    /\ rang \in BOOLEAN
    /\ mid \in {NoMid, [at |-> "starting"]} \cup [at : {"checked"}, idle : BOOLEAN]
              \cup [at : {"fetched"}, value : 0..Word - 1] \cup [at : {"read"}, ch : Channels]
    /\ torn \subseteq {"start", "count", "write", "card"}

\* The handler is called for a block exactly when the block the program asked
\* for has been taken, no sooner and no later: unless an access has been torn.
WholeBlocks ==
    torn = {} /\ song # None =>
        /\ song.taken <= song.block
        /\ irq.at = "raise" => song.taken = song.block

\* Samples are taken only of music the program has asked for, from the channel
\* of its width, one after the other, and never from behind the buffer: with
\* the same exception.
InOrder ==
    [][ torn = {} /\ irq.at = "play" =>
            /\ song # None
            /\ irq.ch = Channel(song.kind)
            /\ irq.index % song.count = song.next
            /\ irq.index + (song'.taken - song.taken) <= song.count ]_vars

\* A counter the program has read in two halves is one it had in between.
CountersWhole == ~poll.open => poll.got \in poll.seen

\* It is that, though the card comes between the halves and in the middle of the
\* second, unless it came where InIO does not hold the register: between the
\* copy of the register and InIO, or between the second byte's catching up and
\* the end of InIO.
PollsAreCurrent == torn = {} => CountersWhole

\* A DSP that plays in high speed mode is playing: else it would be deaf, and
\* no interrupt would come to end that.  A write that was under way when a handler
\* started that mode could still stop it.
NeverDeaf == "write" \notin torn => (dsp.hs => dsp.started)

\* Playback leads to an interrupt or is stopped, and a request is answered.
InterruptsCome ==
    /\ dsp.started ~> (irq.at = "raise" \/ ~dsp.started \/ ~Followed)
    /\ dsp.trigger ~> ~dsp.trigger
=============================================================================

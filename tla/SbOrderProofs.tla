--------------------------- MODULE SbOrderProofs ---------------------------
(***************************************************************************)
(* Proofs about SbPlay, for every set of songs, every size of a byte and   *)
(* of a word: the DSP, the DMA channels and MAIN_Interrupt keep agreeing   *)
(* with the block the program asked for, although the card interrupts      *)
(* between any two accesses, and in the middle of an access.               *)
(*                                                                         *)
(* HighSpeedPlays assumes nothing of the program.  The other theorems      *)
(* assume Orderly, a program that keeps the rules of the chips, and the    *)
(* one about the order of samples also Behaved, blocks that fit their      *)
(* buffers.  LowPolls, SinglePauses and Widening of MCSbPlay are what      *)
(* Orderly excludes: with each of them TLC finds a property violated.      *)
(***************************************************************************)
EXTENDS SbPlay, SequenceTheorems, TLAPS

-----------------------------------------------------------------------------
(***************************************************************************)
(* The DSP never goes deaf.  Nothing is assumed of the program: this       *)
(* holds whatever bytes it and its handler write to the DSP, in whatever   *)
(* order, and whenever the card interrupts.                                *)
(***************************************************************************)
Fields == {"cmd", "sub", "started", "samples", "auto", "wide", "pos", "hs",
           "trigger", "detect", "int8", "int16", "reset"}

\* A DSP that is not deaf.  Nothing is said of what its fields hold, so that
\* nothing need be known of the bytes that are written.
DspGood(d) == d = [f \in Fields |-> d[f]] /\ (d.hs => d.started)

LEMMA InitGood == DspGood(DspInit)
  BY DEF DspGood, DspInit, Fields

LEMMA ResetGood == ASSUME NEW d, DspGood(d), NEW v PROVE DspGood(DspReset(d, v))
<1>1. CASE v = 1
  BY <1>1 DEF DspReset, DspInit, DspGood, Fields
<1>2. CASE v # 1
  BY <1>2 DEF DspReset, DspGood, Fields
<1> QED BY <1>1, <1>2

\* What a command does to a DSP that is not in high speed mode.
LEMMA CommandGood ==
  ASSUME NEW d, DspGood(d), ~d.hs, NEW v PROVE DspGood(DspCommand(d, v))
<1> USE DEF DspGood, Fields
<1>1. DspGood([d EXCEPT !.int8 = TRUE, !.trigger = TRUE, !.sub = 0])
  OBVIOUS
<1>2. DspGood([d EXCEPT !.int16 = TRUE, !.trigger = TRUE, !.sub = 0])
  OBVIOUS
<1>3. DspGood([d EXCEPT !.started = v = CONTINUE, !.sub = 0])
  OBVIOUS
<1>4. DspGood([d EXCEPT !.auto = v # OUT_1_HS, !.wide = FALSE,
                        !.hs = v # OUT_AUTO, !.started = TRUE, !.pos = 0, !.sub = 0])
  OBVIOUS
<1>5. DspGood([d EXCEPT !.started = d.started /\ ~d.auto, !.auto = FALSE, !.sub = 0])
  OBVIOUS
<1>6. DspGood([d EXCEPT !.cmd = v, !.sub = 0])
  OBVIOUS
<1> DEFINE C == DspCommand(d, v)
<1>7. \/ C = [d EXCEPT !.int8 = TRUE, !.trigger = TRUE, !.sub = 0]
      \/ C = [d EXCEPT !.int16 = TRUE, !.trigger = TRUE, !.sub = 0]
      \/ C = [d EXCEPT !.started = v = CONTINUE, !.sub = 0]
      \/ C = [d EXCEPT !.auto = v # OUT_1_HS, !.wide = FALSE,
                       !.hs = v # OUT_AUTO, !.started = TRUE, !.pos = 0, !.sub = 0]
      \/ C = [d EXCEPT !.started = d.started /\ ~d.auto, !.auto = FALSE, !.sub = 0]
      \/ C = [d EXCEPT !.cmd = v, !.sub = 0]
  BY DEF DspCommand
<1> HIDE DEF C, DspGood, Fields
<1> QED BY <1>1, <1>2, <1>3, <1>4, <1>5, <1>6, <1>7 DEF C

LEMMA CompleteGood == ASSUME NEW d, DspGood(d) PROVE DspGood(Complete(d))
<1>1. DspGood([d EXCEPT !.cmd = INVALID])
  BY DEF DspGood, Fields
<1> QED BY <1>1 DEF Complete

LEMMA SizeGood ==
  ASSUME NEW d, DspGood(d), ~d.hs, NEW v
  PROVE  DspGood(TakeSize(d, v)) /\ ~TakeSize(d, v).hs
  BY DEF TakeSize, DspGood, Fields

\* What a byte does that belongs to an open command.
LEMMA DataGood ==
  ASSUME NEW d, DspGood(d), ~d.hs, NEW v PROVE DspGood(DspData(d, v))
<1> DEFINE t == TakeSize(d, v)
           D == DspData(d, v)
<1>1. DspGood(t) /\ ~t.hs
  BY SizeGood
<1>2. DspGood(d) /\ ~d.hs
  OBVIOUS
<1>3. \/ D = Complete([t EXCEPT !.started = FALSE, !.hs = FALSE, !.auto = FALSE])
      \/ D = Complete([t EXCEPT !.started = TRUE, !.hs = FALSE,
                                !.auto = FALSE, !.wide = FALSE, !.pos = 0])
      \/ D = Complete(t)
      \/ D = [d EXCEPT !.auto = d.cmd = OUT16_AUTO, !.cmd = v, !.sub = 0]
      \/ D = Complete([t EXCEPT !.started = TRUE, !.wide = TRUE, !.pos = 0])
      \/ D = Complete(d)
  BY DEF DspData
<1> HIDE DEF t, D
<1>4. DspGood([t EXCEPT !.started = FALSE, !.hs = FALSE, !.auto = FALSE])
  BY <1>1 DEF DspGood, Fields
<1>5. DspGood([t EXCEPT !.started = TRUE, !.hs = FALSE,
                        !.auto = FALSE, !.wide = FALSE, !.pos = 0])
  BY <1>1 DEF DspGood, Fields
<1>6. DspGood([d EXCEPT !.auto = d.cmd = OUT16_AUTO, !.cmd = v, !.sub = 0])
  BY <1>2 DEF DspGood, Fields
<1>7. DspGood([t EXCEPT !.started = TRUE, !.wide = TRUE, !.pos = 0])
  BY <1>1 DEF DspGood, Fields
<1> QED BY <1>1, <1>2, <1>3, <1>4, <1>5, <1>6, <1>7, CompleteGood DEF D

LEMMA WriteGood == ASSUME NEW d, DspGood(d), NEW v PROVE DspGood(DspWrite(d, v))
  BY CommandGood, DataGood DEF DspWrite

LEMMA PosGood == ASSUME NEW d, DspGood(d), NEW p PROVE DspGood(SetPos(d, p))
  BY DEF SetPos, DspGood, Fields

LEMMA StopGood == ASSUME NEW d, DspGood(d) PROVE DspGood(Stop(d))
  BY DEF Stop, DspGood, Fields

LEMMA AckGood ==
  ASSUME NEW d, DspGood(d) PROVE DspGood(ReadStatus(d)) /\ DspGood(Int16Ack(d))
  BY DEF ReadStatus, Int16Ack, DspGood, Fields

\* The halves of a write that starts playback.
LEMMA HalvesGood ==
  ASSUME NEW d, DspGood(d)
  PROVE  /\ DspGood(StartRest(d))
         /\ \A v : Starts(d, v) /\ ~d.hs => DspGood(StartFirst(d, v))
<1>1. DspGood(StartRest(d))
  BY DEF StartRest, DspGood, Fields
<1>2. ASSUME NEW v, Starts(d, v), ~d.hs PROVE DspGood(StartFirst(d, v))
  <2> DEFINE t == TakeSize(d, v)
             S == StartFirst(d, v)
  <2>1. DspGood(t)
    BY <1>2, SizeGood
  <2>2. \/ S = [d EXCEPT !.auto = v # OUT_1_HS, !.wide = FALSE, !.hs = v # OUT_AUTO,
                         !.started = TRUE, !.cmd = v, !.sub = 0]
        \/ S = [t EXCEPT !.started = TRUE]
        \/ S = [t EXCEPT !.started = TRUE, !.wide = TRUE]
    BY <1>2 DEF Starts, StartFirst
  <2> HIDE DEF t, S
  <2>3. DspGood([d EXCEPT !.auto = v # OUT_1_HS, !.wide = FALSE, !.hs = v # OUT_AUTO,
                          !.started = TRUE, !.cmd = v, !.sub = 0])
    BY DEF DspGood, Fields
  <2>4. DspGood([t EXCEPT !.started = TRUE]) /\ DspGood([t EXCEPT !.started = TRUE, !.wide = TRUE])
    BY <2>1 DEF DspGood, Fields
  <2> QED BY <2>2, <2>3, <2>4 DEF S
<1> QED BY <1>1, <1>2

\* Any access to a port, of the program or of its handler.
LEMMA AccessGood ==
  ASSUME NEW op, DspGood(dsp), Access(op) PROVE DspGood(dsp')
<1>1. CASE OnDsp(op)
  BY <1>1, ResetGood, WriteGood, AckGood DEF OnDsp
<1>2. CASE OnDma(op) \/ OnCounter(op) \/ OnFlag(op)
  BY <1>2 DEF OnDma, OnCounter, OnFlag
<1> QED BY <1>1, <1>2 DEF Access
-----------------------------------------------------------------------------
\* Every step leaves the DSP good; only the end of a block, the answer to a
\* request and the accesses of the program change it.
LEMMA StepGood ==
  ASSUME DspGood(dsp), [Next]_vars, "write" \notin torn' PROVE DspGood(dsp')
<1>1. CASE MainStep
  BY <1>1, AccessGood DEF MainStep, MainAccess
<1>2. CASE MainDecides \/ CardInterrupts \/ HandlerStarts \/ UNCHANGED vars
  BY <1>2 DEF MainDecides, CardInterrupts, HandlerStarts, vars
<1>7. CASE MainHalf
  BY <1>7, HalvesGood DEF MainHalf, WriteChecked, StartHalf, ReadFetched, ReadHalf
<1>8. CASE MainResumes
  <2>1. CASE WriteResumes
    <3>1. ~dsp.hs
      BY <2>1 DEF WriteResumes
    <3> QED BY <2>1, <3>1, CommandGood, DataGood DEF WriteResumes
  <2>2. CASE StartResumes \/ ReadResumes
    BY <2>2, HalvesGood DEF StartResumes, ReadResumes
  <2> QED BY <1>8, <2>1, <2>2 DEF MainResumes
<1>3. CASE HandlerStep
  BY <1>3, AccessGood DEF HandlerStep
<1>4. CASE TakeSamples
  BY <1>4, PosGood, StopGood DEF TakeSamples
<1>5. CASE TriggerAnswered
  BY <1>5 DEF TriggerAnswered, DspGood, Fields
<1>6. CASE BlockAnswered
  <2>1. \A n : DspGood([dsp EXCEPT !.detect = n]) /\ DspGood([Stop(dsp) EXCEPT !.detect = n])
    BY StopGood DEF DspGood, Fields
  <2>2. CASE irq.bytes <= SmallBlock
    BY <1>6, <2>1, <2>2 DEF BlockAnswered
  <2>3. CASE ~(irq.bytes <= SmallBlock)
    BY <1>6, <2>3 DEF BlockAnswered
  <2> QED BY <2>2, <2>3
<1> QED BY <1>1, <1>2, <1>3, <1>4, <1>5, <1>6, <1>7, <1>8 DEF Next

\* What has been torn stays so.
LEMMA TornStays == ASSUME [Next]_vars PROVE torn \subseteq torn'
<1>1. CASE MainHalf
  BY <1>1 DEF MainHalf, WriteChecked, StartHalf, ReadFetched, ReadHalf, Cut
<1>2. CASE MainResumes
  BY <1>2 DEF MainResumes, WriteResumes, StartResumes, ReadResumes
<1>3. CASE ~MainHalf /\ ~MainResumes
  BY <1>3 DEF Next, MainStep, MainDecides, CardInterrupts, TakeSamples, HandlerStarts,
              HandlerStep, TriggerAnswered, BlockAnswered, vars, cut
<1> QED BY <1>1, <1>2, <1>3

\* A DSP in high speed mode, which takes no commands, is always playing: the
\* end of a single block takes it out of that mode together with stopping it.
THEOREM HighSpeedPlays == Spec => []NeverDeaf
<1> DEFINE Good == "write" \notin torn => DspGood(dsp)
<1>1. Init => Good
  BY InitGood DEF Init
<1>2. Good /\ [Next]_vars => Good'
  BY StepGood, TornStays DEF DspGood, Fields
<1>3. Good => NeverDeaf
  BY DEF DspGood, NeverDeaf
<1> HIDE DEF Good
<1> QED BY <1>1, <1>2, <1>3, PTL DEF Spec

-----------------------------------------------------------------------------

USE BaseAssumption

-----------------------------------------------------------------------------
\* Numbers.

LEMMA Quotient ==
  ASSUME NEW a \in Int, NEW b \in Nat \ {0}
  PROVE  /\ a = b * (a \div b) + (a % b)
         /\ a % b \in 0..b - 1 /\ a \div b \in Int
  OBVIOUS

LEMMA Product ==
  ASSUME NEW p \in Int, NEW b \in Nat \ {0}
  PROVE  /\ p > 0 => p * b >= b
         /\ p < 0 => p * b <= -b
         /\ p * b \in Int
  OBVIOUS

\* A number has only one quotient and one rest.
LEMMA Unique ==
  ASSUME NEW b \in Nat \ {0}, NEW q \in Int, NEW r \in 0..b - 1
  PROVE  (q * b + r) % b = r /\ (q * b + r) \div b = q
<1> DEFINE a == q * b + r
<1>1. q * b \in Int /\ a \in Int
  BY Product
<1>2. a = b * (a \div b) + (a % b) /\ a % b \in 0..b - 1 /\ a \div b \in Int
  BY <1>1, Quotient
<1> DEFINE p == q - a \div b
<1>3. p \in Int /\ p * b = (a % b) - r
  BY <1>2
<1> HIDE DEF a
<1>4. p = 0
  <2>1. (a % b) - r < b /\ (a % b) - r > -b
    BY <1>2
  <2> HIDE DEF p
  <2> QED BY <1>3, <2>1, Product
<1> QED BY <1>2, <1>3, <1>4 DEF a

LEMMA WordSize == Word \in Nat /\ Base <= Word /\ Word >= 4
  BY DEF Word

Byte == 0..Base - 1

\* Two bytes make a word.
LEMMA TwoBytes ==
  ASSUME NEW lo \in Byte, NEW hi \in Byte
  PROVE  /\ hi * Base + lo \in 0..Word - 1
         /\ lo % Base = lo
         /\ (hi * Base + lo) % Base = lo /\ (hi * Base + lo) \div Base = hi
<1>1. hi * Base \in Nat /\ hi * Base <= (Base - 1) * Base
  BY DEF Byte
<1>2. (Base - 1) * Base = Word - Base
  BY DEF Word
<1>3. (0 * Base + lo) % Base = lo
  BY Unique DEF Byte
<1> QED BY <1>1, <1>2, <1>3, Unique, WordSize DEF Byte

\* A word is two bytes.
LEMMA WordBytes ==
  ASSUME NEW w \in 0..Word - 1
  PROVE  /\ w % Base \in Byte /\ w \div Base \in Byte
         /\ w = (w \div Base) * Base + (w % Base)
<1> DEFINE q == w \div Base
           r == w % Base
<1>1. w = Base * q + r /\ r \in Byte /\ q \in Int
  BY Quotient, WordSize DEF Byte
<1> HIDE DEF q, r
<1>2. Base * q <= Word - 1 /\ Base * q > -Base /\ Base * q = q * Base
  BY <1>1, WordSize DEF Byte
<1>3. q < Base
  <2>1. SUFFICES ASSUME q - Base >= 0 PROVE FALSE
    BY <1>1
  <2>2. (q - Base) * Base >= 0
    BY <1>1, <2>1
  <2>3. (q - Base) * Base = q * Base - Word
    BY <1>1 DEF Word
  <2> QED BY <1>1, <1>2, <2>2, <2>3, WordSize
<1>4. q >= 0
  <2>1. SUFFICES ASSUME q < 0 PROVE FALSE
    BY <1>1
  <2> QED BY <1>1, <1>2, <2>1, Product
<1> QED BY <1>1, <1>2, <1>3, <1>4 DEF q, r, Byte

LEMMA Halves ==
  ASSUME NEW n \in 1..Word
  PROVE  /\ Low(n) \in Byte /\ High(n) \in Byte
         /\ High(n) * Base + Low(n) = n - 1
<1> DEFINE w == n - 1
<1>1. w \in 0..Word - 1 /\ Low(n) = w % Base /\ High(n) = w \div Base
  BY WordSize DEF Low, High
<1> HIDE DEF w
<1>2. Low(n) \in Byte /\ High(n) \in Byte /\ High(n) * Base + Low(n) = w
  BY <1>1, WordBytes
<1> QED BY <1>2 DEF w

LEMMA Modulo ==
  ASSUME NEW m \in Nat \ {0}
  PROVE  /\ \A n \in 0..m - 1 : n % m = n
         /\ m % m = 0 /\ (-1) % m = m - 1
         /\ \A n \in Int : n % m \in 0..m - 1
<1>1. ASSUME NEW n \in 0..m - 1 PROVE n % m = n
  <2>1. (0 * m + n) % m = n
    BY Unique
  <2> QED BY <2>1
<1>2. m % m = 0
  <2>1. (1 * m + 0) % m = 0
    BY Unique
  <2> QED BY <2>1
<1>3. (-1) % m = m - 1
  <2>1. ((-1) * m + (m - 1)) % m = m - 1
    BY Unique
  <2>2. (-1) * m + (m - 1) = -1
    OBVIOUS
  <2> QED BY <2>1, <2>2
<1>4. \A n \in Int : n % m \in 0..m - 1
  BY Quotient
<1> QED BY <1>1, <1>2, <1>3, <1>4
-----------------------------------------------------------------------------
\* The DSP: its type, in two parts, and what becomes of it at each command.

DspSet ==
    [cmd : Int, sub : 0..2, started : BOOLEAN, samples : 0..Word - 1,
     auto : BOOLEAN, wide : BOOLEAN, pos : Nat, hs : BOOLEAN,
     trigger : BOOLEAN, detect : 0..DetectLimit, int8 : BOOLEAN,
     int16 : BOOLEAN, reset : {"start", "poll", "end"}]

Shape(d) == d = [f \in Fields |-> d[f]]
Typing(d) ==
    /\ d.cmd \in Int /\ d.sub \in 0..2 /\ d.samples \in 0..Word - 1 /\ d.pos \in Nat
    /\ d.detect \in 0..DetectLimit /\ d.reset \in {"start", "poll", "end"}
    /\ d.started \in BOOLEAN /\ d.auto \in BOOLEAN /\ d.wide \in BOOLEAN /\ d.hs \in BOOLEAN
    /\ d.trigger \in BOOLEAN /\ d.int8 \in BOOLEAN /\ d.int16 \in BOOLEAN
DspTyped(d) == Shape(d) /\ Typing(d)

LEMMA DspTypes == ASSUME NEW d PROVE DspTyped(d) <=> d \in DspSet
<1>1. Shape(d) /\ Typing(d) => d \in DspSet
  BY DEF Shape, Typing, DspSet, Fields
<1>2. d \in DspSet => Shape(d)
  BY DEF Shape, DspSet, Fields
<1>3. d \in DspSet => Typing(d)
  BY DEF Typing, DspSet
<1> QED BY <1>1, <1>2, <1>3 DEF DspTyped

Opened(d, v) == [d EXCEPT !.cmd = v, !.sub = 0]
Going(d, x) == [d EXCEPT !.started = x, !.sub = 0]
Repeating(d, z, y) ==
    [d EXCEPT !.auto = z, !.wide = FALSE, !.hs = y, !.started = TRUE, !.pos = 0, !.sub = 0]
Left(d, x) == [d EXCEPT !.started = x, !.auto = FALSE, !.sub = 0]
Requested8(d) == [d EXCEPT !.int8 = TRUE, !.trigger = TRUE, !.sub = 0]
Requested16(d) == [d EXCEPT !.int16 = TRUE, !.trigger = TRUE, !.sub = 0]
Widened(d, z, v) == [d EXCEPT !.auto = z, !.cmd = v, !.sub = 0]
Sized(d, w, n) == [d EXCEPT !.samples = w, !.sub = n]
Silent(d) == [d EXCEPT !.started = FALSE, !.hs = FALSE, !.auto = FALSE]
Once(d) == [d EXCEPT !.started = TRUE, !.hs = FALSE, !.auto = FALSE, !.wide = FALSE, !.pos = 0]
WideOnce(d) == [d EXCEPT !.started = TRUE, !.wide = TRUE, !.pos = 0]
Closed(d) == [d EXCEPT !.cmd = INVALID]

LEMMA OpenedDsp ==
  ASSUME NEW d, DspTyped(d), NEW v \in Int
  PROVE  LET e == Opened(d, v)
         IN  /\ DspTyped(e)
             /\ e.cmd = v /\ e.sub = 0 /\ e.started = d.started /\ e.hs = d.hs
<1> USE DEF DspTyped, Fields, Opened
<1>1. Shape(Opened(d, v))
  BY DEF Shape
<1>2. Typing(Opened(d, v))
  BY DEF Shape, Typing
<1>3. LET e == Opened(d, v)
      IN  /\ e.cmd = v /\ e.sub = 0 /\ e.started = d.started /\ e.hs = d.hs
  BY DEF Shape
<1> QED BY <1>1, <1>2, <1>3 DEF DspTyped

LEMMA GoingDsp ==
  ASSUME NEW d, DspTyped(d), NEW x \in BOOLEAN
  PROVE  LET e == Going(d, x)
         IN  /\ DspTyped(e)
             /\ e.started = x /\ e.hs = d.hs /\ e.cmd = d.cmd /\ e.auto = d.auto
             /\ e.wide = d.wide /\ e.samples = d.samples /\ e.pos = d.pos
<1> USE DEF DspTyped, Fields, Going
<1>1. Shape(Going(d, x))
  BY DEF Shape
<1>2. Typing(Going(d, x))
  BY DEF Shape, Typing
<1>3. LET e == Going(d, x)
      IN  /\ e.started = x /\ e.hs = d.hs /\ e.cmd = d.cmd /\ e.auto = d.auto
          /\ e.wide = d.wide /\ e.samples = d.samples /\ e.pos = d.pos
  BY DEF Shape
<1> QED BY <1>1, <1>2, <1>3 DEF DspTyped

LEMMA RepeatingDsp ==
  ASSUME NEW d, DspTyped(d), NEW z \in BOOLEAN, NEW y \in BOOLEAN
  PROVE  LET e == Repeating(d, z, y)
         IN  /\ DspTyped(e)
             /\ e.started = TRUE /\ e.auto = z /\ e.hs = y /\ e.wide = FALSE /\ e.pos = 0
             /\ e.cmd = d.cmd /\ e.samples = d.samples
<1> USE DEF DspTyped, Fields, Repeating
<1>1. Shape(Repeating(d, z, y))
  BY DEF Shape
<1>2. Typing(Repeating(d, z, y))
  BY DEF Shape, Typing
<1>3. LET e == Repeating(d, z, y)
      IN  /\ e.started = TRUE /\ e.auto = z /\ e.hs = y /\ e.wide = FALSE /\ e.pos = 0
          /\ e.cmd = d.cmd /\ e.samples = d.samples
  BY DEF Shape
<1> QED BY <1>1, <1>2, <1>3 DEF DspTyped

LEMMA LeftDsp ==
  ASSUME NEW d, DspTyped(d), NEW x \in BOOLEAN
  PROVE  LET e == Left(d, x)
         IN  /\ DspTyped(e)
             /\ e.started = x /\ e.hs = d.hs /\ e.cmd = d.cmd
<1> USE DEF DspTyped, Fields, Left
<1>1. Shape(Left(d, x))
  BY DEF Shape
<1>2. Typing(Left(d, x))
  BY DEF Shape, Typing
<1>3. LET e == Left(d, x)
      IN  /\ e.started = x /\ e.hs = d.hs /\ e.cmd = d.cmd
  BY DEF Shape
<1> QED BY <1>1, <1>2, <1>3 DEF DspTyped

LEMMA Requested8Dsp ==
  ASSUME NEW d, DspTyped(d)
  PROVE  LET e == Requested8(d)
         IN  /\ DspTyped(e)
             /\ e.started = d.started /\ e.hs = d.hs /\ e.cmd = d.cmd
<1> USE DEF DspTyped, Fields, Requested8
<1>1. Shape(Requested8(d))
  BY DEF Shape
<1>2. Typing(Requested8(d))
  BY DEF Shape, Typing
<1>3. LET e == Requested8(d)
      IN  /\ e.started = d.started /\ e.hs = d.hs /\ e.cmd = d.cmd
  BY DEF Shape
<1> QED BY <1>1, <1>2, <1>3 DEF DspTyped

LEMMA Requested16Dsp ==
  ASSUME NEW d, DspTyped(d)
  PROVE  LET e == Requested16(d)
         IN  /\ DspTyped(e)
             /\ e.started = d.started /\ e.hs = d.hs /\ e.cmd = d.cmd
<1> USE DEF DspTyped, Fields, Requested16
<1>1. Shape(Requested16(d))
  BY DEF Shape
<1>2. Typing(Requested16(d))
  BY DEF Shape, Typing
<1>3. LET e == Requested16(d)
      IN  /\ e.started = d.started /\ e.hs = d.hs /\ e.cmd = d.cmd
  BY DEF Shape
<1> QED BY <1>1, <1>2, <1>3 DEF DspTyped

LEMMA WidenedDsp ==
  ASSUME NEW d, DspTyped(d), NEW z \in BOOLEAN, NEW v \in Int
  PROVE  LET e == Widened(d, z, v)
         IN  /\ DspTyped(e)
             /\ e.auto = z /\ e.cmd = v /\ e.sub = 0 /\ e.started = d.started /\ e.hs = d.hs
<1> USE DEF DspTyped, Fields, Widened
<1>1. Shape(Widened(d, z, v))
  BY DEF Shape
<1>2. Typing(Widened(d, z, v))
  BY DEF Shape, Typing
<1>3. LET e == Widened(d, z, v)
      IN  /\ e.auto = z /\ e.cmd = v /\ e.sub = 0 /\ e.started = d.started /\ e.hs = d.hs
  BY DEF Shape
<1> QED BY <1>1, <1>2, <1>3 DEF DspTyped

LEMMA SizedDsp ==
  ASSUME NEW d, DspTyped(d), NEW w \in 0..Word - 1, NEW n \in 0..2
  PROVE  LET e == Sized(d, w, n)
         IN  /\ DspTyped(e)
             /\ e.samples = w /\ e.sub = n
             /\ e.cmd = d.cmd /\ e.auto = d.auto /\ e.started = d.started /\ e.hs = d.hs
<1> USE DEF DspTyped, Fields, Sized
<1>1. Shape(Sized(d, w, n))
  BY DEF Shape
<1>2. Typing(Sized(d, w, n))
  BY DEF Shape, Typing
<1>3. LET e == Sized(d, w, n)
      IN  /\ e.samples = w /\ e.sub = n
          /\ e.cmd = d.cmd /\ e.auto = d.auto /\ e.started = d.started /\ e.hs = d.hs
  BY DEF Shape
<1> QED BY <1>1, <1>2, <1>3 DEF DspTyped

LEMMA SilentDsp ==
  ASSUME NEW d, DspTyped(d)
  PROVE  LET e == Silent(d)
         IN  /\ DspTyped(e)
             /\ e.started = FALSE /\ e.hs = FALSE /\ e.sub = d.sub /\ e.samples = d.samples
<1> USE DEF DspTyped, Fields, Silent
<1>1. Shape(Silent(d))
  BY DEF Shape
<1>2. Typing(Silent(d))
  BY DEF Shape, Typing
<1>3. LET e == Silent(d)
      IN  /\ e.started = FALSE /\ e.hs = FALSE /\ e.sub = d.sub /\ e.samples = d.samples
  BY DEF Shape
<1> QED BY <1>1, <1>2, <1>3 DEF DspTyped

LEMMA OnceDsp ==
  ASSUME NEW d, DspTyped(d)
  PROVE  LET e == Once(d)
         IN  /\ DspTyped(e)
             /\ e.started = TRUE /\ e.hs = FALSE /\ e.auto = FALSE /\ e.wide = FALSE /\ e.pos = 0
             /\ e.sub = d.sub /\ e.samples = d.samples
<1> USE DEF DspTyped, Fields, Once
<1>1. Shape(Once(d))
  BY DEF Shape
<1>2. Typing(Once(d))
  BY DEF Shape, Typing
<1>3. LET e == Once(d)
      IN  /\ e.started = TRUE /\ e.hs = FALSE /\ e.auto = FALSE /\ e.wide = FALSE /\ e.pos = 0
          /\ e.sub = d.sub /\ e.samples = d.samples
  BY DEF Shape
<1> QED BY <1>1, <1>2, <1>3 DEF DspTyped

LEMMA WideOnceDsp ==
  ASSUME NEW d, DspTyped(d)
  PROVE  LET e == WideOnce(d)
         IN  /\ DspTyped(e)
             /\ e.started = TRUE /\ e.wide = TRUE /\ e.pos = 0
             /\ e.sub = d.sub /\ e.samples = d.samples /\ e.auto = d.auto /\ e.hs = d.hs
<1> USE DEF DspTyped, Fields, WideOnce
<1>1. Shape(WideOnce(d))
  BY DEF Shape
<1>2. Typing(WideOnce(d))
  BY DEF Shape, Typing
<1>3. LET e == WideOnce(d)
      IN  /\ e.started = TRUE /\ e.wide = TRUE /\ e.pos = 0
          /\ e.sub = d.sub /\ e.samples = d.samples /\ e.auto = d.auto /\ e.hs = d.hs
  BY DEF Shape
<1> QED BY <1>1, <1>2, <1>3 DEF DspTyped

LEMMA ClosedDsp ==
  ASSUME NEW d, DspTyped(d)
  PROVE  LET e == Closed(d)
         IN  /\ DspTyped(e)
             /\ e.cmd = INVALID /\ e.samples = d.samples /\ e.started = d.started /\ e.hs = d.hs
             /\ e.auto = d.auto /\ e.wide = d.wide /\ e.pos = d.pos
<1> USE DEF INVALID, DspTyped, Fields, Closed
<1>1. Shape(Closed(d))
  BY DEF Shape
<1>2. Typing(Closed(d))
  BY DEF Shape, Typing
<1>3. LET e == Closed(d)
      IN  /\ e.cmd = INVALID /\ e.samples = d.samples /\ e.started = d.started /\ e.hs = d.hs
          /\ e.auto = d.auto /\ e.wide = d.wide /\ e.pos = d.pos
  BY DEF Shape
<1> QED BY <1>1, <1>2, <1>3 DEF DspTyped

-----------------------------------------------------------------------------
Still(d) == ~d.started /\ ~d.hs

\* A byte that finds no command open.
LEMMA Opens ==
  ASSUME NEW d, DspTyped(d), d.cmd = INVALID, ~d.hs,
         NEW v \in {SET_SIZE, OUT_1, OUT16_1, OUT16_AUTO}
  PROVE  LET e == DspWrite(d, v)
         IN  DspTyped(e) /\ e.cmd = v /\ e.sub = 0 /\ e.started = d.started /\ ~e.hs
<1>1. DspWrite(d, v) = Opened(d, v)
  BY DEF Opened, DspWrite, DspCommand, INVALID, SET_SIZE, OUT_1, OUT16_1, OUT16_AUTO, OUT_AUTO,
         OUT_AUTO_HS, OUT_1_HS, HALT, CONTINUE, EXIT_AUTO, TRIGGER_IRQ, TRIGGER_IRQ16
<1>2. v \in Int
  BY DEF SET_SIZE, OUT_1, OUT16_1, OUT16_AUTO
<1> QED BY <1>1, <1>2, OpenedDsp

LEMMA HaltsOrGoes ==
  ASSUME NEW d, DspTyped(d), d.cmd = INVALID, ~d.hs, NEW v \in {HALT, CONTINUE}
  PROVE  LET e == DspWrite(d, v)
         IN  /\ DspTyped(e) /\ (e.started <=> v = CONTINUE) /\ ~e.hs /\ e.cmd = INVALID
             /\ e.auto = d.auto /\ e.wide = d.wide /\ e.samples = d.samples /\ e.pos = d.pos
<1> PICK x \in BOOLEAN : x = (v = CONTINUE)
  OBVIOUS
<1>1. DspWrite(d, v) = Going(d, x)
  BY DEF Going, DspWrite, DspCommand, INVALID, SET_SIZE, OUT_1, OUT16_1, OUT16_AUTO, OUT_AUTO,
         OUT_AUTO_HS, OUT_1_HS, HALT, CONTINUE, EXIT_AUTO, TRIGGER_IRQ, TRIGGER_IRQ16
<1> DEFINE e == Going(d, x)
<1>2. /\ DspTyped(e) /\ e.started = x /\ e.hs = d.hs /\ e.cmd = d.cmd /\ e.auto = d.auto
      /\ e.wide = d.wide /\ e.samples = d.samples /\ e.pos = d.pos
  BY GoingDsp
<1> HIDE DEF e
<1>3. DspWrite(d, v) = e
  BY <1>1 DEF e
<1> QED BY <1>2, <1>3

LEMMA StartsSized ==
  ASSUME NEW d, DspTyped(d), d.cmd = INVALID, ~d.hs, NEW v \in {OUT_AUTO, OUT_AUTO_HS, OUT_1_HS}
  PROVE  LET e == DspWrite(d, v)
         IN  /\ DspTyped(e) /\ e.started /\ (e.hs <=> v # OUT_AUTO) /\ e.cmd = INVALID
             /\ (e.auto <=> v # OUT_1_HS) /\ ~e.wide /\ e.samples = d.samples /\ e.pos = 0
<1> PICK z \in BOOLEAN : z = (v # OUT_1_HS)
  OBVIOUS
<1> PICK y \in BOOLEAN : y = (v # OUT_AUTO)
  OBVIOUS
<1>1. DspWrite(d, v) = Repeating(d, z, y)
  BY DEF Repeating, DspWrite, DspCommand, INVALID, SET_SIZE, OUT_1, OUT16_1, OUT16_AUTO, OUT_AUTO,
         OUT_AUTO_HS, OUT_1_HS, HALT, CONTINUE, EXIT_AUTO, TRIGGER_IRQ, TRIGGER_IRQ16
<1> DEFINE e == Repeating(d, z, y)
<1>2. /\ DspTyped(e) /\ e.started = TRUE /\ e.auto = z /\ e.hs = y /\ e.wide = FALSE
      /\ e.pos = 0 /\ e.cmd = d.cmd /\ e.samples = d.samples
  BY ZenonT(60), RepeatingDsp
<1> HIDE DEF e
<1>3. DspWrite(d, v) = e
  BY <1>1 DEF e
<1> QED BY <1>2, <1>3

\* What ends the repetition ends the block as well.
LEMMA Exits ==
  ASSUME NEW d, DspTyped(d), d.cmd = INVALID, ~d.hs, d.auto
  PROVE  LET e == DspWrite(d, EXIT_AUTO)
         IN  DspTyped(e) /\ Still(e) /\ e.cmd = INVALID
<1> PICK x \in BOOLEAN : x = (d.started /\ ~d.auto)
  OBVIOUS
<1>1. DspWrite(d, EXIT_AUTO) = Left(d, x)
  BY DEF Left, DspWrite, DspCommand, INVALID, SET_SIZE, OUT_1, OUT16_1, OUT16_AUTO, OUT_AUTO,
         OUT_AUTO_HS, OUT_1_HS, HALT, CONTINUE, EXIT_AUTO, TRIGGER_IRQ, TRIGGER_IRQ16
<1> QED BY <1>1, LeftDsp DEF Still

LEMMA Triggers ==
  ASSUME NEW d, DspTyped(d), d.cmd = INVALID, ~d.hs, NEW v \in {TRIGGER_IRQ, TRIGGER_IRQ16}
  PROVE  LET e == DspWrite(d, v)
         IN  DspTyped(e) /\ e.started = d.started /\ e.hs = d.hs /\ e.cmd = INVALID
<1>1. DspWrite(d, v) = Requested8(d) \/ DspWrite(d, v) = Requested16(d)
  BY DEF Requested8, Requested16, DspWrite, DspCommand, INVALID, SET_SIZE, OUT_1, OUT16_1,
         OUT16_AUTO, OUT_AUTO, OUT_AUTO_HS, OUT_1_HS, HALT, CONTINUE, EXIT_AUTO, TRIGGER_IRQ,
         TRIGGER_IRQ16
<1> QED BY <1>1, Requested8Dsp, Requested16Dsp

\* A byte that belongs to a command.
LEMMA Widens ==
  ASSUME NEW d, DspTyped(d), d.cmd \in {OUT16_1, OUT16_AUTO}, ~d.hs, NEW v \in Int
  PROVE  LET e == DspWrite(d, v)
         IN  /\ DspTyped(e) /\ (e.auto <=> d.cmd = OUT16_AUTO) /\ e.cmd = v /\ e.sub = 0
             /\ e.started = d.started /\ ~e.hs
<1> PICK z \in BOOLEAN : z = (d.cmd = OUT16_AUTO)
  OBVIOUS
<1>1. DspWrite(d, v) = Widened(d, z, v)
  BY DEF Widened, DspWrite, DspData, INVALID, OUT16_1, OUT16_AUTO, SET_SIZE, OUT_1, MODE_PCM16
<1> DEFINE e == Widened(d, z, v)
<1>2. /\ DspTyped(e) /\ e.auto = z /\ e.cmd = v /\ e.sub = 0
      /\ e.started = d.started /\ e.hs = d.hs
  BY ONLY DspTyped(d), z \in BOOLEAN, v \in Int, WidenedDsp
<1> HIDE DEF e
<1>3. DspWrite(d, v) = e
  BY <1>1 DEF e
<1> QED BY <1>2, <1>3

LEMMA DataLow ==
  ASSUME NEW d, d.cmd \in {SET_SIZE, OUT_1, MODE_PCM16}, d.sub = 0, NEW v
  PROVE  DspData(d, v) = Complete(TakeSize(d, v))
  BY DEF DspData, SET_SIZE, OUT_1, OUT16_1, OUT16_AUTO, MODE_PCM16

LEMMA DataSize ==
  ASSUME NEW d, d.cmd = SET_SIZE, d.sub # 0, NEW v
  PROVE  DspData(d, v) = Complete(Silent(TakeSize(d, v)))
  BY DEF Silent, DspData, SET_SIZE, OUT_1, OUT16_1, OUT16_AUTO, MODE_PCM16

LEMMA DataSingle ==
  ASSUME NEW d, d.cmd = OUT_1, d.sub # 0, NEW v
  PROVE  DspData(d, v) = Complete(Once(TakeSize(d, v)))
  BY DEF Once, DspData, SET_SIZE, OUT_1, OUT16_1, OUT16_AUTO, MODE_PCM16

LEMMA DataWide ==
  ASSUME NEW d, d.cmd = MODE_PCM16, d.sub # 0, NEW v
  PROVE  DspData(d, v) = Complete(WideOnce(TakeSize(d, v)))
  BY DEF WideOnce, DspData, SET_SIZE, OUT_1, OUT16_1, OUT16_AUTO, MODE_PCM16

\* The two bytes of a size.
LEMMA TakesLow ==
  ASSUME NEW d, DspTyped(d), d.cmd \in {SET_SIZE, OUT_1, MODE_PCM16}, d.sub = 0, ~d.hs,
         NEW v \in 0..Word - 1
  PROVE  LET e == DspWrite(d, v)
         IN  /\ DspTyped(e) /\ e.samples = v /\ e.sub = 1 /\ e.cmd = d.cmd /\ e.auto = d.auto
             /\ e.started = d.started /\ ~e.hs
<1>1. TakeSize(d, v) = Sized(d, v, 1)
  <2>1. d.sub + 1 = 1
    OBVIOUS
  <2> QED BY <2>1 DEF TakeSize, DspTyped, Shape, Fields, Sized
<1>2. DspWrite(d, v) = Complete(Sized(d, v, 1))
  BY <1>1, DataLow DEF DspWrite, INVALID, SET_SIZE, OUT_1, MODE_PCM16
<1>3. 1 \in 0..2 /\ ~(1 >= 2)
  OBVIOUS
<1> QED BY SMTT(30), <1>2, <1>3, SizedDsp DEF Complete

LEMMA TakesHigh ==
  ASSUME NEW d, DspTyped(d), d.cmd \in {SET_SIZE, OUT_1, MODE_PCM16}, d.sub = 1, ~d.hs,
         NEW v, (d.samples % Base) + v * Base \in 0..Word - 1
  PROVE  LET e == DspWrite(d, v)
         IN  /\ DspTyped(e) /\ e.cmd = INVALID /\ ~e.hs
             /\ e.samples = (d.samples % Base) + v * Base
             /\ d.cmd = SET_SIZE => ~e.started
             /\ d.cmd = OUT_1 => e.started /\ ~e.auto /\ ~e.wide /\ e.pos = 0
             /\ d.cmd = MODE_PCM16 => e.started /\ e.auto = d.auto /\ e.wide /\ e.pos = 0
<1> DEFINE w == (d.samples % Base) + v * Base
           t == Sized(d, w, 2)
<1>1. TakeSize(d, v) = t
  <2>1. d.sub + 1 = 2 /\ d.sub # 0
    OBVIOUS
  <2> QED BY <2>1 DEF TakeSize, DspTyped, Shape, Fields, Sized
<1>2. w \in 0..Word - 1 /\ 2 \in 0..2
  OBVIOUS
<1>3. d.sub # 0 /\ DspWrite(d, v) = DspData(d, v)
  BY DEF DspWrite, INVALID, SET_SIZE, OUT_1, MODE_PCM16
<1> HIDE DEF w
<1>4. DspTyped(t) /\ t.sub = 2 /\ t.hs = d.hs /\ t.auto = d.auto /\ t.samples = w
  BY <1>2, SizedDsp
<1> HIDE DEF t
<1>5. ASSUME NEW x, x.sub = 2 PROVE Complete(x) = Closed(x)
  BY <1>5 DEF Complete, Closed
<1>6. SET_SIZE # OUT_1 /\ SET_SIZE # MODE_PCM16 /\ OUT_1 # MODE_PCM16
  BY DEF SET_SIZE, OUT_1, MODE_PCM16
<1> d.sub # 0
  BY <1>3
<1>7. CASE d.cmd = SET_SIZE
  <2> DEFINE u == Silent(t)
             e == Closed(u)
  <2>1. DspTyped(u) /\ u.sub = 2 /\ u.samples = w /\ u.hs = FALSE /\ u.started = FALSE
    BY <1>4, SilentDsp
  <2>2. DspData(d, v) = Complete(u)
    BY ONLY d.sub # 0, <1>1, <1>7, DataSize DEF u
  <2> HIDE DEF u
  <2>3. /\ DspTyped(e) /\ e.cmd = INVALID /\ e.samples = u.samples /\ e.started = u.started
        /\ e.hs = u.hs /\ e.auto = u.auto /\ e.wide = u.wide /\ e.pos = u.pos
    BY <2>1, ClosedDsp
  <2>4. DspWrite(d, v) = e
    BY <1>3, <2>1, <2>2, <1>5
  <2> HIDE DEF e
  <2> QED BY <1>4, <1>6, <1>7, <2>1, <2>3, <2>4 DEF w
<1>8. CASE d.cmd = OUT_1
  <2> DEFINE u == Once(t)
             e == Closed(u)
  <2>1. DspTyped(u) /\ u.sub = 2 /\ u.samples = w /\ u.hs = FALSE
        /\ u.started = TRUE /\ u.auto = FALSE /\ u.wide = FALSE /\ u.pos = 0
    BY <1>4, OnceDsp
  <2>2. DspData(d, v) = Complete(u)
    BY ONLY d.sub # 0, <1>1, <1>8, DataSingle DEF u
  <2> HIDE DEF u
  <2>3. /\ DspTyped(e) /\ e.cmd = INVALID /\ e.samples = u.samples /\ e.started = u.started
        /\ e.hs = u.hs /\ e.auto = u.auto /\ e.wide = u.wide /\ e.pos = u.pos
    BY <2>1, ClosedDsp
  <2>4. DspWrite(d, v) = e
    BY <1>3, <2>1, <2>2, <1>5
  <2> HIDE DEF e
  <2> QED BY <1>4, <1>6, <1>8, <2>1, <2>3, <2>4 DEF w
<1>9. CASE d.cmd = MODE_PCM16
  <2> DEFINE u == WideOnce(t)
             e == Closed(u)
  <2>1. DspTyped(u) /\ u.sub = 2 /\ u.samples = w /\ u.hs = d.hs
        /\ u.started = TRUE /\ u.wide = TRUE /\ u.pos = 0 /\ u.auto = t.auto
    BY <1>4, WideOnceDsp
  <2>2. DspData(d, v) = Complete(u)
    BY ONLY d.sub # 0, <1>1, <1>9, DataWide DEF u
  <2> HIDE DEF u
  <2>3. /\ DspTyped(e) /\ e.cmd = INVALID /\ e.samples = u.samples /\ e.started = u.started
        /\ e.hs = u.hs /\ e.auto = u.auto /\ e.wide = u.wide /\ e.pos = u.pos
    BY <2>1, ClosedDsp
  <2>4. DspWrite(d, v) = e
    BY <1>3, <2>1, <2>2, <1>5
  <2> HIDE DEF e
  <2> QED BY <1>4, <1>6, <1>9, <2>1, <2>3, <2>4 DEF w
<1> QED BY <1>7, <1>8, <1>9

-----------------------------------------------------------------------------
\* The accesses that start a block, and the DSP between them.

SongSet == [kind : Kinds, block : 1..Word, count : 1..Word, loop : BOOLEAN]

StartLen(kind) == IF kind = "single" THEN 3 ELSE 4

\* The k-th byte written to start a block, from 0.
StartByte(s, k) ==
    LET lo == Low(s.block)
        hi == High(s.block)
        at(a, b, c, d) == IF k = 0 THEN a ELSE IF k = 1 THEN b ELSE IF k = 2 THEN c ELSE d
    IN  CASE s.kind = "single" -> at(OUT_1, lo, hi, 0)
          [] s.kind = "single_hs" -> at(SET_SIZE, lo, hi, OUT_1_HS)
          [] s.kind = "auto" -> at(SET_SIZE, lo, hi, OUT_AUTO)
          [] s.kind = "auto_hs" -> at(SET_SIZE, lo, hi, OUT_AUTO_HS)
          [] s.kind = "wide" -> at(OUT16_1, MODE_PCM16, lo, hi)
          [] s.kind = "wide_auto" -> at(OUT16_AUTO, MODE_PCM16, lo, hi)

StartOp(s, next, k) ==
    IF k + 1 = StartLen(s.kind) THEN Start(s, next, StartByte(s, k)) ELSE Dsp(StartByte(s, k))

LEMMA StartShape ==
  ASSUME NEW s \in SongSet, NEW next
  PROVE  /\ StartDsp(s, next) \in Seq({StartOp(s, next, k) : k \in 0..3})
         /\ Len(StartDsp(s, next)) = StartLen(s.kind)
         /\ \A k \in 0..StartLen(s.kind) - 1 : StartDsp(s, next)[k + 1] = StartOp(s, next, k)
<1> DEFINE t == StartDsp(s, next)
           o(k) == StartOp(s, next, k)
<1>1. t = IF s.kind = "single" THEN <<o(0), o(1), o(2)>> ELSE <<o(0), o(1), o(2), o(3)>>
  BY DEF SongSet, Kinds, StartDsp, StartOp, StartByte, StartLen
<1> HIDE DEF t, o
<1>2. CASE s.kind = "single"
  <2>1. t = <<o(0), o(1), o(2)>>
    BY <1>1, <1>2
  <2>2. t \in Seq({o(k) : k \in 0..3}) /\ Len(t) = 3 /\ t[1] = o(0) /\ t[2] = o(1) /\ t[3] = o(2)
    BY <2>1
  <2>3. \A k \in 0..2 : t[k + 1] = o(k)
    BY <2>2
  <2> QED BY <2>2, <2>3, <1>2 DEF t, o, StartLen
<1>3. CASE s.kind # "single"
  <2>1. t = <<o(0), o(1), o(2), o(3)>>
    BY <1>1, <1>3
  <2>2. /\ t \in Seq({o(k) : k \in 0..3}) /\ Len(t) = 4
        /\ t[1] = o(0) /\ t[2] = o(1) /\ t[3] = o(2) /\ t[4] = o(3)
    BY <2>1
  <2>3. \A k \in 0..3 : t[k + 1] = o(k)
    BY <2>2
  <2> QED BY <2>2, <2>3, <1>3 DEF t, o, StartLen
<1> QED BY <1>2, <1>3

FirstByte(kind) ==
    CASE kind = "single" -> OUT_1
      [] kind = "wide" -> OUT16_1
      [] kind = "wide_auto" -> OUT16_AUTO
      [] OTHER -> SET_SIZE

\* The DSP when k of these bytes have been written.
DspAt(d, s, k) ==
    /\ k = 0 => d.cmd = INVALID
    /\ k = 1 => d.cmd = FirstByte(s.kind) /\ d.sub = 0
    /\ k = 2 => IF Wide(s.kind)
                THEN d.cmd = MODE_PCM16 /\ d.sub = 0 /\ (d.auto <=> AutoInit(s.kind))
                ELSE d.cmd = FirstByte(s.kind) /\ d.sub = 1 /\ d.samples = Low(s.block)
    /\ k = 3 => IF Wide(s.kind)
                THEN /\ d.cmd = MODE_PCM16 /\ d.sub = 1 /\ (d.auto <=> AutoInit(s.kind))
                     /\ d.samples = Low(s.block)
                ELSE d.cmd = INVALID /\ d.samples = s.block - 1

\* The DSP when the last one has been.
Begun(d, s) ==
    /\ d.cmd = INVALID /\ d.started /\ d.pos = 0 /\ d.samples = s.block - 1
    /\ (d.wide <=> Wide(s.kind)) /\ (d.auto <=> AutoInit(s.kind)) /\ (d.hs <=> Fast(s.kind))

LEMMA StartStep ==
  ASSUME NEW s \in SongSet, NEW d, DspTyped(d), Still(d),
         NEW k \in 0..StartLen(s.kind) - 1, DspAt(d, s, k)
  PROVE  LET e == DspWrite(d, StartByte(s, k))
         IN  /\ DspTyped(e)
             /\ IF k + 1 = StartLen(s.kind) THEN Begun(e, s)
                ELSE Still(e) /\ DspAt(e, s, k + 1)
<1> DEFINE lo == Low(s.block)
           hi == High(s.block)
<1>1. /\ lo \in 0..Word - 1 /\ hi \in Byte
      /\ (lo % Base) + hi * Base = s.block - 1 /\ s.block - 1 \in 0..Word - 1
  <2>1. s.block \in 1..Word
    BY DEF SongSet
  <2>2. lo \in Byte /\ hi \in Byte /\ hi * Base + lo = s.block - 1
    BY <2>1, Halves
  <2>3. lo % Base = lo /\ hi * Base \in Int
    BY <2>2, TwoBytes DEF Byte
  <2> HIDE DEF lo, hi
  <2> QED BY <2>1, <2>2, <2>3, WordSize DEF Byte
<1>2. s.kind \in Kinds /\ lo = Low(s.block)
  BY DEF SongSet
<1>3. /\ s.kind = "single" =>
           StartByte(s, k) = IF k = 0 THEN OUT_1 ELSE IF k = 1 THEN lo ELSE hi
      /\ s.kind \in {"single_hs", "auto", "auto_hs"} =>
           StartByte(s, k) = IF k = 0 THEN SET_SIZE ELSE IF k = 1 THEN lo
                             ELSE IF k = 2 THEN hi
                             ELSE IF s.kind = "single_hs" THEN OUT_1_HS
                             ELSE IF s.kind = "auto" THEN OUT_AUTO ELSE OUT_AUTO_HS
      /\ Wide(s.kind) =>
           StartByte(s, k) = IF k = 0 THEN FirstByte(s.kind) ELSE IF k = 1 THEN MODE_PCM16
                             ELSE IF k = 2 THEN lo ELSE hi
  BY DEF StartByte, Wide, FirstByte, StartLen
<1> HIDE DEF lo, hi
<1> SUFFICES ASSUME NEW e, NEW v, e = DspWrite(d, v), v = StartByte(s, k)
             PROVE  /\ DspTyped(e)
                    /\ IF k + 1 = StartLen(s.kind) THEN Begun(e, s)
                       ELSE Still(e) /\ DspAt(e, s, k + 1)
  OBVIOUS
<1> USE DEF StartLen, Still, Begun, FirstByte, Wide, AutoInit, Fast
<1>4. CASE k = 0
  <2>1. v \in {SET_SIZE, OUT_1, OUT16_1, OUT16_AUTO} /\ v = FirstByte(s.kind)
    BY <1>2, <1>3, <1>4 DEF Kinds
  <2>2. DspTyped(e) /\ e.cmd = v /\ e.sub = 0 /\ e.started = d.started /\ ~e.hs
    BY <1>4, <2>1, Opens DEF DspAt
  <2> QED BY <1>2, <1>4, <2>1, <2>2 DEF DspAt, Kinds
<1>5. CASE Wide(s.kind) /\ k = 1
  <2>1. /\ v = MODE_PCM16 /\ v \in Int /\ d.cmd \in {OUT16_1, OUT16_AUTO}
        /\ (d.cmd = OUT16_AUTO <=> AutoInit(s.kind))
    BY <1>3, <1>5 DEF DspAt, MODE_PCM16, OUT16_1, OUT16_AUTO
  <2>2. /\ DspTyped(e) /\ (e.auto <=> AutoInit(s.kind)) /\ e.cmd = v /\ e.sub = 0
        /\ e.started = d.started /\ ~e.hs
    <3>1. /\ DspTyped(e) /\ (e.auto <=> d.cmd = OUT16_AUTO) /\ e.cmd = v /\ e.sub = 0
          /\ e.started = d.started /\ ~e.hs
      BY <2>1, Widens
    <3> QED BY <2>1, <3>1
  <2> QED BY <1>5, <2>1, <2>2 DEF DspAt
<1>6. CASE k = IF Wide(s.kind) THEN 2 ELSE 1
  <2>1. /\ v = lo /\ d.sub = 0 /\ d.cmd \in {SET_SIZE, OUT_1, MODE_PCM16}
        /\ d.cmd = (IF Wide(s.kind) THEN MODE_PCM16 ELSE FirstByte(s.kind))
        /\ Wide(s.kind) => (d.auto <=> AutoInit(s.kind))
    BY <1>2, <1>3, <1>6 DEF Kinds, DspAt
  <2>2. /\ DspTyped(e) /\ e.cmd = d.cmd /\ e.sub = 1 /\ e.samples = lo /\ e.auto = d.auto
        /\ Still(e)
    BY <1>1, <2>1, TakesLow
  <2> QED BY <1>2, <1>6, <2>1, <2>2 DEF DspAt, Kinds
<1>7. CASE k = IF Wide(s.kind) THEN 3 ELSE 2
  <2>1. /\ v = hi /\ d.sub = 1 /\ d.samples = lo /\ d.cmd # INVALID
        /\ d.cmd \in {SET_SIZE, OUT_1, MODE_PCM16}
        /\ d.cmd = (IF Wide(s.kind) THEN MODE_PCM16 ELSE FirstByte(s.kind))
        /\ Wide(s.kind) => (d.auto <=> AutoInit(s.kind))
    BY <1>2, <1>3, <1>7 DEF Kinds, DspAt, SET_SIZE, OUT_1, MODE_PCM16, INVALID
  <2>2. (d.samples % Base) + v * Base = s.block - 1
    BY <1>1, <2>1
  <2>3. /\ DspTyped(e) /\ e.cmd = INVALID /\ ~e.hs /\ e.samples = s.block - 1
        /\ d.cmd = SET_SIZE => ~e.started
        /\ d.cmd = OUT_1 => e.started /\ ~e.auto /\ ~e.wide /\ e.pos = 0
        /\ d.cmd = MODE_PCM16 => e.started /\ e.auto = d.auto /\ e.wide /\ e.pos = 0
    BY <1>1, <2>1, <2>2, TakesHigh
  <2>4. e.auto \in BOOLEAN /\ e.wide \in BOOLEAN /\ e.hs \in BOOLEAN
    BY <2>3 DEF DspTyped, Typing
  <2>5. CASE s.kind = "single"
    BY <1>7, <2>1, <2>3, <2>4, <2>5
  <2>6. CASE Wide(s.kind)
    BY <1>7, <2>1, <2>3, <2>4, <2>6
  <2>7. CASE s.kind \in {"single_hs", "auto", "auto_hs"}
    BY <1>7, <2>1, <2>3, <2>4, <2>7 DEF DspAt
  <2> QED BY <1>2, <2>5, <2>6, <2>7 DEF Kinds
<1>8. CASE s.kind \in {"single_hs", "auto", "auto_hs"} /\ k = 3
  <2>1. /\ v = IF s.kind = "single_hs" THEN OUT_1_HS
               ELSE IF s.kind = "auto" THEN OUT_AUTO ELSE OUT_AUTO_HS
        /\ d.cmd = INVALID /\ d.samples = s.block - 1
    BY <1>3, <1>8 DEF DspAt
  <2>2. (v # OUT_1_HS <=> AutoInit(s.kind)) /\ (v # OUT_AUTO <=> Fast(s.kind))
    BY <1>8, <2>1 DEF OUT_1_HS, OUT_AUTO, OUT_AUTO_HS
  <2>3. /\ DspTyped(e) /\ e.started /\ (e.hs <=> v # OUT_AUTO) /\ e.cmd = INVALID
        /\ (e.auto <=> v # OUT_1_HS) /\ ~e.wide /\ e.samples = d.samples /\ e.pos = 0
    BY <2>1, StartsSized
  <2> QED BY <1>8, <2>1, <2>2, <2>3
<1> QED BY <1>2, <1>4, <1>5, <1>6, <1>7, <1>8 DEF Kinds
-----------------------------------------------------------------------------
\* What is left of the accesses that set a channel up and start a block, when k
\* of them have been made.

PlayLen(s) == 6 + StartLen(s.kind)
PlayOp(s, next, k) == IF k < 6 THEN ProgramDma(s)[k + 1] ELSE StartOp(s, next, k - 6)
Yet(s, next, k) == [i \in 1..PlayLen(s) - k |-> PlayOp(s, next, k + i - 1)]

LEMMA TailOf ==
  ASSUME NEW n \in Nat \ {0}, NEW f, f = [i \in 1..n |-> f[i]]
  PROVE  Tail(f) = [i \in 1..n - 1 |-> f[i + 1]] /\ Head(f) = f[1] /\ f # <<>>
<1>1. f \in [1..n -> {f[i] : i \in 1..n}]
  OBVIOUS
<1>2. f \in Seq({f[i] : i \in 1..n}) /\ Len(f) = n
  BY <1>1
<1> QED BY <1>2

\* An access in front of a sequence of others.
LEMMA Behind ==
  ASSUME NEW x, NEW S, NEW q \in Seq(S)
  PROVE  Tail(<<x>> \o q) = q /\ Head(<<x>> \o q) = x /\ <<x>> \o q # <<>>
<1>1. q \in Seq(S \cup {x}) /\ <<x>> \in Seq(S \cup {x})
  OBVIOUS
<1>2. /\ <<x>> \o q \in Seq(S \cup {x}) /\ Len(<<x>> \o q) = 1 + Len(q)
      /\ \A i \in 1..Len(q) : (<<x>> \o q)[i + 1] = q[i]
  BY <1>1
<1>3. (<<x>> \o q)[1] = x
  BY <1>1
<1> QED BY <1>1, <1>2, <1>3

LEMMA PlayLength ==
  ASSUME NEW s \in SongSet
  PROVE  StartLen(s.kind) \in {3, 4} /\ PlayLen(s) \in {9, 10}
  BY DEF PlayLen, StartLen

LEMMA YetStep ==
  ASSUME NEW s \in SongSet, NEW next, NEW k \in 0..PlayLen(s) - 1
  PROVE  LET q == Yet(s, next, k)
         IN  q # <<>> /\ Head(q) = PlayOp(s, next, k) /\ Tail(q) = Yet(s, next, k + 1)
<1> DEFINE n == PlayLen(s) - k
           o(j) == PlayOp(s, next, j)
           q == Yet(s, next, k)
<1>1. n \in Nat \ {0} /\ PlayLen(s) - (k + 1) = n - 1
  BY PlayLength
<1>2. q = [i \in 1..n |-> o(k + i - 1)]
  BY DEF Yet
<1>3. Yet(s, next, k + 1) = [i \in 1..n - 1 |-> o(k + 1 + i - 1)]
  BY <1>1 DEF Yet
<1> HIDE DEF n, o, q
<1>4. q = [i \in 1..n |-> q[i]]
  BY <1>2
<1>5. Tail(q) = [i \in 1..n - 1 |-> q[i + 1]] /\ Head(q) = q[1] /\ q # <<>>
  BY ONLY <1>1, <1>4, TailOf
<1>6. ASSUME NEW i \in 1..n - 1 PROVE q[i + 1] = o(k + 1 + i - 1)
  <2>1. i + 1 \in 1..n /\ k + (i + 1) - 1 = k + 1 + i - 1
    BY <1>1
  <2> QED BY <1>2, <2>1
<1>7. q[1] = o(k)
  <2>1. 1 \in 1..n /\ k + 1 - 1 = k
    BY <1>1
  <2> QED BY <1>2, <2>1
<1>8. Tail(q) = Yet(s, next, k + 1)
  BY ONLY <1>3, <1>5, <1>6
<1> QED BY <1>5, <1>7, <1>8 DEF q, o

LEMMA YetNothing ==
  ASSUME NEW s \in SongSet, NEW next PROVE Yet(s, next, PlayLen(s)) = <<>>
<1>1. PlayLen(s) - PlayLen(s) = 0
  BY PlayLength
<1> QED BY <1>1 DEF Yet

LEMMA YetStart ==
  ASSUME NEW s \in SongSet, NEW next
  PROVE  StartDsp(s, next) = Yet(s, next, 6)
<1> DEFINE n == StartLen(s.kind)
           t == StartDsp(s, next)
           o(k) == StartOp(s, next, k)
           S == {o(k) : k \in 0..3}
<1>1. t \in Seq(S) /\ Len(t) = n /\ \A k \in 0..n - 1 : t[k + 1] = o(k)
  BY StartShape
<1>2. Yet(s, next, 6) = [i \in 1..PlayLen(s) - 6 |-> o(6 + i - 1 - 6)]
  BY PlayLength DEF Yet, PlayOp
<1>3. n \in Nat /\ PlayLen(s) - 6 = n
  BY PlayLength DEF PlayLen
<1> HIDE DEF n, t, o, S
<1>4. t = [i \in 1..n |-> t[i]]
  BY <1>1, <1>3
<1>5. ASSUME NEW i \in 1..n PROVE t[i] = o(6 + i - 1 - 6)
  <2>1. i - 1 \in 0..n - 1 /\ (i - 1) + 1 = i /\ 6 + i - 1 - 6 = i - 1
    BY <1>3
  <2> QED BY <1>1, <2>1
<1> QED BY <1>2, <1>3, <1>4, <1>5 DEF t

LEMMA SetupShape ==
  ASSUME NEW s \in SongSet
  PROVE  LET q == ProgramDma(s) IN q \in Seq({q[i] : i \in 1..6}) /\ Len(q) = 6
  BY DEF ProgramDma

\* Two sequences, one behind the other.
LEMMA Joined ==
  ASSUME NEW S, NEW a \in Seq(S), NEW b \in Seq(S), NEW n \in Nat, Len(b) = n, Len(a) = 6
  PROVE  /\ a \o b \in Seq(S) /\ Len(a \o b) = 6 + n
         /\ \A i \in 1..6 : (a \o b)[i] = a[i]
         /\ \A i \in 7..6 + n : (a \o b)[i] = b[i - 6]
<1> DEFINE c == a \o b
<1>1. /\ c \in Seq(S) /\ Len(c) = Len(a) + Len(b)
      /\ \A i \in 1..Len(a) + Len(b) : c[i] = IF i <= Len(a) THEN a[i] ELSE b[i - Len(a)]
  BY ONLY a \in Seq(S), b \in Seq(S), ConcatProperties
<1> HIDE DEF c
<1>2. /\ c \in Seq(S) /\ Len(c) = 6 + n
      /\ \A i \in 1..6 + n : c[i] = IF i <= 6 THEN a[i] ELSE b[i - 6]
  BY <1>1
<1>3. \A i \in 1..6 : c[i] = a[i]
  BY <1>2
<1>4. \A i \in 7..6 + n : c[i] = b[i - 6]
  BY <1>2
<1> QED BY <1>2, <1>3, <1>4 DEF c

LEMMA YetPlay ==
  ASSUME NEW s \in SongSet PROVE Play(s) = Yet(s, 0, 0)
<1> DEFINE n == StartLen(s.kind)
           m == PlayLen(s)
           a == ProgramDma(s)
           t == StartDsp(s, 0)
           o(k) == StartOp(s, 0, k)
           A == {a[i] : i \in 1..6}
           B == {o(k) : k \in 0..3}
           S == A \cup B
           c == a \o t
           p(k) == PlayOp(s, 0, k)
<1>1. t \in Seq(B) /\ Len(t) = n /\ \A k \in 0..n - 1 : t[k + 1] = o(k)
  BY StartShape
<1>2. a \in Seq(A) /\ Len(a) = 6
  BY SetupShape
<1>3. n \in {3, 4} /\ m = 6 + n
  BY PlayLength DEF PlayLen
<1>4. \A k \in 0..m - 1 : p(k) = IF k < 6 THEN a[k + 1] ELSE o(k - 6)
  BY DEF PlayOp
<1>5. Yet(s, 0, 0) = [i \in 1..m - 0 |-> p(0 + i - 1)]
  BY DEF Yet
<1> HIDE DEF n, m, a, t, o, p, A, B
<1>6. a \in Seq(S) /\ t \in Seq(S)
  BY <1>1, <1>2
<1> HIDE DEF S
<1>7. /\ c \in Seq(S) /\ Len(c) = 6 + n
      /\ \A i \in 1..6 : c[i] = a[i]
      /\ \A i \in 7..6 + n : c[i] = t[i - 6]
  <2>1. Len(t) = n /\ Len(a) = 6 /\ n \in Nat
    BY <1>1, <1>2, <1>3
  <2> QED BY ONLY SMTT(30), <1>6, <2>1, Joined
<1> HIDE DEF c
<1>8. c = [i \in 1..6 + n |-> c[i]]
  BY <1>3, <1>7
<1>9. ASSUME NEW i \in 1..6 + n PROVE c[i] = p(0 + i - 1)
  <2>1. i - 1 \in 0..m - 1 /\ 0 + i - 1 = i - 1 /\ (i - 1) + 1 = i
    BY <1>3
  <2>2. CASE i <= 6
    BY <1>4, <1>7, <2>1, <2>2
  <2>3. CASE i > 6
    <3>1. /\ (i - 1) - 6 \in 0..n - 1 /\ ((i - 1) - 6) + 1 = i - 6 /\ ~(i - 1 < 6)
          /\ i \in 7..6 + n
      BY <1>3, <2>3
    <3> QED BY SMTT(30), <1>1, <1>4, <1>7, <2>1, <3>1
  <2> QED BY <1>3, <2>2, <2>3
<1>10. m - 0 = 6 + n
  BY <1>3
<1>11. c = Yet(s, 0, 0)
  <2>1. Yet(s, 0, 0) = [i \in 1..6 + n |-> p(0 + i - 1)]
    BY ONLY <1>5, <1>10
  <2>2. [i \in 1..6 + n |-> c[i]] = [i \in 1..6 + n |-> p(0 + i - 1)]
    BY ONLY <1>9
  <2> QED BY ONLY <1>8, <2>1, <2>2
<1> QED BY <1>11 DEF Play, c, a, t
-----------------------------------------------------------------------------
\* A DMA channel.  Its register shows the counter except while an update waits
\* for the second byte of a pair.

ChanFields == {"auto", "counter", "cur", "index", "reg", "odd", "inIO", "delay"}
ChanSet == [auto : BOOLEAN, counter : 0..Word, cur : 0..Word, index : Nat, reg : 0..Word - 1,
            odd : BOOLEAN, inIO : BOOLEAN, delay : BOOLEAN]

ChanShape(c) == c = [f \in ChanFields |-> c[f]]
ChanTyping(c) ==
    /\ c.counter \in 0..Word /\ c.cur \in 0..Word /\ c.index \in Nat /\ c.reg \in 0..Word - 1
    /\ c.auto \in BOOLEAN /\ c.odd \in BOOLEAN /\ c.inIO \in BOOLEAN /\ c.delay \in BOOLEAN
ChanShows(c) ==
    /\ c.inIO <=> c.odd
    /\ c.delay => c.odd
    /\ ~c.delay => c.reg = (c.cur - 1) % Word
ChanOK(c) == ChanShape(c) /\ ChanTyping(c) /\ ChanShows(c)

LEMMA ChanTypes == ASSUME NEW c PROVE ChanShape(c) /\ ChanTyping(c) <=> c \in ChanSet
<1>1. ChanShape(c) /\ ChanTyping(c) => c \in ChanSet
  BY DEF ChanShape, ChanTyping, ChanSet, ChanFields
<1>2. c \in ChanSet => ChanShape(c)
  BY DEF ChanShape, ChanSet, ChanFields
<1>3. c \in ChanSet => ChanTyping(c)
  BY DEF ChanTyping, ChanSet
<1> QED BY <1>1, <1>2, <1>3

\* The least number of a word, and the counter behind its greatest.
LEMMA Wraps ==
  /\ \A r \in 0..Word - 1 : (r + 1 - 1) % Word = r
  /\ (0 - 1) % Word = Word - 1
  /\ \A n \in 0..Word : (n - 1) % Word \in 0..Word - 1
<1>1. Word \in Nat \ {0}
  BY WordSize
<1>2. \A r \in 0..Word - 1 : r + 1 - 1 = r
  OBVIOUS
<1>3. 0 - 1 = -1 /\ \A n \in 0..Word : n - 1 \in Int
  OBVIOUS
<1> QED BY <1>1, <1>2, <1>3, Modulo

LEMMA DmaInitChan == ChanOK(DmaInit) /\ ~DmaInit.odd
<1>1. ChanShape(DmaInit)
  BY DEF ChanShape, ChanFields, DmaInit
<1>2. ChanTyping(DmaInit)
  BY WordSize DEF ChanTyping, DmaInit
<1>3. ChanShows(DmaInit) /\ ~DmaInit.odd
  BY Wraps DEF ChanShows, DmaInit
<1> QED BY <1>1, <1>2, <1>3 DEF ChanOK

LEMMA ModeChan ==
  ASSUME NEW c, ChanOK(c), NEW x \in BOOLEAN
  PROVE  LET e == WriteMode(c, x)
         IN  /\ ChanOK(e) /\ e.auto = x /\ e.counter = c.counter /\ e.cur = c.cur
             /\ e.index = c.index /\ e.reg = c.reg /\ e.odd = c.odd /\ e.delay = c.delay
<1> DEFINE e == WriteMode(c, x)
<1>1. ChanShape(e)
  BY DEF ChanOK, ChanShape, ChanFields, WriteMode
<1>2. /\ e.auto = x /\ e.counter = c.counter /\ e.cur = c.cur /\ e.index = c.index
      /\ e.reg = c.reg /\ e.odd = c.odd /\ e.inIO = c.inIO /\ e.delay = c.delay
  BY DEF ChanOK, ChanShape, ChanFields, WriteMode
<1> HIDE DEF e
<1>3. ChanTyping(e) /\ ChanShows(e)
  BY <1>2 DEF ChanOK, ChanTyping, ChanShows
<1> QED BY <1>1, <1>2, <1>3 DEF ChanOK, e

\* The flip-flop is cleared between two pairs.
LEMMA FlipFlopChan ==
  ASSUME NEW c, ChanOK(c), ~c.odd PROVE WriteFlipFlop(c) = c
<1>1. c.odd = FALSE
  BY DEF ChanOK, ChanTyping
<1> QED BY <1>1 DEF ChanOK, ChanShape, ChanFields, WriteFlipFlop

LEMMA AddrChan ==
  ASSUME NEW c, ChanOK(c), ~c.delay
  PROVE  LET e == WriteAddr(c)
         IN  /\ ChanOK(e) /\ e.auto = c.auto /\ e.index = 0 /\ (e.odd <=> ~c.odd) /\ ~e.delay
<1> DEFINE e == WriteAddr(c)
<1>1. ChanShape(e)
  BY DEF ChanOK, ChanShape, ChanFields, WriteAddr, WriteByte
<1>2. /\ e.auto = c.auto /\ e.counter = c.counter /\ e.cur = c.cur /\ e.index = 0
      /\ e.reg = c.reg /\ e.odd = ~c.odd /\ e.inIO = ~c.odd /\ e.delay = (c.delay /\ ~c.odd)
  BY DEF ChanOK, ChanShape, ChanFields, WriteAddr, WriteByte
<1> HIDE DEF e
<1>3. ChanTyping(e) /\ ChanShows(e)
  BY <1>2 DEF ChanOK, ChanTyping, ChanShows
<1> QED BY <1>1, <1>2, <1>3 DEF ChanOK, e

\* Writing a counter: the low byte, then the high byte.
LEMMA CountChan ==
  ASSUME NEW c, ChanOK(c), NEW v \in Byte
  PROVE  LET e == WriteCounter(c, v)
         IN  /\ ChanOK(e) /\ e.auto = c.auto /\ e.index = c.index /\ (e.odd <=> ~c.odd)
             /\ ~c.odd => e.reg % Base = v
             /\ c.odd => LET r == (c.reg % Base) + v * Base
                         IN  e.reg = r /\ e.cur = r + 1 /\ e.counter = r + 1
<1> DEFINE e == WriteCounter(c, v)
           r == IF c.odd THEN (c.reg % Base) + v * Base ELSE (c.reg - (c.reg % Base)) + v
<1>1. ChanShape(e)
  BY DEF ChanOK, ChanShape, ChanFields, WriteCounter, WriteByte
<1>2. /\ e.auto = c.auto /\ e.counter = r + 1 /\ e.cur = r + 1 /\ e.index = c.index
      /\ e.reg = r /\ e.odd = ~c.odd /\ e.inIO = ~c.odd /\ e.delay = (c.delay /\ ~c.odd)
  BY DEF ChanOK, ChanShape, ChanFields, WriteCounter, WriteByte
<1>3. r \in 0..Word - 1 /\ (~c.odd => r % Base = v)
  <2> DEFINE lo == c.reg % Base
             hi == c.reg \div Base
  <2>1. /\ lo \in Byte /\ hi \in Byte /\ c.reg = hi * Base + lo
        /\ c.reg \in 0..Word - 1
    BY WordBytes DEF ChanOK, ChanTyping
  <2>2. r = IF c.odd THEN lo + v * Base ELSE (c.reg - lo) + v
    OBVIOUS
  <2> HIDE DEF lo, hi, r
  <2>3. CASE c.odd
    <3>1. v * Base + lo \in 0..Word - 1
      BY <2>1, TwoBytes
    <3>2. v * Base \in Int /\ lo \in Int
      BY <2>1 DEF Byte
    <3> QED BY <2>2, <2>3, <3>1, <3>2
  <2>4. CASE ~c.odd
    <3>1. hi * Base + v \in 0..Word - 1 /\ (hi * Base + v) % Base = v
      BY <2>1, TwoBytes
    <3>3. hi * Base \in Int
      BY <2>1 DEF Byte
    <3>2. r = hi * Base + v
      BY <2>1, <2>2, <2>4, <3>3 DEF Byte
    <3> QED BY <3>1, <3>2
  <2> QED BY <2>3, <2>4
<1>4. c.odd => r = (c.reg % Base) + v * Base
  OBVIOUS
<1> HIDE DEF e, r
<1>5. (e.cur - 1) % Word = e.reg
  BY <1>2, <1>3, Wraps
<1>6. ChanTyping(e)
  BY <1>2, <1>3, WordSize DEF ChanOK, ChanTyping
<1>7. ChanShows(e)
  BY <1>2, <1>5 DEF ChanOK, ChanTyping, ChanShows
<1>8. ~c.odd => e.reg % Base = v
  BY <1>2, <1>3
<1>9. c.odd => LET s == (c.reg % Base) + v * Base
               IN  e.reg = s /\ e.cur = s + 1 /\ e.counter = s + 1
  BY <1>2, <1>4
<1>10. e.auto = c.auto /\ e.index = c.index /\ (e.odd <=> ~c.odd)
  BY <1>2
<1> QED BY <1>1, <1>6, <1>7, <1>8, <1>9, <1>10 DEF ChanOK, e

\* Reading a counter does not change where the channel is.
LEMMA ReadChan ==
  ASSUME NEW c, ChanOK(c)
  PROVE  LET e == ReadCounter(c)
         IN  /\ ChanOK(e) /\ e.auto = c.auto /\ e.counter = c.counter /\ e.cur = c.cur
             /\ e.index = c.index /\ (e.odd <=> ~c.odd) /\ (~c.odd => e.reg = c.reg)
<1> DEFINE e == ReadCounter(c)
           r == IF c.delay THEN Shown(c) ELSE c.reg
<1>a. c = [f \in ChanFields |-> c[f]] /\ c.odd \in BOOLEAN
  BY DEF ChanOK, ChanShape, ChanTyping
<1>b. ASSUME c.odd
      PROVE  /\ e = [f \in ChanFields |-> e[f]] /\ e.auto = c.auto /\ e.counter = c.counter
             /\ e.cur = c.cur /\ e.index = c.index /\ e.odd = FALSE /\ e.reg = r
             /\ e.inIO = FALSE /\ e.delay = FALSE
  <2> DEFINE a == CatchUp(c)
  <2>1. a = [c EXCEPT !.odd = FALSE, !.reg = r]
    BY DEF CatchUp
  <2> HIDE DEF r, a
  <2>2. /\ a = [f \in ChanFields |-> a[f]] /\ a.auto = c.auto /\ a.counter = c.counter
        /\ a.cur = c.cur /\ a.index = c.index /\ ~a.odd /\ a.reg = r
    BY ONLY <1>a, <2>1 DEF ChanFields
  <2>3. e = [a EXCEPT !.inIO = FALSE, !.delay = FALSE]
    BY <1>b DEF ReadCounter, Release, a
  <2> HIDE DEF e
  <2>4. /\ e = [f \in ChanFields |-> e[f]] /\ e.auto = a.auto /\ e.counter = a.counter
        /\ e.cur = a.cur /\ e.index = a.index /\ e.odd = a.odd /\ e.reg = a.reg
        /\ e.odd = FALSE /\ e.inIO = FALSE /\ e.delay = FALSE
    BY ONLY <2>2, <2>3, <1>a, <2>1 DEF ChanFields
  <2> QED BY ONLY <2>2, <2>4
<1>c. ASSUME ~c.odd
      PROVE  /\ e = [f \in ChanFields |-> e[f]] /\ e.auto = c.auto /\ e.counter = c.counter
             /\ e.cur = c.cur /\ e.index = c.index /\ e.odd = TRUE /\ e.reg = c.reg
             /\ e.inIO = TRUE /\ e.delay = c.delay
  <2>1. e = [c EXCEPT !.odd = TRUE, !.inIO = TRUE]
    BY <1>c DEF ReadCounter
  <2> HIDE DEF e, r
  <2>2. /\ e = [f \in ChanFields |-> e[f]] /\ e.auto = c.auto /\ e.counter = c.counter
        /\ e.cur = c.cur /\ e.index = c.index /\ e.odd = TRUE /\ e.reg = c.reg
        /\ e.inIO = TRUE /\ e.delay = c.delay
    BY ONLY <1>a, <2>1 DEF ChanFields
  <2> QED BY <2>2
<1>1. ChanShape(e)
  BY <1>b, <1>c DEF ChanShape
<1>2. /\ e.auto = c.auto /\ e.counter = c.counter /\ e.cur = c.cur /\ e.index = c.index
      /\ e.odd = ~c.odd /\ e.inIO = ~c.odd /\ e.delay = (c.delay /\ ~c.odd)
      /\ e.reg = IF c.odd /\ c.delay THEN (c.cur - 1) % Word ELSE c.reg
  <2> HIDE DEF e
  <2>1. c.delay \in BOOLEAN
    BY DEF ChanOK, ChanTyping
  <2>2. CASE c.odd
    BY ONLY <2>1, <2>2, <1>a, <1>b DEF Shown
  <2>3. CASE ~c.odd
    BY ONLY <2>1, <2>3, <1>a, <1>c
  <2> QED BY <2>2, <2>3
<1> HIDE DEF e
<1>3. ChanTyping(e) /\ ChanShows(e)
  BY <1>2, Wraps DEF ChanOK, ChanTyping, ChanShows
<1>4. ~c.odd => e.reg = c.reg
  BY <1>2
<1>5. e.odd <=> ~c.odd
  BY <1>2
<1> QED BY <1>1, <1>2, <1>3, <1>4, <1>5 DEF ChanOK, e

\* Bytes to samples and back.
LEMMA Samples ==
  ASSUME NEW b \in {1, 2}, NEW n \in Int
  PROVE  n * b \in Int /\ (n * b) \div b = n /\ (n * b) % b = 0
<1>1. b \in Nat \ {0} /\ n * b \in Int /\ 0 \in 0..b - 1
  OBVIOUS
<1>2. (n * b + 0) % b = 0 /\ (n * b + 0) \div b = n
  BY <1>1, Unique
<1>3. n * b + 0 = n * b
  BY <1>1
<1> QED BY <1>1, <1>2, <1>3

\* The update when n samples have been taken.  When the counter has run out the
\* channel starts again, or goes on behind the buffer.
Taken(c, b, n) == SetIndexCounter(c, b, c.index * b + n * b, c.cur * b - n * b)

LEMMA TakeChan ==
  ASSUME NEW c, ChanOK(c), NEW b \in {1, 2}, NEW n \in Nat
  PROVE  LET e == Taken(c, b, n)
         IN  /\ ChanOK(e) /\ e.auto = c.auto /\ e.counter = c.counter /\ (e.odd <=> c.odd)
             /\ c.odd => e.reg = c.reg
             /\ e.cur = IF n < c.cur THEN c.cur - n ELSE IF c.auto THEN c.counter ELSE Word
             /\ e.index = IF n >= c.cur /\ c.auto THEN 0 ELSE c.index + n
<1> DEFINE x == c.index * b + n * b
           y == c.cur * b - n * b
<1>1. /\ c.index \in Nat /\ c.cur \in 0..Word /\ c.counter \in 0..Word /\ c.auto \in BOOLEAN
      /\ Word \in Nat
  BY WordSize DEF ChanOK, ChanTyping
<1>2. y <= 0 <=> n >= c.cur
  BY <1>1 DEF y
<1>3. x \div b = c.index + n /\ y \div b = c.cur - n
  <2>1. x = (c.index + n) * b /\ y = (c.cur - n) * b /\ c.index + n \in Int /\ c.cur - n \in Int
    BY <1>1 DEF x, y
  <2> QED BY <2>1, Samples
<1> HIDE DEF x, y
<1> DEFINE e == SetIndexCounter(c, b, x, y)
           cur == IF n < c.cur THEN c.cur - n ELSE IF c.auto THEN c.counter ELSE Word
           index == IF n >= c.cur /\ c.auto THEN 0 ELSE c.index + n
           a == Advance(c, b, x, y)
<1>4. cur \in 0..Word /\ index \in Nat
  BY <1>1
<1>5. a = [c EXCEPT !.cur = cur, !.index = index]
  <2>1. (n < c.cur) <=> ~(y <= 0)
    BY <1>1, <1>2
  <2> QED BY <1>2, <1>3, <2>1 DEF Advance
<1> HIDE DEF a, cur, index
<1>6. /\ ChanShape(a) /\ a.auto = c.auto /\ a.counter = c.counter /\ a.cur = cur
      /\ a.index = index /\ a.reg = c.reg /\ a.odd = c.odd /\ a.inIO = c.inIO
      /\ a.delay = c.delay
  BY <1>5 DEF ChanOK, ChanShape, ChanFields
<1>7. CASE c.odd
  <2>1. e = [a EXCEPT !.delay = TRUE]
    BY <1>7 DEF SetIndexCounter, ChanOK, ChanShows, a
  <2>2. /\ ChanShape(e) /\ e.auto = c.auto /\ e.counter = c.counter /\ e.cur = cur
        /\ e.index = index /\ e.reg = c.reg /\ e.odd = c.odd /\ e.inIO = c.inIO
        /\ e.delay = TRUE
    BY <1>6, <2>1 DEF ChanShape, ChanFields
  <2> HIDE DEF e
  <2>3. ChanTyping(e) /\ ChanShows(e)
    BY <1>4, <1>7, <2>2 DEF ChanOK, ChanTyping, ChanShows
  <2> QED BY <2>2, <2>3 DEF ChanOK, e, cur, index, Taken, x, y
<1>8. CASE ~c.odd
  <2>1. e = [a EXCEPT !.reg = (cur - 1) % Word]
    BY <1>6, <1>8 DEF SetIndexCounter, ChanOK, ChanShows, a, Shown
  <2>2. /\ ChanShape(e) /\ e.auto = c.auto /\ e.counter = c.counter /\ e.cur = cur
        /\ e.index = index /\ e.reg = (cur - 1) % Word /\ e.odd = c.odd /\ e.inIO = c.inIO
        /\ e.delay = c.delay
    BY <1>6, <2>1 DEF ChanShape, ChanFields
  <2> HIDE DEF e
  <2>3. ChanTyping(e) /\ ChanShows(e)
    BY <1>4, <2>2, Wraps DEF ChanOK, ChanTyping, ChanShows
  <2> QED BY <1>8, <2>2, <2>3 DEF ChanOK, e, cur, index, Taken, x, y
<1> QED BY <1>7, <1>8
-----------------------------------------------------------------------------
\* What else becomes of a DSP: positions, acknowledges, a reset.

Alike(d, e) ==
    /\ e.cmd = d.cmd /\ e.sub = d.sub /\ e.samples = d.samples /\ e.auto = d.auto
    /\ e.wide = d.wide
AllAlike(d, e) == Alike(d, e) /\ e.started = d.started /\ e.hs = d.hs /\ e.pos = d.pos

LEMMA PosDsp ==
  ASSUME NEW d, DspTyped(d), NEW p \in Nat
  PROVE  LET e == SetPos(d, p)
         IN  DspTyped(e) /\ Alike(d, e) /\ e.started = d.started /\ e.hs = d.hs /\ e.pos = p
<1> DEFINE e == SetPos(d, p)
<1>1. Shape(e)
  BY DEF DspTyped, Shape, Fields, SetPos
<1>2. Typing(e)
  BY DEF DspTyped, Shape, Typing, Fields, SetPos
<1>3. Alike(d, e) /\ e.started = d.started /\ e.hs = d.hs /\ e.pos = p
  BY DEF DspTyped, Shape, Fields, Alike, AllAlike, Still, SetPos
<1> QED BY <1>1, <1>2, <1>3 DEF DspTyped

LEMMA StopDsp ==
  ASSUME NEW d, DspTyped(d)
  PROVE  LET e == Stop(d)
         IN  DspTyped(e) /\ Alike(d, e) /\ Still(e) /\ e.pos = 0
<1> DEFINE e == Stop(d)
<1>1. Shape(e)
  BY DEF DspTyped, Shape, Fields, Stop
<1>2. Typing(e)
  BY DEF DspTyped, Shape, Typing, Fields, Stop
<1>3. Alike(d, e) /\ Still(e) /\ e.pos = 0
  BY DEF DspTyped, Shape, Fields, Alike, AllAlike, Still, Stop
<1> QED BY <1>1, <1>2, <1>3 DEF DspTyped

LEMMA StatusDsp ==
  ASSUME NEW d, DspTyped(d)
  PROVE  LET e == ReadStatus(d)
         IN  DspTyped(e) /\ AllAlike(d, e)
<1> DEFINE e == ReadStatus(d)
<1>1. Shape(e)
  BY DEF DspTyped, Shape, Fields, ReadStatus
<1>2. Typing(e)
  BY DEF DspTyped, Shape, Typing, Fields, ReadStatus
<1>3. AllAlike(d, e)
  BY DEF DspTyped, Shape, Fields, Alike, AllAlike, Still, ReadStatus
<1> QED BY <1>1, <1>2, <1>3 DEF DspTyped

LEMMA Status16Dsp ==
  ASSUME NEW d, DspTyped(d)
  PROVE  LET e == Int16Ack(d)
         IN  DspTyped(e) /\ AllAlike(d, e)
<1> DEFINE e == Int16Ack(d)
<1>1. Shape(e)
  BY DEF DspTyped, Shape, Fields, Int16Ack
<1>2. Typing(e)
  BY DEF DspTyped, Shape, Typing, Fields, Int16Ack
<1>3. AllAlike(d, e)
  BY DEF DspTyped, Shape, Fields, Alike, AllAlike, Still, Int16Ack
<1> QED BY <1>1, <1>2, <1>3 DEF DspTyped

LEMMA AnsweredDsp ==
  ASSUME NEW d, DspTyped(d)
  PROVE  LET e == [d EXCEPT !.trigger = FALSE]
         IN  DspTyped(e) /\ AllAlike(d, e)
<1> DEFINE e == [d EXCEPT !.trigger = FALSE]
<1>1. Shape(e)
  BY DEF DspTyped, Shape, Fields
<1>2. Typing(e)
  BY DEF DspTyped, Shape, Typing, Fields
<1>3. AllAlike(d, e)
  BY DEF DspTyped, Shape, Fields, Alike, AllAlike, Still
<1> QED BY <1>1, <1>2, <1>3 DEF DspTyped

LEMMA DetectDsp ==
  ASSUME NEW d, DspTyped(d), NEW n \in 0..DetectLimit
  PROVE  LET e == [d EXCEPT !.detect = n]
         IN  DspTyped(e) /\ AllAlike(d, e)
<1> DEFINE e == [d EXCEPT !.detect = n]
<1>1. Shape(e)
  BY DEF DspTyped, Shape, Fields
<1>2. Typing(e)
  BY DEF DspTyped, Shape, Typing, Fields
<1>3. AllAlike(d, e)
  BY DEF DspTyped, Shape, Fields, Alike, AllAlike, Still
<1> QED BY <1>1, <1>2, <1>3 DEF DspTyped

LEMMA InitDsp == DspTyped(DspInit) /\ Still(DspInit) /\ DspInit.cmd = INVALID
<1>1. DetectLimit \in Nat
  BY PlayAssumption
<1>2. Shape(DspInit)
  BY DEF Shape, Fields, DspInit
<1>3. Typing(DspInit)
  BY <1>1, WordSize DEF Typing, DspInit, INVALID
<1> QED BY <1>2, <1>3 DEF DspTyped, DspInit, Still

LEMMA ResetDsp ==
  ASSUME NEW d, DspTyped(d), NEW v \in {0, 1}
  PROVE  LET e == DspReset(d, v)
         IN  /\ DspTyped(e)
             /\ v = 1 => Still(e) /\ e.cmd = INVALID
             /\ v = 0 => AllAlike(d, e)
<1> DEFINE e == DspReset(d, v)
<1>1. CASE v = 1
  <2> DEFINE i == DspInit
  <2>1. Shape(i) /\ Typing(i) /\ Still(i) /\ i.cmd = INVALID
    BY InitDsp DEF DspTyped
  <2>2. e = [i EXCEPT !.reset = "start", !.int8 = d.int8, !.int16 = d.int16]
    BY <1>1 DEF DspReset
  <2> HIDE DEF e, i
  <2>3. Shape(e)
    BY <2>1, <2>2 DEF Shape, Fields
  <2>4. Typing(e)
    BY <2>1, <2>2 DEF DspTyped, Shape, Typing, Fields
  <2>5. Still(e) /\ e.cmd = INVALID
    BY <2>1, <2>2 DEF Still, Shape, Fields
  <2> QED BY <1>1, <2>3, <2>4, <2>5 DEF DspTyped, e
<1>2. CASE v = 0
  <2>1. PICK r \in {"start", "poll", "end"} : e = [d EXCEPT !.reset = r]
    BY <1>2 DEF DspReset, DspTyped, Typing
  <2> HIDE DEF e
  <2>2. Shape(e)
    BY <2>1 DEF DspTyped, Shape, Fields
  <2>3. Typing(e)
    BY <2>1 DEF DspTyped, Shape, Typing, Fields
  <2>4. AllAlike(d, e)
    BY <2>1 DEF DspTyped, Shape, Fields, AllAlike, Alike
  <2> QED BY <1>2, <2>2, <2>3, <2>4 DEF DspTyped, e
<1> QED BY <1>1, <1>2
-----------------------------------------------------------------------------
(***************************************************************************)
(* The invariant.  It says what the program may be in the middle of, which *)
(* of the two sides is programming the chips, and how the DSP, the channel *)
(* and the registers of MAIN_Interrupt then agree with the block asked     *)
(* for.                                                                    *)
(***************************************************************************)

\* A block fits its buffer: it is played again and again, or ends before it.
Fits(a) == a.loop \/ (~AutoInit(a.kind) /\ a.block <= a.count)
Behaved == \A s \in Songs : Fits(s)

\* The program never clears the flip-flop between the bytes of a pair, does not
\* continue a single block that has ended, and its handler keeps the width.
Orderly == {"poll_low", "pause_single"} \cap MainUses = {} /\ "widen" \notin HandlerUses

DmaOK(m) == m = [ch \in Channels |-> m[ch]] /\ \A ch \in Channels : ChanOK(m[ch])
Even(m) == \A ch \in Channels : ~m[ch].odd

\* A channel that stands where block a is.
Placed(m, a) ==
    LET c == m[Channel(a.kind)]
        b == Bytes(Channel(a.kind))
    IN  /\ c.auto <=> a.loop
        /\ c.counter * b = a.count
        /\ a.loop => c.cur >= 1 /\ c.index + c.cur = c.counter /\ a.next = c.index * b
        /\ ~a.loop /\ Fits(a) =>
              /\ c.index * b = a.taken /\ a.next = a.taken % a.count
              /\ a.taken < a.count => c.cur = c.counter - c.index

\* The channel when k of the accesses that set it up have been made.
SetupAt(m, s, k) ==
    LET c == m[Channel(s.kind)]
    IN  /\ k >= 1 => (c.auto <=> s.loop)
        /\ k >= 3 => c.index = 0
        /\ k = 3 => ~c.delay
        /\ k = 5 => c.reg % Base = Low(s.count)
        /\ \A ch \in Channels : m[ch].odd <=> k \in {3, 5} /\ ch = Channel(s.kind)

ProgAt(d, m, s, next, k) ==
    IF k < 6 THEN d.cmd = INVALID /\ SetupAt(m, s, k) /\ next = 0
    ELSE Even(m) /\ DspAt(d, s, k - 6) /\ Placed(m, Asked(s, next))

Nexts(s) == 0..s.count * Bytes(Channel(s.kind)) - 1

\* q programs the chips for a block of one of these kinds.
Programs(q, kinds) ==
    \E s \in SongSet : \E next \in Nexts(s) : \E k \in 0..PlayLen(s) - 1 :
        /\ q = Yet(s, next, k)
        /\ s.kind \in kinds /\ (Behaved => Fits(s))
        /\ ProgAt(dsp, dma, s, next, k)

Acks == {<<>>, Ack(TRUE), Ack(FALSE)}
Pause == <<Dsp(HALT), Dsp(CONTINUE)>>
Calm == {"idle", "trigger", "triggered"}
Held == {"triggered", "raised"}
Ends == {StopWith(EXIT_AUTO)} \cup {Ack(w) \o StopWith(EXIT_AUTO) : w \in BOOLEAN}
Repeats == song # None => AutoInit(song.kind)
Slow == song # None => ~Fast(song.kind)

\* The handler acknowledges, and may end the music.
IsrQuiet ==
    /\ irq.at \notin Held => isr = <<>>
    /\ irq.at = "triggered" => isr \in Acks
    /\ irq.at = "raised" =>
          \/ isr \in Acks
          \/ isr \in Ends /\ song # None /\ Repeats /\ Slow /\ main \notin {Pause, Tail(Pause)}

\* Nobody programs a block, and no pair of bytes is open.
Otherwise ==
    /\ dsp.cmd = INVALID /\ Even(dma) /\ ~poll.open /\ IsrQuiet
    /\ \/ main \in {<<>>, Reset}
       \/ /\ main \in {Detect(TRIGGER_IRQ), Detect(TRIGGER_IRQ16), Tail(Detect(TRIGGER_IRQ)),
                       Tail(Reset)}
          /\ song = None /\ irq.at \in Calm
       \/ main = StopWith(HALT) /\ Slow
       \/ main \in {Pause, Tail(Pause)} /\ song # None /\ Repeats /\ Slow
       \/ \E ch \in Channels : main \in {Poll(ch), Tail(Poll(ch))} /\ Repeats

\* The program has read one byte of a counter.
MainPolls ==
    \E ch \in Channels :
        /\ main = <<On("read", ch, 0)>> /\ Repeats /\ IsrQuiet
        /\ dsp.cmd = INVALID /\ \A x \in Channels : dma[x].odd <=> x = ch
        /\ poll.open /\ poll.got = dma[ch].reg % Base /\ dma[ch].reg \in poll.seen

MainPrograms ==
    /\ song = None /\ irq.at \in Calm /\ ~poll.open
    /\ IF irq.at = "triggered" THEN isr \in Acks ELSE isr = <<>>
    /\ Programs(main, Kinds)

\* The handler plays the next single block on the same channel.
IsrPrograms ==
    /\ song = None /\ irq.at = "raised" /\ ~poll.open
    /\ main \in {<<>>, Reset, StopWith(HALT)}
    /\ LET kinds == {k \in Kinds : /\ ~AutoInit(k) /\ Channel(k) = irq.ch
                                   /\ main = StopWith(HALT) => ~Fast(k)}
       IN  \/ Programs(isr, kinds)
           \/ isr # <<>> /\ Head(isr).op \in {"ack8", "ack16"} /\ Programs(Tail(isr), kinds)

Scripts == Otherwise \/ MainPolls \/ MainPrograms \/ IsrPrograms

AskedSet ==
    [kind : Kinds, block : Nat, taken : Nat, count : Nat, loop : BOOLEAN, next : Nat]

\* The DSP and the channel agree with block g, and with where MAIN_Interrupt is.
Plays(d, m, g, at) ==
    LET b == Bytes(Channel(g.kind))
    IN  /\ g \in AskedSet /\ (Behaved => Fits(g)) /\ g.next < g.count
        /\ g.block = (d.samples + 1) * b
        /\ \E n \in 0..g.taken : g.taken = n * b
        /\ (d.wide <=> Wide(g.kind)) /\ (d.auto <=> AutoInit(g.kind)) /\ (d.hs => Fast(g.kind))
        /\ Placed(m, g)
        /\ IF at = "raise"
           THEN g.taken = g.block /\ d.pos = 0 /\ (AutoInit(g.kind) \/ Still(d))
           ELSE g.taken < g.block /\ d.pos = g.taken
        /\ at = "raised" => g.taken = 0

SongOK ==
    IF song = None THEN Still(dsp) /\ irq.at \in Calm \cup {"raised"}
    ELSE Plays(dsp, dma, song, irq.at)

Called == {"play", "raise", "raised"}
PlaySet == [at : Called, samples : Nat, done : Nat, ch : Channels, count : Nat,
            index : Nat, bytes : Nat, pos : Nat]

IrqOK ==
    /\ irq.at \in Calm \cup Called
    /\ irq.at = "idle" => irq = Idle
    /\ irq.at \in {"trigger", "triggered"} =>
          irq \in [at : {"trigger", "triggered"}, samples : Nat]
    /\ irq.at \in Called => irq \in PlaySet /\ (song # None => irq.ch = Channel(song.kind))
    /\ irq.at = "play" =>
          LET b == Bytes(irq.ch)
          IN  /\ dsp.started /\ irq.done < irq.samples
              /\ irq.count = dma[irq.ch].cur * b /\ irq.index = dma[irq.ch].index * b
              /\ irq.bytes = song.block /\ irq.pos = song.taken

PollOK ==
    /\ poll \in [open : BOOLEAN, got : Int, seen : SUBSET Int]
    /\ CountersWhole

IInv ==
    /\ DspTyped(dsp) /\ DmaOK(dma) /\ rang \in BOOLEAN
    /\ SongOK /\ IrqOK /\ PollOK /\ Scripts
-----------------------------------------------------------------------------
\* Programming a channel.

DmaAfter(m, op) ==
    [m EXCEPT ![op.ch] =
        CASE op.op = "mode" -> WriteMode(@, op.v)
          [] op.op = "flipflop" -> WriteFlipFlop(@)
          [] op.op = "addr" -> WriteAddr(@)
          [] op.op = "count" -> WriteCounter(@, op.v)]

LEMMA ChannelOf ==
  ASSUME NEW kind \in Kinds PROVE Channel(kind) \in Channels /\ Bytes(Channel(kind)) \in {1, 2}
  BY DEF Channel, Channels, Bytes

Put(m, ch, e) == [m EXCEPT ![ch] = e]

LEMMA OneChannel ==
  ASSUME NEW m, DmaOK(m), NEW ch \in Channels, NEW e, ChanOK(e)
  PROVE  LET f == Put(m, ch, e)
         IN  DmaOK(f) /\ f[ch] = e /\ \A x \in Channels \ {ch} : f[x] = m[x]
<1> DEFINE f == Put(m, ch, e)
<1>1. m = [x \in Channels |-> m[x]]
  BY DEF DmaOK
<1>2. f = [x \in Channels |-> f[x]]
  BY <1>1 DEF Put
<1>3. f[ch] = e /\ \A x \in Channels \ {ch} : f[x] = m[x]
  BY <1>1 DEF Put
<1> HIDE DEF f
<1>4. \A x \in Channels : ChanOK(f[x])
  BY <1>3 DEF DmaOK
<1> QED BY <1>2, <1>3, <1>4 DEF DmaOK, f

\* The channel is where the block begins once the counter is written.
LEMMA SetUp ==
  ASSUME NEW m, NEW s \in SongSet, NEW c, c = m[Channel(s.kind)],
         c.auto <=> s.loop, c.index = 0, c.cur = s.count, c.counter = s.count
  PROVE  Placed(m, Asked(s, 0))
<1> DEFINE a == Asked(s, 0)
           b == Bytes(Channel(s.kind))
<1>1. /\ s.count \in 1..Word /\ b \in {1, 2} /\ s.loop \in BOOLEAN
  BY ChannelOf DEF SongSet
<1>2. /\ a.kind = s.kind /\ a.taken = 0 /\ a.count = s.count * b /\ a.loop = s.loop
      /\ a.next = 0
  BY DEF Asked
<1> HIDE DEF a, b
<1>3. /\ s.count * b \in Nat \ {0} /\ 0 * b = 0 /\ s.count >= 1 /\ 0 + s.count = s.count
      /\ s.count = s.count - 0
  BY <1>1, WordSize
<1>4. 0 = 0 % (s.count * b)
  <2> DEFINE n == s.count * b
  <2>1. n \in Nat \ {0} /\ 0 \in 0..n - 1
    BY <1>3
  <2> HIDE DEF n
  <2> QED BY <2>1, Modulo DEF n
<1> QED BY <1>2, <1>3, <1>4 DEF Placed, a, b

LEMMA SetupOps ==
  ASSUME NEW s, NEW k \in 0..5
  PROVE  LET op == ProgramDma(s)[k + 1]
         IN  /\ op.ch = Channel(s.kind)
             /\ k = 0 => op.op = "mode" /\ op.v = s.loop
             /\ k = 1 => op.op = "flipflop"
             /\ k \in {2, 3} => op.op = "addr"
             /\ k = 4 => op.op = "count" /\ op.v = Low(s.count)
             /\ k = 5 => op.op = "count" /\ op.v = High(s.count)
<1>1. k = 0 \/ k = 1 \/ k = 2 \/ k = 3 \/ k = 4 \/ k = 5
  OBVIOUS
<1> QED BY <1>1 DEF ProgramDma, On

LEMMA SetupStep ==
  ASSUME NEW m, DmaOK(m), NEW s \in SongSet, NEW k \in 0..5, SetupAt(m, s, k)
  PROVE  LET f == DmaAfter(m, ProgramDma(s)[k + 1])
         IN  /\ DmaOK(f)
             /\ IF k = 5 THEN Even(f) /\ Placed(f, Asked(s, 0)) ELSE SetupAt(f, s, k + 1)
<1> DEFINE ch == Channel(s.kind)
           c == m[ch]
           f == DmaAfter(m, ProgramDma(s)[k + 1])
           lo == Low(s.count)
           hi == High(s.count)
<1>1. /\ ch \in Channels /\ ChanOK(c) /\ s.loop \in BOOLEAN /\ s.count \in 1..Word
      /\ lo \in Byte /\ hi \in Byte /\ hi * Base + lo = s.count - 1
  BY ChannelOf, Halves DEF SongSet, DmaOK
<1>2. m = [x \in Channels |-> m[x]]
  BY DEF DmaOK
<1> DEFINE op == ProgramDma(s)[k + 1]
<1>3. /\ f = DmaAfter(m, op) /\ op.ch = ch
      /\ k = 0 => op.op = "mode" /\ op.v = s.loop
      /\ k = 1 => op.op = "flipflop"
      /\ k \in {2, 3} => op.op = "addr"
      /\ k = 4 => op.op = "count" /\ op.v = lo
      /\ k = 5 => op.op = "count" /\ op.v = hi
  BY SetupOps
<1> DEFINE Does(e) == \/ k = 0 /\ e = WriteMode(c, s.loop)
                      \/ k = 1 /\ e = WriteFlipFlop(c)
                      \/ k \in {2, 3} /\ e = WriteAddr(c)
                      \/ k = 4 /\ e = WriteCounter(c, lo)
                      \/ k = 5 /\ e = WriteCounter(c, hi)
<1> HIDE DEF f, lo, hi, ch, op
<1>12. \E e : f = Put(m, ch, e) /\ Does(e)
  <2>1. CASE k = 0
    <3>1. f = Put(m, ch, WriteMode(c, s.loop))
      BY ONLY <1>3, <2>1 DEF DmaAfter, Put
    <3> QED BY <2>1, <3>1
  <2>2. CASE k = 1
    <3>1. f = Put(m, ch, WriteFlipFlop(c))
      BY ONLY <1>3, <2>2 DEF DmaAfter, Put
    <3> QED BY <2>2, <3>1
  <2>3. CASE k \in {2, 3}
    <3>1. f = Put(m, ch, WriteAddr(c))
      BY ONLY <1>3, <2>3 DEF DmaAfter, Put
    <3> QED BY <2>3, <3>1
  <2>4. CASE k = 4
    <3>1. f = Put(m, ch, WriteCounter(c, lo))
      BY ONLY <1>3, <2>4 DEF DmaAfter, Put
    <3> QED BY <2>4, <3>1
  <2>5. CASE k = 5
    <3>1. f = Put(m, ch, WriteCounter(c, hi))
      BY ONLY <1>3, <2>5 DEF DmaAfter, Put
    <3> QED BY <2>5, <3>1
  <2> HIDE DEF Does
  <2> QED BY <2>1, <2>2, <2>3, <2>4, <2>5
<1> PICK e : f = Put(m, ch, e) /\ Does(e)
  BY <1>12
<1>4. /\ k >= 1 => (c.auto <=> s.loop)
      /\ k >= 3 => c.index = 0
      /\ k = 3 => ~c.delay
      /\ k = 5 => c.reg % Base = lo
      /\ \A x \in Channels : m[x].odd <=> k \in {3, 5} /\ x = ch
  BY DEF SetupAt, ch, lo
<1>5. c.delay => c.odd
  BY <1>1 DEF ChanOK, ChanShows
<1> HIDE DEF c
<1>6. ASSUME ChanOK(e), k < 5,
             k + 1 >= 1 => (e.auto <=> s.loop), k + 1 >= 3 => e.index = 0,
             k + 1 = 3 => ~e.delay, k + 1 = 5 => e.reg % Base = lo,
             e.odd <=> k + 1 \in {3, 5}
      PROVE  DmaOK(f) /\ SetupAt(f, s, k + 1)
  <2>1. DmaOK(f) /\ f[ch] = e /\ \A x \in Channels \ {ch} : f[x] = m[x]
    BY ONLY DmaOK(m), f = Put(m, ch, e), <1>1, <1>6, OneChannel
  <2>2. \A x \in Channels : f[x].odd <=> k + 1 \in {3, 5} /\ x = ch
    BY <1>4, <1>6, <2>1
  <2> QED BY <1>6, <2>1, <2>2 DEF SetupAt, ch, lo
<1>7. CASE k = 0
  <2>1. ChanOK(e) /\ e.auto = s.loop /\ e.odd = c.odd
    BY <1>1, <1>7, ModeChan
  <2> QED BY <1>1, <1>4, <1>6, <1>7, <2>1 DEF c, f
<1>8. CASE k = 1
  <2>1. e = c
    BY <1>1, <1>4, <1>8, FlipFlopChan DEF c
  <2> QED BY <1>1, <1>4, <1>6, <1>8, <2>1 DEF c, f
<1>9. CASE k = 2 \/ k = 3
  <2>1. ChanOK(e) /\ e.auto = c.auto /\ e.index = 0 /\ (e.odd <=> ~c.odd) /\ ~e.delay
    BY <1>1, <1>4, <1>5, <1>9, AddrChan DEF c
  <2>2. c.odd <=> k = 3
    BY <1>1, <1>4, <1>9 DEF c
  <2> QED BY <1>4, <1>6, <1>9, <2>1, <2>2 DEF f
<1>10. CASE k = 4
  <2>1. ~c.odd
    BY <1>1, <1>4, <1>10 DEF c
  <2>2. ChanOK(e) /\ e.auto = c.auto /\ e.index = c.index /\ (e.odd <=> ~c.odd) /\ e.reg % Base = lo
    BY <1>1, <1>10, <2>1, CountChan
  <2> QED BY <1>4, <1>6, <1>10, <2>1, <2>2 DEF f
<1>11. CASE k = 5
  <2>1. c.odd /\ c.index = 0 /\ c.reg % Base = lo
    BY <1>1, <1>4, <1>11 DEF c
  <2>2. /\ ChanOK(e) /\ e.auto = c.auto /\ e.index = c.index /\ (e.odd <=> ~c.odd)
        /\ e.cur = (lo + hi * Base) + 1 /\ e.counter = (lo + hi * Base) + 1
    BY <1>1, <1>11, <2>1, CountChan
  <2>3. (lo + hi * Base) + 1 = s.count
    BY <1>1 DEF Byte
  <2>4. DmaOK(f) /\ f[ch] = e /\ \A x \in Channels \ {ch} : f[x] = m[x]
    BY ONLY DmaOK(m), f = Put(m, ch, e), <1>1, <2>2, OneChannel
  <2>5. Even(f)
    BY <1>4, <1>11, <2>1, <2>2, <2>4 DEF Even
  <2>6. Placed(f, Asked(s, 0))
    <3>1. e = f[Channel(s.kind)]
      BY <2>4 DEF ch
    <3>2. (e.auto <=> s.loop) /\ e.index = 0 /\ e.cur = s.count /\ e.counter = s.count
      BY <1>4, <1>11, <2>1, <2>2, <2>3
    <3> QED BY ONLY s \in SongSet, <3>1, <3>2, SetUp
  <2> QED BY <1>11, <2>4, <2>5, <2>6 DEF f
<1> QED BY <1>7, <1>8, <1>9, <1>10, <1>11
-----------------------------------------------------------------------------
\* One access of a side that programs a block.

DspOps == {"dsp", "start", "stop", "reset", "ack8", "ack16"}
DmaOps == {"mode", "flipflop", "addr", "count"}

LEMMA AccessKind ==
  ASSUME NEW op, Access(op)
  PROVE  /\ op.op \in DspOps => OnDsp(op)
         /\ op.op \in DmaOps => OnDma(op)
         /\ op.op = "read" => OnCounter(op)
         /\ op.op = "wait" => OnFlag(op)
  BY DEF Access, OnDsp, OnDma, OnCounter, OnFlag, DspOps, DmaOps

LEMMA DmaAccess ==
  ASSUME NEW op, Access(op), op.op \in DmaOps
  PROVE  /\ dma' = DmaAfter(dma, op) /\ dsp' = dsp /\ song' = song /\ poll' = poll
         /\ rang' = rang
<1>1. OnDma(op)
  BY AccessKind
<1> QED BY <1>1 DEF OnDma, DmaAfter

LEMMA DspAccess ==
  ASSUME NEW op, Access(op), op.op \in {"dsp", "start", "stop"}
  PROVE  /\ dsp' = DspWrite(dsp, op.v) /\ dma' = dma /\ poll' = poll /\ rang' = rang
         /\ op.op = "dsp" => song' = song
         /\ op.op = "start" => song' = op.asked
         /\ op.op = "stop" => song' = None
<1>1. OnDsp(op)
  BY AccessKind DEF DspOps
<1> QED BY <1>1 DEF OnDsp

LEMMA StartOps ==
  ASSUME NEW s, NEW next, NEW k
  PROVE  LET op == StartOp(s, next, k)
         IN  /\ op.v = StartByte(s, k)
             /\ op.op = IF k + 1 = StartLen(s.kind) THEN "start" ELSE "dsp"
             /\ k + 1 = StartLen(s.kind) => op.asked = Asked(s, next)
  BY DEF StartOp, Start, Dsp

LEMMA ProgramStep ==
  ASSUME DspTyped(dsp), DmaOK(dma), Still(dsp), song = None,
         NEW s \in SongSet, NEW next, NEW k \in 0..PlayLen(s) - 1,
         ProgAt(dsp, dma, s, next, k), Access(PlayOp(s, next, k))
  PROVE  /\ DspTyped(dsp') /\ DmaOK(dma') /\ poll' = poll /\ rang' = rang
         /\ IF k + 1 < PlayLen(s)
            THEN song' = None /\ Still(dsp') /\ ProgAt(dsp', dma', s, next, k + 1)
            ELSE /\ song' = Asked(s, next) /\ Begun(dsp', s)
                 /\ Even(dma') /\ Placed(dma', Asked(s, next))
<1> DEFINE op == PlayOp(s, next, k)
<1>1. PlayLen(s) = 6 + StartLen(s.kind) /\ StartLen(s.kind) \in {3, 4}
  BY PlayLength DEF PlayLen
<1>2. CASE k < 6
  <2>1. k \in 0..5 /\ op = ProgramDma(s)[k + 1] /\ k + 1 < PlayLen(s)
    BY <1>1, <1>2 DEF PlayOp
  <2>2. op.op \in DmaOps
    BY <2>1, SetupOps DEF DmaOps
  <2> HIDE DEF op
  <2>3. /\ dma' = DmaAfter(dma, op) /\ dsp' = dsp /\ song' = None /\ poll' = poll
        /\ rang' = rang
    BY <2>2, DmaAccess DEF op
  <2>4. dsp.cmd = INVALID /\ SetupAt(dma, s, k) /\ next = 0
    BY <1>2 DEF ProgAt
  <2> DEFINE f == DmaAfter(dma, ProgramDma(s)[k + 1])
  <2>5. DmaOK(f) /\ IF k = 5 THEN Even(f) /\ Placed(f, Asked(s, 0)) ELSE SetupAt(f, s, k + 1)
    BY <2>1, <2>4, SetupStep
  <2>6. dma' = f
    BY <2>1, <2>3
  <2> HIDE DEF f
  <2>7. DmaOK(dma') /\ ProgAt(dsp', dma', s, next, k + 1)
    <3>1. CASE k = 5
      BY <2>3, <2>4, <2>5, <2>6, <3>1 DEF ProgAt, DspAt
    <3>2. CASE k # 5
      BY <2>1, <2>3, <2>4, <2>5, <2>6, <3>2 DEF ProgAt
    <3> QED BY <3>1, <3>2
  <2> QED BY <2>1, <2>3, <2>7
<1>3. CASE k >= 6
  <2> DEFINE j == k - 6
             e == DspWrite(dsp, StartByte(s, j))
  <2>1. /\ j \in 0..StartLen(s.kind) - 1 /\ op = StartOp(s, next, j)
        /\ k + 1 < PlayLen(s) <=> j + 1 # StartLen(s.kind)
        /\ (k + 1) - 6 = j + 1 /\ ~(k + 1 < 6)
    BY <1>1, <1>3 DEF PlayOp
  <2>2. Even(dma) /\ DspAt(dsp, s, j) /\ Placed(dma, Asked(s, next))
    BY <1>3 DEF ProgAt
  <2> HIDE DEF op, j
  <2>3. /\ op.v = StartByte(s, j)
        /\ op.op = IF j + 1 = StartLen(s.kind) THEN "start" ELSE "dsp"
        /\ j + 1 = StartLen(s.kind) => op.asked = Asked(s, next)
    BY <2>1, StartOps
  <2>4. /\ dsp' = DspWrite(dsp, op.v) /\ dma' = dma /\ poll' = poll /\ rang' = rang
        /\ song' = IF j + 1 = StartLen(s.kind) THEN Asked(s, next) ELSE None
    BY <2>3, DspAccess DEF op
  <2>5. /\ DspTyped(e)
        /\ IF j + 1 = StartLen(s.kind) THEN Begun(e, s) ELSE Still(e) /\ DspAt(e, s, j + 1)
    BY <2>1, <2>2, StartStep
  <2>6. dsp' = e
    BY <2>3, <2>4
  <2> HIDE DEF e
  <2>7. CASE j + 1 = StartLen(s.kind)
    BY <2>1, <2>2, <2>4, <2>5, <2>6, <2>7
  <2>8. CASE j + 1 # StartLen(s.kind)
    BY <2>1, <2>2, <2>4, <2>5, <2>6, <2>8 DEF ProgAt
  <2> QED BY <2>7, <2>8
<1> QED BY <1>1, <1>2, <1>3

\* A block that has just been asked for, and started.
LEMMA NewPlays ==
  ASSUME NEW d, NEW m, NEW s \in SongSet, NEW next \in Nexts(s), NEW at, at # "raise",
         Behaved => Fits(s), Begun(d, s), Placed(m, Asked(s, next))
  PROVE  Plays(d, m, Asked(s, next), at)
<1> DEFINE b == Bytes(Channel(s.kind))
           g == Asked(s, next)
<1>1. /\ b \in {1, 2} /\ s.block \in 1..Word /\ s.count \in 1..Word /\ s.kind \in Kinds
      /\ s.loop \in BOOLEAN /\ Word \in Nat
  BY ChannelOf, WordSize DEF SongSet
<1>2. /\ g.kind = s.kind /\ g.block = s.block * b /\ g.taken = 0 /\ g.count = s.count * b
      /\ g.loop = s.loop /\ g.next = next
  BY DEF Asked
<1>3. next \in 0..s.count * b - 1
  BY DEF Nexts
<1> HIDE DEF b
<1>4. /\ s.block * b \in Nat \ {0} /\ s.count * b \in Nat \ {0} /\ next \in Nat
      /\ next < s.count * b /\ 0 * b = 0
      /\ s.block <= s.count => s.block * b <= s.count * b
  BY <1>1, <1>3
<1>5. g \in AskedSet
  BY <1>1, <1>4 DEF AskedSet, Asked, b
<1> HIDE DEF g
<1>6. Behaved => Fits(g)
  BY <1>2, <1>4 DEF Fits
<1>7. /\ d.samples = s.block - 1 /\ d.pos = 0 /\ (d.wide <=> Wide(s.kind))
      /\ (d.auto <=> AutoInit(s.kind)) /\ (d.hs <=> Fast(s.kind))
  BY DEF Begun
<1>8. g.block = (d.samples + 1) * b
  <2>1. d.samples + 1 = s.block
    BY <1>1, <1>7
  <2> QED BY <1>2, <2>1
<1>9. \E n \in 0..g.taken : g.taken = n * b
  <2>1. 0 \in 0..g.taken
    BY <1>2
  <2> QED BY <1>2, <1>4, <2>1
<1>10. Placed(m, g)
  BY DEF g
<1>11. Bytes(Channel(g.kind)) = b
  BY <1>2 DEF b
<1> QED BY <1>2, <1>4, <1>5, <1>6, <1>7, <1>8, <1>9, <1>10, <1>11 DEF Plays, g
-----------------------------------------------------------------------------
\* Taking samples.

LEMMA Rest ==
  ASSUME NEW k \in Nat \ {0}, NEW x \in 0..k
  PROVE  x % k = (IF x = k THEN 0 ELSE x) /\ x % k \in Nat /\ x % k < k
<1>1. x \in 0..k - 1 \/ x = k
  OBVIOUS
<1>2. (\A n \in 0..k - 1 : n % k = n) /\ k % k = 0
  BY Modulo
<1> QED BY <1>1, <1>2

\* A counter that starts again: i samples of q are behind it, u before it.
LEMMA Circle ==
  ASSUME NEW b \in {1, 2}, NEW i \in Nat, NEW u \in Nat, NEW q \in Nat, NEW n \in Nat,
         u >= 1, i + u = q, n <= u
  PROVE  /\ q * b \in Nat \ {0} /\ i * b + n * b <= q * b
         /\ (i * b) % (q * b) = i * b
         /\ (i * b + n * b) % (q * b) = IF n < u THEN (i + n) * b ELSE 0
<1> DEFINE k == q * b
           x == i * b
           y == i * b + n * b
<1>1. k \in Nat \ {0} /\ x \in 0..k /\ y \in 0..k /\ x # k
  BY DEF k, x, y
<1>2. (n < u <=> y # k) /\ y = (i + n) * b
  BY DEF k, y
<1> HIDE DEF k, x, y
<1>3. x % k = x /\ y % k = IF y = k THEN 0 ELSE y
  BY <1>1, Rest
<1>4. y <= k /\ k \in Nat \ {0}
  BY <1>1
<1> QED BY <1>2, <1>3, <1>4 DEF k, x, y

\* A counter that runs once.
LEMMA Line ==
  ASSUME NEW b \in {1, 2}, NEW i \in Nat, NEW u \in Nat, NEW q \in Nat, NEW n \in Nat,
         i * b < q * b, u = q - i, n <= u
  PROVE  /\ q * b \in Nat \ {0} /\ i * b + n * b <= q * b
         /\ (i * b) % (q * b) = i * b /\ (i + n) * b = i * b + n * b
         /\ u >= 1 /\ (i * b + n * b < q * b => n < u /\ u - n = q - (i + n))
<1> DEFINE k == q * b
           x == i * b
<1>1. /\ k \in Nat \ {0} /\ x \in 0..k /\ x # k
  BY DEF k, x
<1> HIDE DEF k, x
<1>2. x % k = x /\ k \in Nat \ {0}
  BY <1>1, Rest
<1> HIDE <1>1
<1>3. i * b + n * b <= q * b /\ (i + n) * b = i * b + n * b /\ u >= 1
  OBVIOUS
<1>4. i * b + n * b < q * b => n < u /\ u - n = q - (i + n)
  OBVIOUS
<1> QED BY <1>2, <1>3, <1>4 DEF k, x

\* The block when that many bytes more of it have been taken.
Further(g, bytes) == [g EXCEPT !.taken = @ + bytes, !.next = (@ + bytes) % g.count]

LEMMA TakenPlaced ==
  ASSUME NEW m, NEW g \in AskedSet, Placed(m, g), g.next < g.count, g.taken < g.block,
         NEW b, b = Bytes(Channel(g.kind)), NEW c, c = m[Channel(g.kind)], ChanOK(c),
         NEW n \in Nat \ {0}, n <= c.cur \/ n = 1,
         NEW f, NEW e, e = f[Channel(g.kind)],
         e.auto = c.auto, e.counter = c.counter,
         e.cur = (IF n < c.cur THEN c.cur - n ELSE IF c.auto THEN c.counter ELSE Word),
         e.index = (IF n >= c.cur /\ c.auto THEN 0 ELSE c.index + n),
         NEW h, h = Further(g, n * b)
  PROVE  /\ h \in AskedSet /\ h.kind = g.kind /\ h.block = g.block /\ h.count = g.count
         /\ h.loop = g.loop /\ h.taken = g.taken + n * b /\ h.next < h.count
         /\ Placed(f, h)
         /\ Fits(g) => (c.index * b) % g.count = g.next /\ c.index * b + n * b <= g.count
<1> DEFINE i == c.index
           u == c.cur
           q == c.counter
<1>1. b \in {1, 2} /\ i \in Nat /\ u \in 0..Word /\ q \in 0..Word /\ Word \in Nat
  BY ChannelOf, WordSize DEF ChanOK, ChanTyping, AskedSet
<1>2. /\ c.auto <=> g.loop
      /\ q * b = g.count
      /\ g.loop => u >= 1 /\ i + u = q /\ g.next = i * b
      /\ ~g.loop /\ Fits(g) => /\ i * b = g.taken /\ g.next = g.taken % g.count
                               /\ g.taken < g.count => u = q - i
  BY DEF Placed
<1>3. /\ g.kind \in Kinds /\ g.block \in Nat /\ g.taken \in Nat /\ g.count \in Nat
      /\ g.loop \in BOOLEAN /\ g.next \in Nat
  BY DEF AskedSet
<1>4. g.count \in Nat \ {0} /\ n * b \in Nat \ {0}
  BY <1>1, <1>3
<1> DEFINE next == (g.next + n * b) % g.count
<1>5. next \in 0..g.count - 1
  <2> DEFINE k == g.count
             y == g.next + n * b
  <2>1. k \in Nat \ {0} /\ y \in Int
    BY <1>3, <1>4
  <2> HIDE DEF k, y
  <2>2. y % k \in 0..k - 1
    BY ONLY <2>1, Modulo
  <2> QED BY <2>2 DEF k, y
<1> HIDE DEF next
<1>6. /\ h.kind = g.kind /\ h.block = g.block /\ h.count = g.count /\ h.loop = g.loop
      /\ h.taken = g.taken + n * b /\ h.next = next
  BY DEF AskedSet, next, Further
<1>7. h \in AskedSet
  <2>1. h = [kind |-> g.kind, block |-> g.block, taken |-> g.taken + n * b, count |-> g.count,
             loop |-> g.loop, next |-> next]
    BY DEF AskedSet, next, Further
  <2>2. g.taken + n * b \in Nat /\ next \in Nat
    BY <1>3, <1>4, <1>5
  <2> QED BY <1>3, <2>1, <2>2 DEF AskedSet
<1>8. h.next < h.count
  BY <1>3, <1>5, <1>6
<1> HIDE DEF i, u, q
<1>9. CASE g.loop
  <2>1. n <= u /\ u \in Nat /\ q \in Nat
    BY <1>1, <1>2, <1>9 DEF u
  <2>2. /\ i * b + n * b <= q * b /\ (i * b) % (q * b) = i * b
        /\ (i * b + n * b) % (q * b) = IF n < u THEN (i + n) * b ELSE 0
    BY ONLY SMTT(60), <1>1, <1>2, <1>9, <2>1, Circle
  <2>3. next = IF n < u THEN (i + n) * b ELSE 0
    BY <1>2, <1>9, <2>2 DEF next
  <2>4. /\ e.cur = IF n < u THEN u - n ELSE q
        /\ e.index = IF n < u THEN i + n ELSE 0
    BY <1>1, <1>2, <1>9, <2>1 DEF i, u, q
  <2>5. e.cur >= 1 /\ e.index + e.cur = q /\ next = e.index * b
    <3>1. CASE n < u
      BY <1>1, <1>2, <1>9, <2>1, <2>3, <2>4, <3>1
    <3>2. CASE ~(n < u)
      <4>1. q >= 1 /\ 0 + q = q /\ 0 * b = 0
        BY <1>1, <1>2, <1>9, <2>1
      <4> QED BY <2>3, <2>4, <3>2, <4>1
    <3> QED BY <3>1, <3>2
  <2>6. Placed(f, h)
    BY ZenonT(60), <1>2, <1>6, <1>9, <2>5 DEF Placed, q
  <2>7. (c.index * b) % g.count = g.next /\ c.index * b + n * b <= g.count
    BY <1>2, <1>9, <2>2 DEF i
  <2> QED BY <1>6, <1>7, <1>8, <2>6, <2>7
<1>10. CASE ~g.loop /\ Fits(g)
  <2>1. g.taken < g.count /\ i * b < q * b /\ u = q - i
    BY <1>2, <1>3, <1>10 DEF Fits
  <2>2. n <= u /\ u \in Nat /\ q \in Nat
    BY <1>1, <2>1 DEF u
  <2>3. /\ i * b + n * b <= q * b /\ (i * b) % (q * b) = i * b /\ (i + n) * b = i * b + n * b
        /\ u >= 1 /\ (i * b + n * b < q * b => n < u /\ u - n = q - (i + n))
    BY ONLY <1>1, <2>1, <2>2, Line
  <2>4. e.index = i + n /\ (n < u => e.cur = u - n)
    BY <1>2, <1>10 DEF i, u
  <2>5. /\ e.index * b = h.taken /\ next = h.taken % g.count
        /\ h.taken < g.count => e.cur = q - e.index
    BY <1>2, <1>6, <1>10, <2>3, <2>4 DEF next
  <2>6. Placed(f, h)
    BY <1>2, <1>6, <1>10, <2>5 DEF Placed, q
  <2>7. (c.index * b) % g.count = g.next /\ c.index * b + n * b <= g.count
    BY <1>2, <1>10, <2>3 DEF i
  <2> QED BY <1>6, <1>7, <1>8, <2>6, <2>7
<1>11. CASE ~g.loop /\ ~Fits(g)
  <2>1. ~Fits(h)
    BY <1>6, <1>11 DEF Fits
  <2>2. Placed(f, h)
    BY <1>2, <1>6, <1>11, <2>1 DEF Placed, q
  <2> QED BY <1>6, <1>7, <1>8, <1>11, <2>2
<1> QED BY <1>9, <1>10, <1>11
-----------------------------------------------------------------------------
\* A step that makes no access, while nobody programs a block.
LEMMA ScriptsKept ==
  ASSUME Otherwise \/ MainPolls, main' = main, IsrQuiet',
         dsp'.cmd = dsp.cmd,
         \A ch \in Channels : /\ dma'[ch].odd <=> dma[ch].odd
                              /\ dma[ch].odd => dma'[ch].reg = dma[ch].reg,
         poll'.open = poll.open, poll'.got = poll.got, poll.seen \subseteq poll'.seen,
         song = None /\ irq.at \in Calm => song' = None /\ irq'.at \in Calm,
         main \in {Pause, Tail(Pause)} /\ Repeats /\ song # None => song' # None,
         Repeats => Repeats', Slow => Slow'
  PROVE  (Otherwise \/ MainPolls)'
<1>1. CASE Otherwise
  <2>1. Even(dma')
    BY <1>1 DEF Otherwise, Even
  <2>2. \/ main \in {<<>>, Reset}
        \/ /\ main \in {Detect(TRIGGER_IRQ), Detect(TRIGGER_IRQ16), Tail(Detect(TRIGGER_IRQ)),
                        Tail(Reset)}
           /\ song = None /\ irq.at \in Calm
        \/ main = StopWith(HALT) /\ Slow
        \/ main \in {Pause, Tail(Pause)} /\ song # None /\ Repeats /\ Slow
        \/ \E ch \in Channels : main \in {Poll(ch), Tail(Poll(ch))} /\ Repeats
    BY <1>1 DEF Otherwise
  <2>3. \/ main' \in {<<>>, Reset}
        \/ /\ main' \in {Detect(TRIGGER_IRQ), Detect(TRIGGER_IRQ16), Tail(Detect(TRIGGER_IRQ)),
                         Tail(Reset)}
           /\ song' = None /\ irq'.at \in Calm
        \/ main' = StopWith(HALT) /\ Slow'
        \/ main' \in {Pause, Tail(Pause)} /\ song' # None /\ Repeats' /\ Slow'
        \/ \E ch \in Channels : main' \in {Poll(ch), Tail(Poll(ch))} /\ Repeats'
    BY <2>2
  <2>4. dsp'.cmd = INVALID /\ ~poll'.open /\ IsrQuiet'
    BY <1>1 DEF Otherwise
  <2> QED BY <2>1, <2>3, <2>4 DEF Otherwise
<1>2. CASE MainPolls
  <2>1. PICK ch \in Channels :
          /\ main = <<On("read", ch, 0)>> /\ Repeats
          /\ dsp.cmd = INVALID /\ \A x \in Channels : dma[x].odd <=> x = ch
          /\ poll.open /\ poll.got = dma[ch].reg % Base /\ dma[ch].reg \in poll.seen
    BY <1>2 DEF MainPolls
  <2>2. dma'[ch].reg = dma[ch].reg
    BY <2>1
  <2> QED BY <2>1, <2>2 DEF MainPolls
<1> QED BY <1>1, <1>2

LEMMA NotNone == ASSUME NEW g \in AskedSet PROVE g # None
  BY DEF AskedSet, None, Kinds

LEMMA ClosedPoll ==
  ASSUME Otherwise \/ MainPolls
  PROVE  dsp.cmd = INVALID /\ IsrQuiet /\ (~poll.open => Even(dma))
  BY DEF Otherwise, MainPolls

\* While samples are taken the handler is not about to do anything, and nobody
\* programs a block.
LEMMA PlayScripts ==
  ASSUME IInv, irq.at \in {"play", "raise"}
  PROVE  /\ song # None /\ Plays(dsp, dma, song, irq.at) /\ song \in AskedSet
         /\ irq \in PlaySet /\ irq.ch = Channel(song.kind)
         /\ Otherwise \/ MainPolls
         /\ isr = <<>>
<1>1. song # None /\ Plays(dsp, dma, song, irq.at) /\ song \in AskedSet
  BY DEF IInv, SongOK, Calm, Plays
<1>2. irq \in PlaySet /\ irq.ch = Channel(song.kind)
  BY <1>1 DEF IInv, IrqOK, Called
<1>3. Otherwise \/ MainPolls
  BY <1>1 DEF IInv, Scripts, MainPrograms, IsrPrograms
<1>4. isr = <<>>
  BY <1>3, ClosedPoll DEF IsrQuiet, Held
<1> QED BY <1>1, <1>2, <1>3, <1>4

\* How many samples of block and buffer are taken at once: one at least, no more
\* than the block has left, and no more than the counter says unless it says 0.
LEMMA CountBounds ==
  ASSUME NEW b \in {1, 2}, NEW i \in PlaySet, NEW cur \in Nat, i.count = cur * b,
         NEW size \in Nat, i.bytes = size * b, NEW t \in Nat, i.pos = t * b, t < size,
         i.done < i.samples
  PROVE  LET n == Count(i, b)
         IN  /\ n \in Nat \ {0} /\ (n <= cur \/ n = 1) /\ n <= size - t
             /\ n <= i.samples - i.done
<1>1. i.count \div b = cur /\ (i.bytes - i.pos) \div b = size - t
  <2>1. i.bytes - i.pos = (size - t) * b /\ size - t \in Int
    OBVIOUS
  <2> QED BY <2>1, Samples
<1>2. ~(i.pos > i.bytes)
  OBVIOUS
<1>3. i.samples - i.done \in Nat \ {0} /\ size - t \in Nat \ {0}
  BY DEF PlaySet
<1>4. Count(i, b) = Least(i.samples - i.done, Least(Most(1, cur), Most(1, size - t)))
  BY <1>1, <1>2 DEF Count
<1>5. /\ Most(1, cur) \in Nat \ {0} /\ Most(1, size - t) = size - t
      /\ Most(1, cur) = cur \/ (Most(1, cur) = 1 /\ cur <= 1)
  BY <1>3 DEF Most
<1> DEFINE m == Most(1, cur)
           l == Least(m, size - t)
           r == i.samples - i.done
<1>6. /\ m \in Nat \ {0} /\ size - t \in Nat \ {0} /\ r \in Nat \ {0}
      /\ m = cur \/ (m = 1 /\ cur <= 1)
      /\ Count(i, b) = Least(r, l) /\ l = Least(m, size - t)
  BY <1>3, <1>4, <1>5
<1> HIDE DEF m, l, r
<1>7. l \in Nat \ {0} /\ (l <= cur \/ l = 1) /\ l <= size - t
  BY <1>6 DEF Least
<1>8. /\ Least(r, l) \in Nat \ {0} /\ (Least(r, l) <= cur \/ Least(r, l) = 1)
      /\ Least(r, l) <= size - t /\ Least(r, l) <= r
  BY <1>6, <1>7 DEF Least
<1> QED BY <1>6, <1>8 DEF r
-----------------------------------------------------------------------------
\* TakeSamples.

Took(i, n, x, y, p) == [i EXCEPT !.done = @ + n, !.count = x, !.index = y, !.pos = p]
AtEnd(i) == [i EXCEPT !.at = "raise", !.pos = 0]

PlayFields == {"at", "samples", "done", "ch", "count", "index", "bytes", "pos"}
PlayShape(i) == i = [f \in PlayFields |-> i[f]]

LEMMA TookShape ==
  ASSUME NEW i \in PlaySet, NEW n \in Nat, NEW x \in Nat, NEW y \in Nat, NEW p \in Nat
  PROVE  LET e == Took(i, n, x, y, p)
         IN  /\ e \in PlaySet /\ e.at = i.at /\ e.samples = i.samples /\ e.done = i.done + n
             /\ e.ch = i.ch /\ e.count = x /\ e.index = y /\ e.bytes = i.bytes /\ e.pos = p
<1> DEFINE e == Took(i, n, x, y, p)
<1>1. PlayShape(i)
  BY DEF PlaySet, PlayShape, PlayFields
<1>2. PlayShape(e)
  BY <1>1 DEF PlayShape, PlayFields, Took
<1>3. /\ e.at = i.at /\ e.samples = i.samples /\ e.done = i.done + n /\ e.ch = i.ch
      /\ e.count = x /\ e.index = y /\ e.bytes = i.bytes /\ e.pos = p
  BY <1>1 DEF PlayShape, PlayFields, Took
<1>4. /\ i.at \in Called /\ i.samples \in Nat /\ i.done + n \in Nat /\ i.ch \in Channels
      /\ i.bytes \in Nat
  BY DEF PlaySet
<1> HIDE DEF e
<1>5. e \in PlaySet
  BY <1>2, <1>3, <1>4 DEF PlayShape, PlayFields, PlaySet
<1> QED BY <1>3, <1>5 DEF e

LEMMA AtEndShape ==
  ASSUME NEW i \in PlaySet
  PROVE  LET e == AtEnd(i)
         IN  e \in PlaySet /\ e.at = "raise" /\ e.ch = i.ch /\ e.pos = 0
  BY DEF AtEnd, PlaySet, Called

\* The position after samples are taken; at the end of the block a DSP that does
\* not repeat it stops.
Moved(d, pos, over) ==
    IF ~over THEN SetPos(d, pos)
    ELSE LET e == SetPos(d, pos) IN SetPos(IF e.auto THEN e ELSE Stop(e), 0)

LEMMA MovedDsp ==
  ASSUME NEW d, DspTyped(d), NEW pos \in Nat, NEW over \in BOOLEAN
  PROVE  LET e == Moved(d, pos, over)
         IN  /\ DspTyped(e) /\ Alike(d, e) /\ (d.hs => e.hs \/ Still(e)) /\ (e.hs => d.hs)
             /\ ~over => e.started = d.started /\ e.pos = pos
             /\ over => e.pos = 0 /\ (d.auto \/ Still(e))
<1> DEFINE f == SetPos(d, pos)
           g == IF f.auto THEN f ELSE Stop(f)
           h == SetPos(g, 0)
           e == Moved(d, pos, over)
<1>1. DspTyped(f) /\ Alike(d, f) /\ f.started = d.started /\ f.hs = d.hs /\ f.pos = pos
  BY PosDsp
<1>2. e = IF over THEN h ELSE f
  BY DEF Moved
<1>3. g = f \/ (~f.auto /\ g = Stop(f))
  OBVIOUS
<1> HIDE DEF f
<1>4. DspTyped(g) /\ Alike(f, g) /\ (g.hs => f.hs) /\ (f.auto \/ Still(g)) /\ (f.hs => g.hs \/ Still(g))
  <2>1. DspTyped(Stop(f)) /\ Alike(f, Stop(f)) /\ Still(Stop(f))
    BY ONLY <1>1, StopDsp
  <2>2. CASE f.auto
    BY <1>1, <2>2 DEF Alike
  <2>3. CASE ~f.auto
    BY <2>1, <2>3 DEF Still
  <2> QED BY <2>2, <2>3
<1> HIDE DEF g
<1>5. DspTyped(h) /\ Alike(g, h) /\ h.started = g.started /\ h.hs = g.hs /\ h.pos = 0
  BY ONLY <1>4, PosDsp
<1> HIDE DEF h, e
<1>6. CASE over
  <2>1. Alike(d, h) /\ (Still(h) <=> Still(g)) /\ f.auto = d.auto
    BY <1>1, <1>4, <1>5 DEF Alike, Still
  <2> QED BY <1>1, <1>2, <1>4, <1>5, <1>6, <2>1 DEF e
<1>7. CASE ~over
  BY <1>1, <1>2, <1>7 DEF e
<1> QED BY <1>6, <1>7

LEMMA TakeInv ==
  ASSUME IInv, TakeSamples
  PROVE  /\ IInv'
         /\ Behaved => /\ irq.index % song.count = song.next
                       /\ irq.index + (song'.taken - song.taken) <= song.count
<1> DEFINE ch == irq.ch
           b == Bytes(ch)
           c == dma[ch]
           n == Count(irq, b)
           pos == irq.pos + n * b
           over == pos >= irq.bytes
           e == Taken(c, b, n)
           i == Took(irq, n, dma'[ch].cur * b, dma'[ch].index * b, pos)
           size == dsp.samples + 1
<1>1. /\ irq.at = "play" /\ song # None /\ Plays(dsp, dma, song, "play") /\ song \in AskedSet
      /\ irq \in PlaySet /\ ch = Channel(song.kind)
      /\ Otherwise \/ MainPolls
      /\ isr = <<>>
  BY PlayScripts DEF TakeSamples
<1>2. /\ DspTyped(dsp) /\ DmaOK(dma) /\ rang \in BOOLEAN /\ PollOK
      /\ dsp.started /\ irq.done < irq.samples
      /\ irq.count = c.cur * b /\ irq.index = c.index * b
      /\ irq.bytes = song.block /\ irq.pos = song.taken
  BY <1>1 DEF IInv, IrqOK
<1>3. /\ Behaved => Fits(song)
      /\ song.next < song.count /\ song.block = size * b
      /\ (dsp.wide <=> Wide(song.kind)) /\ (dsp.auto <=> AutoInit(song.kind))
      /\ (dsp.hs => Fast(song.kind)) /\ Placed(dma, song)
      /\ song.taken < song.block
  BY <1>1 DEF Plays
<1>4. PICK t \in 0..song.taken : song.taken = t * b
  BY <1>1 DEF Plays
<1>5. /\ b \in {1, 2} /\ ch \in Channels /\ ChanOK(c) /\ size \in Nat /\ song.taken \in Nat
      /\ c.cur \in Nat /\ c.index \in Nat /\ t \in Nat
  <2>1. ch \in Channels
    BY <1>1 DEF PlaySet
  <2>2. ChanOK(c)
    BY <1>2, <2>1 DEF DmaOK
  <2>3. c.cur \in Nat /\ c.index \in Nat
    BY <2>2, WordSize DEF ChanOK, ChanTyping
  <2>4. size \in Nat
    BY SMTT(30), <1>2, WordSize DEF DspTyped, Typing
  <2> QED BY <1>1, <2>1, <2>2, <2>3, <2>4 DEF AskedSet, Bytes
<1>6. /\ dma' = Put(dma, ch, e)
      /\ dsp' = Moved(dsp, pos, over)
      /\ irq' = IF over THEN AtEnd(i) ELSE IF Again(i, ch) THEN i ELSE Idle
      /\ song' = Further(song, n * b)
      /\ poll' = IF poll.open THEN [poll EXCEPT !.seen = @ \cup {Shown(dma'[ch])}] ELSE poll
      /\ UNCHANGED <<main, isr, rang>>
  <2>1. irq' = IF over THEN AtEnd(i) ELSE IF Again(i, ch) THEN i ELSE Idle
    <3>1. AtEnd(i) = [i EXCEPT !.at = "raise", !.pos = 0]
      BY DEF AtEnd
    <3>2. i = [irq EXCEPT !.done = @ + n, !.count = GetCounter(dma'[ch], b),
                          !.index = GetIndex(dma'[ch], b), !.pos = pos]
      BY DEF Took, GetCounter, GetIndex
    <3> HIDE DEF i
    <3> QED BY <3>1, <3>2 DEF TakeSamples
  <2>2. dsp' = Moved(dsp, pos, over)
    BY DEF TakeSamples, Moved
  <2>3. dma' = Put(dma, ch, e)
    <3>1. e = SetIndexCounter(c, b, irq.index + n * b, irq.count - n * b)
      BY <1>2 DEF Taken
    <3> HIDE DEF e
    <3> QED BY <3>1 DEF TakeSamples, Put
  <2>4. song' = Further(song, n * b)
    BY <1>1 DEF TakeSamples, Further
  <2>5. /\ poll' = IF poll.open THEN [poll EXCEPT !.seen = @ \cup {Shown(dma'[ch])}] ELSE poll
        /\ UNCHANGED <<main, isr, rang>>
    BY DEF TakeSamples
  <2> HIDE DEF i, e, over, pos, n
  <2> QED BY <2>1, <2>2, <2>3, <2>4, <2>5
<1> HIDE DEF ch, b, c
<1>7. /\ n \in Nat \ {0} /\ (n <= c.cur \/ n = 1) /\ n <= size - t
      /\ n <= irq.samples - irq.done
  <2>1. irq.bytes = size * b /\ irq.pos = t * b /\ t < size
    BY <1>2, <1>3, <1>4, <1>5
  <2> HIDE DEF size
  <2> QED BY ONLY <1>1, <1>2, <1>5, <2>1, CountBounds
<1> HIDE DEF n, size
<1>8. /\ n * b \in Nat \ {0} /\ pos = song.taken + n * b /\ pos \in Nat
      /\ song.taken + n * b = (t + n) * b /\ pos <= song.block
      /\ over \in BOOLEAN /\ (over <=> pos = song.block) /\ t + n \in 0..pos
  BY <1>2, <1>3, <1>4, <1>5, <1>7
<1>9. /\ ChanOK(e) /\ e.auto = c.auto /\ e.counter = c.counter /\ (e.odd <=> c.odd)
      /\ c.odd => e.reg = c.reg
      /\ e.cur = IF n < c.cur THEN c.cur - n ELSE IF c.auto THEN c.counter ELSE Word
      /\ e.index = IF n >= c.cur /\ c.auto THEN 0 ELSE c.index + n
  <2>1. n \in Nat /\ ChanOK(c) /\ b \in {1, 2}
    BY <1>5, <1>7
  <2> QED BY ONLY <2>1, TakeChan DEF e
<1> HIDE DEF e
<1>10. DmaOK(dma') /\ dma'[ch] = e /\ \A z \in Channels \ {ch} : dma'[z] = dma[z]
  BY ONLY <1>2, <1>5, <1>6, <1>9, OneChannel
<1>11. /\ song' \in AskedSet /\ song'.kind = song.kind /\ song'.block = song.block
       /\ song'.count = song.count /\ song'.loop = song.loop
       /\ song'.taken = song.taken + n * b /\ song'.next < song'.count
       /\ Placed(dma', song')
       /\ Fits(song) => (c.index * b) % song.count = song.next /\ c.index * b + n * b <= song.count
  <2>1. /\ b = Bytes(Channel(song.kind)) /\ c = dma[Channel(song.kind)]
        /\ e = dma'[Channel(song.kind)]
    BY <1>1, <1>10 DEF b, c
  <2>2. Placed(dma, song) /\ song.next < song.count /\ song.taken < song.block /\ n \in Nat \ {0}
        /\ (n <= c.cur \/ n = 1)
    BY <1>3, <1>7
  <2>3. /\ e.auto = c.auto /\ e.counter = c.counter
        /\ e.cur = (IF n < c.cur THEN c.cur - n ELSE IF c.auto THEN c.counter ELSE Word)
        /\ e.index = (IF n >= c.cur /\ c.auto THEN 0 ELSE c.index + n)
    BY <1>9
  <2>4. song \in AskedSet /\ ChanOK(c) /\ song' = Further(song, n * b)
    BY <1>1, <1>5, <1>6
  <2> QED BY ONLY <2>1, <2>2, <2>3, <2>4, TakenPlaced
<1>12. song' # None
  BY <1>11, NotNone
<1>13. /\ DspTyped(dsp') /\ Alike(dsp, dsp') /\ (dsp'.hs => dsp.hs)
       /\ ~over => dsp'.started = dsp.started /\ dsp'.pos = pos
       /\ over => dsp'.pos = 0 /\ (dsp.auto \/ Still(dsp'))
  <2> HIDE DEF over, pos
  <2>1. DspTyped(dsp) /\ pos \in Nat /\ over \in BOOLEAN /\ dsp' = Moved(dsp, pos, over)
    BY <1>2, <1>6, <1>8
  <2> QED BY ONLY <2>1, MovedDsp
<1> HIDE DEF over, pos
<1>14. /\ i \in PlaySet /\ i.at = "play" /\ i.samples = irq.samples /\ i.ch = ch
       /\ i.count = dma'[ch].cur * b /\ i.index = dma'[ch].index * b /\ i.bytes = irq.bytes
       /\ i.pos = pos
  <2>1. dma'[ch].cur * b \in Nat /\ dma'[ch].index * b \in Nat
    <3>1. e.cur \in Nat /\ e.index \in Nat
      BY <1>9, WordSize DEF ChanOK, ChanTyping
    <3> QED BY <1>5, <1>10, <3>1
  <2>2. n \in Nat /\ pos \in Nat /\ irq \in PlaySet
    BY <1>1, <1>7, <1>8
  <2>3. irq.at = "play" /\ irq.ch = ch
    BY <1>1 DEF ch
  <2> HIDE DEF i
  <2> DEFINE cnt == dma'[ch].cur * b
             idx == dma'[ch].index * b
  <2>4. cnt \in Nat /\ idx \in Nat
    BY <2>1
  <2>5. i = Took(irq, n, cnt, idx, pos)
    BY DEF i
  <2> HIDE DEF cnt, idx, pos
  <2> DEFINE j == Took(irq, n, cnt, idx, pos)
  <2>6. /\ j \in PlaySet /\ j.at = irq.at /\ j.samples = irq.samples /\ j.ch = irq.ch
        /\ j.count = cnt /\ j.index = idx /\ j.bytes = irq.bytes /\ j.pos = pos
    BY ONLY <2>2, <2>4, TookShape
  <2>7. i = j
    BY <2>5
  <2> HIDE DEF j
  <2> QED BY <2>6, <2>7, <2>3 DEF cnt, idx
<1> HIDE DEF i
<1>15. /\ over => irq'.at = "raise" /\ irq' \in PlaySet /\ irq'.ch = ch
       /\ ~over => irq' = Idle \/ (irq' = i /\ i.done < i.samples /\ dsp'.started)
  BY <1>6, <1>14, AtEndShape DEF Again
<1>16. SongOK'
  <2>1. Plays(dsp', dma', song', irq'.at)
    <3>1. /\ Behaved => Fits(song')
          /\ song'.block = (dsp'.samples + 1) * Bytes(Channel(song'.kind))
          /\ \E m \in 0..song'.taken : song'.taken = m * Bytes(Channel(song'.kind))
      <4>1. Bytes(Channel(song'.kind)) = b
        BY <1>1, <1>11 DEF b
      <4>2. dsp'.samples = dsp.samples
        BY <1>13 DEF Alike
      <4>3. \E m \in 0..song'.taken : song'.taken = m * b
        BY <1>8, <1>11
      <4> QED BY <1>3, <1>11, <4>1, <4>2, <4>3 DEF Fits, size
    <3>2. /\ (dsp'.wide <=> Wide(song'.kind)) /\ (dsp'.auto <=> AutoInit(song'.kind))
          /\ (dsp'.hs => Fast(song'.kind))
      BY <1>3, <1>11, <1>13 DEF Alike
    <3>3. CASE over
      <4>1. song'.taken = song'.block /\ dsp'.pos = 0 /\ (AutoInit(song'.kind) \/ Still(dsp'))
        BY <1>3, <1>8, <1>11, <1>13, <3>3
      <4> QED BY <1>11, <1>15, <3>1, <3>2, <3>3, <4>1 DEF Plays
    <3>4. CASE ~over
      <4>1. song'.taken < song'.block /\ dsp'.pos = song'.taken
        BY <1>1, <1>8, <1>11, <1>13, <3>4 DEF AskedSet
      <4>2. irq'.at \in {"idle", "play"}
        BY <1>14, <1>15, <3>4 DEF Idle
      <4> QED BY <1>11, <3>1, <3>2, <4>1, <4>2 DEF Plays
    <3> QED BY <3>3, <3>4
  <2> QED BY <1>12, <2>1 DEF SongOK
<1>17. IrqOK'
  <2>1. CASE over
    BY <1>1, <1>11, <1>15, <2>1 DEF IrqOK, Calm, Called
  <2>2. CASE ~over /\ irq' = Idle
    BY <2>2 DEF IrqOK, Calm, Called, Idle
  <2>3. CASE ~over /\ irq' = i /\ i.done < i.samples /\ dsp'.started
    <3>1. irq'.bytes = song'.block /\ irq'.pos = song'.taken
      BY <1>2, <1>8, <1>11, <1>14, <2>3
    <3>2. irq'.ch = Channel(song'.kind) /\ Bytes(irq'.ch) = b /\ irq'.ch = ch
      BY <1>1, <1>11, <1>14, <2>3 DEF b
    <3> QED BY <1>14, <2>3, <3>1, <3>2 DEF IrqOK, Calm, Called
  <2> QED BY <1>15, <2>1, <2>2, <2>3
<1>18. PollOK' /\ poll'.open = poll.open /\ poll'.got = poll.got /\ poll.seen \subseteq poll'.seen
  <2>1. Shown(dma'[ch]) \in Int
    BY <1>9, <1>10, WordSize DEF Shown, ChanOK, ChanTyping
  <2> DEFINE now == Shown(dma'[ch])
  <2>2. poll' = IF poll.open THEN [poll EXCEPT !.seen = @ \cup {now}] ELSE poll
    BY <1>6
  <2> HIDE DEF now
  <2>3. CASE poll.open
    BY <1>2, <2>1, <2>2, <2>3 DEF PollOK, CountersWhole, now
  <2>4. CASE ~poll.open
    BY <1>2, <2>2, <2>4 DEF PollOK, CountersWhole
  <2> QED BY <2>3, <2>4
<1>19. Scripts'
  <2>1. dsp'.cmd = dsp.cmd
    BY <1>13 DEF Alike
  <2>2. \A z \in Channels : /\ dma'[z].odd <=> dma[z].odd
                            /\ dma[z].odd => dma'[z].reg = dma[z].reg
    BY <1>9, <1>10 DEF c
  <2>3. (Repeats => Repeats') /\ (Slow => Slow')
    BY <1>1, <1>11 DEF Repeats, Slow
  <2>4. IsrQuiet'
    <3>1. irq'.at \notin Held
      BY <1>14, <1>15 DEF Held, Idle
    <3>2. isr' = <<>>
      BY <1>1, <1>6
    <3> QED BY <3>1, <3>2 DEF IsrQuiet, Held
  <2>5. main' = main
    BY <1>6
  <2>6. (Otherwise \/ MainPolls)'
    BY ONLY <1>1, <1>12, <1>18, <2>1, <2>2, <2>3, <2>4, <2>5, ScriptsKept
  <2> QED BY <2>6 DEF Scripts
<1>20. rang' \in BOOLEAN
  BY <1>2, <1>6
<1>21. IInv'
  BY <1>10, <1>13, <1>16, <1>17, <1>18, <1>19, <1>20 DEF IInv
<1>22. ASSUME Behaved
       PROVE  /\ irq.index % song.count = song.next
              /\ irq.index + (song'.taken - song.taken) <= song.count
  <2>1. song'.taken - song.taken = n * b
    BY <1>5, <1>8, <1>11
  <2> QED BY <1>2, <1>3, <1>11, <1>22, <2>1
<1> QED BY <1>21, <1>22
-----------------------------------------------------------------------------
\* MainDecides.

LEMMA SongsAre ==
  ASSUME NEW s \in Songs PROVE s \in SongSet /\ s.kind \in Kinds /\ (Behaved => Fits(s))
  BY PlayAssumption DEF SongSet, Behaved

LEMMA YetSome ==
  ASSUME NEW s \in SongSet, NEW next, NEW k \in 0..PlayLen(s) - 1 PROVE Yet(s, next, k) # <<>>
  BY YetStep

LEMMA ProgramsSome == ASSUME NEW q, NEW kinds, Programs(q, kinds) PROVE q # <<>>
  BY YetSome DEF Programs

LEMMA YetSeq ==
  ASSUME NEW s \in SongSet, NEW next, NEW k \in 0..PlayLen(s)
  PROVE  \E S : Yet(s, next, k) \in Seq(S)
<1> DEFINE n == PlayLen(s) - k
           S == {PlayOp(s, next, k + i - 1) : i \in 1..n}
<1>1. n \in Nat
  BY PlayLength
<1>2. Yet(s, next, k) \in [1..n -> S]
  BY DEF Yet
<1> HIDE DEF n, S
<1>3. Yet(s, next, k) \in Seq(S)
  BY <1>1, <1>2
<1> QED BY <1>3

\* Programming that begins at the channel.
LEMMA AtFirst ==
  ASSUME NEW d, d.cmd = INVALID, NEW m, Even(m), NEW s \in SongSet
  PROVE  /\ 0 \in Nexts(s) /\ 0 \in 0..PlayLen(s) - 1 /\ ProgAt(d, m, s, 0, 0)
<1>1. s.count * Bytes(Channel(s.kind)) \in Nat \ {0}
  <2>1. s.count \in Nat \ {0} /\ Bytes(Channel(s.kind)) \in {1, 2}
    BY ChannelOf, WordSize DEF SongSet
  <2> QED BY <2>1
<1>2. SetupAt(m, s, 0)
  BY DEF SetupAt, Even
<1> QED BY <1>1, <1>2, PlayLength DEF Nexts, ProgAt

LEMMA Free ==
  ASSUME IInv, irq = Idle, main = <<>> PROVE Otherwise /\ isr = <<>>
<1>1. irq.at = "idle"
  BY DEF Idle
<1>2. ~MainPolls
  BY DEF MainPolls
<1>3. ~MainPrograms
  BY ProgramsSome DEF MainPrograms
<1>4. ~IsrPrograms
  BY <1>1 DEF IsrPrograms
<1> QED BY <1>1, <1>2, <1>3, <1>4 DEF IInv, Scripts, Otherwise, IsrQuiet, Held

LEMMA Kept ==
  ASSUME IInv, UNCHANGED <<dsp, dma, song, irq>>
  PROVE  DspTyped(dsp') /\ DmaOK(dma') /\ SongOK' /\ IrqOK'
  BY DEF IInv, SongOK, IrqOK

LEMMA DecideInv ==
  ASSUME Orderly, IInv, MainDecides PROVE IInv'
<1>1. /\ irq = Idle /\ main = <<>> /\ main' \in MainScripts /\ poll' = NoPoll /\ rang' = FALSE
      /\ UNCHANGED <<dsp, dma, irq, isr, song>>
  BY DEF MainDecides
<1>2. Otherwise /\ isr = <<>> /\ irq.at = "idle"
  <2>1. Otherwise /\ isr = <<>>
    BY <1>1, Free
  <2>2. irq.at = "idle"
    BY <1>1 DEF Idle
  <2> QED BY <2>1, <2>2
<1>3. DspTyped(dsp') /\ DmaOK(dma') /\ SongOK' /\ IrqOK'
  BY <1>1, Kept
<1>4. PollOK' /\ rang' \in BOOLEAN /\ ~poll'.open
  <2>1. poll' = [open |-> FALSE, got |-> 0, seen |-> {0}]
    BY <1>1 DEF NoPoll
  <2>2. {0} \in SUBSET Int
    OBVIOUS
  <2>3. poll' \in [open : BOOLEAN, got : Int, seen : SUBSET Int]
    BY <2>1, <2>2
  <2>4. ~poll'.open /\ poll'.got \in poll'.seen
    BY <2>1
  <2> QED BY <1>1, <2>3, <2>4 DEF PollOK, CountersWhole
<1>5. dsp'.cmd = INVALID /\ Even(dma') /\ IsrQuiet' /\ irq'.at = "idle" /\ isr' = <<>>
  BY <1>1, <1>2 DEF Otherwise, Even, IsrQuiet, Held
<1>6. ASSUME \/ main' \in {<<>>, Reset}
             \/ /\ main' \in {Detect(TRIGGER_IRQ), Detect(TRIGGER_IRQ16)}
                /\ song' = None
             \/ main' = StopWith(HALT) /\ Slow'
             \/ main' = Pause /\ song' # None /\ Repeats' /\ Slow'
             \/ \E ch \in Channels : main' = Poll(ch) /\ Repeats'
      PROVE  Scripts'
  <2>1. irq'.at \in Calm
    BY <1>5 DEF Calm
  <2> QED BY <1>4, <1>5, <1>6, <2>1 DEF Scripts, Otherwise
<1>7. ASSUME song = None PROVE Scripts'
  <2>1. \/ \E s \in Songs : main' = Play(s)
        \/ main' \in {Detect(TRIGGER_IRQ), Detect(TRIGGER_IRQ16)}
    BY <1>1, <1>7 DEF MainScripts
  <2>2. CASE \E s \in Songs : main' = Play(s)
    <3>1. PICK s \in Songs : main' = Play(s)
      BY <2>2
    <3>2. s \in SongSet /\ s.kind \in Kinds /\ (Behaved => Fits(s))
      BY SongsAre
    <3>3. main' = Yet(s, 0, 0)
      BY <3>1, <3>2, YetPlay
    <3>4. 0 \in Nexts(s) /\ 0 \in 0..PlayLen(s) - 1 /\ ProgAt(dsp', dma', s, 0, 0)
      BY <1>5, <3>2, AtFirst
    <3>5. Programs(main, Kinds)'
      BY <3>2, <3>3, <3>4 DEF Programs
    <3>6. irq'.at \in Calm /\ song' = None
      BY <1>1, <1>5, <1>7 DEF Calm
    <3>7. MainPrograms'
      BY <1>4, <1>5, <3>5, <3>6 DEF MainPrograms
    <3> QED BY <3>7 DEF Scripts
  <2> QED BY <1>1, <1>6, <1>7, <2>1, <2>2
<1>8. ASSUME song # None PROVE Scripts'
  <2>1. song.kind \in Kinds /\ Channel(song.kind) \in Channels
    BY <1>8, ChannelOf DEF IInv, SongOK, Plays, AskedSet
  <2>2. \/ main' = Reset
        \/ main' = StopWith(HALT) /\ ~Fast(song.kind)
        \/ main' = Pause /\ ~Fast(song.kind) /\ AutoInit(song.kind)
        \/ main' = Poll(Channel(song.kind)) /\ AutoInit(song.kind)
    BY <1>1, <1>8 DEF MainScripts, Orderly, Pause
  <2>3. song' = song
    BY <1>1
  <2> QED BY <1>6, <1>8, <2>1, <2>2, <2>3 DEF Repeats, Slow
<1> QED BY <1>3, <1>4, <1>7, <1>8 DEF IInv
-----------------------------------------------------------------------------
\* CardInterrupts, TriggerAnswered, BlockAnswered.

\* The DSP is as it was, or has stopped.
Quieter(d, e) == Alike(d, e) /\ e.pos = d.pos /\ (e.hs => d.hs) /\ (Still(d) => Still(e))

LEMMA AllAlikeQuieter == ASSUME NEW d, NEW e, AllAlike(d, e) PROVE Quieter(d, e)
  BY DEF AllAlike, Quieter, Still

LEMMA PlaysOn ==
  ASSUME NEW d, NEW e, Quieter(d, e), NEW m, NEW g, NEW x, Plays(d, m, g, x), x # "raise",
         NEW y, y \notin {"raise", "raised"}
  PROVE  Plays(e, m, g, y)
  BY DEF Plays, Quieter, Alike

LEMMA ReadAgain ==
  ASSUME DspTyped(dsp), DmaOK(dma), song # None, NEW at, at # "raise",
         Plays(dsp, dma, song, at), dsp.started, AllAlike(dsp, dsp'), UNCHANGED <<dma, song>>,
         NEW samples \in Nat, NEW done \in Nat, done < samples,
         irq' = Reading(samples, done, Channel(song.kind))
  PROVE  SongOK' /\ IrqOK' /\ irq'.at = "play"
<1> DEFINE ch == Channel(song.kind)
           b == Bytes(ch)
           c == dma[ch]
           i == Reading(samples, done, ch)
<1>1. /\ song \in AskedSet /\ song.block = (dsp.samples + 1) * b
      /\ (dsp.wide <=> Wide(song.kind)) /\ dsp.pos = song.taken
  BY DEF Plays
<1>2. ch \in Channels /\ b \in {1, 2}
  BY <1>1, ChannelOf DEF AskedSet
<1>3. c.cur \in Nat /\ c.index \in Nat /\ c.cur * b \in Nat /\ c.index * b \in Nat
  <2>1. c.cur \in Nat /\ c.index \in Nat
    BY <1>2, WordSize DEF DmaOK, ChanOK, ChanTyping
  <2> QED BY <1>2, <2>1
<1>4. SampleBytes(dsp) = song.block
  BY <1>1 DEF SampleBytes, SampleSize, Bytes, Channel
<1>5. i = [at |-> "play", samples |-> samples, done |-> done, ch |-> ch, count |-> c.cur * b,
           index |-> c.index * b, bytes |-> song.block, pos |-> song.taken]
  BY <1>1, <1>4 DEF Reading, GetCounter, GetIndex
<1>6. song.block \in Nat /\ song.taken \in Nat
  BY <1>1 DEF AskedSet
<1> HIDE DEF i
<1>7. i \in PlaySet
  BY <1>2, <1>3, <1>5, <1>6 DEF PlaySet, Called
<1>8. irq' = i /\ dma' = dma /\ song' = song
  BY DEF i
<1>9. dsp'.started
  BY DEF AllAlike
<1>10. IrqOK'
  <2>1. /\ irq'.at = "play" /\ irq' \in PlaySet /\ irq'.ch = ch /\ irq'.done < irq'.samples
        /\ irq'.count = c.cur * b /\ irq'.index = c.index * b /\ irq'.bytes = song.block
        /\ irq'.pos = song.taken
    BY <1>5, <1>7, <1>8
  <2>2. Bytes(irq'.ch) = b /\ dma'[irq'.ch] = c /\ Channel(song'.kind) = ch
    BY <1>8, <2>1
  <2> QED BY <1>8, <1>9, <2>1, <2>2 DEF IrqOK, Calm, Called
<1>11. SongOK'
  <2>1. irq'.at = "play"
    BY <1>5, <1>8
  <2>2. Plays(dsp', dma, song, "play")
    BY AllAlikeQuieter, PlaysOn
  <2> QED BY <1>8, <2>1, <2>2 DEF SongOK
<1>12. irq'.at = "play"
  BY <1>5, <1>8
<1> QED BY <1>10, <1>11, <1>12

\* MAIN_Interrupt is left, or reads the registers.
LEMMA Goes ==
  ASSUME IInv, irq.at \in {"idle", "triggered"}, AllAlike(dsp, dsp'), DspTyped(dsp'),
         UNCHANGED <<dma, client>>, NEW samples \in Nat, irq' = Digital(samples)
  PROVE  SongOK' /\ IrqOK' /\ irq'.at \in {"idle", "play"} /\ (song = None => irq'.at = "idle")
<1>1. DspTyped(dsp) /\ DmaOK(dma) /\ SongOK /\ UNCHANGED song
  BY DEF IInv, client
<1>2. CASE samples > 0 /\ dsp.started
  <2>1. song # None /\ Plays(dsp, dma, song, irq.at)
    BY <1>1, <1>2 DEF SongOK, Still
  <2>2. irq' = Reading(samples, 0, Channel(song.kind))
    BY <1>2, <2>1 DEF Digital, Channel, Plays
  <2>3. SongOK' /\ IrqOK' /\ irq'.at = "play"
    <3>1. irq.at # "raise" /\ 0 \in Nat /\ 0 < samples
      BY <1>2
    <3> QED BY <1>1, <1>2, <2>1, <2>2, <3>1, ReadAgain
  <2> QED BY <2>1, <2>3
<1>3. CASE ~(samples > 0 /\ dsp.started)
  <2>1. irq' = Idle /\ irq'.at = "idle"
    BY <1>3 DEF Digital, Idle
  <2>2. IrqOK'
    BY <2>1 DEF IrqOK, Calm, Called
  <2>3. SongOK'
    <3>1. CASE song = None
      BY <1>1, <2>1, <3>1 DEF SongOK, Calm, AllAlike, Still
    <3>2. CASE song # None
      <4>1. Plays(dsp, dma, song, irq.at)
        BY <1>1, <3>2 DEF SongOK
      <4>2. Plays(dsp', dma, song, "idle")
        BY <4>1, AllAlikeQuieter, PlaysOn
      <4> QED BY <1>1, <2>1, <3>2, <4>2 DEF SongOK
    <3> QED BY <3>1, <3>2
  <2> QED BY <2>1, <2>2, <2>3
<1> QED BY <1>2, <1>3

LEMMA ProgramsOn ==
  ASSUME NEW q, NEW kinds, Programs(q, kinds), Alike(dsp, dsp'), UNCHANGED dma
  PROVE  \E s \in SongSet : \E next \in Nexts(s) : \E k \in 0..PlayLen(s) - 1 :
            /\ q = Yet(s, next, k)
            /\ s.kind \in kinds /\ (Behaved => Fits(s))
            /\ ProgAt(dsp', dma', s, next, k)
<1>1. PICK s \in SongSet : \E next \in Nexts(s) : \E k \in 0..PlayLen(s) - 1 :
        /\ q = Yet(s, next, k)
        /\ s.kind \in kinds /\ (Behaved => Fits(s))
        /\ ProgAt(dsp, dma, s, next, k)
  BY DEF Programs
<1>2. PICK next \in Nexts(s) : \E k \in 0..PlayLen(s) - 1 :
        /\ q = Yet(s, next, k)
        /\ s.kind \in kinds /\ (Behaved => Fits(s))
        /\ ProgAt(dsp, dma, s, next, k)
  BY <1>1
<1>3. PICK k \in 0..PlayLen(s) - 1 :
        /\ q = Yet(s, next, k)
        /\ s.kind \in kinds /\ (Behaved => Fits(s))
        /\ ProgAt(dsp, dma, s, next, k)
  BY <1>2
<1>4. ProgAt(dsp', dma', s, next, k)
  BY <1>3 DEF ProgAt, DspAt, Alike
<1> QED BY <1>3, <1>4

\* A step of MAIN_Interrupt that neither side's accesses are changed by.
LEMMA OthersKept ==
  ASSUME IInv, ~IsrPrograms, Alike(dsp, dsp'), UNCHANGED <<dma, main, song, poll>>,
         IsrQuiet', irq.at \in Calm => irq'.at \in Calm \/ song # None,
         irq.at \in Calm /\ irq'.at # "triggered" => isr' = <<>>,
         irq.at \in Calm /\ irq'.at = "triggered" => isr' \in Acks
  PROVE  Scripts'
<1>1. dsp'.cmd = dsp.cmd
  BY DEF Alike
<1>2. CASE Otherwise \/ MainPolls
  <2>1. (Repeats => Repeats') /\ (Slow => Slow') /\ (Repeats /\ song # None => song' # None)
    BY DEF Repeats, Slow
  <2>2. /\ \A ch \in Channels : /\ dma'[ch].odd <=> dma[ch].odd
                                /\ dma[ch].odd => dma'[ch].reg = dma[ch].reg
        /\ poll'.open = poll.open /\ poll'.got = poll.got /\ poll.seen \subseteq poll'.seen
        /\ main' = main
        /\ song = None /\ irq.at \in Calm => song' = None /\ irq'.at \in Calm
    OBVIOUS
  <2>3. (Otherwise \/ MainPolls)'
    BY ONLY <1>1, <1>2, <2>1, <2>2, IsrQuiet', ScriptsKept
  <2> QED BY <2>3 DEF Scripts
<1>3. CASE MainPrograms
  <2>1. Programs(main, Kinds)'
    <3>1. Programs(main, Kinds) /\ main' = main
      BY <1>3 DEF MainPrograms
    <3> QED BY <3>1, ProgramsOn DEF Programs
  <2>2. song' = None /\ irq'.at \in Calm /\ ~poll'.open
    BY <1>3 DEF MainPrograms
  <2>3. IF irq'.at = "triggered" THEN isr' \in Acks ELSE isr' = <<>>
    BY <1>3 DEF MainPrograms
  <2>4. MainPrograms'
    BY <2>1, <2>2, <2>3 DEF MainPrograms
  <2> QED BY <2>4 DEF Scripts
<1> QED BY <1>2, <1>3 DEF IInv, Scripts

LEMMA CardInv ==
  ASSUME IInv, CardInterrupts PROVE IInv'
<1>1. PICK samples \in 0..Space : irq' = IF dsp.trigger THEN [at |-> "trigger", samples |-> samples]
                                         ELSE Digital(samples)
  <2>1. 0 \in 0..Space
    BY PlayAssumption
  <2>2. PICK samples \in IF Followed THEN 0..Space ELSE {0} :
           irq' = IF dsp.trigger THEN [at |-> "trigger", samples |-> samples] ELSE Digital(samples)
    BY DEF CardInterrupts
  <2> QED BY <2>1, <2>2
<1>2. irq = Idle /\ UNCHANGED <<dsp, dma, client>> /\ irq.at = "idle" /\ samples \in Nat
  BY PlayAssumption DEF CardInterrupts, Idle
<1>3. DspTyped(dsp) /\ AllAlike(dsp, dsp') /\ DmaOK(dma) /\ PollOK /\ rang \in BOOLEAN /\ SongOK
      /\ Alike(dsp, dsp')
  BY <1>2 DEF IInv, AllAlike, Alike
<1>4. /\ SongOK' /\ IrqOK' /\ irq'.at \in {"idle", "play", "trigger"}
      /\ song = None => irq'.at # "play"
  <2>1. CASE dsp.trigger
    <3>1. irq' = [at |-> "trigger", samples |-> samples]
      BY <1>1, <2>1
    <3>2. irq'.at = "trigger" /\ irq' \in [at : {"trigger", "triggered"}, samples : Nat]
      BY <1>2, <3>1
    <3>3. IrqOK'
      BY <3>2 DEF IrqOK, Calm, Called
    <3>4. SongOK'
      <4>1. CASE song = None
        BY <1>2, <1>3, <3>2, <4>1 DEF SongOK, Calm, client
      <4>2. CASE song # None
        <5>1. Plays(dsp, dma, song, "idle")
          BY <1>2, <1>3, <4>2 DEF SongOK
        <5>2. Plays(dsp', dma, song, "trigger")
          BY <1>3, <5>1, AllAlikeQuieter, PlaysOn
        <5> QED BY <1>2, <3>2, <4>2, <5>2 DEF SongOK, client
      <4> QED BY <4>1, <4>2
    <3> QED BY <3>2, <3>3, <3>4
  <2>2. CASE ~dsp.trigger
    <3>1. irq' = Digital(samples) /\ DspTyped(dsp') /\ irq.at \in {"idle", "triggered"}
      BY <1>1, <1>2, <1>3, <2>2
    <3>2. /\ SongOK' /\ IrqOK' /\ irq'.at \in {"idle", "play"}
          /\ song = None => irq'.at = "idle"
      BY <1>2, <1>3, <3>1, Goes
    <3> QED BY <3>2
  <2> QED BY <2>1, <2>2
<1>5. isr = <<>> /\ ~IsrPrograms
  <2>1. ~IsrPrograms
    BY <1>2 DEF IsrPrograms
  <2>2. Otherwise \/ MainPolls => isr = <<>>
    BY <1>2, ClosedPoll DEF IsrQuiet, Held
  <2>3. MainPrograms => isr = <<>>
    BY <1>2 DEF MainPrograms
  <2> QED BY <2>1, <2>2, <2>3 DEF IInv, Scripts
<1>6. Scripts'
  <2>1. isr' = <<>> /\ UNCHANGED <<dma, main, song, poll>>
    BY <1>2, <1>5 DEF client
  <2>2. IsrQuiet'
    BY <1>4, <2>1 DEF IsrQuiet, Held
  <2>3. irq.at \in Calm => irq'.at \in Calm \/ song # None
    BY <1>4 DEF Calm
  <2>4. irq'.at # "triggered"
    BY <1>4
  <2> QED BY <1>3, <1>5, <2>1, <2>2, <2>3, <2>4, OthersKept
<1>7. DspTyped(dsp') /\ DmaOK(dma') /\ PollOK' /\ rang' \in BOOLEAN
  BY <1>2, <1>3 DEF client, PollOK, CountersWhole
<1> QED BY <1>4, <1>6, <1>7 DEF IInv

LEMMA AnsweredInv ==
  ASSUME IInv, TriggerAnswered PROVE IInv'
<1>1. /\ irq.at = "triggered" /\ isr = <<>> /\ dsp' = [dsp EXCEPT !.trigger = FALSE]
      /\ irq' = Digital(irq.samples) /\ UNCHANGED <<dma, client>>
  BY DEF TriggerAnswered
<1>2. DspTyped(dsp) /\ DmaOK(dma) /\ PollOK /\ rang \in BOOLEAN /\ irq.samples \in Nat
  BY <1>1 DEF IInv, IrqOK
<1>3. DspTyped(dsp') /\ AllAlike(dsp, dsp') /\ Alike(dsp, dsp')
  BY <1>1, <1>2, AnsweredDsp DEF AllAlike
<1>4. /\ SongOK' /\ IrqOK' /\ irq'.at \in {"idle", "play"} /\ (song = None => irq'.at = "idle")
  <2>1. irq.at \in {"idle", "triggered"}
    BY <1>1
  <2> QED BY ONLY IInv, <1>1, <1>2, <1>3, <2>1, Goes
<1>5. Scripts'
  <2>1. isr' = <<>> /\ UNCHANGED <<dma, main, song, poll>>
    BY <1>1 DEF client
  <2>2. IsrQuiet'
    BY <1>4, <2>1 DEF IsrQuiet, Held
  <2>3. irq.at \in Calm => irq'.at \in Calm \/ song # None
    BY <1>4 DEF Calm
  <2>4. irq'.at # "triggered" /\ ~IsrPrograms
    BY <1>1, <1>4 DEF IsrPrograms
  <2> QED BY <1>3, <2>1, <2>2, <2>3, <2>4, OthersKept
<1>6. DmaOK(dma') /\ PollOK' /\ rang' \in BOOLEAN
  BY <1>1, <1>2 DEF client, PollOK, CountersWhole
<1> QED BY <1>3, <1>4, <1>5, <1>6 DEF IInv

LEMMA BlockInv ==
  ASSUME IInv, BlockAnswered PROVE IInv'
<1>1. /\ irq.at = "raised" /\ isr = <<>> /\ UNCHANGED <<dma, main, isr, song, poll, rang>>
  BY DEF BlockAnswered, client
<1>2. DspTyped(dsp) /\ DmaOK(dma) /\ PollOK /\ rang \in BOOLEAN /\ SongOK /\ irq \in PlaySet
      /\ (song # None => irq.ch = Channel(song.kind))
  BY <1>1 DEF IInv, IrqOK, Called
<1>3. ~IsrPrograms
  BY <1>1, ProgramsSome DEF IsrPrograms
<1>4. /\ DspTyped(dsp') /\ Alike(dsp, dsp') /\ SongOK' /\ IrqOK'
      /\ irq'.at \in {"idle", "play"}
  <2>1. CASE irq.bytes <= SmallBlock
    <3> DEFINE g == IF dsp.detect + 1 >= DetectLimit THEN Stop(dsp) ELSE dsp
               n == Least(g.detect + 1, DetectLimit)
    <3>1. DspTyped(g) /\ Alike(dsp, g) /\ (g = dsp \/ (Still(g) /\ g.pos = 0))
      <4>1. DspTyped(Stop(dsp)) /\ Alike(dsp, Stop(dsp)) /\ Still(Stop(dsp)) /\ Stop(dsp).pos = 0
        BY <1>2, StopDsp
      <4> QED BY <1>2, <4>1 DEF Alike
    <3>2. dsp' = [g EXCEPT !.detect = n] /\ irq' = Idle
      BY <2>1 DEF BlockAnswered
    <3> HIDE DEF g
    <3>3. n \in 0..DetectLimit
      <4>1. g.detect \in 0..DetectLimit
        BY <3>1 DEF DspTyped, Typing
      <4> QED BY <4>1, PlayAssumption DEF Least
    <3> HIDE DEF n
    <3>4. DspTyped(dsp') /\ AllAlike(g, dsp')
      BY ONLY <3>1, <3>2, <3>3, DetectDsp
    <3>5. irq'.at = "idle"
      BY <3>2 DEF Idle
    <3>6. IrqOK'
      BY <3>2, <3>5 DEF IrqOK, Calm, Called
    <3>7. Alike(dsp, dsp')
      BY <3>1, <3>4 DEF Alike, AllAlike
    <3>8. SongOK'
      <4>1. CASE song = None
        BY <1>1, <1>2, <3>1, <3>4, <3>5, <4>1 DEF SongOK, Calm, AllAlike, Still
      <4>2. CASE song # None
        <5>1. Plays(dsp, dma, song, "raised")
          BY <1>1, <1>2, <4>2 DEF SongOK
        <5>2. dsp.pos = 0
          BY <5>1 DEF Plays
        <5>3. Quieter(dsp, dsp')
          BY <3>1, <3>4, <3>7, <5>2 DEF Quieter, AllAlike, Still
        <5>4. Plays(dsp', dma, song, "idle")
          BY <5>1, <5>3, PlaysOn
        <5> QED BY <1>1, <3>5, <4>2, <5>4 DEF SongOK
      <4> QED BY <4>1, <4>2
    <3> QED BY <3>4, <3>5, <3>6, <3>7, <3>8
  <2>2. CASE ~(irq.bytes <= SmallBlock)
    <3>1. /\ dsp' = dsp
          /\ irq' = Idle \/ /\ irq' = Reading(irq.samples, irq.done, irq.ch)
                            /\ Reading(irq.samples, irq.done, irq.ch).done
                                 < Reading(irq.samples, irq.done, irq.ch).samples
                            /\ dsp.started
      BY <2>2 DEF BlockAnswered
    <3>2. Alike(dsp, dsp') /\ AllAlike(dsp, dsp') /\ DspTyped(dsp')
      BY <1>2, <3>1 DEF Alike, AllAlike
    <3>3. CASE irq' = Idle
      <4>1. irq'.at = "idle"
        BY <3>3 DEF Idle
      <4>2. IrqOK'
        BY <3>3, <4>1 DEF IrqOK, Calm, Called
      <4>3. SongOK'
        <5>1. CASE song = None
          BY <1>1, <1>2, <3>1, <4>1, <5>1 DEF SongOK, Calm
        <5>2. CASE song # None
          <6>1. Plays(dsp, dma, song, "raised")
            BY <1>1, <1>2, <5>2 DEF SongOK
          <6>2. Plays(dsp', dma, song, "idle")
            BY <3>2, <6>1, AllAlikeQuieter, PlaysOn
          <6> QED BY <1>1, <4>1, <5>2, <6>2 DEF SongOK
        <5> QED BY <5>1, <5>2
      <4> QED BY <3>2, <4>1, <4>2, <4>3
    <3>4. CASE /\ irq' = Reading(irq.samples, irq.done, irq.ch)
               /\ Reading(irq.samples, irq.done, irq.ch).done
                    < Reading(irq.samples, irq.done, irq.ch).samples
               /\ dsp.started
      <4>1. song # None /\ Plays(dsp, dma, song, "raised") /\ irq.ch = Channel(song.kind)
        BY <1>1, <1>2, <3>4 DEF SongOK, Still
      <4>2. irq.samples \in Nat /\ irq.done \in Nat /\ irq.done < irq.samples
        BY <1>2, <3>4 DEF PlaySet, Reading
      <4>3. irq' = Reading(irq.samples, irq.done, Channel(song.kind))
        BY <3>4, <4>1
      <4>4. "raised" # "raise" /\ dsp.started /\ UNCHANGED <<dma, song>>
        BY <1>1, <3>4
      <4>5. SongOK' /\ IrqOK' /\ irq'.at = "play"
        BY ONLY <1>2, <3>2, <4>1, <4>2, <4>3, <4>4, ReadAgain
      <4> QED BY <3>2, <4>5
    <3> QED BY <3>1, <3>3, <3>4
  <2> QED BY <2>1, <2>2
<1>5. Scripts'
  <2>1. isr' = <<>> /\ UNCHANGED <<dma, main, song, poll>>
    BY <1>1
  <2>2. IsrQuiet'
    BY <1>4, <2>1 DEF IsrQuiet, Held
  <2>3. irq.at \notin Calm
    BY <1>1 DEF Calm
  <2> QED BY <1>3, <1>4, <2>1, <2>2, <2>3, OthersKept
<1>6. DmaOK(dma') /\ PollOK' /\ rang' \in BOOLEAN
  BY <1>1, <1>2 DEF PollOK, CountersWhole
<1> QED BY <1>4, <1>5, <1>6 DEF IInv
-----------------------------------------------------------------------------
\* HandlerStarts.

LEMMA AckIn == ASSUME NEW w \in BOOLEAN PROVE Ack(w) \in Acks
<1>1. w = TRUE \/ w = FALSE
  OBVIOUS
<1> QED BY <1>1 DEF Acks

LEMMA RangBoolean == ASSUME HandlerStarts PROVE rang' \in BOOLEAN
<1> DEFINE p == main # <<>> /\ main[Len(main)] = [op |-> "wait"]
<1>1. rang' = p
  BY DEF HandlerStarts
<1>2. p = TRUE \/ p = FALSE
  OBVIOUS
<1> HIDE DEF p
<1> QED BY <1>1, <1>2

LEMMA TriggerInv ==
  ASSUME IInv, HandlerStarts, irq.at = "trigger" PROVE IInv'
<1>1. /\ irq' = [irq EXCEPT !.at = "triggered"] /\ isr' = Ack(dsp.int16) /\ song' = song
      /\ UNCHANGED <<dsp, dma, main, poll>>
  BY DEF HandlerStarts
<1>2. DspTyped(dsp) /\ DmaOK(dma) /\ PollOK /\ SongOK
      /\ irq \in [at : {"trigger", "triggered"}, samples : Nat]
  BY DEF IInv, IrqOK
<1>3. isr' \in Acks
  BY <1>1, <1>2, AckIn DEF DspTyped, Typing
<1>4. irq'.at = "triggered" /\ irq' \in [at : {"trigger", "triggered"}, samples : Nat]
  BY <1>1, <1>2
<1>5. IrqOK'
  BY <1>4 DEF IrqOK, Calm, Called
<1>6. AllAlike(dsp, dsp') /\ Alike(dsp, dsp')
  BY <1>1 DEF AllAlike, Alike
<1>7. SongOK'
  <2>1. CASE song = None
    BY <1>1, <1>2, <1>4, <2>1 DEF SongOK, Calm
  <2>2. CASE song # None
    <3>1. Plays(dsp, dma, song, "trigger")
      BY <1>2, <2>2 DEF SongOK
    <3>2. Plays(dsp', dma, song, "triggered")
      BY <1>6, <3>1, AllAlikeQuieter, PlaysOn
    <3> QED BY <1>1, <1>4, <2>2, <3>2 DEF SongOK
  <2> QED BY <2>1, <2>2
<1>8. Scripts'
  <2>1. UNCHANGED <<dma, main, song, poll>> /\ ~IsrPrograms
    BY <1>1 DEF IsrPrograms
  <2>2. IsrQuiet'
    BY <1>3, <1>4 DEF IsrQuiet, Held
  <2>3. irq'.at \in Calm
    BY <1>4 DEF Calm
  <2> QED BY <1>3, <1>4, <1>6, <2>1, <2>2, <2>3, OthersKept
<1>9. DspTyped(dsp') /\ DmaOK(dma') /\ PollOK' /\ rang' \in BOOLEAN
  BY <1>1, <1>2, RangBoolean DEF PollOK, CountersWhole
<1> QED BY <1>5, <1>7, <1>8, <1>9 DEF IInv

\* The rest of the buffer of a block that has been taken.
RestOf(g) == [kind |-> g.kind, block |-> g.block \div Bytes(Channel(g.kind)),
              count |-> g.count \div Bytes(Channel(g.kind)), loop |-> TRUE]

LEMMA RestPlaced ==
  ASSUME DspTyped(dsp), DmaOK(dma), NEW g, NEW at, Plays(dsp, dma, g, at), g.loop
  PROVE  LET s == RestOf(g)
         IN  s \in SongSet /\ s.kind = g.kind /\ s.loop /\ g.next \in Nexts(s)
             /\ Placed(dma, Asked(s, g.next))
<1> DEFINE b == Bytes(Channel(g.kind))
           c == dma[Channel(g.kind)]
           s == RestOf(g)
           a == Asked(s, g.next)
           size == dsp.samples + 1
<1>1. /\ g \in AskedSet /\ g.next < g.count /\ g.block = size * b
      /\ c.counter * b = g.count /\ (c.auto <=> g.loop)
      /\ c.cur >= 1 /\ c.index + c.cur = c.counter /\ g.next = c.index * b
  BY DEF Plays, Placed
<1>2. /\ g.kind \in Kinds /\ g.next \in Nat /\ g.count \in Nat /\ b \in {1, 2}
      /\ Channel(g.kind) \in Channels
  BY <1>1, ChannelOf DEF AskedSet
<1>3. c.counter \in 0..Word /\ size \in 1..Word /\ Word \in Nat
  BY <1>2, WordSize DEF DmaOK, ChanOK, ChanTyping, DspTyped, Typing
<1> HIDE DEF b, c, size
<1>4. g.block \div b = size /\ g.count \div b = c.counter
  BY <1>1, <1>2, <1>3, Samples
<1>5. c.counter \in 1..Word
  BY <1>1, <1>2, <1>3
<1>6. s = [kind |-> g.kind, block |-> size, count |-> c.counter, loop |-> TRUE]
  BY <1>4 DEF RestOf, b
<1> HIDE DEF s
<1>7. s \in SongSet /\ s.kind = g.kind /\ s.loop /\ s.count = c.counter
  BY <1>2, <1>3, <1>5, <1>6 DEF SongSet
<1>8. g.next \in Nexts(s)
  BY <1>1, <1>2, <1>7 DEF Nexts, b
<1>9. /\ a.kind = g.kind /\ a.count = c.counter * b /\ a.loop = s.loop /\ a.next = g.next
  BY <1>7 DEF Asked, b
<1> HIDE DEF a
<1>10. Placed(dma, a)
  BY <1>1, <1>7, <1>9 DEF Placed, b, c
<1> QED BY <1>7, <1>8, <1>10 DEF s, a

\* The handler is about to play a block.
LEMMA AckThenPlay ==
  ASSUME NEW s \in SongSet, NEW next \in Nexts(s), NEW k \in 0..PlayLen(s) - 1,
         Behaved => Fits(s), ProgAt(dsp', dma', s, next, k),
         NEW kinds, s.kind \in kinds, NEW w,
         isr' = Ack(w) \o Yet(s, next, k)
  PROVE  \E q : /\ isr' # <<>> /\ Head(isr').op \in {"ack8", "ack16"} /\ Tail(isr') = q
                /\ \E z \in SongSet : \E n \in Nexts(z) : \E j \in 0..PlayLen(z) - 1 :
                      /\ q = Yet(z, n, j)
                      /\ z.kind \in kinds /\ (Behaved => Fits(z))
                      /\ ProgAt(dsp', dma', z, n, j)
<1> DEFINE x == [op |-> IF w THEN "ack16" ELSE "ack8"]
           q == Yet(s, next, k)
<1>1. k \in 0..PlayLen(s)
  BY PlayLength
<1>2. PICK S : q \in Seq(S)
  BY <1>1, YetSeq
<1>3. Ack(w) = <<x>> /\ x.op \in {"ack8", "ack16"}
  BY DEF Ack
<1> HIDE DEF q, x
<1>4. Tail(<<x>> \o q) = q /\ Head(<<x>> \o q) = x /\ <<x>> \o q # <<>>
  BY ONLY <1>2, Behind
<1>5. isr' = <<x>> \o q
  BY <1>3 DEF q
<1>6. isr' # <<>> /\ Head(isr').op \in {"ack8", "ack16"} /\ Tail(isr') = q
  BY <1>3, <1>4, <1>5
<1>7. \E z \in SongSet : \E n \in Nexts(z) : \E j \in 0..PlayLen(z) - 1 :
        /\ q = Yet(z, n, j)
        /\ z.kind \in kinds /\ (Behaved => Fits(z))
        /\ ProgAt(dsp', dma', z, n, j)
  BY DEF q
<1> QED BY <1>6, <1>7

LEMMA HaltIsOne == StopWith(HALT) \notin {<<>>, Reset}
<1>1. Len(StopWith(HALT)) = 1 /\ Len(Reset) = 2
  BY DEF StopWith, Reset
<1>2. StopWith(HALT) # <<>>
  BY DEF StopWith
<1> QED BY <1>1, <1>2

LEMMA PausingMains == ASSUME main \in {Pause, Tail(Pause)} PROVE Pausing
<1>1. CASE main = Pause
  <2>1. 2 \in DOMAIN main /\ main[2] = Dsp(CONTINUE)
    BY <1>1 DEF Pause
  <2> QED BY <2>1 DEF Pausing
<1>2. CASE main = Tail(Pause)
  <2>1. main = <<Dsp(CONTINUE)>>
    BY <1>2 DEF Pause
  <2>2. 1 \in DOMAIN main /\ main[1] = Dsp(CONTINUE)
    BY <2>1
  <2> QED BY <2>2 DEF Pausing
<1> QED BY <1>1, <1>2

\* The block is over: the main program does not wait for anything but this.
LEMMA RaisedMain ==
  ASSUME Otherwise, song # None, ~AutoInit(song.kind)
  PROVE  /\ main \in {<<>>, Reset, StopWith(HALT)} /\ (main = StopWith(HALT) => Slow)
         /\ ~poll.open /\ Even(dma) /\ dsp.cmd = INVALID
<1>1. ~Repeats
  BY DEF Repeats
<1>2. main \in {<<>>, Reset} \/ (main = StopWith(HALT) /\ Slow)
  BY <1>1 DEF Otherwise
<1> QED BY <1>2, HaltIsOne DEF Otherwise

LEMMA RaiseInv ==
  ASSUME Orderly, IInv, HandlerStarts, irq.at = "raise" PROVE IInv'
<1>1. /\ song # None /\ Plays(dsp, dma, song, "raise") /\ song \in AskedSet
      /\ irq \in PlaySet /\ irq.ch = Channel(song.kind)
      /\ Otherwise \/ MainPolls
      /\ isr = <<>>
  BY PlayScripts
<1>2. /\ irq' = [irq EXCEPT !.at = "raised"] /\ isr' \in BlockScripts
      /\ song' = IF AutoInit(song.kind) THEN [song EXCEPT !.taken = 0] ELSE None
      /\ UNCHANGED <<dsp, dma, main, poll>>
  BY <1>1 DEF HandlerStarts
<1>3. DspTyped(dsp) /\ DmaOK(dma) /\ PollOK /\ song.kind \in Kinds
  BY <1>1 DEF IInv, AskedSet
<1>4. irq'.at = "raised" /\ irq' \in PlaySet /\ irq'.ch = irq.ch
  BY <1>1, <1>2 DEF PlaySet, Called
<1>5. DspTyped(dsp') /\ DmaOK(dma') /\ PollOK' /\ rang' \in BOOLEAN
  BY <1>2, <1>3, RangBoolean DEF PollOK, CountersWhole
<1> DEFINE w == Wide(song.kind)
<1>6. w \in BOOLEAN
  BY DEF Wide
<1>7. ASSUME IsrQuiet', (Repeats => Repeats'), (Slow => Slow'),
             Repeats /\ song # None => song' # None
      PROVE  Scripts'
  <2>1. dsp'.cmd = dsp.cmd /\ main' = main
    BY <1>2
  <2>2. /\ \A ch \in Channels : /\ dma'[ch].odd <=> dma[ch].odd
                                /\ dma[ch].odd => dma'[ch].reg = dma[ch].reg
        /\ poll'.open = poll.open /\ poll'.got = poll.got /\ poll.seen \subseteq poll'.seen
    BY <1>2
  <2>3. song = None /\ irq.at \in Calm => song' = None /\ irq'.at \in Calm
    BY <1>1
  <2>4. (Otherwise \/ MainPolls)'
    BY ONLY <1>1, <1>7, <2>1, <2>2, <2>3, ScriptsKept
  <2> QED BY <2>4 DEF Scripts
<1>8. CASE AutoInit(song.kind)
  <2>1. /\ song' \in AskedSet /\ song'.kind = song.kind /\ song'.block = song.block
        /\ song'.taken = 0 /\ song'.count = song.count /\ song'.loop = song.loop
        /\ song'.next = song.next
    BY <1>1, <1>2, <1>8 DEF AskedSet
  <2>2. song' # None /\ Repeats' /\ (Slow => Slow')
    BY <1>1, <1>8, <2>1, NotNone DEF Repeats, Slow
  <2>3. IrqOK'
    BY <1>1, <1>4, <2>1 DEF IrqOK, Calm, Called
  <2>4. Plays(dsp', dma', song', "raised")
    <3> DEFINE b == Bytes(Channel(song.kind))
    <3>1. /\ (Behaved => Fits(song)) /\ song.next < song.count
          /\ song.block = (dsp.samples + 1) * b
          /\ (dsp.wide <=> Wide(song.kind)) /\ (dsp.auto <=> AutoInit(song.kind))
          /\ (dsp.hs => Fast(song.kind)) /\ Placed(dma, song) /\ dsp.pos = 0
      BY <1>1 DEF Plays
    <3>2. b \in {1, 2} /\ dsp.samples \in Nat
      BY <1>3, WordSize, ChannelOf DEF DspTyped, Typing
    <3>3. (dsp.samples + 1) * b > 0 /\ 0 * b = 0 /\ 0 \in 0..0
      BY <3>2
    <3>4. Placed(dma, song')
      BY <1>8, <2>1, <3>1 DEF Placed, Fits
    <3>5. Behaved => Fits(song')
      BY <2>1, <3>1 DEF Fits
    <3>6. /\ song'.block = (dsp'.samples + 1) * Bytes(Channel(song'.kind))
          /\ \E n \in 0..song'.taken : song'.taken = n * Bytes(Channel(song'.kind))
      BY <1>2, <2>1, <3>1, <3>3
    <3>7. song'.taken < song'.block /\ dsp'.pos = song'.taken
      BY <1>2, <2>1, <3>1, <3>3
    <3> QED BY <1>2, <2>1, <3>1, <3>4, <3>5, <3>6, <3>7 DEF Plays
  <2>5. SongOK'
    BY <1>4, <2>2, <2>4 DEF SongOK
  <2>6. IsrQuiet'
    <3>1. \/ isr' = Ack(w)
          \/ isr' = Ack(w) \o StopWith(EXIT_AUTO) /\ ~Fast(song.kind) /\ ~Pausing
      BY <1>2, <1>8 DEF BlockScripts
    <3>2. CASE isr' = Ack(w)
      <4>1. isr' \in Acks
        BY <1>6, <3>2, AckIn
      <4> QED BY <1>4, <4>1 DEF IsrQuiet, Held
    <3>3. CASE isr' = Ack(w) \o StopWith(EXIT_AUTO) /\ ~Fast(song.kind) /\ ~Pausing
      <4>1. isr' \in Ends
        BY <1>6, <3>3 DEF Ends
      <4>2. main' \notin {Pause, Tail(Pause)}
        BY <1>2, <3>3, PausingMains
      <4>3. Slow'
        BY <2>1, <3>3 DEF Slow
      <4> QED BY <1>4, <2>2, <4>1, <4>2, <4>3 DEF IsrQuiet, Held
    <3> QED BY <3>1, <3>2, <3>3
  <2>7. Scripts'
    BY <1>7, <2>2, <2>6
  <2> QED BY <1>5, <2>3, <2>5, <2>7 DEF IInv
<1>9. CASE ~AutoInit(song.kind)
  <2>1. song' = None /\ Still(dsp') /\ (Repeats => Repeats') /\ (Slow => Slow') /\ ~Repeats
    BY <1>1, <1>2, <1>9 DEF Plays, Repeats, Slow, Still
  <2>2. SongOK' /\ IrqOK'
    BY <1>4, <2>1 DEF SongOK, IrqOK, Calm, Called
  <2>3. Otherwise
    BY <1>1, <2>1 DEF MainPolls
  <2>4. /\ main \in {<<>>, Reset, StopWith(HALT)} /\ (main = StopWith(HALT) => Slow)
        /\ ~poll.open /\ Even(dma) /\ dsp.cmd = INVALID
    BY <1>1, <1>9, <2>3, RaisedMain
  <2> DEFINE kinds == {k \in Kinds : /\ ~AutoInit(k) /\ Channel(k) = irq.ch
                                     /\ main = StopWith(HALT) => ~Fast(k)}
  <2>5. song.kind \in kinds
    BY <1>1, <1>3, <1>9, <2>4 DEF Slow
  <2>6. dsp'.cmd = INVALID /\ Even(dma')
    BY <1>2, <2>4
  <2>7. ASSUME NEW s \in SongSet, NEW next \in Nexts(s), NEW k \in 0..PlayLen(s) - 1,
               Behaved => Fits(s), ProgAt(dsp', dma', s, next, k), s.kind = song.kind,
               isr' = Ack(w) \o Yet(s, next, k)
        PROVE  Scripts'
    <3> DEFINE Goal(q) == \E z \in SongSet : \E n \in Nexts(z) : \E j \in 0..PlayLen(z) - 1 :
                            /\ q = Yet(z, n, j)
                            /\ z.kind \in kinds /\ (Behaved => Fits(z))
                            /\ ProgAt(dsp', dma', z, n, j)
    <3>1. s.kind \in kinds
      BY <2>5, <2>7
    <3> HIDE DEF kinds, w
    <3>2. /\ isr' # <<>> /\ Head(isr').op \in {"ack8", "ack16"}
          /\ Goal(Tail(isr'))
      BY <2>7, <3>1, AckThenPlay
    <3>3. irq'.ch = irq.ch /\ main' = main
      BY <1>2, <1>4
    <3>4. IsrPrograms'
      <4>1. /\ song' = None /\ irq'.at = "raised" /\ ~poll'.open
            /\ main' \in {<<>>, Reset, StopWith(HALT)}
        BY <1>2, <1>4, <2>1, <2>4
      <4>2. kinds = {z \in Kinds : /\ ~AutoInit(z) /\ Channel(z) = irq'.ch
                                   /\ main' = StopWith(HALT) => ~Fast(z)}
        BY <3>3 DEF kinds
      <4> QED BY <3>2, <4>1, <4>2 DEF IsrPrograms, Programs
    <3> QED BY <3>4 DEF Scripts
  <2>8. \/ isr' = Ack(w)
        \/ song.loop /\ isr' = Ack(w) \o StartDsp(RestOf(song), song.next)
        \/ \E s \in Songs : s.kind = song.kind /\ isr' = Ack(w) \o Play(s)
    BY <1>2, <1>9 DEF BlockScripts, Following, Orderly, RestOf
  <2>9. CASE isr' = Ack(w)
    <3>1. isr' \in Acks
      BY <1>6, <2>9, AckIn
    <3>2. IsrQuiet'
      BY <1>4, <3>1 DEF IsrQuiet, Held
    <3>3. Scripts'
      BY <1>7, <2>1, <3>2
    <3> QED BY <1>5, <2>2, <3>3 DEF IInv
  <2>10. CASE song.loop /\ isr' = Ack(w) \o StartDsp(RestOf(song), song.next)
    <3> DEFINE s == RestOf(song)
    <3>1. /\ s \in SongSet /\ s.kind = song.kind /\ s.loop /\ song.next \in Nexts(s)
          /\ Placed(dma, Asked(s, song.next))
      BY <1>1, <1>3, <2>10, RestPlaced
    <3> HIDE DEF s
    <3>2. isr' = Ack(w) \o Yet(s, song.next, 6)
      BY <2>10, <3>1, YetStart DEF s
    <3>3. Fits(s) /\ 6 \in 0..PlayLen(s) - 1
      BY <3>1, PlayLength DEF Fits
    <3>4. ProgAt(dsp', dma', s, song.next, 6)
      BY <1>2, <2>6, <3>1 DEF ProgAt, DspAt
    <3>5. Scripts'
      BY ONLY <2>7, <3>1, <3>2, <3>3, <3>4
    <3> QED BY <1>5, <2>2, <3>5 DEF IInv
  <2>11. CASE \E s \in Songs : s.kind = song.kind /\ isr' = Ack(w) \o Play(s)
    <3>1. PICK s \in Songs : s.kind = song.kind /\ isr' = Ack(w) \o Play(s)
      BY <2>11
    <3>2. s \in SongSet /\ (Behaved => Fits(s))
      BY SongsAre
    <3>3. isr' = Ack(w) \o Yet(s, 0, 0)
      BY <3>1, <3>2, YetPlay
    <3>4. 0 \in Nexts(s) /\ 0 \in 0..PlayLen(s) - 1 /\ ProgAt(dsp', dma', s, 0, 0)
      BY <2>6, <3>2, AtFirst
    <3>5. Scripts'
      BY ONLY <2>7, <3>1, <3>2, <3>3, <3>4
    <3> QED BY <1>5, <2>2, <3>5 DEF IInv
  <2> QED BY <2>8, <2>9, <2>10, <2>11
<1> QED BY <1>8, <1>9

LEMMA HandlerStartsInv == ASSUME Orderly, IInv, HandlerStarts PROVE IInv'
  BY TriggerInv, RaiseInv DEF HandlerStarts
-----------------------------------------------------------------------------
\* MainAccess.

LEMMA ResetAccess ==
  ASSUME NEW op, Access(op), op.op = "reset"
  PROVE  dsp' = DspReset(dsp, op.v) /\ song' = None /\ UNCHANGED <<dma, poll, rang>>
<1>1. OnDsp(op)
  BY AccessKind DEF DspOps
<1> QED BY <1>1 DEF OnDsp

LEMMA AckAccess ==
  ASSUME NEW op, Access(op), op.op \in {"ack8", "ack16"}
  PROVE  /\ dsp' = ReadStatus(dsp) \/ dsp' = Int16Ack(dsp)
         /\ UNCHANGED <<song, dma, poll, rang>>
<1>1. OnDsp(op)
  BY AccessKind DEF DspOps
<1> QED BY <1>1 DEF OnDsp

LEMMA FlagAccess ==
  ASSUME NEW op, Access(op), op.op = "wait"
  PROVE  UNCHANGED <<dsp, dma, song, poll, rang>>
<1>1. OnFlag(op)
  BY AccessKind
<1> QED BY <1>1 DEF OnFlag

\* Reading a byte of a counter changes nothing a block depends on.
LEMMA ReadAccess ==
  ASSUME DmaOK(dma), NEW op, Access(op), op.op = "read", op.ch \in Channels
  PROVE  LET c == dma[op.ch]
             e == dma'[op.ch]
         IN  /\ DmaOK(dma') /\ (e.odd <=> ~c.odd) /\ (~c.odd => e.reg = c.reg)
             /\ \A x \in Channels \ {op.ch} : dma'[x] = dma[x]
             /\ \A g : Placed(dma, g) => Placed(dma', g)
             /\ UNCHANGED <<dsp, song, rang>>
             /\ ~c.odd => poll' = [open |-> TRUE, got |-> c.reg % Base, seen |-> {c.reg}]
             /\ c.odd => poll' = [poll EXCEPT !.open = FALSE, !.got = @ + (c.reg \div Base) * Base]
<1> DEFINE ch == op.ch
           c == dma[ch]
           e == ReadCounter(c)
<1>1. OnCounter(op)
  BY AccessKind
<1>2. ch \in Channels /\ ChanOK(c)
  BY DEF DmaOK
<1>3. dma' = Put(dma, ch, e) /\ UNCHANGED <<dsp, song, rang>>
  BY <1>1 DEF OnCounter, Put
<1>4. /\ ~c.odd => poll' = [open |-> TRUE, got |-> c.reg % Base, seen |-> {Shown(c)}]
      /\ c.odd => poll' = [poll EXCEPT !.open = FALSE, !.got = @ + (c.reg \div Base) * Base]
  BY <1>1 DEF OnCounter, ByteOf
<1>5. ~c.odd => Shown(c) = c.reg
  BY <1>2 DEF ChanOK, ChanShows, Shown
<1> HIDE DEF c, ch
<1>6. /\ ChanOK(e) /\ e.auto = c.auto /\ e.counter = c.counter /\ e.cur = c.cur
      /\ e.index = c.index /\ (e.odd <=> ~c.odd) /\ (~c.odd => e.reg = c.reg)
  BY ONLY <1>2, ReadChan
<1> HIDE DEF e
<1>7. DmaOK(dma') /\ dma'[ch] = e /\ \A x \in Channels \ {ch} : dma'[x] = dma[x]
  BY ONLY DmaOK(dma), <1>2, <1>3, <1>6, OneChannel
<1>8. ASSUME NEW g, Placed(dma, g) PROVE Placed(dma', g)
  <2> DEFINE z == Channel(g.kind)
  <2>1. z \in Channels
    BY DEF Channel, Channels
  <2>2. /\ dma'[z].auto = dma[z].auto /\ dma'[z].counter = dma[z].counter
        /\ dma'[z].cur = dma[z].cur /\ dma'[z].index = dma[z].index
    BY <1>6, <1>7, <2>1 DEF c
  <2> QED BY <1>8, <2>2 DEF Placed
<1> QED BY <1>3, <1>4, <1>5, <1>6, <1>7, <1>8 DEF c, ch

LEMMA IdleOK == ASSUME irq' = Idle PROVE IrqOK' /\ irq'.at = "idle"
  BY DEF IrqOK, Idle, Calm, Called

\* What stays when the program makes an access to the DSP.
LEMMA StillSong ==
  ASSUME song' = None, Still(dsp'), irq'.at \in {"idle", "raised", "triggered"} PROVE SongOK'
  BY DEF SongOK, Calm

LEMMA ResetOps ==
  /\ Head(Reset) = [op |-> "reset", v |-> 1] /\ Tail(Reset) = <<[op |-> "reset", v |-> 0]>>
  /\ Head(Tail(Reset)) = [op |-> "reset", v |-> 0] /\ Tail(Tail(Reset)) = <<>>
  BY DEF Reset

LEMMA DetectOps ==
  ASSUME NEW v
  PROVE  /\ Head(Detect(v)) = Dsp(v) /\ Tail(Detect(v)) = Tail(Detect(TRIGGER_IRQ))
         /\ Head(Tail(Detect(v))) = [op |-> "wait"] /\ Tail(Tail(Detect(v))) = <<>>
  BY DEF Detect

LEMMA PauseOps ==
  /\ Head(Pause) = Dsp(HALT) /\ Head(Tail(Pause)) = Dsp(CONTINUE) /\ Tail(Tail(Pause)) = <<>>
  BY DEF Pause

LEMMA StopOps ==
  ASSUME NEW v
  PROVE  Head(StopWith(v)) = [op |-> "stop", v |-> v] /\ Tail(StopWith(v)) = <<>>
  BY DEF StopWith

LEMMA PollOps ==
  ASSUME NEW ch
  PROVE  /\ Head(Poll(ch)) = On("flipflop", ch, 0) /\ Head(Tail(Poll(ch))) = On("read", ch, 0)
         /\ Tail(Tail(Poll(ch))) = <<On("read", ch, 0)>>
         /\ Head(<<On("read", ch, 0)>>) = On("read", ch, 0) /\ Tail(<<On("read", ch, 0)>>) = <<>>
  BY DEF Poll

LEMMA SlowDsp ==
  ASSUME SongOK, Slow PROVE ~dsp.hs
  BY DEF SongOK, Slow, Still, Plays

\* Any access of the main program while nobody programs a block and no pair of
\* bytes is open.
LEMMA MainOther ==
  ASSUME IInv, MainAccess, Otherwise PROVE IInv'
<1>1. irq = Idle /\ main # <<>> /\ Access(Head(main)) /\ main' = Tail(main) /\ UNCHANGED <<irq, isr>>
  BY DEF MainAccess
<1>2. irq.at = "idle" /\ irq' = Idle
  BY <1>1 DEF Idle
<1>3. IrqOK' /\ irq'.at = "idle"
  BY <1>2, IdleOK
<1>4. DspTyped(dsp) /\ DmaOK(dma) /\ PollOK /\ rang \in BOOLEAN /\ SongOK
  BY DEF IInv
<1>5. dsp.cmd = INVALID /\ Even(dma) /\ ~poll.open /\ isr = <<>>
  BY <1>2 DEF Otherwise, IsrQuiet, Held
<1>6. IsrQuiet'
  BY <1>1, <1>3, <1>5 DEF IsrQuiet, Held
<1>7. ASSUME UNCHANGED <<dma, poll, rang>>, DspTyped(dsp'), dsp'.cmd = INVALID, SongOK',
             \/ main' = <<>>
             \/ main' \in {Tail(Detect(TRIGGER_IRQ)), Tail(Reset)} /\ song' = None
             \/ main' = Tail(Pause) /\ song' # None /\ Repeats' /\ Slow'
             \/ \E ch \in Channels : main' = Tail(Poll(ch)) /\ Repeats'
      PROVE  IInv'
  <2>1. Even(dma') /\ ~poll'.open /\ irq'.at \in Calm /\ DmaOK(dma') /\ rang' \in BOOLEAN
    BY <1>3, <1>4, <1>5, <1>7 DEF Even, Calm
  <2>2. PollOK'
    BY <1>4, <1>7 DEF PollOK, CountersWhole
  <2>3. Otherwise'
    BY <1>6, <1>7, <2>1 DEF Otherwise
  <2> QED BY <1>3, <1>7, <2>1, <2>2, <2>3 DEF IInv, Scripts
<1>8. CASE main = Reset
  <2>1. Head(main) = [op |-> "reset", v |-> 1] /\ main' = Tail(Reset)
    BY <1>1, <1>8, ResetOps
  <2>2. dsp' = DspReset(dsp, 1) /\ song' = None /\ UNCHANGED <<dma, poll, rang>>
    BY <1>1, <2>1, ResetAccess
  <2>3. DspTyped(dsp') /\ Still(dsp') /\ dsp'.cmd = INVALID
    BY <1>4, <2>2, ResetDsp
  <2>4. SongOK'
    BY <1>3, <2>2, <2>3, StillSong
  <2> QED BY <1>7, <2>1, <2>2, <2>3, <2>4
<1>9. CASE main = Tail(Reset) /\ song = None
  <2>1. Head(main) = [op |-> "reset", v |-> 0] /\ main' = <<>>
    BY <1>1, <1>9, ResetOps
  <2>2. dsp' = DspReset(dsp, 0) /\ song' = None /\ UNCHANGED <<dma, poll, rang>>
    BY <1>1, <2>1, ResetAccess
  <2>3. DspTyped(dsp') /\ AllAlike(dsp, dsp')
    BY <1>4, <2>2, ResetDsp
  <2>4. Still(dsp') /\ dsp'.cmd = INVALID
    BY <1>4, <1>5, <1>9, <2>3 DEF SongOK, Still, AllAlike, Alike
  <2>5. SongOK'
    BY <1>3, <2>2, <2>4, StillSong
  <2> QED BY <1>7, <2>1, <2>2, <2>3, <2>4, <2>5
<1>10. CASE song = None /\ \E v \in {TRIGGER_IRQ, TRIGGER_IRQ16} : main = Detect(v)
  <2>1. PICK v \in {TRIGGER_IRQ, TRIGGER_IRQ16} : main = Detect(v)
    BY <1>10
  <2>2. Head(main) = Dsp(v) /\ main' = Tail(Detect(TRIGGER_IRQ))
    BY <1>1, <2>1, DetectOps
  <2>3. Dsp(v).op = "dsp" /\ Dsp(v).v = v
    BY DEF Dsp
  <2>4. dsp' = DspWrite(dsp, v) /\ song' = None /\ UNCHANGED <<dma, poll, rang>>
    BY <1>1, <1>10, <2>2, <2>3, DspAccess
  <2>5. Still(dsp)
    BY <1>4, <1>10 DEF SongOK
  <2>6. DspTyped(dsp') /\ dsp'.started = dsp.started /\ dsp'.hs = dsp.hs /\ dsp'.cmd = INVALID
    BY <1>4, <1>5, <2>4, <2>5, Triggers DEF Still
  <2>7. SongOK'
    <3>1. Still(dsp')
      BY <2>5, <2>6 DEF Still
    <3> QED BY <1>3, <2>4, <3>1, StillSong
  <2> QED BY <1>7, <2>2, <2>4, <2>6, <2>7
<1>11. CASE main = Tail(Detect(TRIGGER_IRQ)) /\ song = None
  <2>1. Head(main) = [op |-> "wait"] /\ main' = <<>>
    BY <1>1, <1>11, DetectOps
  <2>2. UNCHANGED <<dsp, dma, song, poll, rang>>
    BY <1>1, <2>1, FlagAccess
  <2>3. SongOK'
    BY <1>1, <1>4, <2>2 DEF SongOK
  <2> QED BY <1>4, <1>5, <1>7, <2>1, <2>2, <2>3
<1>12. CASE main = StopWith(HALT) /\ Slow
  <2>1. Head(main) = [op |-> "stop", v |-> HALT] /\ main' = <<>>
    BY <1>1, <1>12, StopOps
  <2>2. dsp' = DspWrite(dsp, HALT) /\ song' = None /\ UNCHANGED <<dma, poll, rang>>
    BY <1>1, <2>1, DspAccess
  <2>3. ~dsp.hs
    BY <1>4, <1>12, SlowDsp
  <2>4. DspTyped(dsp') /\ Still(dsp') /\ dsp'.cmd = INVALID
    <3>1. HALT # CONTINUE
      BY DEF HALT, CONTINUE
    <3>2. DspTyped(dsp') /\ (dsp'.started <=> HALT = CONTINUE) /\ ~dsp'.hs /\ dsp'.cmd = INVALID
      BY <1>4, <1>5, <2>2, <2>3, HaltsOrGoes
    <3> QED BY <3>1, <3>2 DEF Still
  <2>5. SongOK'
    BY <1>3, <2>2, <2>4, StillSong
  <2> QED BY <1>7, <2>1, <2>2, <2>4, <2>5
<1>13. CASE main \in {Pause, Tail(Pause)} /\ song # None /\ Repeats /\ Slow
  <2>1. PICK v \in {HALT, CONTINUE} : Head(main) = Dsp(v)
    BY <1>13, PauseOps
  <2>2. main' = Tail(Pause) \/ main' = <<>>
    BY <1>1, <1>13, PauseOps
  <2>3. Dsp(v).op = "dsp" /\ Dsp(v).v = v
    BY DEF Dsp
  <2>4. dsp' = DspWrite(dsp, v) /\ song' = song /\ UNCHANGED <<dma, poll, rang>>
    BY <1>1, <2>1, <2>3, DspAccess
  <2>5. ~dsp.hs
    BY <1>4, <1>13, SlowDsp
  <2>6. /\ DspTyped(dsp') /\ ~dsp'.hs /\ dsp'.cmd = INVALID
        /\ dsp'.auto = dsp.auto /\ dsp'.wide = dsp.wide /\ dsp'.samples = dsp.samples
        /\ dsp'.pos = dsp.pos
    BY <1>4, <1>5, <2>4, <2>5, HaltsOrGoes
  <2>7. SongOK'
    <3>1. Plays(dsp, dma, song, "idle")
      BY <1>2, <1>4, <1>13 DEF SongOK
    <3>2. Plays(dsp', dma, song, "idle")
      BY <2>6, <3>1 DEF Plays
    <3> QED BY <1>3, <1>13, <2>4, <3>2 DEF SongOK
  <2>8. song' # None /\ Repeats' /\ Slow'
    BY <1>13, <2>4 DEF Repeats, Slow
  <2> QED BY <1>7, <2>2, <2>4, <2>6, <2>7, <2>8
<1>14. CASE \E ch \in Channels : main = Poll(ch) /\ Repeats
  <2>1. PICK ch \in Channels : main = Poll(ch) /\ Repeats
    BY <1>14
  <2> DEFINE op == On("flipflop", ch, 0)
  <2>2. Head(main) = op /\ main' = Tail(Poll(ch))
    BY <1>1, <2>1, PollOps
  <2>3. op.op = "flipflop" /\ op.ch = ch
    BY DEF On
  <2> HIDE DEF op
  <2>4. dma' = DmaAfter(dma, op) /\ dsp' = dsp /\ song' = song /\ poll' = poll /\ rang' = rang
    BY <1>1, <2>2, <2>3, DmaAccess DEF DmaOps
  <2>5. dma' = dma
    <3>1. WriteFlipFlop(dma[ch]) = dma[ch]
      BY <1>4, <1>5, FlipFlopChan DEF DmaOK, Even
    <3>2. dma' = [dma EXCEPT ![ch] = dma[ch]]
      BY <2>3, <2>4, <3>1 DEF DmaAfter
    <3> QED BY <1>4, <3>2 DEF DmaOK
  <2>6. SongOK' /\ Repeats'
    BY <1>1, <1>4, <2>1, <2>4, <2>5 DEF SongOK, Repeats
  <2> QED BY <1>4, <1>5, <1>7, <2>2, <2>4, <2>5, <2>6
<1>15. CASE \E ch \in Channels : main = Tail(Poll(ch)) /\ Repeats
  <2>1. PICK ch \in Channels : main = Tail(Poll(ch)) /\ Repeats
    BY <1>15
  <2> DEFINE op == On("read", ch, 0)
             c == dma[ch]
  <2>2. Head(main) = op /\ main' = <<op>>
    BY <1>1, <2>1, PollOps
  <2>3. op.op = "read" /\ op.ch = ch
    BY DEF On
  <2> HIDE DEF op
  <2>4. /\ DmaOK(dma') /\ (dma'[ch].odd <=> ~c.odd) /\ (~c.odd => dma'[ch].reg = c.reg)
        /\ \A x \in Channels \ {ch} : dma'[x] = dma[x]
        /\ \A g : Placed(dma, g) => Placed(dma', g)
        /\ UNCHANGED <<dsp, song, rang>>
        /\ ~c.odd => poll' = [open |-> TRUE, got |-> c.reg % Base, seen |-> {c.reg}]
    BY <1>1, <1>4, <2>2, <2>3, ReadAccess
  <2>5. ~c.odd /\ \A x \in Channels : ~dma[x].odd
    BY <1>5 DEF Even
  <2>6. c.reg \in 0..Word - 1 /\ c.reg % Base \in Int /\ c.reg \in Int
    <3>1. c.reg \in 0..Word - 1
      BY <1>4 DEF DmaOK, ChanOK, ChanTyping
    <3>2. c.reg \in Int
      BY <3>1, WordSize
    <3> QED BY <3>1, <3>2, WordBytes DEF Byte
  <2>7. poll' = [open |-> TRUE, got |-> c.reg % Base, seen |-> {c.reg}]
    BY <2>4, <2>5
  <2>8. PollOK'
    <3>1. poll' \in [open : BOOLEAN, got : Int, seen : SUBSET Int] /\ poll'.open
      BY <2>6, <2>7
    <3> QED BY <3>1 DEF PollOK, CountersWhole
  <2>9. MainPolls'
    <3>1. /\ dsp'.cmd = INVALID /\ \A x \in Channels : dma'[x].odd <=> x = ch
          /\ poll'.open /\ poll'.got = dma'[ch].reg % Base /\ dma'[ch].reg \in poll'.seen
      BY <1>5, <2>4, <2>5, <2>7
    <3>2. main' = <<On("read", ch, 0)>> /\ Repeats'
      BY <2>1, <2>2, <2>4 DEF op, Repeats
    <3> QED BY <1>6, <3>1, <3>2 DEF MainPolls
  <2>10. SongOK'
    <3>1. CASE song = None
      BY <1>1, <1>4, <2>4, <3>1 DEF SongOK
    <3>2. CASE song # None
      <4>1. Plays(dsp, dma, song, irq.at)
        BY <1>4, <3>2 DEF SongOK
      <4>2. Plays(dsp, dma', song, irq.at)
        BY <2>4, <4>1 DEF Plays
      <4> QED BY <1>1, <2>4, <3>2, <4>2 DEF SongOK
    <3> QED BY <3>1, <3>2
  <2> QED BY <1>3, <1>4, <2>4, <2>8, <2>9, <2>10 DEF IInv, Scripts
<1> QED BY <1>1, <1>8, <1>9, <1>10, <1>11, <1>12, <1>13, <1>14, <1>15 DEF Otherwise

LEMMA MainPollsInv ==
  ASSUME IInv, MainAccess, MainPolls PROVE IInv'
<1>1. irq = Idle /\ Access(Head(main)) /\ main' = Tail(main) /\ UNCHANGED <<irq, isr>>
  BY DEF MainAccess
<1>2. irq.at = "idle" /\ irq' = Idle
  BY <1>1 DEF Idle
<1>3. IrqOK' /\ irq'.at = "idle"
  BY <1>2, IdleOK
<1>4. DspTyped(dsp) /\ DmaOK(dma) /\ PollOK /\ rang \in BOOLEAN /\ SongOK
  BY DEF IInv
<1>5. PICK ch \in Channels :
        /\ main = <<On("read", ch, 0)>> /\ Repeats /\ IsrQuiet
        /\ dsp.cmd = INVALID /\ \A x \in Channels : dma[x].odd <=> x = ch
        /\ poll.open /\ poll.got = dma[ch].reg % Base /\ dma[ch].reg \in poll.seen
  BY DEF MainPolls
<1> DEFINE op == On("read", ch, 0)
           c == dma[ch]
<1>6. Head(main) = op /\ main' = <<>>
  BY <1>1, <1>5, PollOps
<1>7. op.op = "read" /\ op.ch = ch
  BY DEF On
<1> HIDE DEF op
<1>8. /\ DmaOK(dma') /\ (dma'[ch].odd <=> ~c.odd)
      /\ \A x \in Channels \ {ch} : dma'[x] = dma[x]
      /\ \A g : Placed(dma, g) => Placed(dma', g)
      /\ UNCHANGED <<dsp, song, rang>>
      /\ c.odd => poll' = [poll EXCEPT !.open = FALSE, !.got = @ + (c.reg \div Base) * Base]
  BY <1>1, <1>4, <1>6, <1>7, ReadAccess
<1>9. c.reg \in 0..Word - 1
  BY <1>4 DEF DmaOK, ChanOK, ChanTyping
<1>10. (c.reg % Base) + (c.reg \div Base) * Base = c.reg /\ c.reg \in Int
  <2>1. /\ c.reg % Base \in Byte /\ c.reg \div Base \in Byte
        /\ c.reg = (c.reg \div Base) * Base + (c.reg % Base)
    BY <1>9, WordBytes
  <2>2. c.reg \in Int
    BY <1>9, WordSize
  <2> DEFINE x == c.reg % Base
             y == (c.reg \div Base) * Base
  <2>3. x \in Int /\ y \in Int /\ c.reg = y + x
    BY <2>1 DEF Byte
  <2> HIDE DEF x, y
  <2>4. x + y = c.reg
    BY <2>3
  <2> QED BY <2>2, <2>4 DEF x, y
<1>11. /\ poll' \in [open : BOOLEAN, got : Int, seen : SUBSET Int]
       /\ ~poll'.open /\ poll'.got = c.reg /\ poll'.seen = poll.seen
  <2>1. poll' = [poll EXCEPT !.open = FALSE, !.got = @ + (c.reg \div Base) * Base]
    BY <1>5, <1>8
  <2>2. poll \in [open : BOOLEAN, got : Int, seen : SUBSET Int]
    BY <1>4 DEF PollOK
  <2> DEFINE z == poll.got + (c.reg \div Base) * Base
  <2>3. z = c.reg
    BY <1>5, <1>10
  <2>4. poll' = [poll EXCEPT !.open = FALSE, !.got = z]
    BY <2>1
  <2> HIDE DEF z
  <2>5. poll' = [open |-> FALSE, got |-> z, seen |-> poll.seen]
    BY <2>2, <2>4
  <2>6. z \in Int /\ poll.seen \in SUBSET Int
    BY <1>10, <2>2, <2>3
  <2> QED BY <2>3, <2>5, <2>6
<1>12. PollOK'
  BY <1>5, <1>11 DEF PollOK, CountersWhole
<1>13. Even(dma') /\ dsp'.cmd = INVALID
  BY <1>5, <1>8 DEF Even
<1>14. IsrQuiet'
  BY <1>1, <1>2, <1>3, <1>5 DEF IsrQuiet, Held
<1>15. Otherwise'
  BY <1>6, <1>11, <1>13, <1>14 DEF Otherwise
<1>16. SongOK'
  <2>1. CASE song = None
    BY <1>1, <1>4, <1>8, <2>1 DEF SongOK
  <2>2. CASE song # None
    <3>1. Plays(dsp, dma, song, irq.at)
      BY <1>4, <2>2 DEF SongOK
    <3>2. Plays(dsp, dma', song, irq.at)
      BY <1>8, <3>1 DEF Plays
    <3> QED BY <1>1, <1>8, <2>2, <3>2 DEF SongOK
  <2> QED BY <2>1, <2>2
<1> QED BY <1>3, <1>4, <1>8, <1>12, <1>15, <1>16 DEF IInv, Scripts

\* The first of the accesses that program a block, from wherever it is made.
LEMMA ProgramsStep ==
  ASSUME IInv, song = None, NEW q, NEW kinds, Programs(q, kinds), Access(Head(q)),
         irq'.at = irq.at, irq.at # "raise"
  PROVE  /\ DspTyped(dsp') /\ DmaOK(dma') /\ UNCHANGED <<poll, rang>>
         /\ \/ /\ song' = None /\ Still(dsp')
               /\ \E s \in SongSet : \E next \in Nexts(s) : \E k \in 0..PlayLen(s) - 1 :
                     /\ Tail(q) = Yet(s, next, k)
                     /\ s.kind \in kinds /\ (Behaved => Fits(s))
                     /\ ProgAt(dsp', dma', s, next, k)
            \/ /\ Tail(q) = <<>> /\ dsp'.cmd = INVALID /\ Even(dma')
               /\ song' # None /\ song'.kind \in kinds
               /\ Plays(dsp', dma', song', irq'.at)
<1>1. DspTyped(dsp) /\ DmaOK(dma) /\ Still(dsp)
  BY DEF IInv, SongOK
<1>2. PICK s \in SongSet : \E next \in Nexts(s) : \E k \in 0..PlayLen(s) - 1 :
        /\ q = Yet(s, next, k)
        /\ s.kind \in kinds /\ (Behaved => Fits(s))
        /\ ProgAt(dsp, dma, s, next, k)
  BY DEF Programs
<1>3. PICK next \in Nexts(s) : \E k \in 0..PlayLen(s) - 1 :
        /\ q = Yet(s, next, k)
        /\ s.kind \in kinds /\ (Behaved => Fits(s))
        /\ ProgAt(dsp, dma, s, next, k)
  BY <1>2
<1>4. PICK k \in 0..PlayLen(s) - 1 :
        /\ q = Yet(s, next, k)
        /\ s.kind \in kinds /\ (Behaved => Fits(s))
        /\ ProgAt(dsp, dma, s, next, k)
  BY <1>3
<1>5. Head(q) = PlayOp(s, next, k) /\ Tail(q) = Yet(s, next, k + 1)
  BY <1>4, YetStep
<1>6. /\ DspTyped(dsp') /\ DmaOK(dma') /\ poll' = poll /\ rang' = rang
      /\ IF k + 1 < PlayLen(s)
         THEN song' = None /\ Still(dsp') /\ ProgAt(dsp', dma', s, next, k + 1)
         ELSE /\ song' = Asked(s, next) /\ Begun(dsp', s)
              /\ Even(dma') /\ Placed(dma', Asked(s, next))
  BY <1>1, <1>4, <1>5, ProgramStep
<1>7. CASE k + 1 < PlayLen(s)
  <2>1. k + 1 \in 0..PlayLen(s) - 1
    BY <1>7, PlayLength
  <2> QED BY <1>4, <1>5, <1>6, <1>7, <2>1
<1>8. CASE ~(k + 1 < PlayLen(s))
  <2>1. k + 1 = PlayLen(s)
    BY <1>8, PlayLength
  <2>2. Tail(q) = <<>>
    BY <1>5, <2>1, YetNothing
  <2>3. Plays(dsp', dma', Asked(s, next), irq'.at)
    BY <1>4, <1>6, <1>8, NewPlays
  <2>4. Asked(s, next).kind = s.kind /\ Asked(s, next) # None
    <3>1. Asked(s, next) \in AskedSet
      BY <2>3 DEF Plays
    <3> QED BY <3>1, NotNone DEF Asked
  <2> QED BY <1>4, <1>6, <1>8, <2>2, <2>3, <2>4 DEF Begun
<1> QED BY <1>7, <1>8

LEMMA MainProgramsInv ==
  ASSUME IInv, MainAccess, MainPrograms PROVE IInv'
<1>1. irq = Idle /\ Access(Head(main)) /\ main' = Tail(main) /\ UNCHANGED <<irq, isr>>
  BY DEF MainAccess
<1>2. irq.at = "idle" /\ irq' = Idle
  BY <1>1 DEF Idle
<1>3. IrqOK' /\ irq'.at = "idle"
  BY <1>2, IdleOK
<1>4. song = None /\ ~poll.open /\ isr = <<>> /\ Programs(main, Kinds) /\ PollOK
      /\ rang \in BOOLEAN
  BY <1>2 DEF MainPrograms, IInv
<1>5. /\ DspTyped(dsp') /\ DmaOK(dma') /\ UNCHANGED <<poll, rang>>
      /\ \/ /\ song' = None /\ Still(dsp')
            /\ \E s \in SongSet : \E next \in Nexts(s) : \E k \in 0..PlayLen(s) - 1 :
                  /\ Tail(main) = Yet(s, next, k)
                  /\ s.kind \in Kinds /\ (Behaved => Fits(s))
                  /\ ProgAt(dsp', dma', s, next, k)
         \/ /\ Tail(main) = <<>> /\ dsp'.cmd = INVALID /\ Even(dma')
            /\ song' # None /\ song'.kind \in Kinds
            /\ Plays(dsp', dma', song', irq'.at)
  BY <1>1, <1>2, <1>3, <1>4, ProgramsStep
<1>6. PollOK' /\ ~poll'.open /\ isr' = <<>> /\ rang' \in BOOLEAN
  BY <1>1, <1>4, <1>5 DEF PollOK, CountersWhole
<1>7. CASE /\ song' = None /\ Still(dsp')
           /\ \E s \in SongSet : \E next \in Nexts(s) : \E k \in 0..PlayLen(s) - 1 :
                 /\ Tail(main) = Yet(s, next, k)
                 /\ s.kind \in Kinds /\ (Behaved => Fits(s))
                 /\ ProgAt(dsp', dma', s, next, k)
  <2>1. Programs(main, Kinds)'
    BY <1>1, <1>7 DEF Programs
  <2>2. MainPrograms'
    BY <1>3, <1>6, <1>7, <2>1 DEF MainPrograms, Calm
  <2>3. SongOK'
    BY <1>3, <1>7, StillSong
  <2> QED BY <1>3, <1>5, <1>6, <2>2, <2>3 DEF IInv, Scripts
<1>8. CASE /\ Tail(main) = <<>> /\ dsp'.cmd = INVALID /\ Even(dma')
           /\ song' # None /\ song'.kind \in Kinds
           /\ Plays(dsp', dma', song', irq'.at)
  <2>1. IsrQuiet'
    BY <1>3, <1>6 DEF IsrQuiet, Held
  <2>2. Otherwise'
    BY <1>1, <1>6, <1>8, <2>1 DEF Otherwise
  <2>3. SongOK'
    BY <1>8 DEF SongOK
  <2> QED BY <1>3, <1>5, <1>6, <2>2, <2>3 DEF IInv, Scripts
<1> QED BY <1>5, <1>7, <1>8

LEMMA MainInv ==
  ASSUME IInv, MainAccess PROVE IInv'
<1>1. ~IsrPrograms
  BY DEF MainAccess, IsrPrograms, Idle
<1> QED BY <1>1, MainOther, MainPollsInv, MainProgramsInv DEF IInv, Scripts
-----------------------------------------------------------------------------
\* HandlerStep.

LEMMA AckOps ==
  ASSUME NEW w \in BOOLEAN
  PROVE  /\ Head(Ack(w)).op \in {"ack8", "ack16"} /\ Tail(Ack(w)) = <<>>
         /\ Head(Ack(w) \o StopWith(EXIT_AUTO)).op \in {"ack8", "ack16"}
         /\ Tail(Ack(w) \o StopWith(EXIT_AUTO)) = StopWith(EXIT_AUTO)
<1> DEFINE x == [op |-> IF w THEN "ack16" ELSE "ack8"]
           r == [op |-> "stop", v |-> EXIT_AUTO]
<1>1. Ack(w) = <<x>> /\ x.op \in {"ack8", "ack16"} /\ StopWith(EXIT_AUTO) = <<r>>
  BY DEF Ack, StopWith
<1> HIDE DEF x, r
<1>2. <<r>> \in Seq({r})
  OBVIOUS
<1>3. Tail(<<x>> \o <<r>>) = <<r>> /\ Head(<<x>> \o <<r>>) = x
  BY ONLY <1>2, Behind
<1>4. Head(<<x>>) = x /\ Tail(<<x>>) = <<>>
  OBVIOUS
<1> QED BY <1>1, <1>3, <1>4

\* What an acknowledge leaves as it was.
LEMMA AckKeeps ==
  ASSUME IInv, Access(Head(isr)), Head(isr).op \in {"ack8", "ack16"}, UNCHANGED irq,
         irq.at \in Held
  PROVE  /\ DspTyped(dsp') /\ AllAlike(dsp, dsp') /\ Alike(dsp, dsp') /\ DmaOK(dma')
         /\ SongOK' /\ IrqOK' /\ PollOK' /\ rang' \in BOOLEAN
         /\ UNCHANGED <<song, dma, poll, rang>>
<1>1. /\ dsp' = ReadStatus(dsp) \/ dsp' = Int16Ack(dsp)
      /\ UNCHANGED <<song, dma, poll, rang>>
  BY AckAccess
<1>2. DspTyped(dsp) /\ DmaOK(dma) /\ SongOK /\ IrqOK /\ PollOK /\ rang \in BOOLEAN
  BY DEF IInv
<1>3. DspTyped(dsp') /\ AllAlike(dsp, dsp')
  BY <1>1, <1>2, StatusDsp, Status16Dsp
<1>4. SongOK'
  <2>1. CASE song = None
    BY <1>1, <1>2, <1>3, <2>1 DEF SongOK, AllAlike, Still
  <2>2. CASE song # None
    <3>1. Plays(dsp, dma, song, irq.at)
      BY <1>2, <2>2 DEF SongOK
    <3>2. Plays(dsp', dma, song, irq.at)
      BY <1>3, <3>1 DEF Plays, AllAlike, Alike, Still, Held
    <3> QED BY <1>1, <2>2, <3>2 DEF SongOK
  <2> QED BY <2>1, <2>2
<1>5. IrqOK'
  BY <1>1, <1>2 DEF IrqOK, Held
<1> QED BY <1>1, <1>2, <1>3, <1>4, <1>5 DEF AllAlike, PollOK, CountersWhole

\* An access of a handler that acknowledges or ends the music.
LEMMA HandlerOther ==
  ASSUME IInv, HandlerStep, ~IsrPrograms PROVE IInv'
<1>1. /\ irq.at \in Held /\ isr # <<>> /\ Access(Head(isr)) /\ isr' = Tail(isr)
      /\ UNCHANGED <<irq, main>>
  BY DEF HandlerStep, Held
<1>2. \/ isr \in Acks
      \/ /\ isr \in Ends /\ song # None /\ Repeats /\ Slow /\ main \notin {Pause, Tail(Pause)}
         /\ irq.at = "raised" /\ (Otherwise \/ MainPolls)
  BY <1>1, ClosedPoll DEF IInv, Scripts, IsrQuiet, Held, MainPrograms, Calm
<1>3. CASE Head(isr).op \in {"ack8", "ack16"}
  <2>1. /\ DspTyped(dsp') /\ AllAlike(dsp, dsp') /\ Alike(dsp, dsp') /\ DmaOK(dma')
        /\ SongOK' /\ IrqOK' /\ PollOK' /\ rang' \in BOOLEAN
        /\ UNCHANGED <<song, dma, poll, rang>>
    BY <1>1, <1>3, AckKeeps
  <2>2. \/ isr' = <<>>
        \/ /\ isr' \in Ends /\ song # None /\ Repeats /\ Slow /\ main \notin {Pause, Tail(Pause)}
           /\ irq.at = "raised"
    <3>1. CASE isr \in Acks
      BY <1>1, <3>1, AckOps DEF Acks
    <3>2. CASE /\ isr \in Ends /\ song # None /\ Repeats /\ Slow
               /\ main \notin {Pause, Tail(Pause)} /\ irq.at = "raised"
      <4>1. isr' = <<>> \/ isr' = StopWith(EXIT_AUTO)
        BY <1>1, <3>2, AckOps, StopOps DEF Ends
      <4> QED BY <3>2, <4>1 DEF Ends
    <3> QED BY <1>2, <3>1, <3>2
  <2>3. IsrQuiet'
    BY <1>1, <2>1, <2>2 DEF IsrQuiet, Held, Acks, Repeats, Slow
  <2>4. Scripts'
    <3>1. /\ irq.at \in Calm => irq'.at \in Calm \/ song # None
          /\ irq.at \in Calm /\ irq'.at # "triggered" => isr' = <<>>
          /\ irq.at \in Calm /\ irq'.at = "triggered" => isr' \in Acks
      BY <1>1, <2>2 DEF Calm, Held, Acks
    <3> QED BY <1>1, <2>1, <2>3, <3>1, OthersKept
  <2> QED BY <2>1, <2>4 DEF IInv
<1>4. CASE Head(isr).op \notin {"ack8", "ack16"}
  <2>1. /\ isr = StopWith(EXIT_AUTO)
        /\ song # None /\ Repeats /\ Slow /\ main \notin {Pause, Tail(Pause)}
        /\ irq.at = "raised" /\ (Otherwise \/ MainPolls)
    BY <1>1, <1>2, <1>4, AckOps DEF Acks, Ends
  <2>2. Head(isr) = [op |-> "stop", v |-> EXIT_AUTO] /\ isr' = <<>>
    BY <1>1, <2>1, StopOps
  <2>3. dsp' = DspWrite(dsp, EXIT_AUTO) /\ song' = None /\ UNCHANGED <<dma, poll, rang>>
    BY <1>1, <2>2, DspAccess
  <2>4. DspTyped(dsp) /\ DmaOK(dma) /\ PollOK /\ rang \in BOOLEAN /\ SongOK /\ IrqOK
    BY DEF IInv
  <2>5. dsp.cmd = INVALID /\ ~dsp.hs /\ dsp.auto
    BY <2>1, <2>4, ClosedPoll, SlowDsp DEF SongOK, Plays, Repeats
  <2>6. DspTyped(dsp') /\ Still(dsp') /\ dsp'.cmd = INVALID
    BY <2>3, <2>4, <2>5, Exits
  <2>7. SongOK' /\ irq'.at = "raised"
    BY <1>1, <2>1, <2>3, <2>6, StillSong
  <2>8. IrqOK'
    BY <1>1, <2>1, <2>3, <2>4 DEF IrqOK
  <2>9. PollOK' /\ DmaOK(dma') /\ rang' \in BOOLEAN
    BY <2>3, <2>4 DEF PollOK, CountersWhole
  <2>10. Scripts'
    <3>1. IsrQuiet'
      BY <2>2, <2>7 DEF IsrQuiet, Held, Acks
    <3>2. (Repeats => Repeats') /\ (Slow => Slow')
      BY <2>3 DEF Repeats, Slow
    <3>3. dsp'.cmd = dsp.cmd /\ main' = main
      BY <1>1, <2>5, <2>6
    <3>4. /\ \A ch \in Channels : /\ dma'[ch].odd <=> dma[ch].odd
                                  /\ dma[ch].odd => dma'[ch].reg = dma[ch].reg
          /\ poll'.open = poll.open /\ poll'.got = poll.got /\ poll.seen \subseteq poll'.seen
          /\ song = None /\ irq.at \in Calm => song' = None /\ irq'.at \in Calm
          /\ main \in {Pause, Tail(Pause)} /\ Repeats /\ song # None => song' # None
      BY <2>1, <2>3
    <3>5. (Otherwise \/ MainPolls)'
      BY ONLY <2>1, <3>1, <3>2, <3>3, <3>4, ScriptsKept
    <3> QED BY <3>5 DEF Scripts
  <2> QED BY <2>6, <2>7, <2>8, <2>9, <2>10 DEF IInv
<1> QED BY <1>3, <1>4

\* An access of a handler that plays the next block.
LEMMA HandlerPrograms ==
  ASSUME IInv, HandlerStep, IsrPrograms PROVE IInv'
<1> DEFINE kinds == {k \in Kinds : /\ ~AutoInit(k) /\ Channel(k) = irq.ch
                                   /\ main = StopWith(HALT) => ~Fast(k)}
<1>1. /\ irq.at = "raised" /\ Access(Head(isr)) /\ isr' = Tail(isr) /\ UNCHANGED <<irq, main>>
      /\ song = None /\ ~poll.open /\ main \in {<<>>, Reset, StopWith(HALT)}
  BY DEF HandlerStep, IsrPrograms
<1>2. \/ Programs(isr, kinds)
      \/ Head(isr).op \in {"ack8", "ack16"} /\ Programs(Tail(isr), kinds)
  BY DEF IsrPrograms
<1>3. kinds = {k \in Kinds : /\ ~AutoInit(k) /\ Channel(k) = irq'.ch
                             /\ main' = StopWith(HALT) => ~Fast(k)}
  BY <1>1
<1>4. PollOK /\ rang \in BOOLEAN /\ IrqOK
  BY DEF IInv
<1>5. ASSUME NEW z \in kinds
      PROVE  ~AutoInit(z) /\ Channel(z) = irq.ch /\ (main = StopWith(HALT) => ~Fast(z))
  OBVIOUS
<1> HIDE DEF kinds
<1>6. ASSUME song' = None, ~poll'.open,
             \E s \in SongSet : \E next \in Nexts(s) : \E k \in 0..PlayLen(s) - 1 :
                /\ Tail(isr) = Yet(s, next, k)
                /\ s.kind \in kinds /\ (Behaved => Fits(s))
                /\ ProgAt(dsp', dma', s, next, k)
      PROVE  Scripts'
  <2>1. IsrPrograms'
    BY <1>1, <1>3, <1>6 DEF IsrPrograms, Programs
  <2> QED BY <2>1 DEF Scripts
<1>7. CASE Programs(isr, kinds)
  <2>1. /\ DspTyped(dsp') /\ DmaOK(dma') /\ UNCHANGED <<poll, rang>>
        /\ \/ /\ song' = None /\ Still(dsp')
              /\ \E s \in SongSet : \E next \in Nexts(s) : \E k \in 0..PlayLen(s) - 1 :
                    /\ Tail(isr) = Yet(s, next, k)
                    /\ s.kind \in kinds /\ (Behaved => Fits(s))
                    /\ ProgAt(dsp', dma', s, next, k)
           \/ /\ Tail(isr) = <<>> /\ dsp'.cmd = INVALID /\ Even(dma')
              /\ song' # None /\ song'.kind \in kinds
              /\ Plays(dsp', dma', song', irq'.at)
    <3>1. irq'.at = irq.at /\ irq.at # "raise"
      BY <1>1
    <3> QED BY <1>1, <1>7, <3>1, ProgramsStep
  <2>2. PollOK' /\ ~poll'.open /\ rang' \in BOOLEAN
    BY <1>1, <1>4, <2>1 DEF PollOK, CountersWhole
  <2>3. CASE /\ song' = None /\ Still(dsp')
             /\ \E s \in SongSet : \E next \in Nexts(s) : \E k \in 0..PlayLen(s) - 1 :
                   /\ Tail(isr) = Yet(s, next, k)
                   /\ s.kind \in kinds /\ (Behaved => Fits(s))
                   /\ ProgAt(dsp', dma', s, next, k)
    <3>1. Scripts'
      BY <1>6, <2>2, <2>3
    <3>2. SongOK'
      BY <1>1, <2>3, StillSong
    <3>3. IrqOK'
      BY <1>1, <1>4, <2>3 DEF IrqOK
    <3> QED BY <2>1, <2>2, <3>1, <3>2, <3>3 DEF IInv
  <2>4. CASE /\ Tail(isr) = <<>> /\ dsp'.cmd = INVALID /\ Even(dma')
             /\ song' # None /\ song'.kind \in kinds
             /\ Plays(dsp', dma', song', irq'.at)
    <3>1. /\ ~AutoInit(song'.kind) /\ Channel(song'.kind) = irq.ch
          /\ main = StopWith(HALT) => ~Fast(song'.kind)
      BY <1>5, <2>4
    <3>2. IsrQuiet'
      BY <1>1, <2>4 DEF IsrQuiet, Held, Acks
    <3>3. Otherwise'
      BY <1>1, <2>2, <2>4, <3>1, <3>2 DEF Otherwise, Slow
    <3>4. SongOK'
      BY <2>4 DEF SongOK
    <3>5. IrqOK'
      BY <1>1, <1>4, <3>1 DEF IrqOK
    <3> QED BY <2>1, <2>2, <3>3, <3>4, <3>5 DEF IInv, Scripts
  <2> QED BY <2>1, <2>3, <2>4
<1>8. CASE Head(isr).op \in {"ack8", "ack16"} /\ Programs(Tail(isr), kinds)
  <2>1. /\ DspTyped(dsp') /\ AllAlike(dsp, dsp') /\ Alike(dsp, dsp') /\ DmaOK(dma')
        /\ SongOK' /\ IrqOK' /\ PollOK' /\ rang' \in BOOLEAN
        /\ UNCHANGED <<song, dma, poll, rang>>
    BY <1>1, <1>8, AckKeeps DEF Held
  <2>2. \E s \in SongSet : \E next \in Nexts(s) : \E k \in 0..PlayLen(s) - 1 :
           /\ Tail(isr) = Yet(s, next, k)
           /\ s.kind \in kinds /\ (Behaved => Fits(s))
           /\ ProgAt(dsp', dma', s, next, k)
    BY <1>8, <2>1, ProgramsOn
  <2>3. Scripts'
    BY <1>1, <1>6, <2>1, <2>2
  <2> QED BY <2>1, <2>3 DEF IInv
<1> QED BY <1>2, <1>7, <1>8

LEMMA HandlerInv == ASSUME IInv, HandlerStep PROVE IInv'
  BY HandlerOther, HandlerPrograms
-----------------------------------------------------------------------------
\* Accesses the card interrupts.

\* The card is between accesses, or in one where it does no harm: a write that has
\* looked up the command, or the second read of a pair, whose byte is copied.
MidOK ==
    \/ mid = NoMid
    \/ /\ mid \in [at : {"checked"}, idle : BOOLEAN]
       /\ main # <<>> /\ Head(main).op \in {"dsp", "start", "stop"}
    \/ /\ mid \in [at : {"fetched"}, value : 0..Word - 1]
       /\ main # <<>> /\ Head(main).op = "read"
       /\ LET ch == Head(main).ch
          IN  ch \in Channels /\ dma[ch].odd /\ mid.value = dma[ch].reg

\* A read that finds a pair of bytes open.
LEMMA PairOpen ==
  ASSUME IInv, irq = Idle, main # <<>>, Head(main).op = "read",
         dma[Head(main).ch].inIO
  PROVE  Head(main).ch \in Channels /\ dma[Head(main).ch].odd
<1>1. irq.at = "idle"
  BY DEF Idle
<1>2. ~IsrPrograms
  BY <1>1 DEF IsrPrograms
<1>3. ~MainPrograms
  <2> SUFFICES ASSUME MainPrograms PROVE FALSE
    OBVIOUS
  <2>a. PICK s \in SongSet : \E next \in Nexts(s) : \E k \in 0..PlayLen(s) - 1 : main = Yet(s, next, k)
    BY DEF MainPrograms, Programs
  <2>1. PICK next \in Nexts(s) : \E k \in 0..PlayLen(s) - 1 : main = Yet(s, next, k)
    BY <2>a
  <2>b. PICK k \in 0..PlayLen(s) - 1 : main = Yet(s, next, k)
    BY <2>1
  <2>2. Head(main) = PlayOp(s, next, k)
    BY <2>b, YetStep
  <2>3. CASE k < 6
    <3>1. k \in 0..5 /\ Head(main) = ProgramDma(s)[k + 1]
      BY <2>2, <2>3 DEF PlayOp
    <3> QED BY <3>1, SetupOps
  <2>4. CASE ~(k < 6)
    BY <2>2, <2>4, StartOps DEF PlayOp
  <2> QED BY <2>3, <2>4
<1>4. CASE Otherwise
  <2>a. main \notin {Reset, Tail(Reset)}
    BY ResetOps
  <2>b. main \notin {Detect(TRIGGER_IRQ), Detect(TRIGGER_IRQ16), Tail(Detect(TRIGGER_IRQ))}
    <3>1. \A v : Dsp(v).op = "dsp"
      BY DEF Dsp
    <3>2. \A v : Head(Detect(v)) = Dsp(v) /\ Head(Tail(Detect(v))) = [op |-> "wait"]
      BY DetectOps
    <3> DEFINE a == Detect(TRIGGER_IRQ)
               b == Detect(TRIGGER_IRQ16)
    <3>3. Head(a).op = "dsp"
      BY ONLY <3>1, <3>2
    <3>4. Head(b).op = "dsp"
      BY ONLY <3>1, <3>2
    <3>5. Head(Tail(a)).op = "wait"
      <4> DEFINE x == Head(Tail(a))
      <4>1. x = [op |-> "wait"]
        BY DetectOps, Zenon
      <4> HIDE DEF x
      <4>2. x.op = "wait"
        BY <4>1
      <4> QED BY <4>2 DEF x
    <3> HIDE DEF a, b
    <3>6. main # a /\ main # b /\ main # Tail(a)
      BY <3>3, <3>4, <3>5
    <3> QED BY <3>6 DEF a, b
  <2>c. main # StopWith(HALT)
    BY StopOps
  <2>d. main \notin {Pause, Tail(Pause)}
    <3>1. \A v : Dsp(v).op = "dsp"
      BY DEF Dsp
    <3>2. Head(Pause).op = "dsp" /\ Head(Tail(Pause)).op = "dsp"
      BY <3>1, PauseOps
    <3> QED BY <3>2
  <2>e. \A ch \in Channels : main # Poll(ch)
    BY PollOps DEF On
  <2>1. PICK ch \in Channels : main = Tail(Poll(ch))
    BY <1>4, <2>a, <2>b, <2>c, <2>d, <2>e DEF Otherwise
  <2>2. Head(main) = On("read", ch, 0) /\ Head(main).ch = ch
    BY <2>1, PollOps DEF On
  <2>3. ~dma[ch].odd /\ ChanOK(dma[ch])
    BY <1>4 DEF Otherwise, Even, IInv, DmaOK
  <2> QED BY <2>2, <2>3 DEF ChanOK, ChanShows
<1>5. CASE MainPolls
  <2>1. PICK ch \in Channels : main = <<On("read", ch, 0)>> /\ dma[ch].odd
    BY <1>5 DEF MainPolls
  <2>2. Head(main).ch = ch
    BY <2>1, PollOps DEF On
  <2> QED BY <2>1, <2>2
<1> QED BY <1>2, <1>3, <1>4, <1>5 DEF IInv, Scripts

\* The first half of an access that is not torn.
LEMMA HalfStays ==
  ASSUME IInv, MainHalf, torn' = {}
  PROVE  /\ UNCHANGED <<dsp, dma, irq, main, isr, song, poll, rang>>
         /\ MidOK'
<1> DEFINE op == Head(main)
<1>1. irq = Idle /\ main # <<>>
  BY DEF MainHalf
<1>2. CASE WriteChecked(op)
  <2>1. /\ UNCHANGED <<dsp, dma, irq, main, isr, song, poll, rang>>
        /\ mid' = [at |-> "checked", idle |-> dsp.cmd = INVALID]
        /\ op.op \in {"dsp", "start", "stop"}
    BY <1>2 DEF WriteChecked, Cut
  <2> QED BY <1>1, <2>1 DEF MidOK
<1>3. CASE ReadFetched(op)
  <2> DEFINE ch == op.ch
  <2>1. op.op = "read" /\ dma[ch].inIO
    BY <1>3 DEF ReadFetched, Cut
  <2>2. ch \in Channels /\ dma[ch].odd
    BY <1>1, <2>1, PairOpen
  <2>3. /\ UNCHANGED <<dsp, dma, irq, main, isr, song, poll, rang>>
        /\ mid' = [at |-> "fetched", value |-> dma[ch].reg]
    BY <1>3, <2>2 DEF ReadFetched, Cut
  <2>4. dma[ch].reg \in 0..Word - 1
    BY <2>2 DEF IInv, DmaOK, ChanOK, ChanTyping
  <2> QED BY <1>1, <2>1, <2>2, <2>3, <2>4 DEF MidOK
<1>4. ~StartHalf(op) /\ ~ReadHalf(op)
  BY DEF StartHalf, ReadHalf, Cut
<1> QED BY <1>2, <1>3, <1>4 DEF MainHalf

\* Both halves of an access that is not torn are the access.
LEMMA ResumesWhole ==
  ASSUME IInv, MidOK, MainResumes, torn' = {} PROVE MainAccess
<1>1. irq = Idle /\ UNCHANGED <<irq, isr, rang>> /\ mid # NoMid
  BY DEF MainResumes, WriteResumes, StartResumes, ReadResumes, NoMid
<1>2. CASE mid.at = "checked"
  <2> DEFINE op == Head(main)
  <2>1. mid.idle \in BOOLEAN /\ main # <<>> /\ op.op \in {"dsp", "start", "stop"}
    BY <1>1, <1>2 DEF MidOK
  <2>2. WriteResumes
    BY <1>2 DEF MainResumes, StartResumes, ReadResumes
  <2>3. ~dsp.hs /\ mid.idle = (dsp.cmd = INVALID)
    BY <2>2 DEF WriteResumes
  <2>4. /\ dsp' = IF mid.idle THEN DspCommand(dsp, op.v) ELSE DspData(dsp, op.v)
        /\ song' = CASE op.op = "start" -> op.asked
                     [] op.op = "stop" -> None
                     [] OTHER -> song
        /\ main' = Tail(main) /\ UNCHANGED <<dma, poll>>
    BY <2>2 DEF WriteResumes
  <2>5. dsp' = DspWrite(dsp, op.v)
    BY <2>3, <2>4 DEF DspWrite
  <2>6. OnDsp(op)
    <3>1. CASE op.op = "dsp"
      BY <1>1, <2>4, <2>5, <3>1 DEF OnDsp
    <3>2. CASE op.op = "start"
      BY <1>1, <2>4, <2>5, <3>2 DEF OnDsp
    <3>3. CASE op.op = "stop"
      BY <1>1, <2>4, <2>5, <3>3 DEF OnDsp
    <3> QED BY <2>1, <3>1, <3>2, <3>3
  <2> QED BY <1>1, <2>1, <2>4, <2>6 DEF MainAccess, Access
<1>3. CASE mid.at = "fetched"
  <2> DEFINE op == Head(main)
             ch == op.ch
  <2>1. main # <<>> /\ op.op = "read" /\ dma[ch].odd /\ mid.value = dma[ch].reg
    BY <1>1, <1>3 DEF MidOK
  <2>2. ReadResumes
    BY <1>3 DEF MainResumes, StartResumes, WriteResumes
  <2>3. /\ dma' = [dma EXCEPT ![ch] = ReadCounter(@)]
        /\ poll' = [poll EXCEPT !.open = FALSE, !.got = @ + ByteOf(dma[ch], mid.value) * Base]
        /\ main' = Tail(main) /\ UNCHANGED <<dsp, song>>
    BY <1>3, <2>1, <2>2 DEF ReadResumes
  <2>4. OnCounter(op)
    BY <1>1, <2>1, <2>3 DEF OnCounter
  <2> QED BY <1>1, <2>1, <2>3, <2>4 DEF MainAccess, Access
<1> QED BY <1>1, <1>2, <1>3 DEF MidOK

\* A register a pair of bytes is read of keeps its value.
LEMMA RegisterHeld ==
  ASSUME NEW c, ChanOK(c), c.odd, NEW b, NEW x, NEW y
  PROVE  LET e == SetIndexCounter(c, b, x, y) IN e.odd /\ e.reg = c.reg
<1> DEFINE a == Advance(c, b, x, y)
<1>1. a.odd = c.odd /\ a.reg = c.reg /\ a = [f \in ChanFields |-> a[f]]
  BY DEF ChanOK, ChanShape, ChanFields, Advance
<1>2. c.inIO
  BY DEF ChanOK, ChanShows
<1> HIDE DEF a
<1>3. SetIndexCounter(c, b, x, y) = [a EXCEPT !.delay = TRUE]
  BY <1>2 DEF SetIndexCounter, a
<1> QED BY <1>1, <1>3 DEF ChanFields

\* What MAIN_Interrupt and the handler do in the middle of an access.
LEMMA InterruptHolds ==
  ASSUME IInv, \/ CardInterrupts \/ TakeSamples \/ HandlerStarts
               \/ HandlerStep \/ TriggerAnswered \/ BlockAnswered
  PROVE  /\ main' = main /\ mid' = mid
         /\ main # <<>> /\ Head(main).op = "read" =>
               \A ch \in Channels : dma[ch].odd => dma'[ch].odd /\ dma'[ch].reg = dma[ch].reg
<1>1. main' = main /\ mid' = mid
  BY DEF CardInterrupts, TakeSamples, HandlerStarts, HandlerStep, TriggerAnswered, BlockAnswered,
         client, cut
<1>2. CASE CardInterrupts \/ HandlerStarts \/ TriggerAnswered \/ BlockAnswered
  <2>1. dma' = dma
    BY <1>2 DEF CardInterrupts, HandlerStarts, TriggerAnswered, BlockAnswered
  <2> QED BY <1>1, <2>1
<1>3. CASE TakeSamples
  <2>1. PICK b, x, y : dma' = [dma EXCEPT ![irq.ch] = SetIndexCounter(@, b, x, y)]
    BY <1>3 DEF TakeSamples
  <2>2. ASSUME NEW ch \in Channels, dma[ch].odd
        PROVE  dma'[ch].odd /\ dma'[ch].reg = dma[ch].reg
    <3>1. ChanOK(dma[ch]) /\ ch \in DOMAIN dma
      BY DEF IInv, DmaOK
    <3>2. CASE ch = irq.ch
      <4>1. dma'[ch] = SetIndexCounter(dma[ch], b, x, y)
        BY <2>1, <3>1, <3>2
      <4> QED BY <2>2, <3>1, <4>1, RegisterHeld
    <3>3. CASE ch # irq.ch
      <4>1. dma'[ch] = dma[ch]
        BY <2>1, <3>1, <3>3
      <4> QED BY <2>2, <4>1
    <3> QED BY <3>2, <3>3
  <2> QED BY <1>1, <2>2
<1>4. CASE HandlerStep
  <2> SUFFICES ASSUME main # <<>>, Head(main).op = "read" PROVE dma' = dma
    BY <1>1
  <2>1. irq.at \in Held /\ Access(Head(isr)) /\ isr # <<>>
    BY <1>4 DEF HandlerStep, Held
  <2>2. ~IsrPrograms
    BY ResetOps, StopOps DEF IsrPrograms
  <2>3. isr \in Acks \/ isr \in Ends
    BY <2>1, <2>2, ClosedPoll DEF IInv, Scripts, IsrQuiet, Held, MainPrograms, Calm
  <2>4. Head(isr).op \in {"ack8", "ack16", "stop"}
    <3>1. CASE isr \in Acks
      BY <2>1, <3>1, AckOps DEF Acks
    <3>2. CASE isr = StopWith(EXIT_AUTO)
      BY <3>2, StopOps
    <3>3. CASE \E w \in BOOLEAN : isr = Ack(w) \o StopWith(EXIT_AUTO)
      <4>1. PICK w \in BOOLEAN : isr = Ack(w) \o StopWith(EXIT_AUTO)
        BY <3>3
      <4> QED BY ONLY <4>1, AckOps
    <3> QED BY <2>3, <3>1, <3>2, <3>3 DEF Ends
  <2> QED BY <2>1, <2>4, AckAccess, DspAccess
<1> QED BY <1>2, <1>3, <1>4

LEMMA MidStays ==
  ASSUME IInv, MidOK, [Next]_vars, torn' = {} PROVE MidOK'
<1>1. CASE MainStep \/ MainDecides \/ MainResumes
  BY <1>1 DEF MainStep, MainDecides, MainResumes, MidOK, cut
<1>2. CASE MainHalf
  BY <1>2, HalfStays
<1>3. CASE \/ CardInterrupts \/ TakeSamples \/ HandlerStarts
           \/ HandlerStep \/ TriggerAnswered \/ BlockAnswered
  <2>1. /\ main' = main /\ mid' = mid
        /\ main # <<>> /\ Head(main).op = "read" =>
              \A ch \in Channels : dma[ch].odd => dma'[ch].odd /\ dma'[ch].reg = dma[ch].reg
    BY <1>3, InterruptHolds
  <2> QED BY <2>1 DEF MidOK
<1>4. CASE UNCHANGED vars
  BY <1>4 DEF vars, client, cut, MidOK
<1> QED BY <1>1, <1>2, <1>3, <1>4 DEF Next
-----------------------------------------------------------------------------
\* The theorems.

LEMMA StartsWell == ASSUME Init PROVE IInv
<1>1. /\ dsp = DspInit /\ dma = [ch \in Channels |-> DmaInit] /\ irq = Idle
      /\ main = <<>> /\ isr = <<>> /\ song = None /\ poll = NoPoll /\ rang = FALSE
  BY DEF Init
<1>2. DspTyped(dsp) /\ Still(dsp) /\ dsp.cmd = INVALID
  BY <1>1, InitDsp
<1>3. DmaOK(dma) /\ Even(dma)
  <2>1. \A ch \in Channels : dma[ch] = DmaInit
    BY <1>1
  <2>2. dma = [ch \in Channels |-> dma[ch]]
    BY <1>1
  <2> QED BY <2>1, <2>2, DmaInitChan DEF DmaOK, Even
<1>4. irq.at = "idle" /\ IrqOK
  BY <1>1 DEF Idle, IrqOK, Calm, Called
<1>5. PollOK /\ ~poll.open
  <2>1. poll = [open |-> FALSE, got |-> 0, seen |-> {0}]
    BY <1>1 DEF NoPoll
  <2>2. {0} \in SUBSET Int
    OBVIOUS
  <2>3. poll \in [open : BOOLEAN, got : Int, seen : SUBSET Int]
    BY <2>1, <2>2
  <2> QED BY <2>1, <2>3 DEF PollOK, CountersWhole
<1>6. SongOK
  BY <1>1, <1>2, <1>4 DEF SongOK, Calm
<1>7. Otherwise
  BY <1>1, <1>2, <1>3, <1>4, <1>5 DEF Otherwise, IsrQuiet, Held
<1> QED BY <1>1, <1>2, <1>3, <1>4, <1>5, <1>6, <1>7 DEF IInv, Scripts

\* Nothing happens but that an access is begun, or nothing at all.
LEMMA Stays ==
  ASSUME IInv, UNCHANGED <<dsp, dma, irq, main, isr, song, poll, rang>> PROVE IInv'
<1>1. SongOK' /\ IrqOK' /\ PollOK' /\ DspTyped(dsp') /\ DmaOK(dma') /\ rang' \in BOOLEAN
  BY DEF IInv, SongOK, IrqOK, PollOK, CountersWhole
<1>2. (Otherwise => Otherwise') /\ (MainPolls => MainPolls')
  BY DEF Otherwise, MainPolls, IsrQuiet, Repeats, Slow
<1>3. (MainPrograms => MainPrograms') /\ (IsrPrograms => IsrPrograms')
  BY DEF MainPrograms, IsrPrograms, Programs
<1> QED BY <1>1, <1>2, <1>3 DEF IInv, Scripts

LEMMA StepsWell == ASSUME Orderly, IInv, MidOK, [Next]_vars, torn' = {} PROVE IInv'
<1>1. CASE MainStep
  BY <1>1, MainInv DEF MainStep
<1>2. CASE MainDecides
  BY <1>2, DecideInv
<1>3. CASE CardInterrupts
  BY <1>3, CardInv
<1>4. CASE TakeSamples
  BY <1>4, TakeInv
<1>5. CASE HandlerStarts
  BY <1>5, HandlerStartsInv
<1>6. CASE HandlerStep
  BY <1>6, HandlerInv
<1>7. CASE TriggerAnswered
  BY <1>7, AnsweredInv
<1>8. CASE BlockAnswered
  BY <1>8, BlockInv
<1>9. CASE UNCHANGED vars
  <2>1. UNCHANGED <<dsp, dma, irq, main, isr, song, poll, rang>>
    BY <1>9 DEF vars, client
  <2> QED BY <2>1, Stays
<1>10. CASE MainHalf
  BY <1>10, HalfStays, Stays
<1>11. CASE MainResumes
  BY <1>11, ResumesWhole, MainInv
<1> QED BY <1>1, <1>2, <1>3, <1>4, <1>5, <1>6, <1>7, <1>8, <1>9, <1>10, <1>11 DEF Next

\* As long as no access is torn.
Inv == torn = {} => IInv /\ MidOK

\* Under a program that keeps the chips' rules the DSP, the DMA channels and
\* MAIN_Interrupt always agree with the block the program asked for.
THEOREM Invariance == ASSUME Orderly PROVE Spec => []Inv
<1>1. Init => Inv
  BY StartsWell DEF Init, Inv, MidOK
<1>2. Inv /\ [Next]_vars => Inv'
  <2> SUFFICES ASSUME Inv, [Next]_vars, torn' = {} PROVE IInv' /\ MidOK'
    BY DEF Inv
  <2>1. torn = {} /\ IInv /\ MidOK
    BY TornStays DEF Inv
  <2> QED BY <2>1, StepsWell, MidStays
<1> QED BY <1>1, <1>2, PTL DEF Spec

\* The registers of the DSP, of the DMA channels and of MAIN_Interrupt have their
\* types, as long as no access is torn: no counter or size leaves a 16 bit word.
THEOREM TypeCorrect == ASSUME Orderly PROVE Spec => [](torn = {} => TypeOK)
<1>1. Inv => (torn = {} => TypeOK)
  <2> SUFFICES ASSUME Inv, torn = {} PROVE TypeOK
    OBVIOUS
  <2>4. IInv /\ MidOK
    BY DEF Inv
  <2>1. dsp \in DspSet
    BY <2>4, DspTypes DEF IInv
  <2>2. dma \in [Channels -> ChanSet]
    <3>1. \A ch \in Channels : dma[ch] \in ChanSet
      BY <2>4, ChanTypes DEF IInv, DmaOK, ChanOK
    <3> QED BY <2>4, <3>1 DEF IInv, DmaOK
  <2>3. irq.at \in {"idle", "trigger", "triggered", "play", "raise", "raised"}
    BY <2>4 DEF IInv, IrqOK, Calm, Called
  <2>5. mid \in {NoMid} \cup [at : {"checked"}, idle : BOOLEAN]
                     \cup [at : {"fetched"}, value : 0..Word - 1]
    BY <2>4 DEF MidOK
  <2> QED BY <2>1, <2>2, <2>3, <2>4, <2>5 DEF TypeOK, DspSet, ChanSet, IInv
<1> QED BY <1>1, Invariance, PTL

\* The handler is called for a block when exactly that block has been taken,
\* whatever the program does meanwhile and however much the card wants.
THEOREM BlocksAreWhole == ASSUME Orderly PROVE Spec => []WholeBlocks
<1>1. Inv => WholeBlocks
  <2> SUFFICES ASSUME IInv, song # None
               PROVE  song.taken <= song.block /\ (irq.at = "raise" => song.taken = song.block)
    BY DEF WholeBlocks, Inv
  <2>1. Plays(dsp, dma, song, irq.at)
    BY DEF IInv, SongOK
  <2>2. song.taken \in Nat /\ song.block \in Nat
    BY <2>1 DEF Plays, AskedSet
  <2> QED BY <2>1, <2>2 DEF Plays
<1> QED BY <1>1, Invariance, PTL

\* A DMA counter the program reads in two bytes is one the channel had in between,
\* though MAIN_Interrupt moves the counter between the two accesses and after the
\* second has copied the register.  It may be another only if it has once come
\* into a read where InIO does not hold the register, or torn a write.
THEOREM PollsStayCurrent == ASSUME Orderly PROVE Spec => []PollsAreCurrent
<1>1. Inv => PollsAreCurrent
  BY DEF Inv, IInv, PollOK, PollsAreCurrent
<1> QED BY <1>1, Invariance, PTL

\* Samples are taken in the order of the buffer, from the channel of the block,
\* and never from behind the buffer.
THEOREM TakenInOrder == ASSUME Orderly, Behaved PROVE Spec => InOrder
<1> DEFINE Order == torn = {} /\ irq.at = "play" =>
                        /\ song # None
                        /\ irq.ch = Channel(song.kind)
                        /\ irq.index % song.count = song.next
                        /\ irq.index + (song'.taken - song.taken) <= song.count
<1>1. Inv /\ Next => Order
  <2> SUFFICES ASSUME IInv, Next, irq.at = "play" PROVE Order
    BY DEF Inv
  <2>1. TakeSamples
    BY DEF Next, MainStep, MainAccess, MainHalf, MainResumes, MainDecides, CardInterrupts,
           HandlerStarts, HandlerStep, TriggerAnswered, BlockAnswered, Idle
  <2>2. song # None /\ irq.ch = Channel(song.kind)
    BY PlayScripts
  <2>3. /\ irq.index % song.count = song.next
        /\ irq.index + (song'.taken - song.taken) <= song.count
    BY <2>1, TakeInv
  <2> QED BY <2>2, <2>3
<1>2. Inv /\ [Next]_vars => [Order]_vars
  BY <1>1
<1> HIDE DEF Order
<1>3. [][Next]_vars /\ []Inv => [][Order]_vars
  BY <1>2, PTL
<1>4. Spec => [][Order]_vars
  BY <1>3, Invariance, PTL DEF Spec
<1> QED BY <1>4 DEF InOrder, Order
=============================================================================

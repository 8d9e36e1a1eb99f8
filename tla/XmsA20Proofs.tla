----------------------------- MODULE XmsA20Proofs -----------------------------
(***************************************************************************)
(* Proofs about XmsA20: A20 is on whenever a client that enabled it runs   *)
(* and whenever a block is moved, for any bounds and any main program,     *)
(* where interrupt routines are Preserving.                                *)
(***************************************************************************)
EXTENDS XmsA20, TLAPS

IsrLabels == {"idle", "mv_on", "mv_check", "mv_copy", "mv_off", "i15_bios", "i15_restore"}

\* The line as the main program will find it when the interrupt routine has ended.
Line == IF pc["isr"] = "idle" THEN a20 ELSE saw["isr"]

\* Who runs, and whose the local enables are.
CountOK ==
    /\ cur = "main" => pc["isr"] = "idle"
    /\ pc["isr"] \in IsrLabels
    /\ holds["isr"] = 0 /\ locks = holds["main"]
    /\ locks <= MaxLocks
    /\ pc["main"] = "le_inc" => locks < MaxLocks
    /\ \A c \in Ctxs : pc[c] = "mv_copy" => left[c] > 0

\* What a routine in the middle of a call knows.
IsrOK ==
    /\ pc["isr"] \in {"mv_on", "mv_off"} => ~saw["isr"]
    /\ pc["isr"] \in {"mv_check", "mv_copy"} => a20

\* What the main program in the middle of a call knows; Line stands for the line.
MainOK ==
    /\ locks # 0 /\ pc["main"] \notin {"ge_on", "i15_restore"} => Line
    /\ pc["main"] = "ge_test" => Line
    /\ pc["main"] \in {"gd_off", "gd_test", "gd_check"} => locks = 0
    /\ pc["main"] = "ld_dec" => locks # 0
    /\ pc["main"] = "le_inc" => (saw["main"] <=> locks = 0)
    /\ pc["main"] \in {"mv_on", "mv_off"} => ~saw["main"] /\ locks = 0
    /\ pc["main"] \in {"mv_check", "mv_copy"} => Line /\ (saw["main"] \/ locks = 0)
    /\ pc["main"] \in {"i15_bios", "i15_restore"} => saw["main"] \/ locks = 0

IInv == TypeOK /\ CountOK /\ IsrOK /\ MainOK

-----------------------------------------------------------------------------
(* The invariant holds at the start and after each step.                    *)

\* The parts of TypeOK the steps need.
LEMMA Types ==
    ASSUME TypeOK
    PROVE  /\ pc \in [Ctxs -> Labels] /\ saw \in [Ctxs -> BOOLEAN]
           /\ left \in [Ctxs -> Nat] /\ holds \in [Ctxs -> Nat] /\ locks \in Nat
           /\ a20 \in BOOLEAN /\ MaxLocks \in Nat \ {0} /\ MaxChunks \in Nat
           /\ "main" \in Ctxs /\ "isr" \in Ctxs /\ "main" # "isr"
BY A20Assumption DEF TypeOK, Ctxs

LEMMA InitInv == Init => IInv
<1> SUFFICES ASSUME Init PROVE IInv
  OBVIOUS
<1>1. MaxLocks \in Nat \ {0} /\ MaxChunks \in Nat
  BY A20Assumption
<1>2. "main" \in Ctxs /\ "isr" \in Ctxs /\ locks = 0 /\ cur = "main"
      /\ pc = [c \in Ctxs |-> "idle"] /\ saw = [c \in Ctxs |-> FALSE]
      /\ holds = [c \in Ctxs |-> 0] /\ left = [c \in Ctxs |-> 0]
  BY DEF Init, Ctxs
<1>3. TypeOK
  <2>1. 0 \in 0 .. MaxLocks + 2 /\ 0 \in 0 .. MaxChunks
    BY <1>1
  <2>2. locks \in 0 .. MaxLocks + 2 /\ holds \in [Ctxs -> 0 .. MaxLocks + 2]
        /\ left \in [Ctxs -> 0 .. MaxChunks]
    BY <1>2, <2>1
  <2>3. pc \in [Ctxs -> Labels] /\ saw \in [Ctxs -> BOOLEAN]
    BY <1>2 DEF Labels
  <2>4. ret \in [Ctxs -> {"ok", "fail"}] /\ has \subseteq Ctxs
    BY DEF Init
  <2> QED BY <1>2, <2>2, <2>3, <2>4 DEF Init, TypeOK
<1>4. CountOK /\ IsrOK /\ MainOK
  BY <1>1, <1>2 DEF CountOK, IsrOK, MainOK, IsrLabels
<1> QED BY <1>3, <1>4 DEF IInv

\* The main program steps: no routine is in the driver, so Line is a20.
LEMMA MainStep ==
    ASSUME IInv, cur = "main", Step("main")
    PROVE  IInv'
<1> DEFINE c == "main"
<1>0. TypeOK /\ CountOK /\ IsrOK /\ MainOK
  BY DEF IInv
<1>1. CASE \E small \in BOOLEAN : HmaRequest(c, small)
  BY <1>0, <1>1, Types
  DEF HmaRequest, Call, At, Return, Goto, IInv, TypeOK, CountOK, IsrOK, MainOK, Line,
      Ctxs, Labels, IsrLabels
<1>2. CASE HmaAssign(c)
  BY <1>0, <1>2, Types
  DEF HmaAssign, At, Return, IInv, TypeOK, CountOK, IsrOK, MainOK, Line,
      Ctxs, Labels, IsrLabels
<1>3. CASE HmaRelease(c)
  BY <1>0, <1>3, Types
  DEF HmaRelease, Call, At, Return, Goto, IInv, TypeOK, CountOK, IsrOK, MainOK, Line,
      Ctxs, Labels, IsrLabels
<1>4. CASE HmaClear(c)
  BY <1>0, <1>4, Types
  DEF HmaClear, At, Return, IInv, TypeOK, CountOK, IsrOK, MainOK, Line,
      Ctxs, Labels, IsrLabels
<1>5. CASE GlobalEnable(c)
  BY <1>0, <1>5, Types
  DEF GlobalEnable, Call, At, Goto, EnableA20, IInv, TypeOK, CountOK, IsrOK, MainOK, Line,
      Ctxs, Labels, IsrLabels
<1>6. CASE EnableTest(c)
  BY <1>0, <1>6, Types
  DEF EnableTest, At, Return, IInv, TypeOK, CountOK, IsrOK, MainOK, Line,
      Ctxs, Labels, IsrLabels
<1>7. CASE GlobalDisable(c)
  BY <1>0, <1>7, Types
  DEF GlobalDisable, Call, At, Return, Goto, IInv, TypeOK, CountOK, IsrOK, MainOK, Line,
      Ctxs, Labels, IsrLabels
<1>8. CASE DisableLine(c)
  BY <1>0, <1>8, Types
  DEF DisableLine, At, DisableA20, Goto, IInv, TypeOK, CountOK, IsrOK, MainOK, Line,
      Ctxs, Labels, IsrLabels
<1>9. CASE DisableTest(c)
  BY <1>0, <1>9, Types
  DEF DisableTest, At, Return, IInv, TypeOK, CountOK, IsrOK, MainOK, Line,
      Ctxs, Labels, IsrLabels
<1>10. CASE LocalEnable(c)
  <2>1. (locks < 1) \in BOOLEAN /\ (locks < 1 <=> locks = 0)
    BY <1>0, Types
  <2> QED BY <1>0, <1>10, <2>1, Types
  DEF LocalEnable, Call, At, Goto, IInv, TypeOK, CountOK, IsrOK, MainOK, Line,
      Ctxs, Labels, IsrLabels
<1>11. CASE LocalInc(c)
  BY <1>0, <1>11, Types
  DEF LocalInc, At, Return, Goto, IInv, TypeOK, CountOK, IsrOK, MainOK, Line,
      Ctxs, Labels, IsrLabels
<1>12. CASE LocalDisable(c)
  BY <1>0, <1>12, Types
  DEF LocalDisable, Call, At, Return, Goto, IInv, TypeOK, CountOK, IsrOK, MainOK, Line,
      Ctxs, Labels, IsrLabels
<1>13. CASE LocalDec(c)
  BY <1>0, <1>13, Types
  DEF LocalDec, At, Return, Goto, IInv, TypeOK, CountOK, IsrOK, MainOK, Line,
      Ctxs, Labels, IsrLabels
<1>14. CASE QueryA20(c)
  BY <1>0, <1>14, Types
  DEF QueryA20, Call, At, Return, IInv, TypeOK, CountOK, IsrOK, MainOK, Line,
      Ctxs, Labels, IsrLabels
<1>15. CASE MoveTest(c)
  BY <1>0, <1>15, Types
  DEF MoveTest, Call, At, Goto, IInv, TypeOK, CountOK, IsrOK, MainOK, Line,
      Ctxs, Labels, IsrLabels
<1>16. CASE MoveOn(c)
  BY <1>0, <1>16, Types
  DEF MoveOn, At, EnableA20, Goto, IInv, TypeOK, CountOK, IsrOK, MainOK, Line,
      Ctxs, Labels, IsrLabels
<1>17. CASE MoveOff(c)
  BY <1>0, <1>17, Types
  DEF MoveOff, At, DisableA20, IInv, TypeOK, CountOK, IsrOK, MainOK, Line,
      Ctxs, Labels, IsrLabels
<1>18. CASE \E ok \in BOOLEAN : MoveChunk(c, ok)
  BY <1>0, <1>18, Types
  DEF MoveChunk, At, MoveReturn, Return, Goto, IInv, TypeOK, CountOK, IsrOK, MainOK, Line,
      Ctxs, Labels, IsrLabels
<1>19. CASE \E n \in 0 .. MaxChunks, valid \in BOOLEAN : MoveCheck(c, n, valid)
  BY <1>0, <1>19, Types
  DEF MoveCheck, At, MoveReturn, Return, Goto, IInv, TypeOK, CountOK, IsrOK, MainOK, Line,
      Ctxs, Labels, IsrLabels
<1>20. CASE Int15(c)
  BY <1>0, <1>20, Types
  DEF Int15, Call, At, Goto, IInv, TypeOK, CountOK, IsrOK, MainOK, Line,
      Ctxs, Labels, IsrLabels
<1>21. CASE BiosMove(c)
  BY <1>0, <1>21, Types
  DEF BiosMove, At, Goto, IInv, TypeOK, CountOK, IsrOK, MainOK, Line,
      Ctxs, Labels, IsrLabels
<1>22. CASE Int15Restore(c)
  BY <1>0, <1>22, Types
  DEF Int15Restore, At, EnableA20, DisableA20, Return, IInv, TypeOK, CountOK, IsrOK, MainOK, Line,
      Ctxs, Labels, IsrLabels
<1> QED BY <1>1, <1>2, <1>3, <1>4, <1>5, <1>6, <1>7, <1>8, <1>9, <1>10, <1>11, <1>12, <1>13, <1>14, <1>15, <1>16, <1>17, <1>18, <1>19, <1>20, <1>21, <1>22
        DEF Step, Hma, Global, Local, Move, Bios

\* A routine steps: it queries, moves blocks or calls the BIOS.
LEMMA IsrStep ==
    ASSUME IInv, Preserving, cur = "isr", Step("isr")
    PROVE  IInv'
<1> DEFINE c == "isr"
<1>0. TypeOK /\ CountOK /\ IsrOK /\ MainOK
  BY DEF IInv
<1>1. pc[c] \in IsrLabels /\ IsrOps \subseteq {"query", "move", "int15"}
  BY <1>0 DEF CountOK, Preserving
<1>2. CASE QueryA20(c)
  BY <1>0, <1>2, Types
  DEF QueryA20, Call, At, Return, IInv, TypeOK, CountOK, IsrOK, MainOK, Line,
      Ctxs, Labels, IsrLabels
<1>3. CASE MoveTest(c)
  BY <1>0, <1>3, Types
  DEF MoveTest, Call, At, Goto, IInv, TypeOK, CountOK, IsrOK, MainOK, Line,
      Ctxs, Labels, IsrLabels
<1>4. CASE MoveOn(c)
  BY <1>0, <1>4, Types
  DEF MoveOn, At, EnableA20, Goto, IInv, TypeOK, CountOK, IsrOK, MainOK, Line,
      Ctxs, Labels, IsrLabels
<1>5. CASE MoveOff(c)
  BY <1>0, <1>5, Types
  DEF MoveOff, At, DisableA20, IInv, TypeOK, CountOK, IsrOK, MainOK, Line,
      Ctxs, Labels, IsrLabels
<1>6. CASE \E ok \in BOOLEAN : MoveChunk(c, ok)
  BY <1>0, <1>6, Types
  DEF MoveChunk, At, MoveReturn, Return, Goto, IInv, TypeOK, CountOK, IsrOK, MainOK, Line,
      Ctxs, Labels, IsrLabels
<1>7. CASE \E n \in 0 .. MaxChunks, valid \in BOOLEAN : MoveCheck(c, n, valid)
  BY <1>0, <1>7, Types
  DEF MoveCheck, At, MoveReturn, Return, Goto, IInv, TypeOK, CountOK, IsrOK, MainOK, Line,
      Ctxs, Labels, IsrLabels
<1>8. CASE Int15(c)
  BY <1>0, <1>8, Types
  DEF Int15, Call, At, Goto, IInv, TypeOK, CountOK, IsrOK, MainOK, Line,
      Ctxs, Labels, IsrLabels
<1>9. CASE BiosMove(c)
  BY <1>0, <1>9, Types
  DEF BiosMove, At, Goto, IInv, TypeOK, CountOK, IsrOK, MainOK, Line,
      Ctxs, Labels, IsrLabels
<1>10. CASE Int15Restore(c)
  BY <1>0, <1>10, Types
  DEF Int15Restore, At, EnableA20, DisableA20, Return, IInv, TypeOK, CountOK, IsrOK, MainOK, Line,
      Ctxs, Labels, IsrLabels
<1>11. ~Hma(c) /\ ~Global(c) /\ ~Local(c)
  BY <1>1
  DEF Hma, HmaRequest, HmaAssign, HmaRelease, HmaClear, Global, GlobalEnable, EnableTest,
      GlobalDisable, DisableLine, DisableTest, Local, LocalEnable, LocalInc, LocalDisable,
      LocalDec, Call, At, OpsOf, IsrLabels
<1> QED BY <1>2, <1>3, <1>4, <1>5, <1>6, <1>7, <1>8, <1>9, <1>10, <1>11 DEF Step, Move, Bios

LEMMA StepsOfCur ==
    ASSUME NEW c \in Ctxs, Step(c)
    PROVE  cur = c
BY DEF Step, Hma, HmaRequest, HmaAssign, HmaRelease, HmaClear, Global, GlobalEnable, EnableTest,
       GlobalDisable, DisableLine, DisableTest, Local, LocalEnable, LocalInc, LocalDisable,
       LocalDec, QueryA20, Move, MoveTest, MoveOn, MoveOff, MoveChunk, MoveCheck, Bios, Int15,
       BiosMove, Int15Restore, Call, At

LEMMA StepInv ==
    ASSUME Preserving
    PROVE  IInv /\ [Next]_vars => IInv'
<1> SUFFICES ASSUME IInv, [Next]_vars PROVE IInv'
  OBVIOUS
<1>1. CASE \E c \in Ctxs : Step(c)
  BY <1>1, StepsOfCur, MainStep, IsrStep DEF Ctxs
<1>2. CASE Interrupt
  BY <1>2 DEF Interrupt, IInv, TypeOK, CountOK, IsrOK, MainOK, Line, Ctxs
<1>3. CASE Iret
  BY <1>3 DEF Iret, At, IInv, TypeOK, CountOK, IsrOK, MainOK, Line, Ctxs
<1>4. CASE UNCHANGED vars
  BY <1>4 DEF vars, IInv, TypeOK, CountOK, IsrOK, MainOK, Line, Ctxs
<1> QED BY <1>1, <1>2, <1>3, <1>4 DEF Next

-----------------------------------------------------------------------------
\* The inductive invariant holds in every run.
THEOREM Invariance == ASSUME Preserving PROVE Spec => []IInv
BY InitInv, StepInv, PTL DEF Spec

\* The state keeps its types; the counter of local enables keeps within its bound.
THEOREM TypeCorrect == ASSUME Preserving PROVE Spec => []TypeOK
<1>1. IInv => TypeOK
  BY DEF IInv
<1> QED BY <1>1, Invariance, PTL

\* Whoever enabled A20 locally finds it on whenever he runs.
THEOREM HolderFindsA20 == ASSUME Preserving PROVE Spec => []HolderHasA20
<1>1. IInv => HolderHasA20
  <2> SUFFICES ASSUME IInv, NEW c \in Ctxs, At(c, "idle"), holds[c] > 0 PROVE a20
    BY DEF HolderHasA20
  <2>1. c = "main" /\ pc["isr"] = "idle" /\ locks # 0
    BY Types DEF IInv, CountOK, At, Ctxs
  <2> QED BY <2>1 DEF IInv, MainOK, Line, At
<1> QED BY <1>1, Invariance, PTL

\* Every chunk of every block move is copied with A20 on.
THEOREM CopyHasA20 == ASSUME Preserving PROVE Spec => CopiedWithA20
<1>1. ASSUME IInv, NEW c \in Ctxs, NEW ok \in BOOLEAN, MoveChunk(c, ok)
      PROVE  a20
  <2>1. cur = c /\ pc[c] = "mv_copy"
    BY <1>1 DEF MoveChunk, At
  <2>2. CASE c = "main"
    BY <1>1, <2>1, <2>2 DEF IInv, CountOK, MainOK, Line
  <2>3. CASE c = "isr"
    BY <1>1, <2>1, <2>3 DEF IInv, IsrOK
  <2> QED BY <2>2, <2>3 DEF Ctxs
<1>2. IInv /\ [Next]_vars => [\A c \in Ctxs, ok \in BOOLEAN : MoveChunk(c, ok) => a20]_vars
  BY <1>1
<1> QED BY <1>2, Invariance, PTL DEF Spec, CopiedWithA20

\* A step that ends a call of c is a step of c.
LEMMA EndsOwnCall ==
    ASSUME IInv, Next, NEW c \in Ctxs, pc[c] # "idle", pc'[c] = "idle"
    PROVE  Step(c)
<1>1. PICK o \in Ctxs : Step(o)
  BY DEF Next, Interrupt, Iret
<1>2. ASSUME o # c PROVE pc'[c] = pc[c]
  BY <1>1, <1>2, Types
  DEF IInv, Step, Hma, HmaRequest, HmaAssign, HmaRelease, HmaClear, Global, GlobalEnable,
      EnableTest, GlobalDisable, DisableLine, DisableTest, Local, LocalEnable, LocalInc,
      LocalDisable, LocalDec, QueryA20, Move, MoveTest, MoveOn, MoveOff, MoveChunk, MoveCheck,
      MoveReturn, Bios, Int15, BiosMove, Int15Restore, Return, Goto
<1> QED BY <1>1, <1>2

\* A block move and INT 15h give the line back as they found it.
THEOREM LineIsRestored == ASSUME Preserving PROVE Spec => StateRestored
<1> DEFINE Kept(c) == pc[c] \in {"mv_check", "mv_copy", "mv_off", "i15_restore"} /\ pc'[c] = "idle"
                      => a20' = saw[c]
<1>1. ASSUME IInv, Next, NEW c \in Ctxs, pc'[c] = "idle",
             pc[c] \in {"mv_check", "mv_copy", "mv_off", "i15_restore"}
      PROVE  a20' = saw[c]
  <2>1. Step(c) /\ cur = c
    BY <1>1, EndsOwnCall, StepsOfCur
  <2>2. Move(c) \/ Bios(c)
    BY <1>1, <2>1
    DEF Step, Hma, HmaRequest, HmaAssign, HmaRelease, HmaClear, Global, GlobalEnable, EnableTest,
        GlobalDisable, DisableLine, DisableTest, Local, LocalEnable, LocalInc, LocalDisable,
        LocalDec, QueryA20, Call, At
  <2>3. a20 \in BOOLEAN /\ saw[c] \in BOOLEAN /\ pc \in [Ctxs -> Labels]
    BY <1>1, Types DEF IInv
  <2>4. pc[c] \in {"mv_check", "mv_copy"} => a20
    BY <1>1, <2>1 DEF IInv, CountOK, IsrOK, MainOK, Line, Ctxs
  <2>5. pc[c] = "mv_off" => ~saw[c]
    BY <1>1, <2>1 DEF IInv, IsrOK, MainOK, Ctxs
  <2> QED BY <1>1, <2>2, <2>3, <2>4, <2>5
          DEF Move, MoveTest, MoveOn, MoveOff, MoveChunk, MoveCheck, MoveReturn, Bios, Int15,
              BiosMove, Int15Restore, EnableA20, DisableA20, Return, Goto, Call, At
<1>2. IInv /\ [Next]_vars => [\A c \in Ctxs : Kept(c)]_vars
  BY <1>1
<1> QED BY <1>2, Invariance, PTL DEF Spec, StateRestored

\* An enable that reports success leaves A20 on.
THEOREM EnableTellsTruth == ASSUME Preserving PROVE Spec => EnableIsTrue
<1> DEFINE True(c) == pc[c] \in {"le_inc", "ge_test"} /\ pc'[c] = "idle" /\ ret'[c] = "ok" => a20'
<1>1. ASSUME IInv, Next, NEW c \in Ctxs, pc[c] \in {"le_inc", "ge_test"}, pc'[c] = "idle",
             ret'[c] = "ok"
      PROVE  a20'
  <2>1. Step(c) /\ cur = c
    BY <1>1, EndsOwnCall, StepsOfCur
  <2>2. c = "main" /\ pc["isr"] = "idle"
    BY <1>1, <2>1 DEF IInv, CountOK, IsrLabels, Ctxs
  <2>3. LocalInc(c) \/ EnableTest(c)
    BY <1>1, <2>1
    DEF Step, Hma, HmaRequest, HmaAssign, HmaRelease, HmaClear, Global, GlobalEnable,
        GlobalDisable, DisableLine, DisableTest, Local, LocalEnable, LocalDisable, LocalDec,
        QueryA20, Move, MoveTest, MoveOn, MoveOff, MoveChunk, MoveCheck, Bios, Int15, BiosMove,
        Int15Restore, Call, At
  <2>4. ret \in [Ctxs -> {"ok", "fail"}] /\ pc \in [Ctxs -> Labels] /\ saw \in [Ctxs -> BOOLEAN]
        /\ locks \in Nat
    BY <1>1, Types DEF IInv, TypeOK
  <2>5. CASE LocalInc(c)
    <3>1. ~saw[c] /\ a20' = a20 /\ pc[c] = "le_inc"
      BY <1>1, <2>4, <2>5 DEF LocalInc, Goto, Return, At
    <3> QED BY <1>1, <2>2, <2>4, <3>1 DEF IInv, MainOK, Line
  <2>6. CASE EnableTest(c)
    BY <1>1, <2>4, <2>6 DEF EnableTest, Return
  <2> QED BY <2>3, <2>5, <2>6
<1>2. IInv /\ [Next]_vars => [\A c \in Ctxs : True(c)]_vars
  BY <1>1
<1> QED BY <1>2, Invariance, PTL DEF Spec, EnableIsTrue
===============================================================================

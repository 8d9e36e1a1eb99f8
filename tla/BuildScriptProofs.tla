--------------------------- MODULE BuildScriptProofs ---------------------------
(***************************************************************************)
(* Proofs about BuildScript, for every number of runs of the script.       *)
(***************************************************************************)
EXTENDS BuildScript, TLAPS

LEMMA InitInv == Init => IInv
<1> SUFFICES ASSUME Init PROVE IInv
  OBVIOUS
<1>1. 0 \in 0 .. MaxRuns
  BY RunsAssumption
<1>2. TypeOK
  BY <1>1 DEF Init, TypeOK, Places, Versions, NoBuild
<1>3. LastBuildKept /\ NothingStale
  BY DEF Init, LastBuildKept, NothingStale, NoBuild
<1> QED BY <1>2, <1>3 DEF Init, IInv

LEMMA StepInv == ASSUME IInv, [Next]_vars PROVE IInv'
<1> USE RunsAssumption
<1>1. CASE Begin
  BY <1>1 DEF Begin, IInv, TypeOK, LastBuildKept, NothingStale, Places
<1>2. CASE BackupTos
  BY <1>2 DEF BackupTos, Moved, IInv, TypeOK, LastBuildKept, NothingStale, Places, Versions
<1>3. CASE BackupKernel
  BY <1>3 DEF BackupKernel, Moved, IInv, TypeOK, LastBuildKept, NothingStale, Places, Versions
<1>4. CASE Clean
  BY <1>4 DEF Clean, NoBuild, IInv, TypeOK, LastBuildKept, NothingStale, Places
<1>5. ASSUME NEW ok \in BOOLEAN, Nasm(ok) PROVE IInv'
  BY <1>5 DEF Nasm, IInv, TypeOK, LastBuildKept, NothingStale, Places, Versions
<1>6. ASSUME NEW ok \in BOOLEAN, Gcc(ok) PROVE IInv'
  <2>1. CASE ok
    BY <1>6, <2>1 DEF Gcc, IInv, TypeOK, LastBuildKept, NothingStale, Places, Versions
  <2>2. CASE ~ok
    BY <1>6, <2>2 DEF Gcc, IInv, TypeOK, LastBuildKept, NothingStale, Places, Versions
  <2> QED BY <2>1, <2>2
<1>7. ASSUME NEW ok \in BOOLEAN, Stubedit(ok) PROVE IInv'
  BY <1>7 DEF Stubedit, IInv, TypeOK, LastBuildKept, NothingStale, Places
<1>8. CASE BootstrapFailed
  BY <1>8 DEF BootstrapFailed, IInv, TypeOK, LastBuildKept, NothingStale, Places
<1>9. CASE MakeTree
  BY <1>9 DEF MakeTree, IInv, TypeOK, LastBuildKept, NothingStale, Places, Versions
<1>10. CASE UNCHANGED vars
  BY <1>10 DEF vars, IInv, TypeOK, LastBuildKept, NothingStale
<1> QED BY <1>1, <1>2, <1>3, <1>4, <1>5, <1>6, <1>7, <1>8, <1>9, <1>10 DEF Next

\* The inductive invariant of the build script, whichever tools fail in whichever
\* run.
THEOREM Invariance == Spec => []IInv
BY InitInv, StepInv, PTL DEF Spec

\* Every place, version and flag stays in its type.
THEOREM TypeCorrect == Spec => []TypeOK
<1>1. IInv => TypeOK
  BY DEF IInv
<1> QED BY <1>1, Invariance, PTL

\* The last bootstrap and the last kernel that were built survive any number of runs
\* that fail after the backup.
THEOREM BuildSurvives == Spec => []LastBuildKept
<1>1. IInv => LastBuildKept
  BY DEF IInv
<1> QED BY <1>1, Invariance, PTL

\* A failed tool never leaves the file of an earlier run under the name of this
\* run's.
THEOREM NoStaleFile == Spec => []NothingStale
<1>1. IInv => NothingStale
  BY DEF IInv
<1> QED BY <1>1, Invariance, PTL
=================================================================================

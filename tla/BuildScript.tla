------------------------------- MODULE BuildScript -------------------------------
(***************************************************************************)
(* buildAll.bat and the src32\build.bat it starts: the previous build is   *)
(* put aside, the bootstrap and the kernel are built, and the tree of the  *)
(* product is made.  Any tool may fail, and the script may be run again.   *)
(* A version is the number of the run that made a file; 0 is no file.      *)
(***************************************************************************)
EXTENDS Naturals

CONSTANT MaxRuns    \* bound: how often the script is run

ASSUME RunsAssumption == MaxRuns \in Nat \ {0}

VARIABLES at,       \* where the script is
          run,      \* the number of this run
          source,   \* src16\toscom\tos.asm is there
          tos,      \* tos.com, [cur |-> version, prev |-> version of tos.prev.com]
          kernel,   \* kernel.exe, the same
          stubbed,  \* stubedit has set the DPMI host of the current kernel.exe
          build,    \* build\, what was copied to it, or NoBuild
          made      \* history: the last version of each that was built

vars == <<at, run, source, tos, kernel, stubbed, build, made>>

NoBuild == [tree |-> FALSE, tos |-> 0, kernel |-> 0]

Init ==
    /\ at = "ended" /\ run = 0 /\ source \in BOOLEAN
    /\ tos = [cur |-> 0, prev |-> 0] /\ kernel = [cur |-> 0, prev |-> 0]
    /\ stubbed = FALSE /\ build = NoBuild
    /\ made = [tos |-> 0, kernel |-> 0]

\* A console is opened in the root of the repository; sources come and go
\* between runs.
Begin ==
    /\ at = "ended" /\ run < MaxRuns
    /\ run' = run + 1 /\ at' = "backup_tos"
    /\ source' \in BOOLEAN
    /\ UNCHANGED <<tos, kernel, stubbed, build, made>>

\* Mutants: the backup is replaced by nothing where there is no current file;
\* the current file is copied and stays.
MovedBlindly(f) == [cur |-> 0, prev |-> f.cur]
Copied(f)       == [cur |-> f.cur, prev |-> IF f.cur = 0 THEN f.prev ELSE f.cur]

\* MOVE /Y: overwrites what is there, and leaves all alone without a source.
Moved(f) == IF f.cur = 0 THEN f ELSE [cur |-> 0, prev |-> f.cur]

BackupTos ==
    /\ at = "backup_tos"
    /\ tos' = Moved(tos) /\ at' = "backup_kernel"
    /\ UNCHANGED <<run, source, kernel, stubbed, build, made>>

BackupKernel ==
    /\ at = "backup_kernel"
    /\ kernel' = Moved(kernel) /\ stubbed' = FALSE /\ at' = "clean"
    /\ UNCHANGED <<run, source, tos, build, made>>

Clean ==
    /\ at = "clean"
    /\ build' = NoBuild /\ at' = "nasm"
    /\ UNCHANGED <<run, source, tos, kernel, stubbed, made>>

\* nasm leaves no output where it fails; the script then looks for tos.asm, not
\* for tos.com.
Nasm(ok) ==
    /\ at = "nasm" /\ (ok => source)
    /\ tos' = IF ok THEN [tos EXCEPT !.cur = run] ELSE tos
    /\ made' = IF ok THEN [made EXCEPT !.tos = run] ELSE made
    /\ at' = IF source THEN "gcc" ELSE "bfb"
    /\ UNCHANGED <<run, source, kernel, stubbed, build>>

\* build.bat in src32, started without CALL: control does not come back.
Gcc(ok) ==
    /\ at = "gcc"
    /\ kernel' = IF ok THEN [kernel EXCEPT !.cur = run] ELSE kernel
    /\ made' = IF ok THEN [made EXCEPT !.kernel = run] ELSE made
    /\ stubbed' = FALSE /\ at' = "stubedit"
    /\ UNCHANGED <<run, source, tos, build>>

\* Mutant: stubedit is taken to succeed, as the script does not ask.
StubeditDone(ok) ==
    /\ at = "stubedit"
    /\ stubbed' = TRUE /\ at' = "ended"
    /\ UNCHANGED <<run, source, tos, kernel, build, made>>

Stubedit(ok) ==
    /\ at = "stubedit" /\ (ok => kernel.cur # 0)
    /\ stubbed' = ok /\ at' = "ended"
    /\ UNCHANGED <<run, source, tos, kernel, build, made>>

\* :BFB, which goes on into :CRESTR.
BootstrapFailed ==
    /\ at = "bfb"
    /\ at' = "crestr"
    /\ UNCHANGED <<run, source, tos, kernel, stubbed, build, made>>

MakeTree ==
    /\ at = "crestr"
    /\ build' = [tree |-> TRUE, tos |-> tos.cur, kernel |-> kernel.cur]
    /\ at' = "ended"
    /\ UNCHANGED <<run, source, tos, kernel, stubbed, made>>

Next == \/ Begin \/ BackupTos \/ BackupKernel \/ Clean
        \/ \E ok \in BOOLEAN : Nasm(ok) \/ Gcc(ok) \/ Stubedit(ok)
        \/ BootstrapFailed \/ MakeTree

Spec == Init /\ [][Next]_vars

-----------------------------------------------------------------------------
Places == {"ended", "backup_tos", "backup_kernel", "clean", "nasm", "gcc", "stubedit",
           "bfb", "crestr"}

Versions == [cur : 0 .. MaxRuns, prev : 0 .. MaxRuns]

TypeOK ==
    /\ at \in Places /\ run \in 0 .. MaxRuns /\ source \in BOOLEAN
    /\ tos \in Versions /\ kernel \in Versions /\ stubbed \in BOOLEAN
    /\ build \in [tree : BOOLEAN, tos : 0 .. MaxRuns, kernel : 0 .. MaxRuns]
    /\ made \in [tos : 0 .. MaxRuns, kernel : 0 .. MaxRuns]
    /\ stubbed => kernel.cur # 0

\* "Backing up the previous build": however many runs fail after it, the last
\* bootstrap and the last kernel that were built are there, as the current file
\* or as the backup.
LastBuildKept ==
    /\ made.tos \in {tos.cur, tos.prev}
    /\ made.kernel \in {kernel.cur, kernel.prev}

\* A file under its own name was made by this run, and so was what the tree holds:
\* a failed tool does not leave the file of an earlier run in its place.
NothingStale ==
    /\ at \in {"nasm", "gcc", "stubedit", "bfb", "crestr"} => tos.cur \in {0, run}
    /\ at \in {"nasm", "gcc", "stubedit"} => kernel.cur \in {0, run}
    /\ at \notin {"backup_tos", "backup_kernel", "clean"} =>
          build.tos \in {0, run} /\ build.kernel \in {0, run}

\* Why they hold: a current file is always the last that was built, and from the
\* backup on there is none but what this run makes.
IInv ==
    /\ TypeOK /\ LastBuildKept /\ NothingStale
    /\ tos.cur \in {0, made.tos} /\ kernel.cur \in {0, made.kernel}
    /\ at \in {"backup_kernel", "clean"} => tos.cur = 0
    /\ at = "clean" => kernel.cur = 0
    /\ at \in {"bfb", "crestr"} => kernel.cur \in {0, run}
==================================================================================

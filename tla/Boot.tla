---------------------------------- MODULE Boot ----------------------------------
(***************************************************************************)
(* From the boot menu to TOS.COM: CONFIG.SYS loads the drivers of the mode *)
(* that was chosen, COMMAND.COM runs AUTOEXEC.BAT and the batch files it   *)
(* names, and TOS.COM checks DOS and XMS and shows the boot logo.          *)
(*                                                                         *)
(* The repository holds two sets of these files: Configs/, which           *)
(* buildAll.bat copies, on the disk "File structure.txt" describes, and    *)
(* BuildPrep/, which has its own tree.                                     *)
(***************************************************************************)
EXTENDS Naturals, Sequences, FiniteSets

CONSTANT Images    \* the sets of files started from

VARIABLES image,     \* the set of files on the disk
          dosOk,     \* DOS is version 5 or later
          choice,    \* the menu item the user picked
          phase,     \* what the computer is doing
          file,      \* the batch file COMMAND.COM reads
          line,      \* its next command, or the next DEVICE line
          path,      \* PATH has been set
          resident,  \* drivers and TSRs that were loaded
          support,   \* what SBEMU found, and works through: QPIEMU, HDPMI
          tried,     \* history: what was started, loaded or not, in the order in
                     \* which each was started first
          said       \* messages on the screen

vars == <<image, dosOk, choice, phase, file, line, path, resident, support, tried, said>>

ASSUME ImagesAssumption == Images \subseteq {"Configs", "BuildPrep"}

Choices(img) == IF img = "Configs"
                THEN {"TRIOS", "SAFE", "CMD", "CMDWHEEL", "CMDSAFE"}
                ELSE {"TRIOS", "SAFE", "CMD", "CMDSAFE"}

\* Mutant: the section of the safe mode loads the memory managers.
DevicesSafe(img, ch) ==
    IF img = "BuildPrep" /\ ch = "CMDSAFE" THEN <<>>
    ELSE <<"setver", "himemsx", "jemm386">>

\* The DEVICE lines of a section of CONFIG.SYS.
Devices(img, ch) ==
    CASE img = "BuildPrep" /\ ch \in {"TRIOS", "CMD"} -> <<"setver", "himemsx", "jemm386">>
      [] img = "Configs" /\ ch = "TRIOS" ->
           <<"setver", "himemsx", "jemm386", "xcdrom", "srdummy", "srdxms">>
      [] img = "Configs" /\ ch = "SAFE" -> <<"srdummy", "srdxms">>
      [] img = "Configs" /\ ch \in {"CMD", "CMDWHEEL"} ->
           <<"setver", "himemsx", "jemm386", "xcdrom">>
      [] OTHER -> <<>>

\* Batch commands: [do |-> what, arg |-> on what].
Do(what, arg) == [do |-> what, arg |-> arg]
Run(p)   == Do("run", p)
Batch(f) == Do("batch", f)      \* without CALL: control does not come back
Goto(l)  == Do("goto", l)
Label(l) == Do("label", l)
Say(m)   == Do("say", m)
SetPath  == Do("set", "PATH")

\* Mutant: SBEMU is started before HDPMI.
SoundTooSoon == <<Run("qpiemu"), Run("sbemu"), Run("hdpmi")>>

Sound == <<Run("qpiemu"), Run("hdpmi"), Run("sbemu")>>

PrepTrios == <<Label("TRIOS"), Run("ctmouse")>> \o Sound \o <<Run("tos"), Goto("END")>>
PrepRest  == <<Label("SAFE"), Say("safe mode"), Run("tos"), Goto("END"),
               Label("CMD"), Run("ctmouse")>> \o Sound \o
             <<Label("CMDSAFE"), Say("safe mode"), Goto("END"), Label("END")>>

\* Mutant: GOTO %CONFIG% is missing.
PrepNoGoto  == <<SetPath>> \o PrepTrios \o PrepRest

\* BuildPrep/autoexec.bat.
PrepAutoexec == <<SetPath, Goto("%CONFIG%")>> \o PrepTrios \o PrepRest

\* Configs/autoexec.bat.
ConfAutoexec ==
    <<Batch("pathcfg"), Goto("%CONFIG%"),
      Label("TRIOS"), Batch("mousewhl"), Batch("audmdrn"), Batch("cdrom"),
                      Batch("ramdrv"), Batch("trprtos"), Goto("SHUTDOWN"),
      Label("SAFE"), Say("safe mode"), Batch("ramdrv"), Batch("trprtos"), Goto("SHUTDOWN"),
      Label("CMD"), Batch("mouse"), Batch("audmdrn"), Batch("cdrom"), Goto("END"),
      Label("CMDWHEEL"), Batch("mousewhl"), Batch("audmdrn"), Batch("cdrom"), Goto("END"),
      Label("CMDSAFE"), Say("safe mode"), Goto("END"),
      Label("SHUTDOWN"), Say("safe to turn off"), Label("LOOPSD"), Run("halt"), Goto("LOOPSD"),
      Label("END")>>

Script(img, f) ==
    CASE f = "autoexec" -> IF img = "Configs" THEN ConfAutoexec ELSE PrepAutoexec
      [] f = "pathcfg"  -> <<SetPath>>
      [] f = "mousewhl" -> <<Run("ctmouse")>>
      [] f = "mouse"    -> <<Run("ctmouse")>>
      [] f = "audmdrn"  -> Sound
      [] f = "cdrom"    -> <<Run("mscdex")>>
      [] f = "ramdrv"   -> <<Run("srdisk")>>
      [] OTHER          -> <<Run("tos")>>

\* Of the DEVICE lines, the driver that is not at the path CONFIG.SYS gives:
\* File structure.txt and buildAll.bat put HIMEMSX.EXE in SYSTEM\DRIVERS.
Missing(img) == IF img = "Configs" THEN {"himemsx", "halt"} ELSE {}

\* What a program looks for before it stays resident: SBEMU is content with one
\* of the two, and gives up real or protected mode without the other.
LooksFor(p) ==
    CASE p \in {"jemm386", "srdxms"} -> {"himemsx"}
      [] p = "qpiemu" -> {"jemm386"}
      [] p = "mscdex" -> {"xcdrom"}
      [] p = "srdisk" -> {"srdxms"}
      [] p = "sbemu"  -> {"qpiemu", "hdpmi"}
      [] OTHER        -> {}

\* What also depends on the machine: processor mode, drive, mouse, sound card.
Optional == {"jemm386", "xcdrom", "ctmouse", "sbemu"}

CanLoad(p) ==
    /\ p \notin Missing(image)
    /\ IF p = "sbemu" THEN LooksFor(p) \cap resident # {} ELSE LooksFor(p) \subseteq resident

Started == {tried[i] : i \in DOMAIN tried}
Tries(p) == IF p \in Started THEN tried ELSE Append(tried, p)

-----------------------------------------------------------------------------
Init ==
    /\ image \in Images /\ dosOk \in BOOLEAN
    /\ choice = "none" /\ phase = "menu" /\ file = "none" /\ line = 1
    /\ path = FALSE /\ resident = {} /\ support = {} /\ tried = <<>> /\ said = {}

Choose ==
    /\ phase = "menu"
    /\ choice' \in Choices(image) /\ phase' = "config"
    /\ UNCHANGED <<image, dosOk, file, line, path, resident, support, tried, said>>

\* p is started; it stays resident where it can, and may where it depends on
\* the machine.
Start(p) ==
    /\ tried' = Tries(p)
    /\ \/ /\ CanLoad(p)
          /\ resident' = resident \cup {p}
          /\ support' = IF p = "sbemu" THEN LooksFor(p) \cap resident ELSE support
       \/ (~CanLoad(p) \/ p \in Optional) /\ UNCHANGED <<resident, support>>

DeviceLine ==
    /\ phase = "config" /\ line <= Len(Devices(image, choice))
    /\ Start(Devices(image, choice)[line])
    /\ line' = line + 1
    /\ UNCHANGED <<image, dosOk, choice, phase, file, path, said>>

StartShell ==
    /\ phase = "config" /\ line > Len(Devices(image, choice))
    /\ phase' = "batch" /\ file' = "autoexec" /\ line' = 1
    /\ UNCHANGED <<image, dosOk, choice, path, resident, support, tried, said>>

Commands == Script(image, file)

\* COMMAND.COM is about to execute a command of this kind.
Reads(what) == phase = "batch" /\ line <= Len(Commands) /\ Commands[line].do = what

Argument == Commands[line].arg

PathLine ==
    /\ Reads("set")
    /\ path' = TRUE /\ line' = line + 1
    /\ UNCHANGED <<image, dosOk, choice, phase, file, resident, support, tried, said>>

LabelLine ==
    /\ Reads("label")
    /\ line' = line + 1
    /\ UNCHANGED <<image, dosOk, choice, phase, file, path, resident, support, tried, said>>

EchoLine ==
    /\ Reads("say")
    /\ said' = said \cup {Argument} /\ line' = line + 1
    /\ UNCHANGED <<image, dosOk, choice, phase, file, path, resident, support, tried>>

GotoLine ==
    /\ Reads("goto")
    /\ LET target == IF Argument = "%CONFIG%" THEN choice ELSE Argument
       IN  \E l \in 1 .. Len(Commands) : Commands[l] = Label(target) /\ line' = l
    /\ UNCHANGED <<image, dosOk, choice, phase, file, path, resident, support, tried, said>>

\* A batch file named without CALL takes the place of the one that names it.
BatchLine ==
    /\ Reads("batch")
    /\ file' = Argument /\ line' = 1
    /\ UNCHANGED <<image, dosOk, choice, phase, path, resident, support, tried, said>>

\* Programs are named without a directory, and found through PATH.
ProgramLine ==
    /\ Reads("run") /\ Argument # "tos"
    /\ IF path THEN Start(Argument) ELSE UNCHANGED <<resident, support, tried>>
    /\ line' = line + 1
    /\ UNCHANGED <<image, dosOk, choice, phase, file, path, said>>

TosLine ==
    /\ Reads("run") /\ Argument = "tos" /\ path
    /\ phase' = "tos" /\ tried' = Tries("tos")
    /\ UNCHANGED <<image, dosOk, choice, file, line, path, resident, support, said>>

\* Mutant: COMMAND.COM reads on behind the end of the file.
BatchEndsNot ==
    /\ phase = "batch" /\ line > Len(Commands)
    /\ line' = line + 1
    /\ UNCHANGED <<image, dosOk, choice, phase, file, path, resident, support, tried, said>>

BatchEnds ==
    /\ phase = "batch" /\ line > Len(Commands)
    /\ phase' = "prompt"
    /\ UNCHANGED <<image, dosOk, choice, file, line, path, resident, support, tried, said>>

\* check_dos_version: an older DOS gets a message and jmp $.
CheckDosVersion ==
    /\ phase = "tos"
    /\ phase' = IF dosOk THEN "xms" ELSE "hung"
    /\ said' = said \cup {IF dosOk THEN "DOS ok" ELSE "DOS too old"}
    /\ UNCHANGED <<image, dosOk, choice, file, line, path, resident, support, tried>>

\* INT 2Fh with a function no one has hooked comes back as it went; HimemSX
\* answers AH=43h only.
Int2f(ah) == ah

\* check_superex_xms: AH=0C8h, and AX=0 would be the error.
CheckSuperexXms ==
    /\ phase = "xms"
    /\ IF Int2f(200) = 0
       THEN phase' = "hung" /\ said' = said \cup {"no XMS"}
       ELSE phase' = "disclaimer" /\ said' = said \cup {"XMS available"}
    /\ UNCHANGED <<image, dosOk, choice, file, line, path, resident, support, tried>>

\* display_disclaimer, display_bootlogo and its endless loop; the call of
\* start_kernel is commented out.
DisplayBootlogo ==
    /\ phase = "disclaimer"
    /\ phase' = "logo"
    /\ UNCHANGED <<image, dosOk, choice, file, line, path, resident, support, tried, said>>

Next == \/ Choose \/ DeviceLine \/ StartShell
        \/ PathLine \/ LabelLine \/ EchoLine \/ GotoLine \/ BatchLine
        \/ ProgramLine \/ TosLine \/ BatchEnds
        \/ CheckDosVersion \/ CheckSuperexXms \/ DisplayBootlogo

Spec == Init /\ [][Next]_vars

\* Once an item was picked the computer does not stop by itself.
LiveSpec == Spec /\ WF_vars(Next)

-----------------------------------------------------------------------------
TypeOK ==
    /\ image \in Images /\ dosOk \in BOOLEAN /\ path \in BOOLEAN
    /\ choice \in Choices(image) \cup {"none"}
    /\ phase \in {"menu", "config", "batch", "prompt", "tos", "xms", "disclaimer",
                  "logo", "hung"}
    /\ phase = "config" => line \in 1 .. Len(Devices(image, choice)) + 1
    /\ phase = "batch" => line \in 1 .. Len(Commands) + 1
    /\ resident \subseteq Started /\ Len(tried) = Cardinality(Started)
    /\ support \subseteq {"qpiemu", "hdpmi"} \cap resident

\* The safe modes load no driver but those of the RAM drive, whatever the label
\* GOTO %CONFIG% went to and the lines fallen through behind it.
SafeIsSafe ==
    choice \in {"SAFE", "CMDSAFE"} => Started \subseteq {"srdummy", "srdxms", "srdisk", "tos"}

\* When TOS.COM starts in the mode with drivers, and when the prompt comes in the
\* command mode, the mouse and the sound drivers have been started, each after
\* whatever it looks for: so SBEMU, if it stays, works in protected mode, and in
\* real mode too wherever Jemm386 runs.
DriversFirst ==
    (/\ image = "BuildPrep"
     /\ \/ choice = "TRIOS" /\ phase \in {"tos", "xms", "disclaimer", "logo", "hung"}
        \/ choice = "CMD" /\ phase = "prompt")
      => /\ {"ctmouse", "qpiemu", "hdpmi", "sbemu"} \subseteq Started
         /\ \A i \in DOMAIN tried : LooksFor(tried[i]) \subseteq {tried[j] : j \in 1 .. i - 1}
         /\ "sbemu" \in resident =>
                /\ "hdpmi" \in support
                /\ "jemm386" \in resident => "qpiemu" \in support

\* "if CMD-only mode wasn't chosen, we execute the OS binary itself": each item of
\* the menu in BuildPrep ends where it says, at the boot logo (or the complaint about DOS) or
\* at the prompt, and stays there.
EndsAsChosen ==
    /\ image = "BuildPrep" /\ choice \in {"TRIOS", "SAFE"} ~> [](phase \in {"logo", "hung"})
    /\ image = "BuildPrep" /\ choice \in {"CMD", "CMDSAFE"}
         ~> [](phase = "prompt" /\ "tos" \notin Started)
=================================================================================

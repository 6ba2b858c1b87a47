---------------------------- MODULE FirmwareFiles -----------------------------
(***************************************************************************)
(* The boot of the firmware (app_main in main.c): what mountFS leaves on   *)
(* the two FAT partitions for upsd and the driver, over boots that power   *)
(* loss can cut off at any step, and the tasks started afterwards.         *)
(***************************************************************************)
EXTENDS Naturals, Sequences

(* The steps of app_main that matter to the files, in order.                 *)
Dirs == <<"/var/db", "/var/db/nut", "/usr/local", "/usr/local/etc", "/usr/local/etc/nut">>
ConfFiles == <<"upsd.users", "upsd.conf", "ups.conf", "nut.conf">>

VARIABLES
    bootStep,   \* app_main: the next step, and which item of it
    flash,      \* the directories and the files with their full content
    drivers,    \* drv_main and nut_main have been created
    bootHist    \* this mountFS failed; one was cut off between two mkdirs of a group

bootFsVars == <<bootStep, flash, drivers, bootHist>>

BootStart == [pc |-> "var", i |-> 1, group |-> 0]

FilesTypeOK ==
    /\ bootStep \in [pc : {"var", "vardirs", "usr", "usrdirs", "open", "write", "hid", "drv", "upsd", "up"},
                 i : 1 .. 5, group : 0 .. 5]
    /\ flash \in [dirs : SUBSET {Dirs[i] : i \in 1 .. 5}, full : SUBSET {ConfFiles[i] : i \in 1 .. 4}]
    /\ drivers \subseteq {"drv_main", "nut_main"} /\ bootHist \in [torn : BOOLEAN, failed : BOOLEAN]

FilesInit ==
    /\ bootStep = BootStart
    /\ flash = [dirs |-> {}, full |-> {}]
    /\ drivers = {} /\ bootHist = [torn |-> FALSE, failed |-> FALSE]

Goto(pc, i) == bootStep' = [pc |-> pc, i |-> i, group |-> i]

(* mount_filesystem; a file system that cannot be mounted is formatted.      *)
Formatted(gone) ==
    flash' \in {flash, [dirs |-> flash.dirs \ {Dirs[i] : i \in gone},
                        full |-> IF 5 \in gone THEN {} ELSE flash.full]}

MountsVar ==
    /\ bootStep.pc = "var" /\ Goto("vardirs", 1)
    /\ Formatted(1 .. 2)
    /\ UNCHANGED <<drivers, bootHist>>

MountsUsr ==
    /\ bootStep.pc = "usr" /\ Goto("usrdirs", 3)
    /\ Formatted(3 .. 5)
    /\ UNCHANGED <<drivers, bootHist>>

(* create_directories: the first mkdir that fails ends the chain of ||, and  *)
(* EEXIST counts as success, so the directories after it are not tried.      *)
LastDir == IF bootStep.pc = "vardirs" THEN 2 ELSE 5
AfterDirs == IF bootStep.pc = "vardirs" THEN Goto("usr", 1) ELSE Goto("open", 1)

MakesDir ==
    /\ bootStep.pc \in {"vardirs", "usrdirs"}
    /\ flash' = [flash EXCEPT !.dirs = @ \cup {Dirs[bootStep.i]}]
    /\ IF Dirs[bootStep.i] \in flash.dirs \/ bootStep.i = LastDir
       THEN AfterDirs
       ELSE bootStep' = [bootStep EXCEPT !.i = @ + 1]
    /\ UNCHANGED <<drivers, bootHist>>

(* Some directories of the group are made, and others are not.               *)
MidGroup == bootStep.pc \in {"vardirs", "usrdirs"} /\ bootStep.i > bootStep.group

(* write_default_file: fopen "wb" empties the file, which is then written    *)
(* again.  It fails where the directory is missing; that ends mountFS.       *)
OpensFile ==
    /\ bootStep.pc = "open" /\ Dirs[5] \in flash.dirs
    /\ flash' = [flash EXCEPT !.full = @ \ {ConfFiles[bootStep.i]}]
    /\ bootStep' = [bootStep EXCEPT !.pc = "write"]
    /\ UNCHANGED <<drivers, bootHist>>

WritesFile_WhenNew ==
    /\ bootStep.pc = "write"
    /\ IF bootStep.i < 4 THEN Goto("open", bootStep.i + 1) ELSE Goto("hid", 1)
    /\ UNCHANGED <<flash, drivers, bootHist>>

WritesFile ==
    /\ bootStep.pc = "write"
    /\ flash' = [flash EXCEPT !.full = @ \cup {ConfFiles[bootStep.i]}]
    /\ IF bootStep.i < 4 THEN Goto("open", bootStep.i + 1) ELSE Goto("hid", 1)
    /\ UNCHANGED <<drivers, bootHist>>

(* Any of these may fail: mountFS returns and app_main goes on without.      *)
MountFails ==
    /\ bootStep.pc \in {"var", "vardirs", "usr", "usrdirs", "open"}
    /\ Goto("hid", 1)
    /\ bootHist' = [torn |-> bootHist.torn \/ MidGroup, failed |-> TRUE]
    /\ UNCHANGED <<flash, drivers>>

(* hidHostInstall, drv_main, one second later nut_main, then the image is    *)
(* marked valid.                                                             *)
StartsTasks ==
    /\ bootStep.pc \in {"hid", "drv", "upsd"}
    /\ CASE bootStep.pc = "hid" -> Goto("drv", 1) /\ UNCHANGED drivers
         [] bootStep.pc = "drv" -> Goto("upsd", 1) /\ drivers' = drivers \cup {"drv_main"}
         [] OTHER -> Goto("up", 1) /\ drivers' = drivers \cup {"nut_main"}
    /\ UNCHANGED <<flash, bootHist>>

FilesPowerLoss ==
    /\ bootStep' = BootStart /\ drivers' = {}
    /\ bootHist' = [torn |-> bootHist.torn \/ MidGroup, failed |-> FALSE]
    /\ UNCHANGED flash

FilesNext ==
    \/ MountsVar \/ MountsUsr \/ MakesDir \/ OpensFile \/ WritesFile \/ MountFails \/ StartsTasks
    \/ FilesPowerLoss

FilesSpec == FilesInit /\ [][FilesNext]_bootFsVars

(* When upsd and the driver start, their configuration files are there and   *)
(* complete, whatever boots were cut off before, unless this boot's mountFS  *)
(* failed (main.c:84-135).                                                   *)
ConfiguredAtStart ==
    drivers # {} /\ ~bootHist.failed => flash.full = {ConfFiles[i] : i \in 1 .. 4}

(* The directory that the files go to is there when they are written, unless *)
(* some boot was cut off between two mkdirs of one group: then EEXIST on the *)
(* first hides the missing rest for good (main.c:67-71).                     *)
DirectoryThere == bootStep.pc = "open" /\ ~bootHist.torn => Dirs[5] \in flash.dirs

(* What the boot leaves for the programs it starts (main.c:46-135, 175-213). *)
FilesSafe == FilesTypeOK /\ ConfiguredAtStart /\ DirectoryThere
=============================================================================

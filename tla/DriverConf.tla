----------------------------- MODULE DriverConf -----------------------------
(***************************************************************************)
(* The settings of a driver (drivers/main.c): read from the command line   *)
(* and ups.conf at the start, and read again while the driver runs, when   *)
(* a client of its socket asks for it.  Some may change then; for others a *)
(* change calls for a restart, which is reported or makes the driver exit. *)
(* A file is the sequence of its lines [section, var, val]; the sections   *)
(* of other devices are skipped and left out.                              *)
(***************************************************************************)
EXTENDS Integers, SequencesExt

CONSTANTS
    Files,          \* what ups.conf may come to hold
    CommandLines,   \* how the driver may be called: sequences of options
    Program,        \* its own name
    FixedVars,      \* addvar: set once
    LooseVars,      \* addvar_reloadable
    FlagVars,       \* addvar with VAR_FLAG
    Levels,         \* debug levels
    MaxEdits,       \* times the file is edited
    Lowered(_)      \* the text in lower case

VARIABLES
    file,       \* ups.conf, or Missing
    synced,     \* not edited since it was last read with success
    conf,       \* what the driver has made of it all
    request,    \* reload_flag: 0, 1 (reload), 2 (reload-or-exit)
    driver,     \* "up", "leaving" (exit_flag), "ended"
    last,       \* the last reload since the file was edited: [result, mode, synced]
    edits       \* times the file was edited

confVars == <<file, synced, conf, request, driver, last, edits>>

None == "none"
Missing == <<[section |-> None, var |-> None, val |-> None]>>   \* cannot be read
Unset == -1

MainVars == {"port", "user", "sdcommands", "pollinterval", "driver"}
TableVars == FixedVars \cup LooseVars \cup FlagVars
Switches == {"nolock"}       \* nolock, ignorelb, allow_killpower
Overrides == {"override"}    \* override.<variable>

(* The settings, while lines are applied: restart is                        *)
(* reload_requires_restart (1: at least one), ended is a call of exit,      *)
(* byCommand what the command line set (the code remembers this of user).   *)
Blank ==
    [val |-> [v \in MainVars \cup TableVars \cup Overrides |->
                 CASE v = "user" -> "nobody" [] v = "pollinterval" -> "2"
                   [] v = "driver" -> Program [] OTHER -> None],
     found |-> {}, byCommand |-> {}, restart |-> -1, ended |-> FALSE,
     global |-> Unset, section |-> Unset, args |-> 0, protocol |-> Unset, level |-> 0]

-----------------------------------------------------------------------------
(* testval_reloadable, testinfo_reloadable, testvar_reloadable *)

TestVal(old, new, reloadable, mode) ==
    IF old = None THEN "apply"
    ELSE IF Lowered(old) = Lowered(new) THEN "same"
    ELSE IF mode = 0 \/ reloadable THEN "apply" ELSE "refused"

TestInfo(old, new, reloadable, mode) ==
    IF mode = 0 THEN "apply" ELSE TestVal(old, new, reloadable, mode)

TestVar(s, line, mode) ==
    LET old == s.val[line.var]
        may == mode = 0 \/ line.var \notin s.found \/ line.var \in LooseVars IN
    IF line.val # None /\ old # None THEN TestVal(old, line.val, line.var \in LooseVars, mode)
    ELSE IF may THEN "apply" ELSE "ignored"

(* What the verdict leaves behind: a change that was refused counts, and    *)
(* reload-or-exit ends the driver there.                                    *)
Settle_NotCounted(s, verdict, mode) ==
    CASE verdict = "refused" -> [s EXCEPT !.ended = @ \/ mode = 2]
      [] verdict = "ignored" -> s
      [] OTHER -> [s EXCEPT !.restart = IF @ < 0 THEN 0 ELSE @]
Settle(s, verdict, mode) ==
    CASE verdict = "refused" -> [s EXCEPT !.restart = 1, !.ended = @ \/ mode = 2]
      [] verdict = "ignored" -> s
      [] OTHER -> [s EXCEPT !.restart = IF @ < 0 THEN 0 ELSE @]

Put(s, v, val) == [s EXCEPT !.val[v] = val]
PutIf(s, verdict, v, val, mode) ==
    IF verdict = "apply" THEN Put(Settle(s, verdict, mode), v, val) ELSE Settle(s, verdict, mode)
Ended(s) == [s EXCEPT !.ended = TRUE]

-----------------------------------------------------------------------------
(* main_arg, do_global_args and the rest of do_upsconf_args_driver *)

(* storeval: an override is immutable once set; a name that is not in the   *)
(* table ends the program.                                                  *)
StoreVal(s, line) ==
    IF line.var \in Overrides
    THEN Put(s, line.var, IF s.val[line.var] = None THEN line.val ELSE s.val[line.var])
    ELSE IF line.var \in TableVars
    THEN [Put(s, line.var, IF line.val = None THEN "enabled" ELSE line.val)
             EXCEPT !.found = @ \cup {line.var}]
    ELSE Ended(s)

ApplyPoll(s, line, mode) ==
    LET verdict == TestVal(s.val["pollinterval"], line.val, TRUE, mode) IN
    IF verdict = "apply" /\ line.val = "0" THEN Ended(s)
    ELSE PutIf(s, verdict, "pollinterval", line.val, mode)

ApplyUser(s, line, mode) ==
    LET verdict == TestVal(s.val["user"], line.val, FALSE, mode) IN
    IF "user" \in s.byCommand THEN Settle(s, verdict, mode) ELSE PutIf(s, verdict, "user", line.val, mode)

ApplyDriver(s, line, mode) ==
    LET t == Settle(s, TestVal(Program, line.val, FALSE, mode), mode) IN
    IF Lowered(line.val) = Lowered(Program) THEN t ELSE Ended(t)

ApplyTable(s, line, mode) ==
    IF line.var \in TableVars
    THEN LET verdict == TestVar(s, line, mode) IN
         IF verdict = "apply" THEN StoreVal(Settle(s, verdict, mode), line)
         ELSE Settle(s, verdict, mode)
    ELSE StoreVal(Settle(s, "apply", mode), line)

Level(val) == CHOOSE n \in Levels : ToString(n) = val
MainArg(s, line, mode) ==
    CASE line.var \in Switches ->
            IF mode = 0 THEN [s EXCEPT !.found = @ \cup {line.var}] ELSE s
      [] line.var = "port" ->
            PutIf(s, TestInfo(s.val["port"], line.val, FALSE, mode), "port", line.val, mode)
      [] line.var = "sdcommands" ->
            PutIf(s, TestInfo(s.val["sdcommands"], line.val, TRUE, mode), "sdcommands", line.val, mode)
      [] line.var = "user" -> ApplyUser(s, line, mode)
      [] line.var = "pollinterval" -> ApplyPoll(s, line, mode)
      [] line.var = "debug_min" -> [s EXCEPT !.section = Level(line.val)]
      [] OTHER -> s

ForMain(line) ==
    line.var \in Switches \cup {"port", "sdcommands", "user", "pollinterval", "debug_min"}

DoGlobalArgs(s, line, mode) ==
    CASE line.var = "pollinterval" -> ApplyPoll(s, line, mode)
      [] line.var = "user" -> ApplyUser(s, line, mode)
      [] line.var = "debug_min" -> [s EXCEPT !.global = Level(line.val)]
      [] OTHER -> s

(* do_upsconf_args_driver, for a line; nothing follows a call of exit. *)
Apply(s, line, mode) ==
    IF s.ended THEN s
    ELSE IF line.section = "global" THEN DoGlobalArgs(s, line, mode)
    ELSE IF ForMain(line) THEN MainArg(s, line, mode)
    ELSE IF line.var = "driver" THEN ApplyDriver(s, line, mode)
    ELSE ApplyTable(s, line, mode)

ReadUpsconf(s, f, mode) == FoldLeft(LAMBDA t, line : Apply(t, line, mode), s, f)

(* assign_debug_level *)
Bigger(a, b) == IF a > b THEN a ELSE b
AssignDebugLevel(s) ==
    [s EXCEPT !.level =
        IF s.protocol >= 0 THEN s.protocol
        ELSE Bigger(s.args, IF s.section >= 0 THEN s.section ELSE s.global)]

-----------------------------------------------------------------------------
(* The command line, in its order: -a reads the file, -u sets the user for  *)
(* good, -x is one setting (splitxarg), -D more debugging.                  *)
Option(s, opt, f) ==
    IF s.ended THEN s
    ELSE CASE opt.name = "a" -> IF f = Missing THEN Ended(s) ELSE ReadUpsconf(s, f, 0)
           [] opt.name = "u" -> [Put(s, "user", opt.line.val) EXCEPT !.byCommand = @ \cup {"user"}]
           [] opt.name = "x" -> LET t == [s EXCEPT !.byCommand = @ \cup {opt.line.var}] IN
                                IF ForMain(opt.line) THEN MainArg(t, opt.line, 0)
                                ELSE StoreVal(t, opt.line)
           [] opt.name = "D" -> [s EXCEPT !.args = @ + 1]

(* Without a port the driver does not start. *)
Started(args, f) ==
    LET s == FoldLeft(LAMBDA t, opt : Option(t, opt, f), Blank, args) IN
    AssignDebugLevel(IF s.val["port"] = None THEN Ended(s) ELSE s)

NoReload == [result |-> None, mode |-> 0, synced |-> TRUE]
ConfInit ==
    /\ file \in Files
    /\ \E args \in CommandLines :
          /\ conf = Started(args, file)
          /\ driver = IF conf.ended THEN "ended" ELSE "up"
    /\ synced = TRUE
    /\ request = 0
    /\ last = NoReload /\ edits = 0

-----------------------------------------------------------------------------
(* handle_reload_flag.  A file that cannot be read is only logged. *)

Reread(f, mode) ==
    LET s == [conf EXCEPT !.restart = -1, !.global = Unset, !.section = Unset] IN
    AssignDebugLevel(IF f = Missing THEN s ELSE ReadUpsconf(s, f, mode))

Reload(mode) ==
    LET s == Reread(file, mode)
        result == IF s.ended THEN "ended" ELSE IF s.restart < 1 THEN "handled" ELSE "invalid" IN
    /\ conf' = s
    /\ driver' = IF s.ended THEN "ended" ELSE driver
    /\ request' = 0
    /\ last' = [result |-> result, mode |-> mode, synced |-> synced]
    /\ synced' = (synced \/ result = "handled")
    /\ UNCHANGED <<file, edits>>

(* The main loop, after the clients' requests *)
HandleReloadFlag ==
    /\ driver = "up" /\ request > 0
    /\ Reload(request)

(* main_instcmd: driver.reload, driver.reload-or-exit; reload-or-error is    *)
(* carried out at once, in place of what was requested before.               *)
RequestReload(mode) ==
    /\ driver # "ended"
    /\ request' = mode
    /\ UNCHANGED <<file, synced, conf, driver, last, edits>>
ReloadOrError ==
    \/ driver = "up" /\ Reload(1)
    \/ /\ driver = "leaving"
       /\ request' = 1
       /\ last' = [last EXCEPT !.result = "invalid", !.mode = 1, !.synced = FALSE]
       /\ UNCHANGED <<file, synced, conf, driver, edits>>
DriverExit ==
    /\ driver = "up"
    /\ driver' = "leaving"
    /\ UNCHANGED <<file, synced, conf, request, last, edits>>

(* main_setvar: driver.debug *)
SetDebug(n) ==
    /\ driver # "ended"
    /\ conf' = AssignDebugLevel([conf EXCEPT !.protocol = n])
    /\ UNCHANGED <<file, synced, request, driver, last, edits>>

EditFile ==
    /\ driver # "ended" /\ edits < MaxEdits
    /\ file' \in (Files \cup {Missing}) \ {file}
    /\ synced' = FALSE
    /\ last' = NoReload /\ edits' = edits + 1
    /\ UNCHANGED <<conf, request, driver>>

ConfNext ==
    \/ HandleReloadFlag \/ ReloadOrError \/ DriverExit \/ EditFile
    \/ \E mode \in {1, 2} : RequestReload(mode)
    \/ \E n \in Levels \cup {Unset} : SetDebug(n)

ConfSpec == ConfInit /\ [][ConfNext]_confVars

-----------------------------------------------------------------------------
(* Properties *)

LinesOf(f, v) == SelectSeq(f, LAMBDA line : line.var = v)
Agrees(val, v) == file = Missing \/ LinesOf(file, v) = << >> \/ Lowered(Last(LinesOf(file, v)).val) = Lowered(val)

(* A reload that reported success left every setting with a value as the    *)
(* file has it (its last line for it), up to letter case, and the debug     *)
(* level as the file and nothing older asks for.  Flags, overrides and      *)
(* settings that are no longer in the file stay as they were                *)
(* (main.c:472-697, 1150-1546).                                             *)
HandledMeansApplied ==
    last.result = "handled" /\ driver = "up" =>
        /\ \A v \in {"port", "user", "sdcommands", "pollinterval"} \cup FixedVars \cup LooseVars :
              Agrees(conf.val[v], v)
        /\ file # Missing /\ conf.protocol < 0 /\ LinesOf(file, "debug_min") = << >> =>
              conf.level = conf.args

(* The file has two lines for a setting that cannot be reloaded. *)
Repeats(f) == \E v \in {"port", "user"} \cup FixedVars : Len(LinesOf(f, v)) > 1

(* A file that was not edited since it was read with success is reloaded     *)
(* with success: asking for a reload, even reload-or-exit, harms nobody -    *)
(* unless it sets something that cannot be reloaded twice (as for the whole  *)
(* file and in the section), or the command line set the same.               *)
UnchangedReloads ==
    last.mode > 0 /\ last.synced /\ file # Missing /\ ~Repeats(file)
    /\ (\A v \in conf.byCommand : LinesOf(file, v) = << >>)
    => last.result = "handled"

(* A reload ends the driver only if it is reload-or-exit, or if a driver     *)
(* started on that file would not come up either.                            *)
ReloadEndsJustly ==
    last.result = "ended" => last.mode = 2 \/ Started(<<[name |-> "a", line |-> None]>>, file).ended

(* Reading the configuration again while the driver runs. *)
ConfSafe ==
    /\ request \in 0..2 /\ conf.restart \in -1..1
    /\ HandledMeansApplied /\ UnchangedReloads /\ ReloadEndsJustly
=============================================================================

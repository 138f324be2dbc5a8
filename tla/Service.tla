-------------------------------- MODULE Service --------------------------------
(***************************************************************************)
(* --start-service and --stop-service, on Linux with systemd and on macOS  *)
(* with launchd: each command is a process that installs the unit file     *)
(* (the plist) where there is none and has the service manager do the      *)
(* rest, one spawned call after the other.  Nothing keeps two commands     *)
(* from running at once, or one from being killed half-way.                *)
(***************************************************************************)
EXTENDS Naturals

CONSTANTS Commands,      \* commands that can run at once
          Platforms,     \* what the program is built for: "linux", "mac"
          MaxFailures    \* bound of the model: failures of the environment

ASSUME ServiceAssumption == /\ Platforms \subseteq {"linux", "mac"}
                            /\ MaxFailures \in Nat

VARIABLES platform,
          dir,        \* the directory of the unit file is there
          file,       \* the unit file: "absent", "part" (truncated, or not all
                      \* of it is written) or "whole"
          manager,    \* what the service manager knows of the service: an
                      \* instance runs, the service is bootstrapped, it is
                      \* disabled, an instance from before it was booted out
                      \* still runs; systemd uses the first field only
          pc, op,     \* where each command is, and which one it is
          lone,       \* it began alone, and since then no other has begun and
                      \* nothing has failed
          status,     \* the exit status of the last command
          failures    \* failures of the environment so far

machine == <<dir, file, manager>>
vars == <<platform, machine, pc, op, lone, status, failures>>

Init == /\ platform \in Platforms
        /\ dir \in BOOLEAN
        /\ file = "absent"
        /\ manager = [active |-> FALSE, bootstrapped |-> FALSE, disabled |-> FALSE,
                      lingers |-> FALSE]
        /\ pc = [c \in Commands |-> "idle"]
        /\ op = [c \in Commands |-> "start"]
        /\ lone = [c \in Commands |-> FALSE]
        /\ status = [c \in Commands |-> "ok"]
        /\ failures = 0

Linux == platform = "linux"

Goto(c, to) == /\ pc' = [pc EXCEPT ![c] = to]
               /\ UNCHANGED <<platform, op, lone, status, failures>>

\* safe_exec: what becomes of a spawned call.
Status(outcome) == IF outcome = "done" THEN "ok" ELSE "failed"

Ends(c, outcome) == /\ pc' = [pc EXCEPT ![c] = "idle"]
                    /\ status' = [status EXCEPT ![c] = Status(outcome)]
                    /\ lone' = [lone EXCEPT ![c] = FALSE]
                    /\ UNCHANGED <<platform, op>>

Exit(c, outcome) == Ends(c, outcome) /\ UNCHANGED failures

\* A call that leads to `next` of the manager if that is possible, and the end
\* of the command.
LastCall(c, possible, next) ==
    /\ manager' = IF possible THEN next ELSE manager
    /\ Exit(c, IF possible THEN "done" ELSE "refused")
    /\ UNCHANGED <<dir, file>>

Begin(c, o) == /\ pc[c] = "idle"
               /\ pc' = [pc EXCEPT ![c] = IF Linux /\ o = "start" THEN "stat" ELSE "look"]
               /\ op' = [op EXCEPT ![c] = o]
               /\ lone' = [d \in Commands |->
                              d = c /\ \A e \in Commands \ {c} : pc[e] = "idle"]
               /\ UNCHANGED <<platform, machine, status, failures>>

-----------------------------------------------------------------------------
(* Installation.                                                           *)

StatPath(c) == /\ pc[c] = "stat"
               /\ Goto(c, IF dir THEN "look" ELSE "mkdir")
               /\ UNCHANGED machine

MakePath(c) == /\ pc[c] = "mkdir" /\ ~dir
               /\ dir' = TRUE
               /\ Goto(c, "look")
               /\ UNCHANGED <<file, manager>>

\* Another command has made it since the stat(): mkdir() fails, and error().
PathExists(c) == pc[c] = "mkdir" /\ dir /\ Exit(c, "refused") /\ UNCHANGED machine

\* Mutant: every start writes the file.
Look_Install(c) == /\ pc[c] = "look"
                   /\ Goto(c, IF op[c] = "start" THEN "open"
                              ELSE IF Linux THEN "systemctl" ELSE "print")
                   /\ UNCHANGED machine

\* A file that is there is one that is installed.
Look(c) == /\ pc[c] = "look"
           /\ file # "absent" \/ op[c] = "start"
           /\ Goto(c, IF file = "absent" THEN "open" ELSE IF Linux THEN "systemctl" ELSE "print")
           /\ UNCHANGED machine

NotInstalled(c) == /\ pc[c] = "look" /\ file = "absent" /\ op[c] = "stop"
                   /\ Exit(c, "refused")
                   /\ UNCHANGED machine

\* fopen with "w" truncates; on macOS the directory is made first.
Open(c) == /\ pc[c] = "open"
           /\ file' = "part"
           /\ dir' = TRUE
           /\ Goto(c, "write")
           /\ UNCHANGED manager

\* fwrite fills a buffer of stdio, which fclose writes.
Write(c) == /\ pc[c] = "write"
            /\ file' = "whole"
            /\ Goto(c, IF Linux THEN "reload" ELSE "print")
            /\ UNCHANGED <<dir, manager>>

-----------------------------------------------------------------------------
(* systemd.  It takes a unit from the file when it starts it.              *)

DaemonReload(c) == pc[c] = "reload" /\ Goto(c, "systemctl") /\ UNCHANGED machine

SystemctlStart(c) == /\ pc[c] = "systemctl" /\ op[c] = "start"
                     /\ LastCall(c, manager.active \/ file = "whole",
                                 [manager EXCEPT !.active = TRUE])

SystemctlStop(c) == /\ pc[c] = "systemctl" /\ op[c] = "stop"
                    /\ LastCall(c, TRUE, [manager EXCEPT !.active = FALSE])

-----------------------------------------------------------------------------
(* launchd.                                                                *)

\* Mutant: a disabled service is not enabled.
LaunchctlPrint_NoEnable(c) ==
    /\ pc[c] = "print"
    /\ Goto(c, IF manager.bootstrapped
               THEN IF op[c] = "start" THEN "kickstart" ELSE "bootout"
               ELSE IF op[c] = "start" THEN "bootstrap" ELSE "kill")
    /\ UNCHANGED machine

LaunchctlPrint(c) ==
    /\ pc[c] = "print"
    /\ Goto(c, IF manager.bootstrapped
               THEN IF op[c] = "start" THEN "kickstart" ELSE "bootout"
               ELSE IF op[c] = "start" THEN "enable" ELSE "kill")
    /\ UNCHANGED machine

Enable(c) == /\ pc[c] = "enable"
             /\ manager' = [manager EXCEPT !.disabled = FALSE]
             /\ Goto(c, "bootstrap")
             /\ UNCHANGED <<dir, file>>

\* It starts the program too, as RunAtLoad is true.  While an instance from
\* before still runs it may be refused; if not, that one has gone.
Bootstrap(c) ==
    /\ pc[c] = "bootstrap"
    /\ \/ LastCall(c, ~manager.bootstrapped /\ ~manager.disabled /\ file = "whole",
                   [manager EXCEPT !.bootstrapped = TRUE, !.active = TRUE, !.lingers = FALSE])
       \/ manager.lingers /\ LastCall(c, FALSE, manager)

Kickstart(c) == /\ pc[c] = "kickstart"
                /\ LastCall(c, manager.bootstrapped, [manager EXCEPT !.active = TRUE])

\* Mutant: what is not bootstrapped is taken not to run.
Kill_NotBootstrapped(c) == /\ pc[c] = "kill"
                           /\ Exit(c, "done")
                           /\ UNCHANGED machine

\* SIGTERM to an instance, if there is one.  For one of a service that is
\* bootstrapped all the same, KeepAlive may start another.
Kill(c) == /\ pc[c] = "kill"
           /\ \E again \in {FALSE, manager.active} :
                  LastCall(c, manager.active \/ manager.lingers,
                           [manager EXCEPT !.active = again, !.lingers = FALSE])

\* Mutant: "disable" comes first.
Bootout_Disabled(c) == /\ pc[c] = "bootout"
                       /\ manager' = [manager EXCEPT !.disabled = TRUE]
                       /\ Goto(c, "disable")
                       /\ UNCHANGED <<dir, file>>

\* The service is unloaded; an instance of it may still run then.
Bootout(c) ==
    /\ pc[c] = "bootout"
    /\ \E still \in {manager.lingers, manager.lingers \/ manager.active} :
           manager' = [manager EXCEPT !.bootstrapped = FALSE, !.active = FALSE,
                                      !.lingers = still]
    /\ Goto(c, "disable")
    /\ UNCHANGED <<dir, file>>

Disable(c) == /\ pc[c] = "disable"
              /\ LastCall(c, TRUE, [manager EXCEPT !.disabled = TRUE])

\* An instance that was told to end when its service was booted out has ended.
Exited == /\ manager.lingers
          /\ manager' = [manager EXCEPT !.lingers = FALSE]
          /\ UNCHANGED <<platform, dir, file, pc, op, lone, status, failures>>

-----------------------------------------------------------------------------
Failure(c) == pc[c] # "idle" /\ failures < MaxFailures /\ failures' = failures + 1

\* The command is killed, or a call fails whose result it looks at: mkdir,
\* fopen, fwrite, daemon-reload, and the last call of each command.
Abort(c) == Failure(c) /\ Ends(c, "killed") /\ UNCHANGED machine

\* A call fails and the command goes on: nothing looks at what fclose, enable
\* and bootout return, and a failed print says "not bootstrapped".
Unnoticed(c) ==
    /\ Failure(c)
    /\ \/ pc[c] = "write" /\ pc' = [pc EXCEPT ![c] = IF Linux THEN "reload" ELSE "print"]
       \/ pc[c] = "enable" /\ pc' = [pc EXCEPT ![c] = "bootstrap"]
       \/ pc[c] = "bootout" /\ pc' = [pc EXCEPT ![c] = "disable"]
       \/ pc[c] = "print"
          /\ pc' = [pc EXCEPT ![c] = IF op[c] = "start" THEN "enable" ELSE "kill"]
    /\ lone' = [lone EXCEPT ![c] = FALSE]
    /\ UNCHANGED <<platform, machine, op, status>>

Step(c) == \/ StatPath(c) \/ MakePath(c) \/ PathExists(c)
           \/ Look(c) \/ NotInstalled(c) \/ Open(c) \/ Write(c)
           \/ DaemonReload(c) \/ SystemctlStart(c) \/ SystemctlStop(c)
           \/ LaunchctlPrint(c) \/ Enable(c) \/ Bootstrap(c) \/ Kickstart(c)
           \/ Kill(c) \/ Bootout(c) \/ Disable(c)

Next == \/ \E c \in Commands : \/ \E o \in {"start", "stop"} : Begin(c, o)
                               \/ Step(c) \/ Abort(c) \/ Unnoticed(c)
        \/ Exited

Spec == Init /\ [][Next]_vars

\* Commands run on, what is told to end ends, and users give the start command
\* again and again.
FairSpec == /\ Spec /\ WF_vars(Exited)
            /\ \A c \in Commands : WF_vars(Step(c)) /\ SF_vars(Begin(c, "start"))

-----------------------------------------------------------------------------
\* The types of the variables; exit statuses are success or failure.
TypeOK == /\ platform \in Platforms
          /\ dir \in BOOLEAN
          /\ file \in {"absent", "part", "whole"}
          /\ manager \in [active : BOOLEAN, bootstrapped : BOOLEAN, disabled : BOOLEAN,
                        lingers : BOOLEAN]
          /\ pc \in [Commands -> {"idle", "stat", "mkdir", "look", "open", "write", "reload",
                                  "systemctl", "print", "enable", "bootstrap", "kickstart",
                                  "kill", "bootout", "disable"}]
          /\ op \in [Commands -> {"start", "stop"}]
          /\ lone \in [Commands -> BOOLEAN]
          /\ status \in [Commands -> {"ok", "failed"}]
          /\ failures \in 0..MaxFailures

\* A command with which nothing interferes does what it says, whatever other
\* commands, races and failures have left behind.  A start reports success
\* exactly when the service is up, and it is up unless an interrupted
\* installation has left a part of a unit file, or launchd still waits for an
\* instance to end.  A stop leaves the service down, and fails if nothing is
\* installed; an instance still runs only if this stop itself has just booted
\* it out, so that a second stop, which finds nothing bootstrapped, ends it.
LoneCommandWorks ==
    [][\A c \in Commands : lone[c] /\ pc[c] # "idle" /\ pc'[c] = "idle" /\ failures' = failures =>
           IF op[c] = "start"
           THEN /\ (status'[c] = "ok") = manager'.active
                /\ file' # "part" /\ ~manager'.lingers => status'[c] = "ok"
           ELSE /\ ~manager'.active
                /\ manager'.lingers => pc[c] = "disable"
                /\ file' = "absent" => status'[c] = "failed"]_vars

\* An installed unit file is damaged only by a start that saw none, and that
\* another command overlaps.
UnitSurvives ==
    [][file = "whole" /\ file' # "whole" =>
           \E c \in Commands : pc[c] = "open" /\ op[c] = "start" /\ ~lone[c]]_vars

\* The service becomes loaded and disabled at once, so that it is loaded now
\* but not after the next login, only by the "disable" of a stop that another
\* command overlaps or one call of which has failed.
LoadedAndDisabled == manager.bootstrapped /\ manager.disabled
OnlyRacesDisable ==
    [][~LoadedAndDisabled /\ LoadedAndDisabled' =>
           \E c \in Commands : pc[c] = "disable" /\ ~lone[c]]_vars

\* For a user who starts again and again the service comes up, through
\* failures, races and stops, unless a part of a unit file stays behind.
StartsHeal == []<>manager.active \/ <>[](file = "part")
===============================================================================

----------------------------- MODULE ServiceProofs -----------------------------
(***************************************************************************)
(* Theorems about Service, for any set of commands, either platform and    *)
(* any number of failures.  What a lone command relies on is that nobody   *)
(* else moves: the invariant says so, and what follows from it for the two *)
(* places where a command acts on what it has seen or done before.         *)
(***************************************************************************)
EXTENDS Service, TLAPS

\* While a command is lone, all others are idle.
Alone == \A c, d \in Commands : lone[c] /\ c # d => pc[d] = "idle"

\* A command that opens the file is a start; a lone one has seen no file, and
\* there still is none.
Opening == \A c \in Commands : pc[c] = "open" =>
    op[c] = "start" /\ (lone[c] => file = "absent")

\* A lone stop that is about to disable the service has booted it out.
Disabling == \A c \in Commands : pc[c] = "disable" /\ lone[c] => ~manager.bootstrapped

IInv == TypeOK /\ Alone /\ Opening /\ Disabling

-----------------------------------------------------------------------------
\* The invariant holds at first: nobody runs.
LEMMA InitInv == Init => IInv
BY ServiceAssumption DEF Init, IInv, TypeOK, Alone, Opening, Disabling

\* A new command makes all others no longer lone.
LEMMA BeginInv ==
    ASSUME IInv, NEW c \in Commands, NEW o \in {"start", "stop"}, Begin(c, o)
    PROVE  IInv'
<1>1. TypeOK'
  BY DEF IInv, TypeOK, Begin, machine, Linux
<1>2. Alone'
  BY DEF IInv, TypeOK, Alone, Begin
<1>3. Opening' /\ Disabling'
  BY DEF IInv, TypeOK, Opening, Disabling, Begin, machine, Linux
<1>. QED
  BY <1>1, <1>2, <1>3 DEF IInv

\* Every action of a running command that goes on: Goto moves this command
\* only, so that the others stay lone or idle.
LEMMA GotoAlone ==
    ASSUME IInv, NEW c \in Commands, pc[c] # "idle", NEW to, Goto(c, to)
    PROVE  Alone'
BY DEF IInv, TypeOK, Alone, Goto

\* The installation.
LEMMA InstallInv ==
    ASSUME IInv, NEW c \in Commands,
           StatPath(c) \/ MakePath(c) \/ Look(c) \/ Open(c) \/ Write(c) \/ DaemonReload(c)
    PROVE  IInv'
<1>1. CASE StatPath(c)
  <2>1. pc[c] # "idle" /\ Goto(c, IF dir THEN "look" ELSE "mkdir") /\ UNCHANGED machine
    BY <1>1 DEF StatPath
  <2>2. TypeOK' /\ Opening' /\ Disabling'
    BY <2>1 DEF IInv, TypeOK, Opening, Disabling, Goto, machine
  <2>. QED  BY <2>1, <2>2, GotoAlone DEF IInv
<1>2. CASE MakePath(c)
  <2>1. /\ pc[c] # "idle" /\ Goto(c, "look")
        /\ dir' = TRUE /\ UNCHANGED <<file, manager>>
    BY <1>2 DEF MakePath
  <2>2. TypeOK' /\ Opening' /\ Disabling'
    BY <2>1 DEF IInv, TypeOK, Opening, Disabling, Goto
  <2>. QED  BY <2>1, <2>2, GotoAlone DEF IInv
<1>3. CASE Look(c)
  <2> DEFINE to == IF file = "absent" THEN "open" ELSE IF Linux THEN "systemctl" ELSE "print"
  <2>1. /\ pc[c] # "idle" /\ Goto(c, to) /\ UNCHANGED machine
        /\ file = "absent" => op[c] = "start"
    BY <1>3 DEF Look
  <2>2. to \in {"open", "systemctl", "print"} /\ (to = "open" => file = "absent")
    OBVIOUS
  <2>. HIDE DEF to
  <2>3. TypeOK' /\ Opening' /\ Disabling'
    BY <2>1, <2>2 DEF IInv, TypeOK, Opening, Disabling, Goto, machine
  <2>. QED  BY <2>1, <2>3, GotoAlone DEF IInv
<1>4. CASE Open(c)
  <2>1. /\ pc[c] # "idle" /\ Goto(c, "write")
        /\ dir' = TRUE /\ file' = "part" /\ UNCHANGED manager
    BY <1>4 DEF Open
  <2>2. TypeOK' /\ Disabling'
    BY <2>1 DEF IInv, TypeOK, Disabling, Goto
  <2>3. Opening'
    BY <2>1 DEF IInv, TypeOK, Alone, Opening, Goto
  <2>. QED  BY <2>1, <2>2, <2>3, GotoAlone DEF IInv
<1>5. CASE Write(c)
  <2> DEFINE to == IF Linux THEN "reload" ELSE "print"
  <2>1. /\ pc[c] # "idle" /\ Goto(c, to)
        /\ file' = "whole" /\ UNCHANGED <<dir, manager>>
    BY <1>5 DEF Write
  <2>2. to \in {"reload", "print"}
    OBVIOUS
  <2>. HIDE DEF to
  <2>3. TypeOK' /\ Disabling'
    BY <2>1, <2>2 DEF IInv, TypeOK, Disabling, Goto
  <2>4. Opening'
    BY <2>1, <2>2 DEF IInv, TypeOK, Alone, Opening, Goto
  <2>. QED  BY <2>1, <2>3, <2>4, GotoAlone DEF IInv
<1>6. CASE DaemonReload(c)
  <2>1. pc[c] # "idle" /\ Goto(c, "systemctl") /\ UNCHANGED machine
    BY <1>6 DEF DaemonReload
  <2>2. TypeOK' /\ Opening' /\ Disabling'
    BY <2>1 DEF IInv, TypeOK, Opening, Disabling, Goto, machine
  <2>. QED  BY <2>1, <2>2, GotoAlone DEF IInv
<1>. QED
  BY <1>1, <1>2, <1>3, <1>4, <1>5, <1>6

\* launchd: the calls that are followed by another one.
LEMMA LaunchdInv ==
    ASSUME IInv, NEW c \in Commands, LaunchctlPrint(c) \/ Enable(c) \/ Bootout(c)
    PROVE  IInv'
<1>1. CASE LaunchctlPrint(c)
  <2> DEFINE to == IF manager.bootstrapped
                   THEN IF op[c] = "start" THEN "kickstart" ELSE "bootout"
                   ELSE IF op[c] = "start" THEN "enable" ELSE "kill"
  <2>1. pc[c] # "idle" /\ Goto(c, to) /\ UNCHANGED machine
    BY <1>1 DEF LaunchctlPrint
  <2>2. to \in {"kickstart", "bootout", "enable", "kill"}
    OBVIOUS
  <2>. HIDE DEF to
  <2>3. TypeOK' /\ Opening' /\ Disabling'
    BY <2>1, <2>2 DEF IInv, TypeOK, Opening, Disabling, Goto, machine
  <2>. QED  BY <2>1, <2>3, GotoAlone DEF IInv
<1>2. CASE Enable(c)
  <2>1. /\ pc[c] # "idle" /\ Goto(c, "bootstrap") /\ UNCHANGED <<dir, file>>
        /\ manager' = [manager EXCEPT !.disabled = FALSE]
    BY <1>2 DEF Enable
  <2>2. TypeOK' /\ Opening' /\ Disabling'
    BY <2>1 DEF IInv, TypeOK, Opening, Disabling, Goto
  <2>. QED  BY <2>1, <2>2, GotoAlone DEF IInv
<1>3. CASE Bootout(c)
  <2>1. /\ pc[c] # "idle" /\ Goto(c, "disable") /\ UNCHANGED <<dir, file>>
    BY <1>3 DEF Bootout
  <2>2. PICK still \in {manager.lingers, manager.lingers \/ manager.active} :
            manager' = [manager EXCEPT !.bootstrapped = FALSE, !.active = FALSE,
                                       !.lingers = still]
    BY <1>3 DEF Bootout
  <2>3. still \in BOOLEAN
    BY DEF IInv, TypeOK
  <2>4. TypeOK' /\ Opening' /\ Disabling'
    BY <2>1, <2>2, <2>3 DEF IInv, TypeOK, Opening, Disabling, Goto
  <2>. QED  BY <2>1, <2>4, GotoAlone DEF IInv
<1>. QED
  BY <1>1, <1>2, <1>3

\* The end of a command: it is idle and not lone, and all others are as they
\* were; what it has changed concerns a lone command only if it was itself.
LEMMA EndsInv ==
    ASSUME IInv, NEW c \in Commands, pc[c] # "idle", NEW outcome, Ends(c, outcome),
           UNCHANGED <<dir, file>>, failures' \in 0..MaxFailures,
           manager' \in [active : BOOLEAN, bootstrapped : BOOLEAN, disabled : BOOLEAN,
                        lingers : BOOLEAN]
    PROVE  IInv'
<1>1. Status(outcome) \in {"ok", "failed"}
  BY DEF Status
<1>2. TypeOK'
  BY <1>1 DEF IInv, TypeOK, Ends
<1>3. Alone' /\ Opening'
  BY DEF IInv, TypeOK, Alone, Opening, Ends
<1>4. Disabling'
  <2> SUFFICES ASSUME NEW d \in Commands, (pc[d] = "disable")', lone'[d]
               PROVE  ~manager'.bootstrapped
    BY DEF Disabling
  <2>1. d # c /\ lone[d]
    BY DEF IInv, TypeOK, Ends
  <2>. QED  BY <2>1 DEF IInv, Alone
<1>. QED
  BY <1>2, <1>3, <1>4 DEF IInv

\* The last calls, of systemd and of launchd, and the commands that give up.
LEMMA LastInv ==
    ASSUME IInv, NEW c \in Commands,
           \/ PathExists(c) \/ NotInstalled(c) \/ SystemctlStart(c) \/ SystemctlStop(c)
           \/ Bootstrap(c) \/ Kickstart(c) \/ Kill(c) \/ Disable(c) \/ Abort(c)
    PROVE  IInv'
<1> DEFINE M == [active : BOOLEAN, bootstrapped : BOOLEAN, disabled : BOOLEAN, lingers : BOOLEAN]
<1>0. manager \in M /\ failures \in 0..MaxFailures
  BY DEF IInv, TypeOK
<1>1. pc[c] # "idle"
  BY DEF PathExists, NotInstalled, SystemctlStart, SystemctlStop, Bootstrap, Kickstart,
         Kill, Disable, Abort, Failure
<1>2. (failures' = failures \/ (failures < MaxFailures /\ failures' = failures + 1))
          => failures' \in 0..MaxFailures
  BY <1>0, ServiceAssumption
<1>3. UNCHANGED <<dir, file>>
  BY DEF PathExists, NotInstalled, SystemctlStart, SystemctlStop, Bootstrap, Kickstart,
         Kill, Disable, Abort, LastCall, machine
<1>4. manager' \in M
  <2>1. CASE Kill(c)
    <3>1. PICK again \in {FALSE, manager.active} :
              \/ manager' = manager
              \/ manager' = [manager EXCEPT !.active = again, !.lingers = FALSE]
      BY <2>1 DEF Kill, LastCall
    <3>. QED  BY <1>0, <3>1
  <2>2. CASE ~Kill(c)
    BY <1>0, <2>2 DEF PathExists, NotInstalled, SystemctlStart, SystemctlStop, Bootstrap,
           Kickstart, Disable, Abort, LastCall, machine
  <2>. QED  BY <2>1, <2>2
<1>6. failures' \in 0..MaxFailures
  BY <1>0, <1>2 DEF PathExists, NotInstalled, SystemctlStart, SystemctlStop, Bootstrap,
         Kickstart, Kill, Disable, Abort, Failure, Exit, LastCall
<1>5. \E outcome \in {"done", "refused", "killed"} : Ends(c, outcome)
  <2>1. \/ \E outcome \in {"done", "refused"} : Exit(c, outcome)
        \/ Ends(c, "killed")
    BY DEF PathExists, NotInstalled, SystemctlStart, SystemctlStop, Bootstrap, Kickstart,
           Kill, Disable, Abort, LastCall
  <2>. QED  BY <2>1 DEF Exit
<1>. QED
  BY <1>1, <1>3, <1>4, <1>5, <1>6, EndsInv

\* A failure that goes unnoticed makes the command not lone.
LEMMA UnnoticedInv ==
    ASSUME IInv, NEW c \in Commands, Unnoticed(c)
    PROVE  IInv'
<1>1. PICK to \in {"reload", "print", "bootstrap", "disable", "enable", "kill"} :
          pc' = [pc EXCEPT ![c] = to]
  BY DEF Unnoticed
<1>2. /\ pc[c] # "idle" /\ failures < MaxFailures /\ failures' = failures + 1
      /\ lone' = [lone EXCEPT ![c] = FALSE]
      /\ UNCHANGED <<platform, dir, file, manager, op, status>>
  BY DEF Unnoticed, Failure, machine
<1>3. TypeOK'
  BY <1>1, <1>2, ServiceAssumption DEF IInv, TypeOK
<1>4. Alone' /\ Opening' /\ Disabling'
  BY <1>1, <1>2 DEF IInv, TypeOK, Alone, Opening, Disabling
<1>. QED
  BY <1>3, <1>4 DEF IInv

\* An instance that ends leaves no command in another place.
LEMMA ExitedInv == ASSUME IInv, Exited PROVE IInv'
<1>1. /\ manager' = [manager EXCEPT !.lingers = FALSE]
      /\ UNCHANGED <<platform, dir, file, pc, op, lone, status, failures>>
  BY DEF Exited
<1>. QED
  BY <1>1 DEF IInv, TypeOK, Alone, Opening, Disabling

\* Every step preserves the invariant.
LEMMA NextInv == IInv /\ [Next]_vars => IInv'
<1> SUFFICES ASSUME IInv, [Next]_vars PROVE IInv'
  OBVIOUS
<1>1. CASE UNCHANGED vars
  BY <1>1 DEF vars, machine, IInv, TypeOK, Alone, Opening, Disabling
<1>2. ASSUME NEW c \in Commands,
             (\E o \in {"start", "stop"} : Begin(c, o)) \/ Step(c) \/ Abort(c) \/ Unnoticed(c)
      PROVE  IInv'
  BY <1>2, BeginInv, InstallInv, LaunchdInv, LastInv, UnnoticedInv DEF Step
<1>. QED
  BY <1>1, <1>2, ExitedInv DEF Next

LEMMA Invariance == Spec => []IInv
BY InitInv, NextInv, PTL DEF Spec

-----------------------------------------------------------------------------
\* The variables keep their types (TypeOK).
THEOREM TypeCorrect == Spec => []TypeOK
<1>1. IInv => TypeOK
  BY DEF IInv
<1>. QED
  BY <1>1, Invariance, PTL

\* What changes the file or the manager, action by action.
LEMMA FileChanges ==
    ASSUME IInv, [Next]_vars, file = "whole", file' # "whole"
    PROVE  \E c \in Commands : Open(c)
BY DEF Next, Step, Begin, StatPath, MakePath, PathExists, Look, NotInstalled, Write,
       DaemonReload, SystemctlStart, SystemctlStop, LaunchctlPrint, Enable, Bootstrap,
       Kickstart, Kill, Bootout, Disable, Exited, Abort, Unnoticed, LastCall, machine, vars

\* UnitSurvives: an installed unit file is truncated only by a start that
\* overlaps with another command.
THEOREM FileSurvives == Spec => UnitSurvives
<1>1. IInv /\ [Next]_vars =>
          [file = "whole" /\ file' # "whole" =>
              \E c \in Commands : pc[c] = "open" /\ op[c] = "start" /\ ~lone[c]]_vars
  BY FileChanges DEF Open, IInv, Opening
<1>. QED
  BY <1>1, Invariance, PTL DEF Spec, UnitSurvives

\* Only the last call of a stop can leave the service loaded and disabled.
LEMMA DisabledBy ==
    ASSUME IInv, [Next]_vars, ~LoadedAndDisabled, LoadedAndDisabled'
    PROVE  \E c \in Commands : Disable(c) /\ manager.bootstrapped
<1>1. manager \in [active : BOOLEAN, bootstrapped : BOOLEAN, disabled : BOOLEAN, lingers : BOOLEAN]
  BY DEF IInv, TypeOK
<1>2. manager' # manager
  BY DEF LoadedAndDisabled
<1>8. ~Exited
  BY <1>1 DEF Exited, LoadedAndDisabled
<1>3. PICK c \in Commands :
          \/ SystemctlStart(c) \/ SystemctlStop(c) \/ Enable(c) \/ Bootstrap(c)
          \/ Kickstart(c) \/ Kill(c) \/ Bootout(c) \/ Disable(c)
  BY <1>1, <1>2, <1>8 DEF Next, Step, Begin, StatPath, MakePath, PathExists, Look, NotInstalled, Open,
              Write, DaemonReload, LaunchctlPrint, Abort, Unnoticed, machine, vars
<1>4. CASE SystemctlStart(c) \/ SystemctlStop(c) \/ Kickstart(c) \/ Kill(c)
  BY <1>1, <1>4 DEF SystemctlStart, SystemctlStop, Kickstart, Kill, LastCall, LoadedAndDisabled
<1>5. CASE Enable(c) \/ Bootout(c)
  <2>1. ~manager'.disabled \/ ~manager'.bootstrapped
    BY <1>1, <1>5 DEF Enable, Bootout
  <2>. QED  BY <2>1 DEF LoadedAndDisabled
<1>6. CASE Bootstrap(c)
  BY <1>1, <1>6 DEF Bootstrap, LastCall, LoadedAndDisabled
<1>7. CASE Disable(c)
  BY <1>1, <1>7 DEF Disable, LastCall, LoadedAndDisabled
<1>. QED
  BY <1>3, <1>4, <1>5, <1>6, <1>7

\* OnlyRacesDisable: the service becomes loaded and disabled only by the
\* "disable" of a stop that another command overlaps or one call of which has
\* failed.
THEOREM RacesDisable == Spec => OnlyRacesDisable
<1>1. IInv /\ [Next]_vars =>
          [~LoadedAndDisabled /\ LoadedAndDisabled' =>
              \E c \in Commands : pc[c] = "disable" /\ ~lone[c]]_vars
  BY DisabledBy DEF Disable, IInv, Disabling
<1>. QED
  BY <1>1, Invariance, PTL DEF Spec, OnlyRacesDisable
-----------------------------------------------------------------------------
(* What a lone command relies on.  It may be the first one after any number *)
(* of races and failures, so that beside what it has seen itself it needs   *)
(* what no command can break.                                               *)

\* Which command, on which platform, is at which call.
StartCalls == {"stat", "mkdir", "open", "write", "enable", "bootstrap", "kickstart"}
StopCalls == {"kill", "bootout", "disable"}
LinuxCalls == {"stat", "mkdir", "reload", "systemctl"}
MacCalls == {"print", "enable", "bootstrap", "kickstart", "kill", "bootout", "disable"}
Places == \A c \in Commands : /\ pc[c] \in StartCalls => op[c] = "start"
                              /\ pc[c] \in StopCalls => op[c] = "stop"
                              /\ pc[c] \in LinuxCalls => Linux
                              /\ pc[c] \in MacCalls => ~Linux

\* What the manager runs or has loaded was installed; launchd starts only what
\* is loaded, and only there an instance may be left over.
Loaded == /\ manager.active \/ manager.bootstrapped \/ manager.lingers => file # "absent"
          /\ ~Linux /\ manager.active => manager.bootstrapped
          /\ manager.lingers => ~Linux

\* What a lone command has seen or done is still so.
Seen == \A c \in Commands : lone[c] =>
    /\ pc[c] = "mkdir" => ~dir
    /\ pc[c] \notin {"idle", "stat", "mkdir", "look", "open"} => file # "absent"
    /\ pc[c] \in {"enable", "bootstrap", "kill"} => ~manager.bootstrapped
    /\ pc[c] = "bootstrap" => ~manager.disabled
    /\ pc[c] = "kickstart" => manager.bootstrapped

History == Places /\ Loaded /\ Seen

\* It holds at first.
LEMMA InitHistory == Init => History
BY DEF Init, History, Places, Loaded, Seen, StartCalls, StopCalls, LinuxCalls, MacCalls, Linux

\* A new command makes all others no longer lone, and has seen nothing.
LEMMA BeginHistory ==
    ASSUME IInv, History, NEW c \in Commands, NEW o \in {"start", "stop"}, Begin(c, o)
    PROVE  History'
<1> DEFINE to == IF Linux /\ o = "start" THEN "stat" ELSE "look"
<1>1. /\ pc' = [pc EXCEPT ![c] = to] /\ op' = [op EXCEPT ![c] = o]
      /\ UNCHANGED <<platform, dir, file, manager>>
      /\ \A d \in Commands : lone'[d] => d = c
  BY DEF Begin, machine
<1>2. to \in {"stat", "look"} /\ (to = "stat" => Linux /\ o = "start")
  OBVIOUS
<1>. HIDE DEF to
<1>3. Places'
  BY <1>1, <1>2 DEF IInv, TypeOK, History, Places, StartCalls, StopCalls, LinuxCalls, MacCalls,
                    Linux
<1>4. Loaded'
  BY <1>1 DEF History, Loaded, Linux
<1>5. Seen'
  BY <1>1, <1>2 DEF IInv, TypeOK, Seen
<1>. QED
  BY <1>3, <1>4, <1>5 DEF History

\* A command moves on to a call that fits it, and what a lone one relies on
\* there is so; of all others none is lone unless it is idle.
LEMMA MoveHistory ==
    ASSUME IInv, History, NEW c \in Commands, pc[c] # "idle", NEW to, Goto(c, to),
           to \in StartCalls => op[c] = "start",
           to \in StopCalls => op[c] = "stop",
           to \in LinuxCalls => Linux,
           to \in MacCalls => ~Linux,
           Loaded',
           lone[c] =>
               /\ to = "mkdir" => ~dir'
               /\ to \notin {"idle", "stat", "mkdir", "look", "open"} => file' # "absent"
               /\ to \in {"enable", "bootstrap", "kill"} => ~manager'.bootstrapped
               /\ to = "bootstrap" => ~manager'.disabled
               /\ to = "kickstart" => manager'.bootstrapped
    PROVE  History'
<1>1. pc' = [pc EXCEPT ![c] = to] /\ UNCHANGED <<platform, op, lone>>
  BY DEF Goto
<1>2. Places'
  BY <1>1 DEF IInv, TypeOK, History, Places, StartCalls, StopCalls, LinuxCalls, MacCalls, Linux
<1>3. Seen'
  <2> SUFFICES ASSUME NEW d \in Commands, lone'[d]
               PROVE  /\ pc'[d] = "mkdir" => ~dir'
                      /\ pc'[d] \notin {"idle", "stat", "mkdir", "look", "open"}
                             => file' # "absent"
                      /\ pc'[d] \in {"enable", "bootstrap", "kill"} => ~manager'.bootstrapped
                      /\ pc'[d] = "bootstrap" => ~manager'.disabled
                      /\ pc'[d] = "kickstart" => manager'.bootstrapped
    BY DEF Seen
  <2>1. lone[d] /\ pc'[c] = to
    BY <1>1 DEF IInv, TypeOK
  <2>2. CASE d = c
    BY <2>1, <2>2
  <2>3. CASE d # c
    BY <1>1, <2>1, <2>3 DEF IInv, TypeOK, Alone
  <2>. QED  BY <2>2, <2>3
<1>. QED
  BY <1>2, <1>3 DEF History

\* The end of a command.
LEMMA EndHistory ==
    ASSUME IInv, History, NEW c \in Commands, pc[c] # "idle", NEW outcome, Ends(c, outcome),
           Loaded'
    PROVE  History'
<1>1. /\ pc' = [pc EXCEPT ![c] = "idle"] /\ lone' = [lone EXCEPT ![c] = FALSE]
      /\ UNCHANGED <<platform, op>>
  BY DEF Ends
<1>2. Places'
  BY <1>1 DEF IInv, TypeOK, History, Places, StartCalls, StopCalls, LinuxCalls, MacCalls, Linux
<1>3. Seen'
  BY <1>1 DEF IInv, TypeOK, Alone, Seen
<1>. QED
  BY <1>2, <1>3 DEF History

\* The installation, and daemon-reload.
LEMMA InstallHistory ==
    ASSUME IInv, History, NEW c \in Commands,
           StatPath(c) \/ MakePath(c) \/ Look(c) \/ Open(c) \/ Write(c) \/ DaemonReload(c)
    PROVE  History'
<1> USE DEF StartCalls, StopCalls, LinuxCalls, MacCalls
<1>1. CASE StatPath(c)
  <2> DEFINE to == IF dir THEN "look" ELSE "mkdir"
  <2>1. pc[c] = "stat" /\ Goto(c, to) /\ UNCHANGED <<dir, file, manager>>
    BY <1>1 DEF StatPath, machine
  <2>2. to \in {"look", "mkdir"} /\ (to = "mkdir" => ~dir)
    OBVIOUS
  <2>. HIDE DEF to
  <2>3. op[c] = "start" /\ Linux
    BY <2>1 DEF History, Places
  <2>4. Loaded'
    BY <2>1 DEF Goto, Linux, History, Loaded
  <2>. QED  BY <2>1, <2>2, <2>3, <2>4, MoveHistory
<1>2. CASE MakePath(c)
  <2>1. pc[c] = "mkdir" /\ Goto(c, "look") /\ UNCHANGED <<file, manager>>
    BY <1>2 DEF MakePath
  <2>2. Loaded'
    BY <2>1 DEF Goto, Linux, History, Loaded
  <2>. QED  BY <2>1, <2>2, MoveHistory
<1>3. CASE Look(c)
  <2> DEFINE to == IF file = "absent" THEN "open" ELSE IF Linux THEN "systemctl" ELSE "print"
  <2>1. /\ pc[c] = "look" /\ Goto(c, to) /\ UNCHANGED <<dir, file, manager>>
        /\ file # "absent" \/ op[c] = "start"
    BY <1>3 DEF Look, machine
  <2>2. /\ to \in {"open", "systemctl", "print"} /\ (to = "open" <=> file = "absent")
        /\ (to = "systemctl" => Linux) /\ (to = "print" => ~Linux)
    OBVIOUS
  <2>. HIDE DEF to
  <2>3. Loaded'
    BY <2>1 DEF Goto, Linux, History, Loaded
  <2>. QED  BY <2>1, <2>2, <2>3, MoveHistory
<1>4. CASE Open(c)
  <2>1. pc[c] = "open" /\ Goto(c, "write") /\ file' = "part" /\ UNCHANGED manager
    BY <1>4 DEF Open
  <2>2. op[c] = "start"
    BY <2>1 DEF History, Places
  <2>3. Loaded'
    BY <2>1 DEF Goto, Linux, History, Loaded
  <2>. QED  BY <2>1, <2>2, <2>3, MoveHistory
<1>5. CASE Write(c)
  <2> DEFINE to == IF Linux THEN "reload" ELSE "print"
  <2>1. pc[c] = "write" /\ Goto(c, to) /\ file' = "whole" /\ UNCHANGED manager
    BY <1>5 DEF Write
  <2>2. to \in {"reload", "print"} /\ (to = "reload" => Linux) /\ (to = "print" => ~Linux)
    OBVIOUS
  <2>. HIDE DEF to
  <2>3. Loaded'
    BY <2>1 DEF Goto, Linux, History, Loaded
  <2>. QED  BY <2>1, <2>2, <2>3, MoveHistory
<1>6. CASE DaemonReload(c)
  <2>1. pc[c] = "reload" /\ Goto(c, "systemctl") /\ UNCHANGED <<dir, file, manager>>
    BY <1>6 DEF DaemonReload, machine
  <2>2. Linux /\ (lone[c] => file # "absent")
    BY <2>1 DEF History, Places, Seen
  <2>3. Loaded'
    BY <2>1 DEF Goto, Linux, History, Loaded
  <2>. QED  BY <2>1, <2>2, <2>3, MoveHistory
<1>. QED
  BY <1>1, <1>2, <1>3, <1>4, <1>5, <1>6

\* launchd.
LEMMA LaunchdHistory ==
    ASSUME IInv, History, NEW c \in Commands, LaunchctlPrint(c) \/ Enable(c) \/ Bootout(c)
    PROVE  History'
<1> USE DEF StartCalls, StopCalls, LinuxCalls, MacCalls
<1>0. manager \in [active : BOOLEAN, bootstrapped : BOOLEAN, disabled : BOOLEAN, lingers : BOOLEAN]
  BY DEF IInv, TypeOK
<1>1. CASE LaunchctlPrint(c)
  <2> DEFINE to == IF manager.bootstrapped
                   THEN IF op[c] = "start" THEN "kickstart" ELSE "bootout"
                   ELSE IF op[c] = "start" THEN "enable" ELSE "kill"
  <2>1. pc[c] = "print" /\ Goto(c, to) /\ UNCHANGED <<dir, file, manager>>
    BY <1>1 DEF LaunchctlPrint, machine
  <2>2. ~Linux /\ (lone[c] => file # "absent") /\ op[c] \in {"start", "stop"}
    BY <2>1 DEF History, Places, Seen, IInv, TypeOK
  <2>3. /\ to \in {"kickstart", "bootout", "enable", "kill"}
        /\ to \in {"kickstart", "bootout"} <=> manager.bootstrapped
        /\ to \in {"kickstart", "enable"} <=> op[c] = "start"
    OBVIOUS
  <2>. HIDE DEF to
  <2>4. Loaded'
    BY <2>1 DEF Goto, Linux, History, Loaded
  <2>. QED  BY <2>1, <2>2, <2>3, <2>4, MoveHistory
<1>2. CASE Enable(c)
  <2>1. /\ pc[c] = "enable" /\ Goto(c, "bootstrap") /\ UNCHANGED <<dir, file>>
        /\ manager' = [manager EXCEPT !.disabled = FALSE]
    BY <1>2 DEF Enable
  <2>2. /\ ~Linux /\ op[c] = "start"
        /\ lone[c] => file # "absent" /\ ~manager.bootstrapped
    BY <2>1 DEF History, Places, Seen
  <2>3. /\ manager'.bootstrapped = manager.bootstrapped
        /\ manager'.active = manager.active /\ ~manager'.disabled
    BY <1>0, <2>1
  <2>4. Loaded'
    BY <2>1, <2>3 DEF Goto, Linux, History, Loaded
  <2>. QED  BY <2>1, <2>2, <2>3, <2>4, MoveHistory
<1>3. CASE Bootout(c)
  <2>1. pc[c] = "bootout" /\ Goto(c, "disable") /\ UNCHANGED <<dir, file>>
    BY <1>3 DEF Bootout
  <2>2. ~Linux /\ op[c] = "stop" /\ (lone[c] => file # "absent")
    BY <2>1 DEF History, Places, Seen
  <2>3. PICK still \in {manager.lingers, manager.lingers \/ manager.active} :
            manager' = [manager EXCEPT !.bootstrapped = FALSE, !.active = FALSE,
                                       !.lingers = still]
    BY <1>3 DEF Bootout
  <2>5. ~manager'.bootstrapped /\ ~manager'.active /\ manager'.lingers = still
    BY <1>0, <2>3
  <2>4. Loaded'
    BY <2>1, <2>2, <2>5 DEF Goto, Linux, History, Loaded
  <2>. QED  BY <2>1, <2>2, <2>4, MoveHistory
<1>. QED
  BY <1>1, <1>2, <1>3

\* The last calls leave what is loaded installed; a call that is refused, and
\* a command that is killed, change nothing.
LEMMA LastLoaded ==
    ASSUME IInv, History, NEW c \in Commands,
           \/ PathExists(c) \/ NotInstalled(c) \/ SystemctlStart(c) \/ SystemctlStop(c)
           \/ Bootstrap(c) \/ Kickstart(c) \/ Kill(c) \/ Disable(c) \/ Abort(c)
    PROVE  Loaded'
<1>0. manager \in [active : BOOLEAN, bootstrapped : BOOLEAN, disabled : BOOLEAN, lingers : BOOLEAN]
  BY DEF IInv, TypeOK
<1>1. UNCHANGED <<platform, file>> /\ (Linux' <=> Linux)
  BY DEF PathExists, NotInstalled, SystemctlStart, SystemctlStop, Bootstrap, Kickstart,
         Kill, Disable, Abort, LastCall, Exit, Ends, machine, Linux
<1>2. CASE PathExists(c) \/ NotInstalled(c) \/ Abort(c)
  BY <1>1, <1>2 DEF PathExists, NotInstalled, Abort, machine, History, Loaded
<1>3. CASE SystemctlStart(c) \/ SystemctlStop(c)
  <2>1. pc[c] = "systemctl"
    BY <1>3 DEF SystemctlStart, SystemctlStop
  <2>2. Linux
    BY <2>1 DEF History, Places, LinuxCalls
  <2>3. \/ manager' = manager
        \/ (manager.active \/ file = "whole") /\ manager' = [manager EXCEPT !.active = TRUE]
        \/ manager' = [manager EXCEPT !.active = FALSE]
    BY <1>3 DEF SystemctlStart, SystemctlStop, LastCall
  <2>. QED  BY <1>0, <1>1, <2>2, <2>3 DEF History, Loaded
<1>4. CASE Bootstrap(c)
  <2>1. \/ manager' = manager
        \/ file = "whole" /\ manager' = [manager EXCEPT !.bootstrapped = TRUE, !.active = TRUE,
                                                       !.lingers = FALSE]
    BY <1>4 DEF Bootstrap, LastCall
  <2>. QED  BY <1>0, <1>1, <2>1 DEF History, Loaded
<1>5. CASE Kickstart(c)
  <2>1. \/ manager' = manager
        \/ manager.bootstrapped /\ manager' = [manager EXCEPT !.active = TRUE]
    BY <1>5 DEF Kickstart, LastCall
  <2>. QED  BY <1>0, <1>1, <2>1 DEF History, Loaded
<1>6. CASE Kill(c)
  <2>1. PICK again \in {FALSE, manager.active} :
            \/ manager' = manager
            \/ manager' = [manager EXCEPT !.active = again, !.lingers = FALSE]
    BY <1>6 DEF Kill, LastCall
  <2>. QED  BY <1>0, <1>1, <2>1 DEF History, Loaded
<1>7. CASE Disable(c)
  <2>1. manager' = manager \/ manager' = [manager EXCEPT !.disabled = TRUE]
    BY <1>7 DEF Disable, LastCall
  <2>. QED  BY <1>0, <1>1, <2>1 DEF History, Loaded
<1>. QED
  BY <1>2, <1>3, <1>4, <1>5, <1>6, <1>7

\* The commands that end.
LEMMA LastHistory ==
    ASSUME IInv, History, NEW c \in Commands,
           \/ PathExists(c) \/ NotInstalled(c) \/ SystemctlStart(c) \/ SystemctlStop(c)
           \/ Bootstrap(c) \/ Kickstart(c) \/ Kill(c) \/ Disable(c) \/ Abort(c)
    PROVE  History'
<1>1. pc[c] # "idle"
  BY DEF PathExists, NotInstalled, SystemctlStart, SystemctlStop, Bootstrap, Kickstart,
         Kill, Disable, Abort, Failure
<1>2. \/ \E outcome \in {"done", "refused"} : Exit(c, outcome)
      \/ Ends(c, "killed")
  BY DEF PathExists, NotInstalled, SystemctlStart, SystemctlStop, Bootstrap, Kickstart,
         Kill, Disable, Abort, LastCall
<1>. QED
  BY <1>1, <1>2, LastLoaded, EndHistory DEF Exit

\* A command one of whose calls has failed goes on, but is not lone.
LEMMA UnnoticedHistory ==
    ASSUME IInv, History, NEW c \in Commands, Unnoticed(c)
    PROVE  History'
<1>1. /\ lone' = [lone EXCEPT ![c] = FALSE]
      /\ UNCHANGED <<platform, dir, file, manager, op>>
  BY DEF Unnoticed, machine
<1>2. PICK to : pc' = [pc EXCEPT ![c] = to]
                /\ \/ pc[c] = "write" /\ to = IF Linux THEN "reload" ELSE "print"
                   \/ pc[c] = "enable" /\ to = "bootstrap"
                   \/ pc[c] = "bootout" /\ to = "disable"
                   \/ pc[c] = "print" /\ to = IF op[c] = "start" THEN "enable" ELSE "kill"
  BY DEF Unnoticed
<1>3. /\ to \in StartCalls => op[c] = "start"
      /\ to \in StopCalls => op[c] = "stop"
      /\ to \in LinuxCalls => Linux
      /\ to \in MacCalls => ~Linux
  BY <1>2 DEF StartCalls, StopCalls, LinuxCalls, MacCalls, History, Places, IInv, TypeOK
<1>4. Places'
  BY <1>1, <1>2, <1>3 DEF IInv, TypeOK, History, Places, StartCalls, StopCalls, LinuxCalls,
                          MacCalls, Linux
<1>5. Loaded'
  BY <1>1 DEF History, Loaded, Linux
<1>6. Seen'
  BY <1>1, <1>2 DEF IInv, TypeOK, History, Seen
<1>. QED
  BY <1>4, <1>5, <1>6 DEF History

\* An instance that ends.
LEMMA ExitedHistory == ASSUME IInv, History, Exited PROVE History'
<1>1. /\ manager' = [manager EXCEPT !.lingers = FALSE]
      /\ UNCHANGED <<platform, dir, file, pc, op, lone, status, failures>>
  BY DEF Exited
<1>2. manager'.active = manager.active /\ manager'.bootstrapped = manager.bootstrapped
      /\ manager'.disabled = manager.disabled /\ ~manager'.lingers
  BY <1>1 DEF IInv, TypeOK
<1>. QED
  BY <1>1, <1>2 DEF History, Places, Loaded, Seen, Linux

\* Every step preserves it.
LEMMA NextHistory == IInv /\ History /\ [Next]_vars => History'
<1> SUFFICES ASSUME IInv, History, [Next]_vars PROVE History'
  OBVIOUS
<1>1. CASE UNCHANGED vars
  BY <1>1 DEF vars, machine, History, Places, Loaded, Seen, Linux
<1>2. ASSUME NEW c \in Commands,
             (\E o \in {"start", "stop"} : Begin(c, o)) \/ Step(c) \/ Abort(c) \/ Unnoticed(c)
      PROVE  History'
  BY <1>2, BeginHistory, InstallHistory, LaunchdHistory, LastHistory, UnnoticedHistory DEF Step
<1>. QED
  BY <1>1, <1>2, ExitedHistory DEF Next

LEMMA HistoryInvariance == Spec => []History
BY Invariance, InitHistory, NextHistory, PTL DEF Spec

\* A command that ends without a failure ends through a last call of its own:
\* a command that moves on is not idle, and no other one changes its place.
LEMMA EndsBy ==
    ASSUME IInv, [Next]_vars, NEW c \in Commands,
           pc[c] # "idle", pc'[c] = "idle", failures' = failures
    PROVE  \/ PathExists(c) \/ NotInstalled(c) \/ SystemctlStart(c) \/ SystemctlStop(c)
           \/ Bootstrap(c) \/ Kickstart(c) \/ Kill(c) \/ Disable(c)
<1>1. pc = [d \in Commands |-> pc[d]] /\ failures \in Nat
  BY ServiceAssumption DEF IInv, TypeOK
<1>2. PICK d \in Commands : (\E o \in {"start", "stop"} : Begin(d, o)) \/ Step(d)
                             \/ Abort(d) \/ Unnoticed(d)
  BY <1>1 DEF Next, vars, Exited
<1>3. ~Abort(d) /\ ~Unnoticed(d)
  BY <1>1 DEF Abort, Unnoticed, Failure
<1>4. ASSUME NEW o \in {"start", "stop"}, Begin(d, o) PROVE FALSE
  BY <1>1, <1>4 DEF Begin
<1>5. ~\E to : to # "idle" /\ pc' = [pc EXCEPT ![d] = to]
  BY <1>1
<1>6. CASE StatPath(d) \/ MakePath(d) \/ Look(d) \/ Open(d) \/ Write(d) \/ DaemonReload(d)
  BY <1>5, <1>6 DEF Goto, StatPath, MakePath, Look, Open, Write, DaemonReload
<1>7. CASE LaunchctlPrint(d) \/ Enable(d) \/ Bootout(d)
  BY <1>5, <1>7 DEF Goto, LaunchctlPrint, Enable, Bootout
<1>8. CASE \/ PathExists(d) \/ NotInstalled(d) \/ SystemctlStart(d) \/ SystemctlStop(d)
           \/ Bootstrap(d) \/ Kickstart(d) \/ Kill(d) \/ Disable(d)
  <2>1. pc' = [pc EXCEPT ![d] = "idle"]
    BY <1>8 DEF PathExists, NotInstalled, SystemctlStart, SystemctlStop, Bootstrap, Kickstart,
                Kill, Disable, LastCall, Exit, Ends
  <2>2. d = c
    BY <1>1, <2>1
  <2>. QED  BY <1>8, <2>2
<1>. QED
  BY <1>2, <1>3, <1>4, <1>6, <1>7, <1>8 DEF Step

\* A lone command that ends does what it says.
LEMMA LoneEnds ==
    ASSUME IInv, History, NEW c \in Commands, lone[c],
           \/ PathExists(c) \/ NotInstalled(c) \/ SystemctlStart(c) \/ SystemctlStop(c)
           \/ Bootstrap(c) \/ Kickstart(c) \/ Kill(c) \/ Disable(c)
    PROVE  IF op[c] = "start"
           THEN /\ (status'[c] = "ok") <=> manager'.active
                /\ file' # "part" /\ ~manager'.lingers => status'[c] = "ok"
           ELSE /\ ~manager'.active
                /\ manager'.lingers => pc[c] = "disable"
                /\ file' = "absent" => status'[c] = "failed"
<1> USE DEF LastCall, Exit, Ends, Status
<1>0. /\ manager \in [active : BOOLEAN, bootstrapped : BOOLEAN, disabled : BOOLEAN, lingers : BOOLEAN]
      /\ status \in [Commands -> {"ok", "failed"}] /\ op[c] \in {"start", "stop"}
      /\ file \in {"absent", "part", "whole"}
  BY DEF IInv, TypeOK
<1>1. /\ pc[c] \in StartCalls => op[c] = "start"
      /\ pc[c] \in StopCalls => op[c] = "stop"
      /\ pc[c] \in LinuxCalls => Linux
      /\ pc[c] \in MacCalls => ~Linux
  BY DEF History, Places
<1>2. /\ pc[c] = "mkdir" => ~dir
      /\ pc[c] \notin {"idle", "stat", "mkdir", "look", "open"} => file # "absent"
      /\ pc[c] \in {"enable", "bootstrap", "kill"} => ~manager.bootstrapped
      /\ pc[c] = "bootstrap" => ~manager.disabled
      /\ pc[c] = "kickstart" => manager.bootstrapped
      /\ pc[c] = "disable" => ~manager.bootstrapped
  BY DEF History, Seen, IInv, Disabling
<1>3. /\ manager.active \/ manager.bootstrapped \/ manager.lingers => file # "absent"
      /\ ~Linux /\ manager.active => manager.bootstrapped
      /\ manager.lingers => ~Linux
  BY DEF History, Loaded
<1>4. ~PathExists(c)
  BY <1>2 DEF PathExists
<1>5. CASE NotInstalled(c)
  BY <1>0, <1>3, <1>5 DEF NotInstalled, machine
<1>6. CASE SystemctlStart(c)
  <2>1. pc[c] = "systemctl" /\ op[c] = "start" /\ file # "absent" /\ file' = file
    BY <1>2, <1>6 DEF SystemctlStart
  <2>2. CASE manager.active \/ file = "whole"
    BY <1>0, <1>6, <2>1, <2>2 DEF SystemctlStart
  <2>3. CASE ~(manager.active \/ file = "whole")
    BY <1>0, <1>6, <2>1, <2>3 DEF SystemctlStart
  <2>. QED  BY <2>2, <2>3
<1>7. CASE SystemctlStop(c)
  <2>1. Linux /\ ~manager.lingers
    BY <1>1, <1>3, <1>7 DEF SystemctlStop, LinuxCalls
  <2>. QED  BY <1>0, <1>2, <1>7, <2>1 DEF SystemctlStop
<1>8. CASE Bootstrap(c)
  <2>1. /\ op[c] = "start" /\ ~Linux /\ ~manager.bootstrapped /\ ~manager.disabled
        /\ file # "absent" /\ file' = file
    BY <1>1, <1>2, <1>8 DEF Bootstrap, StartCalls, MacCalls
  <2>2. CASE manager' = manager /\ status' = [status EXCEPT ![c] = "failed"]
    <3>1. manager.lingers \/ file # "whole"
      BY <1>0, <1>8, <2>1, <2>2 DEF Bootstrap
    <3>. QED  BY <1>0, <1>3, <2>1, <2>2, <3>1
  <2>3. CASE /\ status' = [status EXCEPT ![c] = "ok"]
             /\ manager' = [manager EXCEPT !.bootstrapped = TRUE, !.active = TRUE,
                                           !.lingers = FALSE]
    BY <1>0, <2>1, <2>3
  <2>. QED  BY <1>8, <2>2, <2>3 DEF Bootstrap
<1>9. CASE Kickstart(c)
  BY <1>0, <1>1, <1>2, <1>9 DEF Kickstart, StartCalls
<1>10. CASE Kill(c)
  <2>1. /\ op[c] = "stop" /\ ~Linux /\ file # "absent" /\ file' = file
        /\ ~manager.active
    BY <1>1, <1>2, <1>3, <1>10 DEF Kill, StopCalls, MacCalls
  <2>2. \/ manager' = manager /\ ~manager.lingers
        \/ manager' = [manager EXCEPT !.active = FALSE, !.lingers = FALSE]
    BY <1>0, <1>10, <2>1 DEF Kill
  <2>. QED  BY <1>0, <2>1, <2>2
<1>11. CASE Disable(c)
  <2>1. /\ op[c] = "stop" /\ ~Linux /\ file # "absent" /\ file' = file
        /\ ~manager.bootstrapped /\ pc[c] = "disable"
    BY <1>1, <1>2, <1>11 DEF Disable, StopCalls, MacCalls
  <2>. QED  BY <1>0, <1>3, <1>11, <2>1 DEF Disable
<1>. QED
  BY <1>4, <1>5, <1>6, <1>7, <1>8, <1>9, <1>10, <1>11

\* LoneCommandWorks: a command that nothing overlaps and no failure hits
\* reports what it has done, whatever races and failures went before.
THEOREM LoneCommands == Spec => LoneCommandWorks
<1>1. IInv /\ History /\ [Next]_vars =>
          [\A c \in Commands :
               lone[c] /\ pc[c] # "idle" /\ pc'[c] = "idle" /\ failures' = failures =>
                   IF op[c] = "start"
                   THEN /\ (status'[c] = "ok") = manager'.active
                        /\ file' # "part" /\ ~manager'.lingers => status'[c] = "ok"
                   ELSE /\ ~manager'.active
                        /\ manager'.lingers => pc[c] = "disable"
                        /\ file' = "absent" => status'[c] = "failed"]_vars
  <2> SUFFICES ASSUME IInv, History, [Next]_vars, NEW c \in Commands,
                      lone[c], pc[c] # "idle", pc'[c] = "idle", failures' = failures
               PROVE  IF op[c] = "start"
                      THEN /\ (status'[c] = "ok") = manager'.active
                           /\ file' # "part" /\ ~manager'.lingers => status'[c] = "ok"
                      ELSE /\ ~manager'.active
                           /\ manager'.lingers => pc[c] = "disable"
                           /\ file' = "absent" => status'[c] = "failed"
    OBVIOUS
  <2>1. IInv'
    BY NextInv
  <2>2. manager'.active \in BOOLEAN
    BY <2>1 DEF IInv, TypeOK
  <2>. QED  BY <2>2, EndsBy, LoneEnds
<1>. QED
  BY <1>1, Invariance, HistoryInvariance, PTL DEF Spec, LoneCommandWorks
===============================================================================

------------------------------ MODULE AppHost ------------------------------
(***************************************************************************)
(* The application around the proxy service: MainActivity with its import  *)
(* of a configuration and its permission dialog, ConfigStore with the      *)
(* files behind that import, BootReceiver, and the operating system, which *)
(* kills the application's process (wireproxy dies with it), restarts a    *)
(* sticky service and reboots.                                             *)
(*                                                                         *)
(* The import runs on the main thread, so that no other callback runs in   *)
(* between its steps; the control thread of the service does, and so does  *)
(* the end of the process.  The service is the one of ProxyService,        *)
(* abstracted to one step per control task; onDestroy is part of the task  *)
(* that calls stopSelf().  The preference proxy_enabled is written at      *)
(* once: apply() is flushed before Android takes onStartCommand as done.   *)
(***************************************************************************)
EXTENDS Naturals, Sequences, Functions

CONSTANTS
    Good, Bad,         \* configurations that wireproxy -n accepts, or refuses
    Torn,              \* what a failed write leaves
    NoFile,            \* there is no such file; or no configuration
    MaxImports,        \* files chosen
    MaxPresses,        \* of the start button, and of the stop button
    MaxKills,          \* ends of the process, reboots among them
    MaxFailures,       \* writes, checks or renames that fail
    MaxTroubles,       \* exits of wireproxy and network changes
    MaxDenials,        \* of the permission
    MaxRecreations,    \* of the activity, under the permission dialog
    MaxEvents          \* all of these together

ASSUME HostAssumption ==
    /\ NoFile \notin Good \cup Bad \cup {Torn}
    /\ Torn \notin Good \cup Bad
    /\ Good \cap Bad = {}
    /\ {MaxImports, MaxPresses, MaxKills, MaxFailures, MaxTroubles, MaxDenials,
        MaxRecreations, MaxEvents} \subseteq Nat

VARIABLES
    target, pending, backup,  \* wireproxy.conf, and with .import and .backup
    main,                 \* the step of the import the main thread is at
    source,               \* the configuration being imported
    hadTarget,            \* replaceConfig
    permission,           \* POST_NOTIFICATIONS is granted, or not needed
    asked,                \* the permission dialog is shown
    pendingStartAction,   \* MainActivity
    enabled,              \* the preference proxy_enabled
    intents,              \* start requests on their way to the service
    alive, desiredRunning, tasks,   \* the service and its control queue
    pendingRestart,       \* the delayed task of the service, if any
    sticky,               \* the last onStartCommand returned START_STICKY
    running,              \* the configuration wireproxy runs with
    bootPending,          \* the system has yet to call BootReceiver
    installed,            \* what the last import that succeeded installed
    interrupted,          \* the process ended in the middle of an import
    spent                 \* how much of each bound is used up

fileVars == <<target, pending, backup>>
importVars == <<main, source, hadTarget, installed>>
activityVars == <<permission, asked, pendingStartAction>>
serviceVars == <<alive, desiredRunning, tasks, pendingRestart, sticky, running>>
vars == <<fileVars, importVars, activityVars, enabled, intents, serviceVars,
          bootPending, interrupted, spent>>

Actions == {"START", "RESTART", "STOP"}
Texts == Good \cup Bad
Steps == {"idle", "write", "validate", "deleteBackup", "save", "install",
          "rollback", "failed", "done"}
Budgets == [imports |-> MaxImports, starts |-> MaxPresses, stops |-> MaxPresses,
            kills |-> MaxKills, failures |-> MaxFailures, troubles |-> MaxTroubles,
            denials |-> MaxDenials, recreations |-> MaxRecreations]

TypeOK ==
    /\ {target, pending, backup} \subseteq Texts \cup {Torn, NoFile}
    /\ main \in Steps
    /\ source \in Texts \cup {NoFile}
    /\ hadTarget \in BOOLEAN
    /\ permission \in BOOLEAN /\ asked \in BOOLEAN
    /\ pendingStartAction \in {"START", "RESTART"}
    /\ enabled \in {"unset", "yes", "no"}
    /\ intents \in Seq(Actions)
    /\ alive \in BOOLEAN /\ desiredRunning \in BOOLEAN /\ sticky \in BOOLEAN
    /\ tasks \in Seq(Actions)
    /\ pendingRestart \in {"none", "ensure", "restart"}
    /\ running \in Texts \cup {NoFile}
    /\ bootPending \in BOOLEAN /\ interrupted \in BOOLEAN
    /\ installed \in Texts \cup {NoFile}
    /\ \A b \in DOMAIN Budgets : spent[b] \in 0..Budgets[b]

Init ==
    /\ target = NoFile /\ pending = NoFile /\ backup = NoFile
    /\ main = "idle" /\ source = NoFile /\ hadTarget = FALSE
    /\ permission \in BOOLEAN /\ asked = FALSE /\ pendingStartAction = "START"
    /\ enabled = "unset"
    /\ intents = <<>>
    /\ alive = FALSE /\ desiredRunning = FALSE /\ tasks = <<>>
    /\ pendingRestart = "none" /\ sticky = FALSE /\ running = NoFile
    /\ bootPending = FALSE /\ installed = NoFile /\ interrupted = FALSE
    /\ spent = [b \in DOMAIN Budgets |-> 0]

Spend(b) ==
    /\ spent[b] < Budgets[b]
    /\ SumFunction(spent) < MaxEvents
    /\ spent' = [spent EXCEPT ![b] = @ + 1]

---------------------------------------------------------------------------
(* ConfigStore. *)

HasConfig == target # NoFile

ProxyEnabled == enabled = "yes" \/ (enabled = "unset" /\ HasConfig)

(* The main thread can take up another callback. *)
Idle == main = "idle"

ImportStep(from, to) == main = from /\ main' = to

(* The file is chosen and read; a leftover .import goes away. *)
BeginImport ==
    /\ Idle /\ ~asked
    /\ Spend("imports")
    /\ source' \in Texts
    /\ main' = "write"
    /\ pending' = NoFile
    /\ UNCHANGED <<target, backup, hadTarget, installed, activityVars, enabled,
                   intents, serviceVars, bootPending, interrupted>>

(* The write is outside the try block that removes .import. *)
WritePending ==
    /\ \/ ImportStep("write", "validate") /\ pending' = source /\ UNCHANGED spent
       \/ ImportStep("write", "idle") /\ Spend("failures") /\ pending' = Torn
    /\ UNCHANGED <<target, backup, source, hadTarget, installed, activityVars,
                   enabled, intents, serviceVars, bootPending, interrupted>>

(* A bug: what wireproxy answers is not looked at. *)
AcceptAnything ==
    /\ ImportStep("validate", "deleteBackup")
    /\ UNCHANGED <<fileVars, source, hadTarget, installed, activityVars,
                   enabled, intents, serviceVars, bootPending, interrupted, spent>>

(* wireproxy -n accepts the file, refuses it, or does not answer in 5 s. *)
ValidateConfig ==
    /\ \/ ImportStep("validate", "deleteBackup") /\ pending \in Good /\ UNCHANGED spent
       \/ ImportStep("validate", "failed") /\ pending \notin Good /\ UNCHANGED spent
       \/ ImportStep("validate", "failed") /\ Spend("failures")
    /\ UNCHANGED <<fileVars, source, hadTarget, installed, activityVars,
                   enabled, intents, serviceVars, bootPending, interrupted>>

DeleteBackup ==
    /\ ImportStep("deleteBackup", "save")
    /\ backup' = NoFile
    /\ hadTarget' = HasConfig
    /\ UNCHANGED <<target, pending, source, installed, activityVars, enabled,
                   intents, serviceVars, bootPending, interrupted, spent>>

(* The configuration in place becomes .backup, if there is one. *)
SaveTarget ==
    /\ \/ /\ ImportStep("save", "install")
          /\ IF hadTarget THEN backup' = target /\ target' = NoFile
                          ELSE UNCHANGED <<target, backup>>
          /\ UNCHANGED spent
       \/ /\ ImportStep("save", "failed")
          /\ hadTarget
          /\ Spend("failures")
          /\ UNCHANGED <<target, backup>>
    /\ UNCHANGED <<pending, source, hadTarget, installed, activityVars, enabled,
                   intents, serviceVars, bootPending, interrupted>>

InstallPending ==
    /\ \/ /\ ImportStep("install", "done")
          /\ target' = pending /\ pending' = NoFile
          /\ UNCHANGED spent
       \/ /\ ImportStep("install", "rollback")
          /\ Spend("failures")
          /\ UNCHANGED <<target, pending>>
    /\ UNCHANGED <<backup, source, hadTarget, installed, activityVars, enabled,
                   intents, serviceVars, bootPending, interrupted>>

(* A bug: the old configuration is left under its other name. *)
NoRollback ==
    /\ ImportStep("rollback", "failed")
    /\ UNCHANGED <<fileVars, source, hadTarget, installed, activityVars, enabled,
                   intents, serviceVars, bootPending, interrupted, spent>>

(* The result of the second renameTo is not looked at. *)
Rollback ==
    /\ ImportStep("rollback", "failed")
    /\ \/ /\ hadTarget
          /\ target' = backup /\ backup' = NoFile
          /\ UNCHANGED spent
       \/ /\ hadTarget /\ Spend("failures")
          /\ UNCHANGED <<target, backup>>
       \/ /\ ~hadTarget
          /\ UNCHANGED <<target, backup, spent>>
    /\ UNCHANGED <<pending, source, hadTarget, installed, activityVars, enabled,
                   intents, serviceVars, bootPending, interrupted>>

ImportFails ==
    /\ ImportStep("failed", "idle")
    /\ pending' = NoFile
    /\ UNCHANGED <<target, backup, source, hadTarget, installed, activityVars,
                   enabled, intents, serviceVars, bootPending, interrupted, spent>>

---------------------------------------------------------------------------
(* MainActivity. *)

RequestStart(action) == intents' = Append(intents, action)

(* A bug: an import starts the proxy as the button does. *)
RequestPlainStart(action) ==
    IF permission
    THEN /\ RequestStart("START")
         /\ pendingStartAction' = "START"
         /\ UNCHANGED asked
    ELSE /\ pendingStartAction' = action
         /\ asked' = TRUE
         /\ UNCHANGED intents

(* A bug: the field is cleared once it was used. *)
RequestAndClear(action) ==
    IF permission
    THEN /\ RequestStart(action)
         /\ pendingStartAction' = "none"
         /\ UNCHANGED asked
    ELSE /\ pendingStartAction' = action
         /\ asked' = TRUE
         /\ UNCHANGED intents

(* With a configuration in place: at once, or after the permission dialog. *)
RequestProxyStart(action) ==
    IF permission
    THEN /\ RequestStart(action)
         /\ pendingStartAction' = "START"
         /\ UNCHANGED asked
    ELSE /\ pendingStartAction' = action
         /\ asked' = TRUE
         /\ UNCHANGED intents

(* importConfig returns, and onActivityResult asks for the restart. *)
ImportSucceeds ==
    /\ ImportStep("done", "idle")
    /\ backup' = NoFile
    /\ installed' = source
    /\ RequestProxyStart("RESTART")
    /\ interrupted' = FALSE
    /\ UNCHANGED <<target, pending, source, hadTarget, permission, enabled,
                   serviceVars, bootPending, spent>>

PressStart ==
    /\ Idle /\ ~asked
    /\ Spend("starts")
    /\ IF HasConfig THEN RequestProxyStart("START")
                    ELSE UNCHANGED <<intents, asked, pendingStartAction>>
    /\ UNCHANGED <<fileVars, importVars, permission, enabled, serviceVars,
                   bootPending, interrupted>>

PressStop ==
    /\ Idle /\ ~asked
    /\ Spend("stops")
    /\ RequestStart("STOP")
    /\ UNCHANGED <<fileVars, importVars, activityVars, enabled, serviceVars,
                   bootPending, interrupted>>

OnRequestPermissionsResult ==
    /\ Idle /\ asked
    /\ asked' = FALSE
    /\ pendingStartAction' = "START"
    /\ \/ /\ permission' = TRUE
          /\ RequestStart(pendingStartAction)
          /\ UNCHANGED spent
       \/ /\ Spend("denials")
          /\ UNCHANGED <<permission, intents>>
    /\ UNCHANGED <<fileVars, importVars, enabled, serviceVars, bootPending,
                   interrupted>>

(* The activity is destroyed and made anew, as on a rotation: the dialog is *)
(* still there, the field pendingStartAction has its initial value.         *)
ActivityRecreated ==
    /\ Idle /\ asked
    /\ Spend("recreations")
    /\ pendingStartAction' = "START"
    /\ UNCHANGED <<fileVars, importVars, permission, asked, enabled, intents,
                   serviceVars, bootPending, interrupted>>

(* The action of a broadcast BootReceiver answers to. *)
OnReceive ==
    /\ Idle /\ bootPending
    /\ bootPending' = FALSE
    /\ IF ProxyEnabled /\ HasConfig THEN RequestStart("START") ELSE UNCHANGED intents
    /\ UNCHANGED <<fileVars, importVars, activityVars, enabled, serviceVars,
                   interrupted, spent>>

---------------------------------------------------------------------------
(* The service. *)

(* A bug: the service is not restarted with its process. *)
OnStartCommandNotSticky ==
    /\ Idle /\ intents # <<>>
    /\ intents' = Tail(intents)
    /\ alive' = TRUE
    /\ enabled' = IF Head(intents) = "STOP" THEN "no" ELSE "yes"
    /\ desiredRunning' = (Head(intents) # "STOP")
    /\ sticky' = FALSE
    /\ tasks' = Append(tasks, Head(intents))
    /\ UNCHANGED <<fileVars, importVars, activityVars, pendingRestart, running,
                   bootPending, interrupted, spent>>

OnStartCommand ==
    /\ Idle /\ intents # <<>>
    /\ intents' = Tail(intents)
    /\ alive' = TRUE
    /\ enabled' = IF Head(intents) = "STOP" THEN "no" ELSE "yes"
    /\ desiredRunning' = (Head(intents) # "STOP")
    /\ sticky' = (Head(intents) # "STOP")
    /\ tasks' = Append(tasks, Head(intents))
    /\ UNCHANGED <<fileVars, importVars, activityVars, pendingRestart, running,
                   bootPending, interrupted, spent>>

(* ensureProxyRunning *)
Ensured == IF desiredRunning /\ running = NoFile THEN target ELSE running

(* restartProxy, which also cancels the delayed task. *)
Restarted == IF desiredRunning THEN target ELSE running

RunTask ==
    /\ tasks # <<>>
    /\ CASE Head(tasks) = "START" ->
              /\ running' = Ensured
              /\ tasks' = Tail(tasks)
              /\ UNCHANGED <<alive, desiredRunning, pendingRestart, sticky>>
         [] Head(tasks) = "RESTART" ->
              /\ running' = Restarted
              /\ pendingRestart' = IF desiredRunning THEN "none" ELSE pendingRestart
              /\ tasks' = Tail(tasks)
              /\ UNCHANGED <<alive, desiredRunning, sticky>>
         [] Head(tasks) = "STOP" ->
              /\ alive' = FALSE /\ desiredRunning' = FALSE /\ sticky' = FALSE
              /\ tasks' = <<>> /\ pendingRestart' = "none"
              /\ running' = NoFile
    /\ UNCHANGED <<fileVars, importVars, activityVars, enabled, intents,
                   bootPending, interrupted, spent>>

(* ensureProxyRunning after an exit, restartProxy after a network change. *)
DelayedRestart ==
    /\ pendingRestart # "none"
    /\ pendingRestart' = "none"
    /\ running' = IF pendingRestart = "restart" THEN Restarted ELSE Ensured
    /\ UNCHANGED <<fileVars, importVars, activityVars, enabled, intents, alive,
                   desiredRunning, tasks, sticky, bootPending, interrupted, spent>>

ProxyExits ==
    /\ running # NoFile
    /\ Spend("troubles")
    /\ running' = NoFile
    /\ pendingRestart' = IF desiredRunning THEN "ensure" ELSE pendingRestart
    /\ UNCHANGED <<fileVars, importVars, activityVars, enabled, intents, alive,
                   desiredRunning, tasks, sticky, bootPending, interrupted>>

(* Reported on a thread of ConnectivityManager, also during an import. *)
NetworkChanges ==
    /\ alive /\ desiredRunning
    /\ Spend("troubles")
    /\ pendingRestart' = "restart"
    /\ UNCHANGED <<fileVars, importVars, activityVars, enabled, intents, alive,
                   desiredRunning, tasks, sticky, running, bootPending, interrupted>>

---------------------------------------------------------------------------
(* The system. *)

ProcessGone ==
    /\ Spend("kills")
    /\ main' = "idle"
    /\ interrupted' = (interrupted \/ ~Idle)
    /\ pendingStartAction' = "START"
    /\ alive' = FALSE /\ desiredRunning' = FALSE /\ sticky' = FALSE
    /\ tasks' = <<>> /\ pendingRestart' = "none" /\ running' = NoFile
    /\ UNCHANGED <<fileVars, source, hadTarget, installed, enabled>>

(* Memory is short, or the user took the permission back: what was not yet  *)
(* delivered is delivered to a new process, a sticky service gets a null    *)
(* intent, which onStartCommand takes for ACTION_START.                     *)
ProcessKilled ==
    /\ ProcessGone
    /\ intents' = IF sticky /\ intents = <<>> THEN <<"START">> ELSE intents
    /\ permission' \in {permission, FALSE}
    /\ UNCHANGED <<asked, bootPending>>

(* A reboot, or a new version of the package. *)
Reboot ==
    /\ ProcessGone
    /\ intents' = <<>>
    /\ asked' = FALSE
    /\ bootPending' = TRUE
    /\ UNCHANGED permission

Import ==
    \/ WritePending \/ ValidateConfig \/ DeleteBackup \/ SaveTarget
    \/ InstallPending \/ Rollback \/ ImportFails \/ ImportSucceeds

User == BeginImport \/ PressStart \/ PressStop

Next ==
    \/ User \/ Import
    \/ OnRequestPermissionsResult \/ ActivityRecreated \/ OnReceive
    \/ OnStartCommand \/ RunTask \/ DelayedRestart
    \/ ProxyExits \/ NetworkChanges
    \/ ProcessKilled \/ Reboot

Spec == Init /\ [][Next]_vars

---------------------------------------------------------------------------
(* Properties. *)

(* Nothing is on its way: no callback, request, task or delayed restart. *)
Settled ==
    /\ Idle /\ ~asked /\ ~bootPending
    /\ intents = <<>> /\ tasks = <<>> /\ pendingRestart = "none"

(* An import installs its configuration or leaves the one before, whatever  *)
(* step of it fails (one rename at most: the result of the one that rolls   *)
(* back is not looked at) and whatever the service does meanwhile; README   *)
(* says the configuration is saved only after it was validated.             *)
ConfigKept ==
    (Idle /\ ~interrupted /\ spent.failures <= 1) => target = installed

(* A configuration that wireproxy refused, or that was only half written,   *)
(* is never in place, kept for a rollback or run, also after an import that *)
(* was interrupted left its .import behind.                                 *)
OnlyAcceptedConfigs == {target, backup, running} \subseteq Good \cup {NoFile}

(* Nobody said no to the notification, or made the activity anew under the  *)
(* question: the answer then starts nothing, or not what the import wanted, *)
(* since pendingStartAction is a field of the activity.                     *)
DialogUndisturbed == spent.denials = 0 /\ spent.recreations = 0

(* wireproxy does not go on with a configuration that an import has since   *)
(* replaced: once every request was answered it runs with what is in place. *)
InstalledConfigRuns ==
    (Settled /\ running # NoFile /\ DialogUndisturbed /\ spent.failures <= 1)
        => running = target

(* Nobody is left without the proxy: a service that wants it, or a user who *)
(* enabled it and never stopped it, has it as soon as all is settled, after *)
(* imports, exits, network changes, kills and reboots in any order.  Left   *)
(* out are an import that fails, which no restart follows though the        *)
(* service may have given one up in the meantime, and one that the end of   *)
(* the process cut short, before which there may have been nothing to run.  *)
ServedWhenSettled ==
    LET wanted == (alive /\ desiredRunning) \/ (enabled = "yes" /\ spent.stops = 0)
    IN  (Settled /\ wanted /\ HasConfig /\ DialogUndisturbed
            /\ spent.failures = 0 /\ ~interrupted)
            => running # NoFile

(* What the README promises: a proxy that was set up comes back after a     *)
(* reboot.                                                                  *)
BootRestores ==
    [][(OnReceive /\ enabled = "yes" /\ installed # NoFile) => intents' # <<>>]_vars

=============================================================================

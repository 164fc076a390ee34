---------------------------- MODULE AppHostProofs ----------------------------
(***************************************************************************)
(* Theorems about AppHost: any configurations, and any bounds on what the  *)
(* user, the system and the files do.                                      *)
(***************************************************************************)
EXTENDS AppHost, SequenceTheorems, TLAPS

-----------------------------------------------------------------------------
(* The import.                                                             *)

\* The configuration in place: under its other name while it is being replaced.
BeingReplaced == main \in {"install", "rollback"} /\ hadTarget
InPlace == IF BeingReplaced THEN backup ELSE target

\* What the main thread carries from one step of the import to the next.
ImportSteps ==
    /\ main \in {"validate", "deleteBackup", "save", "install"} => pending = source
    /\ main \in {"deleteBackup", "save", "install"} => pending \in Good
    /\ main = "done" => target = source
    /\ BeingReplaced => target = NoFile
    /\ main = "rollback" => spent.failures >= 1

\* An import that was not cut short has changed nothing before it is done.
NothingLost ==
    ~interrupted /\ spent.failures <= 1 /\ main # "done" => InPlace = installed

-----------------------------------------------------------------------------
(* The service.                                                            *)

InQueue(action, q) == \E i \in DOMAIN q : q[i] = action

\* wireproxy is left alone by a service that does not want it only for the stop
\* that is already in the queue.
StopIsQueued == running # NoFile /\ ~desiredRunning => InQueue("STOP", tasks)

\* What will replace a configuration that is not the one in place any more.
ReplacementToCome ==
    \/ main = "done"
    \/ asked /\ pendingStartAction = "RESTART"
    \/ InQueue("RESTART", intents)
    \/ InQueue("RESTART", tasks) \/ InQueue("STOP", tasks)
    \/ pendingRestart = "restart"

RunsWhatIsInPlace ==
    DialogUndisturbed /\ spent.failures <= 1
        => running \in {NoFile, InPlace} \/ ReplacementToCome

\* Without a stop there is none on its way.
NeverStopped ==
    spent.stops = 0 => /\ ~InQueue("STOP", intents) /\ ~InQueue("STOP", tasks)
                       /\ enabled # "no"

\* Nothing went wrong that the properties below leave out.
Undisturbed == DialogUndisturbed /\ spent.failures = 0 /\ ~interrupted

\* A service that wants the proxy has it, or will start it.
ServiceServes ==
    Undisturbed /\ HasConfig /\ alive /\ desiredRunning
        => \/ running # NoFile
           \/ main = "done" \/ asked
           \/ intents # <<>> \/ tasks # <<>> \/ pendingRestart # "none"

\* The service of a user who never stopped it is there, or will be.
ServiceIsThere ==
    Undisturbed /\ HasConfig /\ enabled = "yes" /\ spent.stops = 0
        => \/ alive /\ desiredRunning /\ sticky
           \/ main = "done" \/ asked \/ bootPending
           \/ intents # <<>>

-----------------------------------------------------------------------------
(* The bounds.                                                             *)

\* Every counter of spent is a number.
Counters == spent \in [DOMAIN Budgets -> Nat]

\* What Budgets bounds.
LEMMA BudgetNames ==
    /\ DOMAIN Budgets = {"imports", "starts", "stops", "kills", "failures", "troubles",
                         "denials", "recreations"}
    /\ \A b \in DOMAIN Budgets : Budgets[b] \in Nat
  BY HostAssumption DEF Budgets

\* An event counts itself and nothing else, up to its bound.
LEMMA Spending ==
    ASSUME Counters, NEW b \in DOMAIN Budgets, Spend(b)
    PROVE  /\ Counters'
           /\ spent'[b] = spent[b] + 1 /\ spent'[b] <= Budgets[b]
           /\ \A c \in DOMAIN Budgets \ {b} : spent'[c] = spent[c]
<1>1. /\ spent \in [DOMAIN Budgets -> Nat] /\ spent[b] < Budgets[b]
      /\ spent' = [spent EXCEPT ![b] = @ + 1]
      /\ Budgets[b] \in Nat /\ spent[b] \in Nat
  BY BudgetNames DEF Counters, Spend
<1> QED BY <1>1, BudgetNames DEF Counters

\* A step counts one event, or none.
LEMMA StepSpends ==
    [Next]_vars => UNCHANGED spent \/ \E b \in DOMAIN Budgets : Spend(b)
<1> SUFFICES ASSUME [Next]_vars PROVE UNCHANGED spent \/ \E b \in DOMAIN Budgets : Spend(b)
  OBVIOUS
<1>1. CASE User
  BY <1>1, BudgetNames DEF User, BeginImport, PressStart, PressStop
<1>2. CASE Import
  BY <1>2, BudgetNames DEF Import, WritePending, ValidateConfig, DeleteBackup, SaveTarget, InstallPending,
     Rollback, ImportFails, ImportSucceeds
<1>3. CASE OnRequestPermissionsResult \/ ActivityRecreated \/ OnReceive
  BY <1>3, BudgetNames DEF OnRequestPermissionsResult, ActivityRecreated, OnReceive
<1>4. CASE OnStartCommand \/ RunTask \/ DelayedRestart
  BY <1>4 DEF OnStartCommand, RunTask, DelayedRestart
<1>5. CASE ProxyExits \/ NetworkChanges \/ ProcessKilled \/ Reboot
  BY <1>5, BudgetNames DEF ProxyExits, NetworkChanges, ProcessKilled, Reboot, ProcessGone
<1>6. CASE UNCHANGED vars
  BY <1>6 DEF vars
<1> QED BY <1>1, <1>2, <1>3, <1>4, <1>5, <1>6 DEF Next

\* What has happened has happened.
LEMMA SpentGrows ==
    ASSUME Counters, [Next]_vars
    PROVE  /\ Counters'
           /\ \A b \in DOMAIN Budgets : spent[b] \in Nat /\ spent'[b] \in Nat /\ spent'[b] >= spent[b]
<1>1. CASE UNCHANGED spent
  BY <1>1 DEF Counters
<1>2. ASSUME NEW b \in DOMAIN Budgets, Spend(b)
      PROVE  /\ Counters'
             /\ \A c \in DOMAIN Budgets : spent[c] \in Nat /\ spent'[c] \in Nat /\ spent'[c] >= spent[c]
  <2>1. /\ Counters'
        /\ spent'[b] = spent[b] + 1
        /\ \A c \in DOMAIN Budgets \ {b} : spent'[c] = spent[c]
    BY <1>2, Spending
  <2>2. \A c \in DOMAIN Budgets : spent[c] \in Nat /\ spent'[c] \in Nat
    BY <2>1 DEF Counters
  <2> QED BY <2>1, <2>2
<1> QED BY <1>1, <1>2, StepSpends

\* No bound is exceeded.
LEMMA StepBudgets ==
    ASSUME Counters, [Next]_vars, \A b \in DOMAIN Budgets : spent[b] \in 0..Budgets[b]
    PROVE  \A b \in DOMAIN Budgets : spent'[b] \in 0..Budgets[b]
<1>1. CASE UNCHANGED spent
  BY <1>1
<1>2. ASSUME NEW b \in DOMAIN Budgets, Spend(b)
      PROVE  \A c \in DOMAIN Budgets : spent'[c] \in 0..Budgets[c]
  BY <1>2, Spending, BudgetNames DEF Counters
<1> QED BY <1>1, <1>2, StepSpends

-----------------------------------------------------------------------------
(* Types.                                                                  *)

\* TypeOK without the counters.
FileTypes == {target, pending, backup} \subseteq Texts \cup {Torn, NoFile}
ImportTypes ==
    /\ main \in Steps /\ hadTarget \in BOOLEAN
    /\ source \in Texts \cup {NoFile} /\ installed \in Texts \cup {NoFile}
ActivityTypes ==
    /\ permission \in BOOLEAN /\ asked \in BOOLEAN
    /\ pendingStartAction \in {"START", "RESTART"}
ServiceTypes ==
    /\ alive \in BOOLEAN /\ desiredRunning \in BOOLEAN /\ sticky \in BOOLEAN
    /\ pendingRestart \in {"none", "ensure", "restart"}
OtherTypes ==
    /\ enabled \in {"unset", "yes", "no"}
    /\ bootPending \in BOOLEAN /\ interrupted \in BOOLEAN
Queues == intents \in Seq(Actions) /\ tasks \in Seq(Actions)

\* The files hold configurations, torn ones or none.
LEMMA StepFileTypes ==
    ASSUME FileTypes, ImportTypes, [Next]_vars
    PROVE  FileTypes'
<1>1. CASE User \/ Import
  BY <1>1 DEF FileTypes, ImportTypes, User, BeginImport, PressStart, PressStop, Import, WritePending, ValidateConfig,
     DeleteBackup, SaveTarget, InstallPending, Rollback, ImportFails, ImportSucceeds, fileVars
<1>2. CASE ~(User \/ Import)
  <2>1. UNCHANGED fileVars
    BY <1>2 DEF Next, vars, OnRequestPermissionsResult, ActivityRecreated, OnReceive, OnStartCommand, RunTask,
       DelayedRestart, ProxyExits, NetworkChanges, ProcessKilled, Reboot, ProcessGone
  <2> QED BY <2>1 DEF FileTypes, fileVars
<1> QED BY <1>1, <1>2

\* The import is at one of its steps.
LEMMA StepImportTypes ==
    ASSUME ImportTypes, [Next]_vars
    PROVE  ImportTypes'
<1>1. CASE User
  BY <1>1 DEF ImportTypes, User, BeginImport, PressStart, PressStop, importVars, Steps
<1>2. CASE Import
  <2>1. main' \in Steps
    BY <1>2 DEF Import, WritePending, ValidateConfig, DeleteBackup, SaveTarget, InstallPending,
       Rollback, ImportFails, ImportSucceeds, ImportStep, Steps
  <2>2. source' = source /\ installed' \in {installed, source}
    BY <1>2 DEF Import, WritePending, ValidateConfig, DeleteBackup, SaveTarget, InstallPending,
       Rollback, ImportFails, ImportSucceeds
  <2>3. hadTarget' = hadTarget \/ hadTarget' = HasConfig
    BY <1>2 DEF Import, WritePending, ValidateConfig, DeleteBackup, SaveTarget, InstallPending,
       Rollback, ImportFails, ImportSucceeds
  <2>4. hadTarget' \in BOOLEAN
    BY <2>3, Zenon DEF ImportTypes, HasConfig
  <2> QED BY <2>1, <2>2, <2>4 DEF ImportTypes
<1>3. CASE ~(User \/ Import)
  <2>1. main' \in {main, "idle"} /\ UNCHANGED <<source, hadTarget, installed>>
    BY <1>3 DEF Next, vars, OnRequestPermissionsResult, ActivityRecreated, OnReceive, OnStartCommand, RunTask,
       DelayedRestart, ProxyExits, NetworkChanges, ProcessKilled, Reboot, ProcessGone, importVars
  <2> QED BY <2>1 DEF ImportTypes, Steps
<1> QED BY <1>1, <1>2, <1>3

\* The activity asks for one of its two actions.
LEMMA StepActivityTypes ==
    ASSUME ActivityTypes, [Next]_vars
    PROVE  ActivityTypes'
<1>1. pendingStartAction' \in {pendingStartAction, "START", "RESTART"}
  <2>1. CASE User \/ Import \/ OnRequestPermissionsResult \/ ActivityRecreated \/ OnReceive
    BY <2>1 DEF User, BeginImport, PressStart, PressStop, Import, WritePending, ValidateConfig,
       DeleteBackup, SaveTarget, InstallPending, Rollback, ImportFails, ImportSucceeds,
       OnRequestPermissionsResult, ActivityRecreated, OnReceive, RequestProxyStart, activityVars
  <2>2. CASE ~(User \/ Import \/ OnRequestPermissionsResult \/ ActivityRecreated \/ OnReceive)
    BY <2>2 DEF Next, vars, OnStartCommand, RunTask, DelayedRestart, ProxyExits, NetworkChanges,
       ProcessKilled, Reboot, ProcessGone, activityVars
  <2> QED BY <2>1, <2>2
<1>2. permission' \in {permission, TRUE, FALSE} /\ asked' \in {asked, TRUE, FALSE}
  <2>1. CASE User \/ Import \/ OnRequestPermissionsResult \/ ActivityRecreated \/ OnReceive
    BY <2>1 DEF User, BeginImport, PressStart, PressStop, Import, WritePending, ValidateConfig,
       DeleteBackup, SaveTarget, InstallPending, Rollback, ImportFails, ImportSucceeds,
       OnRequestPermissionsResult, ActivityRecreated, OnReceive, RequestProxyStart, activityVars
  <2>2. CASE ~(User \/ Import \/ OnRequestPermissionsResult \/ ActivityRecreated \/ OnReceive)
    BY <2>2 DEF Next, vars, OnStartCommand, RunTask, DelayedRestart, ProxyExits, NetworkChanges,
       ProcessKilled, Reboot, ProcessGone, activityVars
  <2> QED BY <2>1, <2>2
<1>3. permission' \in BOOLEAN /\ asked' \in BOOLEAN
  BY <1>2, Zenon DEF ActivityTypes
<1> QED BY <1>1, <1>3 DEF ActivityTypes

\* The steps that leave the service alone.
Elsewhere == User \/ Import \/ OnRequestPermissionsResult \/ ActivityRecreated \/ OnReceive

LEMMA ElsewhereLeavesService == Elsewhere => UNCHANGED serviceVars
  BY DEF Elsewhere, User, BeginImport, PressStart, PressStop, Import, WritePending, ValidateConfig,
     DeleteBackup, SaveTarget, InstallPending, Rollback, ImportFails, ImportSucceeds,
     OnRequestPermissionsResult, ActivityRecreated, OnReceive

\* A delivery from a queue of actions, and an action that joins one.
LEMMA QueueSteps ==
    /\ \A q \in Seq(Actions) : q # <<>> => /\ Tail(q) \in Seq(Actions) /\ Head(q) \in Actions
    /\ \A q \in Seq(Actions), a \in Actions : Append(q, a) \in Seq(Actions)
  BY HeadTailProperties, AppendProperties

\* The queues hold actions of the service.
LEMMA StepQueues ==
    ASSUME Queues, ActivityTypes, [Next]_vars
    PROVE  Queues'
<1>1. intents \in Seq(Actions) /\ tasks \in Seq(Actions) /\ <<>> \in Seq(Actions)
  BY DEF Queues
<1>2. "START" \in Actions /\ "RESTART" \in Actions /\ "STOP" \in Actions
      /\ pendingStartAction \in Actions
  BY DEF Actions, ActivityTypes
<1>3. CASE Elsewhere
  <2>1. UNCHANGED tasks
    BY <1>3, ElsewhereLeavesService DEF serviceVars
  <2>2. UNCHANGED intents \/ \E a \in Actions : intents' = Append(intents, a)
    BY <1>2, <1>3 DEF Elsewhere, User, BeginImport, PressStart, PressStop, Import, WritePending, ValidateConfig,
       DeleteBackup, SaveTarget, InstallPending, Rollback, ImportFails, ImportSucceeds,
       OnRequestPermissionsResult, ActivityRecreated, OnReceive, RequestProxyStart, RequestStart
  <2> QED BY <1>1, <2>1, <2>2, QueueSteps DEF Queues
<1>4. CASE OnStartCommand
  BY <1>1, <1>4, QueueSteps DEF OnStartCommand, Queues
<1>5. CASE RunTask
  <2>1. UNCHANGED intents /\ tasks # <<>> /\ Head(tasks) \in Actions
    BY <1>1, <1>5, QueueSteps DEF RunTask
  <2>2. tasks' \in {Tail(tasks), <<>>}
    BY <1>5, <2>1 DEF RunTask, Actions
  <2> QED BY <1>1, <2>1, <2>2, QueueSteps DEF Queues
<1>6. CASE DelayedRestart \/ ProxyExits \/ NetworkChanges \/ UNCHANGED vars
  BY <1>6 DEF DelayedRestart, ProxyExits, NetworkChanges, vars, serviceVars, Queues
<1>7. CASE ProcessKilled \/ Reboot
  <2>1. tasks' = <<>> /\ intents' \in {intents, <<>>, <<"START">>}
    BY <1>7 DEF ProcessKilled, Reboot, ProcessGone
  <2>2. <<"START">> \in Seq(Actions)
    BY <1>2
  <2> QED BY <1>1, <2>1, <2>2 DEF Queues
<1> QED BY <1>3, <1>4, <1>5, <1>6, <1>7 DEF Next, Elsewhere

\* The service's flags.
LEMMA StepServiceTypes ==
    ASSUME ServiceTypes, Queues, [Next]_vars
    PROVE  ServiceTypes'
<1>1. CASE Elsewhere \/ UNCHANGED vars
  <2>1. UNCHANGED serviceVars
    BY <1>1, ElsewhereLeavesService DEF vars
  <2> QED BY <2>1 DEF ServiceTypes, serviceVars
<1>2. CASE OnStartCommand
  <2>1. /\ alive' = TRUE /\ desiredRunning' = (Head(intents) # "STOP")
        /\ sticky' = (Head(intents) # "STOP") /\ UNCHANGED pendingRestart
    BY <1>2 DEF OnStartCommand
  <2>2. desiredRunning' \in BOOLEAN /\ sticky' \in BOOLEAN /\ alive' \in BOOLEAN
    BY <2>1, Zenon
  <2> QED BY <2>1, <2>2 DEF ServiceTypes
<1>3. CASE RunTask
  <2>1. Head(tasks) \in Actions
    BY <1>3, QueueSteps DEF RunTask, Queues
  <2>2. /\ pendingRestart' \in {pendingRestart, "none"}
        /\ \/ UNCHANGED <<alive, desiredRunning, sticky>>
           \/ alive' = FALSE /\ desiredRunning' = FALSE /\ sticky' = FALSE
    BY <1>3, <2>1 DEF RunTask, Actions
  <2>3. desiredRunning' \in BOOLEAN /\ sticky' \in BOOLEAN /\ alive' \in BOOLEAN
    BY <2>2, Zenon DEF ServiceTypes
  <2> QED BY <2>2, <2>3 DEF ServiceTypes
<1>4. CASE DelayedRestart \/ ProxyExits \/ NetworkChanges
  BY <1>4 DEF DelayedRestart, ProxyExits, NetworkChanges, ServiceTypes
<1>5. CASE ProcessKilled \/ Reboot
  <2>1. alive' = FALSE /\ desiredRunning' = FALSE /\ sticky' = FALSE /\ pendingRestart' = "none"
    BY <1>5 DEF ProcessKilled, Reboot, ProcessGone
  <2>2. desiredRunning' \in BOOLEAN /\ sticky' \in BOOLEAN /\ alive' \in BOOLEAN
    BY <2>1, Zenon
  <2> QED BY <2>1, <2>2 DEF ServiceTypes
<1> QED BY <1>1, <1>2, <1>3, <1>4, <1>5 DEF Next, Elsewhere

\* The preference, the receiver and the history of the import.
LEMMA StepOtherTypes ==
    ASSUME OtherTypes, [Next]_vars
    PROVE  OtherTypes'
<1>1. enabled' \in {enabled, "yes", "no"}
  <2>1. CASE Elsewhere
    BY <2>1 DEF Elsewhere, User, BeginImport, PressStart, PressStop, Import, WritePending, ValidateConfig,
       DeleteBackup, SaveTarget, InstallPending, Rollback, ImportFails, ImportSucceeds,
       OnRequestPermissionsResult, ActivityRecreated, OnReceive
  <2>2. CASE ~Elsewhere
    BY <2>2 DEF Elsewhere, Next, vars, OnStartCommand, RunTask, DelayedRestart, ProxyExits, NetworkChanges,
       ProcessKilled, Reboot, ProcessGone
  <2> QED BY <2>1, <2>2
<1>2. bootPending' \in {bootPending, TRUE, FALSE}
  <2>1. CASE Elsewhere
    BY <2>1 DEF Elsewhere, User, BeginImport, PressStart, PressStop, Import, WritePending, ValidateConfig,
       DeleteBackup, SaveTarget, InstallPending, Rollback, ImportFails, ImportSucceeds,
       OnRequestPermissionsResult, ActivityRecreated, OnReceive
  <2>2. CASE ~Elsewhere
    BY <2>2 DEF Elsewhere, Next, vars, OnStartCommand, RunTask, DelayedRestart, ProxyExits, NetworkChanges,
       ProcessKilled, Reboot, ProcessGone
  <2> QED BY <2>1, <2>2
<1>3. interrupted' \in {interrupted, FALSE, interrupted \/ ~Idle}
  <2>1. CASE Elsewhere
    BY <2>1 DEF Elsewhere, User, BeginImport, PressStart, PressStop, Import, WritePending, ValidateConfig,
       DeleteBackup, SaveTarget, InstallPending, Rollback, ImportFails, ImportSucceeds,
       OnRequestPermissionsResult, ActivityRecreated, OnReceive
  <2>2. CASE ~Elsewhere
    BY <2>2 DEF Elsewhere, Next, vars, OnStartCommand, RunTask, DelayedRestart, ProxyExits, NetworkChanges,
       ProcessKilled, Reboot, ProcessGone
  <2> QED BY <2>1, <2>2
<1>4. bootPending' \in BOOLEAN /\ interrupted' \in BOOLEAN
  BY <1>2, <1>3, Zenon DEF OtherTypes
<1> QED BY <1>1, <1>4 DEF OtherTypes

\* All of them.
Types == /\ FileTypes /\ ImportTypes /\ ActivityTypes /\ ServiceTypes /\ OtherTypes
         /\ Queues /\ Counters

LEMMA InitTypes == Init => Types
<1> SUFFICES ASSUME Init PROVE Types
  OBVIOUS
<1>1. /\ target = NoFile /\ pending = NoFile /\ backup = NoFile
      /\ main = "idle" /\ source = NoFile /\ installed = NoFile
      /\ pendingStartAction = "START" /\ enabled = "unset"
      /\ intents = <<>> /\ tasks = <<>> /\ pendingRestart = "none"
      /\ spent = [b \in DOMAIN Budgets |-> 0]
  BY DEF Init
<1>2. /\ hadTarget = FALSE /\ permission \in BOOLEAN /\ asked = FALSE
      /\ alive = FALSE /\ desiredRunning = FALSE /\ sticky = FALSE
      /\ bootPending = FALSE /\ interrupted = FALSE
  BY DEF Init
<1>3. {hadTarget, permission, asked, alive, desiredRunning, sticky, bootPending, interrupted} \subseteq BOOLEAN
  BY <1>2, Zenon
<1>4. FileTypes /\ Queues /\ Counters
  BY <1>1 DEF FileTypes, Queues, Counters
<1> QED BY <1>1, <1>3, <1>4 DEF Types, ImportTypes, ActivityTypes, ServiceTypes, OtherTypes, Steps

LEMMA StepTypes == Types /\ [Next]_vars => Types'
  BY StepFileTypes, StepImportTypes, StepActivityTypes, StepServiceTypes, StepOtherTypes,
     StepQueues, SpentGrows DEF Types

-----------------------------------------------------------------------------
(* What is in place is accepted, and what was in place is kept.            *)

\* The counters the properties look at.
LEMMA CountersGrow ==
    ASSUME Counters, [Next]_vars
    PROVE  /\ spent.failures \in Nat /\ spent'.failures \in Nat /\ spent'.failures >= spent.failures
           /\ spent.stops \in Nat /\ spent'.stops \in Nat /\ spent'.stops >= spent.stops
           /\ spent.denials \in Nat /\ spent'.denials \in Nat /\ spent'.denials >= spent.denials
           /\ spent.recreations \in Nat /\ spent'.recreations \in Nat
           /\ spent'.recreations >= spent.recreations
  BY SpentGrows, BudgetNames

\* A failure is counted.
LEMMA FailureCounts ==
    ASSUME Counters, Spend("failures")
    PROVE  spent.failures \in Nat /\ spent'.failures = spent.failures + 1
  BY Spending, BudgetNames DEF Counters

\* The steps that leave the import alone, but for the end of the process.
LEMMA OutsideImport ==
    ASSUME [Next]_vars, ~Import, ~BeginImport
    PROVE  /\ UNCHANGED <<target, pending, backup, source, hadTarget, installed>>
           /\ \/ UNCHANGED <<main, interrupted>>
              \/ ProcessGone /\ main' = "idle" /\ interrupted' = (interrupted \/ ~Idle)
<1>1. CASE ProcessKilled \/ Reboot
  BY <1>1 DEF ProcessKilled, Reboot, ProcessGone, fileVars
<1>2. CASE ~(ProcessKilled \/ Reboot)
  BY <1>2 DEF Next, User, vars, PressStart, PressStop, OnRequestPermissionsResult, ActivityRecreated,
     OnReceive, OnStartCommand, RunTask, DelayedRestart, ProxyExits, NetworkChanges, fileVars, importVars
<1> QED BY <1>1, <1>2

\* Every step of the import finds what the one before it left.
LEMMA StepImportSteps ==
    ASSUME Types, ImportSteps, [Next]_vars
    PROVE  ImportSteps'
<1>1. CASE ~Import /\ ~BeginImport
  <2>1. /\ UNCHANGED <<target, pending, backup, source, hadTarget>>
        /\ main' \in {main, "idle"}
    BY <1>1, OutsideImport
  <2>2. spent.failures \in Nat /\ spent'.failures \in Nat /\ spent'.failures >= spent.failures
    BY CountersGrow DEF Types
  <2> QED BY <2>1, <2>2 DEF ImportSteps, BeingReplaced
<1>2. CASE BeginImport
  BY <1>2 DEF BeginImport, ImportSteps, BeingReplaced
<1>3. CASE WritePending
  BY <1>3 DEF WritePending, ImportStep, ImportSteps, BeingReplaced
<1>4. CASE ValidateConfig
  BY <1>4 DEF ValidateConfig, ImportStep, ImportSteps, BeingReplaced, fileVars
<1>5. CASE DeleteBackup
  BY <1>5 DEF DeleteBackup, ImportStep, ImportSteps, BeingReplaced
<1>6. CASE SaveTarget
  BY <1>6 DEF SaveTarget, ImportStep, ImportSteps, BeingReplaced
<1>7. CASE InstallPending
  <2>1. CASE main' = "done"
    BY <1>7, <2>1 DEF InstallPending, ImportStep, ImportSteps, BeingReplaced
  <2>2. CASE main' # "done"
    <3>1. /\ main = "install" /\ main' = "rollback" /\ Spend("failures")
          /\ UNCHANGED <<target, hadTarget>>
      BY <1>7, <2>2 DEF InstallPending, ImportStep
    <3>2. spent'.failures >= 1
      BY <3>1, FailureCounts DEF Types
    <3> QED BY <3>1, <3>2 DEF ImportSteps, BeingReplaced
  <2> QED BY <2>1, <2>2
<1>8. CASE Rollback \/ ImportFails \/ ImportSucceeds
  <2>1. main' \in {"failed", "idle"}
    BY <1>8 DEF Rollback, ImportFails, ImportSucceeds, ImportStep
  <2> QED BY <2>1 DEF ImportSteps, BeingReplaced
<1> QED BY <1>1, <1>2, <1>3, <1>4, <1>5, <1>6, <1>7, <1>8 DEF Import

\* The service runs what is in place, or nothing, or what it ran.
LEMMA RunsWhatWasInPlace ==
    ASSUME Types, [Next]_vars
    PROVE  running' \in {running, target, NoFile}
<1>1. CASE Elsewhere \/ UNCHANGED vars
  BY <1>1, ElsewhereLeavesService DEF vars, serviceVars
<1>2. CASE RunTask
  <2>1. Head(tasks) \in Actions
    BY <1>2, QueueSteps DEF RunTask, Types, Queues
  <2>2. running' \in {Ensured, Restarted, NoFile}
    BY <1>2, <2>1 DEF RunTask, Actions
  <2> QED BY <2>2 DEF Ensured, Restarted
<1>3. CASE DelayedRestart
  BY <1>3 DEF DelayedRestart, Ensured, Restarted
<1>4. CASE OnStartCommand \/ ProxyExits \/ NetworkChanges \/ ProcessKilled \/ Reboot
  BY <1>4 DEF OnStartCommand, ProxyExits, NetworkChanges, ProcessKilled, Reboot, ProcessGone
<1> QED BY <1>1, <1>2, <1>3, <1>4 DEF Next, Elsewhere

\* Only what wireproxy accepted comes to be in place.
LEMMA StepAccepted ==
    ASSUME Types, ImportSteps, OnlyAcceptedConfigs, [Next]_vars
    PROVE  OnlyAcceptedConfigs'
<1>1. running' \in {running, target, NoFile}
  BY RunsWhatWasInPlace
<1>2. target' \in {target, NoFile, backup} \cup Good /\ backup' \in {backup, NoFile, target}
  <2>1. CASE ~Import /\ ~BeginImport
    BY <2>1, OutsideImport
  <2>2. CASE BeginImport
    BY <2>2 DEF BeginImport
  <2>3. CASE Import
    BY <2>3 DEF Import, WritePending, ValidateConfig, DeleteBackup, SaveTarget, InstallPending,
       Rollback, ImportFails, ImportSucceeds, ImportStep, ImportSteps, fileVars
  <2> QED BY <2>1, <2>2, <2>3
<1> QED BY <1>1, <1>2 DEF OnlyAcceptedConfigs

\* The configuration in place is the one installed last, until a new one is.
LEMMA StepNothingLost ==
    ASSUME Types, ImportSteps, NothingLost, [Next]_vars
    PROVE  NothingLost'
<1>0. spent.failures \in Nat /\ spent'.failures \in Nat /\ spent'.failures >= spent.failures
  BY CountersGrow DEF Types
<1>1. CASE ~Import /\ ~BeginImport
  <2>1. UNCHANGED <<target, backup, hadTarget, installed>>
    BY <1>1, OutsideImport
  <2>2. CASE UNCHANGED <<main, interrupted>>
    BY <1>0, <2>1, <2>2 DEF NothingLost, InPlace, BeingReplaced
  <2>3. CASE main' = "idle" /\ interrupted' = (interrupted \/ ~Idle)
    <3>1. ~interrupted' => ~interrupted /\ main = "idle"
      BY <2>3, Zenon DEF Idle
    <3> QED BY <1>0, <2>1, <2>3, <3>1 DEF NothingLost, InPlace, BeingReplaced
  <2> QED BY <1>1, <2>2, <2>3, OutsideImport
<1>2. CASE BeginImport
  BY <1>0, <1>2 DEF BeginImport, Idle, NothingLost, InPlace, BeingReplaced
<1>3. CASE WritePending
  BY <1>0, <1>3 DEF WritePending, ImportStep, NothingLost, InPlace, BeingReplaced
<1>4. CASE ValidateConfig
  BY <1>0, <1>4 DEF ValidateConfig, ImportStep, NothingLost, InPlace, BeingReplaced, fileVars
<1>5. CASE DeleteBackup
  BY <1>0, <1>5 DEF DeleteBackup, ImportStep, NothingLost, InPlace, BeingReplaced
<1>6. CASE SaveTarget
  BY <1>0, <1>6 DEF SaveTarget, ImportStep, NothingLost, InPlace, BeingReplaced
<1>7. CASE InstallPending
  BY <1>0, <1>7 DEF InstallPending, ImportStep, NothingLost, InPlace, BeingReplaced
<1>8. CASE Rollback
  <2>1. main = "rollback" /\ main' = "failed" /\ UNCHANGED <<hadTarget, installed, interrupted>>
    BY <1>8 DEF Rollback, ImportStep
  <2>2. CASE Spend("failures")
    <3>1. spent'.failures = spent.failures + 1 /\ spent.failures >= 1
      BY <2>1, <2>2, FailureCounts DEF Types, ImportSteps
    <3> QED BY <1>0, <3>1 DEF NothingLost
  <2>3. CASE target' = IF hadTarget THEN backup ELSE target
    BY <1>0, <2>1, <2>3 DEF NothingLost, InPlace, BeingReplaced
  <2> QED BY <1>8, <2>2, <2>3 DEF Rollback
<1>9. CASE ImportFails
  BY <1>0, <1>9 DEF ImportFails, ImportStep, NothingLost, InPlace, BeingReplaced
<1>10. CASE ImportSucceeds
  BY <1>10 DEF ImportSucceeds, ImportStep, ImportSteps, NothingLost, InPlace, BeingReplaced
<1> QED BY <1>1, <1>2, <1>3, <1>4, <1>5, <1>6, <1>7, <1>8, <1>9, <1>10 DEF Import

\* At the start there is nothing.
LEMMA InitImport == Init => ImportSteps /\ OnlyAcceptedConfigs /\ NothingLost
  BY DEF Init, ImportSteps, OnlyAcceptedConfigs, NothingLost, InPlace, BeingReplaced

\* A configuration that wireproxy refused, or that was half written, is never in
\* place, kept for a rollback or run (OnlyAcceptedConfigs).
THEOREM OnlyAccepted == Spec => []OnlyAcceptedConfigs
<1> DEFINE Inv == Types /\ ImportSteps /\ OnlyAcceptedConfigs
<1>1. Init => Inv
  BY InitTypes, InitImport
<1>2. Inv /\ [Next]_vars => Inv'
  BY StepTypes, StepImportSteps, StepAccepted
<1> QED BY <1>1, <1>2, PTL DEF Spec

\* Every variable stays in its type (TypeOK).
THEOREM TypeCorrect == Spec => []TypeOK
<1> DEFINE InBudget == \A b \in DOMAIN Budgets : spent[b] \in 0..Budgets[b]
           Inv == Types /\ InBudget
<1>1. Init => Inv
  <2>1. Init => InBudget
    BY BudgetNames DEF Init
  <2> QED BY <2>1, InitTypes
<1>2. Inv /\ [Next]_vars => Inv'
  <2>1. Types /\ InBudget /\ [Next]_vars => InBudget'
    BY StepBudgets DEF Types
  <2> HIDE DEF InBudget
  <2> QED BY <2>1, StepTypes
<1>3. Inv /\ OnlyAcceptedConfigs => TypeOK
  BY DEF Types, FileTypes, ImportTypes, ActivityTypes, ServiceTypes, OtherTypes, Queues,
     OnlyAcceptedConfigs, TypeOK, Texts
<1> HIDE DEF InBudget
<1> QED BY <1>1, <1>2, <1>3, OnlyAccepted, PTL DEF Spec

\* An import that the end of the process did not cut short installs its
\* configuration or leaves the one before, whatever step of it fails
\* (ConfigKept).
THEOREM ImportIsAtomic == Spec => []ConfigKept
<1> DEFINE Inv == Types /\ ImportSteps /\ NothingLost
<1>1. Init => Inv
  BY InitTypes, InitImport
<1>2. Inv /\ [Next]_vars => Inv'
  BY StepTypes, StepImportSteps, StepNothingLost
<1>3. Inv => ConfigKept
  BY DEF NothingLost, ConfigKept, Idle, InPlace, BeingReplaced
<1> QED BY <1>1, <1>2, <1>3, PTL DEF Spec

-----------------------------------------------------------------------------
(* What runs.                                                              *)

\* What is in a queue after a delivery, and after one more has joined.
LEMMA InTail ==
    ASSUME NEW q \in Seq(Actions), q # <<>>, NEW a
    PROVE  InQueue(a, q) <=> Head(q) = a \/ InQueue(a, Tail(q))
<1>1. /\ Head(q) = q[1] /\ Len(q) \in Nat \ {0} /\ DOMAIN q = 1..Len(q)
      /\ DOMAIN Tail(q) = 1..(Len(q) - 1)
      /\ \A i \in 1..(Len(q) - 1) : Tail(q)[i] = q[i + 1]
  BY HeadTailProperties
<1>2. ASSUME NEW i \in DOMAIN q, q[i] = a, i # 1
      PROVE  InQueue(a, Tail(q))
  <2> DEFINE j == i - 1
  <2>1. j \in DOMAIN Tail(q) /\ j + 1 = i
    BY <1>1, <1>2
  <2>2. Tail(q)[j] = a
    BY <1>1, <1>2, <2>1
  <2> HIDE DEF j
  <2> QED BY <2>1, <2>2 DEF InQueue
<1>3. ASSUME NEW i \in DOMAIN Tail(q), Tail(q)[i] = a
      PROVE  InQueue(a, q)
  <2> DEFINE j == i + 1
  <2>1. j \in DOMAIN q /\ q[j] = a
    BY <1>1, <1>3
  <2> HIDE DEF j
  <2> QED BY <2>1 DEF InQueue
<1> QED BY <1>1, <1>2, <1>3 DEF InQueue

LEMMA InAppend ==
    ASSUME NEW q \in Seq(Actions), NEW b \in Actions, NEW a
    PROVE  InQueue(a, Append(q, b)) <=> InQueue(a, q) \/ a = b
<1> DEFINE t == Append(q, b)
<1>1. /\ Len(q) \in Nat /\ DOMAIN q = 1..Len(q) /\ DOMAIN t = 1..(Len(q) + 1)
      /\ \A i \in 1..Len(q) : t[i] = q[i]
      /\ t[Len(q) + 1] = b
  BY AppendProperties, LenProperties
<1> HIDE DEF t
<1>2. InQueue(a, t) <=> InQueue(a, q) \/ a = b
  BY <1>1 DEF InQueue
<1> QED BY <1>2 DEF t

LEMMA InNone == ASSUME NEW a PROVE ~InQueue(a, <<>>)
  BY DEF InQueue

\* A task takes the first of the queue; what it does with it.
LEMMA TaskRuns ==
    ASSUME Types, RunTask
    PROVE  /\ tasks # <<>> /\ tasks \in Seq(Actions) /\ Head(tasks) \in Actions
           /\ UNCHANGED <<main, hadTarget, target, backup, installed, asked, pendingStartAction,
                          enabled, intents, bootPending, interrupted, spent>>
           /\ \/ /\ Head(tasks) = "START" /\ tasks' = Tail(tasks) /\ running' = Ensured
                 /\ UNCHANGED <<alive, desiredRunning, pendingRestart, sticky>>
              \/ /\ Head(tasks) = "RESTART" /\ tasks' = Tail(tasks) /\ running' = Restarted
                 /\ pendingRestart' = IF desiredRunning THEN "none" ELSE pendingRestart
                 /\ UNCHANGED <<alive, desiredRunning, sticky>>
              \/ /\ Head(tasks) = "STOP" /\ tasks' = <<>> /\ running' = NoFile
                 /\ alive' = FALSE /\ desiredRunning' = FALSE /\ sticky' = FALSE
<1>1. tasks # <<>> /\ tasks \in Seq(Actions) /\ Head(tasks) \in Actions
  BY QueueSteps DEF RunTask, Types, Queues
<1> QED BY <1>1 DEF RunTask, Actions, importVars, activityVars, fileVars

\* A delivery of an intent.
LEMMA IntentArrives ==
    ASSUME Types, OnStartCommand
    PROVE  /\ intents # <<>> /\ intents \in Seq(Actions) /\ tasks \in Seq(Actions)
           /\ Head(intents) \in Actions /\ intents' = Tail(intents)
           /\ tasks' = Append(tasks, Head(intents)) /\ tasks' # <<>>
           /\ UNCHANGED <<main, hadTarget, target, backup, installed, asked, pendingStartAction,
                          pendingRestart, running, bootPending, interrupted, spent>>
           /\ \/ Head(intents) = "STOP" /\ enabled' = "no"
              \/ /\ Head(intents) # "STOP" /\ enabled' = "yes"
                 /\ alive' /\ desiredRunning' /\ sticky'
<1>1. intents # <<>> /\ intents \in Seq(Actions) /\ tasks \in Seq(Actions) /\ Head(intents) \in Actions
  BY QueueSteps DEF OnStartCommand, Types, Queues
<1>2. tasks' = Append(tasks, Head(intents)) /\ tasks' # <<>>
  BY <1>1, AppendProperties DEF OnStartCommand
<1> QED BY <1>1, <1>2 DEF OnStartCommand, importVars, activityVars, fileVars

\* The stop stays in the queue until it is done.
LEMMA StepStopIsQueued ==
    ASSUME Types, StopIsQueued, [Next]_vars
    PROVE  StopIsQueued'
<1>1. CASE Elsewhere \/ UNCHANGED vars
  <2>1. UNCHANGED <<running, desiredRunning, tasks>>
    BY <1>1, ElsewhereLeavesService DEF vars, serviceVars
  <2> QED BY <2>1 DEF StopIsQueued
<1>2. CASE OnStartCommand
  <2>1. tasks' = Append(tasks, Head(intents)) /\ (~desiredRunning' => Head(intents) = "STOP")
    BY <1>2, IntentArrives
  <2>2. Head(intents) = "STOP" => InQueue("STOP", tasks')
    BY <1>2, <2>1, IntentArrives, InAppend
  <2> QED BY <2>1, <2>2 DEF StopIsQueued
<1>3. CASE RunTask
  <2>1. CASE Head(tasks) = "STOP"
    <3>1. running' = NoFile
      BY <1>3, <2>1, TaskRuns
    <3> QED BY <3>1 DEF StopIsQueued
  <2>2. CASE Head(tasks) # "STOP"
    <3>1. /\ tasks' = Tail(tasks) /\ UNCHANGED desiredRunning
          /\ running' \in {Ensured, Restarted}
      BY <1>3, <2>2, TaskRuns
    <3>2. ~desiredRunning => running' = running
      BY <3>1 DEF Ensured, Restarted
    <3>3. InQueue("STOP", tasks) => InQueue("STOP", tasks')
      BY <1>3, <2>2, <3>1, TaskRuns, InTail
    <3> QED BY <3>1, <3>2, <3>3 DEF StopIsQueued
  <2> QED BY <2>1, <2>2
<1>4. CASE DelayedRestart
  <2>1. UNCHANGED <<desiredRunning, tasks>> /\ (~desiredRunning => running' = running)
    BY <1>4 DEF DelayedRestart, Ensured, Restarted
  <2> QED BY <2>1 DEF StopIsQueued
<1>5. CASE ProxyExits \/ ProcessKilled \/ Reboot
  BY <1>5 DEF ProxyExits, ProcessKilled, Reboot, ProcessGone, StopIsQueued
<1>6. CASE NetworkChanges
  BY <1>6 DEF NetworkChanges, StopIsQueued
<1> QED BY <1>1, <1>2, <1>3, <1>4, <1>5, <1>6 DEF Next, Elsewhere

\* Only an import that is done changes what is in place, or two failures of one.
LEMMA InPlaceKept ==
    ASSUME Types, ImportSteps, [Next]_vars
    PROVE  \/ InPlace' = InPlace
           \/ main' = "done"
           \/ spent'.failures > 1
           \/ ProcessGone
<1>1. CASE ~Import /\ ~BeginImport
  BY <1>1, OutsideImport DEF InPlace, BeingReplaced
<1>2. CASE BeginImport
  BY <1>2 DEF BeginImport, Idle, InPlace, BeingReplaced
<1>3. CASE WritePending \/ ValidateConfig \/ DeleteBackup
  BY <1>3 DEF WritePending, ValidateConfig, DeleteBackup, ImportStep, InPlace, BeingReplaced, fileVars
<1>4. CASE SaveTarget \/ InstallPending
  BY <1>4 DEF SaveTarget, InstallPending, ImportStep, InPlace, BeingReplaced
<1>5. CASE Rollback
  <2>1. main = "rollback" /\ main' = "failed" /\ UNCHANGED hadTarget
    BY <1>5 DEF Rollback, ImportStep
  <2>2. CASE Spend("failures")
    <3>1. spent'.failures = spent.failures + 1 /\ spent.failures >= 1 /\ spent.failures \in Nat
      BY <2>1, <2>2, FailureCounts DEF Types, ImportSteps
    <3> QED BY <3>1
  <2>3. CASE target' = IF hadTarget THEN backup ELSE target
    BY <2>1, <2>3 DEF InPlace, BeingReplaced
  <2> QED BY <1>5, <2>2, <2>3 DEF Rollback
<1>6. CASE ImportFails \/ ImportSucceeds
  BY <1>6 DEF ImportFails, ImportSucceeds, ImportStep, InPlace, BeingReplaced
<1> QED BY <1>1, <1>2, <1>3, <1>4, <1>5, <1>6 DEF Import

\* The dialog is answered with the restart it was opened for.
LEMMA ElsewhereKeepsReplacement ==
    ASSUME Types, Elsewhere, ReplacementToCome, DialogUndisturbed'
    PROVE  ReplacementToCome'
<1>1. UNCHANGED <<tasks, pendingRestart>>
  BY ElsewhereLeavesService DEF serviceVars
<1>2. intents \in Seq(Actions) /\ pendingStartAction \in Actions
      /\ "START" \in Actions /\ "RESTART" \in Actions /\ "STOP" \in Actions
  BY DEF Types, Queues, ActivityTypes, Actions
<1>3. InQueue("RESTART", intents) => InQueue("RESTART", intents')
  <2>1. UNCHANGED intents \/ \E a \in Actions : intents' = Append(intents, a)
    BY <1>2 DEF Elsewhere, User, BeginImport, PressStart, PressStop, Import, WritePending, ValidateConfig,
       DeleteBackup, SaveTarget, InstallPending, Rollback, ImportFails, ImportSucceeds,
       OnRequestPermissionsResult, ActivityRecreated, OnReceive, RequestProxyStart, RequestStart
  <2>2. ASSUME NEW a \in Actions PROVE InQueue("RESTART", intents) => InQueue("RESTART", Append(intents, a))
    BY <1>2, InAppend
  <2> QED BY <2>1, <2>2
<1>4. CASE InQueue("RESTART", intents) \/ InQueue("RESTART", tasks) \/ InQueue("STOP", tasks)
           \/ pendingRestart = "restart"
  BY <1>1, <1>3, <1>4 DEF ReplacementToCome
<1>5. ASSUME RequestProxyStart("RESTART")
      PROVE  ReplacementToCome'
  <2>1. permission => InQueue("RESTART", intents')
    <3>1. permission => intents' = Append(intents, "RESTART")
      BY <1>5 DEF RequestProxyStart, RequestStart
    <3>2. InQueue("RESTART", Append(intents, "RESTART"))
      BY <1>2, InAppend
    <3> QED BY <3>1, <3>2
  <2> QED BY <1>5, <2>1 DEF RequestProxyStart, ReplacementToCome
<1>6. CASE main = "done"
  <2>1. main' = "done" \/ ImportSucceeds
    BY <1>6 DEF Elsewhere, User, BeginImport, PressStart, PressStop, Import, WritePending, ValidateConfig,
       DeleteBackup, SaveTarget, InstallPending, Rollback, ImportFails, ImportStep, Idle,
       OnRequestPermissionsResult, ActivityRecreated, OnReceive
  <2> QED BY <1>5, <2>1 DEF ImportSucceeds, ReplacementToCome
<1>7. CASE asked /\ pendingStartAction = "RESTART"
  <2>1. CASE OnRequestPermissionsResult
    <3>1. \/ intents' = Append(intents, "RESTART")
          \/ Spend("denials")
      BY <1>7, <2>1 DEF OnRequestPermissionsResult, RequestStart
    <3>2. Spend("denials") => spent'.denials # 0
      BY Spending, BudgetNames DEF Types, Counters
    <3>3. intents' = Append(intents, "RESTART")
      BY <3>1, <3>2 DEF DialogUndisturbed
    <3>4. InQueue("RESTART", Append(intents, "RESTART"))
      BY <1>2, InAppend
    <3> QED BY <3>3, <3>4 DEF ReplacementToCome
  <2>2. CASE ActivityRecreated
    <3>1. Spend("recreations") => spent'.recreations # 0
      BY Spending, BudgetNames DEF Types, Counters
    <3> QED BY <2>2, <3>1 DEF ActivityRecreated, DialogUndisturbed
  <2>3. CASE ImportSucceeds
    BY <1>5, <2>3 DEF ImportSucceeds
  <2>4. CASE ~(OnRequestPermissionsResult \/ ActivityRecreated \/ ImportSucceeds)
    <3>1. UNCHANGED <<asked, pendingStartAction>>
      BY <1>7, <2>4 DEF Elsewhere, User, BeginImport, PressStart, PressStop, Import, WritePending, ValidateConfig,
         DeleteBackup, SaveTarget, InstallPending, Rollback, ImportFails, OnReceive, activityVars
    <3> QED BY <1>7, <3>1 DEF ReplacementToCome
  <2> QED BY <2>1, <2>2, <2>3, <2>4
<1> QED BY <1>4, <1>6, <1>7 DEF ReplacementToCome

\* A process that runs with another configuration than the one in place is
\* about to be replaced.
LEMMA StepRunsWhatIsInPlace ==
    ASSUME Types, ImportSteps, StopIsQueued, RunsWhatIsInPlace, [Next]_vars
    PROVE  RunsWhatIsInPlace'
<1> SUFFICES ASSUME DialogUndisturbed', spent'.failures <= 1
             PROVE  running' \in {NoFile, InPlace'} \/ ReplacementToCome'
  BY DEF RunsWhatIsInPlace
<1>1. running \in {NoFile, InPlace} \/ ReplacementToCome
  BY CountersGrow DEF Types, DialogUndisturbed, RunsWhatIsInPlace
<1>2. target \in {NoFile, InPlace}
  BY DEF ImportSteps, InPlace
<1>3. InPlace' = InPlace \/ main' = "done" \/ ProcessGone
  BY InPlaceKept, CountersGrow DEF Types
<1>4. main' = "done" => ReplacementToCome'
  BY DEF ReplacementToCome
<1>5. CASE Elsewhere
  <2>1. UNCHANGED running
    BY <1>5, ElsewhereLeavesService DEF serviceVars
  <2>2. ~ProcessGone
    <3>1. UNCHANGED spent \/ \E b \in DOMAIN Budgets \ {"kills"} : Spend(b)
      BY <1>5, BudgetNames DEF Elsewhere, User, BeginImport, PressStart, PressStop, Import, WritePending, ValidateConfig,
         DeleteBackup, SaveTarget, InstallPending, Rollback, ImportFails, ImportSucceeds,
         OnRequestPermissionsResult, ActivityRecreated, OnReceive
    <3>2. spent'["kills"] = spent["kills"]
      BY <3>1, Spending, BudgetNames DEF Types
    <3>3. ProcessGone => spent'["kills"] = spent["kills"] + 1 /\ spent["kills"] \in Nat
      BY Spending, BudgetNames DEF ProcessGone, Types, Counters
    <3> QED BY <3>2, <3>3
  <2> QED BY <1>1, <1>3, <1>4, <1>5, <2>1, <2>2, ElsewhereKeepsReplacement
<1>6. CASE OnStartCommand
  <2>1. /\ UNCHANGED <<main, hadTarget, target, backup, asked, pendingStartAction, pendingRestart, running>>
        /\ intents' = Tail(intents) /\ tasks' = Append(tasks, Head(intents))
        /\ intents \in Seq(Actions) /\ intents # <<>> /\ tasks \in Seq(Actions) /\ Head(intents) \in Actions
    BY <1>6, IntentArrives
  <2>2. InQueue("RESTART", intents) => InQueue("RESTART", Tail(intents)) \/ Head(intents) = "RESTART"
    BY <2>1, InTail
  <2>3. \A a : InQueue(a, Append(tasks, Head(intents))) <=> InQueue(a, tasks) \/ a = Head(intents)
    BY <2>1, InAppend
  <2>4. ReplacementToCome => ReplacementToCome'
    BY <2>1, <2>2, <2>3 DEF ReplacementToCome
  <2> QED BY <1>1, <2>1, <2>4 DEF InPlace, BeingReplaced
<1>7. CASE RunTask
  <2>1. /\ UNCHANGED <<main, hadTarget, target, backup, asked, pendingStartAction, intents>>
        /\ tasks \in Seq(Actions) /\ tasks # <<>>
    BY <1>7, TaskRuns
  <2>2. InPlace' = InPlace
    BY <2>1 DEF InPlace, BeingReplaced
  <2>3. CASE Head(tasks) = "START"
    <3>1. tasks' = Tail(tasks) /\ running' = Ensured /\ UNCHANGED pendingRestart
      BY <1>7, <2>3, TaskRuns
    <3>2. \A a \in {"RESTART", "STOP"} : InQueue(a, tasks) => InQueue(a, Tail(tasks))
      BY <2>1, <2>3, InTail
    <3>3. ReplacementToCome => ReplacementToCome'
      BY <2>1, <3>1, <3>2 DEF ReplacementToCome
    <3> QED BY <1>1, <1>2, <2>2, <3>1, <3>3 DEF Ensured
  <2>4. CASE Head(tasks) = "RESTART"
    <3>1. tasks' = Tail(tasks) /\ running' = Restarted
      BY <1>7, <2>4, TaskRuns
    <3>2. InQueue("STOP", tasks) => InQueue("STOP", Tail(tasks))
      BY <2>1, <2>4, InTail
    <3>3. CASE desiredRunning
      BY <1>2, <2>2, <3>1, <3>3 DEF Restarted
    <3>4. CASE ~desiredRunning
      BY <3>1, <3>2, <3>4 DEF Restarted, StopIsQueued, ReplacementToCome
    <3> QED BY <3>3, <3>4
  <2>5. CASE Head(tasks) = "STOP"
    BY <1>7, <2>5, TaskRuns
  <2> QED BY <1>7, <2>3, <2>4, <2>5, TaskRuns
<1>8. CASE DelayedRestart
  <2>1. /\ UNCHANGED <<main, hadTarget, target, backup, asked, pendingStartAction, intents, tasks, desiredRunning>>
        /\ pendingRestart # "none"
        /\ running' = IF pendingRestart = "restart" THEN Restarted ELSE Ensured
    BY <1>8 DEF DelayedRestart, importVars, activityVars, fileVars
  <2>2. InPlace' = InPlace
    BY <2>1 DEF InPlace, BeingReplaced
  <2>3. CASE pendingRestart = "restart"
    <3>1. CASE desiredRunning
      BY <1>2, <2>1, <2>2, <2>3, <3>1 DEF Restarted
    <3>2. CASE ~desiredRunning
      BY <2>1, <2>3, <3>2 DEF Restarted, StopIsQueued, ReplacementToCome
    <3> QED BY <3>1, <3>2
  <2>4. CASE pendingRestart # "restart"
    <3>1. ReplacementToCome => ReplacementToCome'
      BY <2>1, <2>4 DEF ReplacementToCome
    <3> QED BY <1>1, <1>2, <2>1, <2>2, <2>4, <3>1 DEF Ensured
  <2> QED BY <2>3, <2>4
<1>9. CASE NetworkChanges
  BY <1>9 DEF NetworkChanges, ReplacementToCome
<1>10. CASE ProxyExits \/ ProcessKilled \/ Reboot
  BY <1>10 DEF ProxyExits, ProcessKilled, Reboot, ProcessGone
<1>11. CASE UNCHANGED vars
  <2>1. UNCHANGED <<running, main, hadTarget, target, backup, asked, pendingStartAction, intents, tasks, pendingRestart>>
    BY <1>11 DEF vars, fileVars, importVars, activityVars, serviceVars
  <2> QED BY <1>1, <2>1 DEF ReplacementToCome, InPlace, BeingReplaced
<1> QED BY <1>5, <1>6, <1>7, <1>8, <1>9, <1>10, <1>11 DEF Next, Elsewhere

\* wireproxy does not go on with a configuration that an import has replaced:
\* once every request was answered it runs with what is in place
\* (InstalledConfigRuns).
THEOREM NewConfigTakesEffect == Spec => []InstalledConfigRuns
<1> DEFINE Inv == Types /\ ImportSteps /\ StopIsQueued /\ RunsWhatIsInPlace
<1>1. Init => Inv
  <2>1. Init => StopIsQueued /\ RunsWhatIsInPlace
    BY DEF Init, StopIsQueued, RunsWhatIsInPlace
  <2> QED BY <2>1, InitTypes, InitImport
<1>2. Inv /\ [Next]_vars => Inv'
  BY StepTypes, StepImportSteps, StepStopIsQueued, StepRunsWhatIsInPlace
<1>3. Inv => InstalledConfigRuns
  <2> SUFFICES ASSUME Inv, Settled, running # NoFile, DialogUndisturbed, spent.failures <= 1
               PROVE  running = target
    BY DEF InstalledConfigRuns
  <2>1. ~ReplacementToCome
    BY InNone DEF Settled, Idle, ReplacementToCome
  <2>2. InPlace = target
    BY DEF Settled, Idle, InPlace, BeingReplaced
  <2> QED BY <2>1, <2>2 DEF RunsWhatIsInPlace
<1> QED BY <1>1, <1>2, <1>3, PTL DEF Spec

-----------------------------------------------------------------------------
(* Who wants the proxy has it.                                             *)

\* Only the stop button sends a stop.
LEMMA StepNeverStopped ==
    ASSUME Types, NeverStopped, [Next]_vars
    PROVE  NeverStopped'
<1> SUFFICES ASSUME spent'.stops = 0
             PROVE  ~InQueue("STOP", intents') /\ ~InQueue("STOP", tasks') /\ enabled' # "no"
  BY DEF NeverStopped
<1>1. ~InQueue("STOP", intents) /\ ~InQueue("STOP", tasks) /\ enabled # "no"
  BY CountersGrow DEF Types, NeverStopped
<1>2. /\ intents \in Seq(Actions) /\ tasks \in Seq(Actions)
      /\ pendingStartAction \in {"START", "RESTART"}
      /\ "START" \in Actions /\ "RESTART" \in Actions
  BY DEF Types, Queues, ActivityTypes, Actions
<1>3. CASE Elsewhere
  <2>1. ~PressStop
    <3>1. Spend("stops") => spent'.stops # 0
      BY Spending, BudgetNames DEF Types, Counters
    <3> QED BY <3>1 DEF PressStop
  <2>2. UNCHANGED intents \/ \E a \in {"START", "RESTART"} : intents' = Append(intents, a)
    BY <1>2, <1>3, <2>1 DEF Elsewhere, User, BeginImport, PressStart, Import, WritePending, ValidateConfig,
       DeleteBackup, SaveTarget, InstallPending, Rollback, ImportFails, ImportSucceeds,
       OnRequestPermissionsResult, ActivityRecreated, OnReceive, RequestProxyStart, RequestStart
  <2>3. \A a \in {"START", "RESTART"} : ~InQueue("STOP", Append(intents, a))
    BY <1>1, <1>2, InAppend
  <2>4. UNCHANGED <<tasks, enabled>>
    <3>1. UNCHANGED tasks
      BY <1>3, ElsewhereLeavesService DEF serviceVars
    <3>2. UNCHANGED enabled
      BY <1>3 DEF Elsewhere, User, BeginImport, PressStart, PressStop, Import, WritePending, ValidateConfig,
         DeleteBackup, SaveTarget, InstallPending, Rollback, ImportFails, ImportSucceeds,
         OnRequestPermissionsResult, ActivityRecreated, OnReceive
    <3> QED BY <3>1, <3>2
  <2> QED BY <1>1, <2>2, <2>3, <2>4
<1>4. CASE OnStartCommand
  <2>1. /\ intents' = Tail(intents) /\ tasks' = Append(tasks, Head(intents))
        /\ intents # <<>> /\ Head(intents) \in Actions
        /\ Head(intents) # "STOP" => enabled' = "yes"
    BY <1>4, IntentArrives
  <2>2. Head(intents) # "STOP" /\ ~InQueue("STOP", Tail(intents))
    BY <1>1, <1>2, <2>1, InTail
  <2>3. ~InQueue("STOP", Append(tasks, Head(intents)))
    BY <1>1, <1>2, <2>1, <2>2, InAppend
  <2> QED BY <2>1, <2>2, <2>3
<1>5. CASE RunTask
  <2>1. tasks # <<>> /\ tasks' \in {Tail(tasks), <<>>} /\ UNCHANGED <<intents, enabled>>
    BY <1>5, TaskRuns
  <2>2. ~InQueue("STOP", Tail(tasks)) /\ ~InQueue("STOP", <<>>)
    BY <1>1, <1>2, <2>1, InTail, InNone
  <2> QED BY <1>1, <2>1, <2>2
<1>6. CASE DelayedRestart \/ ProxyExits \/ NetworkChanges \/ UNCHANGED vars
  BY <1>1, <1>6 DEF DelayedRestart, ProxyExits, NetworkChanges, vars, serviceVars
<1>7. CASE ProcessKilled \/ Reboot
  <2>1. tasks' = <<>> /\ intents' \in {intents, <<>>, <<"START">>} /\ UNCHANGED enabled
    BY <1>7 DEF ProcessKilled, Reboot, ProcessGone
  <2>2. ~InQueue("STOP", <<>>) /\ ~InQueue("STOP", <<"START">>)
    BY DEF InQueue
  <2> QED BY <1>1, <2>1, <2>2
<1> QED BY <1>3, <1>4, <1>5, <1>6, <1>7 DEF Next, Elsewhere

\* Nothing has gone wrong before, unless an import has just succeeded.
LEMMA UndisturbedBefore ==
    ASSUME Types, [Next]_vars, Undisturbed'
    PROVE  Undisturbed \/ ImportSucceeds
<1>1. DialogUndisturbed /\ spent.failures = 0
  BY CountersGrow DEF Types, Undisturbed, DialogUndisturbed
<1>2. ~interrupted'
  BY DEF Undisturbed
<1>3. CASE ~Import /\ ~BeginImport
  <2>1. interrupted' = interrupted \/ interrupted' = (interrupted \/ ~Idle)
    BY <1>3, OutsideImport
  <2>2. ~interrupted
    BY <1>2, <2>1, Zenon
  <2> QED BY <1>1, <2>2 DEF Undisturbed
<1>4. CASE BeginImport
  BY <1>1, <1>2, <1>4 DEF BeginImport, Undisturbed
<1>5. CASE Import
  BY <1>1, <1>2, <1>5 DEF Import, WritePending, ValidateConfig, DeleteBackup, SaveTarget, InstallPending,
     Rollback, ImportFails, Undisturbed
<1> QED BY <1>3, <1>4, <1>5

\* A configuration comes to be in place when an import is done, or rolled back.
LEMMA ConfigAppears ==
    ASSUME Types, ImportSteps, [Next]_vars, Undisturbed', HasConfig'
    PROVE  HasConfig \/ main' = "done"
<1>1. CASE ~Import /\ ~BeginImport
  BY <1>1, OutsideImport DEF HasConfig
<1>2. CASE BeginImport \/ WritePending \/ ValidateConfig \/ DeleteBackup \/ ImportFails \/ ImportSucceeds
  BY <1>2 DEF BeginImport, WritePending, ValidateConfig, DeleteBackup, ImportFails, ImportSucceeds,
     fileVars, HasConfig
<1>3. CASE SaveTarget \/ InstallPending
  BY <1>3 DEF SaveTarget, InstallPending, ImportStep, HasConfig
<1>4. CASE Rollback
  <2>1. spent.failures >= 1
    BY <1>4 DEF Rollback, ImportStep, ImportSteps
  <2>2. spent'.failures = 0
    BY DEF Undisturbed
  <2> QED BY <2>1, <2>2, CountersGrow DEF Types
<1> QED BY <1>1, <1>2, <1>3, <1>4 DEF Import

\* What brings a restart or a start outside the service leads to a request.
OnItsWay == main = "done" \/ asked \/ intents # <<>>

LEMMA ElsewhereKeepsComing ==
    ASSUME Types, Elsewhere, Undisturbed'
    PROVE  (OnItsWay => OnItsWay') /\ (ImportSucceeds => OnItsWay')
<1>0. \A q \in Seq(Actions), a \in Actions : Append(q, a) # <<>>
  BY AppendProperties
<1>1. /\ intents \in Seq(Actions) /\ pendingStartAction \in Actions
      /\ "START" \in Actions /\ "RESTART" \in Actions /\ "STOP" \in Actions
  BY DEF Types, Queues, ActivityTypes, Actions
<1>2. intents # <<>> => intents' # <<>>
  <2>1. UNCHANGED intents \/ \E a \in Actions : intents' = Append(intents, a)
    BY <1>1 DEF Elsewhere, User, BeginImport, PressStart, PressStop, Import, WritePending, ValidateConfig,
       DeleteBackup, SaveTarget, InstallPending, Rollback, ImportFails, ImportSucceeds,
       OnRequestPermissionsResult, ActivityRecreated, OnReceive, RequestProxyStart, RequestStart
  <2> QED BY <1>0, <1>1, <2>1
<1>3. ImportSucceeds => OnItsWay'
  BY <1>0, <1>1 DEF ImportSucceeds, RequestProxyStart, RequestStart, OnItsWay
<1>4. CASE main = "done"
  <2>1. main' = "done" \/ ImportSucceeds
    BY <1>4 DEF Elsewhere, User, BeginImport, PressStart, PressStop, Import, WritePending, ValidateConfig,
       DeleteBackup, SaveTarget, InstallPending, Rollback, ImportFails, ImportStep, Idle,
       OnRequestPermissionsResult, ActivityRecreated, OnReceive
  <2> QED BY <1>3, <2>1 DEF OnItsWay
<1>5. CASE asked
  <2>1. CASE OnRequestPermissionsResult
    <3>1. intents' = Append(intents, pendingStartAction) \/ Spend("denials")
      BY <2>1 DEF OnRequestPermissionsResult, RequestStart
    <3>2. ~Spend("denials")
      BY Spending, BudgetNames DEF Types, Counters, Undisturbed, DialogUndisturbed
    <3> QED BY <1>0, <1>1, <3>1, <3>2 DEF OnItsWay
  <2>2. CASE ~OnRequestPermissionsResult
    <3>1. asked' = asked \/ asked' = TRUE \/ ImportSucceeds
      BY <2>2 DEF Elsewhere, User, BeginImport, PressStart, PressStop, Import, WritePending, ValidateConfig,
         DeleteBackup, SaveTarget, InstallPending, Rollback, ImportFails, ActivityRecreated,
         OnReceive, RequestProxyStart, activityVars
    <3> QED BY <1>3, <1>5, <3>1 DEF OnItsWay
  <2> QED BY <2>1, <2>2
<1> QED BY <1>2, <1>3, <1>4, <1>5 DEF OnItsWay

\* A service that wants the proxy keeps it, or a start of it in some queue.
LEMMA StepServiceServes ==
    ASSUME Types, ImportSteps, ServiceServes, [Next]_vars
    PROVE  ServiceServes'
<1> SUFFICES ASSUME Undisturbed', HasConfig', alive', desiredRunning'
             PROVE  \/ running' # NoFile
                    \/ OnItsWay'
                    \/ tasks' # <<>> \/ pendingRestart' # "none"
  BY DEF ServiceServes, OnItsWay
<1>1. Undisturbed \/ ImportSucceeds
  BY UndisturbedBefore
<1>2. HasConfig \/ main' = "done"
  BY ConfigAppears
<1>3. Undisturbed /\ HasConfig /\ alive /\ desiredRunning
        => running # NoFile \/ OnItsWay \/ tasks # <<>> \/ pendingRestart # "none"
  BY DEF ServiceServes, OnItsWay
<1>4. CASE Elsewhere
  <2>1. UNCHANGED <<alive, desiredRunning, running, tasks, pendingRestart>>
    BY <1>4, ElsewhereLeavesService DEF serviceVars
  <2>2. main' = "done" => OnItsWay'
    BY DEF OnItsWay
  <2> QED BY <1>1, <1>2, <1>3, <1>4, <2>1, <2>2, ElsewhereKeepsComing
<1>5. CASE OnStartCommand
  BY <1>5, IntentArrives
<1>6. CASE RunTask
  <2>1. UNCHANGED target /\ (Head(tasks) \in {"START", "RESTART"} => UNCHANGED desiredRunning)
    BY <1>6, TaskRuns
  <2>2. Head(tasks) # "STOP"
    BY <1>6, TaskRuns
  <2>3. running' \in {Ensured, Restarted} /\ UNCHANGED desiredRunning
    BY <1>6, <2>2, TaskRuns
  <2> QED BY <2>1, <2>3 DEF HasConfig, Ensured, Restarted
<1>7. CASE DelayedRestart
  <2>1. UNCHANGED <<target, desiredRunning>> /\ running' \in {Ensured, Restarted}
    BY <1>7 DEF DelayedRestart, fileVars
  <2> QED BY <2>1 DEF HasConfig, Ensured, Restarted
<1>8. CASE ProxyExits \/ NetworkChanges
  BY <1>8 DEF ProxyExits, NetworkChanges
<1>9. CASE ProcessKilled \/ Reboot
  BY <1>9 DEF ProcessKilled, Reboot, ProcessGone
<1>10. CASE UNCHANGED vars
  <2>1. UNCHANGED <<alive, desiredRunning, running, tasks, pendingRestart, main, asked, intents>>
    BY <1>10 DEF vars, serviceVars, importVars, activityVars
  <2>2. ~ImportSucceeds
    BY <2>1 DEF ImportSucceeds, ImportStep
  <2> QED BY <1>1, <1>2, <1>3, <2>1, <2>2 DEF OnItsWay
<1> QED BY <1>4, <1>5, <1>6, <1>7, <1>8, <1>9, <1>10 DEF Next, Elsewhere

\* The service of a user who never stopped it comes back after kills and reboots.
LEMMA StepServiceIsThere ==
    ASSUME Types, ImportSteps, NeverStopped, ServiceIsThere, [Next]_vars
    PROVE  ServiceIsThere'
<1> SUFFICES ASSUME Undisturbed', HasConfig', enabled' = "yes", spent'.stops = 0
             PROVE  \/ alive' /\ desiredRunning' /\ sticky'
                    \/ OnItsWay' \/ bootPending'
  BY DEF ServiceIsThere, OnItsWay
<1>1. Undisturbed \/ ImportSucceeds
  BY UndisturbedBefore
<1>2. HasConfig \/ main' = "done"
  BY ConfigAppears
<1>3. spent.stops = 0 /\ ~InQueue("STOP", intents) /\ ~InQueue("STOP", tasks)
  BY CountersGrow DEF Types, NeverStopped
<1>4. Undisturbed /\ HasConfig /\ enabled = "yes"
        => (alive /\ desiredRunning /\ sticky) \/ OnItsWay \/ bootPending
  BY <1>3 DEF ServiceIsThere, OnItsWay
<1>5. CASE Elsewhere
  <2>1. UNCHANGED <<alive, desiredRunning, sticky>>
    BY <1>5, ElsewhereLeavesService DEF serviceVars
  <2>2. main' = "done" => OnItsWay'
    BY DEF OnItsWay
  <2>3. UNCHANGED enabled
    BY <1>5 DEF Elsewhere, User, BeginImport, PressStart, PressStop, Import, WritePending, ValidateConfig,
       DeleteBackup, SaveTarget, InstallPending, Rollback, ImportFails, ImportSucceeds,
       OnRequestPermissionsResult, ActivityRecreated, OnReceive
  <2>4. bootPending => bootPending' \/ OnItsWay'
    <3>1. CASE OnReceive
      <4>1. HasConfig
        BY <3>1 DEF OnReceive, fileVars, HasConfig
      <4>2. intents' = Append(intents, "START")
        BY <2>3, <3>1, <4>1 DEF OnReceive, ProxyEnabled, RequestStart
      <4>3. intents' # <<>>
        BY <4>2, AppendProperties DEF Types, Queues, Actions
      <4> QED BY <4>3 DEF OnItsWay
    <3>2. CASE ~OnReceive
      BY <1>5, <3>2 DEF Elsewhere, User, BeginImport, PressStart, PressStop, Import, WritePending, ValidateConfig,
         DeleteBackup, SaveTarget, InstallPending, Rollback, ImportFails, ImportSucceeds,
         OnRequestPermissionsResult, ActivityRecreated
    <3> QED BY <3>1, <3>2
  <2> QED BY <1>1, <1>2, <1>4, <1>5, <2>1, <2>2, <2>3, <2>4, ElsewhereKeepsComing
<1>6. CASE OnStartCommand
  <2>1. intents # <<>> /\ intents \in Seq(Actions)
    BY <1>6, IntentArrives
  <2>2. Head(intents) # "STOP"
    BY <1>3, <2>1, InTail
  <2> QED BY <1>6, <2>2, IntentArrives
<1>7. CASE ~Elsewhere /\ ~OnStartCommand /\ ~ProcessKilled /\ ~Reboot
  <2>1. UNCHANGED <<target, main, asked, intents, bootPending, enabled>>
    BY <1>7 DEF Next, Elsewhere, vars, RunTask, DelayedRestart, ProxyExits, NetworkChanges,
       fileVars, importVars, activityVars
  <2>2. UNCHANGED <<alive, desiredRunning, sticky>>
    <3>1. CASE RunTask
      <4>1. tasks # <<>> /\ tasks \in Seq(Actions)
        BY <3>1, TaskRuns
      <4>2. Head(tasks) # "STOP"
        BY <1>3, <4>1, InTail
      <4> QED BY <3>1, <4>2, TaskRuns
    <3>2. CASE ~RunTask
      BY <1>7, <3>2 DEF Next, Elsewhere, vars, DelayedRestart, ProxyExits, NetworkChanges, serviceVars
    <3> QED BY <3>1, <3>2
  <2>3. ~ImportSucceeds
    BY <1>7 DEF Elsewhere, Import
  <2> QED BY <1>1, <1>2, <1>4, <2>1, <2>2, <2>3 DEF OnItsWay, HasConfig
<1>8. CASE ProcessKilled
  <2>1. /\ UNCHANGED <<target, asked, bootPending, enabled>>
        /\ intents' = IF sticky /\ intents = <<>> THEN <<"START">> ELSE intents
        /\ interrupted' = (interrupted \/ ~Idle)
        /\ main' = "idle"
    BY <1>8 DEF ProcessKilled, ProcessGone, fileVars
  <2>2. main = "idle" /\ ~interrupted
    BY <2>1, Zenon DEF Undisturbed, Idle
  <2>3. ~ImportSucceeds
    BY <2>2 DEF ImportSucceeds, ImportStep
  <2>4. (sticky \/ intents # <<>>) => intents' # <<>>
    BY <2>1
  <2> QED BY <1>1, <1>2, <1>4, <2>1, <2>2, <2>3, <2>4 DEF OnItsWay
<1>9. CASE Reboot
  BY <1>9 DEF Reboot
<1> QED BY <1>5, <1>6, <1>7, <1>8, <1>9

\* Nobody is left without the proxy: a service that wants it, or a user who
\* enabled it and never stopped it, has it as soon as all is settled
\* (ServedWhenSettled), after imports, exits, network changes, kills and reboots.
THEOREM ProxyIsServed == Spec => []ServedWhenSettled
<1> DEFINE Inv == /\ Types /\ ImportSteps
                  /\ NeverStopped /\ ServiceServes /\ ServiceIsThere
<1>1. Init => Inv
  <2>1. Init => NeverStopped
    BY InNone DEF Init, NeverStopped
  <2>2. Init => ServiceServes /\ ServiceIsThere
    BY DEF Init, ServiceServes, ServiceIsThere
  <2> QED BY <2>1, <2>2, InitTypes, InitImport
<1>2. Inv /\ [Next]_vars => Inv'
  BY StepTypes, StepImportSteps, StepNeverStopped, StepServiceServes, StepServiceIsThere
<1>3. Inv => ServedWhenSettled
  BY Zenon DEF ServedWhenSettled, Settled, Idle, ServiceServes, ServiceIsThere, Undisturbed
<1> QED BY <1>1, <1>2, <1>3, PTL DEF Spec
=============================================================================

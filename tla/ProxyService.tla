---------------------------- MODULE ProxyService ----------------------------
(***************************************************************************)
(* One instance of the Android foreground service ProxyService, from       *)
(* onCreate to onDestroy, with the threads that run its code and the       *)
(* wireproxy processes it creates.                                         *)
(*                                                                         *)
(*   main thread     onStartCommand, onDestroy, and the file renames of a  *)
(*                   configuration import (MainActivity runs on it too)    *)
(*   control thread  the single thread of controlExecutor: tasks submitted *)
(*                   by the others, delayed restarts, stability checks     *)
(*   waiters         threads of ioExecutor, one per process, in waitFor()  *)
(*   connectivity    the thread of the default-network callback            *)
(*   system          wireproxy processes exit; the activity manager        *)
(*                   delivers commands and, after stopSelf(), onDestroy    *)
(*                                                                         *)
(* A thread's code is cut into steps where it reads or writes a field      *)
(* another thread shares.  Time is abstract: a delayed task runs at any    *)
(* moment after it is scheduled, and the 2 s wait for a destroyed process  *)
(* ends at any moment, with the process dead or still dying.               *)
(***************************************************************************)
EXTENDS Naturals, Sequences, FiniteSets

CONSTANTS
    MaxCommands,        \* intents delivered to onStartCommand
    MaxNetChanges,      \* network changes the callback wants a restart for
    MaxExits,           \* processes that exit without having been told to
    MaxLaunchFailures,  \* ProcessBuilder.start() calls that throw
    MaxImports,         \* configuration files replaced while the service runs
    MaxEvents           \* all of these together

ASSUME BudgetsAssumption ==
    /\ MaxCommands \in Nat
    /\ MaxNetChanges \in Nat
    /\ MaxExits \in Nat
    /\ MaxLaunchFailures \in Nat
    /\ MaxImports \in Nat
    /\ MaxEvents \in Nat

VARIABLES
    main,            \* where the main thread is
    cmd,             \* the intent action onStartCommand is handling
    desiredRunning,  \* also the stored preference: both are always set together
    destroyed,
    stopRequested,   \* stopSelf() was called: onDestroy will be delivered
    hasConfig,       \* the configuration file exists and is not empty
    process,         \* the field "process"; None when null
    generation,      \* the field "processGeneration"
    pendingRestart,  \* the future in the field, by its number; None when null
    ctl,             \* where the control thread is
    job,             \* what it is working for
    inHand,          \* startProxy's locals: the process and its generation
    queue,           \* tasks submitted to controlExecutor without a delay
    timers,          \* scheduled restarts that have neither run nor been cancelled
    stableTimers,    \* markProcessStable calls still to come
    waiters,         \* waitForProcess calls that have not returned
    shutdown,        \* both executors were shut down
    futures,         \* how many futures were created; the next is futures + 1
    failures,        \* RestartPolicy.failures, as far as nextDelayMs tells it apart
    conn,            \* where the connectivity thread is
    started,         \* processes created so far; a process is named by its number
    alive,           \* processes that have not exited
    signalled,       \* those of them that destroy() was called on
    stale,           \* those of them launched before the last network change
    spent            \* how much of each budget is used

mainVars == <<main, cmd>>
flagVars == <<desiredRunning, destroyed, stopRequested>>
procVars == <<process, generation>>
timerVars == <<pendingRestart, timers, futures>>
ctlVars == <<ctl, job, inHand>>
execVars == <<queue, stableTimers, waiters, shutdown>>
osVars == <<started, alive, signalled, stale>>
vars == <<mainVars, flagVars, procVars, timerVars, ctlVars, execVars, osVars,
          hasConfig, failures, conn, spent>>

None == 0
Commands == {"START", "RESTART", "STOP"}
Budgets == {"commands", "netChanges", "exits", "launchFailures", "imports"}
ProcRecs == [proc : Nat, gen : Nat]
Tasks == [task : {"ensure", "restart", "stop", "net", "exit"}, proc : Nat, gen : Nat]
Timers == [id : Nat, task : {"ensure", "restart"}]

\* nextDelayMs takes min(failures, 5): a count above 5 gives the delay of 5.
MaxShift == 5

Spend(budget, limit) ==
    /\ spent[budget] < limit
    /\ spent.commands + spent.netChanges + spent.exits
         + spent.launchFailures + spent.imports < MaxEvents
    /\ spent' = [spent EXCEPT ![budget] = @ + 1]

\* The processes left running: alive and not told to stop.
Serving == alive \ signalled

TypeOK ==
    /\ main \in {"idle", "submit", "replace", "cancelTest", "cancelAct",
                 "terminate", "wait", "shutdown", "done", "crashed"}
    /\ cmd \in Commands
    /\ desiredRunning \in BOOLEAN
    /\ destroyed \in BOOLEAN
    /\ stopRequested \in BOOLEAN
    /\ hasConfig \in BOOLEAN
    /\ process \in Nat
    /\ generation \in Nat
    /\ pendingRestart \in Nat
    /\ ctl \in {"idle", "start", "launch", "recheck", "publish", "attach",
                "crash", "cancel", "schedule", "terminate", "wait", "stopself"}
    /\ job \in {"none", "ensure", "restart", "stop", "net", "crash"}
    /\ inHand \in ProcRecs
    /\ queue \in Seq(Tasks)
    /\ timers \subseteq Timers
    /\ stableTimers \subseteq ProcRecs
    /\ waiters \subseteq ProcRecs
    /\ shutdown \in BOOLEAN
    /\ futures \in Nat
    /\ failures \in 0..MaxShift
    /\ conn \in {"idle", "submit"}
    /\ started \in Nat
    /\ alive \subseteq 1..started
    /\ signalled \subseteq alive
    /\ stale \subseteq alive
    /\ spent \in [Budgets -> Nat]

\* The service right after onCreate: nothing runs, the callback is registered.
Init ==
    /\ main = "idle" /\ cmd = "START"
    /\ desiredRunning = FALSE /\ destroyed = FALSE /\ stopRequested = FALSE
    /\ hasConfig = TRUE
    /\ process = None /\ generation = 0 /\ pendingRestart = None
    /\ ctl = "idle" /\ job = "none" /\ inHand = [proc |-> None, gen |-> 0]
    /\ queue = <<>> /\ timers = {} /\ stableTimers = {} /\ waiters = {}
    /\ shutdown = FALSE /\ futures = 0 /\ failures = 0
    /\ conn = "idle"
    /\ started = 0 /\ alive = {} /\ signalled = {} /\ stale = {}
    /\ spent = [b \in Budgets |-> 0]

-----------------------------------------------------------------------------
(* Helpers shared by the threads.                                          *)

\* A bug: reports only the exits of a proxy that is still wanted.
SubmitIfWanted(task, proc, gen) ==
    queue' = IF destroyed \/ shutdown \/ (task = "exit" /\ ~desiredRunning)
             THEN queue
             ELSE Append(queue, [task |-> task, proc |-> proc, gen |-> gen])

\* submitControl: a destroyed service submits nothing, and a shut-down
\* executor rejects the task, which is ignored.
SubmitControl(task, proc, gen) ==
    queue' = IF destroyed \/ shutdown
             THEN queue
             ELSE Append(queue, [task |-> task, proc |-> proc, gen |-> gen])

\* A bug: the handler trusts that the process it hears of is the current one.
IsAny(proc, gen) == process # None

\* The condition under which handleProcessExit and markProcessStable act.
IsCurrent(proc, gen) == process = proc /\ generation = gen

\* cancelPendingRestart on a thread no other thread overtakes.
CancelPendingRestart ==
    /\ timers' = {t \in timers : t.id # pendingRestart}
    /\ pendingRestart' = None

\* A bug: the field is cleared and the process forgotten.
TakeOnly ==
    /\ process' = None
    /\ generation' = generation + 1
    /\ UNCHANGED osVars

\* A bug: the method does not return when the field was null.
TakeWithoutNullTest ==
    /\ process' = None
    /\ generation' = generation + 1
    /\ signalled' = signalled \cup {process}
    /\ UNCHANGED <<started, alive, stale>>

\* terminateWireproxy up to and including running.destroy(): under the lock the
\* field is cleared and the generation advanced, then the process is signalled.
TakeAndDestroy ==
    /\ process' = None
    /\ generation' = generation + 1
    /\ signalled' = signalled \cup ({process} \cap alive)
    /\ UNCHANGED <<started, alive, stale>>

-----------------------------------------------------------------------------
(* The main thread.                                                        *)

\* onStartCommand up to submitControl: the preference and the flag are set.
OnStartCommand(c) ==
    /\ main = "idle"
    /\ Spend("commands", MaxCommands)
    /\ cmd' = c
    /\ desiredRunning' = (c # "STOP")
    /\ main' = "submit"
    /\ UNCHANGED <<destroyed, stopRequested, hasConfig, failures, conn,
                   procVars, timerVars, ctlVars, execVars, osVars>>

TaskFor(c) == CASE c = "STOP" -> "stop" [] c = "RESTART" -> "restart"
                [] OTHER -> "ensure"

SubmitCommand ==
    /\ main = "submit"
    /\ SubmitControl(TaskFor(cmd), None, 0)
    /\ main' = "idle"
    /\ UNCHANGED <<cmd, flagVars, hasConfig, failures, conn, spent, procVars,
                   timerVars, ctlVars, stableTimers, waiters, shutdown, osVars>>

\* replaceConfig: between the two renames there is no configuration file.
BeginReplace ==
    /\ main = "idle"
    /\ Spend("imports", MaxImports)
    /\ main' = "replace"
    /\ hasConfig' = FALSE
    /\ UNCHANGED <<cmd, flagVars, failures, conn, procVars, timerVars, ctlVars,
                   execVars, osVars>>

\* The new file, or after a failed rename the old one, is in place again.
EndReplace ==
    /\ main = "replace"
    /\ main' = "idle"
    /\ hasConfig' = TRUE
    /\ UNCHANGED <<cmd, flagVars, failures, conn, spent, procVars, timerVars,
                   ctlVars, execVars, osVars>>

\* onDestroy, first step: no network callback starts after this one, but one
\* that already runs goes on.
OnDestroy ==
    /\ main = "idle"
    /\ stopRequested
    /\ destroyed' = TRUE
    /\ main' = "cancelTest"
    /\ UNCHANGED <<cmd, desiredRunning, stopRequested, hasConfig, failures, conn,
                   spent, procVars, timerVars, ctlVars, execVars, osVars>>

\* cancelPendingRestart on the main thread reads the field twice, without a
\* lock, while the control thread may write it: a test ...
TestPendingRestart ==
    /\ main = "cancelTest"
    /\ main' = IF pendingRestart = None THEN "terminate" ELSE "cancelAct"
    /\ UNCHANGED <<cmd, flagVars, hasConfig, failures, conn, spent, procVars,
                   timerVars, ctlVars, execVars, osVars>>

\* ... and a use of what the field holds by then ...
CancelOnDestroy ==
    /\ main = "cancelAct"
    /\ pendingRestart # None
    /\ CancelPendingRestart
    /\ main' = "terminate"
    /\ UNCHANGED <<cmd, flagVars, hasConfig, failures, conn, spent, procVars,
                   futures, ctlVars, execVars, osVars>>

\* ... which is null when the control thread cleared the field in between.
\* The exception is not caught: the app dies, and Android kills with it the
\* processes it started.
NullPendingRestart ==
    /\ main = "cancelAct"
    /\ pendingRestart = None
    /\ main' = "crashed"
    /\ ctl' = "idle" /\ job' = "none" /\ inHand' = [proc |-> None, gen |-> 0]
    /\ process' = None
    /\ queue' = <<>> /\ timers' = {} /\ stableTimers' = {} /\ waiters' = {}
    /\ shutdown' = TRUE
    /\ conn' = "idle"
    /\ alive' = {} /\ signalled' = {} /\ stale' = {}
    /\ UNCHANGED <<cmd, flagVars, hasConfig, generation, pendingRestart, futures,
                   failures, started, spent>>

TerminateOnDestroy ==
    /\ main = "terminate"
    /\ main' = IF process = None THEN "shutdown" ELSE "wait"
    /\ TakeAndDestroy
    /\ UNCHANGED <<cmd, flagVars, hasConfig, failures, conn, spent, timerVars,
                   ctlVars, execVars>>

\* The process exited, or two seconds passed.
WaitedOnDestroy ==
    /\ main = "wait"
    /\ main' = "shutdown"
    /\ UNCHANGED <<cmd, flagVars, hasConfig, failures, conn, spent, procVars,
                   timerVars, ctlVars, execVars, osVars>>

\* shutdownNow drops what waits and interrupts the waiters, which report
\* nothing; the task the control thread is running goes on.
Shutdown ==
    /\ main = "shutdown"
    /\ main' = "done"
    /\ shutdown' = TRUE
    /\ queue' = <<>> /\ timers' = {} /\ stableTimers' = {} /\ waiters' = {}
    /\ UNCHANGED <<cmd, flagVars, hasConfig, failures, conn, spent, procVars,
                   pendingRestart, futures, ctlVars, osVars>>

\* What the main thread does once it has been given something to do.
MainCallbacks ==
    \/ SubmitCommand \/ EndReplace
    \/ OnDestroy \/ TestPendingRestart \/ CancelOnDestroy \/ NullPendingRestart
    \/ TerminateOnDestroy \/ WaitedOnDestroy \/ Shutdown

Main == MainCallbacks \/ BeginReplace \/ \E c \in Commands : OnStartCommand(c)

-----------------------------------------------------------------------------
(* The control thread.  A task is taken from the executor by RunQueued or  *)
(* RunTimer, which execute its first step; the steps that may be           *)
(* overtaken by another thread follow, each at its own value of "ctl".     *)

Finish == ctl' = "idle" /\ job' = "none" /\ inHand' = [proc |-> None, gen |-> 0]

Go(step, for) == ctl' = step /\ job' = for /\ UNCHANGED inHand

\* A bug: a restart launches the new process before it stops the old one.
AfterCancelKeepOld ==
    CASE job = "stop" -> "terminate" [] job = "restart" -> "start"
      [] OTHER -> "schedule"

AfterCancel == IF job \in {"restart", "stop"} THEN "terminate" ELSE "schedule"
AfterTerminate == IF job = "restart" THEN "start" ELSE "stopself"

\* The opening check of most operations: is the proxy still to run?
Wanted == desiredRunning /\ ~destroyed

EnsureProxyRunning ==
    /\ IF Wanted /\ process \notin alive THEN Go("start", "ensure") ELSE Finish
    /\ UNCHANGED procVars

RestartProxy ==
    /\ IF Wanted THEN Go("cancel", "restart") ELSE Finish
    /\ UNCHANGED procVars

\* The task of ACTION_STOP.
StopTask == Go("cancel", "stop") /\ UNCHANGED procVars

\* The task of scheduleNetworkRestart.
NetworkTask == Go("cancel", "net") /\ UNCHANGED procVars

\* A bug: the exit is noted, and left to the next command.
NoteProcessExit(proc, gen) ==
    /\ process' = IF IsCurrent(proc, gen) THEN None ELSE process
    /\ UNCHANGED generation
    /\ Finish

\* handleProcessExit: the exit of a process that was replaced is ignored.
HandleProcessExit(proc, gen) ==
    \/ /\ ~IsCurrent(proc, gen)
       /\ Finish
       /\ UNCHANGED procVars
    \/ /\ IsCurrent(proc, gen)
       /\ process' = None
       /\ UNCHANGED generation
       /\ IF Wanted THEN Go("crash", "crash") ELSE Finish

Execute(t) ==
    \/ t.task = "ensure" /\ EnsureProxyRunning
    \/ t.task = "restart" /\ RestartProxy
    \/ t.task = "stop" /\ StopTask
    \/ t.task = "net" /\ NetworkTask
    \/ t.task = "exit" /\ HandleProcessExit(t.proc, t.gen)

RunQueued ==
    /\ ctl = "idle"
    /\ queue # <<>>
    /\ queue' = Tail(queue)
    /\ Execute(Head(queue))
    /\ UNCHANGED <<mainVars, flagVars, hasConfig, failures, conn, spent,
                   timerVars, stableTimers, waiters, shutdown, osVars>>

RunTimer ==
    /\ ctl = "idle"
    /\ \E t \in timers :
         /\ timers' = timers \ {t}
         /\ Execute([task |-> t.task, proc |-> None, gen |-> 0])
    /\ UNCHANGED <<mainVars, flagVars, hasConfig, failures, conn, spent,
                   pendingRestart, futures, execVars, osVars>>

\* A bug: any running process passes for the one the check was meant for.
MarkWhateverRuns ==
    /\ ctl = "idle"
    /\ \E s \in stableTimers :
         /\ \A t \in stableTimers : s.gen <= t.gen
         /\ stableTimers' = stableTimers \ {s}
         /\ failures' = IF process \in alive THEN 0 ELSE failures
    /\ UNCHANGED <<mainVars, flagVars, hasConfig, conn, spent, procVars,
                   timerVars, ctlVars, queue, waiters, shutdown, osVars>>

\* markProcessStable, STABLE_PROCESS_MS after the launch: all checks have the
\* same delay, so that they come in the order of the launches.
MarkProcessStable ==
    /\ ctl = "idle"
    /\ \E s \in stableTimers :
         /\ \A t \in stableTimers : s.gen <= t.gen
         /\ stableTimers' = stableTimers \ {s}
         /\ failures' = IF IsCurrent(s.proc, s.gen) /\ s.proc \in alive
                        THEN 0 ELSE failures
    /\ UNCHANGED <<mainVars, flagVars, hasConfig, conn, spent, procVars,
                   timerVars, ctlVars, queue, waiters, shutdown, osVars>>

\* startProxy, the checks before the launch.  Without a configuration it gives
\* up and schedules nothing.
StartProxy ==
    /\ ctl = "start"
    /\ IF Wanted /\ hasConfig THEN Go("launch", job) ELSE Finish
    /\ UNCHANGED <<mainVars, flagVars, hasConfig, failures, conn, spent, procVars,
                   timerVars, execVars, osVars>>

\* startProxy, builder.start() creates the process.
Launch ==
    /\ ctl = "launch"
    /\ ctl' = "recheck"
    /\ inHand' = [proc |-> started + 1, gen |-> 0]
    /\ started' = started + 1
    /\ alive' = alive \cup {started + 1}
    /\ UNCHANGED <<mainVars, flagVars, hasConfig, failures, conn, spent, job,
                   procVars, timerVars, execVars, signalled, stale>>

\* A bug: the failed launch is only logged.
LaunchFailureLogged ==
    /\ ctl = "launch"
    /\ Spend("launchFailures", MaxLaunchFailures)
    /\ Finish
    /\ UNCHANGED <<mainVars, flagVars, hasConfig, failures, conn, procVars,
                   timerVars, execVars, osVars>>

\* startProxy, an IOException before or at builder.start().
LaunchFails ==
    /\ ctl = "launch"
    /\ Spend("launchFailures", MaxLaunchFailures)
    /\ Go("crash", "crash")
    /\ UNCHANGED <<mainVars, flagVars, hasConfig, failures, conn, procVars,
                   timerVars, execVars, osVars>>

\* startProxy, the second check: a service stopped meanwhile takes the new
\* process down again.
Recheck ==
    /\ ctl = "recheck"
    /\ \/ /\ Wanted
          /\ Go("publish", job)
          /\ UNCHANGED signalled
       \/ /\ ~Wanted
          /\ signalled' = signalled \cup ({inHand.proc} \cap alive)
          /\ Finish
    /\ UNCHANGED <<mainVars, flagVars, hasConfig, failures, conn, spent, procVars,
                   timerVars, execVars, started, alive, stale>>

\* startProxy, under the lock: the new process becomes the current one.
Publish ==
    /\ ctl = "publish"
    /\ process' = inHand.proc
    /\ generation' = generation + 1
    /\ inHand' = [inHand EXCEPT !.gen = generation + 1]
    /\ ctl' = "attach"
    /\ UNCHANGED <<mainVars, flagVars, hasConfig, failures, conn, spent, job,
                   timerVars, execVars, osVars>>

\* startProxy, the end: a thread waits for the process, and a check of its
\* stability is scheduled; executors that were shut down refuse both.
Attach ==
    /\ ctl = "attach"
    /\ Finish
    /\ \/ /\ ~shutdown
          /\ waiters' = waiters \cup {inHand}
          /\ stableTimers' = stableTimers \cup {inHand}
       \/ /\ shutdown
          /\ UNCHANGED <<waiters, stableTimers>>
    /\ UNCHANGED <<mainVars, flagVars, hasConfig, failures, conn, spent, procVars,
                   timerVars, queue, shutdown, osVars>>

\* scheduleCrashRestart, its check.
ScheduleCrashRestart ==
    /\ ctl = "crash"
    /\ IF Wanted THEN Go("cancel", "crash") ELSE Finish
    /\ UNCHANGED <<mainVars, flagVars, hasConfig, failures, conn, spent, procVars,
                   timerVars, execVars, osVars>>

NextFailures == IF failures < MaxShift THEN failures + 1 ELSE MaxShift

\* A bug: the restart that was pending stays scheduled.
ForgetWithoutCancel ==
    /\ ctl = "cancel"
    /\ pendingRestart' = None
    /\ failures' = CASE job = "crash" -> NextFailures
                     [] job = "restart" -> 0
                     [] OTHER -> failures
    /\ Go(AfterCancel, job)
    /\ UNCHANGED <<mainVars, flagVars, hasConfig, conn, spent, procVars, futures,
                   timers, execVars, osVars>>

\* The control thread's cancelPendingRestart, and the restart policy next to it:
\* scheduleCrashRestart counts a failure, restartProxy forgets them.
CancelByControl ==
    /\ ctl = "cancel"
    /\ CancelPendingRestart
    /\ failures' = CASE job = "crash" -> NextFailures
                     [] job = "restart" -> 0
                     [] OTHER -> failures
    /\ Go(AfterCancel, job)
    /\ UNCHANGED <<mainVars, flagVars, hasConfig, conn, spent, procVars, futures,
                   execVars, osVars>>

\* cancelPendingRestart when onDestroy clears the field between the test and the
\* use: the NullPointerException stays in the task, which ends there.  (The model
\* does not remember the test: the field may have been null before.)
CancelOvertaken ==
    /\ ctl = "cancel"
    /\ pendingRestart = None
    /\ main \in {"terminate", "wait", "shutdown", "done"}
    /\ Finish
    /\ UNCHANGED <<mainVars, flagVars, hasConfig, failures, conn, spent, procVars,
                   timerVars, execVars, osVars>>

\* A bug: a network change, too, only makes sure that a process runs.
DelayedEnsure == "ensure"

\* What a delayed restart will do: after a crash, start a process unless one
\* runs; after a network change, replace the one that runs.
DelayedTask == IF job = "net" THEN "restart" ELSE "ensure"

\* The assignment to pendingRestart; an executor that was shut down refuses.
ScheduleRestart ==
    /\ ctl = "schedule"
    /\ Finish
    /\ \/ /\ ~shutdown
          /\ futures' = futures + 1
          /\ timers' = timers \cup {[id |-> futures + 1, task |-> DelayedTask]}
          /\ pendingRestart' = futures + 1
       \/ shutdown /\ UNCHANGED timerVars
    /\ UNCHANGED <<mainVars, flagVars, hasConfig, failures, conn, spent, procVars,
                   execVars, osVars>>

TerminateByControl ==
    /\ ctl = "terminate"
    /\ Go(IF process = None THEN AfterTerminate ELSE "wait", job)
    /\ TakeAndDestroy
    /\ UNCHANGED <<mainVars, flagVars, hasConfig, failures, conn, spent, timerVars,
                   execVars>>

\* The process exited, two seconds passed, or the thread was interrupted.
WaitedByControl ==
    /\ ctl = "wait"
    /\ Go(AfterTerminate, job)
    /\ UNCHANGED <<mainVars, flagVars, hasConfig, failures, conn, spent, procVars,
                   timerVars, execVars, osVars>>

\* stopSelf() names no start id, so it stops the service whatever commands it
\* was given since.
StopSelf ==
    /\ ctl = "stopself"
    /\ stopRequested' = TRUE
    /\ Finish
    /\ UNCHANGED <<mainVars, desiredRunning, destroyed, hasConfig, failures, conn,
                   spent, procVars, timerVars, execVars, osVars>>

Control ==
    \/ RunQueued \/ RunTimer \/ MarkProcessStable
    \/ StartProxy \/ Launch \/ LaunchFails \/ Recheck \/ Publish \/ Attach
    \/ ScheduleCrashRestart \/ CancelByControl \/ CancelOvertaken \/ ScheduleRestart
    \/ TerminateByControl \/ WaitedByControl \/ StopSelf

-----------------------------------------------------------------------------
(* Waiters, the connectivity thread and the system.                        *)

\* waitForProcess: waitFor() returns, the exit is handed to the control thread.
WaitForProcess ==
    /\ \E w \in waiters :
         /\ w.proc \notin alive
         /\ waiters' = waiters \ {w}
         /\ SubmitControl("exit", w.proc, w.gen)
    /\ UNCHANGED <<mainVars, flagVars, hasConfig, failures, conn, spent, procVars,
                   timerVars, ctlVars, stableTimers, shutdown, osVars>>

\* A change the callback answers with scheduleNetworkRestart; its check.
NetworkChanged ==
    /\ conn = "idle"
    /\ ~destroyed
    /\ Spend("netChanges", MaxNetChanges)
    /\ stale' = alive
    /\ conn' = IF Wanted THEN "submit" ELSE "idle"
    /\ UNCHANGED <<mainVars, flagVars, hasConfig, failures, procVars, timerVars,
                   ctlVars, execVars, started, alive, signalled>>

SubmitNetworkRestart ==
    /\ conn = "submit"
    /\ conn' = "idle"
    /\ SubmitControl("net", None, 0)
    /\ UNCHANGED <<mainVars, flagVars, hasConfig, failures, spent, procVars,
                   timerVars, ctlVars, stableTimers, waiters, shutdown, osVars>>

Connectivity == NetworkChanged \/ SubmitNetworkRestart

Exit(p) ==
    /\ alive' = alive \ {p}
    /\ signalled' = signalled \ {p}
    /\ stale' = stale \ {p}
    /\ UNCHANGED <<mainVars, flagVars, hasConfig, failures, conn, procVars,
                   timerVars, ctlVars, execVars, started>>

\* wireproxy exits on its own: its port is taken, it panics, the system kills it.
ProcessExits == \E p \in Serving : Exit(p) /\ Spend("exits", MaxExits)

\* A process that was told to stop does.
SignalledExits == \E p \in signalled : Exit(p) /\ UNCHANGED spent

Next == Main \/ Control \/ WaitForProcess \/ Connectivity \/ ProcessExits \/ SignalledExits

Spec == Init /\ [][Next]_vars

(***************************************************************************)
(* Fairness.  The executors' threads, the main looper and the connectivity *)
(* thread run what they have been given, and a destroyed process dies.     *)
(* Nothing obliges the user to send a command, the network to change, or a *)
(* process to exit or fail to start.                                       *)
(***************************************************************************)
Fairness ==
    /\ WF_vars(MainCallbacks)
    /\ WF_vars(Control)
    /\ WF_vars(WaitForProcess)
    /\ WF_vars(SubmitNetworkRestart)
    /\ WF_vars(SignalledExits)

FairSpec == Spec /\ Fairness

-----------------------------------------------------------------------------
(* Safety.                                                                 *)

\* The process startProxy has created and not yet published.
InFlight == IF ctl \in {"recheck", "publish"} THEN {inHand.proc} ELSE {}

\* All wireproxy processes want the same port: two of them are never left
\* running, whatever restarts, exits and commands overlap (terminateWireproxy
\* before every start, the liveness test in ensureProxyRunning).
AtMostOneServing == \A p, q \in Serving : p = q

\* A process left running can still be stopped: it is the one in the field
\* "process", or startProxy holds it and is about to publish or destroy it.
NoStrayProxy == Serving \subseteq {process} \cup InFlight

\* Somebody will hear of the exit of the process in the field: a thread waits
\* for it with the current generation, or its exit is queued (waitForProcess,
\* handleProcessExit).
Watched ==
    \/ process = None \/ destroyed \/ ctl = "attach"
    \/ [proc |-> process, gen |-> generation] \in waiters
    \/ \E i \in DOMAIN queue :
         queue[i] = [task |-> "exit", proc |-> process, gen |-> generation]

\* No thread has anything to do at once.
Quiet == main = "idle" /\ ctl = "idle" /\ conn = "idle" /\ queue = <<>>

RestartPending == \E t \in timers : t.id = pendingRestart

\* A wanted proxy is never given up: when all threads have come to rest, a
\* watched process is there or a restart is scheduled.  An imported
\* configuration is excluded: see README.
NeverGivenUp ==
    Wanted /\ Quiet /\ spent.imports = 0 =>
        (process # None /\ Watched) \/ RestartPending

\* What is still on its way to replace the running process.
ReplacementOnItsWay ==
    \/ \E t \in timers : t.task = "restart" /\ t.id = pendingRestart
    \/ \E i \in DOMAIN queue : queue[i].task \in {"restart", "stop", "net"}
    \/ main = "submit" /\ cmd \in {"RESTART", "STOP"}
    \/ conn = "submit"
    \/ job \in {"restart", "stop", "net"} /\ ctl \in {"cancel", "schedule", "terminate"}

\* A process that was launched before the last network change keeps running
\* only while a restart for the change, or a stop, is on its way: crashes,
\* other restarts and cancellations in between never lose it.
FreshOrReplaced ==
    ~destroyed /\ process \in Serving \cap stale => ReplacementOnItsWay

\* Until the service is destroyed at most one delayed restart is scheduled, and
\* it is the one cancelPendingRestart would cancel.
OneTrackedRestart ==
    destroyed \/ \A t \in timers : t.id = pendingRestart

\* When ACTION_STOP removes the notification and calls stopSelf(), no process is
\* left running.
StoppedWhenAnnounced == ctl = "stopself" => Serving = {}

\* A crash loop is not forgiven while it turns: unless restartProxy forgets the
\* failures (for the user, or for a new network), the count falls only when no
\* process at all was launched during the last STABLE_PROCESS_MS, however many
\* stability checks of earlier processes are still to come (markProcessStable).
BackoffOutlastsLaunches ==
    [][failures' < failures => job = "restart" \/ stableTimers' = {}]_vars

\* Every process is launched for a cause of its own: a command, a network change
\* or the exit of a process nobody had told to stop.  None of them starts two,
\* whichever of its restarts are cancelled, overtaken or repeated after a launch
\* that failed, and the end of a process that was stopped or replaced starts none
\* (handleProcessExit, cancelPendingRestart, ensureProxyRunning).
OneLaunchPerCause == started <= spent.commands + spent.netChanges + spent.exits

\* The service implements the promise of SingleServer.
Single == INSTANCE SingleServer WITH live <- Serving, launched <- started
SingleSpec == Single!Spec

-----------------------------------------------------------------------------
(* The inductive invariants behind the theorems of ProxyServiceProofs.     *)

\* From the moment the control thread is done with the old process until it
\* publishes the new one, the field names no process left running.
OldProcessGone ==
    ctl \in {"wait", "stopself", "start", "launch", "recheck", "publish"} =>
        process \notin Serving

\* No thread knows of a process that has not been created.
ProcessesKnown ==
    /\ process <= started
    /\ inHand.proc <= started
    /\ \A w \in waiters : w.proc <= started
    /\ \A i \in DOMAIN queue : queue[i].proc <= started

\* An exit that is queued has happened.
ExitsHappened ==
    \A i \in DOMAIN queue : queue[i].task = "exit" => queue[i].proc \notin alive

\* Why at most one process serves.
ServingInv == NoStrayProxy /\ OldProcessGone /\ ProcessesKnown /\ ExitsHappened

\* The phases of onDestroy, and what they entail.
DestroyPhases ==
    /\ main \in {"cancelTest", "cancelAct", "terminate", "wait", "shutdown",
                 "done", "crashed"} => destroyed
    /\ shutdown => destroyed

\* What startProxy is about to watch is what it has just published.
AttachesCurrent ==
    destroyed \/ ctl # "attach" \/ inHand = [proc |-> process, gen |-> generation]

\* Why the process in the field is watched.
WatchedInv == DestroyPhases /\ AttachesCurrent /\ Watched

\* Why at most one delayed restart is scheduled: a new one is scheduled only
\* after the tracked one was cancelled.
RestartsInv ==
    /\ DestroyPhases
    /\ OneTrackedRestart
    /\ destroyed \/ ctl # "schedule" \/ timers = {}

\* Stability checks are told apart by the generations of their processes.
StableInv ==
    /\ \A s \in stableTimers : s.gen <= generation
    /\ \A s, t \in stableTimers : s.gen = t.gen => s = t
    /\ ctl = "attach" =>
          inHand.gen <= generation /\ \A s \in stableTimers : s.gen < inHand.gen

\* No process is both told to stop and in the service's hands, and only created
\* ones are waited for.
HeldUnsignalled ==
    /\ process \notin signalled
    /\ ctl \in {"recheck", "publish"} => inHand.proc \notin signalled
    /\ ctl = "attach" => inHand.proc # None
    /\ \A w \in waiters : w.proc # None
    /\ \A i \in DOMAIN queue : queue[i].task = "exit" => queue[i].proc # None

\* Causes that have not led to a launch yet, wherever they are: with a thread that
\* is to submit a task, in the queue, as a delayed restart, in the hands of the
\* control thread, or as a dead process whose exit is still to be dealt with.
One(p) == IF p THEN 1 ELSE 0
Submitting == main = "submit" /\ cmd # "STOP"
Notifying == conn = "submit"
LaunchTasks == {i \in DOMAIN queue : queue[i].task \in {"ensure", "restart", "net"}}
AtWork ==
    job # "stop" /\ ctl \in {"start", "launch", "crash", "cancel", "schedule",
                            "terminate", "wait"}
DeadInField == process # None /\ process \notin alive
DeadInHand == ctl \in {"recheck", "publish"} /\ inHand.proc \notin alive

OpenCauses ==
    One(Submitting) + One(Notifying) + Cardinality(LaunchTasks) + Cardinality(timers)
      + One(AtWork) + One(DeadInField) + One(DeadInHand)

\* Why no cause leads to two launches.
LaunchesInv ==
    /\ IsFiniteSet(timers)
    /\ started + OpenCauses <= spent.commands + spent.netChanges + spent.exits

-----------------------------------------------------------------------------
(* Liveness, under FairSpec.                                               *)

UpToDate == process \in Serving \ stale

\* The service's purpose (manifest: "Keeps a user-enabled local messenger proxy
\* available across network changes"): once the user wants the proxy for good
\* and nobody has stopped the service, a process launched after the last network
\* change serves for good, whatever exited, failed to start or changed before.
KeepsServing ==
    <>[](Wanted /\ ~stopRequested) => <>[]UpToDate

-----------------------------------------------------------------------------
(* What the application says of itself and the code does not keep.         *)

\* MainActivity tells the user that the proxy is stopped (line 183).
\* Claim: a service that was destroyed after a stop leaves nothing running.
StoppedMeansStopped ==
    main = "done" /\ ctl = "idle" /\ ~desiredRunning => Serving = {}

\* Claim: a proxy the user enabled is kept available, so its service is not
\* destroyed while the last command it was given is to run.
DestroyedOnlyWhenDisabled == main = "done" => ~desiredRunning
=============================================================================

------------------------- MODULE ProxyServiceProofs -------------------------
(***************************************************************************)
(* Theorems about ProxyService, for every value of its budgets, hence for  *)
(* any number of commands, network changes, exits and failed launches.     *)
(***************************************************************************)
EXTENDS ProxyService, TLAPS, FiniteSetTheorems

-----------------------------------------------------------------------------
(* Type correctness.                                                       *)

\* The initial state has the declared types.
LEMMA InitTypeOK == Init => TypeOK
  <1> SUFFICES ASSUME Init PROVE TypeOK
    OBVIOUS
  <1>1. spent \in [Budgets -> Nat]
    BY DEF Init
  <1>2. queue \in Seq(Tasks)
    BY DEF Init
  <1> QED
    <2>1. /\ desiredRunning \in BOOLEAN /\ destroyed \in BOOLEAN
          /\ stopRequested \in BOOLEAN /\ hasConfig \in BOOLEAN /\ shutdown \in BOOLEAN
      BY Zenon DEF Init
    <2>2. inHand \in ProcRecs /\ failures \in 0..MaxShift /\ process \in Nat /\ pendingRestart \in Nat
      BY DEF Init, None, ProcRecs, MaxShift
    <2> QED
      BY <1>1, <1>2, <2>1, <2>2 DEF Init, TypeOK, Commands

\* Spending keeps the budgets counted.
LEMMA SpendType ==
  ASSUME spent \in [Budgets -> Nat], NEW budget \in Budgets, NEW limit,
         Spend(budget, limit)
  PROVE  spent' \in [Budgets -> Nat]
  BY DEF Spend

\* submitControl keeps the queue a sequence of tasks.
LEMMA SubmitControlType ==
  ASSUME TypeOK,
         NEW task \in {"ensure", "restart", "stop", "net", "exit"},
         NEW proc \in Nat, NEW gen \in Nat,
         SubmitControl(task, proc, gen)
  PROVE  queue' \in Seq(Tasks)
  <1>1. [task |-> task, proc |-> proc, gen |-> gen] \in Tasks
    BY DEF Tasks
  <1>2. queue \in Seq(Tasks)
    BY DEF TypeOK
  <1>3. Append(queue, [task |-> task, proc |-> proc, gen |-> gen]) \in Seq(Tasks)
    BY <1>1, <1>2
  <1> QED
    BY <1>2, <1>3 DEF SubmitControl

\* The steps of the main thread keep the types.
LEMMA MainTypeOK == TypeOK /\ Main => TypeOK'
  <1> SUFFICES ASSUME TypeOK, Main PROVE TypeOK'
    OBVIOUS
  <1> USE DEF mainVars, flagVars, procVars, timerVars, ctlVars, execVars, osVars
  <1>1. CASE \E c \in Commands : OnStartCommand(c)
    <2>1. spent' \in [Budgets -> Nat]
      BY <1>1, SpendType DEF TypeOK, OnStartCommand, Budgets
    <2> QED BY <1>1, <2>1 DEF TypeOK, OnStartCommand
  <1>2. CASE SubmitCommand
    <2>1. TaskFor(cmd) \in {"ensure", "restart", "stop"}
      BY DEF TaskFor
    <2>2. queue' \in Seq(Tasks)
      BY <1>2, <2>1, SubmitControlType DEF SubmitCommand, None
    <2> QED BY <1>2, <2>2 DEF TypeOK, SubmitCommand
  <1>3. CASE BeginReplace
    <2>1. spent' \in [Budgets -> Nat]
      BY <1>3, SpendType DEF TypeOK, BeginReplace, Budgets
    <2>2. hasConfig' \in BOOLEAN
      BY <1>3, Zenon DEF BeginReplace
    <2> QED BY <1>3, <2>1, <2>2 DEF TypeOK, BeginReplace
  <1>4. CASE EndReplace
    BY <1>4 DEF TypeOK, EndReplace
  <1>5. CASE OnDestroy
    BY <1>5 DEF TypeOK, OnDestroy
  <1>6. CASE TestPendingRestart
    BY <1>6 DEF TypeOK, TestPendingRestart
  <1>7. CASE CancelOnDestroy
    BY <1>7 DEF TypeOK, CancelOnDestroy, CancelPendingRestart, None
  <1>8. CASE NullPendingRestart
    BY <1>8 DEF TypeOK, NullPendingRestart, None, ProcRecs
  <1>9. CASE TerminateOnDestroy
    BY <1>9 DEF TypeOK, TerminateOnDestroy, TakeAndDestroy, None
  <1>10. CASE WaitedOnDestroy
    BY <1>10 DEF TypeOK, WaitedOnDestroy
  <1>11. CASE Shutdown
    BY <1>11 DEF TypeOK, Shutdown
  <1> QED
    BY <1>1, <1>2, <1>3, <1>4, <1>5, <1>6, <1>7, <1>8, <1>9, <1>10, <1>11
    DEF Main, MainCallbacks

\* The first step of a task keeps what it may change well typed.
LEMMA ExecuteType ==
  ASSUME TypeOK, NEW t \in Tasks, Execute(t)
  PROVE  /\ ctl' \in {"idle", "start", "crash", "cancel"}
         /\ job' \in {"none", "ensure", "restart", "stop", "net", "crash"}
         /\ inHand' \in ProcRecs
         /\ process' \in Nat
         /\ generation' \in Nat
  BY DEF TypeOK, Tasks, Execute, EnsureProxyRunning, RestartProxy, StopTask,
         NetworkTask, HandleProcessExit, Go, Finish, None, ProcRecs, procVars

\* The steps of the control thread keep the types.
LEMMA ControlTypeOK == TypeOK /\ Control => TypeOK'
  <1> SUFFICES ASSUME TypeOK, Control PROVE TypeOK'
    OBVIOUS
  <1> USE DEF mainVars, flagVars, procVars, timerVars, ctlVars, execVars, osVars
  <1>1. CASE RunQueued
    <2>1. Head(queue) \in Tasks /\ Tail(queue) \in Seq(Tasks)
      BY <1>1 DEF TypeOK, RunQueued
    <2> QED BY <1>1, <2>1, ExecuteType DEF TypeOK, RunQueued
  <1>2. CASE RunTimer
    <2>1. PICK t \in timers :
            /\ timers' = timers \ {t}
            /\ Execute([task |-> t.task, proc |-> None, gen |-> 0])
      BY <1>2 DEF RunTimer
    <2>2. [task |-> t.task, proc |-> None, gen |-> 0] \in Tasks
      BY <2>1 DEF TypeOK, Timers, Tasks, None
    <2> QED BY <1>2, <2>1, <2>2, ExecuteType DEF TypeOK, RunTimer
  <1>3. CASE MarkProcessStable
    BY <1>3 DEF TypeOK, MarkProcessStable, MaxShift
  <1>4. CASE StartProxy
    BY <1>4 DEF TypeOK, StartProxy, Go, Finish, None, ProcRecs
  <1>5. CASE Launch
    BY <1>5 DEF TypeOK, Launch, ProcRecs
  <1>6. CASE LaunchFails
    <2>1. spent' \in [Budgets -> Nat]
      BY <1>6, SpendType DEF TypeOK, LaunchFails, Budgets
    <2> QED BY <1>6, <2>1 DEF TypeOK, LaunchFails, Go
  <1>7. CASE Recheck
    <2>1. CASE Wanted
      <3>1. UNCHANGED signalled /\ Go("publish", job)
        BY <1>7, <2>1, Zenon DEF Recheck
      <3> QED BY <1>7, <3>1 DEF TypeOK, Recheck, Go
    <2>2. CASE ~Wanted
      <3>1. signalled' \subseteq alive' /\ stale' \subseteq alive'
        BY <1>7, <2>2 DEF TypeOK, Recheck
      <3> QED BY <1>7, <2>2, <3>1, SMTT(30) DEF TypeOK, Recheck, Finish, None, ProcRecs
    <2> QED BY <2>1, <2>2
  <1>8. CASE Publish
    BY <1>8 DEF TypeOK, Publish, ProcRecs
  <1>9. CASE Attach
    BY <1>9 DEF TypeOK, Attach, Finish, None, ProcRecs
  <1>10. CASE ScheduleCrashRestart
    BY <1>10 DEF TypeOK, ScheduleCrashRestart, Go, Finish, None, ProcRecs
  <1>11. CASE CancelByControl
    BY <1>11 DEF TypeOK, CancelByControl, CancelPendingRestart, Go, AfterCancel,
                 NextFailures, MaxShift, None
  <1>12. CASE ScheduleRestart
    BY <1>12 DEF TypeOK, ScheduleRestart, DelayedTask, Timers, Finish, None, ProcRecs
  <1>13. CASE TerminateByControl
    BY <1>13 DEF TypeOK, TerminateByControl, TakeAndDestroy, Go, AfterTerminate, None
  <1>14. CASE WaitedByControl
    BY <1>14 DEF TypeOK, WaitedByControl, Go, AfterTerminate
  <1>15. CASE StopSelf
    BY <1>15 DEF TypeOK, StopSelf, Finish, None, ProcRecs
  <1>16. CASE CancelOvertaken
    BY <1>16 DEF TypeOK, CancelOvertaken, Finish, None, ProcRecs
  <1> QED
    BY <1>1, <1>2, <1>3, <1>4, <1>5, <1>6, <1>7, <1>8, <1>9, <1>10, <1>11,
       <1>12, <1>13, <1>14, <1>15, <1>16
    DEF Control

\* The steps of waiters, network callbacks and processes keep the types.
LEMMA OthersTypeOK ==
  TypeOK /\ (WaitForProcess \/ Connectivity \/ ProcessExits \/ SignalledExits) => TypeOK'
  <1> SUFFICES ASSUME TypeOK, WaitForProcess \/ Connectivity \/ ProcessExits \/ SignalledExits
               PROVE  TypeOK'
    OBVIOUS
  <1> USE DEF mainVars, flagVars, procVars, timerVars, ctlVars, execVars, osVars
  <1>1. CASE WaitForProcess
    <2>1. queue' \in Seq(Tasks)
      BY <1>1, SubmitControlType DEF TypeOK, WaitForProcess, ProcRecs
    <2> QED BY <1>1, <2>1 DEF TypeOK, WaitForProcess
  <1>2. CASE NetworkChanged
    <2>1. spent' \in [Budgets -> Nat]
      BY <1>2, SpendType DEF TypeOK, NetworkChanged, Budgets
    <2> QED BY <1>2, <2>1 DEF TypeOK, NetworkChanged
  <1>3. CASE SubmitNetworkRestart
    <2>1. queue' \in Seq(Tasks)
      BY <1>3, SubmitControlType DEF SubmitNetworkRestart, None
    <2> QED BY <1>3, <2>1 DEF TypeOK, SubmitNetworkRestart
  <1>4. CASE ProcessExits
    <2>1. PICK p \in Serving : Exit(p) /\ Spend("exits", MaxExits)
      BY <1>4 DEF ProcessExits
    <2>2. spent' \in [Budgets -> Nat]
      BY <2>1, SpendType DEF TypeOK, Budgets
    <2>3. alive' \subseteq 1..started' /\ signalled' \subseteq alive' /\ stale' \subseteq alive'
      BY <2>1 DEF TypeOK, Exit
    <2> QED BY <2>1, <2>2, <2>3, SMTT(30) DEF TypeOK, Exit
  <1>5. CASE SignalledExits
    BY <1>5 DEF TypeOK, SignalledExits, Exit
  <1> QED
    BY <1>1, <1>2, <1>3, <1>4, <1>5 DEF Connectivity

\* A step that changes nothing changes no types.
LEMMA StutterTypeOK == TypeOK /\ UNCHANGED vars => TypeOK'
  BY DEF TypeOK, vars, mainVars, flagVars, procVars, timerVars, ctlVars, execVars, osVars

\* Every reachable state of the service has the declared types; in particular
\* only created processes are alive and only living ones are signalled or stale.
THEOREM TypeCorrect == Spec => []TypeOK
  <1>1. Init => TypeOK
    BY InitTypeOK
  <1>2. TypeOK /\ [Next]_vars => TypeOK'
    BY MainTypeOK, ControlTypeOK, OthersTypeOK, StutterTypeOK DEF Next
  <1> QED
    BY <1>1, <1>2, PTL DEF Spec

-----------------------------------------------------------------------------
(* Two facts about the queue of the control executor.                      *)

\* Submitting adds the task at the end, if at all.
LEMMA Submitted ==
  ASSUME TypeOK, NEW task, NEW proc, NEW gen, SubmitControl(task, proc, gen)
  PROVE  /\ \A i \in DOMAIN queue : i \in DOMAIN queue' /\ queue'[i] = queue[i]
         /\ \A i \in DOMAIN queue' :
              \/ i \in DOMAIN queue /\ queue'[i] = queue[i]
              \/ queue'[i] = [task |-> task, proc |-> proc, gen |-> gen]
         /\ ~destroyed /\ ~shutdown =>
              \E i \in DOMAIN queue' :
                queue'[i] = [task |-> task, proc |-> proc, gen |-> gen]
  <1> DEFINE rec == [task |-> task, proc |-> proc, gen |-> gen]
  <1>1. queue \in Seq(Tasks)
    BY DEF TypeOK
  <1>2. CASE destroyed \/ shutdown
    BY <1>2 DEF SubmitControl
  <1>3. CASE ~(destroyed \/ shutdown)
    <2>1. queue' = Append(queue, rec)
      BY <1>3 DEF SubmitControl
    <2> HIDE DEF rec
    <2>2. /\ DOMAIN queue = 1..Len(queue)
          /\ DOMAIN queue' = 1..Len(queue) + 1
          /\ \A i \in 1..Len(queue) : queue'[i] = queue[i]
          /\ queue'[Len(queue) + 1] = rec
          /\ Len(queue) \in Nat
      BY <1>1, <2>1
    <2> QED
      BY <2>2 DEF rec
  <1> QED
    BY <1>2, <1>3

\* Taking the first task moves the others up by one.
LEMMA Dequeued ==
  ASSUME NEW S, NEW q \in Seq(S), q # <<>>
  PROVE  /\ 1 \in DOMAIN q /\ Head(q) = q[1]
         /\ \A i \in DOMAIN Tail(q) : i + 1 \in DOMAIN q /\ Tail(q)[i] = q[i + 1]
         /\ \A j \in DOMAIN q : j = 1 \/ (j - 1 \in DOMAIN Tail(q) /\ Tail(q)[j - 1] = q[j])
  <1>1. /\ Len(q) \in Nat \ {0} /\ DOMAIN q = 1..Len(q)
        /\ DOMAIN Tail(q) = 1..(Len(q) - 1) /\ Head(q) = q[1]
        /\ \A i \in 1..(Len(q) - 1) : Tail(q)[i] = q[i + 1]
    OBVIOUS
  <1> QED
    BY <1>1

-----------------------------------------------------------------------------
(* At most one wireproxy process is left running.                          *)

\* The state this invariant is about, left alone.
LEMMA ServingFrame ==
  ServingInv /\ UNCHANGED <<process, ctl, inHand, queue, waiters, started, alive, signalled>>
    => ServingInv'
  BY DEF ServingInv, NoStrayProxy, InFlight, OldProcessGone, ProcessesKnown,
         ExitsHappened, Serving

\* Handing a task to the control thread preserves it, if the task names a
\* created process, and an exited one when it reports an exit.
LEMMA ServingSubmit ==
  ASSUME TypeOK, ServingInv, NEW task, NEW proc \in Nat, NEW gen,
         SubmitControl(task, proc, gen),
         UNCHANGED <<process, ctl, inHand, started, alive, signalled>>,
         waiters' \subseteq waiters,
         proc <= started,
         task = "exit" => proc \notin alive
  PROVE  ServingInv'
  <1>1. NoStrayProxy' /\ OldProcessGone'
    BY DEF ServingInv, NoStrayProxy, InFlight, OldProcessGone, Serving
  <1>2. \A i \in DOMAIN queue' :
          \/ i \in DOMAIN queue /\ queue'[i] = queue[i]
          \/ queue'[i] = [task |-> task, proc |-> proc, gen |-> gen]
    BY Submitted
  <1>3. ProcessesKnown'
    BY <1>2 DEF ServingInv, ProcessesKnown
  <1>4. ExitsHappened'
    BY <1>2 DEF ServingInv, ExitsHappened
  <1> QED
    BY <1>1, <1>3, <1>4 DEF ServingInv

\* The steps of the main thread preserve it.
LEMMA ServingMain == TypeOK /\ ServingInv /\ Main => ServingInv'
  <1> SUFFICES ASSUME TypeOK, ServingInv, Main PROVE ServingInv'
    OBVIOUS
  <1> USE DEF mainVars, flagVars, procVars, timerVars, ctlVars, execVars, osVars
  <1>1. CASE \E c \in Commands : OnStartCommand(c)
    BY <1>1, ServingFrame DEF OnStartCommand
  <1>2. CASE SubmitCommand
    <2>1. TaskFor(cmd) # "exit" /\ None \in Nat /\ None <= started
      BY DEF TaskFor, None, TypeOK
    <2> QED BY <1>2, <2>1, ServingSubmit DEF SubmitCommand
  <1>3. CASE BeginReplace
    BY <1>3, ServingFrame DEF BeginReplace
  <1>4. CASE EndReplace
    BY <1>4, ServingFrame DEF EndReplace
  <1>5. CASE OnDestroy
    BY <1>5, ServingFrame DEF OnDestroy
  <1>6. CASE TestPendingRestart
    BY <1>6, ServingFrame DEF TestPendingRestart
  <1>7. CASE CancelOnDestroy
    BY <1>7, ServingFrame DEF CancelOnDestroy
  <1>8. CASE NullPendingRestart
    <2>1. started \in Nat
      BY DEF TypeOK
    <2> QED
      BY <1>8, <2>1 DEF NullPendingRestart, ServingInv, NoStrayProxy, InFlight,
           OldProcessGone, ProcessesKnown, ExitsHappened, Serving, None
  <1>9. CASE TerminateOnDestroy
    <2>1. NoStrayProxy' /\ OldProcessGone'
      BY <1>9 DEF TerminateOnDestroy, TakeAndDestroy, ServingInv, NoStrayProxy,
           InFlight, OldProcessGone, Serving, TypeOK, None
    <2>2. ProcessesKnown' /\ ExitsHappened'
      BY <1>9 DEF TerminateOnDestroy, TakeAndDestroy, ServingInv, ProcessesKnown,
           ExitsHappened, TypeOK, None
    <2> QED BY <2>1, <2>2 DEF ServingInv
  <1>10. CASE WaitedOnDestroy
    BY <1>10, ServingFrame DEF WaitedOnDestroy
  <1>11. CASE Shutdown
    BY <1>11 DEF Shutdown, ServingInv, NoStrayProxy, InFlight, OldProcessGone,
         ProcessesKnown, ExitsHappened, Serving
  <1> QED
    BY <1>1, <1>2, <1>3, <1>4, <1>5, <1>6, <1>7, <1>8, <1>9, <1>10, <1>11
    DEF Main, MainCallbacks

\* The first step of a task taken from the queue preserves it: a queued exit that
\* clears the field is the exit of a process that no longer runs.
LEMMA ServingRunQueued == TypeOK /\ ServingInv /\ RunQueued => ServingInv'
  <1> SUFFICES ASSUME TypeOK, ServingInv, RunQueued PROVE ServingInv'
    OBVIOUS
  <1> USE DEF mainVars, flagVars, procVars, timerVars, osVars
  <1> DEFINE t == Head(queue)
  <1>1. queue \in Seq(Tasks) /\ queue # <<>> /\ queue' = Tail(queue) /\ started \in Nat
    BY DEF TypeOK, RunQueued
  <1>2. /\ 1 \in DOMAIN queue /\ t = queue[1]
        /\ \A i \in DOMAIN queue' : i + 1 \in DOMAIN queue /\ queue'[i] = queue[i + 1]
    BY <1>1, Dequeued
  <1>3. Execute(t) /\ ctl = "idle" /\ UNCHANGED <<waiters, started, alive, signalled>>
    BY DEF RunQueued
  <1>4. t.task = "exit" => t.proc \notin alive
    BY <1>2 DEF ServingInv, ExitsHappened
  <1>5. /\ process' = process \/ (process' = None /\ process \notin alive)
        /\ inHand' = inHand \/ inHand'.proc = None
        /\ ctl' \in {"idle", "start", "crash", "cancel"}
        /\ ctl' = "start" => process' = process /\ process \notin alive
    BY <1>3, <1>4 DEF Execute, EnsureProxyRunning, RestartProxy, StopTask, NetworkTask,
         HandleProcessExit, IsCurrent, Go, Finish
  <1> HIDE DEF t
  <1>6. NoStrayProxy' /\ OldProcessGone'
    BY <1>3, <1>5 DEF ServingInv, NoStrayProxy, InFlight, OldProcessGone, Serving
  <1>7. ProcessesKnown'
    BY <1>1, <1>2, <1>3, <1>5 DEF ServingInv, ProcessesKnown, None
  <1>8. ExitsHappened'
    BY <1>2, <1>3 DEF ServingInv, ExitsHappened
  <1> QED
    BY <1>6, <1>7, <1>8 DEF ServingInv

\* So does the first step of a delayed restart.
LEMMA ServingRunTimer == TypeOK /\ ServingInv /\ RunTimer => ServingInv'
  <1> SUFFICES ASSUME TypeOK, ServingInv, RunTimer PROVE ServingInv'
    OBVIOUS
  <1> USE DEF mainVars, flagVars, procVars, timerVars, execVars, osVars
  <1>1. PICK t \in timers : Execute([task |-> t.task, proc |-> None, gen |-> 0])
    BY DEF RunTimer
  <1>2. t.task \in {"ensure", "restart"} /\ started \in Nat
    BY DEF TypeOK, Timers
  <1>3. /\ ctl = "idle"
        /\ UNCHANGED <<queue, waiters, started, alive, signalled>>
    BY DEF RunTimer
  <1>4. /\ UNCHANGED process
        /\ inHand' = inHand \/ inHand'.proc = None
        /\ ctl' \in {"idle", "start", "cancel"}
        /\ ctl' = "start" => process \notin alive
    BY <1>1, <1>2 DEF Execute, EnsureProxyRunning, RestartProxy, Go, Finish
  <1>5. NoStrayProxy' /\ OldProcessGone'
    BY <1>3, <1>4 DEF ServingInv, NoStrayProxy, InFlight, OldProcessGone, Serving
  <1>6. ProcessesKnown' /\ ExitsHappened'
    BY <1>2, <1>3, <1>4 DEF ServingInv, ProcessesKnown, ExitsHappened, None
  <1> QED
    BY <1>5, <1>6 DEF ServingInv

\* The steps of the control thread preserve it.
LEMMA ServingControl == TypeOK /\ ServingInv /\ Control => ServingInv'
  <1> SUFFICES ASSUME TypeOK, ServingInv, Control PROVE ServingInv'
    OBVIOUS
  <1> USE DEF mainVars, flagVars, procVars, timerVars, ctlVars, execVars, osVars
  <1>0. started \in Nat /\ None = 0
    BY DEF TypeOK, None
  <1>1. CASE RunQueued
    BY <1>1, ServingRunQueued
  <1>2. CASE RunTimer
    BY <1>2, ServingRunTimer
  <1>3. CASE MarkProcessStable
    BY <1>3, ServingFrame DEF MarkProcessStable
  <1>4. CASE StartProxy
    BY <1>0, <1>4 DEF StartProxy, Go, Finish, ServingInv, NoStrayProxy, InFlight,
         OldProcessGone, ProcessesKnown, ExitsHappened, Serving
  <1>5. CASE Launch
    \* The new process is the first that serves: OldProcessGone.
    <2>1. Serving = {}
      BY <1>5 DEF Launch, ServingInv, NoStrayProxy, InFlight, OldProcessGone
    <2>2. process # started + 1 /\ started + 1 \notin signalled
      BY <1>0 DEF ServingInv, ProcessesKnown, TypeOK
    <2>3. NoStrayProxy' /\ OldProcessGone'
      BY <1>5, <2>1, <2>2 DEF Launch, ServingInv, NoStrayProxy, InFlight,
           OldProcessGone, Serving
    <2>4. ProcessesKnown'
      <3>1. \A w \in waiters : w.proc \in Nat
        BY DEF TypeOK, ProcRecs
      <3>2. \A i \in DOMAIN queue : queue[i].proc \in Nat
        <4>1. \A i \in DOMAIN queue : queue[i] \in Tasks
          BY DEF TypeOK
        <4> QED BY <4>1 DEF Tasks
      <3>3. process \in Nat
        BY DEF TypeOK
      <3> QED
        BY <1>0, <1>5, <3>1, <3>2, <3>3 DEF Launch, ServingInv, ProcessesKnown
    <2>5. ExitsHappened'
      BY <1>0, <1>5 DEF Launch, ServingInv, ProcessesKnown, ExitsHappened
    <2> QED BY <2>3, <2>4, <2>5 DEF ServingInv
  <1>6. CASE LaunchFails
    BY <1>6 DEF LaunchFails, Go, ServingInv, NoStrayProxy, InFlight, OldProcessGone,
         ProcessesKnown, ExitsHappened, Serving
  <1>7. CASE Recheck
    <2>1. CASE Wanted
      BY <1>7, <2>1 DEF Recheck, Go, ServingInv, NoStrayProxy, InFlight,
           OldProcessGone, ProcessesKnown, ExitsHappened, Serving
    <2>2. CASE ~Wanted
      \* The unpublished process is destroyed, so that none is left.
      <3>1. signalled' = signalled \cup ({inHand.proc} \cap alive) /\ Finish
        BY <1>7, <2>2, Zenon DEF Recheck
      <3>2. Serving' \subseteq {process}
        BY <1>7, <3>1 DEF Recheck, ServingInv, NoStrayProxy, InFlight, Serving
      <3> QED
        BY <1>0, <1>7, <3>1, <3>2 DEF Recheck, Finish, ServingInv, NoStrayProxy,
             InFlight, OldProcessGone, ProcessesKnown, ExitsHappened
    <2> QED BY <2>1, <2>2
  <1>8. CASE Publish
    BY <1>8 DEF Publish, ServingInv, NoStrayProxy, InFlight, OldProcessGone,
         ProcessesKnown, ExitsHappened, Serving, TypeOK, ProcRecs
  <1>9. CASE Attach
    BY <1>0, <1>9 DEF Attach, Finish, ServingInv, NoStrayProxy, InFlight,
         OldProcessGone, ProcessesKnown, ExitsHappened, Serving
  <1>10. CASE ScheduleCrashRestart
    BY <1>0, <1>10 DEF ScheduleCrashRestart, Go, Finish, ServingInv, NoStrayProxy,
         InFlight, OldProcessGone, ProcessesKnown, ExitsHappened, Serving
  <1>11. CASE CancelByControl
    BY <1>11 DEF CancelByControl, Go, AfterCancel, ServingInv, NoStrayProxy, InFlight,
         OldProcessGone, ProcessesKnown, ExitsHappened, Serving
  <1>12. CASE ScheduleRestart
    BY <1>0, <1>12 DEF ScheduleRestart, Finish, ServingInv, NoStrayProxy, InFlight,
         OldProcessGone, ProcessesKnown, ExitsHappened, Serving
  <1>13. CASE TerminateByControl
    BY <1>0, <1>13 DEF TerminateByControl, TakeAndDestroy, Go, AfterTerminate,
         ServingInv, NoStrayProxy, InFlight, OldProcessGone, ProcessesKnown,
         ExitsHappened, Serving, TypeOK
  <1>14. CASE WaitedByControl
    BY <1>14 DEF WaitedByControl, Go, AfterTerminate, ServingInv, NoStrayProxy,
         InFlight, OldProcessGone, ProcessesKnown, ExitsHappened, Serving
  <1>15. CASE StopSelf
    BY <1>0, <1>15 DEF StopSelf, Finish, ServingInv, NoStrayProxy, InFlight,
         OldProcessGone, ProcessesKnown, ExitsHappened, Serving
  <1>16. CASE CancelOvertaken
    BY <1>0, <1>16 DEF CancelOvertaken, Finish, ServingInv, NoStrayProxy, InFlight,
         OldProcessGone, ProcessesKnown, ExitsHappened, Serving
  <1> QED
    BY <1>1, <1>2, <1>3, <1>4, <1>5, <1>6, <1>7, <1>8, <1>9, <1>10, <1>11,
       <1>12, <1>13, <1>14, <1>15, <1>16
    DEF Control

\* The steps of waiters, network callbacks and processes preserve it.
LEMMA ServingOthers ==
  TypeOK /\ ServingInv /\ (WaitForProcess \/ Connectivity \/ ProcessExits \/ SignalledExits)
    => ServingInv'
  <1> SUFFICES ASSUME TypeOK, ServingInv,
                      WaitForProcess \/ Connectivity \/ ProcessExits \/ SignalledExits
               PROVE  ServingInv'
    OBVIOUS
  <1> USE DEF mainVars, flagVars, procVars, timerVars, ctlVars, execVars, osVars
  <1>1. CASE WaitForProcess
    <2>1. PICK w \in waiters : /\ w.proc \notin alive
                               /\ waiters' = waiters \ {w}
                               /\ SubmitControl("exit", w.proc, w.gen)
      BY <1>1 DEF WaitForProcess
    <2>2. w.proc \in Nat /\ w.proc <= started
      BY <2>1 DEF TypeOK, ProcRecs, ServingInv, ProcessesKnown
    <2> QED BY <1>1, <2>1, <2>2, ServingSubmit DEF WaitForProcess
  <1>2. CASE NetworkChanged
    BY <1>2, ServingFrame DEF NetworkChanged
  <1>3. CASE SubmitNetworkRestart
    <2>1. None \in Nat /\ None <= started
      BY DEF None, TypeOK
    <2> QED BY <1>3, <2>1, ServingSubmit DEF SubmitNetworkRestart
  <1>4. ASSUME NEW p, Exit(p) PROVE ServingInv'
    BY <1>4 DEF Exit, ServingInv, NoStrayProxy, InFlight, OldProcessGone,
         ProcessesKnown, ExitsHappened, Serving
  <1> QED
    BY <1>1, <1>2, <1>3, <1>4 DEF Connectivity, ProcessExits, SignalledExits

\* The invariant holds in every reachable state.
THEOREM ServingInvariant == Spec => [](TypeOK /\ ServingInv)
  <1>1. Init => ServingInv
    BY DEF Init, ServingInv, NoStrayProxy, InFlight, OldProcessGone, ProcessesKnown,
         ExitsHappened, Serving, None
  <1>2. TypeOK /\ ServingInv /\ [Next]_vars => ServingInv'
    <2>1. TypeOK /\ ServingInv /\ UNCHANGED vars => ServingInv'
      BY ServingFrame DEF vars, procVars, ctlVars, execVars, osVars
    <2> QED
      BY <2>1, ServingMain, ServingControl, ServingOthers DEF Next
  <1> QED
    BY <1>1, <1>2, TypeCorrect, PTL DEF Spec

\* At most one wireproxy process is left running.
THEOREM MutualExclusion == Spec => []AtMostOneServing
  <1>1. TypeOK /\ ServingInv => AtMostOneServing
    BY DEF ServingInv, NoStrayProxy, InFlight, OldProcessGone, AtMostOneServing
  <1> QED
    BY <1>1, ServingInvariant, PTL

\* No process is left running that the service could not stop any more.
THEOREM NoneEscapes == Spec => []NoStrayProxy
  <1>1. ServingInv => NoStrayProxy
    BY DEF ServingInv
  <1> QED
    BY <1>1, ServingInvariant, PTL

\* When the service announces that it stopped, no process is left running.
THEOREM AnnouncedStopIsReal == Spec => []StoppedWhenAnnounced
  <1>1. TypeOK /\ ServingInv => StoppedWhenAnnounced
    BY DEF ServingInv, NoStrayProxy, InFlight, OldProcessGone, StoppedWhenAnnounced
  <1> QED
    BY <1>1, ServingInvariant, PTL

-----------------------------------------------------------------------------
(* The service implements SingleServer.                                    *)

\* What a step can do to the processes: nothing to those that serve, or the
\* creation of one while none serves, or the end of some of them.
LEMMA ServingSteps ==
  ASSUME TypeOK, ServingInv, [Next]_vars
  PROVE  \/ Serving' \subseteq Serving /\ started' = started
         \/ /\ Serving = {}
            /\ started' = started + 1
            /\ Serving' = {started + 1}
  <1> USE DEF mainVars, flagVars, procVars, timerVars, ctlVars, execVars, osVars
  <1>1. CASE UNCHANGED vars
    BY <1>1 DEF vars, Serving
  <1>2. CASE Main
    BY <1>2 DEF Main, MainCallbacks, OnStartCommand, SubmitCommand, BeginReplace,
         EndReplace, OnDestroy, TestPendingRestart, CancelOnDestroy, NullPendingRestart,
         TerminateOnDestroy, TakeAndDestroy, WaitedOnDestroy, Shutdown, Serving
  <1>3. CASE Launch
    <2>1. Serving = {}
      BY <1>3 DEF Launch, ServingInv, NoStrayProxy, InFlight, OldProcessGone
    <2>2. started + 1 \notin signalled
      BY DEF TypeOK
    <2> QED BY <1>3, <2>1, <2>2 DEF Launch, Serving
  <1>4. CASE Control /\ ~Launch
    BY <1>4 DEF Control, RunQueued, RunTimer, MarkProcessStable, StartProxy, LaunchFails,
         Recheck, Publish, Attach, ScheduleCrashRestart, CancelByControl, CancelOvertaken,
         ScheduleRestart, TerminateByControl, TakeAndDestroy, WaitedByControl, StopSelf, Serving
  <1>5. CASE WaitForProcess \/ Connectivity \/ ProcessExits \/ SignalledExits
    BY <1>5 DEF WaitForProcess, Connectivity, NetworkChanged, SubmitNetworkRestart,
         ProcessExits, SignalledExits, Exit, Serving
  <1> QED
    BY <1>1, <1>2, <1>3, <1>4, <1>5 DEF Next

\* The detailed service implements the abstract one: a launch is a Launch, the
\* death of the serving process or the order to die is a Retire, and everything
\* else is a stuttering step.
THEOREM ImplementsSingleServer == Spec => SingleSpec
  <1>1. Init => Single!Init
    BY DEF Init, Single!Init, Serving
  <1>2. TypeOK /\ ServingInv /\ [Next]_vars => [Single!Next]_(Single!vars)
    <2> SUFFICES ASSUME TypeOK, ServingInv, [Next]_vars
                 PROVE  [Single!Next]_(Single!vars)
      OBVIOUS
    <2>1. \A p, q \in Serving : p = q
      BY DEF ServingInv, NoStrayProxy, InFlight, OldProcessGone
    <2>2. CASE Serving' \subseteq Serving /\ started' = started
      <3>1. CASE Serving' = Serving
        BY <2>2, <3>1 DEF Single!vars
      <3>2. CASE Serving' # Serving
        <4>1. PICK p \in Serving : p \notin Serving'
          BY <2>2, <3>2
        <4>2. Serving' = Serving \ {p}
          BY <2>1, <2>2, <4>1
        <4> QED BY <2>2, <4>1, <4>2 DEF Single!Next, Single!Retire
      <3> QED BY <3>1, <3>2
    <2>3. CASE /\ Serving = {}
               /\ started' = started + 1
               /\ Serving' = {started + 1}
      BY <2>3 DEF Single!Next, Single!Launch
    <2> QED
      BY <2>2, <2>3, ServingSteps
  <1> QED
    BY <1>1, <1>2, ServingInvariant, PTL DEF Spec, SingleSpec, Single!Spec

-----------------------------------------------------------------------------
(* The process in the field is watched.                                    *)

\* The phases of onDestroy follow one another.
LEMMA PhasesStep == TypeOK /\ DestroyPhases /\ [Next]_vars => DestroyPhases'
  <1> SUFFICES ASSUME DestroyPhases, [Next]_vars PROVE DestroyPhases'
    OBVIOUS
  <1> USE DEF mainVars, flagVars, procVars, timerVars, ctlVars, execVars, osVars
  <1>1. CASE UNCHANGED vars
    BY <1>1 DEF vars, DestroyPhases
  <1>2. CASE Main
    BY <1>2 DEF Main, MainCallbacks, OnStartCommand, SubmitCommand, BeginReplace,
         EndReplace, OnDestroy, TestPendingRestart, CancelOnDestroy, NullPendingRestart,
         TerminateOnDestroy, WaitedOnDestroy, Shutdown, DestroyPhases
  <1>3. CASE Control
    BY <1>3 DEF Control, RunQueued, RunTimer, MarkProcessStable, StartProxy, Launch,
         LaunchFails, Recheck, Publish, Attach, ScheduleCrashRestart, CancelByControl,
         CancelOvertaken, ScheduleRestart, TerminateByControl, WaitedByControl, StopSelf,
         DestroyPhases
  <1>4. CASE WaitForProcess \/ Connectivity \/ ProcessExits \/ SignalledExits
    BY <1>4 DEF WaitForProcess, Connectivity, NetworkChanged, SubmitNetworkRestart,
         ProcessExits, SignalledExits, Exit, DestroyPhases
  <1> QED
    BY <1>1, <1>2, <1>3, <1>4 DEF Next

\* What the last two parts are about, left alone while the queue only grows.
LEMMA WatchedFrame ==
  ASSUME AttachesCurrent, Watched,
         UNCHANGED <<process, generation, ctl, inHand, waiters>>,
         destroyed => destroyed',
         \A i \in DOMAIN queue : i \in DOMAIN queue' /\ queue'[i] = queue[i]
  PROVE  AttachesCurrent' /\ Watched'
  BY DEF AttachesCurrent, Watched

\* A destroyed service watches nothing any more.
LEMMA WatchedDestroyed ==
  ASSUME destroyed' PROVE AttachesCurrent' /\ Watched'
  BY DEF AttachesCurrent, Watched

\* The steps of the main thread keep the process watched.
LEMMA WatchedMain == TypeOK /\ WatchedInv /\ Main => AttachesCurrent' /\ Watched'
  <1> SUFFICES ASSUME TypeOK, WatchedInv, Main PROVE AttachesCurrent' /\ Watched'
    OBVIOUS
  <1> USE DEF mainVars, flagVars, procVars, timerVars, ctlVars, execVars, osVars
  <1>0. AttachesCurrent /\ Watched /\ DestroyPhases
    BY DEF WatchedInv
  <1>1. CASE \E c \in Commands : OnStartCommand(c)
    BY <1>0, <1>1, WatchedFrame DEF OnStartCommand
  <1>2. CASE SubmitCommand
    <2>1. \A i \in DOMAIN queue : i \in DOMAIN queue' /\ queue'[i] = queue[i]
      BY <1>2, Submitted DEF SubmitCommand
    <2> QED BY <1>0, <1>2, <2>1, WatchedFrame DEF SubmitCommand
  <1>3. CASE BeginReplace
    BY <1>0, <1>3, WatchedFrame DEF BeginReplace
  <1>4. CASE EndReplace
    BY <1>0, <1>4, WatchedFrame DEF EndReplace
  <1>5. CASE OnDestroy
    BY <1>5, WatchedDestroyed DEF OnDestroy
  <1>6. CASE \/ TestPendingRestart \/ CancelOnDestroy \/ NullPendingRestart
             \/ TerminateOnDestroy \/ WaitedOnDestroy \/ Shutdown
    <2>1. destroyed /\ destroyed' = destroyed
      BY <1>0, <1>6 DEF DestroyPhases, TestPendingRestart, CancelOnDestroy,
           NullPendingRestart, TerminateOnDestroy, WaitedOnDestroy, Shutdown
    <2> QED BY <2>1, WatchedDestroyed
  <1> QED
    BY <1>1, <1>2, <1>3, <1>4, <1>5, <1>6 DEF Main, MainCallbacks

\* A task taken from the queue keeps the process watched: when it is the exit
\* somebody was to hear of, the field is cleared.
LEMMA WatchedRunQueued == TypeOK /\ WatchedInv /\ RunQueued => AttachesCurrent' /\ Watched'
  <1> SUFFICES ASSUME TypeOK, WatchedInv, RunQueued PROVE AttachesCurrent' /\ Watched'
    OBVIOUS
  <1> USE DEF mainVars, flagVars, procVars, timerVars, osVars
  <1> DEFINE t == Head(queue)
  <1>1. queue \in Seq(Tasks) /\ queue # <<>> /\ queue' = Tail(queue)
    BY DEF TypeOK, RunQueued
  <1>2. /\ 1 \in DOMAIN queue /\ t = queue[1]
        /\ \A j \in DOMAIN queue :
             j = 1 \/ (j - 1 \in DOMAIN queue' /\ queue'[j - 1] = queue[j])
    BY <1>1, Dequeued
  <1>3. Execute(t) /\ ctl = "idle" /\ UNCHANGED <<waiters, destroyed>>
    BY DEF RunQueued
  <1>4. /\ ctl' # "attach"
        /\ \/ UNCHANGED procVars /\ ~(t.task = "exit" /\ t.proc = process /\ t.gen = generation)
           \/ process' = None
    BY <1>3 DEF Execute, EnsureProxyRunning, RestartProxy, StopTask, NetworkTask,
         HandleProcessExit, IsCurrent, Go, Finish
  <1> HIDE DEF t
  <1>5. CASE process' = None
    BY <1>4, <1>5 DEF AttachesCurrent, Watched
  <1>6. CASE UNCHANGED procVars /\ ~(t.task = "exit" /\ t.proc = process /\ t.gen = generation)
    <2>1. t # [task |-> "exit", proc |-> process, gen |-> generation]
      BY <1>6
    <2>2. Watched
      BY DEF WatchedInv
    <2> QED BY <1>2, <1>3, <1>4, <1>6, <2>1, <2>2 DEF AttachesCurrent, Watched
  <1> QED
    BY <1>4, <1>5, <1>6

\* The steps of the control thread keep the process watched.
LEMMA WatchedControl == TypeOK /\ WatchedInv /\ Control => AttachesCurrent' /\ Watched'
  <1> SUFFICES ASSUME TypeOK, WatchedInv, Control PROVE AttachesCurrent' /\ Watched'
    OBVIOUS
  <1> USE DEF mainVars, flagVars, procVars, timerVars, ctlVars, execVars, osVars
  <1>0. AttachesCurrent /\ Watched /\ DestroyPhases
    BY DEF WatchedInv
  <1>1. CASE RunQueued
    BY <1>1, WatchedRunQueued
  <1>2. CASE RunTimer
    <2>1. PICK t \in timers : Execute([task |-> t.task, proc |-> None, gen |-> 0])
      BY <1>2 DEF RunTimer
    <2>2. t.task \in {"ensure", "restart"}
      BY DEF TypeOK, Timers
    <2>3. UNCHANGED procVars /\ ctl' # "attach" /\ ctl = "idle"
      BY <1>2, <2>1, <2>2 DEF RunTimer, Execute, EnsureProxyRunning, RestartProxy, Go, Finish
    <2> QED BY <1>0, <1>2, <2>3 DEF RunTimer, AttachesCurrent, Watched
  <1>3. CASE MarkProcessStable
    BY <1>0, <1>3, WatchedFrame DEF MarkProcessStable
  <1>4. CASE Publish
    BY <1>0, <1>4 DEF Publish, AttachesCurrent, Watched, TypeOK, ProcRecs
  <1>5. CASE Attach
    \* The waiter of the process in the field starts here.
    BY <1>0, <1>5 DEF Attach, Finish, DestroyPhases, AttachesCurrent, Watched
  <1>6. CASE TerminateByControl
    BY <1>0, <1>6 DEF TerminateByControl, TakeAndDestroy, Go, AfterTerminate,
         AttachesCurrent, Watched
  <1>7. CASE \/ StartProxy \/ Launch \/ LaunchFails \/ Recheck \/ ScheduleCrashRestart
             \/ CancelByControl \/ CancelOvertaken \/ ScheduleRestart \/ WaitedByControl
             \/ StopSelf
    <2>1. /\ UNCHANGED <<process, generation, waiters, queue, destroyed>>
          /\ ctl # "attach" /\ ctl' # "attach"
      BY <1>7 DEF StartProxy, Launch, LaunchFails, Recheck, ScheduleCrashRestart,
           CancelByControl, CancelOvertaken, ScheduleRestart, WaitedByControl, StopSelf,
           Go, Finish, AfterCancel, AfterTerminate
    <2> QED BY <1>0, <2>1 DEF AttachesCurrent, Watched
  <1> QED
    BY <1>1, <1>2, <1>3, <1>4, <1>5, <1>6, <1>7 DEF Control

\* A waiter that returns hands its exit on; the other threads leave the process
\* watched.
LEMMA WatchedOthers ==
  TypeOK /\ WatchedInv /\ (WaitForProcess \/ Connectivity \/ ProcessExits \/ SignalledExits)
    => AttachesCurrent' /\ Watched'
  <1> SUFFICES ASSUME TypeOK, WatchedInv,
                      WaitForProcess \/ Connectivity \/ ProcessExits \/ SignalledExits
               PROVE  AttachesCurrent' /\ Watched'
    OBVIOUS
  <1> USE DEF mainVars, flagVars, procVars, timerVars, ctlVars, execVars, osVars
  <1>0. AttachesCurrent /\ Watched /\ DestroyPhases
    BY DEF WatchedInv
  <1>1. CASE WaitForProcess
    <2>1. PICK w \in waiters : /\ waiters' = waiters \ {w}
                               /\ SubmitControl("exit", w.proc, w.gen)
      BY <1>1 DEF WaitForProcess
    <2>2. /\ \A i \in DOMAIN queue : i \in DOMAIN queue' /\ queue'[i] = queue[i]
          /\ ~destroyed => \E i \in DOMAIN queue' :
               queue'[i] = [task |-> "exit", proc |-> w.proc, gen |-> w.gen]
      BY <1>0, <2>1, Submitted DEF DestroyPhases
    <2>3. w = [proc |-> process, gen |-> generation] =>
            w.proc = process /\ w.gen = generation
      OBVIOUS
    <2> QED
      BY <1>0, <1>1, <2>1, <2>2, <2>3 DEF WaitForProcess, AttachesCurrent, Watched
  <1>2. CASE NetworkChanged
    BY <1>0, <1>2, WatchedFrame DEF NetworkChanged
  <1>3. CASE SubmitNetworkRestart
    <2>1. \A i \in DOMAIN queue : i \in DOMAIN queue' /\ queue'[i] = queue[i]
      BY <1>3, Submitted DEF SubmitNetworkRestart
    <2> QED BY <1>0, <1>3, <2>1, WatchedFrame DEF SubmitNetworkRestart
  <1>4. ASSUME NEW p, Exit(p) PROVE AttachesCurrent' /\ Watched'
    BY <1>0, <1>4, WatchedFrame DEF Exit
  <1> QED
    BY <1>1, <1>2, <1>3, <1>4 DEF Connectivity, ProcessExits, SignalledExits

\* Until the service is destroyed, the exit of the process in the field reaches
\* handleProcessExit.
THEOREM ExitIsHeardOf == Spec => []Watched
  <1>1. Init => WatchedInv
    BY DEF Init, WatchedInv, DestroyPhases, AttachesCurrent, Watched
  <1>2. TypeOK /\ WatchedInv /\ [Next]_vars => WatchedInv'
    <2>1. WatchedInv /\ UNCHANGED vars => AttachesCurrent' /\ Watched'
      BY WatchedFrame DEF WatchedInv, vars, procVars, ctlVars, execVars, flagVars
    <2> QED
      BY <2>1, PhasesStep, WatchedMain, WatchedControl, WatchedOthers DEF Next, WatchedInv
  <1>3. WatchedInv => Watched
    BY DEF WatchedInv
  <1> QED
    BY <1>1, <1>2, <1>3, TypeCorrect, PTL DEF Spec

-----------------------------------------------------------------------------
(* At most one delayed restart is scheduled.                               *)

\* Every step but a cancellation and a scheduling leaves the restarts alone or
\* takes some away.
LEMMA RestartsFrame ==
  ASSUME RestartsInv,
         timers' \subseteq timers, UNCHANGED pendingRestart,
         destroyed => destroyed',
         ctl' = "schedule" => ctl = "schedule" \/ destroyed',
         DestroyPhases'
  PROVE  RestartsInv'
  BY DEF RestartsInv, OneTrackedRestart

\* The invariant is preserved.
LEMMA RestartsStep == TypeOK /\ RestartsInv /\ [Next]_vars => RestartsInv'
  <1> SUFFICES ASSUME TypeOK, RestartsInv, [Next]_vars PROVE RestartsInv'
    OBVIOUS
  <1> USE DEF mainVars, flagVars, procVars, timerVars, ctlVars, execVars, osVars
  <1>0. DestroyPhases /\ DestroyPhases'
    BY PhasesStep DEF RestartsInv
  <1>1. CASE UNCHANGED vars
    BY <1>0, <1>1, RestartsFrame DEF vars
  <1>2. CASE Main
    <2>1. \/ UNCHANGED <<timers, pendingRestart, ctl>> /\ (destroyed => destroyed')
          \/ destroyed'
      BY <1>0, <1>2 DEF Main, MainCallbacks, OnStartCommand, SubmitCommand, BeginReplace,
           EndReplace, OnDestroy, TestPendingRestart, CancelOnDestroy, NullPendingRestart,
           TerminateOnDestroy, WaitedOnDestroy, Shutdown, DestroyPhases
    <2>2. destroyed' => RestartsInv'
      BY <1>0 DEF RestartsInv, OneTrackedRestart
    <2> QED BY <1>0, <2>1, <2>2, RestartsFrame
  <1>3. CASE RunTimer
    <2>1. ctl' # "schedule" /\ UNCHANGED <<pendingRestart, destroyed>> /\ timers' \subseteq timers
      BY <1>3 DEF RunTimer, Execute, EnsureProxyRunning, RestartProxy, StopTask,
           NetworkTask, HandleProcessExit, Go, Finish
    <2> QED BY <1>0, <2>1, RestartsFrame
  <1>4. CASE RunQueued
    <2>1. ctl' # "schedule" /\ UNCHANGED <<pendingRestart, destroyed, timers>>
      BY <1>4 DEF RunQueued, Execute, EnsureProxyRunning, RestartProxy, StopTask,
           NetworkTask, HandleProcessExit, Go, Finish
    <2> QED BY <1>0, <2>1, RestartsFrame
  <1>5. CASE CancelByControl
    \* Only the tracked restart was scheduled, and it is cancelled.
    BY <1>0, <1>5 DEF CancelByControl, CancelPendingRestart, RestartsInv, OneTrackedRestart
  <1>6. CASE ScheduleRestart
    <2>1. CASE shutdown
      BY <1>0, <1>6, <2>1 DEF ScheduleRestart, DestroyPhases, RestartsInv, OneTrackedRestart
    <2>2. CASE ~shutdown
      BY <1>0, <1>6, <2>2 DEF ScheduleRestart, Finish, RestartsInv, OneTrackedRestart
    <2> QED BY <2>1, <2>2
  <1>7. CASE \/ MarkProcessStable \/ StartProxy \/ Launch \/ LaunchFails \/ Recheck
             \/ Publish \/ Attach \/ ScheduleCrashRestart \/ CancelOvertaken
             \/ TerminateByControl \/ WaitedByControl \/ StopSelf
    <2>1. UNCHANGED <<timers, pendingRestart, destroyed>> /\ ctl' # "schedule"
      BY <1>7 DEF MarkProcessStable, StartProxy, Launch, LaunchFails, Recheck, Publish,
           Attach, ScheduleCrashRestart, CancelOvertaken, TerminateByControl,
           WaitedByControl, StopSelf, Go, Finish, AfterTerminate
    <2> QED BY <1>0, <2>1, RestartsFrame
  <1>8. CASE WaitForProcess \/ Connectivity \/ ProcessExits \/ SignalledExits
    <2>1. UNCHANGED <<timers, pendingRestart, destroyed, ctl>>
      BY <1>8 DEF WaitForProcess, Connectivity, NetworkChanged, SubmitNetworkRestart,
           ProcessExits, SignalledExits, Exit
    <2> QED BY <1>0, <2>1, RestartsFrame
  <1> QED
    BY <1>1, <1>2, <1>3, <1>4, <1>5, <1>6, <1>7, <1>8 DEF Next, Control

\* Crash restarts and network restarts replace each other: there is never a
\* second one, nor one that cancelPendingRestart would not find.
THEOREM RestartsNeverPileUp == Spec => []OneTrackedRestart
  <1>1. Init => RestartsInv
    BY DEF Init, RestartsInv, DestroyPhases, OneTrackedRestart
  <1>2. RestartsInv => OneTrackedRestart
    BY DEF RestartsInv
  <1> QED
    BY <1>1, <1>2, RestartsStep, TypeCorrect, PTL DEF Spec

-----------------------------------------------------------------------------
(* The backoff.                                                            *)

\* Every launch has a generation of its own, and so has its stability check.
LEMMA StableStep == TypeOK /\ StableInv /\ [Next]_vars => StableInv'
  <1> SUFFICES ASSUME TypeOK, StableInv, [Next]_vars PROVE StableInv'
    OBVIOUS
  <1> USE DEF mainVars, flagVars, procVars, timerVars, ctlVars, execVars, osVars
  <1>0. /\ generation \in Nat
        /\ \A s \in stableTimers : s.gen \in Nat
    BY DEF TypeOK, ProcRecs
  <1>1. CASE Attach
    <2>1. CASE shutdown
      BY <1>1, <2>1 DEF Attach, Finish, StableInv
    <2>2. CASE ~shutdown
      <3>1. stableTimers' = stableTimers \cup {inHand} /\ generation' = generation
        BY <1>1, <2>2 DEF Attach
      <3>2. inHand.gen <= generation /\ \A s \in stableTimers : s.gen < inHand.gen
        BY <1>1 DEF Attach, StableInv
      <3>3. inHand.gen \in Nat /\ ctl' # "attach"
        BY <1>1 DEF Attach, Finish, TypeOK, ProcRecs
      <3> QED BY <1>0, <3>1, <3>2, <3>3 DEF StableInv
    <2> QED BY <2>1, <2>2
  <1>2. CASE Publish
    BY <1>0, <1>2 DEF Publish, StableInv, TypeOK, ProcRecs
  <1>3. CASE TerminateByControl \/ TerminateOnDestroy
    <2>1. /\ generation' = generation + 1 /\ UNCHANGED <<stableTimers, inHand>>
          /\ ctl' = "attach" => ctl = "attach"
      BY <1>3 DEF TerminateByControl, TerminateOnDestroy, TakeAndDestroy, Go, AfterTerminate
    <2>2. inHand.gen \in Nat
      BY DEF TypeOK, ProcRecs
    <2> QED BY <1>0, <2>1, <2>2 DEF StableInv
  <1>4. CASE RunQueued \/ RunTimer
    <2>1. PICK t : Execute(t)
      BY <1>4 DEF RunQueued, RunTimer
    <2>2. UNCHANGED generation /\ ctl' # "attach"
      BY <2>1 DEF Execute, EnsureProxyRunning, RestartProxy, StopTask, NetworkTask,
         HandleProcessExit, Go, Finish
    <2>3. UNCHANGED stableTimers
      BY <1>4 DEF RunQueued, RunTimer
    <2> QED BY <2>2, <2>3 DEF StableInv
  <1>5. CASE \/ MarkProcessStable \/ StartProxy \/ Launch \/ LaunchFails \/ Recheck
             \/ ScheduleCrashRestart \/ CancelByControl \/ CancelOvertaken
             \/ ScheduleRestart \/ WaitedByControl \/ StopSelf
    <2>1. UNCHANGED generation /\ stableTimers' \subseteq stableTimers /\ ctl' # "attach"
      BY <1>5 DEF MarkProcessStable, StartProxy, Launch, LaunchFails, Recheck,
         ScheduleCrashRestart, CancelByControl, CancelOvertaken, ScheduleRestart,
         WaitedByControl, StopSelf, Go, Finish, AfterCancel, AfterTerminate
    <2> QED BY <2>1 DEF StableInv
  <1>6. CASE Main /\ ~TerminateOnDestroy
    <2>1. /\ UNCHANGED generation /\ stableTimers' \subseteq stableTimers
          /\ ctl' = "attach" => ctl = "attach" /\ UNCHANGED inHand
      BY <1>6 DEF Main, MainCallbacks, OnStartCommand, SubmitCommand, BeginReplace,
         EndReplace, OnDestroy, TestPendingRestart, CancelOnDestroy, NullPendingRestart,
         WaitedOnDestroy, Shutdown
    <2> QED BY <2>1 DEF StableInv
  <1>7. CASE \/ WaitForProcess \/ Connectivity \/ ProcessExits \/ SignalledExits
             \/ UNCHANGED vars
    <2>1. UNCHANGED <<generation, stableTimers, ctl, inHand>>
      BY <1>7 DEF WaitForProcess, Connectivity, NetworkChanged, SubmitNetworkRestart,
         ProcessExits, SignalledExits, Exit, vars
    <2> QED BY <2>1 DEF StableInv
  <1> QED
    BY <1>1, <1>2, <1>3, <1>4, <1>5, <1>6, <1>7 DEF Next, Control

\* The generations of stability checks grow with the launches, up to the one of
\* the field.
THEOREM StableInvariant == Spec => []StableInv
  <1>1. Init => StableInv
    BY DEF Init, StableInv
  <1> QED
    BY <1>1, StableStep, TypeCorrect, PTL DEF Spec

\* Unless restartProxy forgets the failures, their count falls only when no
\* process was launched during the last STABLE_PROCESS_MS: the check that finds
\* its own process in the field is the last one that was scheduled, and it comes
\* after all others.
THEOREM CrashLoopIsNotForgiven == Spec => BackoffOutlastsLaunches
  <1> DEFINE Outlasts == failures' < failures => job = "restart" \/ stableTimers' = {}
  <1>1. TypeOK /\ StableInv /\ [Next]_vars => [Outlasts]_vars
    <2> SUFFICES ASSUME TypeOK, StableInv, [Next]_vars PROVE Outlasts
      OBVIOUS
    <2> USE DEF mainVars, flagVars, procVars, timerVars, ctlVars, execVars, osVars
    <2>0. failures \in 0..5
      BY DEF TypeOK, MaxShift
    <2>1. CASE MarkProcessStable
      <3>1. PICK s \in stableTimers :
              /\ \A t \in stableTimers : s.gen <= t.gen
              /\ stableTimers' = stableTimers \ {s}
              /\ failures' = IF IsCurrent(s.proc, s.gen) /\ s.proc \in alive
                             THEN 0 ELSE failures
        BY <2>1 DEF MarkProcessStable
      <3>2. CASE IsCurrent(s.proc, s.gen)
        <4>1. \A t \in stableTimers : t = s
          <5> SUFFICES ASSUME NEW t \in stableTimers PROVE t = s
            OBVIOUS
          <5>1. s.gen = generation /\ s.gen <= t.gen /\ t.gen <= generation
            BY <3>1, <3>2 DEF IsCurrent, StableInv
          <5>2. generation \in Nat /\ t.gen \in Nat
            BY DEF TypeOK, ProcRecs
          <5> QED BY <5>1, <5>2 DEF StableInv
        <4> QED BY <3>1, <4>1
      <3>3. CASE ~IsCurrent(s.proc, s.gen)
        BY <2>0, <3>1, <3>3
      <3> QED BY <3>2, <3>3
    <2>2. CASE CancelByControl
      BY <2>0, <2>2 DEF CancelByControl, NextFailures, MaxShift
    <2>3. CASE Control /\ ~MarkProcessStable /\ ~CancelByControl
      BY <2>0, <2>3 DEF Control, RunQueued, RunTimer, StartProxy, Launch, LaunchFails,
           Recheck, Publish, Attach, ScheduleCrashRestart, CancelOvertaken, ScheduleRestart,
           TerminateByControl, WaitedByControl, StopSelf
    <2>4. CASE Main
      BY <2>0, <2>4 DEF Main, MainCallbacks, OnStartCommand, SubmitCommand, BeginReplace,
           EndReplace, OnDestroy, TestPendingRestart, CancelOnDestroy, NullPendingRestart,
           TerminateOnDestroy, WaitedOnDestroy, Shutdown
    <2>5. CASE \/ WaitForProcess \/ Connectivity \/ ProcessExits \/ SignalledExits
               \/ UNCHANGED vars
      BY <2>0, <2>5 DEF WaitForProcess, Connectivity, NetworkChanged, SubmitNetworkRestart,
           ProcessExits, SignalledExits, Exit, vars
    <2> QED
      BY <2>1, <2>2, <2>3, <2>4, <2>5 DEF Next
  <1> QED
    BY <1>1, StableInvariant, TypeCorrect, PTL DEF Spec, BackoffOutlastsLaunches

-----------------------------------------------------------------------------
(* What the control thread is working for.                                 *)

\* Each step of the control thread belongs to the jobs that take it.
JobPhases ==
    /\ ctl \in {"idle"} => job = "none"
    /\ ctl \in {"start", "launch", "recheck", "publish", "attach"} =>
          job \in {"ensure", "restart"}
    /\ ctl = "crash" => job = "crash"
    /\ ctl = "cancel" => job \in {"restart", "stop", "net", "crash"}
    /\ ctl = "schedule" => job \in {"net", "crash"}
    /\ ctl \in {"terminate", "wait"} => job \in {"restart", "stop"}
    /\ ctl = "stopself" => job = "stop"
    /\ ctl \in {"recheck", "publish"} => inHand.proc # None

\* The first step of a task.
LEMMA ExecuteJob ==
  ASSUME NEW t, Execute(t)
  PROVE  /\ \/ ctl' = "idle" /\ job' = "none"
            \/ ctl' = "start" /\ job' = "ensure"
            \/ ctl' = "cancel" /\ job' \in {"restart", "stop", "net"}
            \/ ctl' = "crash" /\ job' = "crash"
  BY DEF Execute, EnsureProxyRunning, RestartProxy, StopTask, NetworkTask,
         HandleProcessExit, Go, Finish

\* The jobs keep to their steps.
LEMMA JobStep == TypeOK /\ JobPhases /\ [Next]_vars => JobPhases'
  <1> SUFFICES ASSUME TypeOK, JobPhases, [Next]_vars PROVE JobPhases'
    OBVIOUS
  <1> USE DEF mainVars, flagVars, procVars, timerVars, ctlVars, execVars, osVars
  <1>1. CASE RunQueued
    BY <1>1, ExecuteJob DEF RunQueued, JobPhases
  <1>2. CASE RunTimer
    BY <1>2, ExecuteJob DEF RunTimer, JobPhases
  <1>3. CASE MarkProcessStable
    BY <1>3 DEF MarkProcessStable, JobPhases
  <1>4. CASE StartProxy \/ LaunchFails \/ Recheck
    BY <1>4 DEF StartProxy, LaunchFails, Recheck, Go, Finish, JobPhases
  <1>5. CASE Launch
    <2>1. started + 1 # None
      BY DEF TypeOK, None
    <2> QED BY <1>5, <2>1 DEF Launch, JobPhases
  <1>6. CASE \/ Publish \/ Attach \/ ScheduleCrashRestart \/ CancelOvertaken
             \/ ScheduleRestart \/ StopSelf
    BY <1>6 DEF Publish, Attach, ScheduleCrashRestart, CancelOvertaken, ScheduleRestart,
         StopSelf, Go, Finish, JobPhases
  <1>7. CASE CancelByControl \/ TerminateByControl \/ WaitedByControl
    BY <1>7 DEF CancelByControl, AfterCancel, TerminateByControl, WaitedByControl,
         AfterTerminate, Go, JobPhases
  <1>8. CASE Main
    BY <1>8 DEF Main, MainCallbacks, OnStartCommand, SubmitCommand, BeginReplace,
         EndReplace, OnDestroy, TestPendingRestart, CancelOnDestroy, NullPendingRestart,
         TerminateOnDestroy, WaitedOnDestroy, Shutdown, JobPhases
  <1>9. CASE \/ WaitForProcess \/ Connectivity \/ ProcessExits \/ SignalledExits
             \/ UNCHANGED vars
    BY <1>9 DEF WaitForProcess, Connectivity, NetworkChanged, SubmitNetworkRestart,
         ProcessExits, SignalledExits, Exit, vars, JobPhases
  <1> QED
    BY <1>1, <1>2, <1>3, <1>4, <1>5, <1>6, <1>7, <1>8, <1>9 DEF Next, Control

-----------------------------------------------------------------------------
(* A process older than the last network change is replaced.               *)

Queued(tasks) == \E i \in DOMAIN queue : queue[i].task \in tasks

\* ACTION_STOP has been received, and its task is not done with the process.
StopOnItsWay ==
    \/ main = "submit" /\ cmd = "STOP"
    \/ Queued({"stop"})
    \/ job = "stop" /\ ctl \in {"cancel", "terminate"}

\* A process nobody wants any more is about to be stopped, whether it is in the
\* field or startProxy has yet to put it there.
UnwantedIsStopped ==
    ~destroyed /\ ~desiredRunning =>
        \/ StopOnItsWay
        \/ process \notin Serving /\ ctl \notin {"launch", "recheck", "publish"}

\* A crash is dealt with when no process is left running.
CrashedIsGone == job = "crash" => process \notin Serving

\* An old process is replaced even while startProxy is still about to publish it.
OldIsReplaced == ~destroyed /\ Serving \cap stale # {} => ReplacementOnItsWay

\* Why no old process stays.
FreshInv ==
    /\ DestroyPhases /\ JobPhases
    /\ UnwantedIsStopped /\ CrashedIsGone /\ OldIsReplaced

\* A task stays queued while the queue grows ...
LEMMA QueueGrows ==
  ASSUME NEW CONSTANT tasks,
         \A i \in DOMAIN queue : i \in DOMAIN queue' /\ queue'[i] = queue[i]
  PROVE  Queued(tasks) => Queued(tasks)'
  BY DEF Queued

\* ... and until it is its turn.
LEMMA QueueMoves ==
  ASSUME TypeOK, RunQueued, NEW CONSTANT tasks
  PROVE  Queued(tasks) => Queued(tasks)' \/ Head(queue).task \in tasks
  <1>1. queue \in Seq(Tasks) /\ queue # <<>> /\ queue' = Tail(queue)
    BY DEF TypeOK, RunQueued
  <1>2. /\ Head(queue) = queue[1]
        /\ \A j \in DOMAIN queue :
             j = 1 \/ (j - 1 \in DOMAIN queue' /\ queue'[j - 1] = queue[j])
    BY <1>1, Dequeued
  <1> QED
    BY <1>2 DEF Queued

\* What is submitted to a service that was not destroyed is queued.
LEMMA SubmittedIsQueued ==
  ASSUME TypeOK, DestroyPhases, NEW task, NEW proc, NEW gen,
         SubmitControl(task, proc, gen), ~destroyed, NEW CONSTANT tasks
  PROVE  /\ Queued(tasks) => Queued(tasks)'
         /\ task \in tasks => Queued(tasks)'
  <1>1. ~shutdown
    BY DEF DestroyPhases
  <1>2. /\ \A i \in DOMAIN queue : i \in DOMAIN queue' /\ queue'[i] = queue[i]
        /\ \E i \in DOMAIN queue' : queue'[i] = [task |-> task, proc |-> proc, gen |-> gen]
    BY <1>1, Submitted
  <1> QED
    BY <1>2, QueueGrows DEF Queued

\* None is no process.
LEMMA NoneDoesNotServe == TypeOK => None \notin Serving /\ stale \subseteq alive
  BY DEF TypeOK, None, Serving

\* A process nobody wants remains about to be stopped.
LEMMA UnwantedStep ==
  TypeOK /\ ServingInv /\ FreshInv /\ [Next]_vars => UnwantedIsStopped'
  <1> SUFFICES ASSUME TypeOK, ServingInv, FreshInv, [Next]_vars PROVE UnwantedIsStopped'
    OBVIOUS
  <1> USE DEF mainVars, flagVars, procVars, timerVars, ctlVars, execVars, osVars
  <1>0. /\ UnwantedIsStopped /\ DestroyPhases /\ JobPhases /\ DestroyPhases'
        /\ None \notin Serving
    BY PhasesStep, NoneDoesNotServe DEF FreshInv
  <1>1. CASE \E c \in Commands : OnStartCommand(c)
    BY <1>1 DEF OnStartCommand, Commands, UnwantedIsStopped, StopOnItsWay
  <1>2. CASE SubmitCommand
    <2>1. CASE destroyed
      BY <1>2, <2>1 DEF SubmitCommand, UnwantedIsStopped
    <2>2. CASE ~destroyed
      <3>1. /\ Queued({"stop"}) => Queued({"stop"})'
            /\ cmd = "STOP" => Queued({"stop"})'
        <4>1. cmd = "STOP" => TaskFor(cmd) \in {"stop"}
          BY DEF TaskFor
        <4> QED BY <1>0, <1>2, <2>2, <4>1, SubmittedIsQueued DEF SubmitCommand
      <3> QED BY <1>0, <1>2, <3>1 DEF SubmitCommand, UnwantedIsStopped, StopOnItsWay, Serving
    <2> QED BY <2>1, <2>2
  <1>3. CASE BeginReplace \/ EndReplace
    BY <1>0, <1>3 DEF BeginReplace, EndReplace, UnwantedIsStopped, StopOnItsWay, Queued, Serving
  <1>4. CASE \/ OnDestroy \/ TestPendingRestart \/ CancelOnDestroy \/ NullPendingRestart
             \/ TerminateOnDestroy \/ WaitedOnDestroy \/ Shutdown \/ CancelOvertaken
    BY <1>0, <1>4 DEF OnDestroy, TestPendingRestart, CancelOnDestroy, NullPendingRestart,
       TerminateOnDestroy, WaitedOnDestroy, Shutdown, CancelOvertaken, DestroyPhases,
       UnwantedIsStopped
  <1>5. CASE RunQueued
    <2>1. /\ ctl = "idle" /\ Execute(Head(queue))
          /\ UNCHANGED <<main, cmd, desiredRunning, destroyed, alive, signalled>>
      BY <1>5 DEF RunQueued
    <2>2. /\ process' = process \/ process' = None
          /\ Head(queue).task = "stop" => job' = "stop" /\ ctl' = "cancel"
          /\ ctl' \notin {"launch", "recheck", "publish"}
      BY <2>1 DEF Execute, EnsureProxyRunning, RestartProxy, StopTask, NetworkTask,
         HandleProcessExit, Go, Finish
    <2>3. Queued({"stop"}) => Queued({"stop"})' \/ (job' = "stop" /\ ctl' = "cancel")
      BY <1>5, <2>2, QueueMoves
    <2> QED BY <1>0, <2>1, <2>2, <2>3 DEF UnwantedIsStopped, StopOnItsWay, Serving
  <1>6. CASE RunTimer
    <2>1. PICK t \in timers : Execute([task |-> t.task, proc |-> None, gen |-> 0])
      BY <1>6 DEF RunTimer
    <2>2. t.task \in {"ensure", "restart"}
      BY DEF TypeOK, Timers
    <2>3. UNCHANGED process /\ ctl' \notin {"launch", "recheck", "publish"} /\ ctl = "idle"
      BY <1>6, <2>1, <2>2 DEF RunTimer, Execute, EnsureProxyRunning, RestartProxy, Go, Finish
    <2> QED BY <1>0, <1>6, <2>3 DEF RunTimer, UnwantedIsStopped, StopOnItsWay, Queued, Serving
  <1>7. CASE StartProxy \/ LaunchFails \/ Launch
    BY <1>0, <1>7 DEF StartProxy, LaunchFails, Launch, Wanted, Go, Finish, JobPhases,
       UnwantedIsStopped, StopOnItsWay, Queued, Serving
  <1>8. CASE Recheck
    <2>1. CASE Wanted
      BY <1>8, <2>1 DEF Recheck, Wanted, UnwantedIsStopped
    <2>2. CASE ~Wanted
      <3>1. signalled' = signalled \cup ({inHand.proc} \cap alive) /\ Finish
        BY <1>8, <2>2, Zenon DEF Recheck
      <3>2. ctl = "recheck" /\ UNCHANGED <<main, cmd, desiredRunning, destroyed, queue>>
        BY <1>8 DEF Recheck
      <3> QED BY <1>0, <3>1, <3>2 DEF Finish, UnwantedIsStopped, StopOnItsWay, Queued, JobPhases
    <2> QED BY <2>1, <2>2
  <1>9. CASE Publish
    BY <1>0, <1>9 DEF Publish, JobPhases, UnwantedIsStopped, StopOnItsWay, Queued
  <1>10. CASE \/ MarkProcessStable \/ Attach \/ ScheduleCrashRestart \/ CancelByControl
              \/ ScheduleRestart \/ WaitedByControl \/ StopSelf
    <2>1. /\ UNCHANGED <<main, cmd, desiredRunning, destroyed, queue, process, alive, signalled>>
          /\ ctl' \notin {"launch", "recheck", "publish"}
          /\ job = "stop" /\ ctl \in {"cancel", "terminate"} =>
               job' = "stop" /\ ctl' \in {"cancel", "terminate"}
      BY <1>0, <1>10 DEF MarkProcessStable, Attach, ScheduleCrashRestart, CancelByControl,
         ScheduleRestart, WaitedByControl, StopSelf, Go, Finish, AfterCancel,
         AfterTerminate, JobPhases
    <2> QED BY <1>0, <2>1 DEF UnwantedIsStopped, StopOnItsWay, Queued, Serving
  <1>11. CASE TerminateByControl
    BY <1>0, <1>11 DEF TerminateByControl, TakeAndDestroy, Go, AfterTerminate,
       UnwantedIsStopped, Serving
  <1>12. CASE WaitForProcess
    <2>1. CASE destroyed
      BY <1>12, <2>1 DEF WaitForProcess, UnwantedIsStopped
    <2>2. CASE ~destroyed
      <3>1. Queued({"stop"}) => Queued({"stop"})'
        BY <1>0, <1>12, <2>2, SubmittedIsQueued DEF WaitForProcess
      <3> QED BY <1>0, <1>12, <3>1 DEF WaitForProcess, UnwantedIsStopped, StopOnItsWay, Serving
    <2> QED BY <2>1, <2>2
  <1>13. CASE SubmitNetworkRestart
    <2>1. CASE destroyed
      BY <1>13, <2>1 DEF SubmitNetworkRestart, UnwantedIsStopped
    <2>2. CASE ~destroyed
      <3>1. Queued({"stop"}) => Queued({"stop"})'
        BY <1>0, <1>13, <2>2, SubmittedIsQueued DEF SubmitNetworkRestart
      <3> QED BY <1>0, <1>13, <3>1 DEF SubmitNetworkRestart, UnwantedIsStopped, StopOnItsWay, Serving
    <2> QED BY <2>1, <2>2
  <1>14. CASE NetworkChanged \/ ProcessExits \/ SignalledExits \/ UNCHANGED vars
    BY <1>0, <1>14 DEF NetworkChanged, ProcessExits, SignalledExits, Exit, vars,
       UnwantedIsStopped, StopOnItsWay, Queued, Serving
  <1> QED
    BY <1>1, <1>2, <1>3, <1>4, <1>5, <1>6, <1>7, <1>8, <1>9, <1>10, <1>11, <1>12, <1>13,
       <1>14 DEF Next, Main, MainCallbacks, Control, Connectivity

\* No process is left running while a crash is dealt with.
LEMMA CrashedStep == TypeOK /\ ServingInv /\ FreshInv /\ [Next]_vars => CrashedIsGone'
  <1> SUFFICES ASSUME TypeOK, ServingInv, FreshInv, [Next]_vars PROVE CrashedIsGone'
    OBVIOUS
  <1> USE DEF mainVars, flagVars, procVars, timerVars, ctlVars, execVars, osVars
  <1>0. CrashedIsGone /\ JobPhases /\ None \notin Serving
    BY NoneDoesNotServe DEF FreshInv
  <1>1. CASE RunQueued
    <2>1. Execute(Head(queue)) /\ UNCHANGED <<alive, signalled>>
      BY <1>1 DEF RunQueued
    <2>2. job' = "crash" => process' = None
      BY <2>1 DEF Execute, EnsureProxyRunning, RestartProxy, StopTask, NetworkTask,
         HandleProcessExit, Go, Finish
    <2> QED BY <1>0, <2>1, <2>2 DEF CrashedIsGone, Serving
  <1>2. CASE RunTimer
    <2>1. PICK t \in timers : Execute([task |-> t.task, proc |-> None, gen |-> 0])
      BY <1>2 DEF RunTimer
    <2>2. t.task \in {"ensure", "restart"}
      BY DEF TypeOK, Timers
    <2>3. job' # "crash"
      BY <2>1, <2>2 DEF Execute, EnsureProxyRunning, RestartProxy, Go, Finish
    <2> QED BY <2>3 DEF CrashedIsGone
  <1>3. CASE LaunchFails
    BY <1>3 DEF LaunchFails, Go, ServingInv, OldProcessGone, CrashedIsGone, Serving
  <1>4. CASE \/ MarkProcessStable \/ StartProxy \/ Launch \/ Publish \/ Attach \/ Recheck
             \/ ScheduleCrashRestart \/ CancelByControl \/ CancelOvertaken
             \/ ScheduleRestart \/ WaitedByControl \/ StopSelf
    <2>1. job' = "crash" => job = "crash" /\ UNCHANGED <<process, alive, signalled>>
      BY <1>0, <1>4 DEF MarkProcessStable, StartProxy, Launch, Publish, Attach, Recheck,
         ScheduleCrashRestart, CancelByControl, CancelOvertaken, ScheduleRestart,
         WaitedByControl, StopSelf, Go, Finish, JobPhases
    <2> QED BY <1>0, <2>1 DEF CrashedIsGone, Serving
  <1>5. CASE TerminateByControl
    BY <1>0, <1>5 DEF TerminateByControl, TakeAndDestroy, CrashedIsGone, Serving
  <1>6. CASE Main
    BY <1>0, <1>6 DEF Main, MainCallbacks, OnStartCommand, SubmitCommand, BeginReplace,
       EndReplace, OnDestroy, TestPendingRestart, CancelOnDestroy, NullPendingRestart,
       TerminateOnDestroy, TakeAndDestroy, WaitedOnDestroy, Shutdown, CrashedIsGone, Serving
  <1>7. CASE \/ WaitForProcess \/ Connectivity \/ ProcessExits \/ SignalledExits
             \/ UNCHANGED vars
    BY <1>0, <1>7 DEF WaitForProcess, Connectivity, NetworkChanged, SubmitNetworkRestart,
       ProcessExits, SignalledExits, Exit, vars, CrashedIsGone, Serving
  <1> QED
    BY <1>1, <1>2, <1>3, <1>4, <1>5, <1>6, <1>7 DEF Next, Control

\* The tasks that lead to the replacement of the running process.
Replacing == {"restart", "stop", "net"}

\* ReplacementOnItsWay, with what is queued named.
LEMMA ReplacementCases ==
  ReplacementOnItsWay <=>
    \/ \E t \in timers : t.task = "restart" /\ t.id = pendingRestart
    \/ Queued(Replacing)
    \/ main = "submit" /\ cmd \in {"RESTART", "STOP"}
    \/ conn = "submit"
    \/ job \in {"restart", "stop", "net"} /\ ctl \in {"cancel", "schedule", "terminate"}
  BY DEF ReplacementOnItsWay, Queued, Replacing

\* A stop on its way replaces the process, too.
LEMMA StopReplaces == StopOnItsWay => ReplacementOnItsWay
  BY DEF StopOnItsWay, Queued, ReplacementOnItsWay

\* While nobody wants the proxy, what serves is on its way to be stopped.
LEMMA UnwantedReplaced ==
  ASSUME ServingInv, FreshInv, ~destroyed, ~desiredRunning, Serving # {}
  PROVE  StopOnItsWay
  BY DEF ServingInv, NoStrayProxy, InFlight, FreshInv, UnwantedIsStopped

\* Where the control thread is when no process is left running.
LEMMA NoneServes ==
  ASSUME TypeOK, ServingInv, FreshInv,
         ctl \in {"wait", "stopself", "start", "launch"} \/ job = "crash"
  PROVE  Serving = {}
  BY DEF ServingInv, NoStrayProxy, InFlight, OldProcessGone, FreshInv, CrashedIsGone, JobPhases

\* The steps that take nothing back of what is on its way.
LEMMA OldFrame ==
  ASSUME OldIsReplaced, destroyed => destroyed',
         Serving' \cap stale' \subseteq Serving \cap stale,
         UNCHANGED <<conn, timers, pendingRestart>>,
         main' = main \/ main # "submit", cmd' = cmd,
         Queued(Replacing) => Queued(Replacing)',
         job \in {"restart", "stop", "net"} /\ ctl \in {"cancel", "schedule", "terminate"} =>
            UNCHANGED <<job, ctl>>
  PROVE  OldIsReplaced'
  <1>1. SUFFICES ASSUME ~destroyed', Serving' \cap stale' # {} PROVE ReplacementOnItsWay'
    BY DEF OldIsReplaced
  <1>2. ReplacementOnItsWay
    BY <1>1 DEF OldIsReplaced
  <1>3. \/ \E t \in timers' : t.task = "restart" /\ t.id = pendingRestart'
        \/ Queued(Replacing)'
        \/ main' = "submit" /\ cmd' \in {"RESTART", "STOP"}
        \/ conn' = "submit"
        \/ job' \in {"restart", "stop", "net"} /\ ctl' \in {"cancel", "schedule", "terminate"}
    BY <1>2, ReplacementCases
  <1> QED BY <1>3 DEF ReplacementOnItsWay, Queued, Replacing

\* The main thread never loses what is on its way.
LEMMA OldMain == TypeOK /\ ServingInv /\ FreshInv /\ Main => OldIsReplaced'
  <1> SUFFICES ASSUME TypeOK, ServingInv, FreshInv, Main PROVE OldIsReplaced'
    OBVIOUS
  <1> USE DEF mainVars, flagVars, procVars, timerVars, ctlVars, execVars, osVars
  <1>0. OldIsReplaced /\ DestroyPhases
    BY DEF FreshInv
  <1>1. CASE \E c \in Commands : OnStartCommand(c)
    <2>1. /\ UNCHANGED <<destroyed, alive, signalled, stale, timers, pendingRestart, queue,
                         job, ctl, conn>>
          /\ main = "idle"
      BY <1>1 DEF OnStartCommand
    <2> QED BY <1>0, <2>1 DEF OldIsReplaced, ReplacementOnItsWay, Serving
  <1>2. CASE SubmitCommand
    <2>1. CASE destroyed
      BY <1>2, <2>1 DEF SubmitCommand, OldIsReplaced
    <2>2. CASE ~destroyed
      <3>1. /\ Queued(Replacing) => Queued(Replacing)'
            /\ cmd \in {"RESTART", "STOP"} => Queued(Replacing)'
        <4>1. cmd \in {"RESTART", "STOP"} => TaskFor(cmd) \in Replacing
          BY DEF TaskFor, Replacing
        <4> QED BY <1>0, <1>2, <2>2, <4>1, SubmittedIsQueued DEF SubmitCommand, Replacing
      <3>2. UNCHANGED <<destroyed, alive, signalled, stale, timers, pendingRestart, job, ctl, conn>>
        BY <1>2 DEF SubmitCommand
      <3>3. Queued(Replacing)' => ReplacementOnItsWay'
        BY DEF ReplacementOnItsWay, Queued, Replacing
      <3>4. ReplacementOnItsWay => ReplacementOnItsWay'
        <4>1. CASE Queued(Replacing) \/ (main = "submit" /\ cmd \in {"RESTART", "STOP"})
          BY <3>1, <3>3, <4>1
        <4>2. CASE ~(Queued(Replacing) \/ (main = "submit" /\ cmd \in {"RESTART", "STOP"}))
          BY <3>2, <4>2, ReplacementCases DEF ReplacementOnItsWay
        <4> QED BY <4>1, <4>2
      <3> QED BY <1>0, <3>2, <3>4 DEF OldIsReplaced, Serving
    <2> QED BY <2>1, <2>2
  <1>3. CASE BeginReplace \/ EndReplace
    <2>1. /\ UNCHANGED <<destroyed, alive, signalled, stale, timers, pendingRestart, queue,
                         job, ctl, conn, cmd>>
          /\ main # "submit"
      BY <1>3 DEF BeginReplace, EndReplace
    <2> QED BY <1>0, <2>1 DEF OldIsReplaced, ReplacementOnItsWay, Serving
  <1>4. CASE \/ OnDestroy \/ TestPendingRestart \/ CancelOnDestroy \/ NullPendingRestart
             \/ TerminateOnDestroy \/ WaitedOnDestroy \/ Shutdown
    BY <1>0, <1>4 DEF OnDestroy, TestPendingRestart, CancelOnDestroy, NullPendingRestart,
       TerminateOnDestroy, WaitedOnDestroy, Shutdown, DestroyPhases, OldIsReplaced
  <1> QED
    BY <1>1, <1>2, <1>3, <1>4 DEF Main, MainCallbacks

\* Nor does a task the control thread takes on: one that was to replace the
\* process goes on to do it, unless the proxy is no longer wanted; a stop is
\* then on its way.
LEMMA OldTask ==
  ASSUME TypeOK, ServingInv, FreshInv, UnwantedIsStopped', NEW t \in Tasks, Execute(t), ctl = "idle",
         UNCHANGED <<main, cmd, conn, desiredRunning, destroyed, pendingRestart,
                     started, alive, signalled, stale>>,
         Queued(Replacing) => Queued(Replacing)' \/ t.task \in Replacing,
         \A u \in timers : u \in timers' \/ u.task = t.task
  PROVE  OldIsReplaced'
  <1>0. OldIsReplaced
    BY DEF FreshInv
  <1>1. SUFFICES ASSUME ~destroyed, Serving \cap stale # {}
                 PROVE  ReplacementOnItsWay'
    BY DEF OldIsReplaced, Serving
  <1>2. CASE t.task \in Replacing /\ (t.task = "restart" => Wanted)
    <2>1. ctl' = "cancel" /\ job' \in {"restart", "stop", "net"}
      BY <1>2 DEF Replacing, Execute, EnsureProxyRunning, RestartProxy, StopTask,
         NetworkTask, HandleProcessExit, Go, Finish
    <2> QED BY <2>1 DEF ReplacementOnItsWay
  <1>3. CASE t.task = "restart" /\ ~Wanted
    <2>1. ~desiredRunning'
      BY <1>1, <1>3 DEF Wanted
    <2>2. process' = process /\ Serving' = Serving
      BY <1>3 DEF Execute, EnsureProxyRunning, RestartProxy, StopTask, NetworkTask,
         HandleProcessExit, Serving, procVars
    <2>3. process \in Serving
      BY <1>1 DEF ServingInv, NoStrayProxy, InFlight
    <2>4. StopOnItsWay'
      BY <1>1, <2>1, <2>2, <2>3 DEF UnwantedIsStopped
    <2> QED BY <2>4 DEF StopOnItsWay, Queued, ReplacementOnItsWay
  <1>4. CASE t.task \notin Replacing
    <2>1. ReplacementOnItsWay
      BY <1>0, <1>1 DEF OldIsReplaced
    <2>2. \/ \E u \in timers : u.task = "restart" /\ u.id = pendingRestart
          \/ Queued(Replacing)
          \/ main = "submit" /\ cmd \in {"RESTART", "STOP"}
          \/ conn = "submit"
      BY <2>1, ReplacementCases
    <2>3. t.task # "restart"
      BY <1>4 DEF Replacing
    <2>4. CASE Queued(Replacing)
      BY <1>4, <2>4 DEF Queued, Replacing, ReplacementOnItsWay
    <2>5. CASE ~Queued(Replacing)
      BY <2>2, <2>3, <2>5 DEF ReplacementOnItsWay
    <2> QED BY <2>4, <2>5
  <1> QED
    BY <1>2, <1>3, <1>4

\* The control thread does not lose it.
LEMMA OldControl == TypeOK /\ ServingInv /\ FreshInv /\ UnwantedIsStopped' /\ Control => OldIsReplaced'
  <1> SUFFICES ASSUME TypeOK, ServingInv, FreshInv, UnwantedIsStopped', Control
               PROVE  OldIsReplaced'
    OBVIOUS
  <1> USE DEF mainVars, flagVars, procVars, timerVars, ctlVars, execVars, osVars
  <1>0. OldIsReplaced /\ DestroyPhases /\ JobPhases /\ stale \subseteq alive
    BY NoneDoesNotServe DEF FreshInv
  <1>1. CASE RunQueued
    <2>1. Head(queue) \in Tasks
      BY <1>1 DEF TypeOK, RunQueued
    <2>2. Queued(Replacing) => Queued(Replacing)' \/ Head(queue).task \in Replacing
      BY <1>1, QueueMoves DEF Replacing
    <2> QED BY <1>1, <2>1, <2>2, OldTask DEF RunQueued
  <1>2. CASE RunTimer
    <2>1. PICK u \in timers :
            /\ timers' = timers \ {u}
            /\ Execute([task |-> u.task, proc |-> None, gen |-> 0])
      BY <1>2 DEF RunTimer
    <2> DEFINE t == [task |-> u.task, proc |-> None, gen |-> 0]
    <2>2. t \in Tasks /\ t.task = u.task
      BY DEF TypeOK, Timers, Tasks, None
    <2>3. Execute(t) /\ \A v \in timers : v \in timers' \/ v.task = t.task
      BY <2>1
    <2> HIDE DEF t
    <2>4. Queued(Replacing) => Queued(Replacing)'
      BY <1>2 DEF RunTimer, Queued
    <2> QED BY <1>2, <2>2, <2>3, <2>4, OldTask DEF RunTimer
  <1>3. CASE \/ MarkProcessStable \/ Publish \/ Attach \/ ScheduleCrashRestart
    <2>1. /\ UNCHANGED <<destroyed, alive, signalled, stale, timers, pendingRestart, queue,
                         main, cmd, conn>>
          /\ job \in {"restart", "stop", "net"} /\ ctl \in {"cancel", "schedule", "terminate"} =>
                UNCHANGED <<job, ctl>>
      BY <1>3 DEF MarkProcessStable, Publish, Attach, ScheduleCrashRestart
    <2>2. /\ Serving' = Serving
          /\ Queued(Replacing) => Queued(Replacing)'
      BY <2>1 DEF Serving, Queued
    <2> QED BY <1>0, <2>1, <2>2, OldFrame
  <1>4. CASE \/ StartProxy \/ LaunchFails \/ WaitedByControl \/ StopSelf
             \/ (ScheduleRestart /\ job = "crash") \/ (CancelByControl /\ job = "crash")
    <2>1. Serving = {}
      BY <1>4, NoneServes DEF StartProxy, LaunchFails, WaitedByControl, StopSelf
    <2>2. Serving' = Serving
      BY <1>4 DEF StartProxy, LaunchFails, WaitedByControl, StopSelf, ScheduleRestart,
         CancelByControl, Serving
    <2> QED BY <2>1, <2>2 DEF OldIsReplaced
  <1>5. CASE Launch
    <2>1. Serving = {}
      BY <1>5, NoneServes DEF Launch
    <2>2. started + 1 \notin stale
      BY DEF TypeOK
    <2> QED BY <1>5, <2>1, <2>2 DEF Launch, Serving, OldIsReplaced
  <1>6. CASE Recheck
    <2>1. Serving' \subseteq Serving
      BY <1>6 DEF Recheck, Serving
    <2>2. /\ UNCHANGED <<destroyed, stale, timers, pendingRestart, queue, main, cmd, conn>>
          /\ ctl = "recheck"
      BY <1>6 DEF Recheck
    <2>3. Queued(Replacing) => Queued(Replacing)'
      BY <2>2 DEF Queued
    <2> QED BY <1>0, <2>1, <2>2, <2>3, OldFrame
  <1>7. CASE CancelByControl /\ job # "crash"
    BY <1>0, <1>7 DEF CancelByControl, Go, AfterCancel, JobPhases, OldIsReplaced,
       ReplacementOnItsWay
  <1>8. CASE ScheduleRestart /\ job # "crash"
    <2>1. job = "net"
      BY <1>0, <1>8 DEF ScheduleRestart, JobPhases
    <2>2. CASE shutdown
      BY <1>0, <1>8, <2>2 DEF ScheduleRestart, DestroyPhases, OldIsReplaced
    <2>3. CASE ~shutdown
      <3>1. \E t \in timers' : t.task = "restart" /\ t.id = pendingRestart'
        <4>1. /\ timers' = timers \cup {[id |-> futures + 1, task |-> DelayedTask]}
              /\ pendingRestart' = futures + 1
          BY <1>8, <2>3 DEF ScheduleRestart
        <4>2. DelayedTask = "restart"
          BY <2>1 DEF DelayedTask
        <4> DEFINE new == [id |-> futures + 1, task |-> "restart"]
        <4>3. new \in timers' /\ new.id = pendingRestart' /\ new.task = "restart"
          BY <4>1, <4>2
        <4> HIDE DEF new
        <4> QED BY <4>3
      <3> QED BY <3>1 DEF OldIsReplaced, ReplacementOnItsWay
    <2> QED BY <2>2, <2>3
  <1>9. CASE TerminateByControl
    <2>1. Serving' = {}
      BY <1>9 DEF TerminateByControl, TakeAndDestroy, ServingInv, NoStrayProxy, InFlight, Serving
    <2> QED BY <2>1 DEF OldIsReplaced
  <1>10. CASE CancelOvertaken
    BY <1>0, <1>10 DEF CancelOvertaken, DestroyPhases, OldIsReplaced
  <1> QED
    BY <1>1, <1>2, <1>3, <1>4, <1>5, <1>6, <1>7, <1>8, <1>9, <1>10 DEF Control

\* Nor do the others; a network change puts the replacement on its way.
LEMMA OldOthers ==
  TypeOK /\ ServingInv /\ FreshInv
    /\ (WaitForProcess \/ Connectivity \/ ProcessExits \/ SignalledExits \/ UNCHANGED vars)
    => OldIsReplaced'
  <1> SUFFICES ASSUME TypeOK, ServingInv, FreshInv,
                      \/ WaitForProcess \/ Connectivity \/ ProcessExits \/ SignalledExits
                      \/ UNCHANGED vars
               PROVE  OldIsReplaced'
    OBVIOUS
  <1> USE DEF mainVars, flagVars, procVars, timerVars, ctlVars, execVars, osVars
  <1>0. OldIsReplaced /\ DestroyPhases
    BY DEF FreshInv
  <1>1. CASE WaitForProcess
    <2>1. CASE destroyed
      BY <1>1, <2>1 DEF WaitForProcess, OldIsReplaced
    <2>2. CASE ~destroyed
      <3>1. Queued(Replacing) => Queued(Replacing)'
        BY <1>0, <1>1, <2>2, SubmittedIsQueued DEF WaitForProcess, Replacing
      <3>2. UNCHANGED <<destroyed, conn, timers, pendingRestart, main, cmd, job, ctl,
                        alive, signalled, stale>>
        BY <1>1 DEF WaitForProcess
      <3> QED BY <1>0, <3>1, <3>2, OldFrame DEF Serving
    <2> QED BY <2>1, <2>2
  <1>2. CASE NetworkChanged
    <2>1. /\ UNCHANGED <<destroyed, desiredRunning, alive, signalled, main, cmd, queue, job, ctl>>
          /\ ~destroyed /\ (Wanted => conn' = "submit")
      BY <1>2 DEF NetworkChanged
    <2>2. CASE Wanted
      BY <2>1, <2>2 DEF OldIsReplaced, ReplacementOnItsWay
    <2>3. CASE ~Wanted
      <3>1. Serving # {} => StopOnItsWay
        BY <2>1, <2>3, UnwantedReplaced DEF Wanted
      <3>2. StopOnItsWay => ReplacementOnItsWay'
        BY <2>1 DEF StopOnItsWay, Queued, ReplacementOnItsWay
      <3> QED BY <2>1, <3>1, <3>2 DEF OldIsReplaced, Serving
    <2> QED BY <2>2, <2>3
  <1>3. CASE SubmitNetworkRestart
    <2>1. CASE destroyed
      BY <1>3, <2>1 DEF SubmitNetworkRestart, OldIsReplaced
    <2>2. CASE ~destroyed
      <3>1. Queued({"net"})'
        BY <1>0, <1>3, <2>2, SubmittedIsQueued DEF SubmitNetworkRestart
      <3> QED BY <3>1 DEF Queued, OldIsReplaced, ReplacementOnItsWay
    <2> QED BY <2>1, <2>2
  <1>4. CASE ProcessExits \/ SignalledExits \/ UNCHANGED vars
    <2>1. /\ UNCHANGED <<destroyed, conn, timers, pendingRestart, main, cmd, job, ctl, queue>>
          /\ Serving' \cap stale' \subseteq Serving \cap stale
      BY <1>4 DEF ProcessExits, SignalledExits, Exit, vars, Serving
    <2>2. Queued(Replacing) => Queued(Replacing)'
      BY <2>1 DEF Queued
    <2> QED BY <1>0, <2>1, <2>2, OldFrame
  <1> QED
    BY <1>1, <1>2, <1>3, <1>4 DEF Connectivity

\* A process launched before the last network change is left running only while
\* its replacement, or its end, is on its way.
THEOREM OldProcessesAreReplaced == Spec => []FreshOrReplaced
  <1>1. Init => FreshInv
    BY DEF Init, FreshInv, DestroyPhases, JobPhases, UnwantedIsStopped, CrashedIsGone,
       OldIsReplaced, Serving, None
  <1>2. TypeOK /\ ServingInv /\ FreshInv /\ [Next]_vars => FreshInv'
    <2> SUFFICES ASSUME TypeOK, ServingInv, FreshInv, [Next]_vars PROVE FreshInv'
      OBVIOUS
    <2>1. DestroyPhases' /\ JobPhases' /\ UnwantedIsStopped' /\ CrashedIsGone'
      BY PhasesStep, JobStep, UnwantedStep, CrashedStep DEF FreshInv
    <2>2. OldIsReplaced'
      BY <2>1, OldMain, OldControl, OldOthers DEF Next
    <2> QED BY <2>1, <2>2 DEF FreshInv
  <1>3. FreshInv => FreshOrReplaced
    BY DEF FreshInv, OldIsReplaced, FreshOrReplaced
  <1> QED
    BY <1>1, <1>2, <1>3, ServingInvariant, PTL DEF Spec

-----------------------------------------------------------------------------
(* A wanted proxy is never given up.                                       *)

\* A command to run the proxy is about to reach the control thread.
StartAsked == main = "submit" \/ Queued({"ensure", "restart"})

\* What onStartCommand does for a command agrees with what it noted of it.
CommandNoted == main = "submit" => desiredRunning = (cmd # "STOP")

\* While no configuration was imported there is one.
ConfigUntouched == spent.imports = 0 => hasConfig

\* Behind every stop that is queued there is a command to start ...
QueuedStopsFollowed ==
    \A i \in DOMAIN queue : queue[i].task = "stop" =>
        \/ main = "submit"
        \/ \E j \in DOMAIN queue : j > i /\ queue[j].task \in {"ensure", "restart"}

\* ... and behind the one that is carried out, if the proxy is wanted again.
StopIsFollowed == Wanted => (job = "stop" => StartAsked) /\ QueuedStopsFollowed

\* What leads to a new process when there is none.
StartOnItsWay ==
    \/ RestartPending
    \/ StartAsked
    \/ ctl \in {"start", "launch", "recheck", "publish", "crash"}
    \/ job \in {"restart", "net", "crash"} /\ ctl \in {"cancel", "schedule", "terminate", "wait"}

\* Why a wanted proxy comes back.
ComesBackInv ==
    /\ DestroyPhases /\ JobPhases /\ CommandNoted /\ ConfigUntouched /\ StopIsFollowed
    /\ Wanted /\ spent.imports = 0 /\ process = None => StartOnItsWay

\* Spent budgets stay spent.
LEMMA ImportsStaySpent ==
  ASSUME TypeOK, [Next]_vars, spent'.imports = 0
  PROVE  spent.imports = 0
  <1> USE DEF mainVars, flagVars, procVars, timerVars, ctlVars, execVars, osVars
  <1>0. spent \in [Budgets -> Nat]
    BY DEF TypeOK
  <1>1. ASSUME NEW budget \in Budgets, NEW limit, Spend(budget, limit)
        PROVE  spent.imports = 0
    BY <1>0, <1>1 DEF Spend, Budgets
  <1>2. CASE spent' = spent
    BY <1>2
  <1>3. CASE spent' # spent
    <2>1. \E budget \in Budgets, limit \in
             {MaxCommands, MaxNetChanges, MaxExits, MaxLaunchFailures, MaxImports} :
               Spend(budget, limit)
      <3>1. CASE Main
        BY <1>3, <3>1 DEF Main, MainCallbacks, OnStartCommand, SubmitCommand, BeginReplace,
           EndReplace, OnDestroy, TestPendingRestart, CancelOnDestroy, NullPendingRestart,
           TerminateOnDestroy, WaitedOnDestroy, Shutdown, Budgets
      <3>2. CASE Control
        BY <1>3, <3>2 DEF Control, RunQueued, RunTimer, MarkProcessStable, StartProxy, Launch,
           LaunchFails, Recheck, Publish, Attach, ScheduleCrashRestart, CancelByControl,
           CancelOvertaken, ScheduleRestart, TerminateByControl, WaitedByControl, StopSelf, Budgets
      <3>3. CASE \/ WaitForProcess \/ Connectivity \/ ProcessExits \/ SignalledExits
                 \/ UNCHANGED vars
        BY <1>3, <3>3 DEF WaitForProcess, Connectivity, NetworkChanged, SubmitNetworkRestart,
           ProcessExits, SignalledExits, vars, Budgets
      <3> QED BY <3>1, <3>2, <3>3 DEF Next
    <2> QED BY <1>1, <2>1
  <1> QED BY <1>2, <1>3

\* What was noted of a command stays true until it is submitted, and the
\* configuration stays where it is until one is imported.
LEMMA NotedStep ==
  ASSUME TypeOK, CommandNoted, ConfigUntouched, [Next]_vars
  PROVE  CommandNoted' /\ ConfigUntouched'
  <1> USE DEF mainVars, flagVars, procVars, timerVars, ctlVars, execVars, osVars
  <1>1. spent'.imports = 0 => hasConfig
    BY ImportsStaySpent DEF ConfigUntouched
  <1>2. CASE BeginReplace
    <2>1. spent'.imports # 0
      BY <1>2 DEF BeginReplace, Spend, TypeOK, Budgets
    <2> QED BY <1>2, <2>1 DEF BeginReplace, CommandNoted, ConfigUntouched
  <1>3. CASE Main /\ ~BeginReplace
    BY <1>1, <1>3 DEF Main, MainCallbacks, OnStartCommand, SubmitCommand,
       EndReplace, OnDestroy, TestPendingRestart, CancelOnDestroy, NullPendingRestart,
       TerminateOnDestroy, WaitedOnDestroy, Shutdown, CommandNoted, ConfigUntouched
  <1>4. CASE Control
    BY <1>1, <1>4 DEF Control, RunQueued, RunTimer, MarkProcessStable, StartProxy, Launch,
       LaunchFails, Recheck, Publish, Attach, ScheduleCrashRestart, CancelByControl,
       CancelOvertaken, ScheduleRestart, TerminateByControl, WaitedByControl, StopSelf,
       CommandNoted, ConfigUntouched
  <1>5. CASE \/ WaitForProcess \/ Connectivity \/ ProcessExits \/ SignalledExits
             \/ UNCHANGED vars
    BY <1>1, <1>5 DEF WaitForProcess, Connectivity, NetworkChanged, SubmitNetworkRestart,
       ProcessExits, SignalledExits, Exit, vars, CommandNoted, ConfigUntouched
  <1> QED
    BY <1>2, <1>3, <1>4, <1>5 DEF Next

\* A command that is submitted follows the stops before it.
LEMMA FollowedSubmit ==
  ASSUME TypeOK, ~destroyed, ~shutdown, QueuedStopsFollowed,
         NEW task, NEW proc, NEW gen, SubmitControl(task, proc, gen), task # "stop",
         main' = main \/ task \in {"ensure", "restart"}
  PROVE  QueuedStopsFollowed'
  <1> DEFINE rec == [task |-> task, proc |-> proc, gen |-> gen]
  <1>1. queue \in Seq(Tasks) /\ queue' = Append(queue, rec) /\ rec.task = task
    BY DEF TypeOK, SubmitControl
  <1> HIDE DEF rec
  <1>2. /\ DOMAIN queue = 1..Len(queue) /\ Len(queue) \in Nat
        /\ DOMAIN queue' = 1..(Len(queue) + 1)
        /\ \A i \in 1..Len(queue) : queue'[i] = queue[i]
        /\ queue'[Len(queue) + 1] = rec
    BY <1>1
  <1>3. SUFFICES ASSUME NEW i \in DOMAIN queue', queue'[i].task = "stop"
                 PROVE  \/ main' = "submit"
                        \/ \E j \in DOMAIN queue' :
                              j > i /\ queue'[j].task \in {"ensure", "restart"}
    BY DEF QueuedStopsFollowed
  <1>4. i \in 1..Len(queue) /\ queue[i].task = "stop"
    BY <1>1, <1>2, <1>3
  <1>5. CASE main = "submit"
    <2>1. Len(queue) + 1 \in DOMAIN queue' /\ Len(queue) + 1 > i
      BY <1>2, <1>4
    <2> QED BY <1>1, <1>2, <1>5, <2>1
  <1>6. CASE main # "submit"
    <2>1. PICK j \in DOMAIN queue : j > i /\ queue[j].task \in {"ensure", "restart"}
      BY <1>2, <1>4, <1>6 DEF QueuedStopsFollowed
    <2> QED BY <1>2, <2>1
  <1> QED
    BY <1>5, <1>6

\* The stops that stay queued are followed by what they were followed by.
LEMMA FollowedMoves ==
  ASSUME TypeOK, RunQueued, QueuedStopsFollowed
  PROVE  /\ QueuedStopsFollowed'
         /\ Head(queue).task = "stop" => StartAsked'
  <1>1. queue \in Seq(Tasks) /\ queue # <<>> /\ queue' = Tail(queue) /\ main' = main
    BY DEF TypeOK, RunQueued, mainVars
  <1>2. /\ 1 \in DOMAIN queue /\ Head(queue) = queue[1] /\ DOMAIN queue = 1..Len(queue)
        /\ Len(queue) \in Nat
        /\ DOMAIN queue' = 1..(Len(queue) - 1)
        /\ \A i \in DOMAIN queue' : i + 1 \in DOMAIN queue /\ queue'[i] = queue[i + 1]
        /\ \A j \in DOMAIN queue : j = 1 \/ (j - 1 \in DOMAIN queue' /\ queue'[j - 1] = queue[j])
    BY <1>1, Dequeued
  <1>3. ASSUME NEW i \in DOMAIN queue', queue'[i].task = "stop", main # "submit"
        PROVE  \E j \in DOMAIN queue' : j > i /\ queue'[j].task \in {"ensure", "restart"}
    <2>1. i + 1 \in DOMAIN queue /\ queue[i + 1].task = "stop" /\ i \in Nat
      BY <1>2, <1>3
    <2>2. PICK j \in DOMAIN queue : j > i + 1 /\ queue[j].task \in {"ensure", "restart"}
      BY <1>3, <2>1 DEF QueuedStopsFollowed
    <2>3. j - 1 \in DOMAIN queue' /\ j - 1 > i /\ queue'[j - 1] = queue[j]
      BY <1>2, <2>1, <2>2
    <2> QED BY <2>2, <2>3
  <1>4. QueuedStopsFollowed'
    BY <1>1, <1>3 DEF QueuedStopsFollowed
  <1>5. ASSUME Head(queue).task = "stop", main # "submit" PROVE Queued({"ensure", "restart"})'
    <2>1. PICK j \in DOMAIN queue : j > 1 /\ queue[j].task \in {"ensure", "restart"}
      BY <1>2, <1>5 DEF QueuedStopsFollowed
    <2>2. j - 1 \in DOMAIN queue' /\ queue'[j - 1] = queue[j]
      BY <1>2, <2>1
    <2> QED BY <2>1, <2>2 DEF Queued
  <1> QED
    BY <1>1, <1>4, <1>5 DEF StartAsked

\* Every step leaves a stop that does not last followed by a command to start.
LEMMA FollowedStep == TypeOK /\ ComesBackInv /\ [Next]_vars => StopIsFollowed'
  <1> SUFFICES ASSUME TypeOK, ComesBackInv, [Next]_vars, Wanted'
               PROVE  (job' = "stop" => StartAsked') /\ QueuedStopsFollowed'
    BY DEF StopIsFollowed
  <1> USE DEF mainVars, flagVars, procVars, timerVars, ctlVars, execVars, osVars
  <1>0. /\ StopIsFollowed /\ DestroyPhases /\ DestroyPhases' /\ JobPhases /\ CommandNoted
        /\ ~destroyed' /\ ~shutdown'
    BY PhasesStep DEF ComesBackInv, Wanted, DestroyPhases
  <1>1. CASE \E c \in Commands : OnStartCommand(c)
    BY <1>1 DEF OnStartCommand, StartAsked, QueuedStopsFollowed
  <1>2. CASE SubmitCommand
    <2>1. ~destroyed /\ ~shutdown /\ Wanted /\ main = "submit"
      BY <1>0, <1>2 DEF SubmitCommand, Wanted
    <2>2. TaskFor(cmd) \in {"ensure", "restart"}
      BY <1>0, <2>1 DEF CommandNoted, Wanted, TaskFor
    <2>3. QueuedStopsFollowed'
      BY <1>0, <1>2, <2>1, <2>2, FollowedSubmit DEF SubmitCommand, StopIsFollowed
    <2>4. Queued({"ensure", "restart"})'
      BY <1>0, <1>2, <2>1, <2>2, SubmittedIsQueued DEF SubmitCommand
    <2> QED BY <2>3, <2>4 DEF StartAsked
  <1>3. CASE BeginReplace \/ EndReplace
    BY <1>0, <1>3 DEF BeginReplace, EndReplace, StopIsFollowed, Wanted, StartAsked,
       QueuedStopsFollowed, Queued
  <1>4. CASE \/ OnDestroy \/ TestPendingRestart \/ CancelOnDestroy \/ NullPendingRestart
             \/ TerminateOnDestroy \/ WaitedOnDestroy \/ Shutdown
    BY <1>0, <1>4 DEF OnDestroy, TestPendingRestart, CancelOnDestroy, NullPendingRestart,
       TerminateOnDestroy, WaitedOnDestroy, Shutdown, DestroyPhases
  <1>5. CASE RunQueued
    <2>1. Wanted /\ QueuedStopsFollowed
      BY <1>0, <1>5 DEF RunQueued, Wanted, StopIsFollowed
    <2>2. job' = "stop" => Head(queue).task = "stop"
      BY <1>5 DEF RunQueued, Execute, EnsureProxyRunning, RestartProxy, StopTask,
         NetworkTask, HandleProcessExit, Go, Finish
    <2> QED BY <1>5, <2>1, <2>2, FollowedMoves
  <1>6. CASE RunTimer
    <2>1. PICK t \in timers : Execute([task |-> t.task, proc |-> None, gen |-> 0])
      BY <1>6 DEF RunTimer
    <2>2. t.task \in {"ensure", "restart"}
      BY DEF TypeOK, Timers
    <2>3. job' # "stop"
      BY <2>1, <2>2 DEF Execute, EnsureProxyRunning, RestartProxy, Go, Finish
    <2> QED BY <1>0, <1>6, <2>3 DEF RunTimer, StopIsFollowed, Wanted, QueuedStopsFollowed
  <1>7. CASE Control /\ ~RunQueued /\ ~RunTimer
    <2>1. UNCHANGED <<main, desiredRunning, destroyed, queue>> /\ (job' = "stop" => job = "stop")
      BY <1>7 DEF Control, MarkProcessStable, StartProxy, Launch, LaunchFails, Recheck,
         Publish, Attach, ScheduleCrashRestart, CancelByControl, CancelOvertaken,
         ScheduleRestart, TerminateByControl, WaitedByControl, StopSelf, Go, Finish
    <2> QED BY <1>0, <2>1 DEF StopIsFollowed, Wanted, StartAsked, Queued, QueuedStopsFollowed
  <1>8. CASE WaitForProcess \/ SubmitNetworkRestart
    <2>0. UNCHANGED <<desiredRunning, destroyed, shutdown, main, job>>
      BY <1>8 DEF WaitForProcess, SubmitNetworkRestart
    <2>1. ~destroyed /\ ~shutdown /\ Wanted
      BY <1>0, <2>0 DEF Wanted
    <2>2. PICK task, proc, gen : task \in {"exit", "net"} /\ SubmitControl(task, proc, gen)
      BY <1>8 DEF WaitForProcess, SubmitNetworkRestart
    <2>3. QueuedStopsFollowed'
      BY <1>0, <2>0, <2>1, <2>2, FollowedSubmit DEF StopIsFollowed
    <2>4. Queued({"ensure", "restart"}) => Queued({"ensure", "restart"})'
      BY <1>0, <2>1, <2>2, SubmittedIsQueued
    <2> QED BY <1>0, <2>0, <2>1, <2>3, <2>4 DEF StopIsFollowed, StartAsked
  <1>9. CASE NetworkChanged \/ ProcessExits \/ SignalledExits \/ UNCHANGED vars
    BY <1>0, <1>9 DEF NetworkChanged, ProcessExits, SignalledExits, Exit, vars,
       StopIsFollowed, Wanted, StartAsked, Queued, QueuedStopsFollowed
  <1> QED
    BY <1>1, <1>2, <1>3, <1>4, <1>5, <1>6, <1>7, <1>8, <1>9
    DEF Next, Main, MainCallbacks, Connectivity

\* What leads to a new process, left alone.
LEMMA StartFrame ==
  ASSUME StartOnItsWay, UNCHANGED <<timers, pendingRestart, ctl, job>>,
         main = "submit" => main' = "submit",
         Queued({"ensure", "restart"}) => Queued({"ensure", "restart"})'
  PROVE  StartOnItsWay'
  BY DEF StartOnItsWay, RestartPending, StartAsked

\* A task the control thread takes on, while the proxy is wanted and there is no
\* process when it is done, keeps a start on its way.
LEMMA StartTask ==
  ASSUME TypeOK, Wanted, NEW t \in Tasks, Execute(t), process' = None, ctl = "idle",
         UNCHANGED <<main, pendingRestart>>,
         process = None => StartOnItsWay,
         Queued({"ensure", "restart"}) =>
            Queued({"ensure", "restart"})' \/ t.task \in {"ensure", "restart"},
         timers' = timers \/ t.task \in {"ensure", "restart"},
         t.task = "stop" => StartAsked'
  PROVE  StartOnItsWay'
  <1>1. CASE t.task = "ensure"
    <2>1. process \notin alive
      <3>1. process = None
        BY <1>1 DEF Execute, EnsureProxyRunning, procVars
      <3> QED BY <3>1 DEF TypeOK, None
    <2>2. ctl' = "start"
      BY <1>1, <2>1 DEF Execute, EnsureProxyRunning, Go
    <2> QED BY <2>2 DEF StartOnItsWay
  <1>2. CASE t.task \in {"restart", "net"}
    BY <1>2 DEF Execute, RestartProxy, NetworkTask, Go, StartOnItsWay
  <1>3. CASE t.task = "stop"
    BY <1>3 DEF StartOnItsWay
  <1>4. CASE t.task = "exit"
    <2>1. CASE IsCurrent(t.proc, t.gen)
      BY <1>4, <2>1 DEF Execute, HandleProcessExit, Go, StartOnItsWay
    <2>2. CASE ~IsCurrent(t.proc, t.gen)
      <3>1. process = None
        BY <1>4, <2>2 DEF Execute, HandleProcessExit, procVars
      <3>2. RestartPending \/ main = "submit" \/ Queued({"ensure", "restart"})
        BY <3>1 DEF StartOnItsWay, StartAsked
      <3>3. /\ RestartPending => RestartPending'
            /\ Queued({"ensure", "restart"}) => Queued({"ensure", "restart"})'
        BY <1>4 DEF RestartPending
      <3> QED BY <3>2, <3>3 DEF StartOnItsWay, StartAsked
    <2> QED BY <2>1, <2>2
  <1> QED
    BY <1>1, <1>2, <1>3, <1>4 DEF Tasks

\* Every step keeps a start on its way.
LEMMA ComesBackStep ==
  ASSUME TypeOK, ComesBackInv, StopIsFollowed', [Next]_vars,
         Wanted', spent'.imports = 0, process' = None
  PROVE  StartOnItsWay'
  <1> USE DEF mainVars, flagVars, procVars, timerVars, ctlVars, execVars, osVars
  <1>0. /\ StopIsFollowed /\ DestroyPhases /\ DestroyPhases' /\ JobPhases /\ CommandNoted
        /\ ~destroyed' /\ ~shutdown' /\ spent.imports = 0 /\ hasConfig
    BY PhasesStep, ImportsStaySpent DEF ComesBackInv, Wanted, DestroyPhases, ConfigUntouched
  <1>01. Wanted /\ process = None => StartOnItsWay
    BY <1>0 DEF ComesBackInv
  <1>02. Wanted /\ job = "stop" => StartAsked
    BY <1>0 DEF StopIsFollowed
  <1>1. CASE \E c \in Commands : OnStartCommand(c)
    BY <1>1 DEF OnStartCommand, StartOnItsWay, StartAsked
  <1>2. CASE SubmitCommand
    <2>1. ~destroyed /\ ~shutdown /\ Wanted /\ main = "submit"
      BY <1>0, <1>2 DEF SubmitCommand, Wanted
    <2>2. TaskFor(cmd) \in {"ensure", "restart"}
      BY <1>0, <2>1 DEF CommandNoted, Wanted, TaskFor
    <2>3. Queued({"ensure", "restart"})'
      BY <1>0, <1>2, <2>1, <2>2, SubmittedIsQueued DEF SubmitCommand
    <2> QED BY <2>3 DEF StartOnItsWay, StartAsked
  <1>3. CASE BeginReplace \/ EndReplace
    <2>1. /\ UNCHANGED <<desiredRunning, destroyed, process, timers, pendingRestart, ctl, job, queue>>
          /\ main # "submit"
      BY <1>3 DEF BeginReplace, EndReplace
    <2>2. Wanted /\ process = None
      BY <2>1 DEF Wanted
    <2>3. Queued({"ensure", "restart"}) => Queued({"ensure", "restart"})'
      BY <2>1 DEF Queued
    <2> QED BY <1>01, <2>1, <2>2, <2>3, StartFrame
  <1>4. CASE \/ OnDestroy \/ TestPendingRestart \/ CancelOnDestroy \/ NullPendingRestart
             \/ TerminateOnDestroy \/ WaitedOnDestroy \/ Shutdown \/ CancelOvertaken
    BY <1>0, <1>4 DEF OnDestroy, TestPendingRestart, CancelOnDestroy, NullPendingRestart,
       TerminateOnDestroy, WaitedOnDestroy, Shutdown, CancelOvertaken, DestroyPhases
  <1>5. CASE RunQueued
    <2>1. Wanted /\ QueuedStopsFollowed
      BY <1>0, <1>5 DEF RunQueued, Wanted, StopIsFollowed
    <2>2. Head(queue) \in Tasks
      BY <1>5 DEF TypeOK, RunQueued
    <2>3. /\ Head(queue).task = "stop" => StartAsked'
          /\ Queued({"ensure", "restart"}) =>
               Queued({"ensure", "restart"})' \/ Head(queue).task \in {"ensure", "restart"}
      BY <1>5, <2>1, FollowedMoves, QueueMoves
    <2> QED BY <1>01, <1>5, <2>1, <2>2, <2>3, StartTask DEF RunQueued
  <1>6. CASE RunTimer
    <2>1. PICK u \in timers : Execute([task |-> u.task, proc |-> None, gen |-> 0])
      BY <1>6 DEF RunTimer
    <2> DEFINE t == [task |-> u.task, proc |-> None, gen |-> 0]
    <2>2. t \in Tasks /\ t.task \in {"ensure", "restart"}
      BY DEF TypeOK, Timers, Tasks, None
    <2>3. Execute(t)
      BY <2>1
    <2> HIDE DEF t
    <2>4. Wanted /\ ctl = "idle" /\ UNCHANGED <<main, pendingRestart>>
      BY <1>6 DEF RunTimer, Wanted
    <2> QED BY <1>01, <2>2, <2>3, <2>4, StartTask
  <1>7. CASE \/ StartProxy \/ Launch \/ LaunchFails \/ Recheck \/ ScheduleCrashRestart
    <2>1. Wanted
      <3>1. UNCHANGED <<desiredRunning, destroyed>>
        BY <1>7 DEF StartProxy, Launch, LaunchFails, Recheck, ScheduleCrashRestart
      <3> QED BY <3>1 DEF Wanted
    <2>2. \/ ctl' \in {"launch", "recheck", "publish", "crash"}
          \/ ctl' = "cancel" /\ job' = "crash"
      BY <1>0, <1>7, <2>1 DEF StartProxy, Launch, LaunchFails, Recheck, ScheduleCrashRestart, Go
    <2> QED BY <2>2 DEF StartOnItsWay
  <1>8. CASE Publish
    BY <1>0, <1>8 DEF Publish, JobPhases
  <1>9. CASE MarkProcessStable
    <2>1. /\ UNCHANGED <<desiredRunning, destroyed, process, timers, pendingRestart, ctl, job,
                         queue, main>>
      BY <1>9 DEF MarkProcessStable
    <2>2. Wanted /\ process = None
      BY <2>1 DEF Wanted
    <2>3. Queued({"ensure", "restart"}) => Queued({"ensure", "restart"})'
      BY <2>1 DEF Queued
    <2> QED BY <1>01, <2>1, <2>2, <2>3, StartFrame
  <1>10. CASE Attach
    <2>1. UNCHANGED <<desiredRunning, destroyed, process, timers, pendingRestart, queue, main>>
      BY <1>10 DEF Attach
    <2>2. Wanted /\ process = None /\ ctl = "attach"
      BY <1>10, <2>1 DEF Attach, Wanted
    <2>3. RestartPending \/ main = "submit" \/ Queued({"ensure", "restart"})
      BY <1>01, <2>2 DEF StartOnItsWay, StartAsked
    <2> QED BY <2>1, <2>3 DEF StartOnItsWay, RestartPending, StartAsked, Queued
  <1>11. CASE CancelByControl \/ TerminateByControl \/ WaitedByControl \/ StopSelf
    <2>1. UNCHANGED <<desiredRunning, destroyed, queue, main>>
      BY <1>11 DEF CancelByControl, TerminateByControl, WaitedByControl, StopSelf
    <2>2. CASE job = "stop"
      <3>1. StartAsked
        BY <1>02, <2>1, <2>2 DEF Wanted
      <3> QED BY <2>1, <3>1 DEF StartOnItsWay, StartAsked, Queued
    <2>3. CASE job # "stop"
      BY <1>0, <1>11, <2>3 DEF CancelByControl, TerminateByControl, WaitedByControl, StopSelf,
         Go, AfterCancel, AfterTerminate, JobPhases, StartOnItsWay
    <2> QED BY <2>2, <2>3
  <1>12. CASE ScheduleRestart
    <2>1. ~shutdown
      BY <1>0, <1>12 DEF ScheduleRestart
    <2>2. /\ timers' = timers \cup {[id |-> futures + 1, task |-> DelayedTask]}
          /\ pendingRestart' = futures + 1
      BY <1>12, <2>1 DEF ScheduleRestart
    <2> DEFINE new == [id |-> futures + 1, task |-> DelayedTask]
    <2>3. new \in timers' /\ new.id = pendingRestart'
      BY <2>2
    <2> HIDE DEF new
    <2> QED BY <2>3 DEF StartOnItsWay, RestartPending
  <1>13. CASE WaitForProcess \/ SubmitNetworkRestart
    <2>0. UNCHANGED <<desiredRunning, destroyed, process, main, job, ctl, timers, pendingRestart>>
      BY <1>13 DEF WaitForProcess, SubmitNetworkRestart
    <2>1. ~destroyed /\ Wanted /\ process = None
      BY <1>0, <2>0 DEF Wanted
    <2>2. PICK task, proc, gen : task \in {"exit", "net"} /\ SubmitControl(task, proc, gen)
      BY <1>13 DEF WaitForProcess, SubmitNetworkRestart
    <2>3. Queued({"ensure", "restart"}) => Queued({"ensure", "restart"})'
      BY <1>0, <2>1, <2>2, SubmittedIsQueued
    <2> QED BY <1>01, <2>0, <2>1, <2>3, StartFrame
  <1>14. CASE NetworkChanged \/ ProcessExits \/ SignalledExits \/ UNCHANGED vars
    <2>1. UNCHANGED <<desiredRunning, destroyed, process, timers, pendingRestart, ctl, job,
                      queue, main>>
      BY <1>14 DEF NetworkChanged, ProcessExits, SignalledExits, Exit, vars
    <2>2. Wanted /\ process = None
      BY <2>1 DEF Wanted
    <2>3. Queued({"ensure", "restart"}) => Queued({"ensure", "restart"})'
      BY <2>1 DEF Queued
    <2> QED BY <1>01, <2>1, <2>2, <2>3, StartFrame
  <1> QED
    BY <1>1, <1>2, <1>3, <1>4, <1>5, <1>6, <1>7, <1>8, <1>9, <1>10, <1>11, <1>12, <1>13,
       <1>14 DEF Next, Main, MainCallbacks, Control, Connectivity

\* Whatever crashed, failed to start, was stopped or was restarted before: when
\* the threads come to rest and the proxy is wanted, somebody waits for the exit
\* of its process, or a restart is scheduled.
THEOREM ProxyIsNeverGivenUp == Spec => []NeverGivenUp
  <1>1. Init => ComesBackInv
    BY DEF Init, ComesBackInv, DestroyPhases, JobPhases, CommandNoted, ConfigUntouched,
       StopIsFollowed, Wanted
  <1>2. TypeOK /\ ComesBackInv /\ [Next]_vars => ComesBackInv'
    <2> SUFFICES ASSUME TypeOK, ComesBackInv, [Next]_vars PROVE ComesBackInv'
      OBVIOUS
    <2>1. DestroyPhases' /\ JobPhases' /\ CommandNoted' /\ ConfigUntouched' /\ StopIsFollowed'
      BY PhasesStep, JobStep, NotedStep, FollowedStep DEF ComesBackInv
    <2>2. Wanted' /\ spent'.imports = 0 /\ process' = None => StartOnItsWay'
      BY <2>1, ComesBackStep
    <2> QED BY <2>1, <2>2 DEF ComesBackInv
  <1>3. ComesBackInv /\ Watched => NeverGivenUp
    BY DEF ComesBackInv, StartOnItsWay, StartAsked, Queued, Quiet, NeverGivenUp, JobPhases
  <1> QED
    BY <1>1, <1>2, <1>3, TypeCorrect, ExitIsHeardOf, PTL DEF Spec

-----------------------------------------------------------------------------
(* No cause leads to two launches: what was launched, together with the     *)
(* causes that are still open, never exceeds what has happened.            *)

\* The causes in a queue are finitely many.
LEMMA TasksFinite ==
  ASSUME NEW q \in Seq(Tasks),
         NEW T, T = {i \in DOMAIN q : q[i].task \in {"ensure", "restart", "net"}}
  PROVE  IsFiniteSet(T) /\ Cardinality(T) \in Nat
  <1>1. IsFiniteSet(1..Len(q))
    BY FS_Interval
  <1>2. T \subseteq 1..Len(q)
    OBVIOUS
  <1> QED
    BY <1>1, <1>2, FS_Subset, FS_CardinalityType

\* So they are now and after the step.
LEMMA LaunchTasksFinite ==
  /\ TypeOK => IsFiniteSet(LaunchTasks) /\ Cardinality(LaunchTasks) \in Nat
  /\ TypeOK' => IsFiniteSet(LaunchTasks') /\ Cardinality(LaunchTasks') \in Nat
  <1>1. /\ TypeOK => queue \in Seq(Tasks)
        /\ TypeOK' => queue' \in Seq(Tasks)
    BY DEF TypeOK
  <1>2. ASSUME TypeOK PROVE IsFiniteSet(LaunchTasks) /\ Cardinality(LaunchTasks) \in Nat
    BY <1>1, <1>2, TasksFinite DEF LaunchTasks
  <1>3. ASSUME TypeOK' PROVE IsFiniteSet(LaunchTasks') /\ Cardinality(LaunchTasks') \in Nat
    BY <1>1, <1>3, TasksFinite DEF LaunchTasks
  <1> QED
    BY <1>2, <1>3

\* A task that is submitted is one more cause, if it can lead to a launch.
LEMMA SubmittedCauses ==
  ASSUME TypeOK, TypeOK', NEW task, NEW proc, NEW gen, SubmitControl(task, proc, gen)
  PROVE  Cardinality(LaunchTasks') <=
            Cardinality(LaunchTasks) + One(task \in {"ensure", "restart", "net"})
  <1> DEFINE rec == [task |-> task, proc |-> proc, gen |-> gen]
  <1>0. Cardinality(LaunchTasks) \in Nat /\ IsFiniteSet(LaunchTasks)
    BY LaunchTasksFinite
  <1>1. queue \in Seq(Tasks)
    BY DEF TypeOK
  <1>2. CASE queue' = queue
    BY <1>0, <1>2 DEF LaunchTasks, One
  <1>3. CASE queue' # queue
    <2>1. queue' = Append(queue, rec)
      BY <1>3 DEF SubmitControl
    <2>2. rec.task = task
      OBVIOUS
    <2> HIDE DEF rec
    <2>3. /\ DOMAIN queue = 1..Len(queue) /\ Len(queue) \in Nat
          /\ DOMAIN queue' = 1..(Len(queue) + 1)
          /\ \A i \in 1..Len(queue) : queue'[i] = queue[i]
          /\ queue'[Len(queue) + 1] = rec
      BY <1>1, <2>1
    <2>4. LaunchTasks' = IF task \in {"ensure", "restart", "net"}
                         THEN LaunchTasks \cup {Len(queue) + 1} ELSE LaunchTasks
      BY <2>2, <2>3 DEF LaunchTasks
    <2>5. CASE task \in {"ensure", "restart", "net"}
      <3>1. LaunchTasks' = LaunchTasks \cup {Len(queue) + 1}
        BY <2>4, <2>5
      <3>2. Len(queue) + 1 \notin LaunchTasks
        BY <2>3 DEF LaunchTasks
      <3>3. Cardinality(LaunchTasks \cup {Len(queue) + 1}) = Cardinality(LaunchTasks) + 1
        BY <1>0, <3>2, FS_AddElement
      <3> QED BY <1>0, <2>5, <3>1, <3>3 DEF One
    <2>6. CASE task \notin {"ensure", "restart", "net"}
      BY <1>0, <2>4, <2>6 DEF One
    <2> QED BY <2>5, <2>6
  <1> QED
    BY <1>2, <1>3

\* A task that is taken is one cause less in the queue.
LEMMA TakenCauses ==
  ASSUME TypeOK, TypeOK', RunQueued
  PROVE  Cardinality(LaunchTasks') + One(Head(queue).task \in {"ensure", "restart", "net"})
            <= Cardinality(LaunchTasks)
  <1>0. Cardinality(LaunchTasks) \in Nat /\ IsFiniteSet(LaunchTasks)
    BY LaunchTasksFinite
  <1>1. queue \in Seq(Tasks) /\ queue # <<>> /\ queue' = Tail(queue)
    BY DEF TypeOK, RunQueued
  <1>2. /\ 1 \in DOMAIN queue /\ Head(queue) = queue[1]
        /\ \A i \in DOMAIN queue' : i + 1 \in DOMAIN queue /\ queue'[i] = queue[i + 1]
    BY <1>1, Dequeued
  <1>3. DOMAIN queue' \subseteq Nat \ {0}
    BY DEF TypeOK
  <1> DEFINE rest == LaunchTasks \ {1}
             next == [i \in LaunchTasks' |-> i + 1]
  <1>4. LaunchTasks' \subseteq DOMAIN queue'
    BY DEF LaunchTasks
  <1>5. next \in Injection(LaunchTasks', rest)
    <2>1. \A i \in LaunchTasks' : i + 1 \in rest
      BY <1>2, <1>3, <1>4 DEF LaunchTasks
    <2>2. \A i, j \in LaunchTasks' : i + 1 = j + 1 => i = j
      BY <1>3, <1>4
    <2> QED BY <2>1, <2>2 DEF Injection, IsInjective
  <1>6. IsFiniteSet(rest) /\ Cardinality(rest) =
           IF 1 \in LaunchTasks THEN Cardinality(LaunchTasks) - 1 ELSE Cardinality(LaunchTasks)
    BY <1>0, FS_RemoveElement
  <1>7. Cardinality(LaunchTasks') <= Cardinality(rest)
    BY <1>5, <1>6, FS_Injection
  <1>8. 1 \in LaunchTasks <=> Head(queue).task \in {"ensure", "restart", "net"}
    BY <1>2 DEF LaunchTasks
  <1>9. Cardinality(LaunchTasks') \in Nat
    BY LaunchTasksFinite
  <1> HIDE DEF rest
  <1> QED
    BY <1>0, <1>6, <1>7, <1>8, <1>9 DEF One

\* No process is both told to stop and in the service's hands.
LEMMA HeldStep ==
  TypeOK /\ ServingInv /\ JobPhases /\ HeldUnsignalled /\ [Next]_vars => HeldUnsignalled'
  <1> SUFFICES ASSUME TypeOK, ServingInv, JobPhases, HeldUnsignalled, [Next]_vars
               PROVE  HeldUnsignalled'
    OBVIOUS
  <1> USE DEF mainVars, flagVars, procVars, timerVars, ctlVars, execVars, osVars
  <1>0. signalled \subseteq 1..started /\ signalled \subseteq alive /\ started \in Nat /\ None = 0
    BY DEF TypeOK, None
  <1>01. None \notin signalled /\ None \notin alive /\ started + 1 \notin signalled
    BY <1>0 DEF TypeOK
  <1>1. CASE RunQueued
    <2>1. queue \in Seq(Tasks) /\ queue # <<>> /\ queue' = Tail(queue)
      BY <1>1 DEF TypeOK, RunQueued
    <2>2. \A i \in DOMAIN queue' : i + 1 \in DOMAIN queue /\ queue'[i] = queue[i + 1]
      BY <2>1, Dequeued
    <2>3. /\ UNCHANGED <<signalled, waiters>> /\ Execute(Head(queue))
      BY <1>1 DEF RunQueued
    <2>4. /\ process' \in {process, None} /\ ctl' \notin {"recheck", "publish", "attach"}
      BY <2>3 DEF Execute, EnsureProxyRunning, RestartProxy, StopTask, NetworkTask,
         HandleProcessExit, Go, Finish
    <2> QED BY <1>01, <2>2, <2>3, <2>4 DEF HeldUnsignalled
  <1>2. CASE RunTimer
    <2>1. PICK t : Execute(t)
      BY <1>2 DEF RunTimer
    <2>2. UNCHANGED <<signalled, waiters, queue>>
      BY <1>2 DEF RunTimer
    <2>3. /\ process' \in {process, None} /\ ctl' \notin {"recheck", "publish", "attach"}
      BY <2>1 DEF Execute, EnsureProxyRunning, RestartProxy, StopTask, NetworkTask,
         HandleProcessExit, Go, Finish
    <2> QED BY <1>01, <2>2, <2>3 DEF HeldUnsignalled
  <1>3. CASE \/ MarkProcessStable \/ StartProxy \/ LaunchFails \/ ScheduleCrashRestart
             \/ CancelByControl \/ CancelOvertaken \/ ScheduleRestart \/ WaitedByControl
             \/ StopSelf
    <2>1. /\ UNCHANGED <<process, signalled, waiters, queue>>
          /\ ctl' \notin {"recheck", "publish", "attach"}
      BY <1>3 DEF MarkProcessStable, StartProxy, LaunchFails, ScheduleCrashRestart,
         CancelByControl, CancelOvertaken, ScheduleRestart, WaitedByControl, StopSelf,
         Go, Finish, AfterCancel, AfterTerminate
    <2> QED BY <2>1 DEF HeldUnsignalled
  <1>4. CASE Launch
    BY <1>01, <1>4 DEF Launch, HeldUnsignalled
  <1>5. CASE Recheck
    <2>1. CASE Wanted
      BY <1>5, <2>1 DEF Recheck, Go, HeldUnsignalled
    <2>2. CASE ~Wanted
      <3>1. signalled' = signalled \cup ({inHand.proc} \cap alive) /\ Finish
        BY <1>5, <2>2, Zenon DEF Recheck
      <3>2. process # inHand.proc \/ inHand.proc \notin alive
        BY <1>5 DEF Recheck, HeldUnsignalled, ServingInv, OldProcessGone, Serving
      <3> QED BY <1>5, <3>1, <3>2 DEF Recheck, Finish, HeldUnsignalled
    <2> QED BY <2>1, <2>2
  <1>6. CASE Publish
    <2>1. inHand.proc # None /\ inHand.proc \notin signalled
      BY <1>6 DEF Publish, JobPhases, HeldUnsignalled
    <2>2. inHand'.proc = inHand.proc
      BY <1>6 DEF Publish, TypeOK, ProcRecs
    <2> QED BY <1>6, <2>1, <2>2 DEF Publish, HeldUnsignalled
  <1>7. CASE Attach
    BY <1>7 DEF Attach, Finish, HeldUnsignalled
  <1>8. CASE TerminateByControl \/ TerminateOnDestroy
    <2>1. /\ process' = None /\ signalled' = signalled \cup ({process} \cap alive)
          /\ UNCHANGED <<waiters, queue, inHand>>
          /\ ctl' \in {"recheck", "publish", "attach"} => ctl' = ctl
      BY <1>8 DEF TerminateByControl, TerminateOnDestroy, TakeAndDestroy, Go, AfterTerminate
    <2>2. ctl \in {"recheck", "publish"} => process \notin alive
      BY DEF HeldUnsignalled, ServingInv, OldProcessGone, Serving
    <2> QED BY <1>01, <2>1, <2>2 DEF HeldUnsignalled
  <1>9. CASE NullPendingRestart \/ Shutdown
    BY <1>01, <1>9 DEF NullPendingRestart, Shutdown, HeldUnsignalled
  <1>10. CASE SubmitCommand \/ WaitForProcess \/ SubmitNetworkRestart
    <2>1. /\ UNCHANGED <<process, signalled, ctl, inHand>> /\ waiters' \subseteq waiters
          /\ \E task, proc, gen : /\ SubmitControl(task, proc, gen)
                                  /\ task = "exit" => proc # None
      BY <1>10 DEF SubmitCommand, TaskFor, WaitForProcess, SubmitNetworkRestart, HeldUnsignalled
    <2>2. \A i \in DOMAIN queue' : queue'[i].task = "exit" => queue'[i].proc # None
      <3>1. PICK task, proc, gen : /\ SubmitControl(task, proc, gen)
                                   /\ task = "exit" => proc # None
        BY <2>1
      <3>2. \A i \in DOMAIN queue' :
              \/ i \in DOMAIN queue /\ queue'[i] = queue[i]
              \/ queue'[i] = [task |-> task, proc |-> proc, gen |-> gen]
        BY <3>1, Submitted
      <3> QED BY <3>1, <3>2 DEF HeldUnsignalled
    <2> QED BY <2>1, <2>2 DEF HeldUnsignalled
  <1>11. CASE \/ \E c \in Commands : OnStartCommand(c)
              \/ BeginReplace \/ EndReplace \/ OnDestroy \/ TestPendingRestart
              \/ CancelOnDestroy \/ WaitedOnDestroy
              \/ NetworkChanged \/ ProcessExits \/ SignalledExits \/ UNCHANGED vars
    <2>1. /\ UNCHANGED <<process, ctl, inHand, queue, waiters>> /\ signalled' \subseteq signalled
      BY <1>11 DEF OnStartCommand, BeginReplace, EndReplace, OnDestroy, TestPendingRestart,
         CancelOnDestroy, WaitedOnDestroy, NetworkChanged, ProcessExits, SignalledExits,
         Exit, vars
    <2> QED BY <2>1 DEF HeldUnsignalled
  <1> QED
    BY <1>1, <1>2, <1>3, <1>4, <1>5, <1>6, <1>7, <1>8, <1>9, <1>10, <1>11
    DEF Next, Main, MainCallbacks, Control, Connectivity

\* Why no cause leads to two launches, with what that rests on.
CausesInv == ServingInv /\ JobPhases /\ HeldUnsignalled /\ LaunchesInv

\* The sum, unfolded, before and after a step.
LEMMA CausesSum ==
  ASSUME TypeOK, TypeOK', LaunchesInv, IsFiniteSet(timers')
  PROVE  /\ started \in Nat /\ started' \in Nat
         /\ Cardinality(LaunchTasks) \in Nat /\ Cardinality(LaunchTasks') \in Nat
         /\ Cardinality(timers) \in Nat /\ Cardinality(timers') \in Nat
         /\ \A b \in Budgets : spent[b] \in Nat /\ spent'[b] \in Nat
  BY LaunchTasksFinite, FS_CardinalityType DEF LaunchesInv, TypeOK

\* What is spent is spent on one budget.
LEMMA SpendsOne ==
  ASSUME TypeOK, NEW budget \in Budgets, NEW limit, Spend(budget, limit)
  PROVE  \A b \in Budgets : spent'[b] = IF b = budget THEN spent[b] + 1 ELSE spent[b]
  BY DEF TypeOK, Spend

\* A step that brings no cause, nor a launch, and leaves none behind.
LEMMA CausesFrame ==
  ASSUME TypeOK, TypeOK', LaunchesInv,
         UNCHANGED started,
         \A b \in Budgets : spent[b] <= spent'[b],
         queue' = queue \/ queue' = <<>>, timers' \subseteq timers,
         Submitting' => Submitting, Notifying' => Notifying, AtWork' => AtWork,
         DeadInField' => DeadInField, DeadInHand' => DeadInHand
  PROVE  LaunchesInv'
  <1>1. IsFiniteSet(timers') /\ Cardinality(timers') <= Cardinality(timers)
    BY FS_Subset DEF LaunchesInv
  <1>2. Cardinality(LaunchTasks') <= Cardinality(LaunchTasks)
    <2>1. LaunchTasks' \subseteq LaunchTasks
      BY DEF LaunchTasks
    <2> QED BY <2>1, FS_Subset, LaunchTasksFinite
  <1>3. /\ One(Submitting') <= One(Submitting) /\ One(Notifying') <= One(Notifying)
        /\ One(AtWork') <= One(AtWork) /\ One(DeadInField') <= One(DeadInField)
        /\ One(DeadInHand') <= One(DeadInHand)
    BY DEF One
  <1>4. OpenCauses \in Nat /\ OpenCauses' \in Nat /\ OpenCauses' <= OpenCauses
    BY ONLY <1>1, <1>2, <1>3, CausesSum, TypeOK, TypeOK', LaunchesInv DEF OpenCauses, One
  <1>5. spent.commands + spent.netChanges + spent.exits
          <= spent'.commands + spent'.netChanges + spent'.exits
    <2>1. \A b \in Budgets : spent[b] \in Nat /\ spent'[b] \in Nat /\ spent[b] <= spent'[b]
      BY <1>1, CausesSum
    <2> QED BY ONLY <2>1 DEF Budgets
  <1>6. \A b \in {"commands", "netChanges", "exits"} : spent[b] \in Nat /\ spent'[b] \in Nat
    BY <1>1, CausesSum DEF Budgets
  <1>7. started \in Nat /\ started' = started
    BY <1>1, CausesSum
  <1> QED
    BY ONLY <1>1, <1>4, <1>5, <1>6, <1>7, LaunchesInv DEF LaunchesInv

\* The other steps move a cause on, bring one in, or turn it into a launch.
LEMMA CausesStep ==
  TypeOK /\ TypeOK' /\ CausesInv /\ [Next]_vars => LaunchesInv'
  <1> SUFFICES ASSUME TypeOK, TypeOK', CausesInv, [Next]_vars PROVE LaunchesInv'
    OBVIOUS
  <1> USE DEF mainVars, flagVars, procVars, timerVars, ctlVars, execVars, osVars
  <1>0. ServingInv /\ JobPhases /\ HeldUnsignalled /\ LaunchesInv /\ IsFiniteSet(timers)
    BY DEF CausesInv, LaunchesInv
  <1>01. \A b \in Budgets : spent[b] \in Nat
    BY DEF TypeOK
  <1>1. CASE \E c \in Commands : OnStartCommand(c)
    <2>1. /\ main = "idle" /\ Spend("commands", MaxCommands)
          /\ UNCHANGED <<started, queue, timers, conn, ctl, job, inHand, process, alive>>
      BY <1>1 DEF OnStartCommand
    <2>2. \A b \in Budgets : spent'[b] = IF b = "commands" THEN spent[b] + 1 ELSE spent[b]
      BY <2>1, SpendsOne DEF Budgets
    <2>3. /\ ~Submitting /\ Notifying' = Notifying /\ AtWork' = AtWork
          /\ DeadInField' = DeadInField /\ DeadInHand' = DeadInHand
          /\ Cardinality(LaunchTasks') = Cardinality(LaunchTasks)
      BY <2>1 DEF Submitting, Notifying, AtWork, DeadInField, DeadInHand, LaunchTasks
    <2>4. IsFiniteSet(timers') /\ Cardinality(timers') = Cardinality(timers)
      BY <1>0, <2>1
    <2> QED
      BY <1>0, <2>1, <2>2, <2>3, <2>4, CausesSum DEF LaunchesInv, OpenCauses, One, Budgets
  <1>2. CASE SubmitCommand \/ SubmitNetworkRestart \/ WaitForProcess
    <2>1. /\ UNCHANGED <<started, timers, ctl, job, inHand, process, alive, spent>>
          /\ \E task, proc, gen :
               /\ SubmitControl(task, proc, gen)
               /\ One(Submitting') + One(Notifying') + One(task \in {"ensure", "restart", "net"})
                    <= One(Submitting) + One(Notifying)
      <3>1. CASE SubmitCommand
        <4>1. /\ SubmitControl(TaskFor(cmd), None, 0) /\ ~Submitting' /\ Notifying' = Notifying
              /\ TaskFor(cmd) \in {"ensure", "restart", "net"} => Submitting
          BY <3>1 DEF SubmitCommand, TaskFor, Submitting, Notifying
        <4> QED BY <3>1, <4>1 DEF SubmitCommand, One
      <3>2. CASE SubmitNetworkRestart
        <4>1. /\ SubmitControl("net", None, 0) /\ ~Notifying' /\ Notifying
              /\ Submitting' = Submitting
          BY <3>2 DEF SubmitNetworkRestart, Submitting, Notifying
        <4> QED BY <3>2, <4>1 DEF SubmitNetworkRestart, One
      <3>3. CASE WaitForProcess
        <4>1. /\ \E proc, gen : SubmitControl("exit", proc, gen)
              /\ Notifying' = Notifying /\ Submitting' = Submitting
          BY <3>3 DEF WaitForProcess, Submitting, Notifying
        <4> QED BY <3>3, <4>1 DEF WaitForProcess, One
      <3> QED BY <1>2, <3>1, <3>2, <3>3
    <2>2. PICK task, proc, gen :
            /\ SubmitControl(task, proc, gen)
            /\ One(Submitting') + One(Notifying') + One(task \in {"ensure", "restart", "net"})
                 <= One(Submitting) + One(Notifying)
      BY <2>1
    <2>3. Cardinality(LaunchTasks') <=
             Cardinality(LaunchTasks) + One(task \in {"ensure", "restart", "net"})
      BY <2>2, SubmittedCauses
    <2>4. /\ AtWork' = AtWork /\ DeadInField' = DeadInField /\ DeadInHand' = DeadInHand
          /\ IsFiniteSet(timers') /\ Cardinality(timers') = Cardinality(timers)
      BY <1>0, <2>1 DEF AtWork, DeadInField, DeadInHand
    <2> QED
      BY <1>0, <2>1, <2>2, <2>3, <2>4, CausesSum DEF LaunchesInv, OpenCauses, One, Budgets
  <1>3. CASE NetworkChanged
    <2>1. /\ conn = "idle" /\ Spend("netChanges", MaxNetChanges)
          /\ UNCHANGED <<started, queue, timers, main, cmd, ctl, job, inHand, process, alive>>
      BY <1>3 DEF NetworkChanged
    <2>2. \A b \in Budgets : spent'[b] = IF b = "netChanges" THEN spent[b] + 1 ELSE spent[b]
      BY <2>1, SpendsOne DEF Budgets
    <2>3. /\ ~Notifying /\ Submitting' = Submitting /\ AtWork' = AtWork
          /\ DeadInField' = DeadInField /\ DeadInHand' = DeadInHand
          /\ Cardinality(LaunchTasks') = Cardinality(LaunchTasks)
      BY <2>1 DEF Submitting, Notifying, AtWork, DeadInField, DeadInHand, LaunchTasks
    <2>4. IsFiniteSet(timers') /\ Cardinality(timers') = Cardinality(timers)
      BY <1>0, <2>1
    <2> QED
      BY <1>0, <2>1, <2>2, <2>3, <2>4, CausesSum DEF LaunchesInv, OpenCauses, One, Budgets
  <1>4. CASE RunQueued
    <2>0. queue \in Seq(Tasks) /\ queue # <<>>
      BY <1>4 DEF TypeOK, RunQueued
    <2>1. /\ ctl = "idle" /\ Execute(Head(queue))
          /\ UNCHANGED <<started, timers, main, cmd, conn, alive, spent>>
      BY <1>4 DEF RunQueued
    <2>2. Head(queue).task = "exit" =>
             Head(queue).proc \notin alive /\ Head(queue).proc # None
      BY <2>0, Dequeued, <1>0 DEF ServingInv, ExitsHappened, HeldUnsignalled
    <2>3. Cardinality(LaunchTasks') + One(Head(queue).task \in {"ensure", "restart", "net"})
            <= Cardinality(LaunchTasks)
      BY <1>4, TakenCauses
    <2>4. /\ ~AtWork /\ ~DeadInHand' /\ Submitting' = Submitting /\ Notifying' = Notifying
          /\ \/ Head(queue).task \in {"ensure", "restart", "net"} /\ DeadInField' = DeadInField
             \/ ~AtWork' /\ (DeadInField' => DeadInField)
             \/ DeadInField /\ ~DeadInField'
      BY <2>1, <2>2 DEF Execute, EnsureProxyRunning, RestartProxy, StopTask, NetworkTask,
         HandleProcessExit, IsCurrent, Go, Finish, AtWork, DeadInHand, DeadInField,
         Submitting, Notifying
    <2>5. IsFiniteSet(timers') /\ Cardinality(timers') = Cardinality(timers)
      BY <1>0, <2>1
    <2> QED
      BY <1>0, <2>1, <2>3, <2>4, <2>5, CausesSum DEF LaunchesInv, OpenCauses, One, Budgets
  <1>5. CASE RunTimer
    <2>1. PICK t \in timers :
            /\ timers' = timers \ {t}
            /\ Execute([task |-> t.task, proc |-> None, gen |-> 0])
      BY <1>5 DEF RunTimer
    <2>2. t.task \in {"ensure", "restart"}
      BY DEF TypeOK, Timers
    <2>3. /\ ctl = "idle" /\ UNCHANGED <<started, queue, main, cmd, conn, alive, spent>>
      BY <1>5 DEF RunTimer
    <2>4. UNCHANGED process /\ ctl' \notin {"recheck", "publish"}
      BY <2>1, <2>2 DEF Execute, EnsureProxyRunning, RestartProxy, Go, Finish
    <2>5. /\ ~AtWork /\ ~DeadInHand' /\ Submitting' = Submitting /\ Notifying' = Notifying
          /\ DeadInField' = DeadInField
          /\ Cardinality(LaunchTasks') = Cardinality(LaunchTasks)
      BY <2>3, <2>4 DEF AtWork, DeadInHand, DeadInField, Submitting, Notifying, LaunchTasks
    <2>6. IsFiniteSet(timers') /\ Cardinality(timers') = Cardinality(timers) - 1
      BY <1>0, <2>1, FS_RemoveElement
    <2> QED
      BY <1>0, <2>3, <2>5, <2>6, CausesSum DEF LaunchesInv, OpenCauses, One, Budgets
  <1>6. CASE Launch
    <2>1. /\ ctl = "launch" /\ ctl' = "recheck" /\ started' = started + 1
          /\ inHand'.proc \in alive' /\ alive \subseteq alive'
          /\ UNCHANGED <<queue, timers, main, cmd, conn, job, process, spent>>
      BY <1>6 DEF Launch
    <2>2. /\ AtWork /\ ~AtWork' /\ ~DeadInHand' /\ (DeadInField' => DeadInField)
          /\ Submitting' = Submitting /\ Notifying' = Notifying
          /\ Cardinality(LaunchTasks') = Cardinality(LaunchTasks)
      BY <1>0, <2>1 DEF JobPhases, AtWork, DeadInHand, DeadInField, Submitting, Notifying,
         LaunchTasks
    <2>3. IsFiniteSet(timers') /\ Cardinality(timers') = Cardinality(timers)
      BY <1>0, <2>1
    <2> QED
      BY <1>0, <2>1, <2>2, <2>3, CausesSum DEF LaunchesInv, OpenCauses, One, Budgets
  <1>7. CASE Publish
    <2>1. /\ ctl = "publish" /\ ctl' = "attach" /\ process' = inHand.proc
          /\ UNCHANGED <<queue, timers, main, cmd, conn, started, alive, spent>>
      BY <1>7 DEF Publish
    <2>2. /\ ~AtWork' /\ ~DeadInHand' /\ (DeadInField' => DeadInHand)
          /\ Submitting' = Submitting /\ Notifying' = Notifying
          /\ Cardinality(LaunchTasks') = Cardinality(LaunchTasks)
      BY <2>1 DEF AtWork, DeadInHand, DeadInField, Submitting, Notifying, LaunchTasks
    <2>3. IsFiniteSet(timers') /\ Cardinality(timers') = Cardinality(timers)
      BY <1>0, <2>1
    <2> QED
      BY <1>0, <2>1, <2>2, <2>3, CausesSum DEF LaunchesInv, OpenCauses, One, Budgets
  <1>8. CASE ScheduleRestart
    <2>1. /\ ctl = "schedule" /\ ctl' = "idle"
          /\ UNCHANGED <<queue, main, cmd, conn, started, process, alive, spent>>
          /\ timers' = timers \/ \E new : timers' = timers \cup {new}
      BY <1>8 DEF ScheduleRestart, Finish
    <2>2. /\ AtWork /\ ~AtWork' /\ ~DeadInHand' /\ DeadInField' = DeadInField
          /\ Submitting' = Submitting /\ Notifying' = Notifying
          /\ Cardinality(LaunchTasks') = Cardinality(LaunchTasks)
      BY <1>0, <2>1 DEF JobPhases, AtWork, DeadInHand, DeadInField, Submitting, Notifying,
         LaunchTasks
    <2>3. IsFiniteSet(timers') /\ Cardinality(timers') <= Cardinality(timers) + 1
      <3>1. Cardinality(timers) \in Nat
        BY <1>0, FS_CardinalityType
      <3>2. CASE timers' = timers
        BY <1>0, <3>1, <3>2
      <3>3. CASE \E new : timers' = timers \cup {new}
        <4>1. PICK new : timers' = timers \cup {new}
          BY <3>3
        <4> QED BY <1>0, <3>1, <4>1, FS_AddElement
      <3> QED BY <2>1, <3>2, <3>3
    <2> QED
      BY <1>0, <2>1, <2>2, <2>3, CausesSum DEF LaunchesInv, OpenCauses, One, Budgets
  <1>9. CASE ProcessExits
    <2>1. PICK p \in Serving : Exit(p) /\ Spend("exits", MaxExits)
      BY <1>9 DEF ProcessExits
    <2>2. \A b \in Budgets : spent'[b] = IF b = "exits" THEN spent[b] + 1 ELSE spent[b]
      BY <2>1, SpendsOne DEF Budgets
    <2>3. /\ alive' = alive \ {p}
          /\ UNCHANGED <<queue, timers, main, cmd, conn, ctl, job, inHand, process, started>>
      BY <2>1 DEF Exit
    <2>4. /\ AtWork' = AtWork /\ Submitting' = Submitting /\ Notifying' = Notifying
          /\ Cardinality(LaunchTasks') = Cardinality(LaunchTasks)
      BY <2>3 DEF AtWork, Submitting, Notifying, LaunchTasks
    <2>5. \/ DeadInField' = DeadInField
          \/ DeadInHand' = DeadInHand
      BY <1>0, <2>1, <2>3 DEF ServingInv, OldProcessGone, DeadInField, DeadInHand
    <2>6. IsFiniteSet(timers') /\ Cardinality(timers') = Cardinality(timers)
      BY <1>0, <2>3
    <2> QED
      BY <1>0, <2>2, <2>3, <2>4, <2>5, <2>6, CausesSum
      DEF LaunchesInv, OpenCauses, One, Budgets
  <1>10. CASE SignalledExits
    <2>1. PICK p \in signalled : Exit(p) /\ UNCHANGED spent
      BY <1>10 DEF SignalledExits
    <2>2. /\ alive' = alive \ {p}
          /\ UNCHANGED <<queue, timers, main, cmd, conn, ctl, job, inHand, process, started>>
      BY <2>1 DEF Exit
    <2>3. /\ AtWork' = AtWork /\ Submitting' = Submitting /\ Notifying' = Notifying
          /\ (DeadInField' => DeadInField) /\ (DeadInHand' => DeadInHand)
      BY <1>0, <2>1, <2>2 DEF HeldUnsignalled, AtWork, Submitting, Notifying, DeadInField,
         DeadInHand
    <2> QED BY <1>0, <1>01, <2>1, <2>2, <2>3, CausesFrame
  <1>11. CASE \/ MarkProcessStable \/ StartProxy \/ Recheck \/ Attach
              \/ ScheduleCrashRestart \/ CancelByControl \/ CancelOvertaken
              \/ TerminateByControl \/ WaitedByControl \/ StopSelf
    <2>1. /\ UNCHANGED <<queue, main, cmd, conn, started, alive, spent>>
          /\ timers' \subseteq timers
      BY <1>11 DEF MarkProcessStable, StartProxy, Recheck, Attach, ScheduleCrashRestart,
         CancelByControl, CancelPendingRestart, CancelOvertaken, TerminateByControl,
         TakeAndDestroy, WaitedByControl, StopSelf
    <2>2. /\ process' \in {process, None}
          /\ ctl' \in {"recheck", "publish"} =>
                ctl \in {"recheck", "publish"} /\ UNCHANGED inHand
      BY <1>11 DEF MarkProcessStable, StartProxy, Recheck, Attach, ScheduleCrashRestart,
         CancelByControl, CancelOvertaken, TerminateByControl, TakeAndDestroy,
         WaitedByControl, StopSelf, Go, Finish, AfterCancel, AfterTerminate
    <2>3. AtWork' => AtWork
      BY <1>0, <1>11 DEF MarkProcessStable, StartProxy, Recheck, Attach, ScheduleCrashRestart,
         CancelByControl, CancelOvertaken, TerminateByControl, WaitedByControl, StopSelf,
         Go, Finish, AfterCancel, AfterTerminate, JobPhases, AtWork
    <2>4. /\ Submitting' = Submitting /\ Notifying' = Notifying
          /\ (DeadInField' => DeadInField) /\ (DeadInHand' => DeadInHand)
      BY <2>1, <2>2 DEF Submitting, Notifying, DeadInField, DeadInHand
    <2> QED BY <1>0, <1>01, <2>1, <2>3, <2>4, CausesFrame
  <1>12. CASE LaunchFails
    <2>1. /\ Spend("launchFailures", MaxLaunchFailures) /\ ctl = "launch" /\ Go("crash", "crash")
          /\ UNCHANGED <<queue, timers, main, cmd, conn, started, alive, process>>
      BY <1>12 DEF LaunchFails
    <2>2. \A b \in Budgets :
             spent'[b] = IF b = "launchFailures" THEN spent[b] + 1 ELSE spent[b]
      BY <2>1, SpendsOne DEF Budgets
    <2>3. \A b \in Budgets : spent[b] <= spent'[b]
      BY <1>01, <2>2
    <2>4. /\ AtWork /\ Submitting' = Submitting /\ Notifying' = Notifying
          /\ (DeadInField' => DeadInField) /\ ~DeadInHand'
      BY <1>0, <2>1 DEF JobPhases, AtWork, Go, Submitting, Notifying, DeadInField, DeadInHand
    <2> QED BY <1>0, <2>1, <2>3, <2>4, CausesFrame
  <1>13. CASE BeginReplace
    <2>1. /\ Spend("imports", MaxImports) /\ main' = "replace"
          /\ UNCHANGED <<queue, timers, conn, started, alive, process, ctl, job, inHand>>
      BY <1>13 DEF BeginReplace
    <2>2. \A b \in Budgets : spent'[b] = IF b = "imports" THEN spent[b] + 1 ELSE spent[b]
      BY <2>1, SpendsOne DEF Budgets
    <2>3. \A b \in Budgets : spent[b] <= spent'[b]
      BY <1>01, <2>2
    <2>4. /\ ~Submitting' /\ Notifying' = Notifying /\ AtWork' = AtWork
          /\ DeadInField' = DeadInField /\ DeadInHand' = DeadInHand
      BY <2>1 DEF Submitting, Notifying, AtWork, DeadInField, DeadInHand
    <2> QED BY <1>0, <2>1, <2>3, <2>4, CausesFrame
  <1>14. CASE \/ EndReplace \/ OnDestroy \/ TestPendingRestart \/ CancelOnDestroy
              \/ NullPendingRestart \/ TerminateOnDestroy \/ WaitedOnDestroy \/ Shutdown
    <2>1. /\ UNCHANGED <<started, spent>> /\ (queue' = queue \/ queue' = <<>>)
          /\ timers' \subseteq timers /\ main' # "submit" /\ conn' \in {conn, "idle"}
          /\ \/ UNCHANGED <<ctl, job, inHand, alive>> /\ process' \in {process, None}
             \/ ctl' = "idle" /\ process' = None
      BY <1>14 DEF EndReplace, OnDestroy, TestPendingRestart, CancelOnDestroy,
         CancelPendingRestart, NullPendingRestart, TerminateOnDestroy, TakeAndDestroy,
         WaitedOnDestroy, Shutdown
    <2>2. /\ ~Submitting' /\ (Notifying' => Notifying) /\ (AtWork' => AtWork)
          /\ (DeadInField' => DeadInField) /\ (DeadInHand' => DeadInHand)
      BY <2>1 DEF Submitting, Notifying, AtWork, DeadInField, DeadInHand
    <2> QED BY <1>0, <1>01, <2>1, <2>2, CausesFrame
  <1>15. CASE UNCHANGED vars
    <2>1. UNCHANGED <<started, spent, queue, timers, main, cmd, conn, ctl, job, inHand, alive,
                      process>>
      BY <1>15 DEF vars
    <2>2. /\ Submitting' = Submitting /\ Notifying' = Notifying /\ AtWork' = AtWork
          /\ DeadInField' = DeadInField /\ DeadInHand' = DeadInHand
      BY <2>1 DEF Submitting, Notifying, AtWork, DeadInField, DeadInHand
    <2> QED BY <1>0, <1>01, <2>1, <2>2, CausesFrame
  <1> QED
    BY <1>1, <1>2, <1>3, <1>4, <1>5, <1>6, <1>7, <1>8, <1>9, <1>10, <1>11, <1>12, <1>13,
       <1>14, <1>15 DEF Next, Main, MainCallbacks, Control, Connectivity

\* The causes that are still open, together with the launches, never exceed the
\* causes there were.
THEOREM CausesInvariant == Spec => []CausesInv
  <1>1. Init => CausesInv
    <2> SUFFICES ASSUME Init PROVE CausesInv
      OBVIOUS
    <2>1. LaunchTasks = {} /\ timers = {}
      BY DEF Init, LaunchTasks
    <2>2. Cardinality({}) = 0 /\ IsFiniteSet({})
      BY FS_EmptySet
    <2>3. /\ ~Submitting /\ ~Notifying /\ ~AtWork /\ ~DeadInField /\ ~DeadInHand
          /\ started = 0 /\ spent.commands = 0 /\ spent.netChanges = 0 /\ spent.exits = 0
      BY DEF Init, Submitting, Notifying, AtWork, DeadInField, DeadInHand, Budgets
    <2>4. LaunchesInv
      BY <2>1, <2>2, <2>3 DEF LaunchesInv, OpenCauses, One
    <2> QED
      BY <2>4 DEF Init, CausesInv, ServingInv, NoStrayProxy, InFlight, OldProcessGone,
         ProcessesKnown, ExitsHappened, Serving, None, JobPhases, HeldUnsignalled
  <1>2. TypeOK /\ TypeOK' /\ ServingInv' /\ CausesInv /\ [Next]_vars => CausesInv'
    BY JobStep, HeldStep, CausesStep DEF CausesInv
  <1> QED
    BY <1>1, <1>2, ServingInvariant, PTL DEF Spec

\* Every process was launched for a command, a network change or an unasked exit
\* of its own.
THEOREM NoCauseLaunchesTwice == Spec => []OneLaunchPerCause
  <1>1. TypeOK /\ CausesInv => OneLaunchPerCause
    <2> SUFFICES ASSUME TypeOK, CausesInv PROVE OneLaunchPerCause
      OBVIOUS
    <2>1. /\ Cardinality(LaunchTasks) \in Nat /\ Cardinality(timers) \in Nat
          /\ started \in Nat /\ \A b \in Budgets : spent[b] \in Nat
      BY LaunchTasksFinite, FS_CardinalityType DEF CausesInv, LaunchesInv, TypeOK
    <2> QED
      BY <2>1 DEF CausesInv, LaunchesInv, OpenCauses, One, Budgets, OneLaunchPerCause
  <1> QED
    BY <1>1, CausesInvariant, TypeCorrect, PTL
=============================================================================

-------------------------- MODULE ScheduledExecutor --------------------------
(* ScheduledThreadPoolExecutor (src/pool/ThreadPoolExecutor.cpp) with the one   *)
(* core thread that Pools gives it: the periodic idle-removal tasks of all      *)
(* pools share one queue and one worker, which polls the queue once a second.   *)
(* A tick is that second; between two ticks the worker does what it can.        *)
EXTENDS Integers, Sequences, FiniteSets

CONSTANTS
  Tasks,
  Period,         \* schedulePeriod of each task in ticks; 0 is a one-time task
  None,
  LateBound       \* lateness is not told apart from here on

ASSUME TasksAssumption == IsFiniteSet(Tasks) /\ None \notin Tasks
ASSUME PeriodAssumption == Period \in [Tasks -> Nat] /\ LateBound \in Nat

VARIABLES
  tasksQueue, quit,       \* quit also stands for the closed queue
  nextRunTime,            \* per task, relative to now
  canceled,
  known,                  \* the tasks handed to the executor
  workersCount,           \* its value, and
  wpc, task,              \* the worker: location, the task it popped
  spc                     \* the scheduling thread, inside mapLock

vars == <<tasksQueue, quit, nextRunTime, canceled, known, workersCount, wpc, task, spc>>

WorkerLocations == {"none", "loop", "check", "once", "due", "early", "sleep", "leaving", "terminated"}

TypeOK ==
  /\ tasksQueue \in Seq(Tasks) /\ quit \in BOOLEAN
  /\ nextRunTime \in [Tasks -> Int]
  /\ canceled \subseteq Tasks /\ known \subseteq Tasks
  /\ workersCount \in {0, 1}
  /\ wpc \in WorkerLocations /\ task \in Tasks \cup {None}
  /\ spc \in {"out", "start"}

Init ==
  /\ tasksQueue = << >> /\ quit = FALSE
  /\ nextRunTime = Period
  /\ canceled = {} /\ known = {}
  /\ workersCount = 0 /\ wpc = "none" /\ task = None
  /\ spc = "out"

Queued == {tasksQueue[i] : i \in DOMAIN tasksQueue}

-----------------------------------------------------------------------------
(* Plausible slips; the properties below have to notice them.                   *)

\* a task that has run goes to the front, before those that wait
PushBackAfterRunFront(t) == <<t>> \o tasksQueue

\* a canceled task is queued again
CheckKeepsCanceled ==
  /\ wpc = "check"
  /\ wpc' = IF nextRunTime[task] <= 0 THEN "due" ELSE "early"
  /\ UNCHANGED <<tasksQueue, quit, nextRunTime, canceled, known, workersCount, task, spc>>

\* the worker is started by hand only
StartWorkerNot ==
  /\ spc = "start" /\ spc' = "out"
  /\ UNCHANGED <<tasksQueue, quit, nextRunTime, canceled, known, workersCount, wpc, task>>

-----------------------------------------------------------------------------
(* The scheduling thread                                                        *)

(* scheduleAtFixedRate pushes the task at the back, execute (one-time tasks) at *)
(* the front.                                                                   *)
Schedule(t) ==
  /\ spc = "out" /\ ~quit /\ t \notin known
  /\ known' = known \cup {t}
  /\ \/ tasksQueue' = Append(tasksQueue, t)
     \/ Period[t] = 0 /\ tasksQueue' = <<t>> \o tasksQueue
  /\ nextRunTime' = [nextRunTime EXCEPT ![t] = Period[t]]
  /\ spc' = "start"
  /\ UNCHANGED <<quit, canceled, workersCount, wpc, task>>

(* prestartCoreThread if workersCount is 0.                                     *)
StartWorker ==
  /\ spc = "start" /\ spc' = "out"
  /\ IF workersCount = 0
     THEN workersCount' = 1 /\ wpc' = "loop"
     ELSE UNCHANGED <<workersCount, wpc>>
  /\ UNCHANGED <<tasksQueue, quit, nextRunTime, canceled, known, task>>

(* ScheduledFuture::cancel, by the pool that closes.                            *)
Cancel(t) ==
  /\ t \in known \ canceled
  /\ canceled' = canceled \cup {t}
  /\ UNCHANGED <<tasksQueue, quit, nextRunTime, known, workersCount, wpc, task, spc>>

(* shutdown, when the last pool has been closed and removed.                    *)
Shutdown ==
  /\ spc = "out" /\ ~quit /\ known # {} /\ known \subseteq canceled
  /\ quit' = TRUE
  /\ UNCHANGED <<tasksQueue, nextRunTime, canceled, known, workersCount, wpc, task, spc>>

-----------------------------------------------------------------------------
(* The worker                                                                   *)

(* while (!quit) pop, which throws when the queue is closed.                    *)
Poll ==
  /\ wpc = "loop"
  /\ \/ quit /\ wpc' = "leaving" /\ UNCHANGED <<tasksQueue, task>>
     \/ /\ ~quit /\ tasksQueue # << >>
        /\ task' = Head(tasksQueue) /\ tasksQueue' = Tail(tasksQueue) /\ wpc' = "check"
  /\ UNCHANGED <<quit, nextRunTime, canceled, known, workersCount, spc>>

(* A canceled task is dropped; else it is one-time, due, or too early.          *)
Check ==
  /\ wpc = "check"
  /\ IF task \in canceled
     THEN wpc' = "sleep" /\ task' = None
     ELSE /\ wpc' = IF Period[task] = 0 THEN "once" ELSE IF nextRunTime[task] <= 0 THEN "due" ELSE "early"
          /\ UNCHANGED task
  /\ UNCHANGED <<tasksQueue, quit, nextRunTime, canceled, known, workersCount, spc>>

(* A one-time task is run, and the worker breaks out of its loop.               *)
RunOnce ==
  /\ wpc = "once"
  /\ wpc' = "leaving" /\ task' = None
  /\ UNCHANGED <<tasksQueue, quit, nextRunTime, canceled, known, workersCount, spc>>

PushBackAfterRun(t) == Append(tasksQueue, t)

(* A due task is run and queued again; a closed queue refuses it silently.      *)
RunDue ==
  /\ wpc = "due"
  /\ nextRunTime' = [nextRunTime EXCEPT ![task] = Period[task]]
  /\ tasksQueue' = IF quit THEN tasksQueue ELSE PushBackAfterRun(task)
  /\ wpc' = "sleep" /\ task' = None
  /\ UNCHANGED <<quit, canceled, known, workersCount, spc>>

(* One that is too early goes back to the FRONT; a closed queue throws, and     *)
(* nothing catches it in the worker's thread.                                   *)
PushEarly ==
  /\ wpc = "early"
  /\ IF quit
     THEN wpc' = "terminated" /\ UNCHANGED tasksQueue
     ELSE wpc' = "sleep" /\ tasksQueue' = <<task>> \o tasksQueue
  /\ task' = None
  /\ UNCHANGED <<quit, nextRunTime, canceled, known, workersCount, spc>>

(* --workersCount, the last thing the worker does.                              *)
LeaveWorker ==
  /\ wpc = "leaving"
  /\ wpc' = "none" /\ workersCount' = workersCount - 1
  /\ UNCHANGED <<tasksQueue, quit, nextRunTime, canceled, known, task, spc>>

(* A second passes; the worker's sleep is over. Neither thread is slow.         *)
Tick ==
  /\ spc = "out"
  /\ \/ wpc \in {"sleep", "none"}
     \/ wpc = "loop" /\ ~quit /\ tasksQueue = << >>
  /\ wpc' = IF wpc = "sleep" THEN "loop" ELSE wpc
  /\ nextRunTime' = [t \in Tasks |->
       IF t \in known /\ nextRunTime[t] > -LateBound THEN nextRunTime[t] - 1 ELSE nextRunTime[t]]
  /\ UNCHANGED <<tasksQueue, quit, canceled, known, workersCount, task, spc>>

WorkerStep == Poll \/ Check \/ RunOnce \/ RunDue \/ PushEarly \/ LeaveWorker

Next ==
  \/ \E t \in Tasks : Schedule(t) \/ Cancel(t)
  \/ StartWorker \/ Shutdown \/ WorkerStep \/ Tick

(* The worker runs, the scheduling thread finishes its call, time passes.       *)
Spec == Init /\ [][Next]_vars /\ WF_vars(WorkerStep) /\ WF_vars(StartWorker) /\ WF_vars(Tick)

-----------------------------------------------------------------------------
Alive == {t \in known : t \notin canceled /\ Period[t] > 0}

(* The executor loses no periodic task and has none twice: until it is canceled *)
(* a task is in the queue once, or in the worker's hands.                       *)
NoTaskLost ==
  ~quit => \A t \in Alive :
    Cardinality({i \in DOMAIN tasksQueue : tasksQueue[i] = t}) + (IF task = t THEN 1 ELSE 0) = 1

(* After a one-time task the worker leaves its loop and may strand the others:  *)
(* what follows is about executors that were given periodic tasks only.         *)
OnlyPeriodic == \A t \in known : Period[t] > 0

(* While there are tasks, somebody will look at them: a worker, or one that the *)
(* scheduling thread is about to start.                                         *)
TasksHaveAWorker ==
  (OnlyPeriodic /\ ~quit /\ tasksQueue # << >>) => spc = "start" \/ wpc \notin {"none", "leaving"}

(* The queue is in no order, and a task that is too early keeps its place at    *)
(* the front: a due task then waits for the tasks before it, each of them for   *)
(* at most its period and the second that follows a run; never longer.          *)
Waits(S) == UNION {{x} \X (0..Period[x]) : x \in S}
LateAtMostOneRound ==
  OnlyPeriodic => \A t \in Alive : -nextRunTime[t] <= Cardinality(Waits(known \ {t}))

(* The executor's destructor joins the worker: after shutdown the worker ends   *)
(* (or it ends the program, see PushEarly).                                     *)
ShutdownEndsWorker == quit ~> wpc \in {"none", "terminated"}

(* A canceled task leaves the queue for good.                                   *)
CanceledTaskLeaves ==
  \A t \in Tasks :
    (t \in canceled /\ Period[t] > 0) ~> [](t \notin Queued \/ quit \/ ~OnlyPeriodic)

(* Every periodic task is kept, and kept where a worker will find it, between   *)
(* the pop and the push of the worker and the tests of the scheduling thread.   *)
TasksAreKept == TypeOK /\ NoTaskLost /\ TasksHaveAWorker

(* What was ended does end: the worker after a shutdown, a task after its       *)
(* cancellation.                                                                *)
WorkEnds == ShutdownEndsWorker /\ CanceledTaskLeaves
=============================================================================

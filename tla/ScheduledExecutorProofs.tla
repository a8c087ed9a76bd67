----------------------- MODULE ScheduledExecutorProofs -----------------------
(* The executor keeps every periodic task, once, where a worker will find it,   *)
(* and runs it late by one round at most, for every set of tasks and periods.   *)
EXTENDS ScheduledExecutor, SequenceLemmas

\* a known task is at one place at most: the queue or the worker's hands
OnePlace ==
  /\ Distinct(tasksQueue) /\ Elements(tasksQueue) \subseteq known
  /\ task # None => task \in known /\ task \notin Elements(tasksQueue)
  /\ task # None <=> wpc \in {"check", "once", "due", "early"}

\* and at one at least, until it is canceled
SomePlace == ~quit => \A t \in Alive : t \in Elements(tasksQueue) \/ t = task

\* workersCount is decremented last; only a one-time task or shutdown ends the loop
WorkerCounted ==
  /\ workersCount = IF wpc = "none" THEN 0 ELSE 1
  /\ wpc = "once" => Period[task] = 0
  /\ wpc = "leaving" => quit \/ ~OnlyPeriodic
  /\ wpc = "none" => spc = "start" \/ quit \/ ~OnlyPeriodic \/ known = {}

IInv == TypeOK /\ OnePlace /\ SomePlace /\ WorkerCounted

-----------------------------------------------------------------------------
(* The executor is handed a task, at either end of its queue.                   *)
LEMMA ScheduleStep == ASSUME IInv, NEW t \in Tasks, Schedule(t) PROVE IInv'
<1>1. tasksQueue \in Seq(Tasks) /\ Distinct(tasksQueue) /\ t \notin Elements(tasksQueue)
  BY DEF IInv, TypeOK, OnePlace, Schedule
<1>2. /\ tasksQueue' \in Seq(Tasks) /\ Distinct(tasksQueue')
      /\ Elements(tasksQueue') = Elements(tasksQueue) \cup {t}
  <2>1. tasksQueue' = Append(tasksQueue, t) \/ tasksQueue' = <<t>> \o tasksQueue
    BY DEF Schedule
  <2>2. CASE tasksQueue' = Append(tasksQueue, t)
    BY ONLY <1>1, <2>2, AppendElements, t \in Tasks
  <2>3. CASE tasksQueue' = <<t>> \o tasksQueue
    BY ONLY <1>1, <2>3, ConsElements, t \in Tasks
  <2> QED
    BY <2>1, <2>2, <2>3
<1>3. TypeOK'
  <2>1. nextRunTime' \in [Tasks -> Int]
    <3>1. nextRunTime' = [nextRunTime EXCEPT ![t] = Period[t]] /\ nextRunTime \in [Tasks -> Int]
      BY DEF IInv, TypeOK, Schedule
    <3>2. Period[t] \in Int
      BY PeriodAssumption
    <3> QED
      BY <3>1, <3>2
  <2> QED
    BY <1>2, <2>1 DEF IInv, TypeOK, Schedule
<1>4. OnePlace'
  BY <1>2 DEF IInv, OnePlace, Schedule
<1>5. SomePlace'
  BY <1>2 DEF IInv, SomePlace, Alive, Schedule
<1>6. WorkerCounted'
  BY DEF IInv, WorkerCounted, OnlyPeriodic, Schedule
<1> QED
  BY <1>3, <1>4, <1>5, <1>6 DEF IInv

(* The steps that leave the queue and the worker's hands alone.                 *)
LEMMA QuietStep ==
  ASSUME IInv, StartWorker \/ Shutdown \/ LeaveWorker \/ Tick \/ (\E t \in Tasks : Cancel(t))
  PROVE  IInv'
<1>1. TypeOK'
  <2>1. CASE StartWorker \/ Shutdown \/ \E t \in Tasks : Cancel(t)
    BY <2>1 DEF IInv, TypeOK, StartWorker, Shutdown, Cancel, WorkerLocations
  <2>2. CASE LeaveWorker
    BY <2>2 DEF IInv, TypeOK, WorkerCounted, LeaveWorker, WorkerLocations
  <2>3. CASE Tick
    BY <2>3 DEF IInv, TypeOK, Tick, WorkerLocations
  <2> QED
    BY <2>1, <2>2, <2>3
<1>2. OnePlace'
  BY DEF IInv, OnePlace, TypeOK, WorkerCounted, StartWorker, Shutdown, LeaveWorker, Tick, Cancel
<1>3. SomePlace'
  BY DEF IInv, SomePlace, Alive, StartWorker, Shutdown, LeaveWorker, Tick, Cancel
<1>4. WorkerCounted'
  BY DEF IInv, TypeOK, OnePlace, WorkerCounted, OnlyPeriodic, StartWorker, Shutdown, LeaveWorker, Tick, Cancel
<1> QED
  BY <1>1, <1>2, <1>3, <1>4 DEF IInv

(* The worker takes the front of the queue.                                     *)
LEMMA PollStep == ASSUME IInv, Poll PROVE IInv'
<1>1. CASE quit
  BY <1>1 DEF IInv, TypeOK, OnePlace, SomePlace, WorkerCounted, OnlyPeriodic, Poll, WorkerLocations
<1>2. CASE ~quit
  <2>1. /\ tasksQueue # << >> /\ task' = Head(tasksQueue) /\ tasksQueue' = Tail(tasksQueue)
        /\ wpc = "loop" /\ wpc' = "check"
        /\ UNCHANGED <<quit, nextRunTime, canceled, known, workersCount, spc>>
    BY <1>2 DEF Poll
  <2>2. /\ task' \in Tasks /\ task' \in Elements(tasksQueue)
        /\ tasksQueue' \in Seq(Tasks) /\ Distinct(tasksQueue')
        /\ Elements(tasksQueue') = Elements(tasksQueue) \ {task'}
    BY <2>1, TailElements DEF IInv, TypeOK, OnePlace
  <2>3. task = None
    BY <2>1 DEF IInv, OnePlace
  <2>4. TypeOK'
    BY <2>1, <2>2 DEF IInv, TypeOK, WorkerLocations
  <2>5. OnePlace'
    BY <2>1, <2>2, TasksAssumption DEF IInv, OnePlace
  <2>6. SomePlace'
    BY <2>1, <2>2, <2>3, TasksAssumption DEF IInv, TypeOK, SomePlace, Alive
  <2>7. WorkerCounted'
    BY <2>1 DEF IInv, WorkerCounted
  <2> QED
    BY <2>4, <2>5, <2>6, <2>7 DEF IInv
<1> QED
  BY <1>1, <1>2

(* The worker looks at its task, or runs a one-time one and drops it.           *)
LEMMA CheckStep == ASSUME IInv, Check \/ RunOnce PROVE IInv'
<1>1. TypeOK'
  BY DEF IInv, TypeOK, Check, RunOnce, WorkerLocations
<1>2. OnePlace'
  BY DEF IInv, OnePlace, Check, RunOnce
<1>3. SomePlace'
  BY DEF IInv, SomePlace, Alive, WorkerCounted, Check, RunOnce
<1>4. WorkerCounted'
  BY DEF IInv, OnePlace, WorkerCounted, OnlyPeriodic, Check, RunOnce
<1> QED
  BY <1>1, <1>2, <1>3, <1>4 DEF IInv

(* The worker puts its task back, at the end after a run, else at the front.    *)
LEMMA PushStep == ASSUME IInv, RunDue \/ PushEarly PROVE IInv'
<1>1. task \in Tasks /\ task # None /\ task \in known /\ task \notin Elements(tasksQueue)
  BY DEF IInv, OnePlace, TypeOK, RunDue, PushEarly
<1>2. CASE quit
  <2>1. TypeOK'
    <3>1. nextRunTime' \in [Tasks -> Int]
      BY <1>1, PeriodAssumption DEF IInv, TypeOK, RunDue, PushEarly
    <3> QED
      BY <1>2, <3>1 DEF IInv, TypeOK, RunDue, PushEarly, WorkerLocations
  <2>2. OnePlace' /\ SomePlace'
    BY <1>2 DEF IInv, OnePlace, SomePlace, RunDue, PushEarly
  <2>3. WorkerCounted'
    BY DEF IInv, WorkerCounted, RunDue, PushEarly
  <2> QED
    BY <2>1, <2>2, <2>3 DEF IInv
<1>3. CASE ~quit
  <2>1. /\ tasksQueue' = Append(tasksQueue, task) \/ tasksQueue' = <<task>> \o tasksQueue
        /\ wpc \in {"due", "early"} /\ wpc' = "sleep" /\ task' = None
        /\ UNCHANGED <<quit, canceled, known, workersCount, spc>>
    BY <1>3 DEF RunDue, PushEarly, PushBackAfterRun
  <2>2. /\ tasksQueue' \in Seq(Tasks) /\ Distinct(tasksQueue')
        /\ Elements(tasksQueue') = Elements(tasksQueue) \cup {task}
    <3>1. tasksQueue \in Seq(Tasks) /\ Distinct(tasksQueue)
      BY DEF IInv, TypeOK, OnePlace
    <3>2. CASE tasksQueue' = Append(tasksQueue, task)
      BY ONLY <1>1, <3>1, <3>2, AppendElements
    <3>3. CASE tasksQueue' = <<task>> \o tasksQueue
      BY ONLY <1>1, <3>1, <3>3, ConsElements
    <3> QED
      BY <2>1, <3>2, <3>3
  <2>3. TypeOK'
    <3>1. nextRunTime' \in [Tasks -> Int]
      BY PeriodAssumption DEF IInv, TypeOK, RunDue, PushEarly
    <3> QED
      BY <2>1, <2>2, <3>1 DEF IInv, TypeOK, WorkerLocations
  <2>4. OnePlace'
    BY <1>1, <2>1, <2>2 DEF IInv, OnePlace
  <2>5. SomePlace'
    BY <2>1, <2>2 DEF IInv, SomePlace, Alive
  <2>6. WorkerCounted'
    BY <2>1 DEF IInv, WorkerCounted
  <2> QED
    BY <2>3, <2>4, <2>5, <2>6 DEF IInv
<1> QED
  BY <1>2, <1>3

-----------------------------------------------------------------------------
(* An executor without tasks and without a worker.                              *)
LEMMA InitiallyKept == Init => IInv
<1> SUFFICES ASSUME Init PROVE IInv
  OBVIOUS
<1>1. TypeOK
  <2>1. nextRunTime \in [Tasks -> Int]
    BY PeriodAssumption DEF Init
  <2>2. tasksQueue \in Seq(Tasks)
    BY DEF Init
  <2>3. wpc \in WorkerLocations /\ spc \in {"out", "start"} /\ workersCount \in {0, 1}
    BY DEF Init, WorkerLocations
  <2> QED
    BY <2>1, <2>2, <2>3 DEF Init, TypeOK
<1>2. OnePlace
  BY EmptyElements DEF Init, OnePlace
<1>3. SomePlace /\ WorkerCounted
  BY DEF Init, SomePlace, Alive, WorkerCounted
<1> QED
  BY <1>1, <1>2, <1>3 DEF IInv

(* Every step of the two threads, and of time, keeps the inductive invariant.   *)
LEMMA ExecutorStep == IInv /\ [Next]_vars => IInv'
<1> SUFFICES ASSUME IInv, [Next]_vars PROVE IInv'
  OBVIOUS
<1>1. CASE UNCHANGED vars
  BY <1>1 DEF vars, IInv, TypeOK, OnePlace, SomePlace, Alive, WorkerCounted, OnlyPeriodic
<1>2. CASE Next
  BY <1>2, ScheduleStep, QuietStep, PollStep, CheckStep, PushStep DEF Next, WorkerStep
<1> QED
  BY <1>1, <1>2

(* A task that is in the queue without repetition has one index there.          *)
LEMMA OneIndex ==
  ASSUME NEW q \in Seq(Tasks), Distinct(q), NEW t
  PROVE  Cardinality({i \in DOMAIN q : q[i] = t}) = IF t \in Elements(q) THEN 1 ELSE 0
<1>1. CASE t \in Elements(q)
  <2>1. PICK i \in DOMAIN q : q[i] = t
    BY <1>1 DEF Elements
  <2>2. {j \in DOMAIN q : q[j] = t} = {i}
    BY <2>1 DEF Distinct
  <2> QED
    BY <1>1, <2>2, FS_Singleton
<1>2. CASE t \notin Elements(q)
  <2>1. {j \in DOMAIN q : q[j] = t} = {}
    BY <1>2 DEF Elements
  <2> QED
    BY <1>2, <2>1, FS_EmptySet
<1> QED
  BY <1>1, <1>2

(* The executor's invariant says that tasks are kept, and kept where they will  *)
(* be found.                                                                    *)
LEMMA InvariantIsEnough == IInv => TasksAreKept
<1> SUFFICES ASSUME IInv PROVE TasksAreKept
  OBVIOUS
<1>1. NoTaskLost
  <2> SUFFICES ASSUME ~quit, NEW t \in Alive
               PROVE  Cardinality({i \in DOMAIN tasksQueue : tasksQueue[i] = t})
                        + (IF task = t THEN 1 ELSE 0) = 1
    BY DEF NoTaskLost
  <2>1. t \in Tasks /\ t # None
    BY TasksAssumption DEF Alive, IInv, TypeOK
  <2>2. t \in Elements(tasksQueue) \/ t = task
    BY DEF IInv, SomePlace
  <2>3. t = task => t \notin Elements(tasksQueue)
    BY <2>1 DEF IInv, OnePlace
  <2>4. Cardinality({i \in DOMAIN tasksQueue : tasksQueue[i] = t})
          = IF t \in Elements(tasksQueue) THEN 1 ELSE 0
    BY OneIndex DEF IInv, TypeOK, OnePlace
  <2> QED
    BY <2>2, <2>3, <2>4
<1>2. TasksHaveAWorker
  <2>1. tasksQueue # << >> => known # {}
    <3>1. tasksQueue \in Seq(Tasks) /\ Elements(tasksQueue) \subseteq known
      BY DEF IInv, TypeOK, OnePlace
    <3>2. tasksQueue # << >> => 1 \in DOMAIN tasksQueue
      BY <3>1
    <3> QED
      BY <3>1, <3>2 DEF Elements
  <2> QED
    BY <2>1 DEF TasksHaveAWorker, IInv, WorkerCounted
<1> QED
  BY <1>1, <1>2 DEF TasksAreKept, IInv

(* Until it is canceled, a periodic task is in the queue once or in the hands   *)
(* of the worker, and while there are tasks a worker runs or is being started,  *)
(* however the scheduling thread, the worker, cancel() and shutdown overlap.    *)
THEOREM ExecutorKeepsTasks == Spec => []TasksAreKept
<1>1. Spec => []IInv
  BY InitiallyKept, ExecutorStep, PTL DEF Spec
<1> QED
  BY <1>1, InvariantIsEnough, PTL

-----------------------------------------------------------------------------
(* Lateness. What a task still waits for: of each task before it, the ticks      *)
(* until that one is due and the one that follows its run; and, while the        *)
(* worker sleeps after a run, the tick that ends the sleep.                      *)
Before(t, q, h) ==
  {x \in Tasks \ {t} : x = h \/ \E i, j \in 1..Len(q) : i < j /\ q[i] = x /\ q[j] = t}
Ahead(S, next) == {p \in Waits(S) : p[2] = 0 \/ p[2] <= next[p[1]]}
Asleep(w, S, next) == IF w = "sleep" /\ \A x \in S : next[x] <= 0 THEN 1 ELSE 0
InTime(t, k, S, next, w) ==
  Cardinality(Ahead(S, next)) + Asleep(w, S, next) - next[t] <= Cardinality(Waits(k \ {t}))

LateInv ==
  /\ IInv
  /\ \A t \in Tasks : nextRunTime[t] <= Period[t]
  /\ wpc = "early" => nextRunTime[task] > 0
  /\ quit => known \subseteq canceled
  /\ OnlyPeriodic => \A t \in Alive : InTime(t, known, Before(t, tasksQueue, task), nextRunTime, wpc)

-----------------------------------------------------------------------------
LEMMA WaitsAre ==
  ASSUME NEW S, S \subseteq Tasks
  PROVE  \A p : p \in Waits(S) <=> \E x \in S : \E k \in 0..Period[x] : p = <<x, k>>
BY DEF Waits

LEMMA WaitsAreFinite ==
  ASSUME NEW S, S \subseteq Tasks
  PROVE  IsFiniteSet(Waits(S)) /\ Cardinality(Waits(S)) \in Nat
<1>1. IsFiniteSet(S)
  BY TasksAssumption, FS_Subset
<1>2. PICK T : T = {{x} \X (0..Period[x]) : x \in S}
  OBVIOUS
<1>3. PICK f : f = [x \in S |-> {x} \X (0..Period[x])]
  OBVIOUS
<1>4. f \in Surjection(S, T)
  BY <1>2, <1>3 DEF Surjection
<1>5. IsFiniteSet(T)
  BY <1>1, <1>4, FS_Surjection
<1>6. ASSUME NEW U \in T PROVE IsFiniteSet(U)
  <2>1. PICK x \in S : U = {x} \X (0..Period[x])
    BY <1>2
  <2>2. Period[x] \in Int
    BY PeriodAssumption
  <2>3. IsFiniteSet(0..Period[x])
    BY ONLY <2>2, FS_Interval
  <2>4. IsFiniteSet({x})
    BY FS_Singleton
  <2> QED
    BY ONLY <2>1, <2>3, <2>4, FS_Product
<1>7. IsFiniteSet(UNION T)
  BY ONLY <1>5, <1>6, FS_UNION
<1>8. UNION T = Waits(S)
  BY <1>2 DEF Waits
<1> QED
  BY <1>7, <1>8, FS_CardinalityType

LEMMA AheadIsFinite ==
  ASSUME NEW S, S \subseteq Tasks, NEW next
  PROVE  IsFiniteSet(Ahead(S, next)) /\ Cardinality(Ahead(S, next)) \in Nat /\ Ahead(S, next) \subseteq Waits(S)
<1>1. Ahead(S, next) \in SUBSET Waits(S)
  BY DEF Ahead
<1>2. IsFiniteSet(Ahead(S, next))
  BY <1>1, WaitsAreFinite, FS_Subset
<1> QED
  BY <1>1, <1>2, FS_CardinalityType

(* Sets that grow and shrink, and one that loses at least one element.          *)
LEMMA SmallerSet ==
  ASSUME NEW A, IsFiniteSet(A), NEW C, C \subseteq A
  PROVE  /\ IsFiniteSet(C) /\ Cardinality(C) \in Nat /\ Cardinality(A) \in Nat /\ Cardinality(C) <= Cardinality(A)
         /\ \A p \in A : p \notin C => Cardinality(C) + 1 <= Cardinality(A)
<1>1. C \in SUBSET A
  OBVIOUS
<1>2. IsFiniteSet(C) /\ Cardinality(C) <= Cardinality(A) /\ (Cardinality(A) = Cardinality(C) => A = C)
  BY <1>1, FS_Subset
<1>3. Cardinality(C) \in Nat /\ Cardinality(A) \in Nat
  BY <1>2, FS_CardinalityType
<1>4. ASSUME NEW p \in A, p \notin C PROVE Cardinality(C) + 1 <= Cardinality(A)
  <2>1. Cardinality(A) # Cardinality(C)
    BY <1>2, <1>4
  <2> QED
    BY <1>2, <1>3, <2>1
<1> QED
  BY <1>2, <1>3, <1>4

LEMMA AsleepIs == \A w, S, next : Asleep(w, S, next) \in {0, 1} /\ (w # "sleep" => Asleep(w, S, next) = 0)
BY DEF Asleep

(* A task that is not yet due is in time, whatever is before it.                *)
LEMMA NotYetDue ==
  ASSUME NEW t \in Tasks, NEW k, k \subseteq Tasks, NEW S, S \subseteq k \ {t}, NEW next \in [Tasks -> Int], next[t] >= 1, NEW w
  PROVE  InTime(t, k, S, next, w)
<1>1. Waits(S) \subseteq Waits(k \ {t})
  BY DEF Waits
<1>2. Ahead(S, next) \subseteq Waits(k \ {t})
  BY <1>1, AheadIsFinite
<1>3. PICK a, b : a = Cardinality(Ahead(S, next)) /\ b = Cardinality(Waits(k \ {t}))
  OBVIOUS
<1>4. a \in Nat /\ b \in Nat /\ a <= b
  BY <1>2, <1>3, WaitsAreFinite, SmallerSet
<1>5. PICK s \in {0, 1} : s = Asleep(w, S, next)
  BY AsleepIs
<1>6. PICK m \in Int : m = next[t] /\ m >= 1
  OBVIOUS
<1>7. a + s - m <= b
  BY ONLY <1>4, <1>5, <1>6
<1> QED
  BY <1>3, <1>5, <1>6, <1>7 DEF InTime

(* Nothing comes before a task that was not before it, and no tick passes.      *)
LEMMA StaysInTime ==
  ASSUME NEW t \in Tasks, NEW k, k \subseteq Tasks, NEW S, S \subseteq Tasks, NEW next \in [Tasks -> Int], NEW w,
         InTime(t, k, S, next, w),
         NEW l, l \subseteq Tasks, k \subseteq l, NEW R, R \subseteq S, NEW later \in [Tasks -> Int], NEW v,
         later[t] = next[t], \A x \in R : later[x] = next[x], Asleep(v, R, later) <= Asleep(w, S, next)
  PROVE  InTime(t, l, R, later, v)
<1>1. Waits(k \ {t}) \subseteq Waits(l \ {t}) /\ Waits(R) \subseteq Waits(S)
  BY DEF Waits
<1>2. Ahead(R, later) \subseteq Ahead(S, next)
  <2>1. SUFFICES ASSUME NEW p \in Ahead(R, later) PROVE p \in Ahead(S, next)
    OBVIOUS
  <2>2. p \in Waits(R) /\ (p[2] = 0 \/ p[2] <= later[p[1]])
    BY <2>1 DEF Ahead
  <2>3. PICK x \in R : \E i \in 0..Period[x] : p = <<x, i>>
    BY <2>2, WaitsAre
  <2>4. later[p[1]] = next[p[1]]
    BY <2>3
  <2> QED
    BY <1>1, <2>2, <2>4 DEF Ahead
<1>3. PICK a, b, c, d : /\ a = Cardinality(Ahead(S, next)) /\ b = Cardinality(Waits(k \ {t}))
                        /\ c = Cardinality(Ahead(R, later)) /\ d = Cardinality(Waits(l \ {t}))
  OBVIOUS
<1>4. a \in Nat /\ c \in Nat /\ c <= a
  BY <1>2, <1>3, AheadIsFinite, SmallerSet
<1>5. b \in Nat /\ d \in Nat /\ b <= d
  BY <1>1, <1>3, WaitsAreFinite, SmallerSet
<1>6. PICK s \in {0, 1} : s = Asleep(w, S, next)
  BY AsleepIs
<1>7. PICK r \in {0, 1} : r = Asleep(v, R, later) /\ r <= s
  BY <1>6, AsleepIs
<1>8. PICK m \in Int : m = next[t] /\ m = later[t]
  OBVIOUS
<1>9. a + s - m <= b
  BY <1>3, <1>6, <1>8 DEF InTime
<1>10. c + r - m <= d
  BY ONLY <1>4, <1>5, <1>6, <1>7, <1>8, <1>9
<1> QED
  BY <1>3, <1>7, <1>8, <1>10 DEF InTime

(* One that was before it is no longer: that pays for the sleep that follows.   *)
LEMMA OneIsGone ==
  ASSUME NEW t \in Tasks, NEW k, k \subseteq Tasks, NEW S, S \subseteq Tasks, NEW next \in [Tasks -> Int], NEW w,
         InTime(t, k, S, next, w), NEW gone \in S,
         NEW R, R \subseteq S \ {gone}, NEW later \in [Tasks -> Int], NEW v,
         later[t] = next[t], \A x \in R : later[x] = next[x]
  PROVE  InTime(t, k, R, later, v)
<1>1. Waits(R) \subseteq Waits(S)
  BY DEF Waits
<1>2. Ahead(R, later) \subseteq Ahead(S, next)
  <2>1. SUFFICES ASSUME NEW p \in Ahead(R, later) PROVE p \in Ahead(S, next)
    OBVIOUS
  <2>2. p \in Waits(R) /\ (p[2] = 0 \/ p[2] <= later[p[1]])
    BY <2>1 DEF Ahead
  <2>3. PICK x \in R : \E i \in 0..Period[x] : p = <<x, i>>
    BY <2>2, WaitsAre
  <2>4. later[p[1]] = next[p[1]]
    BY <2>3
  <2> QED
    BY <1>1, <2>2, <2>4 DEF Ahead
<1>3. <<gone, 0>> \in Ahead(S, next) /\ <<gone, 0>> \notin Ahead(R, later)
  <2>1. 0 \in 0..Period[gone]
    BY PeriodAssumption
  <2>2. <<gone, 0>> \in Waits(S)
    BY <2>1, WaitsAre
  <2>3. <<gone, 0>> \notin Waits(R)
    BY WaitsAre
  <2> QED
    BY <2>2, <2>3 DEF Ahead
<1>4. PICK a, b, c : a = Cardinality(Ahead(S, next)) /\ b = Cardinality(Waits(k \ {t})) /\ c = Cardinality(Ahead(R, later))
  OBVIOUS
<1>5. a \in Nat /\ c \in Nat /\ c + 1 <= a
  BY <1>2, <1>3, <1>4, AheadIsFinite, SmallerSet
<1>6. b \in Nat
  BY <1>4, WaitsAreFinite
<1>7. PICK s \in {0, 1} : s = Asleep(w, S, next)
  BY AsleepIs
<1>8. PICK r \in {0, 1} : r = Asleep(v, R, later)
  BY AsleepIs
<1>9. PICK m \in Int : m = next[t] /\ m = later[t]
  OBVIOUS
<1>10. a + s - m <= b
  BY <1>4, <1>7, <1>9 DEF InTime
<1>11. c + r - m <= b
  BY ONLY <1>5, <1>6, <1>7, <1>8, <1>9, <1>10
<1> QED
  BY <1>4, <1>8, <1>9, <1>11 DEF InTime

(* A tick: the sleep ends, or a task that is before it comes nearer.            *)
LEMMA OneTick ==
  ASSUME NEW t \in Tasks, NEW k, k \subseteq Tasks, NEW S, S \subseteq Tasks, NEW next \in [Tasks -> Int],
         \A x \in Tasks : next[x] <= Period[x], InTime(t, k, S, next, "sleep"), NEW later \in [Tasks -> Int],
         later[t] >= next[t] - 1, \A x \in S : later[x] <= next[x], \A x \in S : next[x] > 0 => later[x] = next[x] - 1
  PROVE  InTime(t, k, S, later, "loop")
<1>1. Ahead(S, later) \subseteq Ahead(S, next)
  <2>1. SUFFICES ASSUME NEW p \in Ahead(S, later) PROVE p \in Ahead(S, next)
    OBVIOUS
  <2>2. p \in Waits(S) /\ (p[2] = 0 \/ p[2] <= later[p[1]])
    BY <2>1 DEF Ahead
  <2>3. PICK x \in S : \E i \in 0..Period[x] : p = <<x, i>>
    BY <2>2, WaitsAre
  <2>4. p[1] = x /\ p[2] \in Int /\ later[x] \in Int /\ next[x] \in Int /\ later[x] <= next[x]
    BY <2>3
  <2> QED
    BY <2>2, <2>4 DEF Ahead
<1>2. PICK a, b, c : a = Cardinality(Ahead(S, next)) /\ b = Cardinality(Waits(k \ {t})) /\ c = Cardinality(Ahead(S, later))
  OBVIOUS
<1>3. a \in Nat /\ c \in Nat /\ c <= a /\ (\A p \in Ahead(S, next) : p \notin Ahead(S, later) => c + 1 <= a)
  BY <1>1, <1>2, AheadIsFinite, SmallerSet
<1>4. b \in Nat
  BY <1>2, WaitsAreFinite
<1>5. PICK s \in {0, 1} : s = Asleep("sleep", S, next)
  BY AsleepIs
<1>6. Asleep("loop", S, later) = 0
  BY DEF Asleep
<1>7. PICK m \in Int, n \in Int : m = next[t] /\ n = later[t] /\ n >= m - 1
  OBVIOUS
<1>8. a + s - m <= b
  BY <1>2, <1>5, <1>7 DEF InTime
<1>9. c + 1 <= a + s
  <2>1. CASE \A x \in S : next[x] <= 0
    <3>1. s = 1
      BY <1>5, <2>1 DEF Asleep
    <3> QED
      BY <1>3, <3>1
  <2>2. CASE ~(\A x \in S : next[x] <= 0)
    <3>1. PICK x \in S : next[x] > 0
      <4>1. \A x \in S : next[x] \in Int
        OBVIOUS
      <4> QED
        BY <2>2, <4>1
    <3>2. next[x] \in 0..Period[x] /\ next[x] \in Int
      BY <3>1, PeriodAssumption
    <3>3. <<x, next[x]>> \in Ahead(S, next)
      BY <3>2, WaitsAre DEF Ahead
    <3>4. <<x, next[x]>> \notin Ahead(S, later)
      <4>1. later[x] = next[x] - 1
        BY <3>1
      <4>2. ~(next[x] <= later[x]) /\ next[x] # 0
        BY <3>1, <3>2, <4>1
      <4> QED
        BY <4>2 DEF Ahead
    <3>5. c + 1 <= a
      BY <1>3, <3>3, <3>4
    <3> QED
      BY ONLY <1>3, <1>5, <3>5
  <2> QED
    BY <2>1, <2>2
<1>10. c + 0 - n <= b
  BY ONLY <1>3, <1>4, <1>5, <1>7, <1>8, <1>9
<1> QED
  BY <1>2, <1>6, <1>7, <1>10 DEF InTime

(* Where a task that is neither canceled nor in the worker's hands is.          *)
LEMMA AliveIsKnown == ASSUME LateInv, NEW t \in Alive PROVE t \in Tasks /\ t \in known /\ t # None
BY TasksAssumption DEF LateInv, IInv, TypeOK, Alive

LEMMA BeforeIsKnown ==
  ASSUME NEW q \in Seq(Tasks), NEW h, NEW k, Elements(q) \subseteq k, h # None => h \in k, NEW t
  PROVE  Before(t, q, h) \subseteq k \ {t} /\ Before(t, q, h) \subseteq Tasks
<1>1. SUFFICES ASSUME NEW x \in Before(t, q, h) PROVE x \in k /\ x # t /\ x \in Tasks
  OBVIOUS
<1>2. x \in Tasks /\ x # t /\ x # None
  BY TasksAssumption DEF Before
<1>3. CASE x = h
  BY <1>2, <1>3
<1>4. CASE x # h
  <2>1. PICK i \in 1..Len(q) : q[i] = x
    BY <1>4 DEF Before
  <2>2. x \in Elements(q)
    BY <2>1 DEF Elements
  <2> QED
    BY <1>2, <2>2
<1> QED
  BY <1>3, <1>4

(* The facts that every step keeps, besides the lateness.                       *)
LEMMA TimesStep ==
  ASSUME LateInv, Next
  PROVE  /\ IInv' /\ (\A t \in Tasks : nextRunTime'[t] <= Period[t])
         /\ (wpc' = "early" => nextRunTime'[task'] > 0) /\ (quit' => known' \subseteq canceled')
<1>1. IInv'
  BY ExecutorStep DEF LateInv
<1>2. \A t \in Tasks : nextRunTime[t] \in Int /\ Period[t] \in Nat /\ nextRunTime[t] <= Period[t]
  BY PeriodAssumption DEF LateInv, IInv, TypeOK
<1>3. nextRunTime \in [Tasks -> Int]
  BY DEF LateInv, IInv, TypeOK
<1>4. \A t \in Tasks : nextRunTime'[t] <= Period[t]
  <2>1. CASE \E u \in Tasks : Schedule(u)
    BY <1>2, <1>3, <2>1 DEF Schedule
  <2>2. CASE RunDue
    BY <1>2, <1>3, <2>2 DEF RunDue
  <2>3. CASE Tick
    <3>1. SUFFICES ASSUME NEW t \in Tasks PROVE nextRunTime'[t] <= Period[t]
      OBVIOUS
    <3>2. nextRunTime'[t] = nextRunTime[t] \/ nextRunTime'[t] = nextRunTime[t] - 1
      BY <1>3, <2>3 DEF Tick
    <3> QED
      BY <1>2, <3>2
  <2>4. CASE UNCHANGED nextRunTime
    BY <1>2, <2>4
  <2> QED
    BY <2>1, <2>2, <2>3, <2>4 DEF Next, WorkerStep, Cancel, StartWorker, Shutdown, Poll, Check, RunOnce, PushEarly, LeaveWorker
<1>5. wpc' = "early" => nextRunTime'[task'] > 0
  <2>1. CASE Check
    <3>1. SUFFICES ASSUME wpc' = "early" PROVE nextRunTime'[task'] > 0
      OBVIOUS
    <3>2. task' = task /\ nextRunTime' = nextRunTime /\ ~(nextRunTime[task] <= 0) /\ task # None
      BY <2>1, <3>1 DEF Check, LateInv, IInv, OnePlace
    <3>3. nextRunTime[task] \in Int
      BY <1>2, <3>2 DEF LateInv, IInv, TypeOK
    <3> QED
      BY <3>2, <3>3
  <2>2. CASE \E u \in Tasks : Schedule(u)
    <3>1. PICK u \in Tasks : Schedule(u)
      BY <2>2
    <3>2. wpc = "early" => task # u
      BY <3>1 DEF Schedule, LateInv, IInv, OnePlace
    <3> QED
      BY <1>3, <3>1, <3>2 DEF Schedule, LateInv
  <2>3. CASE Tick
    BY <2>3 DEF Tick
  <2>4. CASE wpc' = wpc /\ UNCHANGED <<task, nextRunTime>>
    BY <2>4 DEF LateInv
  <2>5. CASE wpc' # "early"
    BY <2>5
  <2> QED
    BY <2>1, <2>2, <2>3, <2>4, <2>5
       DEF Next, WorkerStep, Cancel, StartWorker, Shutdown, Poll, RunOnce, RunDue, PushEarly, LeaveWorker
<1>6. quit' => known' \subseteq canceled'
  BY DEF LateInv, Next, WorkerStep, Schedule, Cancel, StartWorker, Shutdown, Poll, Check, RunOnce, RunDue, PushEarly, LeaveWorker, Tick
<1> QED
  BY <1>1, <1>4, <1>5, <1>6

-----------------------------------------------------------------------------
(* The lateness of one task, action by action.                                  *)
InTimeNow(t) == InTime(t, known, Before(t, tasksQueue, task), nextRunTime, wpc)
InTimeNext(t) == InTime(t, known', Before(t, tasksQueue', task'), nextRunTime', wpc')

LEMMA ScheduleInTime ==
  ASSUME LateInv, NEW u \in Tasks, Schedule(u), IInv', OnlyPeriodic', NEW t \in Tasks, t \in Alive',
         t # u => InTimeNow(t)
  PROVE  InTimeNext(t)
<1>1. /\ tasksQueue \in Seq(Tasks) /\ known \subseteq Tasks /\ known' \subseteq Tasks /\ known \subseteq known'
      /\ nextRunTime \in [Tasks -> Int] /\ nextRunTime' \in [Tasks -> Int]
  BY DEF LateInv, IInv, TypeOK, Schedule
<1>2. u \in known' /\ Period[u] > 0 /\ Period[u] \in Nat
  BY PeriodAssumption DEF Schedule, OnlyPeriodic
<1>3. tasksQueue' = Append(tasksQueue, u) /\ task' = task /\ wpc' = wpc /\ nextRunTime' = [nextRunTime EXCEPT ![u] = Period[u]]
  BY <1>2 DEF Schedule
<1>4. CASE t = u
  <2>1. nextRunTime'[t] >= 1
    BY <1>1, <1>2, <1>3, <1>4
  <2>2. /\ tasksQueue' \in Seq(Tasks) /\ Elements(tasksQueue') \subseteq known' /\ (task' # None => task' \in known')
    BY DEF IInv, TypeOK, OnePlace
  <2>3. Before(t, tasksQueue', task') \subseteq known' \ {t}
    BY <2>2, BeforeIsKnown
  <2> QED
    BY <1>1, <2>1, <2>3, NotYetDue DEF InTimeNext
<1>5. CASE t # u
  <2>1. PICK q : q = tasksQueue'
    OBVIOUS
  <2>2. /\ Len(q) = Len(tasksQueue) + 1 /\ q[Len(tasksQueue) + 1] = u /\ Len(tasksQueue) \in Nat
        /\ \A i \in 1..Len(tasksQueue) : q[i] = tasksQueue[i]
    BY ONLY <1>1, <1>3, <2>1, u \in Tasks
  <2>3. u \notin Before(t, q, task) /\ Before(t, q, task) \subseteq Before(t, tasksQueue, task)
    <3>1. SUFFICES ASSUME NEW x \in Before(t, q, task) PROVE x \in Before(t, tasksQueue, task) /\ x # u
      OBVIOUS
    <3>2. x \in Tasks /\ x # t
      BY <3>1 DEF Before
    <3>3. u \notin known /\ u # None
      BY TasksAssumption DEF Schedule
    <3>4. CASE x = task
      BY <3>2, <3>3, <3>4 DEF Before, LateInv, IInv, OnePlace
    <3>5. CASE x # task
      <4>1. PICK i, j \in 1..Len(q) : i < j /\ q[i] = x /\ q[j] = t
        BY <3>1, <3>5 DEF Before
      <4>2. j \in 1..Len(tasksQueue) /\ i \in 1..Len(tasksQueue)
        BY ONLY <1>5, <2>2, <4>1
      <4>3. tasksQueue[i] = x /\ tasksQueue[j] = t
        BY <2>2, <4>1, <4>2
      <4>4. x \in known
        BY <1>1, <4>2, <4>3 DEF LateInv, IInv, OnePlace, Elements
      <4> QED
        BY <3>2, <3>3, <4>1, <4>2, <4>3, <4>4 DEF Before
    <3> QED
      BY <3>4, <3>5
  <2>4. nextRunTime'[t] = nextRunTime[t] /\ \A x \in Before(t, q, task) : nextRunTime'[x] = nextRunTime[x]
    <3>1. \A x \in Tasks : x # u => nextRunTime'[x] = nextRunTime[x]
      BY <1>1, <1>3
    <3>2. Before(t, q, task) \subseteq Tasks
      BY DEF Before
    <3> QED
      BY <1>5, <2>3, <3>1, <3>2
  <2>5. Asleep(wpc', Before(t, q, task), nextRunTime') <= Asleep(wpc, Before(t, tasksQueue, task), nextRunTime)
    <3>1. Before(t, tasksQueue, task) \subseteq Before(t, q, task)
      <4>1. 1..Len(tasksQueue) \subseteq 1..Len(q)
        BY <2>2
      <4> QED
        BY <2>2, <4>1 DEF Before
    <3>2. Before(t, q, task) = Before(t, tasksQueue, task)
      BY <2>3, <3>1
    <3>3. CASE wpc = "sleep" /\ \A x \in Before(t, tasksQueue, task) : nextRunTime[x] <= 0
      <4>1. Asleep(wpc, Before(t, tasksQueue, task), nextRunTime) = 1
        BY <3>3 DEF Asleep
      <4> QED
        BY <4>1, AsleepIs
    <3>4. CASE ~(wpc = "sleep" /\ \A x \in Before(t, tasksQueue, task) : nextRunTime[x] <= 0)
      <4>1. Asleep(wpc', Before(t, q, task), nextRunTime') = 0
        BY <1>3, <2>4, <3>2, <3>4 DEF Asleep
      <4> QED
        BY <4>1, AsleepIs
    <3> QED
      BY <3>3, <3>4
  <2>6. Before(t, tasksQueue, task) \subseteq Tasks
    BY DEF Before
  <2>7. InTime(t, known, Before(t, tasksQueue, task), nextRunTime, wpc)
    BY <1>5 DEF InTimeNow
  <2>8. InTime(t, known', Before(t, q, task), nextRunTime', wpc')
    BY ONLY <1>1, <2>3, <2>4, <2>5, <2>6, <2>7, t \in Tasks, StaysInTime
  <2> QED
    BY <1>3, <2>1, <2>8 DEF InTimeNext
<1> QED
  BY <1>4, <1>5

(* The worker takes the first task: it is before the others still.              *)
LEMMA PollInTime ==
  ASSUME LateInv, Poll, ~quit, NEW t \in Alive, InTimeNow(t)
  PROVE  InTimeNext(t)
<1>1. /\ tasksQueue \in Seq(Tasks) /\ known \subseteq Tasks /\ nextRunTime \in [Tasks -> Int] /\ t \in Tasks
      /\ Distinct(tasksQueue) /\ t # None
  BY AliveIsKnown DEF LateInv, IInv, TypeOK, OnePlace
<1>2. /\ tasksQueue # << >> /\ task' = Head(tasksQueue) /\ tasksQueue' = Tail(tasksQueue) /\ wpc' = "check"
      /\ known' = known /\ nextRunTime' = nextRunTime
  BY DEF Poll
<1>3. PICK q : q = Tail(tasksQueue)
  OBVIOUS
<1>4. /\ Len(tasksQueue) \in Nat /\ Len(tasksQueue) >= 1 /\ Len(q) = Len(tasksQueue) - 1
      /\ (\A i \in 1..Len(q) : q[i] = tasksQueue[i + 1]) /\ Head(tasksQueue) = tasksQueue[1]
  BY ONLY <1>1, <1>2, <1>3
<1>5. Before(t, q, task') \subseteq Before(t, tasksQueue, task)
  <2>1. SUFFICES ASSUME NEW x \in Before(t, q, task') PROVE x \in Before(t, tasksQueue, task)
    OBVIOUS
  <2>2. x \in Tasks /\ x # t
    BY <2>1 DEF Before
  <2>3. CASE x = task'
    <3>1. x = tasksQueue[1] /\ 1 \in 1..Len(tasksQueue)
      BY <1>2, <1>4, <2>3
    <3>2. t \in Elements(tasksQueue)
      BY <1>1 DEF LateInv, IInv, SomePlace, OnePlace, Poll
    <3>3. PICK j \in 1..Len(tasksQueue) : tasksQueue[j] = t
      BY <1>1, <3>2 DEF Elements
    <3>4. 1 < j
      BY <2>2, <3>1, <3>3
    <3> QED
      BY <2>2, <3>1, <3>3, <3>4 DEF Before
  <2>4. CASE x # task'
    <3>1. PICK i, j \in 1..Len(q) : i < j /\ q[i] = x /\ q[j] = t
      BY <2>1, <2>4 DEF Before
    <3>2. i + 1 \in 1..Len(tasksQueue) /\ j + 1 \in 1..Len(tasksQueue) /\ i + 1 < j + 1
      BY ONLY <1>4, <3>1
    <3>3. tasksQueue[i + 1] = x /\ tasksQueue[j + 1] = t
      BY <1>4, <3>1
    <3> QED
      BY <2>2, <3>2, <3>3 DEF Before
  <2> QED
    BY <2>3, <2>4
<1>6. Asleep(wpc', Before(t, q, task'), nextRunTime') <= Asleep(wpc, Before(t, tasksQueue, task), nextRunTime)
  BY <1>2, AsleepIs
<1>7. Before(t, tasksQueue, task) \subseteq Tasks /\ known \subseteq known
  BY DEF Before
<1>8. nextRunTime' \in [Tasks -> Int] /\ nextRunTime'[t] = nextRunTime[t]
      /\ \A x \in Before(t, q, task') : nextRunTime'[x] = nextRunTime[x]
  BY <1>1, <1>2
<1>9. InTime(t, known, Before(t, tasksQueue, task), nextRunTime, wpc)
  BY DEF InTimeNow
<1>10. InTime(t, known, Before(t, q, task'), nextRunTime', wpc')
  BY ONLY <1>1, <1>5, <1>6, <1>7, <1>8, <1>9, StaysInTime
<1> QED
  BY <1>2, <1>3, <1>10 DEF InTimeNext

(* It drops a canceled one, or looks at the time.                               *)
LEMMA CheckInTime ==
  ASSUME LateInv, Check, NEW t \in Alive, InTimeNow(t)
  PROVE  InTimeNext(t)
<1>1. /\ known \subseteq Tasks /\ nextRunTime \in [Tasks -> Int] /\ t \in Tasks /\ t # None /\ t \notin canceled
      /\ tasksQueue' = tasksQueue /\ known' = known /\ nextRunTime' = nextRunTime
  BY AliveIsKnown DEF LateInv, IInv, TypeOK, OnePlace, Check, Alive
<1>2. Before(t, tasksQueue, task) \subseteq Tasks /\ known \subseteq known
  BY DEF Before
<1>3. InTime(t, known, Before(t, tasksQueue, task), nextRunTime, wpc)
  BY DEF InTimeNow
<1>4. CASE task \in canceled
  <2>1. task' = None /\ task # None /\ task \in Tasks /\ task # t /\ task \notin Elements(tasksQueue)
        /\ tasksQueue \in Seq(Tasks)
    BY <1>1, <1>4 DEF Check, LateInv, IInv, TypeOK, OnePlace
  <2>2. task \in Before(t, tasksQueue, task)
    BY <2>1 DEF Before
  <2>3. Before(t, tasksQueue, None) \subseteq Before(t, tasksQueue, task) \ {task}
    <3>1. SUFFICES ASSUME NEW x \in Before(t, tasksQueue, None) PROVE x \in Before(t, tasksQueue, task) /\ x # task
      OBVIOUS
    <3>2. PICK i, j \in 1..Len(tasksQueue) : i < j /\ tasksQueue[i] = x /\ tasksQueue[j] = t
      BY <3>1, TasksAssumption DEF Before
    <3>3. x # task
      BY <2>1, <3>2 DEF Elements
    <3> QED
      BY <3>1, <3>2, <3>3 DEF Before
  <2>4. \A x \in Before(t, tasksQueue, None) : nextRunTime[x] = nextRunTime[x]
    OBVIOUS
  <2>5. InTime(t, known, Before(t, tasksQueue, None), nextRunTime, wpc')
    BY ONLY <1>1, <1>2, <1>3, <2>2, <2>3, <2>4, OneIsGone
  <2> QED
    BY <1>1, <2>1, <2>5 DEF InTimeNext
<1>5. CASE task \notin canceled
  <2>1. task' = task /\ wpc' # "sleep"
    BY <1>5 DEF Check
  <2>2. Asleep(wpc', Before(t, tasksQueue, task), nextRunTime) <= Asleep(wpc, Before(t, tasksQueue, task), nextRunTime)
    BY <2>1, AsleepIs
  <2>3. Before(t, tasksQueue, task) \subseteq Before(t, tasksQueue, task)
        /\ \A x \in Before(t, tasksQueue, task) : nextRunTime[x] = nextRunTime[x]
    OBVIOUS
  <2>4. InTime(t, known, Before(t, tasksQueue, task), nextRunTime, wpc')
    BY ONLY <1>1, <1>2, <1>3, <2>2, <2>3, StaysInTime
  <2> QED
    BY <1>1, <2>1, <2>4 DEF InTimeNext
<1> QED
  BY <1>4, <1>5

(* A task that was run is behind the others, with its period to wait.           *)
LEMMA RunDueInTime ==
  ASSUME LateInv, RunDue, ~quit, IInv', OnlyPeriodic, NEW t \in Alive, InTimeNow(t)
  PROVE  InTimeNext(t)
<1>1. /\ tasksQueue \in Seq(Tasks) /\ known \subseteq Tasks /\ nextRunTime \in [Tasks -> Int] /\ t \in Tasks /\ t # None
      /\ nextRunTime' \in [Tasks -> Int] /\ known' = known /\ task' = None /\ tasksQueue' = Append(tasksQueue, task)
      /\ nextRunTime' = [nextRunTime EXCEPT ![task] = Period[task]] /\ task \in Tasks /\ task # None
      /\ task \in known /\ task \notin Elements(tasksQueue)
  BY AliveIsKnown DEF LateInv, IInv, TypeOK, OnePlace, RunDue, PushBackAfterRun
<1>2. CASE t = task
  <2>1. nextRunTime'[t] >= 1
    <3>1. Period[t] > 0 /\ Period[t] \in Nat
      BY <1>1, <1>2, PeriodAssumption DEF OnlyPeriodic
    <3> QED
      BY <1>1, <1>2, <3>1
  <2>2. /\ tasksQueue' \in Seq(Tasks) /\ Elements(tasksQueue') \subseteq known' /\ (task' # None => task' \in known')
    BY DEF IInv, TypeOK, OnePlace
  <2>3. Before(t, tasksQueue', task') \subseteq known' \ {t}
    BY <2>2, BeforeIsKnown
  <2> QED
    BY <1>1, <2>1, <2>3, NotYetDue DEF InTimeNext
<1>3. CASE t # task
  <2>1. PICK q : q = tasksQueue'
    OBVIOUS
  <2>2. /\ Len(q) = Len(tasksQueue) + 1 /\ q[Len(tasksQueue) + 1] = task /\ Len(tasksQueue) \in Nat
        /\ \A i \in 1..Len(tasksQueue) : q[i] = tasksQueue[i]
    BY ONLY <1>1, <2>1
  <2>3. task \in Before(t, tasksQueue, task) /\ Before(t, tasksQueue, task) \subseteq Tasks
    BY <1>1, <1>3 DEF Before
  <2>4. Before(t, q, None) \subseteq Before(t, tasksQueue, task) \ {task}
    <3>1. SUFFICES ASSUME NEW x \in Before(t, q, None) PROVE x \in Before(t, tasksQueue, task) /\ x # task
      OBVIOUS
    <3>2. PICK i, j \in 1..Len(q) : i < j /\ q[i] = x /\ q[j] = t
      BY <3>1, TasksAssumption DEF Before
    <3>3. j \in 1..Len(tasksQueue) /\ i \in 1..Len(tasksQueue)
      BY ONLY <1>3, <2>2, <3>2
    <3>4. tasksQueue[i] = x /\ tasksQueue[j] = t
      BY <2>2, <3>2, <3>3
    <3>5. x # task
      BY <1>1, <3>3, <3>4 DEF Elements
    <3> QED
      BY <3>1, <3>2, <3>3, <3>4, <3>5 DEF Before
  <2>5. nextRunTime'[t] = nextRunTime[t] /\ \A x \in Before(t, q, None) : nextRunTime'[x] = nextRunTime[x]
    <3>1. \A x \in Tasks : x # task => nextRunTime'[x] = nextRunTime[x]
      BY <1>1
    <3> QED
      BY <1>1, <1>3, <2>3, <2>4, <3>1
  <2>6. InTime(t, known, Before(t, tasksQueue, task), nextRunTime, wpc)
    BY DEF InTimeNow
  <2>7. InTime(t, known, Before(t, q, None), nextRunTime', wpc')
    BY ONLY <1>1, <2>3, <2>4, <2>5, <2>6, OneIsGone
  <2> QED
    BY <1>1, <2>1, <2>7 DEF InTimeNext
<1> QED
  BY <1>2, <1>3

(* One that is too early is in front of the others again, and not yet due.      *)
LEMMA PushEarlyInTime ==
  ASSUME LateInv, PushEarly, ~quit, IInv', NEW t \in Alive, InTimeNow(t)
  PROVE  InTimeNext(t)
<1>1. /\ tasksQueue \in Seq(Tasks) /\ known \subseteq Tasks /\ nextRunTime \in [Tasks -> Int] /\ t \in Tasks /\ t # None
      /\ nextRunTime' = nextRunTime /\ known' = known /\ task' = None /\ tasksQueue' = <<task>> \o tasksQueue
      /\ task \in Tasks /\ task # None /\ nextRunTime[task] > 0 /\ wpc' = "sleep"
  BY AliveIsKnown DEF LateInv, IInv, TypeOK, OnePlace, PushEarly
<1>2. CASE t = task
  <2>1. nextRunTime'[t] >= 1
    BY <1>1, <1>2
  <2>2. /\ tasksQueue' \in Seq(Tasks) /\ Elements(tasksQueue') \subseteq known' /\ (task' # None => task' \in known')
    BY DEF IInv, TypeOK, OnePlace
  <2>3. Before(t, tasksQueue', task') \subseteq known' \ {t}
    BY <2>2, BeforeIsKnown
  <2> QED
    BY <1>1, <2>1, <2>3, NotYetDue DEF InTimeNext
<1>3. CASE t # task
  <2>1. PICK q : q = tasksQueue'
    OBVIOUS
  <2>2. /\ Len(q) = Len(tasksQueue) + 1 /\ q[1] = task /\ Len(tasksQueue) \in Nat
        /\ \A i \in 1..Len(tasksQueue) : q[i + 1] = tasksQueue[i]
    BY ONLY <1>1, <2>1
  <2>3. Before(t, q, None) \subseteq Before(t, tasksQueue, task)
    <3>1. SUFFICES ASSUME NEW x \in Before(t, q, None), x # task PROVE x \in Before(t, tasksQueue, task)
      BY <1>1, <1>3 DEF Before
    <3>2. PICK i, j \in 1..Len(q) : i < j /\ q[i] = x /\ q[j] = t
      BY <3>1, TasksAssumption DEF Before
    <3>3. i # 1
      BY <2>2, <3>1, <3>2
    <3>4. i - 1 \in 1..Len(tasksQueue) /\ j - 1 \in 1..Len(tasksQueue) /\ i - 1 < j - 1 /\ i = (i - 1) + 1 /\ j = (j - 1) + 1
      BY ONLY <2>2, <3>2, <3>3
    <3>5. tasksQueue[i - 1] = x /\ tasksQueue[j - 1] = t
      BY <2>2, <3>2, <3>4
    <3> QED
      BY <3>1, <3>4, <3>5 DEF Before
  <2>4. task \in Before(t, q, None)
    <3>1. t \in Elements(tasksQueue)
      BY <1>3 DEF LateInv, IInv, SomePlace
    <3>2. PICK j \in 1..Len(tasksQueue) : tasksQueue[j] = t
      BY <1>1, <3>1 DEF Elements
    <3>3. q[j + 1] = t /\ j + 1 \in 1..Len(q) /\ 1 \in 1..Len(q) /\ 1 < j + 1
      BY <2>2, <3>2
    <3> QED
      BY <1>1, <1>3, <2>2, <3>3 DEF Before
  <2>5. Asleep(wpc', Before(t, q, None), nextRunTime') <= Asleep(wpc, Before(t, tasksQueue, task), nextRunTime)
    <3>1. ~(nextRunTime'[task] <= 0)
      BY <1>1
    <3>2. Asleep(wpc', Before(t, q, None), nextRunTime') = 0
      BY <2>4, <3>1 DEF Asleep
    <3> QED
      BY <3>2, AsleepIs
  <2>6. Before(t, tasksQueue, task) \subseteq Tasks /\ known \subseteq known
    BY DEF Before
  <2>7. nextRunTime' \in [Tasks -> Int] /\ nextRunTime'[t] = nextRunTime[t]
        /\ \A x \in Before(t, q, None) : nextRunTime'[x] = nextRunTime[x]
    BY <1>1
  <2>8. InTime(t, known, Before(t, tasksQueue, task), nextRunTime, wpc)
    BY DEF InTimeNow
  <2>9. InTime(t, known, Before(t, q, None), nextRunTime', wpc')
    BY ONLY <1>1, <2>3, <2>5, <2>6, <2>7, <2>8, StaysInTime
  <2> QED
    BY <1>1, <2>1, <2>9 DEF InTimeNext
<1> QED
  BY <1>2, <1>3

LEMMA TickInTime ==
  ASSUME LateInv, Tick, OnlyPeriodic, NEW t \in Alive, InTimeNow(t)
  PROVE  InTimeNext(t)
<1>1. /\ known \subseteq Tasks /\ nextRunTime \in [Tasks -> Int] /\ t \in Tasks /\ t \in known /\ t # None
      /\ known' = known /\ task' = task /\ tasksQueue' = tasksQueue
      /\ nextRunTime' = [x \in Tasks |->
           IF x \in known /\ nextRunTime[x] > -LateBound THEN nextRunTime[x] - 1 ELSE nextRunTime[x]]
  BY AliveIsKnown DEF LateInv, IInv, TypeOK, Tick
<1>2. wpc = "sleep"
  <2>1. ~quit /\ (t \in Elements(tasksQueue) \/ t = task)
    BY <1>1 DEF LateInv, IInv, SomePlace, Alive
  <2>2. CASE wpc = "none"
    BY <1>1, <2>1, <2>2 DEF Tick, LateInv, IInv, WorkerCounted
  <2>3. CASE wpc = "loop"
    <3>1. tasksQueue = << >> /\ task = None
      BY <2>3 DEF Tick, LateInv, IInv, OnePlace
    <3> QED
      BY <1>1, <2>1, <3>1, EmptyElements
  <2> QED
    BY <2>2, <2>3 DEF Tick
<1>3. Before(t, tasksQueue, task) \subseteq known /\ Before(t, tasksQueue, task) \subseteq Tasks
  BY BeforeIsKnown DEF LateInv, IInv, TypeOK, OnePlace
<1>4. \A x \in Tasks : nextRunTime[x] <= Period[x]
  BY DEF LateInv
<1>5. nextRunTime' \in [Tasks -> Int]
  BY <1>1
<1>6. \A x \in Tasks : nextRunTime'[x] >= nextRunTime[x] - 1 /\ nextRunTime'[x] <= nextRunTime[x]
  BY <1>1
<1>7. \A x \in Before(t, tasksQueue, task) : nextRunTime[x] > 0 => nextRunTime'[x] = nextRunTime[x] - 1
  BY <1>1, <1>3, PeriodAssumption
<1>8. InTime(t, known, Before(t, tasksQueue, task), nextRunTime, "sleep")
  BY <1>2 DEF InTimeNow
<1>9. nextRunTime'[t] >= nextRunTime[t] - 1 /\ \A x \in Before(t, tasksQueue, task) : nextRunTime'[x] <= nextRunTime[x]
  BY <1>1, <1>3, <1>6
<1>10. InTime(t, known, Before(t, tasksQueue, task), nextRunTime', "loop")
  BY ONLY <1>1, <1>3, <1>4, <1>5, <1>7, <1>8, <1>9, OneTick
<1>11. wpc' = "loop"
  BY <1>2 DEF Tick
<1> QED
  BY <1>1, <1>10, <1>11 DEF InTimeNext

(* The steps that leave the queue, the worker's task and the times.             *)
LEMMA QuietInTime ==
  ASSUME LateInv, UNCHANGED <<tasksQueue, task, nextRunTime, known>>, wpc' = wpc \/ wpc' # "sleep", NEW t \in Alive, InTimeNow(t)
  PROVE  InTimeNext(t)
<1>1. known \subseteq Tasks /\ nextRunTime \in [Tasks -> Int] /\ t \in Tasks /\ known \subseteq known
  BY AliveIsKnown DEF LateInv, IInv, TypeOK
<1>2. Before(t, tasksQueue, task) \subseteq Tasks /\ Before(t, tasksQueue, task) \subseteq Before(t, tasksQueue, task)
      /\ \A x \in Before(t, tasksQueue, task) : nextRunTime[x] = nextRunTime[x]
  BY DEF Before
<1>3. Asleep(wpc', Before(t, tasksQueue, task), nextRunTime) <= Asleep(wpc, Before(t, tasksQueue, task), nextRunTime)
  BY AsleepIs
<1>4. InTime(t, known, Before(t, tasksQueue, task), nextRunTime, wpc)
  BY DEF InTimeNow
<1>5. InTime(t, known, Before(t, tasksQueue, task), nextRunTime, wpc')
  BY ONLY <1>1, <1>2, <1>3, <1>4, StaysInTime
<1> QED
  BY <1>5 DEF InTimeNext

LEMMA LatenessStep == LateInv /\ [Next]_vars => LateInv'
<1>1. SUFFICES ASSUME LateInv, [Next]_vars PROVE LateInv'
  OBVIOUS
<1>2. CASE UNCHANGED vars
  BY <1>1, <1>2 DEF vars, LateInv, IInv, TypeOK, OnePlace, SomePlace, Alive, WorkerCounted, OnlyPeriodic, Before
<1>3. CASE Next
  <2>1. /\ IInv' /\ (\A t \in Tasks : nextRunTime'[t] <= Period[t])
        /\ (wpc' = "early" => nextRunTime'[task'] > 0) /\ (quit' => known' \subseteq canceled')
    BY <1>1, <1>3, TimesStep
  <2>2. ASSUME OnlyPeriodic', NEW t \in Alive'
        PROVE  InTimeNext(t)
    <3>1. ~quit' /\ t \in Tasks /\ OnlyPeriodic /\ (t \in known => t \in Alive)
      BY <1>3, <2>1, <2>2 DEF Alive, OnlyPeriodic, IInv, TypeOK, Next, WorkerStep, Schedule, Cancel, StartWorker, Shutdown, Poll, Check,
                       RunOnce, RunDue, PushEarly, LeaveWorker, Tick
    <3>2. t \in Alive => InTimeNow(t)
      BY <1>1, <3>1 DEF LateInv, InTimeNow
    <3>3. ASSUME NEW u \in Tasks, Schedule(u) PROVE InTimeNext(t)
      <4>1. t # u => t \in known
        BY <2>2, <3>3 DEF Alive, Schedule
      <4> QED
        BY <1>1, <2>1, <2>2, <3>1, <3>2, <3>3, <4>1, ScheduleInTime
    <3>4. CASE ~(\E u \in Tasks : Schedule(u))
      <4>1. known' = known /\ t \in known /\ t \in Alive /\ ~quit
        BY <1>3, <2>2, <3>1, <3>4 DEF Alive, Next, WorkerStep, Cancel, StartWorker, Shutdown, Poll, Check, RunOnce, RunDue,
                                    PushEarly, LeaveWorker, Tick
      <4>2. InTimeNow(t)
        BY <3>2, <4>1
      <4>3. CASE Poll
        BY <1>1, <4>1, <4>2, <4>3, PollInTime
      <4>4. CASE Check
        BY <1>1, <4>1, <4>2, <4>4, CheckInTime
      <4>5. CASE RunDue
        BY <1>1, <2>1, <3>1, <4>1, <4>2, <4>5, RunDueInTime
      <4>6. CASE PushEarly
        BY <1>1, <2>1, <4>1, <4>2, <4>6, PushEarlyInTime
      <4>7. CASE Tick
        BY <1>1, <3>1, <4>1, <4>2, <4>7, TickInTime
      <4>8. CASE RunOnce
        <5>1. Period[task] = 0 /\ task \in known
          BY <1>1, <4>8 DEF RunOnce, LateInv, IInv, WorkerCounted, OnePlace
        <5> QED
          BY <3>1, <5>1 DEF OnlyPeriodic
      <4>9. CASE StartWorker \/ Shutdown \/ LeaveWorker \/ \E u \in Tasks : Cancel(u)
        <5>1. UNCHANGED <<tasksQueue, task, nextRunTime, known>> /\ (wpc' = wpc \/ wpc' # "sleep")
          BY <4>9 DEF StartWorker, Shutdown, LeaveWorker, Cancel
        <5> QED
          BY <1>1, <4>1, <4>2, <5>1, QuietInTime
      <4> QED
        BY <1>3, <3>4, <4>3, <4>4, <4>5, <4>6, <4>7, <4>8, <4>9 DEF Next, WorkerStep
    <3> QED
      BY <3>3, <3>4
  <2>3. (OnlyPeriodic => \A t \in Alive : InTime(t, known, Before(t, tasksQueue, task), nextRunTime, wpc))'
    BY <2>2 DEF InTimeNext, Before
  <2> QED
    BY <2>1, <2>3 DEF LateInv
<1> QED
  BY <1>1, <1>2, <1>3

(* A due task waits for the tasks before it, each of them for at most its       *)
(* period and the second that follows a run, for every number of pools and      *)
(* every removal period: it is late by one round of the queue, never by two.    *)
THEOREM TasksRunInTime == Spec => []LateAtMostOneRound
<1>1. Init => LateInv
  <2>1. SUFFICES ASSUME Init PROVE LateInv
    OBVIOUS
  <2>2. \A t \in Tasks : nextRunTime[t] <= Period[t]
    BY <2>1, PeriodAssumption DEF Init
  <2> QED
    BY <2>1, <2>2, InitiallyKept DEF Init, LateInv, Alive
<1>2. LateInv => LateAtMostOneRound
  <2>1. SUFFICES ASSUME LateInv, OnlyPeriodic, NEW t \in Alive PROVE -nextRunTime[t] <= Cardinality(Waits(known \ {t}))
    BY DEF LateAtMostOneRound
  <2>2. PICK S : S = Before(t, tasksQueue, task)
    OBVIOUS
  <2>3. InTime(t, known, S, nextRunTime, wpc)
    BY <2>1, <2>2 DEF LateInv
  <2>4. t \in Tasks /\ known \subseteq Tasks /\ nextRunTime \in [Tasks -> Int] /\ S \subseteq Tasks
    BY <2>1, <2>2, AliveIsKnown DEF LateInv, IInv, TypeOK, Before
  <2>5. Cardinality(Ahead(S, nextRunTime)) \in Nat /\ Cardinality(Waits(known \ {t})) \in Nat
    BY <2>4, AheadIsFinite, WaitsAreFinite
  <2>6. Asleep(wpc, S, nextRunTime) \in {0, 1}
    BY AsleepIs
  <2> QED
    BY <2>3, <2>4, <2>5, <2>6 DEF InTime
<1> QED
  BY <1>1, <1>2, LatenessStep, PTL DEF Spec
=============================================================================

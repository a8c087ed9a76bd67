---------------------------- MODULE BlockingDeque ----------------------------
(* blocking_deque<T> (src/util/BlockingQueue.h): a std::deque guarded by the    *)
(* mutex queueSync, with the condition variable notEmpty and a closed flag.     *)
(* A critical section is one action. What is NOT atomic in the code is kept     *)
(* apart: notify_one/notify_all are called after the mutex is released, a       *)
(* thread that wait() has woken has to take the mutex again, and a wait may     *)
(* end spuriously.                                                              *)
EXTENDS Integers, Sequences, FiniteSets

CONSTANTS
  Threads,      \* the threads that call the queue
  Items,        \* what is queued
  QueueBound    \* the longest queue explored (the code enforces no capacity)

ASSUME ThreadsAssumption == IsFiniteSet(Threads)
ASSUME BoundAssumption == QueueBound \in Nat

VARIABLES
  realQueue,    \* the deque; Head is the front
  closed,
  pc            \* where each thread is inside a call

vars == <<realQueue, closed, pc>>

Locations == {"out",          \* not inside a call
              "notifyOne",    \* pushed, mutex released, notify_one still to come
              "notifyAll",    \* closed, mutex released, notify_all still to come
              "popWait", "popWoken",     \* in pop(): blocked / has to relock
              "pollWait", "pollWoken"}   \* in pollFirst(timeout)

TypeOK ==
  /\ realQueue \in Seq(Items)
  /\ closed \in BOOLEAN
  /\ pc \in [Threads -> Locations]

Init ==
  /\ realQueue = << >>
  /\ closed = FALSE
  /\ pc = [t \in Threads |-> "out"]

At(locs) == {t \in Threads : pc[t] \in locs}

Waiting == At({"popWait", "pollWait"})      \* the wait set of notEmpty
Woken   == At({"popWoken", "pollWoken"})

GoTo(t, loc) == pc' = [pc EXCEPT ![t] = loc]

\* What wait() does when it returns: the thread leaves the wait set.
WokenFrom(loc) == IF loc = "popWait" THEN "popWoken" ELSE "pollWoken"

-----------------------------------------------------------------------------
(* Plausible slips in this header; the properties below have to notice them.    *)

\* the push does not notify
PushBackSilent(t, item) ==
  /\ pc[t] = "out"
  /\ Len(realQueue) < QueueBound
  /\ ~closed
  /\ realQueue' = Append(realQueue, item)
  /\ UNCHANGED <<closed, pc>>

\* close() wakes one waiter instead of all of them
NotifyAllAsOne(t) ==
  /\ pc[t] = "notifyAll"
  /\ IF Waiting = {}
     THEN GoTo(t, "out")
     ELSE \E w \in Waiting :
            pc' = [pc EXCEPT ![t] = "out", ![w] = WokenFrom(@)]
  /\ UNCHANGED <<realQueue, closed>>

-----------------------------------------------------------------------------
(* push(item), emplace: at the front. A closed queue throws or returns false.   *)
PushFront(t, item) ==
  /\ pc[t] = "out"
  /\ Len(realQueue) < QueueBound
  /\ ~closed
  /\ realQueue' = <<item>> \o realQueue
  /\ GoTo(t, "notifyOne")
  /\ UNCHANGED closed

(* push_back, emplace_back.                                                     *)
PushBack(t, item) ==
  /\ pc[t] = "out"
  /\ Len(realQueue) < QueueBound
  /\ ~closed
  /\ realQueue' = Append(realQueue, item)
  /\ GoTo(t, "notifyOne")
  /\ UNCHANGED closed

(* notEmpty.notify_one(): wakes some waiter, or nobody when nobody waits.       *)
NotifyOne(t) ==
  /\ pc[t] = "notifyOne"
  /\ IF Waiting = {}
     THEN GoTo(t, "out")
     ELSE \E w \in Waiting :
            pc' = [pc EXCEPT ![t] = "out", ![w] = WokenFrom(@)]
  /\ UNCHANGED <<realQueue, closed>>

(* close(): the flag is set under the mutex, by the first caller only.          *)
Close(t) ==
  /\ pc[t] = "out"
  /\ ~closed
  /\ closed' = TRUE
  /\ GoTo(t, "notifyAll")
  /\ UNCHANGED realQueue

NotifyAll(t) ==
  /\ pc[t] = "notifyAll"
  /\ pc' = [w \in Threads |->
              IF w = t THEN "out"
              ELSE IF w \in Waiting THEN WokenFrom(pc[w]) ELSE pc[w]]
  /\ UNCHANGED <<realQueue, closed>>

(* pop(item): the whole wait loop. A closed queue throws InterruptedException   *)
(* and leaves the elements alone; an empty one blocks; else the front is taken. *)
Pop(t) ==
  /\ pc[t] \in {"out", "popWoken"}
  /\ \/ /\ closed
        /\ GoTo(t, "out")
        /\ UNCHANGED realQueue
     \/ /\ ~closed /\ realQueue = << >>
        /\ GoTo(t, "popWait")
        /\ UNCHANGED realQueue
     \/ /\ ~closed /\ realQueue # << >>
        /\ realQueue' = Tail(realQueue)
        /\ GoTo(t, "out")
  /\ UNCHANGED closed

(* pollFirst(): never blocks; returns null on a closed or an empty queue.       *)
PollFirst(t) ==
  /\ pc[t] = "out"
  /\ ~closed /\ realQueue # << >>
  /\ realQueue' = Tail(realQueue)
  /\ UNCHANGED <<closed, pc>>

(* pollFirst(timeout): t.over() may be true at any evaluation. Once the loop is *)
(* left the front is taken if there is one, EVEN from a closed queue.           *)
PollFirstTimed(t) ==
  /\ pc[t] \in {"out", "pollWoken"}
  /\ \/ /\ realQueue # << >>
        /\ realQueue' = Tail(realQueue)
        /\ GoTo(t, "out")
     \/ /\ realQueue = << >>
        /\ UNCHANGED realQueue
        /\ \/ ~closed /\ GoTo(t, "pollWait")
           \/ GoTo(t, "out")               \* closed, or the time is over
  /\ UNCHANGED closed

(* wait_for's timeout, and the spurious wake-ups every condition variable has.  *)
WakeUp(t) ==
  /\ t \in Waiting
  /\ GoTo(t, WokenFrom(pc[t]))
  /\ UNCHANGED <<realQueue, closed>>

(* getLock() and erase(iterator): the owner of the queue removes one element    *)
(* while it holds the mutex itself.                                             *)
Erase(t, i) ==
  /\ pc[t] = "out"
  /\ i \in 1..Len(realQueue)
  /\ realQueue' = SubSeq(realQueue, 1, i - 1) \o SubSeq(realQueue, i + 1, Len(realQueue))
  /\ UNCHANGED <<closed, pc>>

Next ==
  \E t \in Threads :
    \/ \E item \in Items : PushFront(t, item) \/ PushBack(t, item)
    \/ NotifyOne(t) \/ NotifyAll(t) \/ Close(t)
    \/ Pop(t) \/ PollFirst(t) \/ PollFirstTimed(t) \/ WakeUp(t)
    \/ \E i \in 1..QueueBound : Erase(t, i)

(* A thread inside a call keeps running: it gets the mutex, finishes its        *)
(* notification, and a timed wait ends. Nothing obliges a thread to make a call,*)
(* and pop()'s wait may last for ever, so neither is fair.                      *)
Fairness ==
  \A t \in Threads :
    /\ WF_vars(NotifyOne(t))
    /\ WF_vars(NotifyAll(t))
    /\ WF_vars(pc[t] = "popWoken" /\ Pop(t))
    /\ WF_vars(pc[t] = "pollWoken" /\ PollFirstTimed(t))
    /\ WF_vars(pc[t] = "pollWait" /\ WakeUp(t))

Spec == Init /\ [][Next]_vars /\ Fairness

-----------------------------------------------------------------------------
(* No lost wake-up. While somebody waits on an open queue, every queued element *)
(* is matched by a notification still to be made or by a thread already woken,  *)
(* although notify_one runs after the mutex is released and non-waiting callers *)
(* may steal the element in between.                                            *)
NoLostWakeup ==
  (~closed /\ Waiting # {}) =>
    Len(realQueue) <= Cardinality(At({"notifyOne"})) + Cardinality(Woken)

(* close() forgets no waiter: while somebody still waits on a closed queue, the *)
(* closing thread has notify_all ahead of it.                                   *)
CloseWakesEveryone ==
  (closed /\ Waiting # {}) => At({"notifyAll"}) # {}

(* A thread blocked in pop() does not sleep beside an element for ever: either  *)
(* it leaves pop(), or the element is taken by somebody else.                   *)
BlockedPopIsServed ==
  \A t \in Threads :
    (pc[t] = "popWait" /\ realQueue # << >>) ~> (pc[t] # "popWait" \/ realQueue = << >>)

(* Every call blocked when the queue is closed returns.                         *)
CloseReleasesWaiters ==
  \A t \in Threads : closed ~> [](pc[t] \notin {"popWait", "pollWait"})

(* No call stays blocked for ever: neither beside an element nor behind a       *)
(* close.                                                                       *)
WaitersAreReleased == BlockedPopIsServed /\ CloseReleasesWaiters
=============================================================================

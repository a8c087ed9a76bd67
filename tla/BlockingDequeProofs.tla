------------------------- MODULE BlockingDequeProofs -------------------------
(* For any number of threads and any queue: no wake-up of blocking_deque is     *)
(* lost, neither a push's nor close()'s.                                        *)
EXTENDS BlockingDeque, FiniteSetTheorems, SequenceTheorems, TLAPS

Notifiers == At({"notifyOne"})

(* The two safety properties are inductive together with the types.             *)
IInv == TypeOK /\ NoLostWakeup /\ CloseWakesEveryone

-----------------------------------------------------------------------------
(* The sets of threads that NoLostWakeup counts are finite.                     *)
LEMMA FiniteLocations ==
  ASSUME NEW locs
  PROVE  IsFiniteSet(At(locs)) /\ Cardinality(At(locs)) \in Nat
<1>1. At(locs) \subseteq Threads
  BY DEF At
<1> QED
  BY <1>1, ThreadsAssumption, FS_Subset, FS_CardinalityType

(* One thread entering a location makes the set there one larger.               *)
LEMMA Enter ==
  ASSUME NEW S, NEW T, NEW t, IsFiniteSet(S), t \notin S, T = S \cup {t}
  PROVE  Cardinality(T) = Cardinality(S) + 1
BY FS_AddElement

(* One thread leaving a location makes the set there one smaller.               *)
LEMMA Leave ==
  ASSUME NEW S, NEW T, NEW t, IsFiniteSet(S), t \in S, T = S \ {t}
  PROVE  Cardinality(T) = Cardinality(S) - 1
BY FS_RemoveElement

(* Removing the front of a non-empty deque.                                     *)
LEMMA TailLength ==
  ASSUME NEW S, NEW q \in Seq(S), q # << >>
  PROVE  Tail(q) \in Seq(S) /\ Len(Tail(q)) = Len(q) - 1
OBVIOUS

(* Erasing one element of a deque, wherever it is.                              *)
LEMMA EraseLength ==
  ASSUME NEW S, NEW q \in Seq(S), NEW i \in 1..Len(q)
  PROVE  Len(SubSeq(q, 1, i - 1) \o SubSeq(q, i + 1, Len(q))) = Len(q) - 1
<1> DEFINE l == SubSeq(q, 1, i - 1)
           r == SubSeq(q, i + 1, Len(q))
<1>1. l \in Seq(S) /\ Len(l) = i - 1
  OBVIOUS
<1>2. r \in Seq(S) /\ Len(r) = Len(q) - i
  OBVIOUS
<1>3. Len(q) \in Nat
  OBVIOUS
<1> HIDE DEF l, r
<1>4. Len(l \o r) = Len(l) + Len(r)
  BY <1>1, <1>2, ConcatProperties
<1>5. Len(l \o r) = Len(q) - 1
  BY <1>1, <1>2, <1>3, <1>4
<1> QED
  BY <1>5 DEF l, r

-----------------------------------------------------------------------------
(* Every step keeps the state well typed.                                       *)
LEMMA TypeStep == TypeOK /\ [Next]_vars => TypeOK'
<1> SUFFICES ASSUME TypeOK, [Next]_vars PROVE TypeOK'
  OBVIOUS
<1> USE DEF TypeOK, Locations
<1>1. ASSUME NEW t \in Threads, NEW item \in Items, PushFront(t, item) PROVE TypeOK'
  <2>1. <<item>> \o realQueue \in Seq(Items)
    OBVIOUS
  <2> QED
    BY <1>1, <2>1 DEF PushFront, GoTo
<1>2. ASSUME NEW t \in Threads, NEW item \in Items, PushBack(t, item) PROVE TypeOK'
  BY <1>2 DEF PushBack, GoTo
<1>3. ASSUME NEW t \in Threads, NotifyOne(t) PROVE TypeOK'
  BY <1>3 DEF NotifyOne, GoTo, Waiting, At, WokenFrom
<1>4. ASSUME NEW t \in Threads, NotifyAll(t) PROVE TypeOK'
  BY <1>4 DEF NotifyAll, WokenFrom
<1>5. ASSUME NEW t \in Threads, Close(t) PROVE TypeOK'
  BY <1>5 DEF Close, GoTo
<1>6. ASSUME NEW t \in Threads, Pop(t) PROVE TypeOK'
  BY <1>6, TailLength DEF Pop, GoTo
<1>7. ASSUME NEW t \in Threads, PollFirst(t) PROVE TypeOK'
  BY <1>7, TailLength DEF PollFirst
<1>8. ASSUME NEW t \in Threads, PollFirstTimed(t) PROVE TypeOK'
  BY <1>8, TailLength DEF PollFirstTimed, GoTo
<1>9. ASSUME NEW t \in Threads, WakeUp(t) PROVE TypeOK'
  BY <1>9 DEF WakeUp, GoTo, WokenFrom
<1>10. ASSUME NEW t \in Threads, NEW i \in 1..QueueBound, Erase(t, i) PROVE TypeOK'
  <2>1. /\ SubSeq(realQueue, 1, i - 1) \in Seq(Items)
        /\ SubSeq(realQueue, i + 1, Len(realQueue)) \in Seq(Items)
    BY <1>10, BoundAssumption DEF Erase
  <2> QED
    BY <1>10, <2>1 DEF Erase
<1>11. CASE UNCHANGED vars
  BY <1>11 DEF vars
<1> QED
  BY <1>1, <1>2, <1>3, <1>4, <1>5, <1>6, <1>7, <1>8, <1>9, <1>10, <1>11 DEF Next

-----------------------------------------------------------------------------
(* Every step keeps the count of NoLostWakeup: an element comes with a          *)
(* notification, a notification turns into a woken thread, and a woken thread   *)
(* leaves only with an element or when there is none.                           *)
LEMMA WakeupStep == IInv /\ [Next]_vars => NoLostWakeup'
<1> SUFFICES ASSUME IInv, [Next]_vars, ~closed', Waiting' # {}
             PROVE  Len(realQueue') <= Cardinality(Notifiers') + Cardinality(Woken')
  BY DEF NoLostWakeup, Notifiers
<1> DEFINE Enough == Len(realQueue') <= Cardinality(Notifiers') + Cardinality(Woken')
<1>a. TypeOK /\ TypeOK'
  BY TypeStep DEF IInv
<1>b. /\ IsFiniteSet(Notifiers) /\ Cardinality(Notifiers) \in Nat
      /\ IsFiniteSet(Woken) /\ Cardinality(Woken) \in Nat
  BY FiniteLocations DEF Notifiers, Woken
<1>c. Len(realQueue) \in Nat /\ Len(realQueue') \in Nat
  BY <1>a DEF TypeOK
<1>d. ~closed /\ Waiting # {} => Len(realQueue) <= Cardinality(Notifiers) + Cardinality(Woken)
  BY DEF IInv, NoLostWakeup, Notifiers
<1>e. /\ IsFiniteSet(Notifiers') /\ Cardinality(Notifiers') \in Nat
      /\ IsFiniteSet(Woken') /\ Cardinality(Woken') \in Nat
  <2>1. Notifiers' \subseteq Threads /\ Woken' \subseteq Threads
    BY DEF Notifiers, Woken, At
  <2> QED
    BY <2>1, ThreadsAssumption, FS_Subset, FS_CardinalityType
<1>f. realQueue' = << >> => Enough
  BY <1>e
(* A push, at either end, adds one element and one thread that will notify.     *)
<1>1. ASSUME NEW t \in Threads, pc[t] = "out", pc' = [pc EXCEPT ![t] = "notifyOne"],
             Len(realQueue') = Len(realQueue) + 1, UNCHANGED closed
      PROVE  Enough
  <2>1. Notifiers' = Notifiers \cup {t} /\ t \notin Notifiers
    BY <1>1, <1>a DEF Notifiers, At, TypeOK
  <2>2. Woken' = Woken /\ Waiting' = Waiting
    BY <1>1, <1>a DEF Woken, Waiting, At, TypeOK
  <2>3. Cardinality(Notifiers') = Cardinality(Notifiers) + 1
    BY <2>1, <1>b, Enter
  <2> QED
    BY <2>2, <2>3, <1>1, <1>b, <1>c, <1>d
<1>2. ASSUME NEW t \in Threads, NotifyOne(t) PROVE Enough
  <2>1. CASE Waiting = {}
    BY <2>1, <1>2, <1>a DEF NotifyOne, GoTo, Waiting, At, TypeOK
  <2>2. CASE Waiting # {}
    <3>1. PICK w \in Waiting : pc' = [pc EXCEPT ![t] = "out", ![w] = WokenFrom(@)]
      BY <2>2, <1>2 DEF NotifyOne
    <3>2. w \in Threads /\ w # t /\ pc[t] = "notifyOne" /\ pc[w] \in {"popWait", "pollWait"}
      BY <3>1, <1>2 DEF NotifyOne, Waiting, At
    <3>3. Notifiers' = Notifiers \ {t} /\ t \in Notifiers
      BY <3>1, <3>2, <1>a DEF Notifiers, At, WokenFrom, TypeOK
    <3>4. Woken' = Woken \cup {w} /\ w \notin Woken
      BY <3>1, <3>2, <1>a DEF Woken, At, WokenFrom, TypeOK
    <3>5. /\ Cardinality(Notifiers') = Cardinality(Notifiers) - 1
          /\ Cardinality(Woken') = Cardinality(Woken) + 1
      BY <3>3, <3>4, <1>b, Enter, Leave
    <3>6. realQueue' = realQueue /\ closed' = closed
      BY <1>2 DEF NotifyOne
    <3> QED
      BY <3>5, <3>6, <2>2, <1>b, <1>c, <1>d
  <2> QED
    BY <2>1, <2>2
<1>3. ASSUME NEW t \in Threads, NotifyAll(t) PROVE Enough
  <2>1. Waiting' = {}
    BY <1>3, <1>a DEF NotifyAll, Waiting, At, WokenFrom, TypeOK
  <2> QED
    BY <2>1
<1>4. ASSUME NEW t \in Threads, Close(t) PROVE Enough
  BY <1>4 DEF Close
(* Taking the front: from "out" nobody's count changes, from a woken location   *)
(* one woken thread leaves with one element.                                    *)
<1>5. ASSUME NEW t \in Threads, pc[t] \in {"out", "popWoken", "pollWoken"},
             realQueue # << >>, realQueue' = Tail(realQueue),
             pc' = [pc EXCEPT ![t] = "out"], UNCHANGED closed
      PROVE  Enough
  <2>1. Len(realQueue') = Len(realQueue) - 1
    BY <1>5, <1>a, TailLength DEF TypeOK
  <2>2. Notifiers' = Notifiers /\ Waiting' = Waiting
    BY <1>5, <1>a DEF Notifiers, Waiting, At, TypeOK
  <2>3. CASE pc[t] = "out"
    <3>1. Woken' = Woken
      BY <2>3, <1>5, <1>a DEF Woken, At, TypeOK
    <3> QED
      BY <3>1, <2>1, <2>2, <1>5, <1>b, <1>c, <1>d
  <2>4. CASE pc[t] # "out"
    <3>1. Woken' = Woken \ {t} /\ t \in Woken
      BY <2>4, <1>5, <1>a DEF Woken, At, TypeOK
    <3>2. Cardinality(Woken') = Cardinality(Woken) - 1
      BY <3>1, <1>b, Leave
    <3> QED
      BY <3>2, <2>1, <2>2, <1>5, <1>b, <1>c, <1>d
  <2> QED
    BY <2>3, <2>4
<1>6. ASSUME NEW t \in Threads, Pop(t) PROVE Enough
  BY <1>6, <1>5, <1>f DEF Pop, GoTo
<1>7. ASSUME NEW t \in Threads, PollFirst(t) PROVE Enough
  <2>1. pc' = [pc EXCEPT ![t] = "out"]
    BY <1>7, <1>a DEF PollFirst, TypeOK
  <2> QED
    BY <2>1, <1>7, <1>5 DEF PollFirst
<1>8. ASSUME NEW t \in Threads, PollFirstTimed(t) PROVE Enough
  BY <1>8, <1>5, <1>f DEF PollFirstTimed, GoTo
<1>9. ASSUME NEW t \in Threads, WakeUp(t) PROVE Enough
  <2>1. Notifiers' = Notifiers
    BY <1>9, <1>a DEF WakeUp, Notifiers, Waiting, At, GoTo, WokenFrom, TypeOK
  <2>2. Woken' = Woken \cup {t} /\ t \notin Woken /\ Waiting # {}
    BY <1>9, <1>a DEF WakeUp, Woken, Waiting, At, GoTo, WokenFrom, TypeOK
  <2>3. Cardinality(Woken') = Cardinality(Woken) + 1
    BY <2>2, <1>b, Enter
  <2> QED
    BY <2>1, <2>2, <2>3, <1>9, <1>b, <1>c, <1>d DEF WakeUp
<1>10. ASSUME NEW t \in Threads, NEW i \in 1..QueueBound, Erase(t, i) PROVE Enough
  <2>1. Len(realQueue') = Len(realQueue) - 1
    BY <1>10, <1>a, EraseLength DEF Erase, TypeOK
  <2>2. Notifiers' = Notifiers /\ Waiting' = Waiting /\ Woken' = Woken /\ closed' = closed
    BY <1>10 DEF Erase, Notifiers, Waiting, Woken, At
  <2> QED
    BY <2>1, <2>2, <1>b, <1>c, <1>d
<1>11. CASE UNCHANGED vars
  BY <1>11, <1>d DEF vars, Notifiers, Waiting, Woken, At
<1>12. ASSUME NEW t \in Threads, NEW item \in Items, PushFront(t, item) \/ PushBack(t, item)
       PROVE  Enough
  <2>1. Len(realQueue') = Len(realQueue) + 1
    BY <1>12, <1>a DEF PushFront, PushBack, TypeOK
  <2> QED
    BY <2>1, <1>1, <1>12 DEF PushFront, PushBack, GoTo
<1> QED
  BY <1>2, <1>3, <1>4, <1>6, <1>7, <1>8, <1>9, <1>10, <1>11, <1>12 DEF Next

(* Nobody starts to wait on a closed queue, and only notify_all ends the duty.  *)
LEMMA CloseStep == IInv /\ [Next]_vars => CloseWakesEveryone'
<1> SUFFICES ASSUME IInv, [Next]_vars, closed', Waiting' # {}
             PROVE  At({"notifyAll"})' # {}
  BY DEF CloseWakesEveryone
<1> USE DEF IInv, TypeOK, CloseWakesEveryone, Waiting, At
<1>1. ASSUME NEW t \in Threads, NEW item \in Items, PushFront(t, item) \/ PushBack(t, item)
      PROVE  At({"notifyAll"})' # {}
  BY <1>1 DEF PushFront, PushBack
<1>2. ASSUME NEW t \in Threads, NotifyOne(t) PROVE At({"notifyAll"})' # {}
  BY <1>2 DEF NotifyOne, GoTo, WokenFrom
<1>3. ASSUME NEW t \in Threads, NotifyAll(t) PROVE At({"notifyAll"})' # {}
  BY <1>3 DEF NotifyAll, WokenFrom
<1>4. ASSUME NEW t \in Threads, Close(t) PROVE At({"notifyAll"})' # {}
  BY <1>4 DEF Close, GoTo
<1>5. ASSUME NEW t \in Threads, Pop(t) PROVE At({"notifyAll"})' # {}
  BY <1>5 DEF Pop, GoTo
<1>6. ASSUME NEW t \in Threads, PollFirst(t) PROVE At({"notifyAll"})' # {}
  BY <1>6 DEF PollFirst
<1>7. ASSUME NEW t \in Threads, PollFirstTimed(t) PROVE At({"notifyAll"})' # {}
  BY <1>7 DEF PollFirstTimed, GoTo
<1>8. ASSUME NEW t \in Threads, WakeUp(t) PROVE At({"notifyAll"})' # {}
  BY <1>8 DEF WakeUp, GoTo, WokenFrom
<1>9. ASSUME NEW t \in Threads, NEW i \in 1..QueueBound, Erase(t, i)
      PROVE  At({"notifyAll"})' # {}
  BY <1>9 DEF Erase
<1>10. CASE UNCHANGED vars
  BY <1>10 DEF vars
<1> QED
  BY <1>1, <1>2, <1>3, <1>4, <1>5, <1>6, <1>7, <1>8, <1>9, <1>10 DEF Next

-----------------------------------------------------------------------------
(* blocking_deque never leaves a waiter asleep beside an element, nor behind a  *)
(* close(), whatever the number of threads.                                     *)
THEOREM DequeSafety == Spec => [](TypeOK /\ NoLostWakeup /\ CloseWakesEveryone)
<1>1. Init => IInv
  <2> SUFFICES ASSUME Init PROVE IInv
    OBVIOUS
  <2>1. TypeOK
    <3>1. << >> \in Seq(Items)
      BY EmptySeq
    <3>2. pc \in [Threads -> Locations]
      BY DEF Init, Locations
    <3> QED
      BY <3>1, <3>2 DEF Init, TypeOK
  <2>2. Waiting = {}
    BY DEF Init, Waiting, At
  <2> QED
    BY <2>1, <2>2 DEF IInv, NoLostWakeup, CloseWakesEveryone
<1>2. IInv /\ [Next]_vars => IInv'
  BY TypeStep, WakeupStep, CloseStep DEF IInv
<1> QED
  BY <1>1, <1>2, PTL DEF Spec, IInv
=============================================================================

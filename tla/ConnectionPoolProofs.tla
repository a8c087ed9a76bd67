------------------------ MODULE ConnectionPoolProofs ------------------------
(* For any number of clients and connections, any sizes and timeouts, and every *)
(* kind of failure: the pool's counter is the number of its connections, there  *)
(* are never more of them than maxPoolSize, and none has two users.             *)
EXTENDS ConnectionPool, SequenceLemmas

-----------------------------------------------------------------------------
(* The inductive invariant                                                      *)

WithItem == {"check1", "check2", "held", "returning", "resetting", "pushing", "uncount"}

(* A client has an item exactly where the code has a pointer to one; a request  *)
(* that is about to be left may or may not have found one.                      *)
ItemPlaces ==
  \A c \in Clients :
    /\ cpc[c] \in WithItem => item[c] # None
    /\ item[c] # None => cpc[c] \in WithItem \cup {"leave"}

(* The appender has one from the moment it is connected until it is queued.     *)
AppenderPlaces == aitem # None <=> apc \in {"opened", "count", "push"}

(* The removal task has the idle mutex during its pass, and the element that it *)
(* decided to release is still there.                                           *)
RemovalPlaces ==
  /\ idleLock <=> kpc \in {"scan", "release"}
  /\ kpos > 0
  /\ kpc = "release" => kpos <= Len(idleConnections)

(* A connection the pool knows of is open, so the next one to be opened is not  *)
(* one of them.                                                                 *)
Known == InIdle \cup InHands \cup lost \cup {aitem}
KnownAreOpen == \A k \in Conns : k \in Known => link[k] # "none"

(* A connection has one owner; lost ones are nobody's.                          *)
UniqueItems == \A c, d \in Holders : item[c] = item[d] => c = d
OneOwner ==
  /\ Distinct(idleConnections) /\ UniqueItems
  /\ InIdle \cap InHands = {} /\ aitem \notin InIdle \cup InHands
  /\ lost \cap (InIdle \cup InHands \cup {aitem}) = {}

(* The task found room, and only the appender uses room up.                     *)
RoomForNext ==
  totalConnection + (IF apc \in {"connect", "opened", "count"} THEN 1 ELSE 0) <= maxPoolSize

IInv ==
  /\ TypeOK /\ ItemPlaces /\ AppenderPlaces /\ RemovalPlaces
  /\ KnownAreOpen /\ OneOwner /\ SlotAccounting /\ RoomForNext

-----------------------------------------------------------------------------
(* Facts about the parts of the state                                           *)

(* The connections totalConnection stands for are finitely many.               *)
LEMMA CountedIsFinite ==
  ASSUME TypeOK, AppenderPlaces
  PROVE  Counted \subseteq Conns /\ IsFiniteSet(Counted) /\ Cardinality(Counted) \in Nat
<1>1. Counted \subseteq Conns
  BY DEF TypeOK, Counted, InIdle, InHands, Holders, AppenderPlaces
<1> QED
  BY <1>1, ConnsAssumption, FS_Subset, FS_CardinalityType

(* Every step keeps the state well typed.                                       *)
LEMMA TypeStep == TypeOK /\ ItemPlaces /\ AppenderPlaces /\ RemovalPlaces /\ [Next]_vars => TypeOK'
<1> SUFFICES ASSUME TypeOK, ItemPlaces, AppenderPlaces, RemovalPlaces, [Next]_vars PROVE TypeOK'
  OBVIOUS
<1> USE DEF TypeOK, poolVars, connVars, clientVars, workerVars
<1>1. ASSUME NEW c \in Clients, ClientStep(c) PROVE TypeOK'
  <2> USE DEF Go, Hand, ClientLocations, Requesting
  <2>1. CASE GetPoolConnection(c)
    BY <2>1 DEF GetPoolConnection
  <2>2. CASE PollIdle(c)
    <3>1. Head(idleConnections) \in Conns /\ Tail(idleConnections) \in Seq(Conns)
      BY <2>2 DEF PollIdle
    <3> QED
      BY <2>2, <3>1 DEF PollIdle
  <2>3. CASE PollNothing(c)
    BY <2>3 DEF PollNothing
  <2>4. CASE AddConnectionRequest(c)
    BY <2>4 DEF AddConnectionRequest, TasksAfterRequest
  <2>5. CASE ValidateItem(c)
    BY <2>5 DEF ValidateItem
  <2>6. CASE DiscardItem(c)
    BY <2>6 DEF DiscardItem, Disconnect, AfterDiscard
  <2>7. CASE LeaveRequest(c)
    BY <2>7 DEF LeaveRequest
  <2>8. CASE UseHandle(c)
    BY <2>8 DEF UseHandle
  <2>9. CASE CloseHandle(c)
    BY <2>9 DEF CloseHandle
  <2>10. CASE DropHandle(c)
    <3>1. item[c] \in Conns
      BY <2>10 DEF DropHandle, ItemPlaces, WithItem
    <3>2. CASE link[item[c]] = "noticed"
      <4>1. lost' = lost \cup {item[c]} /\ item' = [item EXCEPT ![c] = None] /\ cpc' = [cpc EXCEPT ![c] = "out"]
        BY <2>10, <3>2 DEF DropHandle
      <4>2. lost' \subseteq Conns /\ item' \in [Clients -> Conns \cup {None}] /\ cpc' \in [Clients -> ClientLocations]
        BY <3>1, <4>1
      <4> QED
        BY <2>10, <4>2 DEF DropHandle
    <3>3. CASE link[item[c]] # "noticed"
      BY <2>10, <3>3 DEF DropHandle
    <3> QED
      BY <3>2, <3>3
  <2>11. CASE ConnectionClosed(c)
    BY <2>11 DEF ConnectionClosed
  <2>12. CASE ResetConnection(c)
    BY <2>12 DEF ResetConnection
  <2>13. CASE PushIdle(c)
    <3>1. item[c] \in Conns
      BY <2>13 DEF PushIdle, ItemPlaces, WithItem
    <3>2. Append(idleConnections, item[c]) \in Seq(Conns)
      BY <3>1
    <3> QED
      BY <2>13, <3>2 DEF PushIdle
  <2>14. CASE UncountItem(c)
    BY <2>14 DEF UncountItem, Disconnect
  <2> QED
    BY <1>1, <2>1, <2>2, <2>3, <2>4, <2>5, <2>6, <2>7, <2>8, <2>9, <2>10, <2>11, <2>12, <2>13, <2>14
       DEF ClientStep, RequestStep, ReturnStep
<1>2. CASE AppenderStep
  <2> USE DEF AppenderLocations
  <2>1. CASE TakeTask
    BY <2>1 DEF TakeTask
  <2>2. CASE RunTask
    BY <2>2 DEF RunTask
  <2>3. CASE Connect
    <3>1. CASE UNCHANGED <<link, age, aitem>>
      BY <2>3, <3>1 DEF Connect
    <3>2. CASE ~UNCHANGED <<link, age, aitem>>
      <4>1. PICK k \in Conns : /\ link' = [link EXCEPT ![k] = "up"] /\ age' = [age EXCEPT ![k] = 0]
                               /\ aitem' = k /\ apc' = "opened"
        BY <2>3, <3>2, Zenon DEF Connect
      <4> QED
        BY <2>3, <4>1 DEF Connect
    <3> QED
      BY <3>1, <3>2
  <2>4. CASE CheckPoolState
    BY <2>4 DEF CheckPoolState, Disconnect
  <2>5. CASE CountConnection
    <3>1. /\ apc' \in AppenderLocations /\ aitem' \in Conns \cup {None}
          /\ link' \in [Conns -> {"none", "up", "down", "noticed"}] /\ age' \in [Conns -> Nat]
      <4>1. CASE totalConnection + 1 <= maxPoolSize
        BY <2>5, <4>1 DEF CountConnection
      <4>2. CASE ~(totalConnection + 1 <= maxPoolSize)
        BY <2>5, <4>2 DEF CountConnection, Disconnect
      <4> QED
        BY <4>1, <4>2
    <3> QED
      BY <2>5, <3>1 DEF CountConnection
  <2>6. CASE PushNew
    <3>1. <<aitem>> \o idleConnections \in Seq(Conns)
      BY <2>6 DEF PushNew, AppenderPlaces
    <3> QED
      BY <2>6, <3>1 DEF PushNew
  <2> QED
    BY <1>2, <2>1, <2>2, <2>3, <2>4, <2>5, <2>6 DEF AppenderStep
<1>3. CASE RemovalStep
  <2> USE DEF CheckerLocations
  <2>1. CASE ScheduleRemoval
    BY <2>1 DEF ScheduleRemoval
  <2>2. CASE BeginRemoval
    BY <2>2 DEF BeginRemoval
  <2>3. CASE ExamineIdle
    <3>1. \/ idleLock' = FALSE /\ kpc' = "sleep" /\ kpos' = 1
          \/ idleLock' = idleLock /\ kpc' = "release" /\ kpos' = kpos
          \/ idleLock' = idleLock /\ kpc' = kpc /\ kpos' = kpos + 1
      BY <2>3, Zenon DEF ExamineIdle, EndRemoval
    <3>2. UNCHANGED <<poolState, totalConnection, pendingRequestNumber, idleConnections, tasks, quit,
                      link, age, lost, faults, cpc, item, apc, aitem, xpc>>
      BY <2>3, Zenon DEF ExamineIdle
    <3>3. idleLock' \in BOOLEAN
      BY <3>1, Zenon
    <3>4. kpc' \in CheckerLocations /\ kpos' \in Nat
      BY <3>1
    <3> QED
      BY <3>2, <3>3, <3>4
  <2>4. CASE ReleaseIdle
    <3>1. WithoutAt(idleConnections, kpos) \in Seq(Conns)
      BY <2>4 DEF WithoutAt, ReleaseIdle, RemovalPlaces
    <3> QED
      BY <2>4, <3>1 DEF ReleaseIdle, Disconnect, TasksAfterRequest
  <2> QED
    BY <1>3, <2>1, <2>2, <2>3, <2>4 DEF RemovalStep
<1>4. CASE Close \/ CloserStep
  <2> USE DEF CloserLocations, CloseAll, Disconnect
  <2>0. Len(idleConnections) \in Nat /\ << >> \in Seq(Conns)
    OBVIOUS
  <2>1. CASE Close
    BY <2>1 DEF Close
  <2>2. CASE ClosePending
    BY <2>2 DEF ClosePending
  <2>3. CASE CloseShutdown
    BY <2>3 DEF CloseShutdown
  <2>4. CASE CloseIdle
    BY <2>0, <2>4 DEF CloseIdle
  <2>5. CASE CloseWait
    BY <2>5 DEF CloseWait
  <2>6. CASE CloseFinal
    <3>1. CASE CloseAll
      BY <2>0, <2>6, <3>1 DEF CloseFinal
    <3>2. CASE ~CloseAll
      BY <2>6, <3>2 DEF CloseFinal
    <3> QED
      BY <3>1, <3>2
  <2> QED
    BY <1>4, <2>1, <2>2, <2>3, <2>4, <2>5, <2>6 DEF CloserStep
<1>5. CASE Tick
  BY <1>5 DEF Tick
<1>6. ASSUME NEW k \in Conns, Break(k) PROVE TypeOK'
  BY <1>6 DEF Break
<1>7. CASE UNCHANGED vars
  BY <1>7 DEF vars
<1> QED
  BY <1>1, <1>2, <1>3, <1>4, <1>5, <1>6, <1>7 DEF Next

-----------------------------------------------------------------------------
(* Where the threads are, and what they have there.                             *)
LEMMA PlacesStep ==
  TypeOK /\ ItemPlaces /\ AppenderPlaces /\ RemovalPlaces /\ [Next]_vars
    => ItemPlaces' /\ AppenderPlaces' /\ RemovalPlaces'
<1> SUFFICES ASSUME TypeOK, ItemPlaces, AppenderPlaces, RemovalPlaces, [Next]_vars
             PROVE  ItemPlaces' /\ AppenderPlaces' /\ RemovalPlaces'
  OBVIOUS
<1> USE DEF poolVars, connVars, clientVars, workerVars
<1>1. ASSUME NEW c \in Clients, ClientStep(c) PROVE ItemPlaces' /\ AppenderPlaces' /\ RemovalPlaces'
  <2>1. ItemPlaces'
    <3>1. \A d \in Clients \ {c} : cpc'[d] = cpc[d] /\ item'[d] = item[d]
      BY <1>1 DEF TypeOK, ClientStep, RequestStep, ReturnStep, GetPoolConnection, PollIdle, PollNothing,
         AddConnectionRequest, ValidateItem, DiscardItem, LeaveRequest, UseHandle, CloseHandle,
         DropHandle, ConnectionClosed, ResetConnection, PushIdle, UncountItem, Go, Hand
    <3>2. (cpc'[c] \in WithItem => item'[c] # None) /\ (item'[c] # None => cpc'[c] \in WithItem \cup {"leave"})
      <4> USE DEF TypeOK, ItemPlaces, WithItem, Go, Hand
      <4>1. CASE GetPoolConnection(c) \/ PollNothing(c) \/ AddConnectionRequest(c)
        BY <4>1 DEF GetPoolConnection, PollNothing, AddConnectionRequest
      <4>2. CASE PollIdle(c)
        <5>1. Head(idleConnections) \in Conns
          BY <4>2 DEF PollIdle
        <5> QED
          BY <4>2, <5>1, ConnsAssumption DEF PollIdle
      <4>3. CASE ValidateItem(c) \/ LeaveRequest(c)
        BY <4>3 DEF ValidateItem, LeaveRequest
      <4>4. CASE DiscardItem(c)
        BY <4>4 DEF DiscardItem, AfterDiscard
      <4>5. CASE UseHandle(c) \/ CloseHandle(c)
        BY <4>5 DEF UseHandle, CloseHandle
      <4>6. CASE DropHandle(c)
        BY <4>6 DEF DropHandle
      <4>7. CASE ConnectionClosed(c)
        BY <4>7 DEF ConnectionClosed
      <4>8. CASE ResetConnection(c)
        BY <4>8 DEF ResetConnection
      <4>9. CASE PushIdle(c) \/ UncountItem(c)
        BY <4>9 DEF PushIdle, UncountItem
      <4> QED
        BY <1>1, <4>1, <4>2, <4>3, <4>4, <4>5, <4>6, <4>7, <4>8, <4>9
           DEF ClientStep, RequestStep, ReturnStep
    <3> QED
      BY <3>1, <3>2 DEF ItemPlaces
  <2>2. UNCHANGED <<apc, aitem, kpc, kpos, idleLock>>
    BY <1>1, Zenon DEF ClientStep, RequestStep, ReturnStep, GetPoolConnection, PollIdle, PollNothing,
         AddConnectionRequest, ValidateItem, DiscardItem, LeaveRequest, UseHandle, CloseHandle,
         DropHandle, ConnectionClosed, ResetConnection, PushIdle, UncountItem
  <2>3. idleConnections' = idleConnections \/ ~idleLock
    BY <1>1, Zenon DEF ClientStep, RequestStep, ReturnStep, GetPoolConnection, PollIdle, PollNothing,
         AddConnectionRequest, ValidateItem, DiscardItem, LeaveRequest, UseHandle, CloseHandle,
         DropHandle, ConnectionClosed, ResetConnection, PushIdle, UncountItem
  <2> QED
    BY <2>1, <2>2, <2>3 DEF AppenderPlaces, RemovalPlaces
<1>2. CASE AppenderStep
  <2>1. UNCHANGED <<cpc, item, kpc, kpos, idleLock>> /\ (idleConnections' = idleConnections \/ ~idleLock)
    BY <1>2, Zenon DEF AppenderStep, TakeTask, RunTask, Connect, CheckPoolState, CountConnection, PushNew
  <2>2. AppenderPlaces'
    <3> USE DEF AppenderPlaces, TypeOK
    <3>1. CASE TakeTask \/ RunTask
      BY <3>1 DEF TakeTask, RunTask
    <3>2. CASE Connect
      BY <3>2, ConnsAssumption DEF Connect
    <3>3. CASE CheckPoolState
      BY <3>3 DEF CheckPoolState
    <3>4. CASE CountConnection
      BY <3>4 DEF CountConnection
    <3>5. CASE PushNew
      BY <3>5 DEF PushNew
    <3> QED
      BY <1>2, <3>1, <3>2, <3>3, <3>4, <3>5 DEF AppenderStep
  <2> QED
    BY <2>1, <2>2 DEF ItemPlaces, RemovalPlaces
<1>3. CASE RemovalStep
  <2>1. UNCHANGED <<cpc, item, apc, aitem>>
    BY <1>3, Zenon DEF RemovalStep, ScheduleRemoval, BeginRemoval, ExamineIdle, ReleaseIdle
  <2>2. RemovalPlaces'
    <3> USE DEF RemovalPlaces, TypeOK
    <3>1. CASE ScheduleRemoval \/ BeginRemoval
      BY <3>1 DEF ScheduleRemoval, BeginRemoval
    <3>2. CASE ExamineIdle
      <4>1. \/ idleLock' = FALSE /\ kpc' = "sleep" /\ kpos' = 1
            \/ idleLock' = idleLock /\ kpc' = "release" /\ kpos' = kpos /\ kpos <= Len(idleConnections)
            \/ idleLock' = idleLock /\ kpc' = "scan" /\ kpos' = kpos + 1
        BY <3>2, Zenon DEF ExamineIdle, EndRemoval
      <4>2. kpc = "scan" /\ idleConnections' = idleConnections
        BY <3>2, Zenon DEF ExamineIdle
      <4>3. idleLock' <=> kpc' \in {"scan", "release"}
        BY <4>1, <4>2, Zenon
      <4>4. \/ kpc' = "sleep" /\ kpos' = 1
            \/ kpc' = "release" /\ kpos' = kpos /\ kpos <= Len(idleConnections)
            \/ kpc' = "scan" /\ kpos' = kpos + 1
        BY <4>1, Zenon
      <4>5. kpos' > 0 /\ (kpc' = "release" => kpos' <= Len(idleConnections'))
        BY <4>2, <4>4
      <4> QED
        BY <4>3, <4>5
    <3>3. CASE ReleaseIdle
      BY <3>3 DEF ReleaseIdle
    <3> QED
      BY <1>3, <3>1, <3>2, <3>3 DEF RemovalStep
  <2> QED
    BY <2>1, <2>2 DEF ItemPlaces, AppenderPlaces
<1>4. CASE Close \/ CloserStep
  <2>1. /\ UNCHANGED <<cpc, item, apc, aitem, kpc, kpos, idleLock>>
        /\ idleConnections' = idleConnections \/ ~idleLock
    BY <1>4, Zenon DEF Close, CloserStep, ClosePending, CloseShutdown, CloseIdle, CloseWait, CloseFinal, CloseAll
  <2> QED
    BY <2>1 DEF ItemPlaces, AppenderPlaces, RemovalPlaces
<1>5. CASE Tick \/ (\E k \in Conns : Break(k)) \/ UNCHANGED vars
  <2>1. UNCHANGED <<cpc, item, apc, aitem, kpc, kpos, idleLock, idleConnections>>
    BY <1>5, Zenon DEF Tick, Break, vars
  <2> QED
    BY <2>1 DEF ItemPlaces, AppenderPlaces, RemovalPlaces
<1> QED
  BY <1>1, <1>2, <1>3, <1>4, <1>5 DEF Next

(* A total that shrinks leaves the same room.                                  *)
LEMMA SumBound ==
  ASSUME NEW a \in Int, NEW b \in Int, NEW n \in Int, NEW m \in Int, b <= a, a + n <= m
  PROVE  b + n <= m
OBVIOUS

(* Room is used up by the appender only, after it has looked.                   *)
LEMMA RoomStep == TypeOK /\ RoomForNext /\ [Next]_vars => RoomForNext'
<1> SUFFICES ASSUME TypeOK, RoomForNext, [Next]_vars PROVE RoomForNext'
  OBVIOUS
<1> USE SizesAssumption DEF poolVars, connVars, clientVars, workerVars
<1>1. CASE AppenderStep
  <2> USE DEF RoomForNext, TypeOK
  <2>1. CASE TakeTask
    BY <2>1 DEF TakeTask
  <2>2. CASE RunTask
    BY <2>2 DEF RunTask
  <2>3. CASE Connect
    BY <2>3 DEF Connect
  <2>4. CASE CheckPoolState
    BY <2>4 DEF CheckPoolState
  <2>5. CASE CountConnection
    BY <2>5 DEF CountConnection
  <2>6. CASE PushNew
    BY <2>6 DEF PushNew
  <2> QED
    BY <1>1, <2>1, <2>2, <2>3, <2>4, <2>5, <2>6 DEF AppenderStep
<1>2. CASE ~AppenderStep
  <2>1. apc' = apc
    BY <1>2, Zenon DEF Next, ClientStep, RequestStep, ReturnStep, GetPoolConnection, PollIdle, PollNothing,
         AddConnectionRequest, ValidateItem, DiscardItem, LeaveRequest, UseHandle, CloseHandle,
         DropHandle, ConnectionClosed, ResetConnection, PushIdle, UncountItem, RemovalStep, ScheduleRemoval,
         BeginRemoval, ExamineIdle, ReleaseIdle, Close, CloserStep, ClosePending, CloseShutdown, CloseIdle,
         CloseWait, CloseFinal, Tick, Break, vars
  <2>2. totalConnection' \in {totalConnection, totalConnection - 1, totalConnection - Len(idleConnections)}
    BY <1>2, Zenon DEF Next, ClientStep, RequestStep, ReturnStep, GetPoolConnection, PollIdle, PollNothing,
         AddConnectionRequest, ValidateItem, DiscardItem, LeaveRequest, UseHandle, CloseHandle,
         DropHandle, ConnectionClosed, ResetConnection, PushIdle, UncountItem, RemovalStep, ScheduleRemoval,
         BeginRemoval, ExamineIdle, ReleaseIdle, Close, CloserStep, ClosePending, CloseShutdown, CloseIdle,
         CloseWait, CloseFinal, CloseAll, Tick, Break, vars
  <2>3. Len(idleConnections) \in Nat
    BY DEF TypeOK
  <2>4. totalConnection' \in Int /\ totalConnection' <= totalConnection
    BY <2>2, <2>3 DEF TypeOK
  <2>5. totalConnection \in Int /\ maxPoolSize \in Int
    BY DEF TypeOK
  <2> DEFINE n == IF apc \in {"connect", "opened", "count"} THEN 1 ELSE 0
  <2>6. n \in Int /\ totalConnection + n <= maxPoolSize
    BY DEF RoomForNext
  <2>7. RoomForNext' <=> totalConnection' + n <= maxPoolSize
    BY <2>1 DEF RoomForNext
  <2> HIDE DEF n
  <2>8. totalConnection' + n <= maxPoolSize
    BY <2>4, <2>5, <2>6, SumBound
  <2> QED
    BY <2>7, <2>8
<1> QED
  BY <1>1, <1>2

-----------------------------------------------------------------------------
(* Who owns which connection                                                    *)

(* A client that has nothing gets a connection that no client has.              *)
LEMMA HandOut ==
  ASSUME TypeOK, UniqueItems, NEW c \in Clients, item[c] = None,
         NEW k \in Conns, k \notin InHands, Hand(c, k)
  PROVE  InHands' = InHands \cup {k} /\ UniqueItems'
<1>1. None \notin Conns
  BY ConnsAssumption
<1>2. item'[c] = k /\ \A d \in Clients \ {c} : item'[d] = item[d]
  BY DEF TypeOK, Hand
<1>3. Holders' = Holders \cup {c} /\ c \notin Holders
  BY <1>1, <1>2 DEF Holders
<1>4. InHands' = InHands \cup {k}
  BY <1>2, <1>3 DEF InHands, Holders
<1>5. UniqueItems'
  BY <1>2, <1>3 DEF UniqueItems, InHands, Holders
<1> QED
  BY <1>4, <1>5

(* A client lets go of the connection that it has.                              *)
LEMMA HandBack ==
  ASSUME TypeOK, UniqueItems, NEW c \in Clients, item[c] # None, Hand(c, None)
  PROVE  /\ item[c] \in Conns /\ item[c] \in InHands
         /\ InHands' = InHands \ {item[c]} /\ UniqueItems'
<1>1. item[c] \in Conns /\ item[c] \in InHands
  BY DEF TypeOK, InHands, Holders
<1>2. item'[c] = None /\ \A d \in Clients \ {c} : item'[d] = item[d]
  BY DEF TypeOK, Hand
<1>3. Holders' = Holders \ {c} /\ c \in Holders
  BY <1>2 DEF Holders
<1>4. InHands' = InHands \ {item[c]}
  BY <1>2, <1>3 DEF InHands, Holders, UniqueItems
<1>5. UniqueItems'
  BY <1>2, <1>3 DEF UniqueItems, Holders
<1> QED
  BY <1>1, <1>4, <1>5

Owners == KnownAreOpen /\ OneOwner /\ SlotAccounting

(* A step that moves no connection and closes none.                             *)
LEMMA SameOwners ==
  ASSUME TypeOK, Owners, UNCHANGED <<idleConnections, item, aitem, lost, totalConnection>>,
         apc' = "push" <=> apc = "push",
         \A k \in Conns : link[k] # "none" => link'[k] # "none"
  PROVE  Owners' /\ Counted' = Counted
<1>1. InIdle' = InIdle /\ InHands' = InHands /\ Holders' = Holders
  BY DEF InIdle, InHands, Holders
<1>2. Known' = Known /\ Counted' = Counted
  BY <1>1 DEF Known, Counted
<1>3. OneOwner'
  BY <1>1 DEF Owners, OneOwner, UniqueItems
<1> QED
  BY <1>2, <1>3 DEF Owners, KnownAreOpen, SlotAccounting

(* A client's connection is closed and no longer counted.                       *)
LEMMA ClosedByClient ==
  ASSUME IInv, NEW c \in Clients, item[c] # None, Hand(c, None), Disconnect({item[c]}),
         totalConnection' = totalConnection - 1,
         UNCHANGED <<idleConnections, lost, apc, aitem>>
  PROVE  Owners' /\ Counted' = Counted \ {item[c]}
<1> USE DEF IInv
<1>1. /\ item[c] \in Conns /\ item[c] \in InHands
      /\ InHands' = InHands \ {item[c]} /\ UniqueItems'
  BY HandBack DEF OneOwner
<1>2. InIdle' = InIdle
  BY DEF InIdle
<1>3. OneOwner'
  BY <1>1, <1>2 DEF OneOwner
<1>4. item[c] \notin Known' /\ Known' \subseteq Known
  BY <1>1, <1>2 DEF Known, OneOwner
<1>5. KnownAreOpen'
  BY <1>4 DEF KnownAreOpen, Disconnect
<1>6. Counted' = Counted \ {item[c]} /\ item[c] \in Counted
  BY <1>1, <1>2 DEF Counted, OneOwner
<1>7. SlotAccounting'
  BY <1>6, CountedIsFinite, FS_RemoveElement DEF SlotAccounting
<1> QED
  BY <1>3, <1>5, <1>6, <1>7 DEF Owners

(* close() empties the deque.                                                   *)
LEMMA ClosedWithPool ==
  ASSUME IInv, CloseAll, UNCHANGED <<item, lost, apc, aitem>>
  PROVE  Owners' /\ Counted' = Counted \ InIdle
<1> USE DEF IInv
<1>1. InIdle = Elements(idleConnections) /\ InIdle' = {} /\ Distinct(idleConnections')
  BY EmptyElements DEF InIdle, Elements, CloseAll
<1>2. InHands' = InHands /\ Holders' = Holders
  BY DEF InHands, Holders
<1>3. OneOwner'
  BY <1>1, <1>2 DEF OneOwner, UniqueItems
<1>4. Known' \subseteq Known \ InIdle
  BY <1>1, <1>2 DEF Known, OneOwner
<1>5. KnownAreOpen'
  BY <1>4 DEF KnownAreOpen, CloseAll, Disconnect
<1>6. Counted' = Counted \ InIdle /\ InIdle \subseteq Counted
  <2>1. apc = "push" => aitem \notin InIdle
    BY DEF OneOwner
  <2> QED
    BY <1>1, <1>2, <2>1 DEF Counted, OneOwner
<1>7. IsFiniteSet(InIdle) /\ Cardinality(InIdle) = Len(idleConnections)
  BY <1>1, ElementsCount DEF TypeOK, OneOwner
<1>8. Cardinality(Counted \ InIdle) = Cardinality(Counted) - Cardinality(InIdle)
  <2>1. Counted \cap InIdle = InIdle
    BY <1>6
  <2> QED
    BY <2>1, CountedIsFinite, FS_Difference
<1>9. SlotAccounting'
  BY <1>6, <1>7, <1>8 DEF SlotAccounting, CloseAll
<1> QED
  BY <1>3, <1>5, <1>6, <1>9 DEF Owners

(* The deque's front goes to a client.                                          *)
LEMMA PollOwners ==
  ASSUME IInv, NEW c \in Clients, PollIdle(c)
  PROVE  Owners' /\ Counted' = Counted
<1> USE DEF IInv
<1> DEFINE k == Head(idleConnections)
<1>1. /\ k \in Conns /\ k \in InIdle /\ Distinct(idleConnections')
      /\ InIdle' = InIdle \ {k}
  <2>1. idleConnections # << >> /\ idleConnections' = Tail(idleConnections)
    BY DEF PollIdle
  <2>2. InIdle = Elements(idleConnections) /\ InIdle' = Elements(idleConnections')
    BY DEF InIdle, Elements
  <2> QED
    BY <2>1, <2>2, TailElements DEF TypeOK, OneOwner
<1>2. Hand(c, k) /\ item[c] = None /\ UNCHANGED <<totalConnection, link, lost, apc, aitem>>
  BY DEF PollIdle, ItemPlaces, WithItem, connVars, workerVars
<1> HIDE DEF k
<1>3. InHands' = InHands \cup {k} /\ UniqueItems'
  BY <1>1, <1>2, HandOut DEF OneOwner
<1>4. OneOwner'
  BY <1>1, <1>2, <1>3 DEF OneOwner
<1>5. Known' = Known /\ Counted' = Counted
  BY <1>1, <1>2, <1>3 DEF Known, Counted
<1> QED
  BY <1>2, <1>4, <1>5 DEF Owners, KnownAreOpen, SlotAccounting

(* A client's connection goes to the back of the deque.                         *)
LEMMA PushOwners ==
  ASSUME IInv, NEW c \in Clients, PushIdle(c)
  PROVE  Owners' /\ Counted' = Counted
<1> USE DEF IInv
<1>1. item[c] # None /\ Hand(c, None) /\ UNCHANGED <<totalConnection, link, lost, apc, aitem>>
  BY DEF PushIdle, ItemPlaces, WithItem, connVars, workerVars
<1>2. /\ item[c] \in Conns /\ item[c] \in InHands
      /\ InHands' = InHands \ {item[c]} /\ UniqueItems'
  BY <1>1, HandBack DEF OneOwner
<1>3. Distinct(idleConnections') /\ InIdle' = InIdle \cup {item[c]}
  <2>1. idleConnections' = Append(idleConnections, item[c])
    BY DEF PushIdle
  <2>2. InIdle = Elements(idleConnections) /\ InIdle' = Elements(idleConnections')
    BY DEF InIdle, Elements
  <2>3. item[c] \notin InIdle
    BY <1>2 DEF OneOwner
  <2> QED
    BY <1>2, <2>1, <2>2, <2>3, AppendElements DEF TypeOK, OneOwner
<1>4. OneOwner'
  BY <1>1, <1>2, <1>3 DEF OneOwner
<1>5. Known' = Known /\ Counted' = Counted
  BY <1>1, <1>2, <1>3 DEF Known, Counted
<1> QED
  BY <1>1, <1>4, <1>5 DEF Owners, KnownAreOpen, SlotAccounting

(* The connection of a destroyed handle that is known to be broken is lost.     *)
LEMMA DropOwners ==
  ASSUME IInv, NEW c \in Clients, DropHandle(c)
  PROVE  Owners' /\ Counted' = Counted
<1> USE DEF IInv
<1>1. item[c] # None /\ UNCHANGED <<totalConnection, idleConnections, link, apc, aitem>>
  BY DEF DropHandle, ItemPlaces, WithItem, poolVars, workerVars
<1>2. CASE link[item[c]] = "noticed"
  <2>1. lost' = lost \cup {item[c]} /\ Hand(c, None)
    BY <1>2 DEF DropHandle
  <2>2. /\ item[c] \in Conns /\ item[c] \in InHands
        /\ InHands' = InHands \ {item[c]} /\ UniqueItems'
    BY <1>1, <2>1, HandBack DEF OneOwner
  <2>3. InIdle' = InIdle
    BY <1>1 DEF InIdle
  <2>4. OneOwner'
    BY <1>1, <2>1, <2>2, <2>3 DEF OneOwner
  <2>5. Known' = Known /\ Counted' = Counted
    BY <1>1, <2>1, <2>2, <2>3 DEF Known, Counted
  <2> QED
    BY <1>1, <2>4, <2>5 DEF Owners, KnownAreOpen, SlotAccounting
<1>3. CASE link[item[c]] # "noticed"
  <2>1. UNCHANGED <<lost, item>>
    BY <1>3 DEF DropHandle
  <2> QED
    BY <1>1, <2>1, SameOwners DEF Owners
<1> QED
  BY <1>2, <1>3

(* The steps of a client.                                                       *)
LEMMA ClientOwners ==
  ASSUME IInv, NEW c \in Clients, ClientStep(c)
  PROVE  /\ Owners'
         /\ \/ Counted' = Counted
            \/ (DiscardItem(c) \/ UncountItem(c)) /\ Counted' = Counted \ {item[c]}
<1> USE DEF poolVars, connVars, clientVars, workerVars
<1>0. TypeOK /\ ItemPlaces /\ Owners
  BY DEF IInv, Owners
<1>1. CASE GetPoolConnection(c) \/ PollNothing(c) \/ AddConnectionRequest(c) \/ LeaveRequest(c)
           \/ ResetConnection(c) \/ ValidateItem(c)
  <2>1. UNCHANGED <<idleConnections, item, aitem, lost, totalConnection, apc, link>>
    BY <1>1, Zenon DEF GetPoolConnection, PollNothing, AddConnectionRequest, LeaveRequest, ResetConnection,
       ValidateItem
  <2> QED
    BY <1>0, <2>1, SameOwners
<1>2. CASE UseHandle(c) \/ CloseHandle(c)
  <2>1. UNCHANGED <<idleConnections, item, aitem, lost, totalConnection, apc>>
    BY <1>2, Zenon DEF UseHandle, CloseHandle
  <2>2. \A k \in Conns : link[k] # "none" => link'[k] # "none"
    BY <1>0, <1>2 DEF UseHandle, CloseHandle, TypeOK
  <2> QED
    BY <1>0, <2>1, <2>2, SameOwners
<1>3. CASE ConnectionClosed(c)
  <2>1. item[c] \in InHands /\ item[c] \notin InIdle
    BY <1>0, <1>3 DEF ConnectionClosed, ItemPlaces, WithItem, InHands, Holders, Owners, OneOwner
  <2>2. UNCHANGED <<idleConnections, item, aitem, lost, totalConnection, apc, link>>
    BY <1>3, <2>1, Zenon DEF ConnectionClosed
  <2> QED
    BY <1>0, <2>2, SameOwners
<1>4. CASE DiscardItem(c)
  <2>1. item[c] # None
    BY <1>0, <1>4 DEF DiscardItem, ItemPlaces, WithItem
  <2> QED
    BY <1>4, <2>1, ClosedByClient DEF DiscardItem
<1>5. CASE UncountItem(c)
  <2>1. item[c] # None
    BY <1>0, <1>5 DEF UncountItem, ItemPlaces, WithItem
  <2> QED
    BY <1>5, <2>1, ClosedByClient DEF UncountItem
<1> QED
  BY <1>1, <1>2, <1>3, <1>4, <1>5, PollOwners, PushOwners, DropOwners
     DEF ClientStep, RequestStep, ReturnStep

(* The steps of the appender. Its connection is nobody else's, and it is counted*)
(* when the pool has room for it: always, as RoomForNext says.                  *)
LEMMA AppenderOwners ==
  ASSUME IInv, AppenderStep
  PROVE  /\ Owners'
         /\ \/ Counted' = Counted
            \/ /\ aitem \in Conns \ Counted /\ totalConnection < maxPoolSize
               /\ Counted' = Counted \cup {aitem}
<1> USE DEF poolVars, connVars, clientVars, workerVars
<1>0. TypeOK /\ AppenderPlaces /\ Owners
  BY DEF IInv, Owners
<1>1. CASE TakeTask \/ RunTask
  <2>1. UNCHANGED <<idleConnections, item, aitem, lost, totalConnection, link>>
    BY <1>1, Zenon DEF TakeTask, RunTask
  <2>2. apc' = "push" <=> apc = "push"
    BY <1>1 DEF TakeTask, RunTask
  <2> QED
    BY <1>0, <2>1, <2>2, SameOwners
<1>2. CASE Connect
  <2>1. UNCHANGED <<idleConnections, item, lost, totalConnection>> /\ apc = "connect"
    BY <1>2 DEF Connect
  <2>2. InIdle' = InIdle /\ InHands' = InHands /\ Holders' = Holders
    BY <2>1 DEF InIdle, InHands, Holders
  <2>3. ASSUME NEW k \in Conns, link[k] = "none", link' = [link EXCEPT ![k] = "up"],
               aitem' = k, apc' = "opened"
        PROVE  Owners' /\ Counted' = Counted
    <3>1. k \notin Known
      BY <1>0, <2>3 DEF Owners, KnownAreOpen
    <3>2. OneOwner'
      BY <1>0, <2>1, <2>2, <2>3, <3>1 DEF Owners, OneOwner, UniqueItems, Known
    <3>3. Known' \subseteq Known \cup {k} /\ Counted' = Counted
      BY <2>1, <2>2, <2>3 DEF Known, Counted
    <3>4. KnownAreOpen'
      BY <1>0, <2>3, <3>3 DEF Owners, KnownAreOpen, TypeOK
    <3> QED
      BY <1>0, <2>1, <3>2, <3>3, <3>4 DEF Owners, SlotAccounting
  <2>4. CASE apc' = "idle" /\ UNCHANGED <<link, age, aitem>>
    BY <1>0, <2>1, <2>4, SameOwners
  <2> QED
    BY <1>2, <2>3, <2>4 DEF Connect
<1>3. CASE CheckPoolState
  <2>1. UNCHANGED <<idleConnections, item, lost, totalConnection>> /\ apc = "opened"
    BY <1>3 DEF CheckPoolState
  <2>2. CASE poolState = "OK"
    <3>1. apc' = "count" /\ UNCHANGED <<link, aitem>>
      BY <1>3, <2>2 DEF CheckPoolState
    <3> QED
      BY <1>0, <2>1, <3>1, SameOwners
  <2>3. CASE poolState # "OK"
    <3>1. apc' = "idle" /\ aitem' = None /\ Disconnect({aitem}) /\ aitem \in Conns
      BY <1>0, <1>3, <2>1, <2>3 DEF CheckPoolState, AppenderPlaces, TypeOK
    <3>2. InIdle' = InIdle /\ InHands' = InHands /\ Holders' = Holders
      BY <2>1 DEF InIdle, InHands, Holders
    <3>3. None \notin InIdle \cup InHands \cup lost
      BY <1>0, ConnsAssumption DEF TypeOK, InIdle, InHands, Holders
    <3>4. OneOwner'
      BY <1>0, <2>1, <3>1, <3>2, <3>3 DEF Owners, OneOwner, UniqueItems
    <3>5. \A k \in Conns : k \in Known' => k \in Known \ {aitem}
      BY <1>0, <2>1, <3>1, <3>2, ConnsAssumption DEF Owners, OneOwner, Known
    <3>6. KnownAreOpen'
      BY <1>0, <3>1, <3>5 DEF Owners, KnownAreOpen, Disconnect
    <3>7. Counted' = Counted
      BY <2>1, <3>1, <3>2 DEF Counted
    <3> QED
      BY <1>0, <2>1, <3>4, <3>6, <3>7 DEF Owners, SlotAccounting
  <2> QED
    BY <2>2, <2>3
<1>4. CASE CountConnection
  <2>1. /\ UNCHANGED <<idleConnections, item, lost>> /\ apc = "count"
        /\ totalConnection' = totalConnection + 1
    BY <1>4 DEF CountConnection
  <2>2. totalConnection + 1 <= maxPoolSize
    BY <2>1 DEF IInv, RoomForNext
  <2>3. apc' = "push" /\ UNCHANGED <<link, aitem>>
    BY <1>4, <2>2 DEF CountConnection
  <2>4. InIdle' = InIdle /\ InHands' = InHands /\ Holders' = Holders
    BY <2>1 DEF InIdle, InHands, Holders
  <2>5. OneOwner'
    BY <1>0, <2>1, <2>3, <2>4 DEF Owners, OneOwner, UniqueItems
  <2>6. KnownAreOpen'
    BY <1>0, <2>1, <2>3, <2>4 DEF Owners, KnownAreOpen, Known
  <2>7. Counted' = Counted \cup {aitem} /\ aitem \in Conns \ Counted
    BY <1>0, <2>1, <2>3, <2>4 DEF Owners, OneOwner, Counted, AppenderPlaces, TypeOK
  <2>8. SlotAccounting'
    BY <1>0, <2>1, <2>7, CountedIsFinite, FS_AddElement DEF Owners, SlotAccounting
  <2>9. totalConnection < maxPoolSize
    BY <1>0, <2>2, SizesAssumption DEF TypeOK
  <2> QED
    BY <2>5, <2>6, <2>7, <2>8, <2>9 DEF Owners
<1>5. CASE PushNew
  <2>1. /\ UNCHANGED <<item, lost, link, totalConnection>> /\ apc = "push" /\ apc' = "idle"
        /\ aitem' = None /\ aitem \in Conns /\ idleConnections' = <<aitem>> \o idleConnections
    BY <1>0, <1>5 DEF PushNew, AppenderPlaces, TypeOK
  <2>2. InHands' = InHands /\ Holders' = Holders
    BY <2>1 DEF InHands, Holders
  <2>3. Distinct(idleConnections') /\ InIdle' = InIdle \cup {aitem}
    <3>1. InIdle = Elements(idleConnections) /\ InIdle' = Elements(idleConnections')
      BY DEF InIdle, Elements
    <3>2. aitem \notin InIdle
      BY <1>0 DEF Owners, OneOwner
    <3> QED
      BY <1>0, <2>1, <3>1, <3>2, ConsElements DEF TypeOK, Owners, OneOwner
  <2>4. None \notin InIdle \cup InHands \cup lost \cup {aitem}
    BY <1>0, <2>1, ConnsAssumption DEF TypeOK, InIdle, InHands, Holders
  <2>5. OneOwner'
    BY <1>0, <2>1, <2>2, <2>3, <2>4 DEF Owners, OneOwner, UniqueItems
  <2>6. Known' = Known \cup {None} /\ Counted' = Counted
    BY <2>1, <2>2, <2>3 DEF Known, Counted
  <2>7. KnownAreOpen'
    BY <1>0, <2>1, <2>6, ConnsAssumption DEF Owners, KnownAreOpen
  <2> QED
    BY <1>0, <2>1, <2>5, <2>6, <2>7 DEF Owners, SlotAccounting
<1> QED
  BY <1>1, <1>2, <1>3, <1>4, <1>5 DEF AppenderStep

(* The steps of the removal task.                                               *)
LEMMA RemovalOwners ==
  ASSUME IInv, RemovalStep
  PROVE  /\ Owners'
         /\ \/ Counted' = Counted
            \/ \E k \in InIdle : Counted' = Counted \ {k}
<1> USE DEF poolVars, connVars, clientVars, workerVars
<1>0. TypeOK /\ RemovalPlaces /\ AppenderPlaces /\ Owners
  BY DEF IInv, Owners
<1>1. CASE ScheduleRemoval \/ BeginRemoval \/ ExamineIdle
  <2>1. UNCHANGED <<idleConnections, item, aitem, lost, totalConnection, apc, link>>
    BY <1>1, Zenon DEF ScheduleRemoval, BeginRemoval, ExamineIdle
  <2> QED
    BY <1>0, <2>1, SameOwners
<1>2. CASE ReleaseIdle
  <2> DEFINE k == idleConnections[kpos]
  <2>1. /\ UNCHANGED <<item, aitem, lost, apc>> /\ totalConnection' = totalConnection - 1
        /\ Disconnect({k}) /\ idleConnections' = Without(idleConnections, kpos)
    BY <1>2 DEF ReleaseIdle, WithoutAt, Without
  <2>2. kpos \in 1..Len(idleConnections)
    BY <1>0, <1>2 DEF RemovalPlaces, ReleaseIdle, TypeOK
  <2>3. k \in InIdle /\ k \in Conns
    BY <1>0, <2>2 DEF InIdle, TypeOK
  <2>4. Distinct(idleConnections') /\ InIdle' = InIdle \ {k}
    <3>1. InIdle = Elements(idleConnections) /\ InIdle' = Elements(idleConnections')
      BY DEF InIdle, Elements
    <3> QED
      BY <1>0, <2>1, <2>2, <3>1, WithoutElements DEF TypeOK, Owners, OneOwner
  <2> HIDE DEF k
  <2>5. InHands' = InHands /\ Holders' = Holders
    BY <2>1 DEF InHands, Holders
  <2>6. OneOwner'
    BY <1>0, <2>1, <2>4, <2>5 DEF Owners, OneOwner, UniqueItems
  <2>7. Known' = Known \ {k} /\ Counted' = Counted \ {k} /\ k \in Counted
    BY <1>0, <2>1, <2>3, <2>4, <2>5 DEF Owners, OneOwner, Known, Counted
  <2>8. KnownAreOpen'
    BY <1>0, <2>1, <2>7 DEF Owners, KnownAreOpen, Disconnect
  <2>9. SlotAccounting'
    BY <1>0, <2>1, <2>7, CountedIsFinite, FS_RemoveElement DEF Owners, SlotAccounting
  <2> QED
    BY <2>3, <2>6, <2>7, <2>8, <2>9 DEF Owners
<1> QED
  BY <1>1, <1>2 DEF RemovalStep

(* The steps of the closing thread.                                             *)
LEMMA CloserOwners ==
  ASSUME IInv, Close \/ CloserStep
  PROVE  Owners' /\ (Counted' = Counted \/ Counted' = Counted \ InIdle)
<1> USE DEF poolVars, connVars, clientVars, workerVars
<1>0. TypeOK /\ Owners
  BY DEF IInv, Owners
<1>1. UNCHANGED <<item, aitem, lost, apc>>
  BY Zenon DEF Close, CloserStep, ClosePending, CloseShutdown, CloseIdle, CloseWait, CloseFinal
<1>2. CloseAll \/ UNCHANGED <<idleConnections, totalConnection, link>>
  BY Zenon DEF Close, CloserStep, ClosePending, CloseShutdown, CloseIdle, CloseWait, CloseFinal
<1>3. CASE CloseAll
  BY <1>1, <1>3, ClosedWithPool
<1>4. CASE UNCHANGED <<idleConnections, totalConnection, link>>
  BY <1>0, <1>1, <1>4, SameOwners
<1> QED
  BY <1>2, <1>3, <1>4

(* Every step keeps one owner per connection and the count exact.              *)
LEMMA OwnersStep == IInv /\ [Next]_vars => Owners'
<1> SUFFICES ASSUME IInv, [Next]_vars PROVE Owners'
  OBVIOUS
<1>0. TypeOK /\ Owners
  BY DEF IInv, Owners
<1>1. CASE Tick \/ UNCHANGED vars
  <2>1. UNCHANGED <<idleConnections, item, aitem, lost, totalConnection, apc, link>>
    BY <1>1, Zenon DEF Tick, vars, poolVars, connVars, clientVars, workerVars
  <2> QED
    BY <1>0, <2>1, SameOwners
<1>2. ASSUME NEW k \in Conns, Break(k) PROVE Owners'
  <2>1. UNCHANGED <<idleConnections, item, aitem, lost, totalConnection, apc>>
    BY <1>2, Zenon DEF Break, poolVars, clientVars, workerVars
  <2>2. \A j \in Conns : link[j] # "none" => link'[j] # "none"
    BY <1>0, <1>2 DEF Break, TypeOK
  <2> QED
    BY <1>0, <2>1, <2>2, SameOwners
<1> QED
  BY <1>1, <1>2, ClientOwners, AppenderOwners, RemovalOwners, CloserOwners DEF Next

-----------------------------------------------------------------------------
(* The pool as it was constructed.                                              *)
LEMMA InitIInv == Init => IInv
<1> SUFFICES ASSUME Init PROVE IInv
  OBVIOUS
<1>1. PICK k \in Conns : /\ idleConnections = <<k>>
                         /\ link = [j \in Conns |-> IF j = k THEN "up" ELSE "none"]
  BY DEF Init
<1>2. InIdle = {k} /\ Distinct(idleConnections) /\ Len(idleConnections) = 1
  BY <1>1 DEF InIdle, Distinct
<1>3. Holders = {} /\ InHands = {}
  BY DEF Init, Holders, InHands
<1>4. TypeOK
  <2>1. minPoolSize - 1 \in Nat
    BY SizesAssumption
  <2>2. idleConnections \in Seq(Conns)
    BY <1>1
  <2>3. link \in [Conns -> {"none", "up", "down", "noticed"}]
    BY <1>1
  <2>4. cpc \in [Clients -> ClientLocations] /\ item \in [Clients -> Conns \cup {None}] /\ age \in [Conns -> Nat]
    BY DEF Init, ClientLocations
  <2>5. idleLock \in BOOLEAN /\ quit \in BOOLEAN
    BY DEF Init
  <2>6. totalConnection \in Int /\ pendingRequestNumber \in Int /\ tasks \in Nat /\ faults \in Nat /\ kpos \in Nat
    BY <2>1 DEF Init
  <2>7. /\ poolState \in {"OK", "CLOSING"} /\ lost \subseteq Conns
        /\ apc \in AppenderLocations /\ aitem \in Conns \cup {None}
        /\ kpc \in CheckerLocations /\ xpc \in CloserLocations
    BY DEF Init, AppenderLocations, CheckerLocations, CloserLocations
  <2> QED
    BY <2>2, <2>3, <2>4, <2>5, <2>6, <2>7 DEF TypeOK
<1>5. ItemPlaces /\ AppenderPlaces /\ RemovalPlaces
  BY DEF Init, ItemPlaces, AppenderPlaces, RemovalPlaces, WithItem
<1>6. KnownAreOpen /\ OneOwner
  BY <1>1, <1>2, <1>3, ConnsAssumption DEF Init, KnownAreOpen, Known, OneOwner, UniqueItems
<1>7. Counted = {k}
  BY <1>2, <1>3 DEF Init, Counted
<1>8. SlotAccounting
  BY <1>7, FS_Singleton DEF Init, SlotAccounting
<1>9. RoomForNext
  BY SizesAssumption DEF Init, RoomForNext
<1> QED
  BY <1>4, <1>5, <1>6, <1>8, <1>9 DEF IInv

(* The invariant is inductive.                                                 *)
LEMMA StepIInv == IInv /\ [Next]_vars => IInv'
BY TypeStep, PlacesStep, RoomStep, OwnersStep DEF IInv, Owners

(* It holds of every pool.                                                     *)
LEMMA Invariance == Spec => []IInv
BY InitIInv, StepIInv, PTL DEF Spec

(* One owner per connection is an exclusive lease.                             *)
LEMMA IInvExclusive == IInv => ExclusiveLease
BY DEF IInv, OneOwner, UniqueItems, Distinct, ExclusiveLease

(* The connection that the appender is about to count has its room.             *)
LEMMA IInvBound == IInv => PoolBound
<1> SUFFICES ASSUME IInv PROVE PoolBound
  OBVIOUS
<1> USE DEF IInv
<1>1. IsFiniteSet(Counted) /\ Cardinality(Counted) = totalConnection /\ totalConnection \in Int
  BY CountedIsFinite DEF SlotAccounting, TypeOK
<1>2. maxPoolSize \in Int
  BY SizesAssumption
<1>3. CASE aitem = None \/ apc = "push"
  <2>1. Counted \cup (IF aitem = None THEN {} ELSE {aitem}) = Counted
    BY <1>3 DEF Counted
  <2>2. totalConnection <= maxPoolSize
    BY <1>1, <1>2 DEF RoomForNext
  <2> QED
    BY <1>1, <2>1, <2>2 DEF PoolBound
<1>4. CASE aitem # None /\ apc # "push"
  <2>1. apc \in {"opened", "count"}
    BY <1>4 DEF AppenderPlaces
  <2>2. totalConnection + 1 <= maxPoolSize
    BY <2>1 DEF RoomForNext
  <2>3. aitem \notin Counted
    BY <1>4 DEF Counted, OneOwner
  <2>4. Cardinality(Counted \cup {aitem}) = totalConnection + 1
    BY <1>1, <2>3, FS_AddElement
  <2> QED
    BY <1>4, <2>2, <2>4 DEF PoolBound
<1> QED
  BY <1>3, <1>4

(* totalConnection is exact, the maximum holds, and no connection has two users,*)
(* for every pool, every number of clients and every failure.                   *)
THEOREM PoolSafety == Spec => [](TypeOK /\ SlotAccounting /\ PoolBound /\ ExclusiveLease)
<1>1. Spec => []IInv
  BY Invariance
<1>2. IInv => TypeOK /\ SlotAccounting /\ PoolBound /\ ExclusiveLease
  BY IInvExclusive, IInvBound DEF IInv
<1> QED
  BY <1>1, <1>2, PTL

-----------------------------------------------------------------------------
(* Refinement                                                                   *)

(* PoolLease counts with the same Cardinality.                                  *)
LEMMA LeaseCardinality == ASSUME NEW S PROVE Lease!Cardinality(S) = Cardinality(S)
BY Zenon DEF Lease!Cardinality, Cardinality, Lease!IsFiniteSet, IsFiniteSet

(* A connection that is lent is in its client's hands only.                     *)
LEMMA LeasedInHands ==
  ASSUME IInv
  PROVE  /\ Lease!Leased \subseteq InHands
         /\ \A c \in Clients : (item[c] # None /\ cpc[c] # "held") => item[c] \notin Lease!Leased
         /\ \A c \in Clients : cpc[c] = "held" => item[c] # None
<1>1. \A x \in Lease!Leased : \E d \in Holders : cpc[d] = "held" /\ x = item[d]
  BY DEF Lease!Leased, Leases, Holders
<1> QED
  BY <1>1 DEF IInv, OneOwner, UniqueItems, InHands, Holders, ItemPlaces, WithItem

(* A step after which the same clients hold the same connections.               *)
LEMMA SameLeases ==
  ASSUME \A c \in Clients : (cpc'[c] = "held" <=> cpc[c] = "held") /\ (cpc[c] = "held" => item'[c] = item[c])
  PROVE  Leases' = Leases
BY DEF Leases

(* A connection that no client has may leave the pool.                          *)
LEMMA RemovalIsRemove ==
  ASSUME IInv, NEW S \in SUBSET Conns, S \cap Lease!Leased = {}, S \subseteq Counted,
         Counted' = Counted \ S, Leases' = Leases
  PROVE  Lease!LeaseNext
BY DEF Lease!LeaseNext, Lease!Remove

(* The steps of a client lend and give back; the others leave leases alone.     *)
LEMMA ClientLease ==
  ASSUME IInv, NEW c \in Clients, ClientStep(c)
  PROVE  Lease!LeaseNext \/ UNCHANGED Lease!leaseVars
<1> USE DEF clientVars
<1>0. TypeOK /\ ItemPlaces /\ Counted \subseteq Conns
  BY CountedIsFinite DEF IInv
<1>1. \A d \in Clients \ {c} : cpc'[d] = cpc[d] /\ item'[d] = item[d]
  BY <1>0 DEF TypeOK, ClientStep, RequestStep, ReturnStep, GetPoolConnection, PollIdle, PollNothing,
     AddConnectionRequest, ValidateItem, DiscardItem, LeaveRequest, UseHandle, CloseHandle,
     DropHandle, ConnectionClosed, ResetConnection, PushIdle, UncountItem, Go, Hand
<1>2. CASE DiscardItem(c) \/ UncountItem(c)
  <2>1. cpc[c] # "held" /\ cpc'[c] # "held"
    BY <1>0, <1>2 DEF DiscardItem, UncountItem, AfterDiscard, Go, TypeOK
  <2>2. Leases' = Leases
    BY <1>1, <2>1, SameLeases
  <2>3. item[c] # None
    BY <1>0, <1>2 DEF DiscardItem, UncountItem, ItemPlaces, WithItem
  <2>4. item[c] \in Counted /\ item[c] \in Conns /\ item[c] \notin Lease!Leased
    BY <1>0, <2>1, <2>3, LeasedInHands DEF Counted, InHands, Holders, TypeOK
  <2>5. Counted' = Counted \ {item[c]} \/ Counted' = Counted
    BY ClientOwners
  <2>6. CASE Counted' = Counted \ {item[c]}
    <3>1. {item[c]} \in SUBSET Conns /\ {item[c]} \cap Lease!Leased = {} /\ {item[c]} \subseteq Counted
      BY <2>4
    <3> QED
      BY <2>2, <2>6, <3>1, RemovalIsRemove
  <2>7. CASE Counted' = Counted
    BY <2>2, <2>7 DEF Lease!leaseVars
  <2> QED
    BY <2>5, <2>6, <2>7
<1>3. CASE ~(DiscardItem(c) \/ UncountItem(c))
  <2>1. Counted' = Counted
    BY <1>3, ClientOwners
  <2>2. CASE LeaveRequest(c)
    <3>1. cpc[c] = "leave" /\ item' = item /\ cpc'[c] = IF item[c] = None THEN "out" ELSE "held"
      BY <1>0, <2>2 DEF LeaveRequest, Go, TypeOK
    <3>2. CASE item[c] = None
      <4>1. Leases' = Leases
        BY <1>1, <3>1, <3>2, SameLeases
      <4> QED
        BY <2>1, <4>1 DEF Lease!leaseVars
    <3>3. CASE item[c] # None
      <4>1. item[c] \in Conns /\ item[c] \in Counted \ Lease!Leased
        BY <1>0, <3>1, <3>3, LeasedInHands DEF Counted, InHands, Holders, TypeOK
      <4>2. Leases[c] = None
        BY <3>1 DEF Leases
      <4>3. Leases' = [Leases EXCEPT ![c] = item[c]]
        BY <1>1, <3>1, <3>3 DEF Leases
      <4> QED
        BY <2>1, <4>1, <4>2, <4>3 DEF Lease!LeaseNext, Lease!Lend
    <3> QED
      BY <3>2, <3>3
  <2>3. CASE (CloseHandle(c) \/ DropHandle(c)) /\ cpc'[c] # "held"
    <3>1. cpc[c] = "held" /\ item[c] # None
      BY <2>3, LeasedInHands DEF CloseHandle, DropHandle
    <3>2. Leases[c] = item[c] /\ Leases' = [Leases EXCEPT ![c] = None]
      BY <1>1, <2>3, <3>1 DEF Leases
    <3> QED
      BY <2>1, <3>1, <3>2 DEF Lease!LeaseNext, Lease!GiveBack
  <2>4. CASE ~LeaveRequest(c) /\ ~((CloseHandle(c) \/ DropHandle(c)) /\ cpc'[c] # "held")
    <3>1. (cpc'[c] = "held" <=> cpc[c] = "held") /\ (cpc[c] = "held" => item'[c] = item[c])
      <4> USE DEF TypeOK, Go, Hand
      <4>1. CASE GetPoolConnection(c) \/ PollIdle(c) \/ PollNothing(c) \/ AddConnectionRequest(c) \/ ValidateItem(c)
        BY <1>0, <4>1 DEF GetPoolConnection, PollIdle, PollNothing, AddConnectionRequest, ValidateItem
      <4>2. CASE UseHandle(c) \/ CloseHandle(c)
        BY <1>0, <2>4, <4>2 DEF UseHandle, CloseHandle
      <4>3. CASE DropHandle(c)
        BY <1>0, <2>4, <4>3 DEF DropHandle
      <4>4. CASE ConnectionClosed(c) \/ ResetConnection(c) \/ PushIdle(c)
        BY <1>0, <4>4 DEF ConnectionClosed, ResetConnection, PushIdle
      <4> QED
        BY <1>3, <2>4, <4>1, <4>2, <4>3, <4>4 DEF ClientStep, RequestStep, ReturnStep
    <3>2. Leases' = Leases
      BY <1>1, <3>1, SameLeases
    <3> QED
      BY <2>1, <3>2 DEF Lease!leaseVars
  <2> QED
    BY <2>2, <2>3, <2>4
<1> QED
  BY <1>2, <1>3

(* Every step of the pool is a step of PoolLease or leaves it alone.           *)
LEMMA LeaseStep == IInv /\ [Next]_vars => [Lease!LeaseNext]_Lease!leaseVars
<1> SUFFICES ASSUME IInv, [Next]_vars PROVE Lease!LeaseNext \/ UNCHANGED Lease!leaseVars
  OBVIOUS
<1>1. ASSUME \E c \in Clients : ClientStep(c) PROVE Lease!LeaseNext \/ UNCHANGED Lease!leaseVars
  BY <1>1, ClientLease
<1>2. CASE ~\E c \in Clients : ClientStep(c)
  <2>1. UNCHANGED <<cpc, item>>
    BY <1>2, Zenon DEF Next, AppenderStep, TakeTask, RunTask, Connect, CheckPoolState, CountConnection, PushNew,
       RemovalStep, ScheduleRemoval, BeginRemoval, ExamineIdle, ReleaseIdle, Close, CloserStep, ClosePending,
       CloseShutdown, CloseIdle, CloseWait, CloseFinal, Tick, Break, vars, clientVars
  <2>2. Leases' = Leases
    BY <2>1, SameLeases
  <2>3. InIdle \subseteq Conns /\ InIdle \subseteq Counted /\ InIdle \cap Lease!Leased = {}
    BY LeasedInHands DEF IInv, TypeOK, InIdle, OneOwner, Counted
  <2>4. CASE AppenderStep
    <3>1. CASE Counted' = Counted
      BY <2>2, <3>1 DEF Lease!leaseVars
    <3>2. CASE Counted' # Counted
      <4>1. /\ aitem \in Conns \ Counted /\ totalConnection < maxPoolSize
            /\ Counted' = Counted \cup {aitem}
        BY <2>4, <3>2, AppenderOwners
      <4>2. Cardinality(Counted) < maxPoolSize
        BY <4>1 DEF IInv, SlotAccounting
      <4>3. PICK k \in Conns : k \notin Counted /\ Counted' = Counted \cup {k}
        BY <4>1
      <4>4. Lease!Open(k)
        BY <2>2, <4>2, <4>3, LeaseCardinality DEF Lease!Open
      <4> QED
        BY <4>4 DEF Lease!LeaseNext
    <3> QED
      BY <3>1, <3>2
  <2>5. CASE RemovalStep
    <3>1. CASE Counted' = Counted
      BY <2>2, <3>1 DEF Lease!leaseVars
    <3>2. CASE Counted' # Counted
      <4>1. PICK k \in InIdle : Counted' = Counted \ {k}
        BY <2>5, <3>2, RemovalOwners
      <4>2. {k} \in SUBSET Conns /\ {k} \cap Lease!Leased = {} /\ {k} \subseteq Counted
        BY <2>3
      <4> QED
        BY <2>2, <4>1, <4>2, RemovalIsRemove
    <3> QED
      BY <3>1, <3>2
  <2>6. CASE Close \/ CloserStep
    <3>1. Counted' = Counted \/ Counted' = Counted \ InIdle
      BY <2>6, CloserOwners
    <3> QED
      BY <2>2, <2>3, <3>1, RemovalIsRemove DEF Lease!leaseVars
  <2>7. CASE Tick \/ (\E k \in Conns : Break(k)) \/ UNCHANGED vars
    <3>1. UNCHANGED <<idleConnections, item, lost, apc, aitem>>
      BY <2>7, Zenon DEF Tick, Break, vars, poolVars, connVars, clientVars, workerVars
    <3>2. Counted' = Counted
      BY <3>1 DEF Counted, InIdle, InHands, Holders
    <3> QED
      BY <2>2, <3>2 DEF Lease!leaseVars
  <2> QED
    BY <1>2, <2>4, <2>5, <2>6, <2>7 DEF Next
<1> QED
  BY <1>1, <1>2

(* A new pool contains the connection that its constructor opened.             *)
LEMMA InitLease == Init => Lease!LeaseInit
<1> SUFFICES ASSUME Init PROVE Lease!LeaseInit
  OBVIOUS
<1>1. PICK k \in Conns : idleConnections = <<k>>
  BY DEF Init
<1>2. Counted = {k}
  <2>1. InIdle = {k} /\ InHands = {}
    BY <1>1 DEF Init, InIdle, InHands, Holders
  <2> QED
    BY <2>1 DEF Init, Counted
<1>3. Leases = [c \in Clients |-> None]
  BY DEF Init, Leases
<1> QED
  BY <1>2, <1>3 DEF Lease!LeaseInit

(* The pool implements the abstract PoolLease: at every step the connections it *)
(* counts and the connections its clients hold change as PoolLease allows, or   *)
(* not at all.                                                                  *)
THEOREM PoolImplementsLease == Spec => ImplementsLease
BY Invariance, InitLease, LeaseStep, PTL DEF Spec, ImplementsLease, Lease!LeaseSpec

-----------------------------------------------------------------------------
(* Requests                                                                     *)

InRequest == {c \in Clients : cpc[c] \in Requesting}

(* close() zeroes pendingRequestNumber after it has closed the pool to requests.*)
PendingInv == (xpc # "none" => poolState = "CLOSING") /\ PendingAccounting

(* The clients inside getPoolConnection are finitely many.                     *)
LEMMA InRequestIsFinite == IsFiniteSet(InRequest) /\ Cardinality(InRequest) \in Nat
<1>1. InRequest \subseteq Clients
  BY DEF InRequest
<1> QED
  BY <1>1, ConnsAssumption, FS_Subset, FS_CardinalityType

(* Only the first and the last step of a request change its number of clients.  *)
LEMMA ClientPending ==
  ASSUME TypeOK, PendingInv, NEW c \in Clients, ClientStep(c)
  PROVE  PendingInv'
<1> USE DEF poolVars, workerVars, clientVars
<1>1. UNCHANGED <<xpc, poolState>>
  BY Zenon DEF ClientStep, RequestStep, ReturnStep, GetPoolConnection, PollIdle, PollNothing,
     AddConnectionRequest, ValidateItem, DiscardItem, LeaveRequest, UseHandle, CloseHandle,
     DropHandle, ConnectionClosed, ResetConnection, PushIdle, UncountItem
<1>2. \A d \in Clients \ {c} : cpc'[d] = cpc[d]
  BY DEF TypeOK, ClientStep, RequestStep, ReturnStep, GetPoolConnection, PollIdle, PollNothing,
     AddConnectionRequest, ValidateItem, DiscardItem, LeaveRequest, UseHandle, CloseHandle,
     DropHandle, ConnectionClosed, ResetConnection, PushIdle, UncountItem, Go
<1>3. PendingAccounting <=> (poolState = "OK" => pendingRequestNumber = Cardinality(InRequest))
  BY DEF PendingAccounting, InRequest
<1>4. PendingAccounting' <=> (poolState' = "OK" => pendingRequestNumber' = Cardinality(InRequest'))
  BY DEF PendingAccounting, InRequest
<1>5. CASE GetPoolConnection(c)
  <2>1. cpc[c] = "out" /\ cpc'[c] = "poll1" /\ pendingRequestNumber' = pendingRequestNumber + 1
    BY <1>5 DEF GetPoolConnection, Go, TypeOK
  <2>2. InRequest' = InRequest \cup {c} /\ c \notin InRequest
    BY <1>2, <2>1 DEF InRequest, Requesting
  <2>3. Cardinality(InRequest') = Cardinality(InRequest) + 1
    BY <2>2, InRequestIsFinite, FS_AddElement
  <2> QED
    BY <1>1, <1>3, <1>4, <2>1, <2>3 DEF PendingInv
<1>6. CASE LeaveRequest(c)
  <2>1. cpc[c] = "leave" /\ cpc'[c] \in {"out", "held"} /\ pendingRequestNumber' = pendingRequestNumber - 1
    BY <1>6 DEF LeaveRequest, Go, TypeOK
  <2>2. InRequest' = InRequest \ {c} /\ c \in InRequest
    BY <1>2, <2>1 DEF InRequest, Requesting
  <2>3. Cardinality(InRequest') = Cardinality(InRequest) - 1
    BY <2>2, InRequestIsFinite, FS_RemoveElement
  <2> QED
    BY <1>1, <1>3, <1>4, <2>1, <2>3 DEF PendingInv
<1>7. CASE ~GetPoolConnection(c) /\ ~LeaveRequest(c)
  <2>1. pendingRequestNumber' = pendingRequestNumber
    BY <1>7, Zenon DEF ClientStep, RequestStep, ReturnStep, PollIdle, PollNothing,
       AddConnectionRequest, ValidateItem, DiscardItem, UseHandle, CloseHandle,
       DropHandle, ConnectionClosed, ResetConnection, PushIdle, UncountItem
  <2>2. cpc'[c] \in Requesting <=> cpc[c] \in Requesting
    <3> USE DEF Requesting, Go, TypeOK
    <3>1. CASE PollIdle(c) \/ PollNothing(c) \/ AddConnectionRequest(c) \/ ValidateItem(c)
      BY <3>1 DEF PollIdle, PollNothing, AddConnectionRequest, ValidateItem
    <3>2. CASE DiscardItem(c)
      BY <3>2 DEF DiscardItem, AfterDiscard
    <3>3. CASE UseHandle(c) \/ CloseHandle(c)
      BY <3>3 DEF UseHandle, CloseHandle
    <3>4. CASE DropHandle(c)
      BY <3>4 DEF DropHandle
    <3>5. CASE ConnectionClosed(c) \/ ResetConnection(c) \/ PushIdle(c) \/ UncountItem(c)
      BY <3>5 DEF ConnectionClosed, ResetConnection, PushIdle, UncountItem
    <3> QED
      BY <1>7, <3>1, <3>2, <3>3, <3>4, <3>5 DEF ClientStep, RequestStep, ReturnStep
  <2>3. InRequest' = InRequest
    BY <1>2, <2>2 DEF InRequest
  <2> QED
    BY <1>1, <1>3, <1>4, <2>1, <2>3 DEF PendingInv
<1> QED
  BY <1>5, <1>6, <1>7

(* No step of another thread disturbs pendingRequestNumber while the pool is   *)
(* open.                                                                       *)
LEMMA PendingStep == TypeOK /\ PendingInv /\ [Next]_vars => PendingInv'
<1> SUFFICES ASSUME TypeOK, PendingInv, [Next]_vars PROVE PendingInv'
  OBVIOUS
<1>1. ASSUME \E c \in Clients : ClientStep(c) PROVE PendingInv'
  BY <1>1, ClientPending
<1>2. CASE Close
  BY <1>2 DEF Close, PendingInv, PendingAccounting
<1>3. CASE CloserStep
  <2>1. xpc # "none" /\ poolState' = poolState
    BY <1>3 DEF CloserStep, ClosePending, CloseShutdown, CloseIdle, CloseWait, CloseFinal, poolVars
  <2> QED
    BY <2>1 DEF PendingInv, PendingAccounting
<1>4. CASE AppenderStep \/ RemovalStep \/ Tick \/ (\E k \in Conns : Break(k)) \/ UNCHANGED vars
  <2>1. UNCHANGED <<xpc, poolState, pendingRequestNumber, cpc>>
    BY <1>4, Zenon DEF AppenderStep, TakeTask, RunTask, Connect, CheckPoolState, CountConnection, PushNew,
       RemovalStep, ScheduleRemoval, BeginRemoval, ExamineIdle, ReleaseIdle, Tick, Break, vars,
       poolVars, clientVars, workerVars
  <2> QED
    BY <2>1 DEF PendingInv, PendingAccounting
<1> QED
  BY <1>1, <1>2, <1>3, <1>4 DEF Next

(* The number that the appender decides by is the number of clients that are    *)
(* asking, until the pool is closed.                                            *)
THEOREM PendingIsExact == Spec => []PendingAccounting
<1>1. Init => PendingInv
  <2>1. ASSUME Init PROVE InRequest = {}
    BY <2>1 DEF Init, InRequest, Requesting
  <2> QED
    BY <2>1, FS_EmptySet DEF Init, PendingInv, PendingAccounting, InRequest
<1>2. IInv /\ PendingInv /\ [Next]_vars => PendingInv'
  BY PendingStep DEF IInv
<1>3. PendingInv => PendingAccounting
  BY DEF PendingInv
<1> QED
  BY <1>1, <1>2, <1>3, Invariance, PTL DEF Spec

-----------------------------------------------------------------------------
(* Refilling                                                                    *)

(* The pool does not make up for a connection that could not be opened, nor for *)
(* one that is given back broken: it stays short until somebody asks again.     *)
Dependable == "connectFails" \notin Faults /\ "heldDies" \notin Faults

Checking == {"check1", "check2"}
Replacing == {c \in Clients : cpc[c] \in {"replace1", "replace2"}}
UnderWay == IF apc \in {"run", "connect", "opened", "count"} THEN 1 ELSE 0

(* What breaks is idle, and old enough to be validated when it is polled: a     *)
(* connection that a client was given, or the appender opened, works.           *)
LinksHold ==
  /\ \A c \in Clients : item[c] # None =>
       \/ link[item[c]] = "up"
       \/ cpc[c] \in Checking /\ age[item[c]] > poolValidMinDelay
  /\ \A k \in InIdle : link[k] = "up" \/ age[k] > poolValidMinDelay
  /\ aitem # None => link[aitem] = "up"
  /\ lost = {}

(* While the pool is open its tasks are run and nothing is taken out of it      *)
(* without a request.                                                           *)
OpenPoolKeeps ==
  poolState = "OK" => ~quit /\ xpc = "none" /\ \A c \in Clients : cpc[c] # "uncount"

RefillInv == LinksHold /\ OpenPoolKeeps /\ RefillOnTheWay

(* Nothing moves, and nobody leaves the validation.                             *)
LEMMA SameLinks ==
  ASSUME LinksHold, UNCHANGED <<idleConnections, item, aitem, lost, link>>,
         \A k \in Conns : age'[k] >= age[k], TypeOK, TypeOK',
         \A c \in Clients : cpc[c] \in Checking => cpc'[c] = cpc[c]
  PROVE  LinksHold'
<1>1. InIdle' = InIdle /\ InIdle \subseteq Conns
  BY DEF InIdle, TypeOK
<1>2. \A k \in Conns : age[k] > poolValidMinDelay => age'[k] > poolValidMinDelay
  BY OptionsAssumption DEF TypeOK
<1>3. \A c \in Clients : item[c] # None => item[c] \in Conns
  BY DEF TypeOK
<1> QED
  BY <1>1, <1>2, <1>3 DEF LinksHold

(* Nothing moves but the connection k, and k is nobody's afterwards.            *)
LEMMA OthersHold ==
  ASSUME IInv, LinksHold, NEW k \in Conns, lost' = lost,
         \A j \in Conns \ {k} : link'[j] = link[j] /\ age'[j] = age[j],
         InIdle' \subseteq InIdle \ {k}, aitem' \in {aitem, None}, aitem' # k,
         \A c \in Clients : \/ item'[c] = None
                            \/ item'[c] = item[c] /\ item[c] # k /\ cpc'[c] = cpc[c]
  PROVE  LinksHold'
<1>1. InIdle \subseteq Conns /\ \A c \in Clients : item[c] \in Conns \cup {None}
  BY DEF IInv, TypeOK, InIdle
<1>2. aitem \in Conns \cup {None}
  BY DEF IInv, TypeOK
<1> QED
  BY <1>1, <1>2 DEF LinksHold

(* A client's steps: it is given, and gives back, connections that work.        *)
LEMMA ClientLinks ==
  ASSUME IInv, LinksHold, TypeOK', NEW c \in Clients, ClientStep(c)
  PROVE  LinksHold'
<1> USE DEF poolVars, connVars, clientVars, workerVars
<1>0. TypeOK /\ ItemPlaces /\ OneOwner
  BY DEF IInv
<1>1. \A d \in Clients \ {c} : cpc'[d] = cpc[d] /\ item'[d] = item[d]
  BY <1>0 DEF TypeOK, ClientStep, RequestStep, ReturnStep, GetPoolConnection, PollIdle, PollNothing,
     AddConnectionRequest, ValidateItem, DiscardItem, LeaveRequest, UseHandle, CloseHandle,
     DropHandle, ConnectionClosed, ResetConnection, PushIdle, UncountItem, Go, Hand
<1>2. \A d \in Clients : item[d] # None => item[d] \in Conns /\ item[d] \in InHands
  BY <1>0 DEF TypeOK, InHands, Holders
<1>3. \A d \in Clients \ {c} : item[c] # None => item[d] # item[c]
  BY <1>0 DEF OneOwner, UniqueItems, Holders
<1>4. item[c] # None => item[c] \notin InIdle /\ item[c] # aitem
  BY <1>0, <1>2 DEF OneOwner
<1>5. UNCHANGED <<apc, aitem>>
  BY Zenon DEF ClientStep, RequestStep, ReturnStep, GetPoolConnection, PollIdle, PollNothing,
     AddConnectionRequest, ValidateItem, DiscardItem, LeaveRequest, UseHandle, CloseHandle,
     DropHandle, ConnectionClosed, ResetConnection, PushIdle, UncountItem
<1>6. CASE GetPoolConnection(c) \/ PollNothing(c) \/ AddConnectionRequest(c) \/ LeaveRequest(c)
           \/ ResetConnection(c)
  <2>1. UNCHANGED <<idleConnections, item, lost, link, age>>
    BY <1>6, Zenon DEF GetPoolConnection, PollNothing, AddConnectionRequest, LeaveRequest, ResetConnection
  <2>2. cpc[c] \notin Checking
    BY <1>6 DEF GetPoolConnection, PollNothing, AddConnectionRequest, LeaveRequest, ResetConnection, Checking
  <2>3. \A k \in Conns : age'[k] >= age[k]
    BY <1>0, <2>1 DEF TypeOK
  <2> QED
    BY <1>0, <1>1, <1>5, <2>1, <2>2, <2>3, SameLinks
<1>7. CASE UseHandle(c) \/ CloseHandle(c) \/ DropHandle(c) \/ ConnectionClosed(c)
  <2>1. cpc[c] \in {"held", "returning"} /\ item[c] # None
    BY <1>0, <1>7 DEF UseHandle, CloseHandle, DropHandle, ConnectionClosed, ItemPlaces, WithItem
  <2>2. link[item[c]] = "up" /\ item[c] \notin InIdle
    BY <1>4, <2>1 DEF LinksHold, Checking
  <2>3. UNCHANGED <<idleConnections, item, lost, link, age>>
    BY <1>7, <2>2 DEF UseHandle, CloseHandle, DropHandle, ConnectionClosed
  <2>4. \A k \in Conns : age'[k] >= age[k]
    BY <1>0, <2>3 DEF TypeOK
  <2>5. cpc[c] \notin Checking
    BY <2>1 DEF Checking
  <2> QED
    BY <1>0, <1>1, <1>5, <2>3, <2>4, <2>5, SameLinks
<1>8. CASE ValidateItem(c)
  <2>1. item[c] # None /\ UNCHANGED <<idleConnections, item, lost, link>>
    BY <1>0, <1>8 DEF ValidateItem, ItemPlaces, WithItem
  <2>2. \A k \in Conns : k # item[c] => age'[k] = age[k]
    BY <1>0, <1>8 DEF ValidateItem, TypeOK
  <2>3. link[item[c]] = "up"
    BY <1>8, <2>1 DEF ValidateItem, LinksHold
  <2>4. InIdle' = InIdle /\ InIdle \subseteq Conns
    BY <1>0, <2>1 DEF InIdle, TypeOK
  <2>5. \A d \in Clients : item'[d] # None =>
          link'[item'[d]] = "up" \/ (cpc'[d] \in Checking /\ age'[item'[d]] > poolValidMinDelay)
    BY <1>1, <1>2, <1>3, <2>1, <2>2, <2>3 DEF LinksHold
  <2>6. \A k \in InIdle' : link'[k] = "up" \/ age'[k] > poolValidMinDelay
    BY <1>4, <2>1, <2>2, <2>4 DEF LinksHold
  <2> QED
    BY <1>5, <2>1, <2>5, <2>6 DEF LinksHold
<1>9. CASE DiscardItem(c) \/ UncountItem(c)
  <2>1. item[c] # None /\ Hand(c, None) /\ Disconnect({item[c]}) /\ UNCHANGED <<idleConnections, lost>>
    BY <1>0, <1>9 DEF DiscardItem, UncountItem, ItemPlaces, WithItem
  <2>2. item[c] \in Conns /\ item'[c] = None
    BY <1>0, <2>1 DEF TypeOK, Hand
  <2>3. \A j \in Conns \ {item[c]} : link'[j] = link[j] /\ age'[j] = age[j]
    BY <1>0, <2>1 DEF Disconnect
  <2>4. InIdle' = InIdle
    BY <2>1 DEF InIdle
  <2> QED
    BY <1>1, <1>3, <1>4, <1>5, <2>1, <2>2, <2>3, <2>4, OthersHold
<1>10. CASE PollIdle(c)
  <2> DEFINE k == Head(idleConnections)
  <2>1. /\ item'[c] = k /\ cpc'[c] \in Checking /\ UNCHANGED <<lost, link, age>>
        /\ idleConnections # << >> /\ idleConnections' = Tail(idleConnections)
    BY <1>0, <1>10 DEF PollIdle, TypeOK, Hand, Go, Checking
  <2>2. InIdle = Elements(idleConnections) /\ InIdle' = Elements(idleConnections')
    BY DEF InIdle, Elements
  <2>3. k \in InIdle /\ InIdle' \subseteq InIdle
    BY <1>0, <2>1, <2>2, TailElements DEF TypeOK, OneOwner
  <2> HIDE DEF k
  <2> QED
    BY <1>1, <1>5, <2>1, <2>3 DEF LinksHold
<1>11. CASE PushIdle(c)
  <2>1. /\ item[c] # None /\ cpc[c] = "pushing" /\ item'[c] = None /\ UNCHANGED <<lost, link, age>>
        /\ idleConnections' = Append(idleConnections, item[c])
    BY <1>0, <1>11 DEF PushIdle, TypeOK, Hand, ItemPlaces, WithItem
  <2>2. InIdle = Elements(idleConnections) /\ InIdle' = Elements(idleConnections')
    BY DEF InIdle, Elements
  <2>3. InIdle' = InIdle \cup {item[c]}
    BY <1>0, <1>2, <1>4, <2>1, <2>2, AppendElements DEF TypeOK, OneOwner
  <2>4. link[item[c]] = "up"
    BY <2>1 DEF LinksHold, Checking
  <2> QED
    BY <1>1, <1>5, <2>1, <2>3, <2>4 DEF LinksHold
<1> QED
  BY <1>6, <1>7, <1>8, <1>9, <1>10, <1>11 DEF ClientStep, RequestStep, ReturnStep

(* The appender's connection is new and works; what it closes was nobody's.     *)
LEMMA AppenderLinks ==
  ASSUME IInv, LinksHold, TypeOK', AppenderStep
  PROVE  LinksHold'
<1> USE DEF poolVars, connVars, clientVars, workerVars
<1>0. TypeOK /\ AppenderPlaces /\ OneOwner
  BY DEF IInv
<1>1. UNCHANGED <<cpc, item, lost>>
  BY Zenon DEF AppenderStep, TakeTask, RunTask, Connect, CheckPoolState, CountConnection, PushNew
<1>2. \A d \in Clients : item[d] # None => item[d] \in Conns /\ item[d] \in InHands
  BY <1>0 DEF TypeOK, InHands, Holders
<1>3. InIdle \subseteq Conns
  BY <1>0 DEF InIdle, TypeOK
<1>4. ASSUME UNCHANGED <<idleConnections, link, age, aitem>> PROVE LinksHold'
  <2>1. \A k \in Conns : age'[k] >= age[k]
    BY <1>0, <1>4 DEF TypeOK
  <2> QED
    BY <1>0, <1>1, <1>4, <2>1, SameLinks
<1>5. ASSUME UNCHANGED idleConnections, aitem \in Conns, aitem' = None, Disconnect({aitem}) PROVE LinksHold'
  <2>1. \A j \in Conns \ {aitem} : link'[j] = link[j] /\ age'[j] = age[j]
    BY <1>5 DEF Disconnect
  <2>2. InIdle' \subseteq InIdle \ {aitem}
    BY <1>0, <1>5 DEF InIdle, OneOwner
  <2>3. \A d \in Clients : item'[d] = None \/ (item'[d] = item[d] /\ item[d] # aitem /\ cpc'[d] = cpc[d])
    BY <1>0, <1>1, <1>2 DEF OneOwner
  <2>4. aitem' # aitem
    BY <1>5, ConnsAssumption
  <2> QED
    BY <1>1, <1>5, <2>1, <2>2, <2>3, <2>4, OthersHold
<1>6. CASE TakeTask \/ RunTask
  BY <1>4, <1>6, Zenon DEF TakeTask, RunTask
<1>7. CASE Connect
  <2>1. UNCHANGED idleConnections
    BY <1>7 DEF Connect
  <2>2. ASSUME NEW k \in Conns, link[k] = "none", link' = [link EXCEPT ![k] = "up"],
               age' = [age EXCEPT ![k] = 0], aitem' = k
        PROVE  LinksHold'
    <3>1. k \notin InIdle /\ k \notin InHands
      BY <2>2 DEF IInv, KnownAreOpen, Known
    <3>2. link'[k] = "up" /\ \A j \in Conns \ {k} : link'[j] = link[j] /\ age'[j] = age[j]
      BY <1>0, <2>2 DEF TypeOK
    <3>3. InIdle' = InIdle
      BY <2>1 DEF InIdle
    <3>4. \A d \in Clients : item[d] # None => item[d] \in Conns \ {k}
      BY <1>2, <3>1
    <3> QED
      BY <1>1, <1>3, <2>2, <3>1, <3>2, <3>3, <3>4 DEF LinksHold
  <2> QED
    BY <1>4, <1>7, <2>1, <2>2 DEF Connect
<1>8. CASE CheckPoolState
  <2>1. UNCHANGED idleConnections /\ aitem \in Conns
    BY <1>0, <1>8 DEF CheckPoolState, AppenderPlaces, TypeOK
  <2> QED
    BY <1>4, <1>5, <1>8, <2>1 DEF CheckPoolState
<1>9. CASE CountConnection
  <2>1. UNCHANGED idleConnections /\ aitem \in Conns
    BY <1>0, <1>9 DEF CountConnection, AppenderPlaces, TypeOK
  <2>2. UNCHANGED <<link, age, aitem>> \/ (aitem' = None /\ Disconnect({aitem}))
    BY <1>9, Zenon DEF CountConnection
  <2> QED
    BY <1>4, <1>5, <2>1, <2>2
<1>10. CASE PushNew
  <2>1. /\ UNCHANGED <<link, age>> /\ aitem' = None /\ aitem # None
        /\ aitem \in Conns /\ idleConnections' = <<aitem>> \o idleConnections
    BY <1>0, <1>10, ConnsAssumption DEF PushNew, AppenderPlaces, TypeOK
  <2>2. InIdle = Elements(idleConnections) /\ InIdle' = Elements(idleConnections')
    BY DEF InIdle, Elements
  <2>3. aitem \notin InIdle
    BY <1>0 DEF OneOwner
  <2>4. InIdle' = InIdle \cup {aitem}
    BY <1>0, <2>1, <2>2, <2>3, ConsElements DEF TypeOK, OneOwner
  <2> QED
    BY <1>1, <2>1, <2>4 DEF LinksHold
<1> QED
  BY <1>6, <1>7, <1>8, <1>9, <1>10 DEF AppenderStep

(* The removal and close() take connections out; time passes; idle ones break.  *)
LEMMA LinksStep ==
  ASSUME Dependable, IInv, IInv', LinksHold, [Next]_vars
  PROVE  LinksHold'
<1> USE DEF poolVars, connVars, clientVars, workerVars
<1>0. TypeOK /\ TypeOK' /\ OneOwner /\ RemovalPlaces
  BY DEF IInv
<1>1. \A d \in Clients : item[d] # None => item[d] \in Conns /\ item[d] \in InHands
  BY <1>0 DEF TypeOK, InHands, Holders
<1>2. InIdle \subseteq Conns /\ aitem \in Conns \cup {None}
  BY <1>0 DEF InIdle, TypeOK
<1>3. CASE \E c \in Clients : ClientStep(c)
  BY <1>0, <1>3, ClientLinks
<1>4. CASE AppenderStep
  BY <1>0, <1>4, AppenderLinks
<1>5. ASSUME UNCHANGED <<idleConnections, item, aitem, lost, link, age, cpc>> PROVE LinksHold'
  <2>1. \A k \in Conns : age'[k] >= age[k]
    BY <1>0, <1>5 DEF TypeOK
  <2> QED
    BY <1>0, <1>5, <2>1, SameLinks
<1>6. CASE ScheduleRemoval \/ BeginRemoval \/ ExamineIdle
  BY <1>5, <1>6, Zenon DEF ScheduleRemoval, BeginRemoval, ExamineIdle
<1>7. CASE ReleaseIdle
  <2> DEFINE k == idleConnections[kpos]
  <2>1. /\ UNCHANGED <<cpc, item, aitem, lost>>
        /\ Disconnect({k}) /\ idleConnections' = Without(idleConnections, kpos)
    BY <1>7 DEF ReleaseIdle, WithoutAt, Without
  <2>2. kpos \in 1..Len(idleConnections)
    BY <1>0, <1>7 DEF RemovalPlaces, ReleaseIdle, TypeOK
  <2>3. k \in InIdle /\ k \in Conns
    BY <1>0, <2>2, SMTT(30) DEF InIdle, TypeOK
  <2>4. InIdle' = InIdle \ {k}
    <3>1. InIdle = Elements(idleConnections) /\ InIdle' = Elements(idleConnections')
      BY DEF InIdle, Elements
    <3> QED
      BY <1>0, <2>1, <2>2, <3>1, WithoutElements DEF TypeOK, OneOwner
  <2> HIDE DEF k
  <2>5. \A j \in Conns \ {k} : link'[j] = link[j] /\ age'[j] = age[j]
    BY <2>1 DEF Disconnect
  <2>6. \A d \in Clients : item'[d] = None \/ (item'[d] = item[d] /\ item[d] # k /\ cpc'[d] = cpc[d])
    BY <1>0, <1>1, <2>1, <2>3 DEF OneOwner
  <2>7. aitem' # k
    BY <1>0, <2>1, <2>3 DEF OneOwner
  <2> QED
    BY <2>1, <2>3, <2>4, <2>5, <2>6, <2>7, OthersHold
<1>8. CASE Close \/ CloserStep
  <2>1. UNCHANGED <<cpc, item, aitem, lost>>
    BY <1>8, Zenon DEF Close, CloserStep, ClosePending, CloseShutdown, CloseIdle, CloseWait, CloseFinal
  <2>2. CloseAll \/ UNCHANGED <<idleConnections, link, age>>
    BY <1>8, Zenon DEF Close, CloserStep, ClosePending, CloseShutdown, CloseIdle, CloseWait, CloseFinal
  <2>3. CASE CloseAll
    <3>1. InIdle' = {}
      BY <2>3 DEF CloseAll, InIdle
    <3>2. \A j \in Conns \ InIdle : link'[j] = link[j] /\ age'[j] = age[j]
      BY <2>3 DEF CloseAll, Disconnect
    <3>3. \A d \in Clients : item[d] # None => item[d] \in Conns \ InIdle
      BY <1>0, <1>1 DEF OneOwner
    <3>4. aitem # None => aitem \in Conns \ InIdle
      BY <1>0, <1>2 DEF OneOwner
    <3> QED
      BY <2>1, <3>1, <3>2, <3>3, <3>4 DEF LinksHold
  <2> QED
    BY <1>5, <2>1, <2>2, <2>3
<1>9. CASE Tick
  <2>1. UNCHANGED <<idleConnections, item, aitem, lost, link, cpc>>
    BY <1>9 DEF Tick
  <2>2. \A k \in Conns : age'[k] >= age[k]
    BY <1>0, <1>9 DEF Tick, TypeOK
  <2> QED
    BY <1>0, <2>1, <2>2, SameLinks
<1>10. ASSUME NEW k \in Conns, Break(k) PROVE LinksHold'
  <2>1. UNCHANGED <<idleConnections, item, aitem, lost, age, cpc>> /\ link' = [link EXCEPT ![k] = "down"]
    BY <1>10 DEF Break
  <2>2. k \in InIdle /\ age[k] > poolValidMinDelay
    BY <1>10 DEF Break, Dependable
  <2>3. k \notin InHands /\ k # aitem
    BY <1>0, <2>2 DEF OneOwner
  <2>4. \A j \in Conns \ {k} : link'[j] = link[j]
    BY <1>0, <2>1 DEF TypeOK
  <2>5. InIdle' = InIdle
    BY <2>1 DEF InIdle
  <2>6. \A d \in Clients : item[d] # None => item[d] \in Conns \ {k}
    BY <1>1, <2>3
  <2>7. aitem # None => aitem \in Conns \ {k}
    BY <1>2, <2>3
  <2> QED
    BY <1>2, <2>1, <2>2, <2>4, <2>5, <2>6, <2>7 DEF LinksHold
<1>11. CASE UNCHANGED vars
  BY <1>5, <1>11, Zenon DEF vars
<1> QED
  BY <1>3, <1>4, <1>6, <1>7, <1>8, <1>9, <1>10, <1>11 DEF Next, RemovalStep

(* Only close() shuts the appender down, and only a broken connection would be  *)
(* taken out of an open pool without a request.                                 *)
LEMMA OpenPoolStep ==
  ASSUME IInv, LinksHold, OpenPoolKeeps, [Next]_vars
  PROVE  OpenPoolKeeps'
<1> USE DEF poolVars, connVars, clientVars, workerVars
<1>0. TypeOK /\ ItemPlaces
  BY DEF IInv
<1>1. ASSUME NEW c \in Clients, ClientStep(c) PROVE OpenPoolKeeps'
  <2>1. UNCHANGED <<poolState, quit, xpc>>
    BY <1>1, Zenon DEF ClientStep, RequestStep, ReturnStep, GetPoolConnection, PollIdle, PollNothing,
       AddConnectionRequest, ValidateItem, DiscardItem, LeaveRequest, UseHandle, CloseHandle,
       DropHandle, ConnectionClosed, ResetConnection, PushIdle, UncountItem
  <2>2. \A d \in Clients \ {c} : cpc'[d] = cpc[d]
    BY <1>0, <1>1 DEF TypeOK, ClientStep, RequestStep, ReturnStep, GetPoolConnection, PollIdle, PollNothing,
       AddConnectionRequest, ValidateItem, DiscardItem, LeaveRequest, UseHandle, CloseHandle,
       DropHandle, ConnectionClosed, ResetConnection, PushIdle, UncountItem, Go
  <2>3. poolState = "OK" => cpc'[c] # "uncount"
    <3> USE DEF Go, TypeOK, OpenPoolKeeps
    <3>1. CASE GetPoolConnection(c) \/ PollIdle(c) \/ PollNothing(c) \/ AddConnectionRequest(c) \/ ValidateItem(c)
      BY <1>0, <3>1 DEF GetPoolConnection, PollIdle, PollNothing, AddConnectionRequest, ValidateItem
    <3>2. CASE DiscardItem(c) \/ LeaveRequest(c)
      BY <1>0, <3>2 DEF DiscardItem, AfterDiscard, LeaveRequest
    <3>3. CASE UseHandle(c) \/ CloseHandle(c) \/ DropHandle(c)
      BY <1>0, <3>3 DEF UseHandle, CloseHandle, DropHandle
    <3>4. CASE ConnectionClosed(c)
      BY <1>0, <3>4 DEF ConnectionClosed
    <3>5. CASE ResetConnection(c)
      <4>1. link[item[c]] = "up"
        BY <1>0, <3>5 DEF ResetConnection, ItemPlaces, WithItem, LinksHold, Checking
      <4> QED
        BY <1>0, <3>5, <4>1 DEF ResetConnection
    <3>6. CASE PushIdle(c) \/ UncountItem(c)
      BY <1>0, <3>6 DEF PushIdle, UncountItem
    <3> QED
      BY <1>1, <3>1, <3>2, <3>3, <3>4, <3>5, <3>6 DEF ClientStep, RequestStep, ReturnStep
  <2> QED
    BY <2>1, <2>2, <2>3 DEF OpenPoolKeeps
<1>2. CASE Close
  BY <1>2 DEF Close, OpenPoolKeeps
<1>3. CASE CloserStep
  <2>1. xpc # "none" /\ poolState' = poolState
    BY <1>3 DEF CloserStep, ClosePending, CloseShutdown, CloseIdle, CloseWait, CloseFinal
  <2> QED
    BY <2>1 DEF OpenPoolKeeps
<1>4. CASE AppenderStep \/ RemovalStep \/ Tick \/ (\E k \in Conns : Break(k)) \/ UNCHANGED vars
  <2>1. UNCHANGED <<xpc, poolState, quit, cpc>>
    BY <1>4, Zenon DEF AppenderStep, TakeTask, RunTask, Connect, CheckPoolState, CountConnection, PushNew,
       RemovalStep, ScheduleRemoval, BeginRemoval, ExamineIdle, ReleaseIdle, Tick, Break, vars
  <2> QED
    BY <2>1 DEF OpenPoolKeeps
<1> QED
  BY <1>1, <1>2, <1>3, <1>4 DEF Next

-----------------------------------------------------------------------------
(* The sum that must not fall below the minimum                                 *)

(* The clients about to replace a connection are finitely many.                 *)
LEMMA ReplacingIsFinite == IsFiniteSet(Replacing) /\ Cardinality(Replacing) \in Nat
<1>1. Replacing \subseteq Clients
  BY DEF Replacing
<1> QED
  BY <1>1, ConnsAssumption, FS_Subset, FS_CardinalityType

(* What is on its way, by who brings it.                                        *)
LEMMA RefillParts ==
  /\ Refilling = tasks + UnderWay + Cardinality(Replacing)
  /\ Refilling' = tasks' + UnderWay' + Cardinality(Replacing')
BY DEF Refilling, UnderWay, Replacing

(* Nothing is lost as long as the sum of its parts does not shrink.             *)
LEMMA RefillKept ==
  ASSUME TypeOK, TypeOK', RefillOnTheWay, poolState' = "OK" => poolState = "OK",
         NEW r \in Nat, NEW s \in Nat, r = Cardinality(Replacing), s = Cardinality(Replacing'),
         poolState = "OK" => \/ totalConnection' + tasks' + UnderWay' + s
                                  >= totalConnection + tasks + UnderWay + r
                             \/ totalConnection' >= minPoolSize
  PROVE  RefillOnTheWay'
<1>1. UnderWay \in Nat /\ UnderWay' \in Nat
  BY DEF UnderWay
<1> DEFINE u == UnderWay
           v == UnderWay'
<1>2. totalConnection \in Int /\ totalConnection' \in Int /\ tasks \in Nat /\ tasks' \in Nat /\ minPoolSize \in Nat
  BY SizesAssumption DEF TypeOK
<1>3. Refilling = tasks + u + r /\ Refilling' = tasks' + v + s
  BY RefillParts
<1> HIDE DEF u, v
<1>4. u \in Nat /\ v \in Nat
  BY <1>1 DEF u, v
<1>5. RefillOnTheWay' <=> (poolState' = "OK" => totalConnection' + Refilling' >= minPoolSize)
  BY DEF RefillOnTheWay
<1>6. poolState = "OK" => totalConnection + (tasks + u + r) >= minPoolSize
  BY <1>3 DEF RefillOnTheWay
<1>7. poolState = "OK" => \/ totalConnection' + tasks' + v + s >= totalConnection + tasks + u + r
                          \/ totalConnection' >= minPoolSize
  BY DEF u, v
<1>8. poolState = "OK" => totalConnection' + (tasks' + v + s) >= minPoolSize
  BY <1>2, <1>4, <1>6, <1>7
<1> QED
  BY <1>3, <1>5, <1>8

(* Sums, for steps that change one part only.                                   *)
LEMMA SumKept ==
  ASSUME NEW a \in Int, NEW b \in Int, NEW t \in Nat, NEW w \in Nat, NEW u \in Nat, NEW v \in Nat,
         NEW r \in Nat, b + w + v >= a + t + u
  PROVE  b + w + v + r >= a + t + u + r
OBVIOUS

(* The count and what is under way stay, a task may be added.                    *)
LEMMA SumGrows ==
  ASSUME NEW a \in Int, NEW t \in Nat, NEW w \in Nat, NEW u \in Nat, w = t \/ w = t + 1
  PROVE  a + w + u >= a + t + u
OBVIOUS

(* A client that discards a connection asks for another one in its next step.   *)
LEMMA ClientRefill ==
  ASSUME IInv, TypeOK', OpenPoolKeeps, RefillOnTheWay, NEW c \in Clients, ClientStep(c)
  PROVE  RefillOnTheWay'
<1> USE DEF poolVars, connVars, clientVars, workerVars
<1>0. TypeOK
  BY DEF IInv
<1>1. UNCHANGED <<poolState, apc>>
  BY Zenon DEF ClientStep, RequestStep, ReturnStep, GetPoolConnection, PollIdle, PollNothing,
     AddConnectionRequest, ValidateItem, DiscardItem, LeaveRequest, UseHandle, CloseHandle,
     DropHandle, ConnectionClosed, ResetConnection, PushIdle, UncountItem
<1>2. \A d \in Clients \ {c} : cpc'[d] = cpc[d]
  BY <1>0 DEF TypeOK, ClientStep, RequestStep, ReturnStep, GetPoolConnection, PollIdle, PollNothing,
     AddConnectionRequest, ValidateItem, DiscardItem, LeaveRequest, UseHandle, CloseHandle,
     DropHandle, ConnectionClosed, ResetConnection, PushIdle, UncountItem, Go
<1>3. UnderWay' = UnderWay /\ UnderWay \in Nat
  BY <1>1 DEF UnderWay
<1> DEFINE r == Cardinality(Replacing)
           s == Cardinality(Replacing')
<1>4. r \in Nat /\ s \in Nat
  <2>1. Replacing' \subseteq Clients
    BY DEF Replacing
  <2> QED
    BY <2>1, ReplacingIsFinite, ConnsAssumption, FS_Subset, FS_CardinalityType
<1>5. /\ totalConnection \in Int /\ totalConnection' \in Int /\ tasks \in Nat /\ tasks' \in Nat
      /\ minPoolSize \in Nat /\ maxPoolSize \in Nat /\ minPoolSize <= maxPoolSize
  BY <1>0, SizesAssumption DEF TypeOK
<1>6. CASE DiscardItem(c)
  <2>1. /\ cpc[c] \in Checking /\ cpc'[c] \in {"replace1", "replace2"}
        /\ totalConnection' = totalConnection - 1 /\ tasks' = tasks
    BY <1>0, <1>6 DEF DiscardItem, AfterDiscard, Go, TypeOK, Checking
  <2>2. Replacing' = Replacing \cup {c} /\ c \notin Replacing
    BY <1>2, <2>1 DEF Replacing, Checking
  <2>3. s = r + 1
    BY <2>2, ReplacingIsFinite, FS_AddElement
  <2> HIDE DEF r, s
  <2>4. totalConnection' + tasks' + UnderWay' + s >= totalConnection + tasks + UnderWay + r
    BY ONLY <1>3, <1>4, <1>5, <2>1, <2>3
  <2> QED
    BY <1>0, <1>1, <1>4, <2>4, RefillKept DEF r, s
<1>7. CASE AddConnectionRequest(c) /\ cpc[c] \in {"replace1", "replace2"}
  <2>1. /\ cpc'[c] \in {"poll1", "poll2"} /\ totalConnection' = totalConnection
        /\ tasks' = TasksAfterRequest(totalConnection)
    BY <1>0, <1>7 DEF AddConnectionRequest, Go, TypeOK
  <2>2. Replacing' = Replacing \ {c} /\ c \in Replacing
    BY <1>2, <1>7, <2>1 DEF Replacing
  <2>3. s = r - 1
    BY <2>2, ReplacingIsFinite, FS_RemoveElement
  <2>4. poolState = "OK" => tasks' = tasks + 1 \/ (tasks' = tasks /\ totalConnection >= maxPoolSize)
    BY <1>5, <2>1 DEF TasksAfterRequest, OpenPoolKeeps
  <2> HIDE DEF r, s
  <2>5. poolState = "OK" => \/ totalConnection' + tasks' + UnderWay' + s >= totalConnection + tasks + UnderWay + r
                            \/ totalConnection' >= minPoolSize
    BY ONLY <1>3, <1>4, <1>5, <2>1, <2>3, <2>4
  <2> QED
    BY <1>0, <1>1, <1>4, <2>5, RefillKept DEF r, s
<1>8. CASE UncountItem(c)
  <2>1. poolState # "OK"
    BY <1>8 DEF UncountItem, OpenPoolKeeps
  <2> QED
    BY <1>1, <2>1 DEF RefillOnTheWay
<1>9. CASE ~DiscardItem(c) /\ ~UncountItem(c) /\ ~(AddConnectionRequest(c) /\ cpc[c] \in {"replace1", "replace2"})
  <2>1. totalConnection' = totalConnection
    BY <1>9, Zenon DEF ClientStep, RequestStep, ReturnStep, GetPoolConnection, PollIdle, PollNothing,
       AddConnectionRequest, ValidateItem, LeaveRequest, UseHandle, CloseHandle,
       DropHandle, ConnectionClosed, ResetConnection, PushIdle
  <2>2. tasks' = tasks \/ tasks' = tasks + 1
    BY <1>9, Zenon DEF ClientStep, RequestStep, ReturnStep, GetPoolConnection, PollIdle, PollNothing,
       AddConnectionRequest, TasksAfterRequest, ValidateItem, LeaveRequest, UseHandle, CloseHandle,
       DropHandle, ConnectionClosed, ResetConnection, PushIdle
  <2>3. cpc[c] \notin {"replace1", "replace2"} /\ cpc'[c] \notin {"replace1", "replace2"}
    <3> USE DEF Go, TypeOK
    <3>1. CASE GetPoolConnection(c) \/ PollIdle(c) \/ PollNothing(c) \/ AddConnectionRequest(c) \/ ValidateItem(c)
      BY <1>0, <1>9, <3>1 DEF GetPoolConnection, PollIdle, PollNothing, AddConnectionRequest, ValidateItem
    <3>2. CASE LeaveRequest(c) \/ UseHandle(c) \/ CloseHandle(c) \/ DropHandle(c)
      BY <1>0, <3>2 DEF LeaveRequest, UseHandle, CloseHandle, DropHandle
    <3>3. CASE ConnectionClosed(c) \/ ResetConnection(c) \/ PushIdle(c)
      BY <1>0, <3>3 DEF ConnectionClosed, ResetConnection, PushIdle
    <3> QED
      BY <1>9, <3>1, <3>2, <3>3 DEF ClientStep, RequestStep, ReturnStep
  <2>4. Replacing' = Replacing
    BY <1>2, <2>3 DEF Replacing
  <2>5. s = r
    BY <2>4
  <2> HIDE DEF r, s
  <2>6. totalConnection' + tasks' + UnderWay' >= totalConnection + tasks + UnderWay
    BY <1>3, <1>5, <2>1, <2>2, SumGrows
  <2>7. totalConnection' + tasks' + UnderWay' + s >= totalConnection + tasks + UnderWay + r
    BY <1>3, <1>4, <1>5, <2>5, <2>6, SumKept
  <2> QED
    BY <1>0, <1>1, <1>4, <2>7, RefillKept DEF r, s
<1> QED
  BY <1>6, <1>7, <1>8, <1>9

(* A task that finds the minimum reached is given up; every other one ends in a *)
(* connection that is counted, for there is room for it.                        *)
LEMMA AppenderRefill ==
  ASSUME Dependable, IInv, TypeOK', OpenPoolKeeps, RefillOnTheWay, AppenderStep
  PROVE  RefillOnTheWay'
<1> USE DEF poolVars, connVars, clientVars, workerVars
<1>0. TypeOK
  BY DEF IInv
<1>1. UNCHANGED <<poolState, cpc>>
  BY Zenon DEF AppenderStep, TakeTask, RunTask, Connect, CheckPoolState, CountConnection, PushNew
<1>2. Replacing' = Replacing /\ Cardinality(Replacing) \in Nat
  BY <1>1, ReplacingIsFinite DEF Replacing
<1>3. /\ totalConnection \in Int /\ totalConnection' \in Int /\ tasks \in Nat /\ tasks' \in Nat
      /\ minPoolSize \in Nat /\ maxPoolSize \in Nat /\ minPoolSize <= maxPoolSize
  BY <1>0, SizesAssumption DEF TypeOK
<1>4. poolState = "OK" => \/ totalConnection' + tasks' + UnderWay' >= totalConnection + tasks + UnderWay
                          \/ totalConnection' >= minPoolSize
  <2> SUFFICES ASSUME poolState = "OK"
               PROVE  \/ totalConnection' + tasks' + UnderWay' >= totalConnection + tasks + UnderWay
                      \/ totalConnection' >= minPoolSize
    OBVIOUS
  <2> USE DEF UnderWay
  <2>1. CASE TakeTask
    <3>1. /\ tasks' = tasks - 1 /\ totalConnection' = totalConnection
          /\ apc = "idle" /\ apc' = "run"
      BY <2>1 DEF TakeTask, OpenPoolKeeps
    <3> QED
      BY <1>3, <3>1
  <2>2. CASE RunTask
    BY <1>3, <2>2 DEF RunTask
  <2>3. CASE Connect
    BY <1>3, <2>3 DEF Connect, Dependable
  <2>4. CASE CheckPoolState
    BY <1>3, <2>4 DEF CheckPoolState
  <2>5. CASE CountConnection
    <3>1. apc = "count" /\ totalConnection' = totalConnection + 1 /\ tasks' = tasks
      BY <2>5 DEF CountConnection
    <3>2. totalConnection + 1 <= maxPoolSize
      BY <3>1 DEF IInv, RoomForNext
    <3>3. apc' = "push"
      BY <2>5, <3>2 DEF CountConnection
    <3> QED
      BY <1>3, <3>1, <3>3
  <2>6. CASE PushNew
    BY <1>3, <2>6 DEF PushNew
  <2> QED
    BY <2>1, <2>2, <2>3, <2>4, <2>5, <2>6 DEF AppenderStep
<1>5. UnderWay \in Nat /\ UnderWay' \in Nat
  BY DEF UnderWay
<1> DEFINE r == Cardinality(Replacing)
           s == Cardinality(Replacing')
<1>6. r \in Nat /\ s = r
  BY <1>2
<1> HIDE DEF r, s
<1>7. poolState = "OK" => \/ totalConnection' + tasks' + UnderWay' + s >= totalConnection + tasks + UnderWay + r
                          \/ totalConnection' >= minPoolSize
  BY <1>3, <1>4, <1>5, <1>6, SumKept
<1> QED
  BY <1>0, <1>1, <1>6, <1>7, RefillKept DEF r, s

(* The removal requests a connection for each one it closes, and finds room.    *)
LEMMA RemovalRefill ==
  ASSUME IInv, TypeOK', OpenPoolKeeps, RefillOnTheWay, RemovalStep
  PROVE  RefillOnTheWay'
<1> USE DEF poolVars, connVars, clientVars, workerVars
<1>0. TypeOK
  BY DEF IInv
<1>1. UNCHANGED <<poolState, cpc, apc>>
  BY Zenon DEF RemovalStep, ScheduleRemoval, BeginRemoval, ExamineIdle, ReleaseIdle
<1>2. Replacing' = Replacing /\ UnderWay' = UnderWay
  BY <1>1 DEF Replacing, UnderWay
<1>3. CASE UNCHANGED <<totalConnection, tasks>>
  BY <1>1, <1>2, <1>3, RefillParts DEF RefillOnTheWay
<1>4. CASE ReleaseIdle
  <2>1. totalConnection' = totalConnection - 1 /\ tasks' = TasksAfterRequest(totalConnection - 1)
    BY <1>4 DEF ReleaseIdle
  <2>2. totalConnection - 1 < maxPoolSize
    BY <1>0, SizesAssumption DEF IInv, RoomForNext, TypeOK
  <2>3. poolState = "OK" => tasks' = tasks + 1
    BY <2>1, <2>2 DEF TasksAfterRequest, OpenPoolKeeps
  <2> DEFINE r == Cardinality(Replacing)
             s == Cardinality(Replacing')
  <2>4. r \in Nat /\ s = r /\ UnderWay \in Nat /\ totalConnection \in Int /\ tasks \in Nat
    BY <1>0, <1>2, ReplacingIsFinite DEF UnderWay, TypeOK
  <2> HIDE DEF r, s
  <2>5. poolState = "OK" => totalConnection' + tasks' + UnderWay' + s >= totalConnection + tasks + UnderWay + r
    BY ONLY <1>2, <2>1, <2>3, <2>4
  <2> QED
    BY <1>0, <1>1, <2>4, <2>5, RefillKept DEF r, s
<1>5. ReleaseIdle \/ UNCHANGED <<totalConnection, tasks>>
  BY Zenon DEF RemovalStep, ScheduleRemoval, BeginRemoval, ExamineIdle
<1> QED
  BY <1>3, <1>4, <1>5

(* Every step of every thread leaves an open pool with its minimum on the way.  *)
LEMMA RefillStep == Dependable /\ IInv /\ IInv' /\ RefillInv /\ [Next]_vars => RefillInv'
<1> SUFFICES ASSUME Dependable, IInv, IInv', RefillInv, [Next]_vars PROVE RefillInv'
  OBVIOUS
<1>0. TypeOK' /\ LinksHold /\ OpenPoolKeeps /\ RefillOnTheWay
  BY DEF IInv, RefillInv
<1>1. LinksHold' /\ OpenPoolKeeps'
  BY <1>0, LinksStep, OpenPoolStep
<1>2. RefillOnTheWay'
  <2>1. CASE \E c \in Clients : ClientStep(c)
    BY <1>0, <2>1, ClientRefill
  <2>2. CASE AppenderStep
    BY <1>0, <2>2, AppenderRefill
  <2>3. CASE RemovalStep
    BY <1>0, <2>3, RemovalRefill
  <2>4. CASE Close
    BY <2>4 DEF Close, RefillOnTheWay
  <2>5. CASE CloserStep
    <3>1. xpc # "none" /\ poolState' = poolState
      BY <2>5 DEF CloserStep, ClosePending, CloseShutdown, CloseIdle, CloseWait, CloseFinal, poolVars
    <3> QED
      BY <1>0, <3>1 DEF OpenPoolKeeps, RefillOnTheWay
  <2>6. CASE Tick \/ (\E k \in Conns : Break(k)) \/ UNCHANGED vars
    <3>1. UNCHANGED <<poolState, totalConnection, tasks, cpc, apc>>
      BY <2>6, Zenon DEF Tick, Break, vars, poolVars, clientVars, workerVars
    <3>2. Replacing' = Replacing /\ UnderWay' = UnderWay
      BY <3>1 DEF Replacing, UnderWay
    <3> QED
      BY <1>0, <3>1, <3>2, RefillParts DEF RefillOnTheWay
  <2> QED
    BY <2>1, <2>2, <2>3, <2>4, <2>5, <2>6 DEF Next
<1> QED
  BY <1>1, <1>2 DEF RefillInv

(* A new pool has one connection and a task for each of the others.             *)
LEMMA InitRefill == Init => RefillInv
<1> SUFFICES ASSUME Init PROVE RefillInv
  OBVIOUS
<1>1. PICK k \in Conns : /\ idleConnections = <<k>>
                         /\ link = [j \in Conns |-> IF j = k THEN "up" ELSE "none"]
  BY DEF Init
<1>2. InIdle = {k} /\ link[k] = "up"
  BY <1>1 DEF InIdle
<1>3. LinksHold
  BY <1>2 DEF Init, LinksHold
<1>4. OpenPoolKeeps
  BY DEF Init, OpenPoolKeeps
<1>5. Replacing = {} /\ Cardinality(Replacing) = 0
  <2>1. Replacing = {}
    BY DEF Init, Replacing
  <2> QED
    BY <2>1, FS_EmptySet
<1>6. Refilling = minPoolSize - 1
  BY <1>5, RefillParts, SizesAssumption DEF Init, UnderWay
<1> QED
  BY <1>3, <1>4, <1>6, SizesAssumption DEF Init, RefillInv, RefillOnTheWay

(* A pool that has no connection and no task on its way would be below its      *)
(* minimum, which is at least one.                                              *)
LEMMA SomethingToWaitFor == IInv /\ RefillInv => NobodyWaitsForNothing
<1> SUFFICES ASSUME IInv, RefillInv, poolState = "OK", idleConnections = << >>, InHands = {},
                    ~(Refilling > 0), apc # "push"
             PROVE  FALSE
  BY DEF NobodyWaitsForNothing
<1>1. Counted = {}
  <2>1. InIdle = {} /\ lost = {}
    BY DEF InIdle, RefillInv, LinksHold
  <2> QED
    BY <2>1 DEF Counted
<1>2. totalConnection = 0
  BY <1>1, FS_EmptySet DEF IInv, SlotAccounting
<1>3. Refilling \in Nat
  BY RefillParts, ReplacingIsFinite DEF IInv, TypeOK, UnderWay
<1>4. totalConnection + Refilling >= minPoolSize
  BY DEF RefillInv, RefillOnTheWay
<1> QED
  BY <1>2, <1>3, <1>4, SizesAssumption

(* For every number of clients and connections, every size and every timeout:   *)
(* whatever validation and the removal take out of an open pool is requested    *)
(* again, and nobody waits for nothing, as long as connections can be opened and*)
(* do not break while they are in use.                                          *)
THEOREM PoolRefills == ASSUME Dependable PROVE Spec => []PoolIsRefilled
<1>1. IInv /\ RefillInv => PoolIsRefilled
  BY SomethingToWaitFor DEF PoolIsRefilled, RefillInv
<1>2. IInv /\ IInv' /\ RefillInv /\ [Next]_vars => RefillInv'
  BY RefillStep
<1> QED
  BY <1>1, <1>2, InitRefill, Invariance, PTL DEF Spec
=============================================================================

---------------------------- MODULE ConnectionPool ----------------------------
(* One sql::mariadb::Pool (src/pool/Pool.cpp) and the threads that work on it:  *)
(* clients that borrow and give back connections, the single appender thread    *)
(* that opens them, the scheduled task that removes idle ones, and the thread   *)
(* that closes the pool. The atomics poolState, totalConnection and             *)
(* pendingRequestNumber are read and written one access at a time wherever      *)
(* another thread may come in between; the idle deque is used through the       *)
(* atomic operations that BlockingDeque describes.                              *)
EXTENDS Integers, Sequences, FiniteSets

CONSTANTS
  Clients, Conns,        \* client threads; identities of physical connections
  None,                  \* nullptr
  minPoolSize, maxPoolSize, useResetConnection,            \* options
  poolValidMinDelay, maxIdleTime, waitTimeout,             \* in ticks
  AgeBound,              \* ages are not told apart from here on
  TaskBound,             \* no new request while this many tasks are queued
  FaultBound,            \* how many connections may break
  Faults                 \* which failures the environment produces

FaultKinds == {"connectFails",   \* opening a connection throws
               "idleDies",       \* an idle connection breaks; the next poll will validate it
               "heldDies",       \* one breaks in use, or so recently used that no poll validates it
               "timesOut",       \* connectTimeout passes while nothing is idle
               "closeTimesOut"}  \* close()'s ten seconds pass while connections are out

ASSUME ConnsAssumption == IsFiniteSet(Conns) /\ IsFiniteSet(Clients) /\ None \notin Conns
\* postOptionProcess makes minPoolSize lie between 1 and maxPoolSize
ASSUME SizesAssumption ==
  /\ minPoolSize \in Nat \ {0} /\ maxPoolSize \in Nat /\ minPoolSize <= maxPoolSize
ASSUME OptionsAssumption ==
  /\ useResetConnection \in BOOLEAN
  /\ {poolValidMinDelay, maxIdleTime, waitTimeout, AgeBound, TaskBound, FaultBound} \subseteq Nat
  /\ Faults \subseteq FaultKinds
\* a connection can always be opened while the pool has room for it
ASSUME EnoughConnsAssumption == maxPoolSize <= Cardinality(Conns)

VARIABLES
  poolState,             \* "OK" or "CLOSING"
  totalConnection, pendingRequestNumber,
  idleConnections,       \* the idle deque
  idleLock,              \* its mutex is held by the removal task
  tasks,                 \* number of queued add tasks (they are all alike)
  quit,                  \* the appender was shut down
  link,                  \* per connection: "none", "up", "down", "noticed" (the
                         \*   protocol knows that it is down: connected = false)
  age,                   \* ticks since lastUsed
  lost,                  \* items no thread refers to any more, still counted
  faults,                \* connections broken so far
  cpc, item,             \* per client: location, the pool item in its hands
  apc, aitem,            \* the appender
  kpc, kpos,             \* the removal task
  xpc                    \* the closing thread

poolVars == <<poolState, totalConnection, pendingRequestNumber, idleConnections, idleLock, tasks, quit>>
connVars == <<link, age, lost, faults>>
clientVars == <<cpc, item>>
workerVars == <<apc, aitem, kpc, kpos, xpc>>
vars == <<poolVars, connVars, clientVars, workerVars>>

\* inside getPoolConnection, between ++ and -- of pendingRequestNumber
Requesting == {"poll1", "check1", "replace1", "request", "poll2", "check2", "replace2", "leave"}
ClientLocations == Requesting \cup {"out", "held", "returning", "resetting", "pushing", "uncount"}
AppenderLocations == {"idle", "run", "connect", "opened", "count", "push", "exited"}
CheckerLocations == {"sleep", "due", "scan", "release"}
CloserLocations == {"none", "pending", "shutdown", "closeAll", "wait", "final", "closed"}

TypeOK ==
  /\ poolState \in {"OK", "CLOSING"}
  /\ totalConnection \in Int /\ pendingRequestNumber \in Int
  /\ idleConnections \in Seq(Conns)
  /\ idleLock \in BOOLEAN /\ quit \in BOOLEAN
  /\ tasks \in Nat /\ faults \in Nat
  /\ link \in [Conns -> {"none", "up", "down", "noticed"}]
  /\ age \in [Conns -> Nat]
  /\ lost \subseteq Conns
  /\ cpc \in [Clients -> ClientLocations]
  /\ item \in [Clients -> Conns \cup {None}]
  /\ apc \in AppenderLocations /\ aitem \in Conns \cup {None}
  /\ kpc \in CheckerLocations /\ kpos \in Nat
  /\ xpc \in CloserLocations

(* The pool as its constructor leaves it: one connection opened by the caller,  *)
(* then one request for each of the minPoolSize - 1 others.                     *)
Init ==
  /\ poolState = "OK"
  /\ totalConnection = 1 /\ pendingRequestNumber = 0
  /\ \E k \in Conns :
       /\ idleConnections = <<k>>
       /\ link = [j \in Conns |-> IF j = k THEN "up" ELSE "none"]
  /\ idleLock = FALSE
  /\ tasks = minPoolSize - 1 /\ quit = FALSE
  /\ age = [k \in Conns |-> 0] /\ lost = {} /\ faults = 0
  /\ cpc = [c \in Clients |-> "out"] /\ item = [c \in Clients |-> None]
  /\ apc = "idle" /\ aitem = None
  /\ kpc = "sleep" /\ kpos = 1
  /\ xpc = "none"

-----------------------------------------------------------------------------
InIdle == {idleConnections[i] : i \in DOMAIN idleConnections}
Holders == {c \in Clients : item[c] # None}
InHands == {item[c] : c \in Holders}

(* The connections totalConnection stands for.                                  *)
Counted == InIdle \cup InHands \cup lost \cup (IF apc = "push" THEN {aitem} ELSE {})

Go(c, loc) == cpc' = [cpc EXCEPT ![c] = loc]
Hand(c, k) == item' = [item EXCEPT ![c] = k]

WithoutAt(q, i) == SubSeq(q, 1, i - 1) \o SubSeq(q, i + 1, Len(q))

\* the pool closes physical connections and deletes their items
Disconnect(S) ==
  /\ link' = [k \in Conns |-> IF k \in S THEN "none" ELSE link[k]]
  /\ age' = [k \in Conns |-> IF k \in S THEN 0 ELSE age[k]]

-----------------------------------------------------------------------------
(* Plausible slips in Pool.cpp; the properties below have to notice them.       *)

\* the full pool is recognised one connection too early
TasksAfterRequestOffByOne(total) ==
  IF total < maxPoolSize - 1 /\ poolState = "OK" /\ ~quit THEN tasks + 1 ELSE tasks

\* pollFirst looks at the front and leaves it in the deque
PollIdleFront(c) ==
  /\ cpc[c] \in {"poll1", "poll2"}
  /\ ~idleLock
  /\ idleConnections # << >>
  /\ Hand(c, Head(idleConnections))
  /\ Go(c, IF cpc[c] = "poll1" THEN "check1" ELSE "check2")
  /\ UNCHANGED <<poolVars, connVars, workerVars>>

\* a connection that the removal closes is not replaced
ReleaseIdleNoRequest ==
  /\ kpc = "release"
  /\ totalConnection' = totalConnection - 1
  /\ Disconnect({idleConnections[kpos]})
  /\ idleConnections' = WithoutAt(idleConnections, kpos)
  /\ kpc' = "scan"
  /\ UNCHANGED <<poolState, pendingRequestNumber, idleLock, tasks, quit, lost, faults,
                 clientVars, apc, aitem, kpos, xpc>>

\* a request that times out stays pending
LeaveRequestPending(c) ==
  /\ cpc[c] = "leave"
  /\ pendingRequestNumber' = IF item[c] = None THEN pendingRequestNumber ELSE pendingRequestNumber - 1
  /\ Go(c, IF item[c] = None THEN "out" ELSE "held")
  /\ UNCHANGED <<poolState, totalConnection, idleConnections, idleLock, tasks, quit, connVars, item, workerVars>>

\* the removal returns with the idle mutex locked
EndRemovalLocked == kpc' = "sleep" /\ kpos' = 1 /\ UNCHANGED idleLock

\* closeAll decrements outside of its loop
CloseAllOnce ==
  /\ ~idleLock
  /\ totalConnection' = totalConnection - 1
  /\ Disconnect(InIdle)
  /\ idleConnections' = << >>

-----------------------------------------------------------------------------
(* getPoolConnection                                                            *)

\* the task queue after addConnectionRequest; emplace_back on a closed queue does nothing
TasksAfterRequest(total) ==
  IF total < maxPoolSize /\ poolState = "OK" /\ ~quit THEN tasks + 1 ELSE tasks

GetPoolConnection(c) ==
  /\ cpc[c] = "out"
  /\ tasks < TaskBound
  /\ pendingRequestNumber' = pendingRequestNumber + 1
  /\ Go(c, "poll1")
  /\ UNCHANGED <<poolState, totalConnection, idleConnections, idleLock, tasks, quit, connVars, item, workerVars>>

(* getIdleConnection: pollFirst found an element. The first poll waits at most  *)
(* 50us, the second one up to connectTimeout.                                   *)
PollIdle(c) ==
  /\ cpc[c] \in {"poll1", "poll2"}
  /\ ~idleLock
  /\ idleConnections # << >>
  /\ Hand(c, Head(idleConnections))
  /\ idleConnections' = Tail(idleConnections)
  /\ Go(c, IF cpc[c] = "poll1" THEN "check1" ELSE "check2")
  /\ UNCHANGED <<poolState, totalConnection, pendingRequestNumber, idleLock, tasks, quit, connVars, workerVars>>

(* pollFirst returned null: ask for a connection, or give up after the timeout. *)
PollNothing(c) ==
  /\ ~idleLock
  /\ idleConnections = << >>
  /\ \/ cpc[c] = "poll1" /\ Go(c, "request")
     \/ cpc[c] = "poll2" /\ "timesOut" \in Faults /\ Go(c, "leave")
  /\ UNCHANGED <<poolVars, connVars, item, workerVars>>

(* addConnectionRequest, by a client that found nothing idle, or in place of a  *)
(* connection that failed its validation.                                       *)
AddConnectionRequest(c) ==
  /\ cpc[c] \in {"request", "replace1", "replace2"}
  /\ tasks' = TasksAfterRequest(totalConnection)
  /\ Go(c, IF cpc[c] = "replace1" THEN "poll1" ELSE "poll2")
  /\ UNCHANGED <<poolState, totalConnection, pendingRequestNumber, idleConnections, idleLock, quit, connVars, item, workerVars>>

(* The polled item is good: it was used recently, or isValid(10) says so.       *)
(* lastUsedToNow.                                                               *)
ValidateItem(c) ==
  /\ cpc[c] \in {"check1", "check2"}
  /\ age[item[c]] > poolValidMinDelay => link[item[c]] = "up"
  /\ age' = [age EXCEPT ![item[c]] = 0]
  /\ Go(c, "leave")
  /\ UNCHANGED <<poolVars, link, lost, faults, item, workerVars>>

AfterDiscard(loc) == IF loc = "check1" THEN "replace1" ELSE "replace2"

(* It is not: --totalConnection, silentAbortConnection, delete item.            *)
DiscardItem(c) ==
  /\ cpc[c] \in {"check1", "check2"}
  /\ age[item[c]] > poolValidMinDelay /\ link[item[c]] # "up"
  /\ totalConnection' = totalConnection - 1
  /\ Disconnect({item[c]})
  /\ Hand(c, None)
  /\ Go(c, AfterDiscard(cpc[c]))
  /\ UNCHANGED <<poolState, pendingRequestNumber, idleConnections, idleLock, tasks, quit, lost, faults, workerVars>>

(* --pendingRequestNumber, and return the connection or throw.                  *)
LeaveRequest(c) ==
  /\ cpc[c] = "leave"
  /\ pendingRequestNumber' = pendingRequestNumber - 1
  /\ Go(c, IF item[c] = None THEN "out" ELSE "held")
  /\ UNCHANGED <<poolState, totalConnection, idleConnections, idleLock, tasks, quit, connVars, item, workerVars>>

-----------------------------------------------------------------------------
(* The client's connection object                                               *)

(* A command on a broken connection fails and the protocol notices.             *)
UseHandle(c) ==
  /\ cpc[c] = "held"
  /\ link[item[c]] = "down"
  /\ link' = [link EXCEPT ![item[c]] = "noticed"]
  /\ UNCHANGED <<poolVars, age, lost, faults, clientVars, workerVars>>

(* MariaDbConnection::close: the rollback of an open transaction throws on a    *)
(* broken connection, which then stays with the client; else back to the pool.  *)
CloseHandle(c) ==
  /\ cpc[c] = "held"
  /\ \/ Go(c, "returning") /\ UNCHANGED link
     \/ /\ link[item[c]] # "up"
        /\ link' = [link EXCEPT ![item[c]] = "noticed"]
        /\ UNCHANGED cpc
  /\ UNCHANGED <<poolVars, age, lost, faults, item, workerVars>>

(* ~MariaDbConnection without close: no rollback. A connection known to be      *)
(* broken is NOT given back, nor is it subtracted from totalConnection.         *)
DropHandle(c) ==
  /\ cpc[c] = "held"
  /\ IF link[item[c]] = "noticed"
     THEN /\ lost' = lost \cup {item[c]}
          /\ Hand(c, None)
          /\ Go(c, "out")
     ELSE /\ Go(c, "returning")
          /\ UNCHANGED <<lost, item>>
  /\ UNCHANGED <<poolVars, link, age, faults, workerVars>>

(* connectionClosed: the pool's state is read once, at the start; a pool that   *)
(* is open looks for the item among the idle ones before it resets it.          *)
ConnectionClosed(c) ==
  /\ cpc[c] = "returning"
  /\ \/ poolState = "CLOSING" /\ Go(c, "uncount") /\ UNCHANGED item
     \/ /\ poolState = "OK" /\ ~idleLock
        /\ IF item[c] \in InIdle
           THEN Hand(c, None) /\ Go(c, "out")
           ELSE Go(c, "resetting") /\ UNCHANGED item
  /\ UNCHANGED <<poolVars, connVars, workerVars>>

(* reset() of the fresh object: COM_RESET_CONNECTION if the option asks for it. *)
ResetConnection(c) ==
  /\ cpc[c] = "resetting"
  /\ Go(c, IF useResetConnection /\ link[item[c]] # "up" THEN "uncount" ELSE "pushing")
  /\ UNCHANGED <<poolVars, connVars, item, workerVars>>

PushIdle(c) ==
  /\ cpc[c] = "pushing"
  /\ ~idleLock
  /\ idleConnections' = Append(idleConnections, item[c])
  /\ Hand(c, None)
  /\ Go(c, "out")
  /\ UNCHANGED <<poolState, totalConnection, pendingRequestNumber, idleLock, tasks, quit, connVars, workerVars>>

(* The reset failed or the pool is closing: --totalConnection and close. No new *)
(* connection is requested.                                                     *)
UncountItem(c) ==
  /\ cpc[c] = "uncount"
  /\ totalConnection' = totalConnection - 1
  /\ Disconnect({item[c]})
  /\ Hand(c, None)
  /\ Go(c, "out")
  /\ UNCHANGED <<poolState, pendingRequestNumber, idleConnections, idleLock, tasks, quit, lost, faults, workerVars>>

-----------------------------------------------------------------------------
(* The appender thread: one worker, one task at a time                          *)

TakeTask ==
  /\ apc = "idle"
  /\ \/ ~quit /\ tasks > 0 /\ tasks' = tasks - 1 /\ apc' = "run"
     \/ quit /\ apc' = "exited" /\ UNCHANGED tasks
  /\ UNCHANGED <<poolState, totalConnection, pendingRequestNumber, idleConnections, idleLock, quit,
                 connVars, clientVars, aitem, kpc, kpos, xpc>>

(* The task's condition: somebody waits or the minimum is not reached, and      *)
(* there is room.                                                               *)
RunTask ==
  /\ apc = "run"
  /\ apc' = IF /\ totalConnection < minPoolSize \/ pendingRequestNumber > 0
               /\ totalConnection < maxPoolSize
            THEN "connect" ELSE "idle"
  /\ UNCHANGED <<poolVars, connVars, clientVars, aitem, kpc, kpos, xpc>>

(* addConnection: the connection is opened without any lock. An SQLException    *)
(* is swallowed by the task.                                                    *)
Connect ==
  /\ apc = "connect"
  /\ \/ \E k \in Conns :
          /\ link[k] = "none"
          /\ link' = [link EXCEPT ![k] = "up"]
          /\ age' = [age EXCEPT ![k] = 0]
          /\ aitem' = k /\ apc' = "opened"
     \/ "connectFails" \in Faults /\ apc' = "idle" /\ UNCHANGED <<link, age, aitem>>
  /\ UNCHANGED <<poolVars, lost, faults, clientVars, kpc, kpos, xpc>>

(* poolState is read first, totalConnection is incremented afterwards: a pool   *)
(* that closes in between is not noticed.                                       *)
CheckPoolState ==
  /\ apc = "opened"
  /\ IF poolState = "OK"
     THEN apc' = "count" /\ UNCHANGED <<link, age, aitem>>
     ELSE apc' = "idle" /\ aitem' = None /\ Disconnect({aitem})
  /\ UNCHANGED <<poolVars, lost, faults, clientVars, kpc, kpos, xpc>>

(* A count above the maximum is not taken back.                                 *)
CountConnection ==
  /\ apc = "count"
  /\ totalConnection' = totalConnection + 1
  /\ IF totalConnection + 1 <= maxPoolSize
     THEN apc' = "push" /\ UNCHANGED <<link, age, aitem>>
     ELSE apc' = "idle" /\ aitem' = None /\ Disconnect({aitem})
  /\ UNCHANGED <<poolState, pendingRequestNumber, idleConnections, idleLock, tasks, quit,
                 lost, faults, clientVars, kpc, kpos, xpc>>

PushNew ==
  /\ apc = "push"
  /\ ~idleLock
  /\ idleConnections' = <<aitem>> \o idleConnections
  /\ aitem' = None /\ apc' = "idle"
  /\ UNCHANGED <<poolState, totalConnection, pendingRequestNumber, idleLock, tasks, quit,
                 connVars, clientVars, kpc, kpos, xpc>>

-----------------------------------------------------------------------------
(* removeIdleTimeoutConnection, run by the scheduled executor                   *)

(* The executor found the task neither cancelled nor early.                     *)
ScheduleRemoval ==
  /\ kpc = "sleep" /\ ~quit
  /\ kpc' = "due"
  /\ UNCHANGED <<poolVars, connVars, clientVars, apc, aitem, kpos, xpc>>

BeginRemoval ==
  /\ kpc = "due" /\ ~idleLock
  /\ idleLock' = TRUE /\ kpc' = "scan" /\ kpos' = 1
  /\ UNCHANGED <<poolState, totalConnection, pendingRequestNumber, idleConnections, tasks, quit,
                 connVars, clientVars, apc, aitem, xpc>>

ShouldBeReleased(k) ==
  LET timedOut == age[k] > maxIdleTime
  IN  IF waitTimeout > 0
      THEN age[k] > waitTimeout \/ (timedOut /\ totalConnection > minPoolSize)
      ELSE timedOut

EndRemoval == idleLock' = FALSE /\ kpc' = "sleep" /\ kpos' = 1

(* The decision for the element at kpos, or the end of the pass.                *)
ExamineIdle ==
  /\ kpc = "scan"
  /\ \/ /\ kpos > Len(idleConnections)
        /\ EndRemoval
     \/ /\ kpos <= Len(idleConnections)
        /\ IF ShouldBeReleased(idleConnections[kpos])
           THEN kpc' = "release" /\ UNCHANGED kpos
           ELSE kpos' = kpos + 1 /\ UNCHANGED kpc
        /\ UNCHANGED idleLock
  /\ UNCHANGED <<poolState, totalConnection, pendingRequestNumber, idleConnections, tasks, quit,
                 connVars, clientVars, apc, aitem, xpc>>

(* --totalConnection, close, delete, erase, addConnectionRequest.               *)
ReleaseIdle ==
  /\ kpc = "release"
  /\ totalConnection' = totalConnection - 1
  /\ Disconnect({idleConnections[kpos]})
  /\ idleConnections' = WithoutAt(idleConnections, kpos)
  /\ tasks' = TasksAfterRequest(totalConnection - 1)
  /\ kpc' = "scan"
  /\ UNCHANGED <<poolState, pendingRequestNumber, idleLock, quit, lost, faults,
                 clientVars, apc, aitem, kpos, xpc>>

-----------------------------------------------------------------------------
(* close                                                                        *)

Close ==
  /\ xpc = "none"
  /\ poolState' = "CLOSING" /\ xpc' = "pending"
  /\ UNCHANGED <<totalConnection, pendingRequestNumber, idleConnections, idleLock, tasks, quit,
                 connVars, clientVars, apc, aitem, kpc, kpos>>

ClosePending ==
  /\ xpc = "pending"
  /\ pendingRequestNumber' = 0 /\ xpc' = "shutdown"
  /\ UNCHANGED <<poolState, totalConnection, idleConnections, idleLock, tasks, quit,
                 connVars, clientVars, apc, aitem, kpc, kpos>>

(* scheduledFuture->cancel, connectionAppender.shutdown: queued tasks are never *)
(* run, running ones are not waited for.                                        *)
CloseShutdown ==
  /\ xpc = "shutdown"
  /\ quit' = TRUE /\ xpc' = "closeAll"
  /\ UNCHANGED <<poolState, totalConnection, pendingRequestNumber, idleConnections, idleLock, tasks,
                 connVars, clientVars, apc, aitem, kpc, kpos>>

CloseAll ==
  /\ ~idleLock
  /\ totalConnection' = totalConnection - Len(idleConnections)
  /\ Disconnect(InIdle)
  /\ idleConnections' = << >>

CloseIdle ==
  /\ xpc = "closeAll"
  /\ CloseAll
  /\ xpc' = "wait"
  /\ UNCHANGED <<poolState, pendingRequestNumber, idleLock, tasks, quit, lost, faults,
                 clientVars, apc, aitem, kpc, kpos>>

(* Again while connections are out, for ten seconds at most.                    *)
CloseWait ==
  /\ xpc = "wait"
  /\ \/ totalConnection > 0 /\ xpc' = "closeAll"
     \/ /\ totalConnection <= 0 \/ "closeTimesOut" \in Faults
        /\ xpc' = "final"
  /\ UNCHANGED <<poolVars, connVars, clientVars, apc, aitem, kpc, kpos>>

(* The last look. The pool then leaves the registry.                            *)
CloseFinal ==
  /\ xpc = "final"
  /\ IF totalConnection > 0 \/ idleConnections = << >>
     THEN CloseAll
     ELSE UNCHANGED <<totalConnection, link, age, idleConnections>>
  /\ xpc' = "closed"
  /\ UNCHANGED <<poolState, pendingRequestNumber, idleLock, tasks, quit, lost, faults,
                 clientVars, apc, aitem, kpc, kpos>>

-----------------------------------------------------------------------------
(* The environment: time, and servers or networks that fail                     *)

Tick ==
  /\ \E k \in Conns : age[k] < AgeBound /\ link[k] # "none"
  /\ age' = [k \in Conns |->
               IF link[k] # "none" /\ age[k] < AgeBound THEN age[k] + 1 ELSE age[k]]
  /\ UNCHANGED <<poolVars, link, lost, faults, clientVars, workerVars>>

Break(k) ==
  /\ faults < FaultBound
  /\ link[k] = "up"
  /\ \/ k \in InIdle /\ age[k] > poolValidMinDelay /\ "idleDies" \in Faults
     \/ k \in InIdle /\ age[k] <= poolValidMinDelay /\ "heldDies" \in Faults
     \/ \E c \in Clients : item[c] = k /\ cpc[c] = "held" /\ "heldDies" \in Faults
  /\ link' = [link EXCEPT ![k] = "down"]
  /\ faults' = faults + 1
  /\ UNCHANGED <<poolVars, age, lost, clientVars, workerVars>>

-----------------------------------------------------------------------------
RequestStep(c) ==
  \/ PollIdle(c) \/ PollNothing(c) \/ AddConnectionRequest(c)
  \/ ValidateItem(c) \/ DiscardItem(c) \/ LeaveRequest(c)

ReturnStep(c) ==
  \/ ConnectionClosed(c) \/ ResetConnection(c) \/ PushIdle(c) \/ UncountItem(c)

ClientStep(c) ==
  \/ GetPoolConnection(c) \/ RequestStep(c)
  \/ UseHandle(c) \/ CloseHandle(c) \/ DropHandle(c) \/ ReturnStep(c)

AppenderStep == TakeTask \/ RunTask \/ Connect \/ CheckPoolState \/ CountConnection \/ PushNew
RemovalStep == ScheduleRemoval \/ BeginRemoval \/ ExamineIdle \/ ReleaseIdle
CloserStep == ClosePending \/ CloseShutdown \/ CloseIdle \/ CloseWait \/ CloseFinal

Next ==
  \/ \E c \in Clients : ClientStep(c)
  \/ AppenderStep \/ RemovalStep \/ Close \/ CloserStep
  \/ Tick \/ \E k \in Conns : Break(k)

Spec == Init /\ [][Next]_vars

(* Threads inside the pool's code keep running, the executor keeps scheduling   *)
(* the removal, close() counts its seconds, and clients give back what they     *)
(* borrowed. The removal holds the idle mutex for a pass and then sleeps, so    *)
(* who waits for that mutex gets it (strong fairness). A client need not ask    *)
(* for a connection, no connection need get old, nothing need fail, nobody need *)
(* close the pool, and no client is sure to win an idle connection against the  *)
(* others.                                                                      *)
Fairness ==
  /\ \A c \in Clients :
       /\ WF_vars(RequestStep(c)) /\ SF_vars(PollNothing(c))
       /\ WF_vars(CloseHandle(c) \/ DropHandle(c))
       /\ SF_vars(ReturnStep(c))
  /\ SF_vars(AppenderStep)
  /\ WF_vars(RemovalStep)
  /\ SF_vars(CloserStep) /\ SF_vars(CloseWait /\ xpc' = "final")

FairSpec == Spec /\ Fairness

-----------------------------------------------------------------------------
(* totalConnection counts exactly the connections that are idle, in a client's  *)
(* hands, about to be pushed by the appender, or lost, although every path      *)
(* (validation, removal, reset failure, close) adjusts it separately from the   *)
(* deque. In particular the branch of addConnection that overshoots is dead.    *)
SlotAccounting == totalConnection = Cardinality(Counted)

(* The pool never holds more than maxPoolSize connections, the one the appender *)
(* is opening included.                                                         *)
PoolBound ==
  Cardinality(Counted \cup (IF aitem = None THEN {} ELSE {aitem})) <= maxPoolSize

(* A connection is idle once, or in one client's hands, or with the appender.   *)
ExclusiveLease ==
  /\ \A i, j \in DOMAIN idleConnections : idleConnections[i] = idleConnections[j] => i = j
  /\ \A c, d \in Holders : item[c] = item[d] => c = d
  /\ InIdle \cap InHands = {}
  /\ aitem \notin InIdle \cup InHands

(* Until close() zeroes it, pendingRequestNumber is the number of clients inside*)
(* getPoolConnection: the appender's decision to open a connection rests on it. *)
PendingAccounting ==
  poolState = "OK" =>
    pendingRequestNumber = Cardinality({c \in Clients : cpc[c] \in Requesting})

(* "new connection request will wait to newly created connection or for a       *)
(* released connection": as long as clients wait in an open pool, an idle       *)
(* connection turns up.                                                         *)
WaitersGetAChance ==
  (poolState = "OK" /\ \E c \in Clients : cpc[c] = "poll2")
    ~> (poolState # "OK" \/ idleConnections # << >> \/ \A c \in Clients : cpc[c] # "poll2")

(* Whatever validation and the removal take out of an open pool, enough add     *)
(* tasks are queued or under way to bring it back to minPoolSize.               *)
Refilling ==
  tasks + (IF apc \in {"run", "connect", "opened", "count"} THEN 1 ELSE 0)
        + Cardinality({c \in Clients : cpc[c] \in {"replace1", "replace2"}})
RefillOnTheWay == poolState = "OK" => totalConnection + Refilling >= minPoolSize

(* A client that waits for a connection of an open pool waits for something: an *)
(* idle one, one that somebody has or is giving back, or one about to be opened.*)
NobodyWaitsForNothing ==
  (poolState = "OK" /\ \E c \in Clients : cpc[c] = "poll2") =>
    idleConnections # << >> \/ InHands # {} \/ Refilling > 0 \/ apc = "push"

(* close() returns, whatever the other threads hold.                            *)
CloseTerminates == (xpc # "none") ~> (xpc = "closed")

(* The pool implements what PoolLease promises: what it contains are the        *)
(* connections it counts, and a client has a lease from the moment              *)
(* getPoolConnection returns until it closes or destroys its handle.            *)
Leases == [c \in Clients |-> IF cpc[c] = "held" THEN item[c] ELSE None]
Lease == INSTANCE PoolLease WITH pool <- Counted, lease <- Leases
ImplementsLease == Lease!LeaseSpec

(* An open pool is on its way back to its minimum, and a client that waits has  *)
(* a connection or a refill coming (tasks of the appender, releases and polls   *)
(* in any order).                                                               *)
PoolIsRefilled == RefillOnTheWay /\ NobodyWaitsForNothing
=============================================================================

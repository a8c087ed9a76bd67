----------------------- MODULE PreparedStatementCache -----------------------
(* Server-side prepared statements of one connection: the statement objects of  *)
(* the application, the ServerPrepareResult objects they share through a share  *)
(* counter (util/ServerPrepareResult.cpp), the LRU cache that also shares them  *)
(* (class/lru), and the one-element slot statementIdToRelease for handles that  *)
(* could not be closed at once (protocol/capi/QueryProtocol.cpp).               *)
EXTENDS Integers, Sequences, FiniteSets

CONSTANTS
  Stmts,          \* ServerSidePreparedStatement objects of the application
  Keys,           \* "database-sql" keys
  LongKeys,       \* the keys longer than prepStmtCacheSqlLimit
  Results,        \* identities of ServerPrepareResult objects, with their handles
  None,           \* nullptr
  maxSize,        \* prepStmtCacheSize; 0 stands for the NoCache of cachePrepStmts=false
  CountBound      \* how far below zero a share counter is followed

ASSUME SetsAssumption == IsFiniteSet(Stmts) /\ IsFiniteSet(Results) /\ None \notin Results
ASSUME CacheAssumption == maxSize \in Nat /\ CountBound \in Nat /\ LongKeys \subseteq Keys

VARIABLES
  lu,                     \* the cache: <<key, result>> pairs, most recently used first
  shareCounter, isBeingDeallocate,
  alive,                  \* the ServerPrepareResult objects that exist
  handle,                 \* the MYSQL_STMT of each: "none" (never opened, or freed),
                          \*   "open", "detached" (the session forgot it: stmt->mysql is null)
  serverPrepareResult,    \* what each statement object points to
  statementIdToRelease,
  connected,
  closes                  \* whether this application calls close() of a statement
                          \*   before it destroys it; it does not change its mind

resultVars == <<shareCounter, isBeingDeallocate, alive, handle>>
cacheVars == <<lu, resultVars, serverPrepareResult, statementIdToRelease, connected, closes>>

CacheTypeOK ==
  /\ lu \in Seq(Keys \X Results)
  /\ shareCounter \in [Results -> Int]
  /\ isBeingDeallocate \in [Results -> BOOLEAN]
  /\ alive \subseteq Results
  /\ handle \in [Results -> {"none", "open", "detached"}]
  /\ serverPrepareResult \in [Stmts -> Results \cup {None}]
  /\ statementIdToRelease \in Results \cup {None}
  /\ connected \in BOOLEAN /\ closes \in BOOLEAN

CacheInit ==
  /\ lu = << >>
  /\ shareCounter = [r \in Results |-> 0]
  /\ isBeingDeallocate = [r \in Results |-> FALSE]
  /\ alive = {}
  /\ handle = [r \in Results |-> "none"]
  /\ serverPrepareResult = [s \in Stmts |-> None]
  /\ statementIdToRelease = None
  /\ connected = TRUE /\ closes \in BOOLEAN

-----------------------------------------------------------------------------
Cached == {lu[i][2] : i \in DOMAIN lu}
CachedKeys == {lu[i][1] : i \in DOMAIN lu}
Users(r) == {s \in Stmts : serverPrepareResult[s] = r}

\* memory nobody points to: where a new result may be allocated
Unreferenced == {r \in Results : /\ r \notin alive \cup Cached /\ handle[r] = "none"
                                 /\ Users(r) = {} /\ statementIdToRelease # r}

\* where operator new puts the next one: which free place it is makes no difference
Allocated == IF Unreferenced = {} THEN {} ELSE {CHOOSE r \in Unreferenced : TRUE}

-----------------------------------------------------------------------------
(* Plausible slips; the properties below have to notice them.                   *)

\* a result that is shared may be deallocated
CanBeDeallocateShared(r, count) == ~isBeingDeallocate[r]

\* the flag isBeingDeallocate is not looked at
CanBeDeallocateTwice(r, count) == count <= 1

-----------------------------------------------------------------------------
CanBeDeallocate(r, count) == count <= 1 /\ ~isBeingDeallocate[r]

\* LruCache::get splices the hit, the i-th entry, to the front of the list
Touched(i) == <<lu[i]>> \o SubSeq(lu, 1, i - 1) \o SubSeq(lu, i + 1, Len(lu))

\* LruCache::put on a full cache: the last list entry gives way
Full == Len(lu) = maxSize
KeptEntries == IF Full THEN SubSeq(lu, 1, maxSize - 1) ELSE lu
Evicted == IF Full THEN {lu[maxSize][2]} ELSE {}

CacheEntry(k, r) == <<k, r>>

\* incrementShareCounter refuses a result being deallocated, and PsCache::get does not look
CountAfterHit(r) == IF isBeingDeallocate[r] THEN shareCounter[r] ELSE shareCounter[r] + 1

\* forceReleaseWaitingPrepareStatement, at the start of every command
AfterPrologue == [r \in Results |-> IF r = statementIdToRelease THEN "none" ELSE handle[r]]

(* What an owner does when it lets go of a result: PsRemover on a cache entry,  *)
(* and ~ServerSidePreparedStatement. The last owner deletes it, and with it the *)
(* handle, which no lock prevents here; another one decrements the counter.     *)
LetGo(S, handles) ==
  LET gone == {r \in S : CanBeDeallocate(r, shareCounter[r])}
  IN  /\ alive' = alive \ gone
      /\ handle' = [r \in Results |-> IF r \in gone THEN "none" ELSE handles[r]]
      /\ isBeingDeallocate' = [r \in Results |-> r \in gone \/ isBeingDeallocate[r]]
      /\ shareCounter' = [r \in Results |->
           IF r \in S \ gone THEN shareCounter[r] - 1 ELSE shareCounter[r]]

-----------------------------------------------------------------------------
(* prepare(sql), cache hit.                                                     *)
PrepareHit(s, k) ==
  /\ connected /\ serverPrepareResult[s] = None
  /\ \E i \in DOMAIN lu :
       /\ lu[i][1] = k
       /\ serverPrepareResult' = [serverPrepareResult EXCEPT ![s] = lu[i][2]]
       /\ shareCounter' = [shareCounter EXCEPT ![lu[i][2]] = CountAfterHit(lu[i][2])]
       /\ lu' = Touched(i)
  /\ handle' = AfterPrologue /\ statementIdToRelease' = None
  /\ UNCHANGED <<isBeingDeallocate, alive, connected, closes>>

(* prepare(sql), miss: a new result, which the statement owns and, if its key   *)
(* is short enough, the cache too. A full cache lets go of its eldest entry.    *)
PrepareMiss(s, k) ==
  /\ connected /\ serverPrepareResult[s] = None
  /\ k \notin CachedKeys
  /\ \E r \in Allocated :
       LET caches == maxSize > 0 /\ k \notin LongKeys
           victims == IF caches THEN Evicted ELSE {}
           gone == {v \in victims : CanBeDeallocate(v, shareCounter[v])}
       IN  /\ lu' = IF caches THEN <<CacheEntry(k, r)>> \o KeptEntries ELSE lu
           /\ alive' = (alive \ gone) \cup {r}
           /\ handle' = [q \in Results |->
                IF q = r THEN "open" ELSE IF q \in gone THEN "none" ELSE AfterPrologue[q]]
           /\ isBeingDeallocate' = [q \in Results |->
                q # r /\ (q \in gone \/ isBeingDeallocate[q])]
           /\ shareCounter' = [q \in Results |->
                IF q = r THEN (IF caches THEN 2 ELSE 1)
                ELSE IF q \in victims \ gone THEN shareCounter[q] - 1 ELSE shareCounter[q]]
           /\ serverPrepareResult' = [serverPrepareResult EXCEPT ![s] = r]
  /\ statementIdToRelease' = None
  /\ UNCHANGED <<connected, closes>>

(* delete of a statement object that was not closed.                            *)
DestroyStatement(s) ==
  /\ serverPrepareResult[s] # None /\ shareCounter[serverPrepareResult[s]] > -CountBound
  /\ LetGo({serverPrepareResult[s]}, handle)
  /\ serverPrepareResult' = [serverPrepareResult EXCEPT ![s] = None]
  /\ UNCHANGED <<lu, statementIdToRelease, connected, closes>>

(* ServerSidePreparedStatement::close: releasePrepareStatement decrements       *)
(* FIRST and asks afterwards. It runs with the protocol's mutex held, so that   *)
(* forceReleasePrepareStatement cannot lock it and only fills the slot, unless  *)
(* the connection is gone. The result object is never deleted.                  *)
CloseStatement(s) ==
  /\ closes
  /\ serverPrepareResult[s] # None /\ shareCounter[serverPrepareResult[s]] > -CountBound
  /\ LET r == serverPrepareResult[s]
         count == shareCounter[r] - 1
         release == CanBeDeallocate(r, count)
     IN  /\ shareCounter' = [shareCounter EXCEPT ![r] = count]
         /\ isBeingDeallocate' = [isBeingDeallocate EXCEPT ![r] = @ \/ release]
         /\ statementIdToRelease' = IF release /\ connected THEN r ELSE statementIdToRelease
         /\ handle' = IF release /\ ~connected THEN [handle EXCEPT ![r] = "none"] ELSE handle
  /\ serverPrepareResult' = [serverPrepareResult EXCEPT ![s] = None]
  /\ UNCHANGED <<lu, alive, connected, closes>>

(* Any other command, a prepare the server refuses and a command on a closed    *)
(* connection included: cmdPrologue closes what waits in the slot.              *)
Command ==
  /\ statementIdToRelease # None
  /\ handle' = AfterPrologue /\ statementIdToRelease' = None
  /\ UNCHANGED <<lu, shareCounter, isBeingDeallocate, alive, serverPrepareResult, connected, closes>>

\* the session forgets its prepared statements
Detached(handles) == [r \in Results |-> IF handles[r] = "open" THEN "detached" ELSE handles[r]]

(* Protocol::reset: COM_RESET_CONNECTION, then the cache is cleared.            *)
ResetConnection ==
  /\ connected
  /\ LetGo(Cached, Detached(AfterPrologue))
  /\ lu' = << >> /\ statementIdToRelease' = None
  /\ UNCHANGED <<serverPrepareResult, connected, closes>>

(* Protocol::close / abort: mysql_close, then the cache is cleared.             *)
CloseConnection ==
  /\ connected
  /\ connected' = FALSE
  /\ LetGo(Cached, Detached(handle))
  /\ lu' = << >>
  /\ UNCHANGED <<serverPrepareResult, statementIdToRelease, closes>>

CacheNext ==
  \/ \E s \in Stmts :
       \/ \E k \in Keys : PrepareHit(s, k) \/ PrepareMiss(s, k)
       \/ DestroyStatement(s) \/ CloseStatement(s)
  \/ Command \/ ResetConnection \/ CloseConnection

CacheSpec == CacheInit /\ [][CacheNext]_cacheVars

-----------------------------------------------------------------------------
(* As long as statements are destroyed without close(), every result that a     *)
(* statement or the cache points to still exists, and so does its handle,       *)
(* however owners come and go.                                                  *)
NoDangling ==
  ~closes => \A r \in Results :
    (Users(r) # {} \/ r \in Cached) => r \in alive /\ handle[r] # "none"

(* A result that nobody has started to deallocate counts its owners exactly:    *)
(* the statements that use it, and the cache, in whatever way others let go.    *)
ShareCountExact ==
  \A r \in alive : (~closes \/ ~isBeingDeallocate[r]) =>
    shareCounter[r] = Cardinality(Users(r)) + (IF r \in Cached THEN 1 ELSE 0)

(* As long as statements are destroyed without close(), a handle that is open   *)
(* at the server is owned by somebody who will close it.                        *)
NoServerLeak ==
  ~closes => \A r \in Results :
    handle[r] = "open" => Users(r) # {} \/ r \in Cached \/ statementIdToRelease = r

(* The cache respects prepStmtCacheSize and holds every key and result once.    *)
CacheWellFormed ==
  /\ Len(lu) <= maxSize
  /\ \A i, j \in DOMAIN lu : (lu[i][1] = lu[j][1] \/ lu[i][2] = lu[j][2]) => i = j

(* No handle is closed twice: when a result is deleted, which closes its handle,*)
(* nobody has closed that handle before and it does not wait in the slot, in    *)
(* whatever way its other owners let go of it.                                  *)
NoDoubleClose ==
  [][\A r \in alive \ alive' : handle[r] # "none" /\ statementIdToRelease # r]_cacheVars

(* "deallocate from server if not cached": what the cache can still hand out    *)
(* has not been given up for deallocation.                                      *)
CachedNotReleased ==
  \A r \in Cached : handle[r] # "none" /\ statementIdToRelease # r

(* Owners, counters, cache and handles at the server tell the same of every     *)
(* result: none is gone under an owner, none is left without one, and the cache *)
(* keeps to its size.                                                           *)
SharesAreExact ==
  /\ CacheTypeOK
  /\ NoDangling
  /\ ShareCountExact
  /\ NoServerLeak
  /\ CacheWellFormed
=============================================================================

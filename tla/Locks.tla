------------------------------- MODULE Locks -------------------------------
(* The distributed lock of server.ts: SET NX PX in Redis, a token per key    *)
(* and process that proves ownership at the release, and a map in memory     *)
(* when a command to Redis fails.  The commands of the one connection are    *)
(* executed in the order they are sent, so a SET takes effect when sent.     *)
EXTENDS Naturals

CONSTANTS
  LockKeys,          \* the keys requests lock
  Requests,          \* the requests; a request's token is the request itself
  Free               \* no lock, no token

VARIABLES
  locks,             \* the holder in Redis of each key
  inMemoryLocks,     \* the holder in the fallback map
  heldLockTokens,    \* what this process believes it holds
  lapsed             \* keys whose lock expired or was taken outside Redis

lockVars == <<locks, inMemoryLocks, heldLockTokens, lapsed>>

LocksInit ==
  /\ locks = [k \in LockKeys |-> Free]
  /\ inMemoryLocks = [k \in LockKeys |-> Free]
  /\ heldLockTokens = [k \in LockKeys |-> Free]
  /\ lapsed = {}

\* The SET of r is sent; won says what Redis will answer.
acquireLock(r, k, won) ==
  /\ won = (locks[k] = Free)
  /\ locks' = IF won THEN [locks EXCEPT ![k] = r] ELSE locks
  /\ UNCHANGED <<inMemoryLocks, heldLockTokens, lapsed>>

\* The command fails: the map in memory decides, whoever holds the key in Redis.
acquireInMemory(r, k, won) ==
  /\ won = (inMemoryLocks[k] = Free)
  /\ inMemoryLocks' = IF won THEN [inMemoryLocks EXCEPT ![k] = r] ELSE inMemoryLocks
  /\ lapsed' = lapsed \cup {k}
  /\ UNCHANGED <<locks, heldLockTokens>>

\* The answer arrives, and the winner's token replaces the one kept for the key.
LockAnswered(r, k) ==
  /\ heldLockTokens' = [heldLockTokens EXCEPT ![k] = r]
  /\ UNCHANGED <<locks, inMemoryLocks, lapsed>>

\* Compare and delete, with the last token this process kept for the key.
releaseLock(k) ==
  LET token == heldLockTokens[k]
  IN  /\ heldLockTokens' = [heldLockTokens EXCEPT ![k] = Free]
      /\ locks' = IF token # Free /\ locks[k] = token THEN [locks EXCEPT ![k] = Free] ELSE locks
      /\ UNCHANGED <<inMemoryLocks, lapsed>>

\* The time to live of a lock runs out, whether its holder is done or not.
LockExpires(k) ==
  /\ \/ /\ locks[k] # Free
        /\ locks' = [locks EXCEPT ![k] = Free]
        /\ UNCHANGED inMemoryLocks
     \/ /\ inMemoryLocks[k] # Free
        /\ inMemoryLocks' = [inMemoryLocks EXCEPT ![k] = Free]
        /\ UNCHANGED locks
  /\ lapsed' = lapsed \cup {k}
  /\ UNCHANGED heldLockTokens

\* A new process: the tokens and the map are gone, Redis keeps its locks.
LocksRestart ==
  /\ inMemoryLocks' = [k \in LockKeys |-> Free]
  /\ heldLockTokens' = [k \in LockKeys |-> Free]
  /\ UNCHANGED <<locks, lapsed>>
=============================================================================

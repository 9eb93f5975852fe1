--------------------------- MODULE BrowserSession ---------------------------
(* The saved browser session of one service in one container of the scraper  *)
(* engine: workers/scrapers/_browser_session.py. Jobs open contexts, the     *)
(* session lies in a file of the container and in Redis, and a lock per      *)
(* service keeps two jobs from logging in at once.                           *)
EXTENDS Naturals

CONSTANTS
    BrowserJob,     \* the contexts that can be open at once
    MaxLosses       \* invalidations and redeploys

ASSUME LossesAssumption == MaxLosses \in Nat

VARIABLES
    stateFile,      \* /tmp/<service>_state.json
    redisState,     \* TolipAI:session:<service>
    contexts,       \* what each job is doing
    carried,        \* the state each job carries over an await, from or to Redis
    invalidating,   \* invalidate_session has unlinked and not yet deleted
    logins,         \* logins whose session was saved in the file
    losses          \* files unlinked or lost with the container's disk

sessionVars == <<stateFile, redisState, contexts, carried, invalidating, logins, losses>>

\* A saved state works, or does not: the site forgot it, or the login page
\* blocked the browser and its cookies were saved all the same.
SessionState == {"none", "good", "bad"}

\* "lock": waits for the lock, "login" and "saving" hold it.
ContextState == {"idle", "loading", "lock", "login", "saving", "open"}

SessionTypeOK ==
    /\ stateFile \in SessionState /\ redisState \in SessionState
    /\ contexts \in [BrowserJob -> ContextState]
    /\ carried \in [BrowserJob -> SessionState]
    /\ invalidating \in BOOLEAN
    /\ logins \in Nat /\ losses \in 0..MaxLosses

SessionInit ==
    /\ stateFile = "none" /\ redisState = "none"
    /\ contexts = [j \in BrowserJob |-> "idle"]
    /\ carried = [j \in BrowserJob |-> "none"]
    /\ invalidating = FALSE /\ logins = 0 /\ losses = 0

Becomes(j, state) == contexts' = [contexts EXCEPT ![j] = state]

-----------------------------------------------------------------------------
(* browser_context: Redis is read first; without Redis nothing comes back. *)
LoadSession(j) ==
    /\ contexts[j] = "idle" /\ Becomes(j, "loading")
    /\ \E seen \in {redisState, "none"} : carried' = [carried EXCEPT ![j] = seen]
    /\ UNCHANGED <<stateFile, redisState, invalidating, logins, losses>>

(* Redis' state overwrites the file; else the file serves; else a login. A   *)
(* caller without login_fn goes on without a session.                        *)
ResolveSession(j) ==
    /\ contexts[j] = "loading"
    /\ IF carried[j] # "none" THEN stateFile' = carried[j] ELSE UNCHANGED stateFile
    /\ \/ stateFile' # "none" /\ Becomes(j, "open")
       \/ stateFile' = "none" /\ \E state \in {"lock", "open"} : Becomes(j, state)
    /\ carried' = [carried EXCEPT ![j] = "none"]
    /\ UNCHANGED <<redisState, invalidating, logins, losses>>

LockFree == \A j \in BrowserJob : contexts[j] \notin {"login", "saving"}

(* Whether the job that got the lock logs in; before it, the form that does  *)
(* not look again.                                                           *)
AlwaysLogin(file) == TRUE
StillMissing(file) == file = "none"

TakeLock(j) ==
    /\ contexts[j] = "lock" /\ LockFree
    /\ Becomes(j, IF StillMissing(stateFile) THEN "login" ELSE "open")
    /\ UNCHANGED <<stateFile, redisState, carried, invalidating, logins, losses>>

(* login_fn returned, whether or not the site let it in, and the cookies are *)
(* written to the file, which is read back for Redis.                        *)
LoggedIn(j) ==
    /\ contexts[j] = "login" /\ Becomes(j, "saving")
    /\ stateFile' \in {"good", "bad"} /\ logins' = logins + 1
    /\ carried' = [carried EXCEPT ![j] = stateFile']
    /\ UNCHANGED <<redisState, invalidating, losses>>

(* It reaches Redis, whatever has become of the file, or the write fails     *)
(* quietly.                                                                  *)
SaveSession(j) ==
    /\ contexts[j] = "saving" /\ Becomes(j, "open")
    /\ redisState' \in {redisState, carried[j]}
    /\ carried' = [carried EXCEPT ![j] = "none"]
    /\ UNCHANGED <<stateFile, invalidating, logins, losses>>

(* The job ends, or the browser or the login raises: the lock is released. *)
CloseContext(j) ==
    /\ contexts[j] # "idle" /\ Becomes(j, "idle")
    /\ carried' = [carried EXCEPT ![j] = "none"]
    /\ UNCHANGED <<stateFile, redisState, invalidating, logins, losses>>

(* invalidate_session: the file now, Redis after an await. *)
Unlink ==
    /\ ~invalidating /\ losses < MaxLosses
    /\ invalidating' = TRUE /\ stateFile' = "none"
    /\ losses' = IF stateFile = "none" THEN losses ELSE losses + 1
    /\ UNCHANGED <<redisState, contexts, carried, logins>>

DeleteRedisState ==
    /\ invalidating /\ invalidating' = FALSE
    /\ redisState' \in {"none", redisState}
    /\ UNCHANGED <<stateFile, contexts, carried, logins, losses>>

Forgotten(state) == IF state = "good" THEN "bad" ELSE state

(* The site forgets the session, or Redis drops it after seven days. *)
SessionExpires ==
    /\ \/ /\ stateFile' = Forgotten(stateFile) /\ redisState' = Forgotten(redisState)
          /\ carried' = [j \in BrowserJob |-> Forgotten(carried[j])]
       \/ redisState' = "none" /\ UNCHANGED <<stateFile, carried>>
    /\ UNCHANGED <<contexts, invalidating, logins, losses>>

(* A deploy: a fresh disk and no jobs; Redis stays. *)
Redeploy ==
    /\ losses < MaxLosses /\ losses' = losses + 1
    /\ stateFile' = "none" /\ invalidating' = FALSE
    /\ contexts' = [j \in BrowserJob |-> "idle"] /\ carried' = [j \in BrowserJob |-> "none"]
    /\ UNCHANGED <<redisState, logins>>

SessionNext ==
    \/ Unlink \/ DeleteRedisState \/ SessionExpires \/ Redeploy
    \/ \E j \in BrowserJob : \/ LoadSession(j) \/ ResolveSession(j) \/ TakeLock(j) \/ LoggedIn(j)
                             \/ SaveSession(j) \/ CloseContext(j)

SessionSpec == SessionInit /\ [][SessionNext]_sessionVars

-----------------------------------------------------------------------------
(* Jobs that start together log in once: another login takes another loss of *)
(* the saved file.                                                           *)
LoginOncePerLoss == logins <= losses + 1
=============================================================================

--------------------------- MODULE EmailSequences ---------------------------
(***************************************************************************)
(* The hourly job of the API server that sends the steps of a drip         *)
(* sequence: runEmailSequenceJob in routes/crm/sequences.ts, started by    *)
(* index.ts in every server process.                                       *)
(*                                                                         *)
(* One active sequence, its leads all created at hour 0.  A run takes a    *)
(* Postgres advisory lock, reads the leads, and for each lead and each     *)
(* step of the day looks for a log, sends, and inserts the log.  The lock  *)
(* belongs to a database session, and every query of a run goes to any     *)
(* session of the server's pool (lib/db: idle connections are never        *)
(* closed).  Pages of leads, texts and the editing of sequences are left   *)
(* out; email, SMS and mail differ only in what makes a lead reachable.    *)
(***************************************************************************)
EXTENDS Integers, FiniteSets

CONSTANTS
    Server,       \* processes running the API server
    Conn,         \* the connections of a server's pool
    Lead, Step,
    DayOffset,    \* [Step -> Nat]
    Unreachable,  \* leads without the email, phone or address the steps need
    HoursPerDay,
    MaxHour,      \* bound: the last hour
    MaxFaults     \* bound: crashes, broken connections and failing queries

ASSUME SequencesAssumption ==
    /\ DayOffset \in [Step -> Nat]
    /\ Unreachable \subseteq Lead
    /\ HoursPerDay \in Nat \ {0} /\ MaxHour \in Nat /\ MaxFaults \in Nat

VARIABLES
    hour,     \* hours since the leads were created
    up,       \* servers that run
    due,      \* servers whose timer has fired and whose job has not begun
    run,      \* per slot: a run of the job (two of one server may overlap)
    lock,     \* the advisory lock: its session and how often that took it
    logs,     \* crm_sequence_logs: <<lead, step>>, a unique index
    sends,    \* history: messages delivered per lead and step
    overlap,  \* history: a server began a run while one of its runs was going
    faults    \* history: number of faults, and the kinds that happened

vars == <<hour, up, due, run, lock, logs, sends, overlap, faults>>

Slot == Server \X {1, 2}
Session == Server \X Conn
Item == Lead \X Step
NoSession == <<>>
NoItem == <<>>
Free == [session |-> NoSession, count |-> 0]

Idle == [at |-> "idle", day |-> 0, page |-> {}, todo |-> {}, item |-> NoItem, aborted |-> FALSE]

Going(r) == run[r].at \notin {"idle", "lock"}

FaultKind == {"crash", "disconnect", "insert", "query"}

Happens(f) ==
    /\ faults.count < MaxFaults
    /\ faults' = [count |-> faults.count + 1, kinds |-> faults.kinds \cup {f}]

Init ==
    /\ hour = 0
    /\ up = Server /\ due = Server
    /\ run = [r \in Slot |-> Idle]
    /\ lock = Free
    /\ logs = {}
    /\ sends = [x \in Item |-> 0]
    /\ overlap = FALSE
    /\ faults = [count |-> 0, kinds |-> {}]

----------------------------------------------------------------------------
(* The job.  Faulty variants, for mutation runs, stand before what they     *)
(* replace: AnyMayTake, Unchecked, EndsAtUnreachable.                       *)

\* The timer fires; daysSinceCreation is computed from this moment.
Tick(r) ==
    /\ r[1] \in due
    /\ run[r].at = "idle"
    /\ r[2] = 2 => run[<<r[1], 1>>].at # "idle"   \* the slots only number the runs
    /\ due' = due \ {r[1]}
    /\ run' = [run EXCEPT ![r] = [Idle EXCEPT !.at = "lock", !.day = hour \div HoursPerDay]]
    /\ UNCHANGED <<hour, up, lock, logs, sends, overlap, faults>>

AnyMayTake(s) == TRUE

\* pg_try_advisory_lock: a session may take its own lock again.
MayTake(s) == lock.session \in {NoSession, s}

TryLock(r, c) ==
    /\ run[r].at = "lock"
    /\ IF MayTake(<<r[1], c>>)
       THEN /\ lock' = [session |-> <<r[1], c>>, count |-> lock.count + 1]
            /\ overlap' = (overlap \/ \E q \in Slot : q[1] = r[1] /\ Going(q))
            /\ run' = [run EXCEPT ![r].at = "page"]
       ELSE /\ run' = [run EXCEPT ![r] = Idle]
            /\ UNCHANGED <<lock, overlap>>
    /\ UNCHANGED <<hour, up, due, logs, sends, faults>>

\* The leads that are not dead or closed now: users change that at any time.
ReadPage(r) ==
    /\ run[r].at = "page"
    /\ \E open \in SUBSET Lead :
       LET items == {x \in Item : x[1] \in open /\ DayOffset[x[2]] = run[r].day}
       IN  run' = [run EXCEPT ![r].at = "next", ![r].page = items, ![r].todo = items]
    /\ UNCHANGED <<hour, up, due, lock, logs, sends, overlap, faults>>

Unchecked(x) == FALSE

\* existingLog
Logged(x) == x \in logs

EndsAtUnreachable(r, x) ==
    run' = [run EXCEPT ![r].todo = IF x[1] \in Unreachable THEN {} ELSE @ \ {x}]

Continue(r, x) == run' = [run EXCEPT ![r].todo = @ \ {x}]

\* A lead without email or phone is passed over; a letter without an address is
\* logged as failed without a send.  Users edit steps and leads at any time.
Check(r, x) ==
    /\ run[r].at = "next"
    /\ x \in run[r].todo
    /\ \/ (Logged(x) \/ x[1] \in Unreachable) /\ Continue(r, x)
       \/ /\ ~Logged(x)
          /\ run' = [run EXCEPT ![r].at = IF x[1] \in Unreachable THEN "log" ELSE "send",
                                ![r].item = x]
    /\ UNCHANGED <<hour, up, due, lock, logs, sends, overlap, faults>>

\* A send that fails is logged as failed; one that times out may be delivered.
Send(r) ==
    /\ run[r].at = "send"
    /\ \E n \in {0, 1} : sends' = [sends EXCEPT ![run[r].item] = @ + n]
    /\ run' = [run EXCEPT ![r].at = "log"]
    /\ UNCHANGED <<hour, up, due, lock, logs, overlap, faults>>

Abort(r) == run' = [run EXCEPT ![r].at = "unlock", ![r].aborted = TRUE]

\* The unique index refuses a second log, and the error ends the run.
InsertLog(r) ==
    /\ run[r].at = "log"
    /\ \/ /\ run[r].item \notin logs
          /\ logs' = logs \cup {run[r].item}
          /\ run' = [run EXCEPT ![r].at = "next", ![r].todo = @ \ {run[r].item}, ![r].item = NoItem]
       \/ run[r].item \in logs /\ Abort(r) /\ UNCHANGED logs
    /\ UNCHANGED <<hour, up, due, lock, sends, overlap, faults>>

\* Whatever query fails, of the leads, the log, a text's history or the insert,
\* the error ends the run.
QueryFails(r) ==
    /\ run[r].at \in {"page", "next", "send", "log"}
    /\ Happens(IF run[r].at = "log" THEN "insert" ELSE "query")
    /\ Abort(r)
    /\ UNCHANGED <<hour, up, due, lock, logs, sends, overlap>>

EndRun(r) ==
    /\ run[r].at = "next"
    /\ run[r].todo = {}
    /\ run' = [run EXCEPT ![r].at = "unlock"]
    /\ UNCHANGED <<hour, up, due, lock, logs, sends, overlap, faults>>

\* pg_advisory_unlock, on whatever session the pool hands out.
Unlock(r, c) ==
    /\ run[r].at = "unlock"
    /\ lock' = IF lock.session # <<r[1], c>> THEN lock
               ELSE IF lock.count = 1 THEN Free ELSE [lock EXCEPT !.count = @ - 1]
    /\ run' = [run EXCEPT ![r] = Idle]
    /\ UNCHANGED <<hour, up, due, logs, sends, overlap, faults>>

----------------------------------------------------------------------------
(* Time, connections, processes *)

Hour ==
    /\ hour < MaxHour
    /\ hour' = hour + 1
    /\ due' = up
    /\ UNCHANGED <<up, run, lock, logs, sends, overlap, faults>>

\* The sessions of a process that is gone are closed, and their lock with them.
LockAfter(p) == IF lock.session \in {p} \X Conn THEN Free ELSE lock

Crash(p) ==
    /\ p \in up
    /\ Happens("crash")
    /\ up' = up \ {p}
    /\ due' = due \ {p}
    /\ run' = [r \in Slot |-> IF r[1] = p THEN Idle ELSE run[r]]
    /\ lock' = LockAfter(p)
    /\ UNCHANGED <<hour, logs, sends, overlap>>

\* The connection whose session has the lock breaks; Postgres frees the lock,
\* and the run that took it goes on.
Disconnect ==
    /\ lock # Free
    /\ Happens("disconnect")
    /\ lock' = Free
    /\ UNCHANGED <<hour, up, due, run, logs, sends, overlap>>

Boot(p) ==
    /\ p \notin up
    /\ up' = up \cup {p}
    /\ due' = due \cup {p}
    /\ UNCHANGED <<hour, run, lock, logs, sends, overlap, faults>>

Job(r) ==
    \/ ReadPage(r) \/ Send(r) \/ InsertLog(r) \/ QueryFails(r) \/ EndRun(r)
    \/ \E c \in Conn : TryLock(r, c) \/ Unlock(r, c)
    \/ \E x \in Item : Check(r, x)

Next ==
    \/ \E r \in Slot : Tick(r) \/ Job(r)
    \/ \E p \in Server : Crash(p) \/ Boot(p)
    \/ Hour \/ Disconnect

Spec == Init /\ [][Next]_vars

----------------------------------------------------------------------------
(* Properties *)

\* The clock, the runs, the lock and the logs keep their shape, and no lock is
\* left to a session that is gone. Proved (SequencesTyped), not in the run.
TypeOK ==
    /\ hour \in 0..MaxHour
    /\ up \subseteq Server /\ due \subseteq up
    /\ \A r \in Slot : run[r] \in
          [ at : {"idle", "lock", "page", "next", "send", "log", "unlock"}, day : 0..MaxHour,
            page : SUBSET Item, todo : SUBSET Item, item : Item \cup {NoItem}, aborted : BOOLEAN ]
    /\ lock = Free \/ (lock.session \in {s \in Session : s[1] \in up} /\ lock.count > 0)
    /\ logs \subseteq Item
    /\ sends \in [Item -> Nat]
    /\ overlap \in BOOLEAN
    /\ faults.count \in 0..MaxFaults /\ faults.kinds \subseteq FaultKind

Connected == "disconnect" \notin faults.kinds

\* The advisory lock does keep two servers from working at the same time, even
\* though a run may outlive the hour and leave the lock behind, as long as the
\* connection that took the lock does not break.
OneServerAtATime == \A q, r \in Slot : Connected /\ Going(q) /\ Going(r) => q[1] = r[1]

\* crm_sequence_logs "prevents double-sends" as far as the code goes: a lead
\* gets a step twice only if a server died, its connection broke, a log could not
\* be inserted, or a run of over an hour met the next run of its own server.
SentOnce ==
    \A x \in Item : sends[x] > 1 => faults.kinds \ {"query"} # {} \/ overlap

\* A run that comes to its end leaves no reachable lead of its page without a
\* log for a step of the day, whatever other runs and users did meanwhile.
RunLogsAll ==
    \A r \in Slot : run[r].at = "unlock" /\ ~run[r].aborted =>
        \A x \in run[r].page : x \in logs \/ x[1] \in Unreachable

\* README.md:521 "Deduplication via crm_sequence_logs table prevents
\* double-sends": no lead gets a step twice.
NeverSentTwice == \A x \in Item : sends[x] <= 1

\* A server that finds the lock taken logs "Another instance holds the lock":
\* the lock is held only while some run is going.
LockMeansRunning == lock # Free => \E r \in Slot : Going(r)
=============================================================================

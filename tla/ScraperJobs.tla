---------------------------- MODULE ScraperJobs ----------------------------
(***************************************************************************)
(* The life of a scrape job (cash_buyers, distressed) in the scraper       *)
(* engine, as its row in scraper_jobs tells it: workers/main.py with       *)
(* db.py, job_store.py's start-up recovery and spot_checkpoint.py, run by  *)
(* several containers on one Postgres and one retry queue.                 *)
(*                                                                         *)
(* The retry queue is used through its promise, RetryPolicy: what may be   *)
(* lost in a crash differs between its backends, so any waiting retry may. *)
(* The copies of a job in Redis and in each container's memory decide      *)
(* nothing here and are left out.                                          *)
(***************************************************************************)
EXTENDS Integers, FiniteSets

CONSTANTS
    Worker,       \* containers, each started once
    Job,          \* job ids
    CashBuyers,   \* the jobs of type cash_buyers; the others are distressed
    MaxRetries,   \* bound: calls of enqueue per job
    MaxAttempts,  \* MAX_ATTEMPTS of the retry queue
    MaxFaults     \* bound: kinds of faults that happen in a behaviour

ASSUME JobsAssumption ==
    /\ MaxRetries \in Nat /\ MaxAttempts \in Nat \ {0} /\ MaxFaults \in Nat
    /\ IsFiniteSet(Worker) /\ IsFiniteSet(Job) /\ CashBuyers \subseteq Job

VARIABLES
    up,       \* per container: "new", "boot", "up" or "gone"
    boot,     \* <<w, j, s>>: checkpoints w listed in lifespan, s "listed" or "queued"
    s3,       \* jobs with a checkpoint
    pg,       \* per job: status of its row, and whether completed_at is set
    first,    \* per job: the task started by its POST /scrape request
    manual,   \* per container: the job a POST /jobs/{id}/retry has yet to write
    retry,    \* per container: the run its drain loop awaits
    entry,    \* the retry queue, as RetryPolicy sees it
    orphans,  \* history: a container died and none has started since
    ended,    \* history: how the last run of each job ended
    faults    \* history: the faults that have happened

vars == <<up, boot, s3, pg, first, manual, retry, entry, orphans, ended, faults>>

\* The n-th retry asked for job j.
Ticket == Job \X (1..MaxRetries)
JobOf(t) == t[1]
Queue == INSTANCE RetryPolicy

Settled == {"done", "failed"}

Row == [ status : {"none", "queued", "running", "retry_pending", "interrupted"} \cup Settled,
         completed : BOOLEAN ]

NoRun == [ticket |-> <<>>, at |-> "idle"]
NoJob == "none"

Fault == {"crash", "lost write", "raising write", "s3"}
Happens(f) ==
    /\ f \in faults \/ Cardinality(faults) < MaxFaults
    /\ faults' = faults \cup {f}

Init ==
    /\ up = [w \in Worker |-> "new"]
    /\ boot = {} /\ s3 = {}
    /\ pg = [j \in Job |-> [status |-> "none", completed |-> FALSE]]
    /\ first = [j \in Job |-> [on |-> "none", at |-> "none"]]
    /\ manual = [w \in Worker |-> NoJob]
    /\ retry = [w \in Worker |-> NoRun]
    /\ Queue!Init
    /\ orphans = FALSE
    /\ ended = [j \in Job |-> "none"]
    /\ faults = {}

\* Faulty variants stand before the definition they replace in a mutation run:
\* PendingUnqueued, WriteFirstUnlessFatal, SuccessKeepsCheckpoint,
\* SuccessKeepsTicket, ManualUnqueued and NoneOrphaned.

----------------------------------------------------------------------------
(* Writes *)

Completes(st) == st \in Settled

\* The row of j, if there is one.
Written(j, st) ==
    IF pg[j].status = "none" THEN pg
    ELSE [pg EXCEPT ![j] = [status |-> st, completed |-> @.completed \/ Completes(st)]]

\* db.update_job; when no connection can be had it returns silently.
Update(j, st) ==
    \/ pg' = Written(j, st) /\ UNCHANGED faults
    \/ Happens("lost write") /\ UNCHANGED pg

\* retry_queue.enqueue with attempt = 0: tickets are numbered as they are asked for.
NextTicket(j, t) == JobOf(t) = j /\ \A n \in 1..t[2]-1 : entry[<<j, n>>] # Queue!In("none")
Enqueue(j) == \E t \in Ticket : NextTicket(j, t) /\ Queue!Accept(t)
Refused(j) == \E t \in Ticket : NextTicket(j, t) /\ Queue!Refuse(t)

----------------------------------------------------------------------------
(* POST /scrape/...: the request and the task it starts *)

Create(w, j) ==
    /\ up[w] = "up"
    /\ first[j].at = "none"
    /\ first' = [first EXCEPT ![j] = [on |-> w, at |-> "insert"]]
    /\ UNCHANGED <<up, boot, s3, pg, manual, retry, entry, orphans, ended, faults>>

\* The row is inserted and the task started; if the insert raises, neither.
Insert(j) ==
    /\ first[j].at = "insert"
    /\ \/ /\ \/ pg' = [pg EXCEPT ![j].status = "queued"] /\ UNCHANGED faults
             \/ Happens("lost write") /\ UNCHANGED pg
          /\ first' = [first EXCEPT ![j].at = "scrape"]
       \/ /\ Happens("raising write")
          /\ first' = [first EXCEPT ![j].at = "end"]
          /\ UNCHANGED pg
    /\ UNCHANGED <<up, boot, s3, manual, retry, entry, orphans, ended>>

\* The progress callback.
Progress(j) ==
    /\ first[j].at = "scrape"
    /\ Update(j, "running")
    /\ UNCHANGED <<up, boot, s3, first, manual, retry, entry, orphans, ended>>

Finds(j) ==
    /\ first[j].at = "scrape"
    /\ first' = [first EXCEPT ![j].at = "done"]
    /\ ended' = [ended EXCEPT ![j] = "found"]
    /\ UNCHANGED <<up, boot, s3, pg, manual, retry, entry, orphans, faults>>

\* A fatal error or a timeout: failed.
FailsForGood(j) ==
    /\ first' = [first EXCEPT ![j].at = "failed"]
    /\ UNCHANGED entry

PendingUnqueued(j) ==
    /\ UNCHANGED entry
    /\ first' = [first EXCEPT ![j].at = "retry_pending"]

\* A transient error: retry_pending, if the queue accepts the job.
QueuedRetry(j) ==
    /\ Enqueue(j)
    /\ first' = [first EXCEPT ![j].at = "retry_pending"]

Fails(j) ==
    /\ first[j].at = "scrape"
    /\ FailsForGood(j) \/ QueuedRetry(j)
    /\ ended' = [ended EXCEPT ![j] = "failed"]
    /\ UNCHANGED <<up, boot, s3, pg, manual, retry, orphans, faults>>

WriteFirstUnlessFatal(j) ==
    /\ first[j].at \in {"done", "failed", "retry_pending"}
    /\ IF first[j].at = "failed" THEN UNCHANGED <<pg, faults>> ELSE Update(j, first[j].at)
    /\ first' = [first EXCEPT ![j].at = "end"]
    /\ UNCHANGED <<up, boot, s3, manual, retry, entry, orphans, ended>>

\* The row follows.
WriteFirst(j) ==
    /\ first[j].at \in {"done", "failed", "retry_pending"}
    /\ Update(j, first[j].at)
    /\ first' = [first EXCEPT ![j].at = "end"]
    /\ UNCHANGED <<up, boot, s3, manual, retry, entry, orphans, ended>>

\* When the write of done (for cash_buyers also that of a timeout) raises, the
\* error is handled like one of the scraper; the others end the task.
WriteFirstRaises(j) ==
    /\ Happens("raising write")
    /\ \/ /\ first[j].at = "done" \/ (first[j].at = "failed" /\ j \in CashBuyers)
          /\ FailsForGood(j) \/ QueuedRetry(j)
       \/ /\ first[j].at \in {"failed", "retry_pending"}
          /\ first' = [first EXCEPT ![j].at = "end"]
          /\ UNCHANGED entry
    /\ UNCHANGED <<up, boot, s3, pg, manual, retry, orphans, ended>>

----------------------------------------------------------------------------
(* A retry: _run_cash_buyers or _run_distressed, awaited by the drain loop *)

JobAt(w) == JobOf(retry[w].ticket)
At(w, s) == retry[w].at = s
Goto(w, s) == retry' = [retry EXCEPT ![w].at = s]

\* The backoff of a retry (60 s or more) is longer than the one write of the
\* row that the task or request asking for it has yet to make.
BackoffOver(j) == first[j].at # "retry_pending" /\ \A w \in Worker : manual[w] # j

RetryStart(w, t) ==
    /\ up[w] \in {"boot", "up"}
    /\ At(w, "idle")
    /\ BackoffOver(JobOf(t))
    /\ Queue!Start(t)
    /\ retry' = [retry EXCEPT ![w] = [ticket |-> t, at |-> "begin"]]
    /\ UNCHANGED <<up, boot, s3, pg, first, manual, orphans, ended, faults>>

RetryBegin(w) ==
    /\ At(w, "begin")
    /\ Update(JobAt(w), "running")
    /\ Goto(w, "save")
    /\ UNCHANGED <<up, boot, s3, first, manual, entry, orphans, ended>>

\* The checkpoint is written to S3; an error of S3 is swallowed, here and below.
SaveCheckpoint(w) ==
    /\ At(w, "save")
    /\ \/ s3' = s3 \cup ({JobAt(w)} \cap CashBuyers) /\ UNCHANGED faults
       \/ JobAt(w) \in CashBuyers /\ Happens("s3") /\ UNCHANGED s3
    /\ Goto(w, "scrape")
    /\ UNCHANGED <<up, boot, pg, first, manual, entry, orphans, ended>>

RetryProgress(w) ==
    /\ At(w, "scrape")
    /\ Update(JobAt(w), "running")
    /\ UNCHANGED <<up, boot, s3, first, manual, retry, entry, orphans, ended>>

RetryFinds(w) ==
    /\ At(w, "scrape")
    /\ Goto(w, "done")
    /\ ended' = [ended EXCEPT ![JobAt(w)] = "found"]
    /\ UNCHANGED <<up, boot, s3, pg, first, manual, entry, orphans, faults>>

\* Any error, also a timeout or a missing lead, and the runner goes on to return.
RetryFails(w) ==
    /\ retry[w].at \in {"begin", "scrape"}
    /\ Goto(w, "failed")
    /\ ended' = [ended EXCEPT ![JobAt(w)] = "failed"]
    /\ UNCHANGED <<up, boot, s3, pg, first, manual, entry, orphans, faults>>

RetryWrite(w) ==
    /\ retry[w].at \in Settled
    /\ Update(JobAt(w), retry[w].at)
    /\ Goto(w, "written")
    /\ UNCHANGED <<up, boot, s3, first, manual, entry, orphans, ended>>

\* The write of done raises: the runner handles it as a failure.  The write of
\* failed raises: so does the runner.  Both writes of _on_retry_success raise:
\* the loop takes that for a failed run.
RetryWriteRaises(w) ==
    /\ Happens("raising write")
    /\ \/ At(w, "done") /\ Goto(w, "failed")
       \/ retry[w].at \in {"failed", "returned"} /\ Goto(w, "raised")
    /\ UNCHANGED <<up, boot, s3, pg, first, manual, entry, orphans, ended>>

SuccessKeepsCheckpoint(w) ==
    /\ At(w, "written")
    /\ s3' = IF pg[JobAt(w)].status = "done" THEN s3 ELSE s3 \ {JobAt(w)}
    /\ Goto(w, "returned")
    /\ UNCHANGED <<up, boot, pg, first, manual, entry, orphans, ended, faults>>

DeleteCheckpoint(w) ==
    /\ At(w, "written")
    /\ \/ s3' = s3 \ {JobAt(w)} /\ UNCHANGED faults
       \/ JobAt(w) \in CashBuyers /\ Happens("s3") /\ UNCHANGED s3
    /\ Goto(w, "returned")
    /\ UNCHANGED <<up, boot, pg, first, manual, entry, orphans, ended>>

SuccessKeepsTicket(w) ==
    /\ At(w, "returned")
    /\ Update(JobAt(w), "done")
    /\ Queue!Succeed(retry[w].ticket)
    /\ Goto(w, "idle")
    /\ UNCHANGED <<up, boot, s3, first, manual, orphans, ended>>

\* _on_retry_success with what the runner returned, {"count": n}; when its
\* write raises it records a failure instead.
OnRetrySuccess(w) ==
    /\ At(w, "returned")
    /\ \/ Update(JobAt(w), "done")
       \/ Happens("raising write") /\ pg' = Written(JobAt(w), "failed")
    /\ Queue!Succeed(retry[w].ticket)
    /\ retry' = [retry EXCEPT ![w] = NoRun]
    /\ UNCHANGED <<up, boot, s3, first, manual, orphans, ended>>

\* The runner raised: the next attempt is queued, or _on_retry_exhausted called.
RetryAgain(w) ==
    /\ At(w, "raised")
    /\ Queue!Again(retry[w].ticket)
    /\ retry' = [retry EXCEPT ![w] = NoRun]
    /\ UNCHANGED <<up, boot, s3, pg, first, manual, orphans, ended, faults>>

\* When its write raises it writes once more, which may raise too.
OnRetryExhausted(w) ==
    /\ At(w, "raised")
    /\ Queue!Exhaust(retry[w].ticket)
    /\ \/ Update(JobAt(w), "failed")
       \/ Happens("raising write") /\ pg' \in {pg, Written(JobAt(w), "failed")}
    /\ retry' = [retry EXCEPT ![w] = NoRun]
    /\ UNCHANGED <<up, boot, s3, first, manual, orphans, ended>>

----------------------------------------------------------------------------
(* POST /jobs/{id}/retry *)

ManualUnqueued(w, j) ==
    /\ up[w] = "up"
    /\ manual[w] = NoJob
    /\ first[j].at \notin {"none", "insert"}
    /\ manual' = [manual EXCEPT ![w] = j]
    /\ UNCHANGED <<up, boot, s3, pg, first, retry, entry, orphans, ended, faults>>

\* Whatever the status; what enqueue returns is not looked at.
ManualRetry(w, j) ==
    /\ up[w] = "up"
    /\ manual[w] = NoJob
    /\ first[j].at \notin {"none", "insert"}
    /\ Enqueue(j) \/ Refused(j)
    /\ manual' = [manual EXCEPT ![w] = j]
    /\ UNCHANGED <<up, boot, s3, pg, first, retry, orphans, ended, faults>>

WriteManual(w) ==
    /\ manual[w] # NoJob
    /\ Update(manual[w], "retry_pending")
    /\ manual' = [manual EXCEPT ![w] = NoJob]
    /\ UNCHANGED <<up, boot, s3, first, retry, entry, orphans, ended>>

----------------------------------------------------------------------------
(* Containers *)

Unfinished(j) == pg[j].status \in {"running", "queued"}
NoneOrphaned(j) == FALSE

Orphaned(j) == Unfinished(j) /\ ~pg[j].completed

\* lifespan: recover_interrupted_jobs takes every such row, whoever runs it,
\* and recover_checkpoints lists the checkpoints.
StartWorker(w) ==
    /\ up[w] = "new"
    /\ up' = [up EXCEPT ![w] = "boot"]
    /\ pg' = [j \in Job |-> IF Orphaned(j) THEN [pg[j] EXCEPT !.status = "interrupted"] ELSE pg[j]]
    /\ boot' = boot \cup {<<w, j, "listed">> : j \in s3}
    /\ orphans' = FALSE
    /\ UNCHANGED <<s3, first, manual, retry, entry, ended, faults>>

Requeue(w, j) ==
    /\ <<w, j, "listed">> \in boot
    /\ j \in s3
    /\ Enqueue(j)
    /\ boot' = (boot \ {<<w, j, "listed">>}) \cup {<<w, j, "queued">>}
    /\ UNCHANGED <<up, s3, pg, first, manual, retry, orphans, ended, faults>>

Requeued(w, j) ==
    /\ <<w, j, "queued">> \in boot
    /\ boot' = boot \ {<<w, j, "queued">>}
    /\ \/ s3' = s3 \ {j} /\ UNCHANGED faults
       \/ Happens("s3") /\ UNCHANGED s3
    /\ UNCHANGED <<up, pg, first, manual, retry, entry, orphans, ended>>

\* Whatever could not be read or queued is left for the next start.
Serve(w) ==
    /\ up[w] = "boot"
    /\ ~ \E j \in Job : <<w, j, "queued">> \in boot
    /\ up' = [up EXCEPT ![w] = "up"]
    /\ boot' = {b \in boot : b[1] # w}
    /\ UNCHANGED <<s3, pg, first, manual, retry, entry, orphans, ended, faults>>

\* Checkpoints that flush_all_checkpoints writes once more before the end: that
\* of the run, from its save to its deletion, and what runs that raised have left.
Saved == {"save", "scrape", "written", "raised"} \cup Settled
Flushed(w) ==
    {j \in CashBuyers : \/ retry[w].at \in Saved /\ JobAt(w) = j
                        \/ "raising write" \in faults /\ ended[j] = "failed"}

\* The container dies, with or without a SIGTERM before, with its memory and
\* its tasks.  The run of its drain loop is dropped, and so may be any retry
\* that waits.
Crash(w) ==
    /\ up[w] \in {"boot", "up"}
    /\ Happens("crash")
    /\ up' = [up EXCEPT ![w] = "gone"]
    /\ boot' = {b \in boot : b[1] # w}
    /\ first' = [j \in Job |-> IF first[j].on = w THEN [first[j] EXCEPT !.at = "end"] ELSE first[j]]
    /\ manual' = [manual EXCEPT ![w] = NoJob]
    /\ retry' = [retry EXCEPT ![w] = NoRun]
    /\ LET run == {retry[w].ticket} \cap Ticket
       IN  \E S \in SUBSET {t \in Ticket : entry[t].phase = "waiting"} :
              IF S \cup run = {} THEN UNCHANGED entry ELSE Queue!Drop(S \cup run)
    /\ s3' \in {s3, s3 \cup Flushed(w)}
    /\ orphans' = TRUE
    /\ UNCHANGED <<pg, ended>>

Task(j) == Insert(j) \/ Finds(j) \/ Fails(j) \/ WriteFirst(j)

Run(w) ==
    \/ RetryBegin(w) \/ SaveCheckpoint(w) \/ RetryFinds(w) \/ RetryFails(w)
    \/ RetryWrite(w) \/ DeleteCheckpoint(w) \/ OnRetrySuccess(w)
    \/ RetryAgain(w) \/ OnRetryExhausted(w)

Next ==
    \/ \E w \in Worker : \/ Run(w) \/ StartWorker(w) \/ Serve(w) \/ Crash(w)
                         \/ RetryProgress(w) \/ RetryWriteRaises(w) \/ WriteManual(w)
                         \/ \E t \in Ticket : RetryStart(w, t)
                         \/ \E j \in Job : \/ Create(w, j) \/ ManualRetry(w, j)
                                           \/ Requeue(w, j) \/ Requeued(w, j)
    \/ \E j \in Job : Task(j) \/ Progress(j) \/ WriteFirstRaises(j)

Spec == Init /\ [][Next]_vars

\* The event loop runs the tasks; a drain loop takes the next due retry.
Fairness ==
    /\ \A j \in Job : WF_vars(Task(j))
    /\ \A w \in Worker :
          /\ WF_vars(Run(w)) /\ WF_vars(WriteManual(w))
          /\ WF_vars(Serve(w))
          /\ WF_vars(\E t \in Ticket : RetryStart(w, t))

FairSpec == Spec /\ Fairness

----------------------------------------------------------------------------
(* Properties *)

\* Every copy of a job, every task and every run has one of its shapes.
TypeOK ==
    /\ up \in [Worker -> {"new", "boot", "up", "gone"}]
    /\ boot \subseteq Worker \X Job \X {"listed", "queued"}
    /\ s3 \subseteq CashBuyers
    /\ pg \in [Job -> Row]
    /\ \A j \in Job : first[j] \in
          [ on : Worker \cup {"none"},
            at : {"none", "insert", "scrape", "retry_pending", "end"} \cup Settled ]
    /\ manual \in [Worker -> Job \cup {NoJob}]
    /\ \A w \in Worker : retry[w] = NoRun \/ retry[w] \in
          [ ticket : Ticket,
            at : {"begin", "save", "scrape", "written", "returned", "raised"} \cup Settled ]
    /\ entry \in [Ticket -> Queue!Entry]
    /\ orphans \in BOOLEAN
    /\ ended \in [Job -> {"none", "found", "failed"}]
    /\ faults \subseteq Fault

WritesWork == faults \subseteq {"crash", "s3"}

Tickets(j) == {t \in Ticket : JobOf(t) = j}

\* retry_pending is a promise: as long as every write of the row works, a row
\* that says so has a retry on the queue, or the queue refused or lost one.
RetryPendingIsQueued ==
    \A j \in Job : WritesWork /\ pg[j].status = "retry_pending" =>
        \E t \in Tickets(j) : entry[t].phase \in {"waiting", "running", "refused", "dropped"}

Working(j) ==
    \/ first[j].at \notin {"none", "end"}
    \/ \E w \in Worker : ~At(w, "idle") /\ JobAt(w) = j

\* Once a container has started after the last crash, a row that was never
\* completed says queued or running only while some task works on the job: the
\* dashboard does not show a job as running for ever.  (A completed row that a
\* manual retry set running again is not recovered.)
NoOrphanRunning ==
    \A j \in Job :
        WritesWork /\ ~orphans /\ Unfinished(j) /\ ~pg[j].completed => Working(j)

\* delete_checkpoint keeps a job that ended from being queued again by the next
\* container: without crashes and failing writes to S3 or Postgres, a job has a checkpoint only
\* while one of its retries is being run.
FinishedNotRequeued ==
    \A j \in s3 : faults = {} => \E w \in Worker : ~At(w, "idle") /\ JobAt(w) = j

\* A row that says done or failed leaves that state only on behalf of a task
\* that still runs the job or of a retry someone asked for: no late progress
\* report, recovery or write of a task that has ended reopens it.
SettledStays ==
    [][\A j \in Job : pg[j].status \in Settled /\ pg'[j].status \notin Settled =>
            \/ Working(j)
            \/ \E t \in Tickets(j) : entry[t].phase \in {"waiting", "refused", "dropped"}]_vars

\* A job whose scraping has begun is settled in Postgres, or marked
\* interrupted, unless a write of the row failed or a container died: each run
\* ends, and no retry waits for ever.
JobsSettle ==
    \A j \in Job :
        first[j].at = "scrape" ~>
            \/ pg[j].status \in Settled \cup {"interrupted"}
            \/ faults # {}

\* What POST /jobs/{id}/retry answers, "Job re-queued - will execute within 30
\* seconds": behind a row that says retry_pending there is a retry to come.
RetryIsComing ==
    \A j \in Job : pg[j].status = "retry_pending" =>
        \E t \in Tickets(j) : entry[t].phase \in {"waiting", "running"}

\* recover_checkpoints is to "re-queue any checkpoint left by a previous Spot
\* task": what it queues is no job that a retry is still working on.
OnlyLeftOversRequeued ==
    [][\A w, v \in Worker, j \in Job :
            <<w, j, "queued">> \in boot' \ boot => At(v, "idle") \/ JobAt(v) # j]_vars

\* delete_checkpoint: "so it isn't accidentally re-queued on the next container
\* start": where no container died, no job that is done, and that nothing works
\* on, is queued again.
DoneNotRequeued ==
    [][\A w \in Worker, j \in Job :
            "crash" \notin faults /\ <<w, j, "queued">> \in boot' \ boot =>
                pg[j].status # "done" \/ Working(j)]_vars

\* _on_retry_success is "called by the retry queue when a retry succeeds": a
\* row that no task is about to write says done only if the last run of the
\* job ended with a result.
FailedIsNotDone ==
    \A j \in Job : pg[j].status = "done" /\ ~Working(j) => ended[j] = "found"

=============================================================================

-------------------------- MODULE ScraperJobsProofs ---------------------------
(* What holds of the scrape jobs of the scraper engine for any number of     *)
(* jobs, containers, retries and faults. Whoever is about to write           *)
(* retry_pending has a retry waiting, and the write that ends a retry        *)
(* replaces the promise: each step either leaves a row alone, is of a task   *)
(* that works on the job, or keeps that promise.                             *)
EXTENDS ScraperJobs, TLAPS

\* The row, tasks and runs of the scrape jobs: TypeOK with domains.
Status == {"none", "queued", "running", "retry_pending", "interrupted"} \cup Settled
TaskRecord ==
    [ on : Worker \cup {"none"},
      at : {"none", "insert", "scrape", "retry_pending", "end"} \cup Settled ]
RunRecord ==
    [ ticket : Ticket,
      at : {"begin", "save", "scrape", "written", "returned", "raised"} \cup Settled ]

JobsTypes ==
    /\ up \in [Worker -> {"new", "boot", "up", "gone"}]
    /\ boot \subseteq Worker \X Job \X {"listed", "queued"}
    /\ s3 \subseteq CashBuyers
    /\ pg \in [Job -> Row]
    /\ first \in [Job -> TaskRecord]
    /\ manual \in [Worker -> Job \cup {NoJob}]
    /\ retry \in [Worker -> {NoRun} \cup RunRecord]
    /\ entry \in [Ticket -> Queue!Entry]
    /\ orphans \in BOOLEAN
    /\ ended \in [Job -> {"none", "found", "failed"}]
    /\ faults \subseteq Fault

(* A run that is not idle is the run of a ticket, hence of a job.            *)
LEMMA Awaited ==
    ASSUME JobsTypes, NEW w \in Worker, retry[w].at # "idle"
    PROVE  /\ retry[w] \in RunRecord /\ retry[w].ticket \in Ticket /\ JobAt(w) \in Job
           /\ retry[w].ticket \in Tickets(JobAt(w))
  <1>1. retry[w] \in {NoRun} \cup RunRecord
    BY DEF JobsTypes
  <1>2. retry[w] \in RunRecord
    BY <1>1 DEF NoRun
  <1>3. retry[w].ticket \in Job \X (1..MaxRetries)
    BY <1>2 DEF RunRecord, Ticket
  <1>4. retry[w].ticket[1] \in Job
    BY <1>3
  <1> QED
    BY <1>2, <1>3, <1>4 DEF JobAt, JobOf, Tickets, Ticket

(* What a write of the row does to each job's row.                           *)
LEMMA WrittenRows ==
    ASSUME pg \in [Job -> Row], NEW j \in Job, NEW st \in Status
    PROVE  /\ Written(j, st) \in [Job -> Row]
           /\ \A i \in Job \ {j} : Written(j, st)[i] = pg[i]
           /\ Written(j, st)[j].status = IF pg[j].status = "none" THEN "none" ELSE st
  <1>1. pg[j] \in Row
    OBVIOUS
  <1> QED
    BY <1>1 DEF Written, Row, Status, Completes

(* A write is made, or a fault tells that it was not.                        *)
LEMMA UpdatedRows ==
    ASSUME JobsTypes, NEW j \in Job, NEW st \in Status, Update(j, st)
    PROVE  /\ pg' \in [Job -> Row] /\ faults' \subseteq Fault /\ faults \subseteq faults'
           /\ \A i \in Job \ {j} : pg'[i] = pg[i]
           /\ WritesWork' => pg'[j].status = (IF pg[j].status = "none" THEN "none" ELSE st)
           /\ pg'[j].status \in {"none", st, pg[j].status}
  <1>1. CASE pg' = Written(j, st) /\ UNCHANGED faults
    BY <1>1, WrittenRows DEF JobsTypes
  <1>2. CASE Happens("lost write") /\ UNCHANGED pg
    BY <1>2 DEF JobsTypes, Happens, Fault, WritesWork
  <1> QED
    BY <1>1, <1>2 DEF Update

(* The queue keeps its entries' shape, and what becomes of each phase.       *)
LEMMA QueueSteps ==
    ASSUME entry \in [Ticket -> Queue!Entry], NEW t \in Ticket
    PROVE  /\ Queue!Accept(t) => /\ entry' \in [Ticket -> Queue!Entry] /\ entry[t].phase = "none"
                                 /\ entry'[t].phase = "waiting" /\ \A u \in Ticket \ {t} : entry'[u] = entry[u]
           /\ Queue!Refuse(t) => /\ entry' \in [Ticket -> Queue!Entry] /\ entry[t].phase = "none"
                                 /\ entry'[t].phase = "refused" /\ \A u \in Ticket \ {t} : entry'[u] = entry[u]
           /\ Queue!Start(t) => /\ entry' \in [Ticket -> Queue!Entry] /\ entry[t].phase = "waiting"
                                /\ entry'[t].phase = "running" /\ \A u \in Ticket \ {t} : entry'[u] = entry[u]
           /\ Queue!Succeed(t) => /\ entry' \in [Ticket -> Queue!Entry] /\ entry[t].phase = "running"
                                  /\ \A u \in Ticket \ {t} : entry'[u] = entry[u]
           /\ Queue!Again(t) => /\ entry' \in [Ticket -> Queue!Entry] /\ entry[t].phase = "running"
                                /\ entry'[t].phase = "waiting" /\ \A u \in Ticket \ {t} : entry'[u] = entry[u]
           /\ Queue!Exhaust(t) => /\ entry' \in [Ticket -> Queue!Entry] /\ entry[t].phase = "running"
                                  /\ \A u \in Ticket \ {t} : entry'[u] = entry[u]
  <1> DEFINE E == [phase : Queue!Phase, attempt : 0..(MaxAttempts - 1)]
  <1>1. entry \in [Ticket -> E] /\ Queue!Entry = E /\ MaxAttempts \in Nat \ {0}
    BY JobsAssumption DEF Queue!Entry
  <1>2. \A ph \in Queue!Phase : Queue!In(ph) \in E /\ Queue!In(ph).phase = ph
    BY <1>1 DEF Queue!In
  <1>3. Queue!Accept(t) => /\ entry' \in [Ticket -> E] /\ entry[t].phase = "none"
                           /\ entry'[t].phase = "waiting" /\ \A u \in Ticket \ {t} : entry'[u] = entry[u]
    BY <1>1, <1>2 DEF Queue!Accept, Queue!Phase
  <1>4. Queue!Refuse(t) => /\ entry' \in [Ticket -> E] /\ entry[t].phase = "none"
                           /\ entry'[t].phase = "refused" /\ \A u \in Ticket \ {t} : entry'[u] = entry[u]
    BY <1>1, <1>2 DEF Queue!Refuse, Queue!Phase
  <1>5. Queue!Start(t) => /\ entry' \in [Ticket -> E] /\ entry[t].phase = "waiting"
                          /\ entry'[t].phase = "running" /\ \A u \in Ticket \ {t} : entry'[u] = entry[u]
    BY <1>1 DEF Queue!Start, Queue!Phase
  <1>6. Queue!Succeed(t) => /\ entry' \in [Ticket -> E] /\ entry[t].phase = "running"
                            /\ \A u \in Ticket \ {t} : entry'[u] = entry[u]
    BY <1>1, <1>2 DEF Queue!Succeed, Queue!Phase
  <1>7. Queue!Again(t) => /\ entry' \in [Ticket -> E] /\ entry[t].phase = "running"
                          /\ entry'[t].phase = "waiting" /\ \A u \in Ticket \ {t} : entry'[u] = entry[u]
    BY <1>1 DEF Queue!Again, Queue!Phase
  <1>8. Queue!Exhaust(t) => /\ entry' \in [Ticket -> E] /\ entry[t].phase = "running"
                            /\ \A u \in Ticket \ {t} : entry'[u] = entry[u]
    BY <1>1, <1>2 DEF Queue!Exhaust, Queue!Phase
  <1> HIDE DEF E
  <1> QED
    BY <1>1, <1>3, <1>4, <1>5, <1>6, <1>7, <1>8

(* enqueue takes the job's next ticket.                                      *)
LEMMA Enqueued ==
    ASSUME entry \in [Ticket -> Queue!Entry], NEW j \in Job, Enqueue(j) \/ Refused(j)
    PROVE  /\ entry' \in [Ticket -> Queue!Entry]
           /\ \E t \in Tickets(j) : /\ entry[t].phase = "none"
                                    /\ entry'[t].phase = IF Enqueue(j) THEN "waiting" ELSE "refused"
                                    /\ \A u \in Ticket \ {t} : entry'[u] = entry[u]
  <1>1. CASE Enqueue(j)
    <2>1. PICK t \in Ticket : JobOf(t) = j /\ Queue!Accept(t)
      BY <1>1 DEF Enqueue, NextTicket
    <2> QED
      BY <1>1, <2>1, QueueSteps DEF Tickets
  <1>2. CASE ~Enqueue(j) /\ Refused(j)
    <2>1. PICK t \in Ticket : JobOf(t) = j /\ Queue!Refuse(t)
      BY <1>2 DEF Refused, NextTicket
    <2> QED
      BY <1>2, <2>1, QueueSteps DEF Tickets
  <1> QED
    BY <1>1, <1>2

(* A crash drops the container's run and some of the retries that wait.      *)
LEMMA Dropped ==
    ASSUME JobsTypes, NEW w \in Worker, Crash(w)
    PROVE  /\ entry' \in [Ticket -> Queue!Entry]
           /\ \A t \in Ticket : entry'[t] = entry[t] \/ entry'[t].phase = "dropped"
  <1>1. PICK S \in SUBSET Ticket : entry' = entry \/ Queue!Drop(S)
    <2> DEFINE run == {retry[w].ticket} \cap Ticket
    <2>1. PICK S \in SUBSET {t \in Ticket : entry[t].phase = "waiting"} :
               IF S \cup run = {} THEN UNCHANGED entry ELSE Queue!Drop(S \cup run)
      BY DEF Crash
    <2>2. S \cup run \in SUBSET Ticket
      OBVIOUS
    <2> HIDE DEF run
    <2> QED
      BY <2>1, <2>2
  <1>2. Queue!In("dropped") \in Queue!Entry /\ Queue!In("dropped").phase = "dropped"
    BY JobsAssumption DEF Queue!In, Queue!Entry, Queue!Phase
  <1>3. CASE Queue!Drop(S)
    BY <1>2, <1>3 DEF Queue!Drop, JobsTypes
  <1> QED
    BY <1>1, <1>3 DEF JobsTypes

LEMMA JobsTyped0 == Init => JobsTypes
  <1> SUFFICES ASSUME Init PROVE JobsTypes
    OBVIOUS
  <1>1. entry \in [Ticket -> Queue!Entry]
    BY JobsAssumption DEF Init, Queue!Init, Queue!In, Queue!Entry, Queue!Phase
  <1>2. pg \in [Job -> Row] /\ first \in [Job -> TaskRecord]
    BY DEF Init, Row, TaskRecord
  <1> QED
    BY <1>1, <1>2 DEF Init, JobsTypes

(* The task of a request.                                                    *)
LEMMA TaskTyped ==
    ASSUME JobsTypes, NEW j \in Job, Task(j) \/ Progress(j) \/ WriteFirstRaises(j)
    PROVE  JobsTypes'
  <1>1. first[j] \in TaskRecord
    BY DEF JobsTypes
  <1>2. UNCHANGED <<up, boot, s3, manual, retry, orphans>>
    BY DEF Task, Insert, Finds, Fails, WriteFirst, Progress, WriteFirstRaises
  <1>3. first' \in [Job -> TaskRecord]
    <2>1. \/ first' = first
          \/ \E s \in {"scrape", "end", "done", "failed", "retry_pending"} : first' = [first EXCEPT ![j].at = s]
      BY DEF Task, Insert, Finds, Fails, WriteFirst, Progress, WriteFirstRaises, FailsForGood, QueuedRetry
    <2>2. ASSUME NEW s \in {"scrape", "end", "done", "failed", "retry_pending"}, first' = [first EXCEPT ![j].at = s]
          PROVE  first' \in [Job -> TaskRecord]
      <3>1. [first[j] EXCEPT !.at = s] \in TaskRecord
        BY <1>1 DEF TaskRecord, Settled
      <3> QED
        BY <2>2, <3>1 DEF JobsTypes
    <2> QED
      BY <2>1, <2>2 DEF JobsTypes
  <1>4. ended' \in [Job -> {"none", "found", "failed"}]
    BY DEF JobsTypes, Task, Insert, Finds, Fails, WriteFirst, Progress, WriteFirstRaises
  <1>5. entry' \in [Ticket -> Queue!Entry]
    <2>1. entry' = entry \/ Enqueue(j)
      BY DEF Task, Insert, Finds, Fails, WriteFirst, Progress, WriteFirstRaises, FailsForGood, QueuedRetry
    <2> QED
      BY <2>1, Enqueued DEF JobsTypes
  <1>6. pg' \in [Job -> Row] /\ faults' \subseteq Fault
    <2>1. CASE UNCHANGED pg /\ (UNCHANGED faults \/ Happens("raising write") \/ Happens("lost write"))
      BY <2>1 DEF JobsTypes, Happens, Fault
    <2>2. CASE pg' = [pg EXCEPT ![j].status = "queued"] /\ UNCHANGED faults
      BY <2>2 DEF JobsTypes, Row
    <2>3. CASE \E st \in Status : Update(j, st)
      BY <2>3, UpdatedRows
    <2>4. "running" \in Status /\ (WriteFirst(j) => first[j].at \in Status)
      BY DEF Status, Settled, WriteFirst
    <2> QED
      BY <2>1, <2>2, <2>3, <2>4 DEF Task, Insert, Finds, Fails, WriteFirst, Progress, WriteFirstRaises
  <1> QED
    BY <1>2, <1>3, <1>4, <1>5, <1>6 DEF JobsTypes

(* A retry's run.                                                            *)
LEMMA RunTyped ==
    ASSUME JobsTypes, NEW w \in Worker, Run(w) \/ RetryProgress(w) \/ RetryWriteRaises(w)
    PROVE  JobsTypes'
  <1>1. retry[w].at # "idle"
    BY DEF Run, RetryBegin, SaveCheckpoint, RetryFinds, RetryFails, RetryWrite, DeleteCheckpoint,
           OnRetrySuccess, RetryAgain, OnRetryExhausted, RetryProgress, RetryWriteRaises, At, Settled
  <1>2. retry[w] \in RunRecord /\ retry[w].ticket \in Ticket /\ JobAt(w) \in Job
    BY <1>1, Awaited
  <1>3. UNCHANGED <<up, boot, first, manual, orphans>>
    BY DEF Run, RetryBegin, SaveCheckpoint, RetryFinds, RetryFails, RetryWrite, DeleteCheckpoint,
           OnRetrySuccess, RetryAgain, OnRetryExhausted, RetryProgress, RetryWriteRaises
  <1>4. retry' \in [Worker -> {NoRun} \cup RunRecord]
    <2> DEFINE Places == {"save", "scrape", "done", "failed", "written", "returned", "raised"}
    <2>1. retry' = retry \/ retry' = [retry EXCEPT ![w] = NoRun] \/ \E s \in Places : Goto(w, s)
      BY DEF Run, RetryBegin, SaveCheckpoint, RetryFinds, RetryFails, RetryWrite, DeleteCheckpoint,
             OnRetrySuccess, RetryAgain, OnRetryExhausted, RetryProgress, RetryWriteRaises
    <2>2. ASSUME NEW s \in Places, Goto(w, s) PROVE retry' \in [Worker -> {NoRun} \cup RunRecord]
      <3>1. [retry[w] EXCEPT !.at = s] \in RunRecord
        BY <1>2 DEF RunRecord, Settled
      <3> QED
        BY <2>2, <3>1 DEF JobsTypes, Goto
    <2> QED
      BY <2>1, <2>2 DEF JobsTypes
  <1>5. s3' \subseteq CashBuyers
    BY DEF JobsTypes, Run, RetryBegin, SaveCheckpoint, RetryFinds, RetryFails, RetryWrite,
           DeleteCheckpoint, OnRetrySuccess, RetryAgain, OnRetryExhausted, RetryProgress, RetryWriteRaises
  <1>6. ended' \in [Job -> {"none", "found", "failed"}]
    BY <1>2 DEF JobsTypes, Run, RetryBegin, SaveCheckpoint, RetryFinds, RetryFails, RetryWrite,
           DeleteCheckpoint, OnRetrySuccess, RetryAgain, OnRetryExhausted, RetryProgress, RetryWriteRaises
  <1>7. entry' \in [Ticket -> Queue!Entry]
    <2>1. \/ entry' = entry
          \/ Queue!Succeed(retry[w].ticket) \/ Queue!Again(retry[w].ticket) \/ Queue!Exhaust(retry[w].ticket)
      BY DEF Run, RetryBegin, SaveCheckpoint, RetryFinds, RetryFails, RetryWrite, DeleteCheckpoint,
             OnRetrySuccess, RetryAgain, OnRetryExhausted, RetryProgress, RetryWriteRaises
    <2> QED
      BY <1>2, <2>1, QueueSteps DEF JobsTypes
  <1>8. pg' \in [Job -> Row] /\ faults' \subseteq Fault
    <2>1. CASE UNCHANGED pg /\ (UNCHANGED faults \/ Happens("raising write") \/ Happens("s3"))
      BY <2>1 DEF JobsTypes, Happens, Fault
    <2>2. CASE pg' = Written(JobAt(w), "failed") /\ Happens("raising write")
      BY <1>2, <2>2, WrittenRows DEF JobsTypes, Happens, Fault, Status, Settled
    <2>3. CASE \E st \in Status : Update(JobAt(w), st)
      BY <1>2, <2>3, UpdatedRows
    <2>4. {"running", "done", "failed"} \subseteq Status /\ (RetryWrite(w) => retry[w].at \in Status)
      BY DEF Status, Settled, RetryWrite
    <2> QED
      BY <2>1, <2>2, <2>3, <2>4
      DEF Run, RetryBegin, SaveCheckpoint, RetryFinds, RetryFails, RetryWrite, DeleteCheckpoint,
          OnRetrySuccess, RetryAgain, OnRetryExhausted, RetryProgress, RetryWriteRaises
  <1> QED
    BY <1>3, <1>4, <1>5, <1>6, <1>7, <1>8 DEF JobsTypes

(* Containers and manual retries.                                            *)
LEMMA ContainerTyped ==
    ASSUME JobsTypes, NEW w \in Worker,
           \/ StartWorker(w) \/ Serve(w) \/ Crash(w) \/ WriteManual(w)
           \/ \E t \in Ticket : RetryStart(w, t)
           \/ \E j \in Job : Create(w, j) \/ ManualRetry(w, j) \/ Requeue(w, j) \/ Requeued(w, j)
    PROVE  JobsTypes'
  <1>1. CASE StartWorker(w)
    <2>1. pg' \in [Job -> Row]
      <3>1. \A j \in Job : pg[j] \in Row /\ [pg[j] EXCEPT !.status = "interrupted"] \in Row
        BY DEF JobsTypes, Row
      <3> QED
        BY <1>1, <3>1 DEF StartWorker
    <2>2. s3 \subseteq Job
      BY JobsAssumption DEF JobsTypes
    <2>3. boot' \subseteq Worker \X Job \X {"listed", "queued"}
      BY <1>1, <2>2 DEF StartWorker, JobsTypes
    <2> QED
      BY <1>1, <2>1, <2>3 DEF StartWorker, JobsTypes
  <1>2. CASE Serve(w)
    BY <1>2 DEF Serve, JobsTypes
  <1>3. CASE Crash(w)
    <2>1. first' \in [Job -> TaskRecord]
      <3>1. \A j \in Job : first[j] \in TaskRecord /\ [first[j] EXCEPT !.at = "end"] \in TaskRecord
        BY DEF JobsTypes, TaskRecord
      <3> QED
        BY <1>3, <3>1 DEF Crash
    <2>2. Flushed(w) \subseteq CashBuyers
      BY DEF Flushed
    <2>3. entry' \in [Ticket -> Queue!Entry]
      BY <1>3, Dropped
    <2> QED
      BY <1>3, <2>1, <2>2, <2>3 DEF Crash, Happens, Fault, JobsTypes
  <1>4. CASE WriteManual(w)
    <2>1. manual[w] \in Job /\ "retry_pending" \in Status
      BY <1>4 DEF WriteManual, JobsTypes, Status
    <2> QED
      BY <1>4, <2>1, UpdatedRows DEF WriteManual, JobsTypes
  <1>5. ASSUME NEW t \in Ticket, RetryStart(w, t) PROVE JobsTypes'
    <2>1. [ticket |-> t, at |-> "begin"] \in RunRecord
      BY DEF RunRecord
    <2> QED
      BY <1>5, <2>1, QueueSteps DEF RetryStart, JobsTypes
  <1>6. ASSUME NEW j \in Job, Create(w, j) PROVE JobsTypes'
    BY <1>6 DEF Create, JobsTypes, TaskRecord
  <1>7. ASSUME NEW j \in Job, ManualRetry(w, j) PROVE JobsTypes'
    BY <1>7, Enqueued DEF ManualRetry, JobsTypes
  <1>8. ASSUME NEW j \in Job, Requeue(w, j) PROVE JobsTypes'
    BY <1>8, Enqueued DEF Requeue, JobsTypes
  <1>9. ASSUME NEW j \in Job, Requeued(w, j) PROVE JobsTypes'
    BY <1>9 DEF Requeued, JobsTypes, Happens, Fault
  <1> QED
    BY <1>1, <1>2, <1>3, <1>4, <1>5, <1>6, <1>7, <1>8, <1>9

LEMMA JobsTypesStep == JobsTypes /\ [Next]_vars => JobsTypes'
  <1>1. JobsTypes /\ UNCHANGED vars => JobsTypes'
    BY DEF vars, JobsTypes
  <1> QED
    BY <1>1, TaskTyped, RunTyped, ContainerTyped DEF Next

(* What has happened stays.                                                  *)
LEMMA FaultsKept == ASSUME [Next]_vars PROVE faults \subseteq faults'
  <1>1. faults' = faults \/ \E f \in Fault : Happens(f)
    BY DEF Next, Task, Insert, Finds, Fails, WriteFirst, Progress, WriteFirstRaises, Run, RetryBegin,
           SaveCheckpoint, RetryFinds, RetryFails, RetryWrite, DeleteCheckpoint, OnRetrySuccess, RetryAgain,
           OnRetryExhausted, RetryProgress, RetryWriteRaises, StartWorker, Serve, Crash, WriteManual, RetryStart,
           Create, ManualRetry, Requeue, Requeued, Update, Fault, vars
  <1> QED
    BY <1>1 DEF Happens

LEMMA FaultsGrow == ASSUME [Next]_vars PROVE WritesWork' => WritesWork
  BY FaultsKept DEF WritesWork

-----------------------------------------------------------------------------
(* What a step can do to an entry of the retry queue.                        *)
LEMMA EntryStep ==
    ASSUME JobsTypes, [Next]_vars, NEW t \in Ticket
    PROVE  \/ entry'[t] = entry[t]
           \/ entry[t].phase = "none" \/ entry'[t].phase = "dropped"
           \/ entry[t].phase = "waiting" /\ BackoffOver(JobOf(t)) /\ entry'[t].phase = "running"
           \/ entry[t].phase = "running" /\ entry'[t].phase = "waiting"
           \/ \E w \in Worker : /\ OnRetrySuccess(w) \/ OnRetryExhausted(w)
                                /\ ~At(w, "idle") /\ retry[w].ticket = t
  <1>a. entry \in [Ticket -> Queue!Entry]
    BY DEF JobsTypes
  <1>1. CASE UNCHANGED entry
    BY <1>1
  <1>2. ASSUME NEW j \in Job, Fails(j) \/ WriteFirstRaises(j), Enqueue(j) PROVE entry'[t] = entry[t] \/ entry[t].phase = "none"
    BY <1>2, <1>a, Enqueued DEF Tickets
  <1>3. ASSUME NEW w \in Worker, NEW j \in Job, ManualRetry(w, j) \/ Requeue(w, j)
        PROVE  entry'[t] = entry[t] \/ entry[t].phase = "none"
    <2>1. Enqueue(j) \/ Refused(j)
      BY <1>3 DEF ManualRetry, Requeue
    <2> QED
      BY <2>1, <1>a, Enqueued DEF Tickets
  <1>4. ASSUME NEW w \in Worker, NEW u \in Ticket, RetryStart(w, u)
        PROVE  entry'[t] = entry[t] \/ (entry[t].phase = "waiting" /\ BackoffOver(JobOf(t)) /\ entry'[t].phase = "running")
    BY <1>4, <1>a, QueueSteps DEF RetryStart
  <1>5. ASSUME NEW w \in Worker, OnRetrySuccess(w) \/ OnRetryExhausted(w)
        PROVE  entry'[t] = entry[t] \/ (~At(w, "idle") /\ retry[w].ticket = t)
    <2>1. retry[w].at # "idle"
      BY <1>5 DEF OnRetrySuccess, OnRetryExhausted, At
    <2>2. retry[w].ticket \in Ticket
      BY <2>1, Awaited
    <2>3. Queue!Succeed(retry[w].ticket) \/ Queue!Exhaust(retry[w].ticket)
      BY <1>5 DEF OnRetrySuccess, OnRetryExhausted
    <2> QED
      BY <2>1, <2>2, <2>3, <1>a, QueueSteps DEF At
  <1>6. ASSUME NEW w \in Worker, RetryAgain(w)
        PROVE  entry'[t] = entry[t] \/ (entry[t].phase = "running" /\ entry'[t].phase = "waiting")
    <2>1. retry[w].at # "idle" /\ Queue!Again(retry[w].ticket)
      BY <1>6 DEF RetryAgain, At
    <2>2. retry[w].ticket \in Ticket
      BY <2>1, Awaited
    <2> QED
      BY <2>1, <2>2, <1>a, QueueSteps
  <1>7. ASSUME NEW w \in Worker, Crash(w) PROVE entry'[t] = entry[t] \/ entry'[t].phase = "dropped"
    BY <1>7, Dropped
  <1>8. ASSUME NEW j \in Job, Task(j) \/ Progress(j) \/ WriteFirstRaises(j)
        PROVE  UNCHANGED entry \/ ((Fails(j) \/ WriteFirstRaises(j)) /\ Enqueue(j))
    BY <1>8 DEF Task, Insert, Finds, Fails, WriteFirst, Progress, WriteFirstRaises, FailsForGood, QueuedRetry
  <1>9. ASSUME NEW w \in Worker, Run(w) \/ RetryProgress(w) \/ RetryWriteRaises(w)
        PROVE  UNCHANGED entry \/ OnRetrySuccess(w) \/ OnRetryExhausted(w) \/ RetryAgain(w)
    BY <1>9 DEF Run, RetryBegin, SaveCheckpoint, RetryFinds, RetryFails, RetryWrite, DeleteCheckpoint,
                RetryProgress, RetryWriteRaises
  <1> QED
    BY <1>1, <1>2, <1>3, <1>4, <1>5, <1>6, <1>7, <1>8, <1>9
    DEF Next, StartWorker, Serve, WriteManual, Create, Requeued, vars

(* Who writes a job's row.                                                   *)
LEMMA RowStep ==
    ASSUME JobsTypes, [Next]_vars, NEW j \in Job
    PROVE  \/ pg'[j] = pg[j]
           \/ Working(j) /\ pg'[j].status # "retry_pending"
           \/ WriteFirst(j) /\ first[j].at = "retry_pending"
           \/ \E w \in Worker : WriteManual(w) /\ manual[w] = j
           \/ Orphaned(j) /\ pg'[j].status = "interrupted"
  <1>a. pg \in [Job -> Row]
    BY DEF JobsTypes
  <1>1. ASSUME NEW i \in Job, NEW st \in Status, Update(i, st)
        PROVE  pg'[j] = pg[j] \/ (i = j /\ pg'[j].status \in {"none", st})
    <2>1. CASE UNCHANGED pg
      BY <2>1
    <2>2. CASE pg' = Written(i, st)
      <3>1. /\ \A k \in Job \ {i} : Written(i, st)[k] = pg[k]
            /\ Written(i, st)[i].status = IF pg[i].status = "none" THEN "none" ELSE st
        BY <1>a, WrittenRows
      <3>2. CASE i = j
        BY <2>2, <3>1, <3>2
      <3>3. CASE i # j
        BY <2>2, <3>1, <3>3
      <3> QED
        BY <3>2, <3>3
    <2> QED
      BY <1>1, <2>1, <2>2 DEF Update
  <1>2. {"running", "done", "failed", "retry_pending"} \subseteq Status
    BY DEF Status, Settled
  <1>3. ASSUME NEW i \in Job, Task(i) \/ Progress(i) \/ WriteFirstRaises(i)
        PROVE  \/ pg'[j] = pg[j]
               \/ Working(j) /\ pg'[j].status # "retry_pending"
               \/ WriteFirst(j) /\ first[j].at = "retry_pending"
    <2>1. CASE UNCHANGED pg
      BY <2>1
    <2>2. CASE Insert(i) /\ ~UNCHANGED pg
      <3>1. first[i].at = "insert" /\ pg' = [pg EXCEPT ![i].status = "queued"]
        BY <2>2 DEF Insert
      <3> QED
        BY <3>1, <1>a DEF Working, Row
    <2>3. CASE Progress(i)
      <3>1. first[i].at = "scrape" /\ Update(i, "running")
        BY <2>3 DEF Progress
      <3> QED
        BY <3>1, <1>1, <1>2 DEF Working
    <2>4. CASE WriteFirst(i)
      <3>1. first[i].at \in {"done", "failed", "retry_pending"} /\ Update(i, first[i].at)
        BY <2>4 DEF WriteFirst
      <3>2. pg'[j] = pg[j] \/ (i = j /\ pg'[j].status \in {"none", first[i].at})
        BY <3>1, <1>1, <1>2
      <3> QED
        BY <2>4, <3>1, <3>2 DEF Working
    <2> QED
      BY <1>3, <2>1, <2>2, <2>3, <2>4 DEF Task, Finds, Fails, WriteFirstRaises
  <1>4. ASSUME NEW w \in Worker, Run(w) \/ RetryProgress(w) \/ RetryWriteRaises(w)
        PROVE  pg'[j] = pg[j] \/ (Working(j) /\ pg'[j].status # "retry_pending")
    <2>1. retry[w].at # "idle"
      BY <1>4 DEF Run, RetryBegin, SaveCheckpoint, RetryFinds, RetryFails, RetryWrite, DeleteCheckpoint,
             OnRetrySuccess, RetryAgain, OnRetryExhausted, RetryProgress, RetryWriteRaises, At, Settled
    <2>2. JobAt(w) \in Job
      BY <2>1, Awaited
    <2>3. \/ UNCHANGED pg
          \/ \E st \in {"running", "done", "failed"} : Update(JobAt(w), st)
          \/ pg' = Written(JobAt(w), "failed")
      BY <1>4 DEF Run, RetryBegin, SaveCheckpoint, RetryFinds, RetryFails, RetryWrite, DeleteCheckpoint,
             OnRetrySuccess, RetryAgain, OnRetryExhausted, RetryProgress, RetryWriteRaises, Settled
    <2>4. pg'[j] = pg[j] \/ (JobAt(w) = j /\ pg'[j].status # "retry_pending")
      BY <2>2, <2>3, <1>1, <1>2, <1>a, WrittenRows
    <2> QED
      BY <2>1, <2>4 DEF Working, At
  <1>5. ASSUME NEW w \in Worker, WriteManual(w) PROVE pg'[j] = pg[j] \/ manual[w] = j
    <2>1. manual[w] \in Job /\ Update(manual[w], "retry_pending")
      BY <1>5 DEF WriteManual, JobsTypes
    <2> QED
      BY <2>1, <1>1, <1>2
  <1>6. ASSUME NEW w \in Worker, StartWorker(w) PROVE pg'[j] = pg[j] \/ (Orphaned(j) /\ pg'[j].status = "interrupted")
    BY <1>6, <1>a DEF StartWorker, Row
  <1> QED
    BY <1>3, <1>4, <1>5, <1>6 DEF Next, Serve, Crash, RetryStart, Create, ManualRetry, Requeue, Requeued, vars

-----------------------------------------------------------------------------
\* A task about to write retry_pending, and a manual retry before its write, have
\* asked for a retry that has not begun: its backoff is longer than that write.
Waits(j) == \E t \in Tickets(j) : entry[t].phase \in {"waiting", "refused", "dropped"}

Pledged ==
    /\ \A j \in Job : first[j].at = "retry_pending" => Waits(j)
    /\ \A w \in Worker : manual[w] # NoJob => Waits(manual[w])

(* A retry waits on until nobody has that write to make.                     *)
LEMMA WaitsKept ==
    ASSUME JobsTypes, [Next]_vars, NEW j \in Job, Waits(j), ~BackoffOver(j)
    PROVE  Waits(j)'
  <1>1. PICK t \in Tickets(j) : entry[t].phase \in {"waiting", "refused", "dropped"}
    BY DEF Waits
  <1>2. t \in Ticket /\ JobOf(t) = j
    BY DEF Tickets
  <1>3. ASSUME NEW w \in Worker, OnRetrySuccess(w) \/ OnRetryExhausted(w), ~At(w, "idle"), retry[w].ticket = t
        PROVE  FALSE
    <2>1. Queue!Succeed(t) \/ Queue!Exhaust(t)
      BY <1>3 DEF OnRetrySuccess, OnRetryExhausted
    <2> QED
      BY <2>1, <1>1, <1>2, QueueSteps DEF JobsTypes
  <1>4. entry'[t].phase \in {"waiting", "refused", "dropped"}
    BY <1>1, <1>2, <1>3, EntryStep
  <1>5. t \in Tickets(j)'
    BY DEF Tickets
  <1> QED
    BY <1>4, <1>5 DEF Waits

(* Whoever asks makes the entry wait, or is refused.                         *)
LEMMA PledgedStep == JobsTypes /\ Pledged /\ [Next]_vars => Pledged'
  <1> SUFFICES ASSUME JobsTypes, Pledged, [Next]_vars PROVE Pledged'
    OBVIOUS
  <1>a. ASSUME NEW j \in Job, Enqueue(j) \/ Refused(j) PROVE Waits(j)'
    <2>1. PICK t \in Tickets(j) : entry'[t].phase \in {"waiting", "refused"}
      BY <1>a, Enqueued DEF JobsTypes
    <2> QED
      BY <2>1 DEF Waits, Tickets
  <1>1. ASSUME NEW j \in Job, first'[j].at = "retry_pending" PROVE Waits(j)'
    <2>1. CASE first[j].at = "retry_pending"
      BY <2>1, WaitsKept DEF Pledged, BackoffOver
    <2>2. CASE first[j].at # "retry_pending"
      <3>1. QueuedRetry(j)
        <4>1. first \in [Job -> TaskRecord] /\ first[j] \in TaskRecord /\ first'[j] # first[j]
          BY <1>1, <2>2 DEF JobsTypes
        <4>2. ASSUME NEW i \in Job, Task(i) \/ Progress(i) \/ WriteFirstRaises(i) PROVE QueuedRetry(j)
          <5>1. QueuedRetry(i) \/ first' = first
                \/ \E s \in {"scrape", "end", "done", "failed"} : first' = [first EXCEPT ![i].at = s]
            BY <4>2 DEF Task, Insert, Finds, Fails, WriteFirst, Progress, WriteFirstRaises, FailsForGood
          <5>2. QueuedRetry(i)
            BY <5>1, <4>1, <1>1 DEF TaskRecord
          <5> QED
            BY <5>2, <4>1 DEF QueuedRetry
        <4>3. ASSUME NEW w \in Worker, Crash(w) PROVE FALSE
          BY <4>1, <4>3, <1>1 DEF Crash, TaskRecord
        <4>4. ASSUME NEW w \in Worker, NEW i \in Job, Create(w, i) PROVE FALSE
          BY <4>1, <4>4, <1>1 DEF Create
        <4>5. ASSUME UNCHANGED first PROVE FALSE
          BY <4>1, <4>5
        <4> QED
          BY <4>2, <4>3, <4>4, <4>5
          DEF Next, Run, RetryBegin, SaveCheckpoint, RetryFinds, RetryFails, RetryWrite, DeleteCheckpoint,
              OnRetrySuccess, RetryAgain, OnRetryExhausted, RetryProgress, RetryWriteRaises, StartWorker,
              Serve, WriteManual, RetryStart, ManualRetry, Requeue, Requeued, vars
      <3> QED
        BY <3>1, <1>a DEF QueuedRetry
    <2> QED
      BY <2>1, <2>2
  <1>2. ASSUME NEW w \in Worker, NEW j \in Job, manual'[w] = j, j # NoJob PROVE Waits(j)'
    <2>1. CASE manual[w] = j
      <3>1. Waits(j) /\ ~BackoffOver(j)
        BY <1>2, <2>1 DEF Pledged, BackoffOver
      <3> QED
        BY <3>1, WaitsKept
    <2>2. CASE manual[w] # j
      <3>a. manual \in [Worker -> Job \cup {NoJob}]
        BY DEF JobsTypes
      <3>1. ASSUME NEW v \in Worker, NEW i \in Job, ManualRetry(v, i) PROVE ManualRetry(v, j)
        BY <3>1, <3>a, <1>2, <2>2 DEF ManualRetry
      <3>2. ASSUME NEW v \in Worker, WriteManual(v) \/ Crash(v) PROVE FALSE
        BY <3>2, <3>a, <1>2, <2>2 DEF WriteManual, Crash
      <3>3. ASSUME UNCHANGED manual PROVE FALSE
        BY <3>3, <1>2, <2>2
      <3>4. \E v \in Worker : ManualRetry(v, j)
        BY <3>1, <3>2, <3>3
        DEF Next, Task, Insert, Finds, Fails, WriteFirst, Progress, WriteFirstRaises, Run, RetryBegin,
            SaveCheckpoint, RetryFinds, RetryFails, RetryWrite, DeleteCheckpoint, OnRetrySuccess, RetryAgain,
            OnRetryExhausted, RetryProgress, RetryWriteRaises, StartWorker, Serve, RetryStart, Create,
            Requeue, Requeued, vars
      <3> QED
        BY <3>4, <1>a DEF ManualRetry
    <2> QED
      BY <2>1, <2>2
  <1>3. manual' \in [Worker -> Job \cup {NoJob}]
    BY JobsTypesStep DEF JobsTypes
  <1> QED
    BY <1>1, <1>2, <1>3 DEF Pledged, Waits, Tickets

(* A row keeps its promise while its retry is on the queue, and the write    *)
(* that ends the retry replaces it.                                          *)
LEMMA PendingStep ==
    JobsTypes /\ Pledged /\ RetryPendingIsQueued /\ [Next]_vars => RetryPendingIsQueued'
  <1> SUFFICES ASSUME JobsTypes, Pledged, RetryPendingIsQueued, [Next]_vars,
                      NEW j \in Job, WritesWork', pg'[j].status = "retry_pending"
               PROVE  \E t \in Tickets(j) : entry'[t].phase \in {"waiting", "running", "refused", "dropped"}
    BY DEF RetryPendingIsQueued, Tickets
  <1>1. CASE pg'[j] = pg[j]
    <2>1. PICK t \in Tickets(j) : entry[t].phase \in {"waiting", "running", "refused", "dropped"}
      BY <1>1, FaultsGrow DEF RetryPendingIsQueued
    <2>2. t \in Ticket /\ JobOf(t) = j
      BY <2>1 DEF Tickets
    <2>3. ASSUME NEW w \in Worker, OnRetrySuccess(w) \/ OnRetryExhausted(w), retry[w].ticket = t PROVE FALSE
      <3>1. "raising write" \notin faults'
        BY DEF WritesWork
      <3>2. JobAt(w) = j
        BY <2>2, <2>3 DEF JobAt
      <3>3. Update(j, "done") \/ Update(j, "failed")
        BY <2>3, <3>1, <3>2, FaultsGrow DEF OnRetrySuccess, OnRetryExhausted, Happens, WritesWork
      <3>4. {"done", "failed"} \subseteq Status
        BY DEF Status, Settled
      <3> QED
        BY <3>3, <3>4, UpdatedRows
    <2>4. entry'[t].phase \in {"waiting", "running", "refused", "dropped"}
      BY <2>1, <2>2, <2>3, EntryStep
    <2> QED
      BY <2>1, <2>4
  <1>2. CASE \/ WriteFirst(j) /\ first[j].at = "retry_pending"
             \/ \E w \in Worker : WriteManual(w) /\ manual[w] = j
    <2>1. Waits(j) /\ ~BackoffOver(j)
      BY <1>2 DEF Pledged, BackoffOver, WriteManual
    <2>2. Waits(j)'
      BY <2>1, WaitsKept
    <2> QED
      BY <2>2 DEF Waits, Tickets
  <1> QED
    BY <1>1, <1>2, RowStep

\* The promise of retry_pending: RetryPendingIsQueued, kept while every write works.
THEOREM PendingIsPledged == Spec => []RetryPendingIsQueued
  <1>1. Init => JobsTypes /\ Pledged /\ RetryPendingIsQueued
    <2> SUFFICES ASSUME Init PROVE JobsTypes /\ Pledged /\ RetryPendingIsQueued
      OBVIOUS
    <2> QED
      BY JobsTyped0 DEF Init, Pledged, RetryPendingIsQueued
  <1>2. JobsTypes /\ Pledged /\ RetryPendingIsQueued /\ [Next]_vars => (JobsTypes /\ Pledged /\ RetryPendingIsQueued)'
    BY JobsTypesStep, PledgedStep, PendingStep
  <1> QED
    BY <1>1, <1>2, PTL DEF Spec

\* TypeOK of the scrape jobs.
THEOREM JobsTyped == Spec => []TypeOK
  <1>1. JobsTypes => TypeOK
    BY DEF JobsTypes, TypeOK, TaskRecord, RunRecord
  <1> QED
    BY <1>1, JobsTyped0, JobsTypesStep, PTL DEF Spec

\* SettledStays: who takes a row out of done or failed.
THEOREM SettledForGood == Spec => SettledStays
  <1>1. ASSUME JobsTypes, Pledged, [Next]_vars, NEW j \in Job,
               pg[j].status \in Settled, pg'[j].status \notin Settled
        PROVE  Working(j) \/ Waits(j)
    <2>1. CASE \E w \in Worker : WriteManual(w) /\ manual[w] = j
      <3>1. PICK w \in Worker : manual[w] = j /\ manual[w] # NoJob
        BY <2>1 DEF WriteManual
      <3> QED
        BY <1>1, <3>1 DEF Pledged
    <2>2. CASE WriteFirst(j) /\ first[j].at = "retry_pending"
      BY <2>2 DEF Working
    <2> QED
      BY <1>1, <2>1, <2>2, RowStep DEF Orphaned, Unfinished, Settled
  <1>2. JobsTypes /\ Pledged /\ [Next]_vars =>
            [\A j \in Job : pg[j].status \in Settled /\ pg'[j].status \notin Settled =>
                  \/ Working(j)
                  \/ \E t \in Tickets(j) : entry[t].phase \in {"waiting", "refused", "dropped"}]_vars
    BY <1>1 DEF Waits
  <1>3. Init => JobsTypes /\ Pledged
    <2> SUFFICES ASSUME Init PROVE JobsTypes /\ Pledged
      OBVIOUS
    <2> QED
      BY JobsTyped0 DEF Init, Pledged
  <1>4. JobsTypes /\ Pledged /\ [Next]_vars => (JobsTypes /\ Pledged)'
    BY JobsTypesStep, PledgedStep
  <1> QED
    BY <1>2, <1>3, <1>4, PTL DEF Spec, SettledStays

-----------------------------------------------------------------------------
(* The steps of a container's run.                                           *)
LEMMA RunStep ==
    ASSUME JobsTypes, [Next]_vars, NEW w \in Worker
    PROVE  \/ retry'[w] = retry[w]
           \/ /\ retry'[w] = NoRun
              /\ Crash(w) \/ OnRetrySuccess(w) \/ RetryAgain(w) \/ OnRetryExhausted(w)
           \/ At(w, "idle") /\ retry'[w].at = "begin"
           \/ /\ retry'[w].ticket = retry[w].ticket
              /\ \/ At(w, "begin") /\ retry'[w].at \in {"save", "failed"}
                 \/ At(w, "save") /\ retry'[w].at = "scrape"
                 \/ At(w, "scrape") /\ retry'[w].at \in Settled
                 \/ retry[w].at \in Settled /\ retry'[w].at = "written"
                 \/ DeleteCheckpoint(w) /\ At(w, "written") /\ retry'[w].at = "returned"
                 \/ RetryWriteRaises(w) /\ retry[w].at \in Settled \cup {"returned"} /\ retry'[w].at \in {"failed", "raised"}
  <1>a. retry \in [Worker -> {NoRun} \cup RunRecord]
    BY DEF JobsTypes
  <1>1. CASE UNCHANGED retry
    BY <1>1
  <1>2. ASSUME NEW v \in Worker, NEW t \in Ticket, RetryStart(v, t)
        PROVE  retry'[w] = retry[w] \/ (At(w, "idle") /\ retry'[w].at = "begin")
    BY <1>2, <1>a DEF RetryStart, At
  <1>3. ASSUME NEW v \in Worker, Crash(v) \/ OnRetrySuccess(v) \/ RetryAgain(v) \/ OnRetryExhausted(v)
        PROVE  retry'[w] = retry[w] \/ (v = w /\ retry'[w] = NoRun)
    BY <1>3, <1>a DEF Crash, OnRetrySuccess, RetryAgain, OnRetryExhausted
  <1>4. ASSUME NEW v \in Worker, v # w,
               RetryBegin(v) \/ SaveCheckpoint(v) \/ RetryFinds(v) \/ RetryFails(v) \/ RetryWrite(v)
               \/ DeleteCheckpoint(v) \/ RetryWriteRaises(v)
        PROVE  retry'[w] = retry[w]
    BY <1>4, <1>a DEF RetryBegin, SaveCheckpoint, RetryFinds, RetryFails, RetryWrite, DeleteCheckpoint,
                      RetryWriteRaises, Goto
  <1>5. ASSUME RetryBegin(w) \/ SaveCheckpoint(w) \/ RetryFinds(w) \/ RetryFails(w) \/ RetryWrite(w)
               \/ DeleteCheckpoint(w) \/ RetryWriteRaises(w)
        PROVE  /\ retry'[w].ticket = retry[w].ticket
               /\ \/ At(w, "begin") /\ retry'[w].at \in {"save", "failed"}
                  \/ At(w, "save") /\ retry'[w].at = "scrape"
                  \/ At(w, "scrape") /\ retry'[w].at \in Settled
                  \/ retry[w].at \in Settled /\ retry'[w].at = "written"
                  \/ DeleteCheckpoint(w) /\ At(w, "written") /\ retry'[w].at = "returned"
                  \/ RetryWriteRaises(w) /\ retry[w].at \in Settled \cup {"returned"} /\ retry'[w].at \in {"failed", "raised"}
    <2>1. \A s : Goto(w, s) => retry'[w].ticket = retry[w].ticket /\ (retry[w].at # "idle" => retry'[w].at = s)
      <3>1. retry[w] = NoRun \/ retry[w] \in RunRecord
        BY <1>a
      <3> QED
        BY <3>1, <1>a DEF Goto, NoRun, RunRecord
    <2> QED
      BY <1>5, <2>1 DEF RetryBegin, SaveCheckpoint, RetryFinds, RetryFails, RetryWrite, DeleteCheckpoint,
                        RetryWriteRaises, At, Settled
  <1> QED
    BY <1>1, <1>2, <1>3, <1>4, <1>5
    DEF Next, Run, Task, Insert, Finds, Fails, WriteFirst, Progress, WriteFirstRaises, RetryProgress,
        StartWorker, Serve, WriteManual, Create, ManualRetry, Requeue, Requeued, vars

\* A run raises only when a write of its row has.
RaisedIsFault == \A w \in Worker : At(w, "raised") => "raising write" \in faults

LEMMA RaisedStep == JobsTypes /\ RaisedIsFault /\ [Next]_vars => RaisedIsFault'
  <1> SUFFICES ASSUME JobsTypes, RaisedIsFault, [Next]_vars, NEW w \in Worker, retry'[w].at = "raised"
               PROVE  "raising write" \in faults'
    BY DEF RaisedIsFault, At
  <1>1. faults \subseteq faults'
    BY FaultsKept
  <1>2. CASE retry[w].at = "raised"
    BY <1>1, <1>2 DEF RaisedIsFault, At
  <1>3. CASE RetryWriteRaises(w)
    BY <1>3 DEF RetryWriteRaises, Happens
  <1>4. \/ retry'[w] = retry[w] \/ retry'[w] = NoRun \/ RetryWriteRaises(w)
        \/ retry'[w].at \in {"begin", "save", "failed", "scrape", "written", "returned"} \cup Settled
    BY RunStep
  <1>5. NoRun.at # "raised"
    BY DEF NoRun
  <1> QED
    BY <1>2, <1>3, <1>4, <1>5 DEF Settled

(* Work on a job goes on, or ends with a write of its row.                   *)
LEMMA WorkStep ==
    ASSUME JobsTypes, RaisedIsFault, [Next]_vars, NEW j \in Job, Working(j), WritesWork', ~orphans'
    PROVE  Working(j)' \/ ~Unfinished(j)'
  <1>a. "raising write" \notin faults' /\ "raising write" \notin faults
    BY FaultsKept DEF WritesWork
  <1>b. \A w \in Worker : ~Crash(w)
    BY DEF Crash
  <1>c. {"done", "failed", "retry_pending"} \subseteq Status
    BY DEF Status, Settled
  <1>1. CASE first[j].at \notin {"none", "end"}
    <2>1. CASE WriteFirst(j)
      <3>1. first[j].at \in {"done", "failed", "retry_pending"} /\ Update(j, first[j].at)
        BY <2>1 DEF WriteFirst
      <3> QED
        BY <3>1, <1>c, UpdatedRows DEF Unfinished
    <2>2. CASE ~WriteFirst(j)
      <3>a. first \in [Job -> TaskRecord] /\ first[j] \in TaskRecord
        BY DEF JobsTypes
      <3>1. ASSUME NEW i \in Job, Task(i) \/ Progress(i) \/ WriteFirstRaises(i)
            PROVE  first'[j].at \notin {"none", "end"}
        <4>1. \/ first' = first \/ WriteFirst(i)
              \/ \E s \in {"scrape", "done", "failed", "retry_pending"} : first' = [first EXCEPT ![i].at = s]
          BY <3>1, <1>a DEF Task, Insert, Finds, Fails, Progress, WriteFirstRaises, FailsForGood, QueuedRetry, Happens
        <4>2. CASE WriteFirst(i)
          BY <4>2, <2>2, <3>a, <1>1 DEF WriteFirst
        <4> QED
          BY <4>1, <4>2, <3>a, <1>1 DEF TaskRecord
      <3>2. ASSUME NEW w \in Worker, NEW i \in Job, Create(w, i) PROVE first'[j].at \notin {"none", "end"}
        BY <3>2, <3>a, <1>1 DEF Create
      <3>3. first'[j].at \notin {"none", "end"}
        BY <3>1, <3>2, <1>1, <1>b
        DEF Next, Run, RetryBegin, SaveCheckpoint, RetryFinds, RetryFails, RetryWrite, DeleteCheckpoint,
            OnRetrySuccess, RetryAgain, OnRetryExhausted, RetryProgress, RetryWriteRaises, StartWorker,
            Serve, WriteManual, RetryStart, ManualRetry, Requeue, Requeued, vars
      <3> QED
        BY <3>3 DEF Working
    <2> QED
      BY <2>1, <2>2
  <1>2. ASSUME NEW w \in Worker, ~At(w, "idle"), JobAt(w) = j PROVE Working(j)' \/ ~Unfinished(j)'
    <2>1. CASE retry'[w].at # "idle" /\ retry'[w].ticket = retry[w].ticket
      BY <1>2, <2>1 DEF Working, At, JobAt, JobOf
    <2>2. CASE OnRetrySuccess(w)
      <3>1. Update(j, "done")
        BY <1>2, <1>a, <2>2 DEF OnRetrySuccess, Happens
      <3> QED
        BY <3>1, <1>c, UpdatedRows DEF Unfinished
    <2>3. CASE RetryAgain(w) \/ OnRetryExhausted(w)
      BY <2>3, <1>a DEF RetryAgain, OnRetryExhausted, RaisedIsFault
    <2> QED
      BY <2>1, <2>2, <2>3, <1>2, <1>b, RunStep DEF At, Settled
  <1> QED
    BY <1>1, <1>2 DEF Working

LEMMA OrphanStep == JobsTypes /\ RaisedIsFault /\ NoOrphanRunning /\ [Next]_vars => NoOrphanRunning'
  <1> SUFFICES ASSUME JobsTypes, RaisedIsFault, NoOrphanRunning, [Next]_vars, NEW j \in Job,
                      WritesWork', ~orphans', Unfinished(j)', ~pg'[j].completed
               PROVE  Working(j)'
    BY DEF NoOrphanRunning
  <1>1. CASE Working(j)
    BY <1>1, WorkStep
  <1>2. CASE first'[j].at = "insert"
    BY <1>2 DEF Working
  <1>3. CASE ~Working(j) /\ pg'[j] = pg[j]
    <2>1. Unfinished(j) /\ ~pg[j].completed /\ WritesWork
      BY <1>3, FaultsGrow DEF Unfinished
    <2>2. orphans
      BY <2>1, <1>3 DEF NoOrphanRunning
    <2>3. PICK w \in Worker : StartWorker(w)
      BY <2>2
      DEF Next, Task, Insert, Finds, Fails, WriteFirst, Progress, WriteFirstRaises, Run, RetryBegin,
          SaveCheckpoint, RetryFinds, RetryFails, RetryWrite, DeleteCheckpoint, OnRetrySuccess, RetryAgain,
          OnRetryExhausted, RetryProgress, RetryWriteRaises, Serve, Crash, WriteManual, RetryStart,
          Create, ManualRetry, Requeue, Requeued, vars
    <2>4. pg'[j].status = "interrupted"
      <3>1. pg[j] \in Row
        BY DEF JobsTypes
      <3> QED
        BY <2>1, <2>3, <3>1 DEF StartWorker, Orphaned, Row
    <2> QED
      BY <2>4 DEF Unfinished
  <1>4. CASE \/ WriteFirst(j) /\ first[j].at = "retry_pending"
             \/ \E w \in Worker : WriteManual(w) /\ manual[w] = j
    <2>1. Update(j, "retry_pending")
      BY <1>4 DEF WriteFirst, WriteManual
    <2> QED
      BY <2>1, UpdatedRows DEF Unfinished, Status
  <1> QED
    BY <1>1, <1>3, <1>4, RowStep DEF Unfinished

\* NoOrphanRunning: after a start-up no row of dead work says that it runs.
THEOREM NoOrphans == Spec => []NoOrphanRunning
  <1>1. Init => JobsTypes /\ RaisedIsFault /\ NoOrphanRunning
    <2> SUFFICES ASSUME Init PROVE JobsTypes /\ RaisedIsFault /\ NoOrphanRunning
      OBVIOUS
    <2> QED
      BY JobsTyped0 DEF Init, RaisedIsFault, NoOrphanRunning, NoRun, At, Unfinished
  <1>2. /\ JobsTypes /\ RaisedIsFault /\ NoOrphanRunning /\ [Next]_vars
        => (JobsTypes /\ RaisedIsFault /\ NoOrphanRunning)'
    BY JobsTypesStep, RaisedStep, OrphanStep
  <1> QED
    BY <1>1, <1>2, PTL DEF Spec

-----------------------------------------------------------------------------
\* Without faults, a checkpoint is there from the start of its run's scraping
\* until the run deletes it.
Held ==
    \A j \in s3 : faults = {} =>
        \E w \in Worker : retry[w].at \in {"scrape", "written"} \cup Settled /\ JobAt(w) = j

LEMMA HeldStep == JobsTypes /\ Held /\ [Next]_vars => Held'
  <1> SUFFICES ASSUME JobsTypes, Held, [Next]_vars, NEW j \in s3', faults' = {}
               PROVE  \E w \in Worker : retry'[w].at \in {"scrape", "written"} \cup Settled /\ JobOf(retry'[w].ticket) = j
    BY DEF Held, JobAt, JobOf
  <1>a. faults = {} /\ \A f : ~Happens(f)
    BY FaultsKept DEF Happens
  <1>1. CASE j \in s3
    <2>1. PICK w \in Worker : retry[w].at \in {"scrape", "written"} \cup Settled /\ JobAt(w) = j
      BY <1>1, <1>a DEF Held
    <2>2. ~DeleteCheckpoint(w)
      BY <2>1, <1>a DEF DeleteCheckpoint
    <2>3. ~Crash(w) /\ ~RetryWriteRaises(w)
      BY <1>a DEF Crash, RetryWriteRaises
    <2>4. ~OnRetrySuccess(w) /\ ~RetryAgain(w) /\ ~OnRetryExhausted(w)
      BY <2>1 DEF OnRetrySuccess, RetryAgain, OnRetryExhausted, At, Settled
    <2> QED
      BY <2>1, <2>2, <2>3, <2>4, RunStep DEF At, JobAt, Settled
  <1>2. CASE j \notin s3
    <2>1. PICK w \in Worker : SaveCheckpoint(w) /\ j = JobAt(w)
      BY <1>2, <1>a
      DEF Next, Task, Insert, Finds, Fails, WriteFirst, Progress, WriteFirstRaises, Run, RetryBegin,
          SaveCheckpoint, RetryFinds, RetryFails, RetryWrite, DeleteCheckpoint, OnRetrySuccess, RetryAgain,
          OnRetryExhausted, RetryProgress, RetryWriteRaises, StartWorker, Serve, Crash, WriteManual, RetryStart,
          Create, ManualRetry, Requeue, Requeued, vars
    <2>2. retry \in [Worker -> {NoRun} \cup RunRecord] /\ retry[w].at = "save"
      BY <2>1 DEF JobsTypes, SaveCheckpoint, At
    <2>3. retry[w] \in RunRecord
      BY <2>2 DEF NoRun
    <2>4. retry'[w].at = "scrape" /\ retry'[w].ticket = retry[w].ticket
      BY <2>1, <2>2, <2>3 DEF SaveCheckpoint, Goto, RunRecord
    <2> QED
      BY <2>1, <2>4 DEF JobAt
  <1> QED
    BY <1>1, <1>2

\* FinishedNotRequeued: a job that ended leaves no checkpoint to the next start.
THEOREM NotRequeued == Spec => []FinishedNotRequeued
  <1>1. Init => JobsTypes /\ Held
    BY JobsTyped0 DEF Init, Held
  <1>2. JobsTypes /\ Held /\ [Next]_vars => (JobsTypes /\ Held)'
    BY JobsTypesStep, HeldStep
  <1>3. Held => FinishedNotRequeued
    BY DEF Held, FinishedNotRequeued, At, Settled
  <1> QED
    BY <1>1, <1>2, <1>3, PTL DEF Spec
=============================================================================

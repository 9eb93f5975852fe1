# TolipAI: verification development

TLA+ models of the stateful parts of TolipAI, TLC configurations that check
them on small instances, and TLAPS proofs for every value of the constants.
Paths without a prefix are relative to `artifacts/api-server/src` (TypeScript)
or `artifacts/TolipAI-scraper-engine/workers` (Python).

## The system

TolipAI is a monorepo: an Express API server, three React front ends, and a
Python scraper engine that runs as two containers on Fargate Spot.  Most of the
code answers a request with a few SQL statements and keeps nothing.  These
parts keep state across requests, run concurrently, or both:

| component | state | operations | what is hard |
|---|---|---|---|
| power dialer session (`routes/twilio-power-dialer.ts`, `lib/backgroundJobStore.ts`) | a row of `crm_background_jobs` (JSON payload), call-log rows, lead status, Twilio's calls | create, call, disposition, delete, call-status and AMD webhooks | handlers with several awaits, only some under the row lock; late webhooks |
| retry queue (`retry_queue.py`) | a Redis stream with a consumer group, or a deque in memory | enqueue, drain loop, acknowledge, re-enqueue, two callbacks, start, stop | delivery and acknowledgement, restarts, a blocking read, a full deque |
| scrape jobs (`main.py`, `db.py`, `job_store.py`, `spot_checkpoint.py`, `spot_handler.py`) | a row of `scraper_jobs`, S3 checkpoints, copies in Redis and memory | request, progress, retry runner, manual retry, start-up recovery, shutdown | several containers, failing writes, a task and a retry of the same job |
| sequences job (`routes/crm/sequences.ts`, `index.ts`, `services/smsService.ts`) | an advisory lock, `crm_sequence_logs` | hourly run in every server | a lock held by a pooled connection, a send and its log are two steps |
| contracts (`routes/crm/contracts.ts`) | a row of `crm_contracts`, its signing token, Dropbox Sign's request | create, void, resend, sign page, signature, webhook, expiry | handlers write by id what they decided from an earlier read |
| AI voice agent (`routes/twilio-voice-agent.ts`) | `agentSessions`, two sockets, call log, lead | webhook, stream start and stop, tool call, end of call | repeated webhooks, several events that each end a call |
| SMS inbox (`routes/twilio.ts`, `services/smsService.ts`, `services/aiSmsService.ts`) | opt-outs, throttle, conversation log | inbound text, opt-out, AI reply, send | work after the acknowledgement, a STOP while the AI writes |
| call log (`routes/twilio-voice.ts`) | a row of `crm_call_logs`, `activeConferences` | answer, browser log, status, conference and recording callbacks | callbacks in any order, two names for one call |
| paid lookups (`services/propertyApi.ts`, `routes/crm/leads.ts`) | limits in memory, key index, depleted keys | fetch property data, skip trace, fetch comps | check and record around a slow call, one index for all |
| task reminders (`services/automation.ts`, `routes/crm/tasks.ts`) | tasks, notifications, an onboarding queue in memory | hourly cron, task endpoints, closing of a lead | crons in every server without a lock |
| browser sessions (`scrapers/_browser_session.py`) | a file, a Redis key, a lock per service | open, log in, save, invalidate, redeploy | many jobs at once on one session |
| circuit breaker (`circuit_breaker.py`) | state, counters | call, cancel, reset | calls from before an opening report after it |
| SSE stream, browser pool, proxy pool | tokens, instance lists | connect, acquire, release | synchronous, or without callers |

The power dialer page polls the session and sends `/call` and `/disposition`;
Twilio calls the webhooks, of the dialer as of the browser calls, the voice
agent and the SMS inbox; the inbox, the sequences job and the voice agent send
through `sendSms`.  Closing a lead closes its tasks.  The API server forwards scrape requests to the
engine, whose `main.py` starts tasks; a transient failure goes to the retry
queue, whose drain loop calls a runner in `main.py` and then one of two
callbacks there.  At start-up an engine container marks unfinished rows and
queues the jobs of left-over checkpoints.  `PROJECT.json` lists every
component, modelled or not, and the hazards of the code at their lines.

## Modules

| module | models | extends or instantiates |
|---|---|---|
| `PowerDialer` | one dialer session with its calls | |
| `PowerDialerProofs` | theorems about it | `PowerDialer` |
| `RetryPolicy` | what the retry queue promises (abstract, no code of its own) | |
| `RetryMemory` | the in-memory backend | `RetryPolicy`, for refinement |
| `QueuesProofs` | theorems about it, and about `MCQueues` | `MCQueues`, `PowerDialerProofs` |
| `RetryStream` | the Redis Streams backend, several containers | `RetryPolicy`, for refinement |
| `RetryStreamProofs` | theorems about it | `RetryStream` |
| `ScraperJobs` | a scrape job's row, tasks, retries, checkpoints, containers | `RetryPolicy`, as the queue it uses |
| `ScraperJobsProofs` | theorems about it | `ScraperJobs` |
| `EmailSequences` | the hourly sequences job of several servers | |
| `EmailSequencesProofs` | theorems about it | `EmailSequences` |
| `Contracts` | one contract and its handlers | |
| `VoiceAgent` | one inbound call to the AI agent | |
| `SmsInbox` | the texts of one number to one campaign | |
| `CallLog` | the row of one outbound browser call | |
| `CallsProofs` | theorems about calls and texts | `CallLog`, `VoiceAgent`, `SmsInbox` |
| `CircuitBreaker` | one breaker and the calls through it | |
| `BrowserSession` | the saved session of one service | |
| `Lookups`, `LookupsProofs` | limits, key pool and lookup requests; theorems | |
| `Reminders` | the tasks of one lead and the cron | |
| `ServicesProofs` | theorems about contracts, reminders, breaker and session, and about `MCServices` | `MCServices`, `CallsProofs`, `LookupsProofs` |
| `MCQueues` | dialer and in-memory retry queue, each under its fairness | `MCPowerDialer`, `RetryMemory` |
| `MCServices` | eight services that share no state, side by side | the modules above from `Contracts` on |
| other `MC*` | constants and symmetry sets for TLC | the module of that name |

The retry queue is stated once, as `RetryPolicy`, and used twice: both backends
are shown to implement it, by TLC and by proof, and `ScraperJobs` is built on its actions alone
(`Accept`, `Start`, `Succeed`, `Again`, `Exhaust`, `Drop`).  What is shown of
jobs therefore holds over either backend, for as long as that backend keeps
the promise.

### PowerDialer

`payload`, `status` are the row; `dial`, `dispo` and `cb[c]` are a `/call`, a
`/disposition` and a `/call-status` handler on their way, with the payload each
has read; `call[c]` is Twilio's side of a call; `callLog` and `dnc` are the
call-log rows and the leads marked do-not-call.  A handler is cut at its
awaits: `/call` is `CallRead` (row and leads), `CallPlace` (the parallel
creations, any of which may fail), `CallRecord` (the locked transaction),
`CallLog` (the inserts); `/disposition` is `DispoRead`, `DispoLog`, `DispoDnc`,
`DispoWrite`; `/call-status` is `StatusRead`, `StatusLog`, `StatusWrite`.  A
`db.transaction` with `FOR UPDATE` is one action, so `AmdMachine` and
`AmdHuman` are single steps, and each hang-up of a sister call is a
`CancelSister`.  The `*Aborts` actions stop a handler at an await, because it
throws or the process dies.  `lost` remembers that an unlocked write replaced a
payload other than the one its handler had read; the properties named
`...UnlessLost`, and others that say so, are what survives of the code's
guarantees up to that moment.

Assumed: leads are not deleted while the session runs; the page keeps one
`/call` and one `/disposition` request in flight, as its `calling` and
`disposingId` flags do; Twilio reports each call's AMD result once and sends one
status callback per call, in any order.  An AMD answer may still be written when
its call has ended (`Unheard`, at most `MaxLate` times).

### RetryMemory and RetryStream

`RetryMemory` keeps the `deque`, the list `ready` of a poll and the state of
the loop.  `Drain` splits the deque in one step (no await), in the order of the
deque (`Scan`, which takes one entry after the other as the code does), then
`RunFirst` and one of `RunSucceeds`, `RunFailsAgain`, `RunExhausts`, `ExhaustCallbackRaises`
follow for each entry while other tasks may `Enqueue`.

`RetryStream` keeps the `stream`, the group's `cursor`, the pending list of
each consumer and, per container, where its drain loop is: it reads its pending
messages (`ReadPending`), blocks for new ones (`ReadNew`, or `ReadFails` when
the 3 s socket timeout or an error ends the wait), then handles one message
after the other, in the order of the stream (`todo` is a set of ids, as what is
read again was delivered before what is new): `Skip`, or `Run`, `Return` (with the acknowledgement), and
`Succeed`, `Again` or `Exhaust`.  A container that crashes is `gone` and a
restarted one has a new consumer name, hence is another `Worker`.

### ScraperJobs

The row of a job is `pg[j]` (status, and whether `completed_at` is set).
`first[j]` is the task of the original request, `retry[w]` the runner a
container's drain loop awaits, `manual[w]` a manual retry between its enqueue
and its write, `boot` the checkpoints a starting container has listed, `s3` the
checkpoints, `entry` the retry queue.  Each write of the row is a step of its
own; it may be lost (`db.conn` yields no connection and `update_job` returns)
or raise, and the code after it is followed either way, in the callbacks
`_on_retry_success` and `_on_retry_exhausted` too, which write a second time.  Statuses that the
properties do not tell apart are one: `done` stands for
`completed_no_results` too.  Parameters, results and progress are left out, and
so are the copies of a job in Redis and in each container's memory.

### EmailSequences

`run[r]` is one run of `runEmailSequenceJob`; a server has two slots because a
run may outlive the hour.  The lock is taken (`TryLock`) and given back
(`Unlock`) on any connection of the server's pool, as in the code, where both
are plain `db.execute` calls; Postgres lets the session that has it take it
again and count.  `Check` is the look for a log, `Send` the message (which may
be delivered although it is reported as failed; a letter without an address is
logged as failed and never sent), `InsertLog` the insert under the unique index.
`QueryFails` is the failure of any query, which ends the run.  A `Crash` closes the sessions of a server, a `Disconnect`
the one that has the lock.

### Contracts

`signing` holds the handlers between their read and their write, each with the
status and the token it has read.  `ReadToView`, `ReadToSign` and `ReadEvent`
make the checks of the sign page, the signature and Dropbox Sign's webhook;
`Write` is the update by id, which looks at nothing again; `Void` and `Resend`
are one statement each.  `stale` remembers that a handler wrote although the row
had changed since its read.

### VoiceAgent

`answering` are webhooks that are inserting a log, `sessions` all `AgentSession`
objects ever made and `agentSession` the one the map holds.  `Start` takes the
map's session into the stream, `Stop` and `Close` both call `processCallEnd`
(`BeginEnd`), which goes on in `callEnd` one query at a time.

### SmsInbox and CallLog

`SmsInbox` keeps the next step of each message's handler: lead, store, opt-out
or branch, AI check, count, AI, the look for an opt-out in `sendSms`, the
request to Twilio, the log.  `CallLog` keeps how far each of the three handlers
that may insert a row is: it has updated nothing (`First`) and is about to
insert (`Insert`), or it cannot tell which call it is about: a recording that
names only the other leg is filed under that leg (`InsertStray`), any other is
dropped.  `CallStatus` is every report of the call's status (Twilio's callback, its
alias, the browser's PATCH): it overwrites what the row says, in whatever order
reports come, and one that finds no row is dropped (`missed`).

### Lookups

A request is at the keys, waiting for an answer, at the fallback, or back with
its outcome.  `AskNextKey` is `getNextApiKey` with the shared index,
`KeyAnswers` what follows: a 401 or 402 depletes the key, another error asks the
next.
`SkipTrace` checks the limit and `Finish` records; `FetchComps` does both at
once.  Campaign limits older than their window are pruned by `LimitsAge`.

### Reminders, BrowserSession, CircuitBreaker

`Reminders`: a cron run selects the overdue tasks (`SelectOverdue`), then
notifies (`Announce`) and marks (`Escalate`) one task after the other, while
tasks are created, edited, reopened or closed; the select compares with the time
at which the run began, so tasks that became overdue since (`turned`) are not
in it.  `BrowserSession`: a context
loads Redis and file, waits for the lock, looks again (`StillMissing`), logs in
and saves, file first, carrying what it wrote across the await of the Redis write
(`carried`); `Unlink` and `DeleteRedisState` are the two halves of
`invalidate_session`.  `CircuitBreaker`: calls are admitted, and succeed, fail
or are cut (cancelled) later; `half_open` is what `state` shows and never what
is stored.

## Runs

| run | instance | shows |
|---|---|---|
| `dialer_calls` | 3 leads, 2 lines, 2 calls, 2 requests, 1 do-not-call result, 1 failure | `TypeOK`; AMD counters exact and the index only forward until an update is lost; complete batches attributed to the leads dialed; one human answer wins per batch, and no later answer hangs it up |
| `queues` | dialer: 2 leads, 4 results of kinds dnc and skip, 1 call, 1 failure; retries: 3 of 2 attempts, deque of 2, 1 raising callback; fair | counts and records stay together; do-not-call is marked before it is on record; closed exactly with the queue, never reopened, closed in the end; one place per retry, refinement of `RetryPolicy`, nothing waits for ever |
| `retry_stream` | 2 containers, 2 retries, 2 attempts, batch 1, 1 fault | one holder per message, nothing lost without a fault, refinement of `RetryPolicy` (backoffs, bounded attempts) while acknowledgements get through |
| `scraper_jobs` | 2 containers, 1 job, 2 retries of 2 attempts, 1 kind of fault, fair | `retry_pending` has a retry; no orphan says running; a finished job is not queued again; settled rows stay settled; every job settles |
| `sequences` | 2 servers with 2 connections, 2 hours, 2 leads (one unreachable), 1 fault | servers exclude each other while the lock's connection holds; no step sent twice but for a crash, a broken connection, a failed insert or an overlap; a finished run logged its page |
| `services` | eight services, see `Services.cfg`, one fault each | one signature per link, voided stays; one lead per agent call, log and lead agree; nothing new is sent after a STOP, the AI's daily limit; a call's row forgets nothing and says what was reported last; a lone request asks every key; one notice per overdue task; one login per loss |
| the six others | the smallest that show it | a disagreement each (see below) |

`queues` and `services` are sums: the first state chooses one component, whose
actions alone are taken while the others keep their initial state, so each
component is explored just as in a run of its own.  In `queues`, no fair action
of the component that was not chosen is ever enabled, so that its fairness
conditions hold vacuously.  In `services`, sets of different components have
the same model values, which one small symmetry group then permutes; nothing
else connects them.

Why these bounds suffice to meet the cases: two lines give a batch with a
sister to cancel, three calls a second batch overlapping the first; three leads
let a wrong advance skip one.  A deque of two and three retries reaches
overflow, by callers and by the loop itself.  Two containers are what competing
consumers and a start during another's run need; two attempts have a first, a
next and a last; two retries of one job let a manual or recovered retry meet
the transient one.  Two servers and two connections each are what exclusion
and an unlock on the wrong session need, two hours give a server two
overlapping runs, and one unreachable lead beside a reachable one a page that
is handled in part.  Two signing handlers and three tokens give a resend under a
signature; two webhook deliveries a replaced session; three texts a STOP and two
replies; three calls through a breaker that opens at two an answer from before
its opening; two requests and two keys a shared index; two tasks and two cron
runs an overlap; three contexts two that wait for the one that logs in.  One fault at a time is a bound only on coincidence: each
kind is tried at each place.  Late AMD answers (`MaxLate`) are in the run `queues`
but not in `dialer_calls`, whose two overlapping batches they would make too
large; the theorems hold for any number of them.  Every bound is a constant whose name starts with
`Max` (or a set given in the `.cfg`), and is used in the guard of the action
it limits; deadlock is not checked because every instance stops at its bounds.

### Fairness

`PowerDialer`: the agent keeps logging results and the server answers in the
end; nothing is assumed of calls and webhooks, so `SessionCloses` shows that no
callback can keep a session open.  `RetryMemory`: backoffs end, the loop polls
on its timer, runners return because each has a timeout.  `RetryStream`:
containers start and keep looping; `RetriesRun` fails in spite of it.
`ScraperJobs`: the event loop runs its tasks, a container finishes its
start-up, and a drain loop takes the next due retry, which is what
`NoneWaitsForever` shows of the in-memory queue and `RetryStream` denies for
the stream: over Redis, `JobsSettle` holds only as far as the queue delivers.
No liveness is claimed for `EmailSequences`: its lock leak refutes any.  Nor for
the services of `services`: what they promise is safety, and a restart may
drop any work they have begun.

### Disagreements

Each is a run that must be violated, with a finding in `PROJECT.json`.

* `dialer_stale_callback`: the guard against stale callbacks lets everything
  through while `currentCallSid` is null, so the callback of a call the agent
  has dispositioned logs a result for the next lead.
* `dialer_attribution`: successful creations are paired with leads by position
  after the failed ones were filtered out.
* `retry_stream_starved`: the loop discards its pending messages whenever no
  new message arrives in time, so a message once skipped for its backoff stays.
* `scraper_jobs_failed_as_done`: runners swallow errors and return, which the
  queue takes for success.
* `sequences_lock_leak`: lock and unlock go to different sessions.
* `skip_trace_limit`: the limit is checked before the lookup and counted after.

### Divergences

Met while modelling and present in the models' behaviours.  Those stated as a
definition have it in the module, false there: put as an `INVARIANT` (the two
marked as steps: a `PROPERTY`) into the `.cfg` of the passing run that includes
the module, TLC finds each violated.  Most are the very race that a passing
property exempts: that property shows that nothing but the race breaks the
guarantee, the definition that the race does.

| stated as | what the code does | against | the passing property that exempts it |
|---|---|---|---|
| `AnswersStayCounted` | `/disposition` and `/call-status` write back, outside any lock, the payload they read several awaits before (`routes/twilio-power-dialer.ts:493`): an AMD answer counted in between is lost | `Twiliofix.md:18` "All mutations use `.for("update")`" | `CountersExactUnlessLost`, `IndexForwardUnlessLost` |
| `SiblingsCancelled` | a human who answers before `activeCalls` is written cancels no sibling call (`:726`) | `README.md:507` "human → cancel sibling calls" | `WinnerNotHungUp`, `OneWinnerPerBatch` |
| `SurvivesRestarts` | nobody claims what a dead consumer had pending (`retry_queue.py:67`); a message is acknowledged before its success is recorded or its next attempt added (:272, :277) | `retry_queue.py:6` "Survives container restarts" | `RefinesPolicy`, where it is dropped |
| `RetryIsComing` | the result of `enqueue` is not looked at: a manual retry that the full queue refuses is shown as `retry_pending` (`main.py:2512`) | `main.py:2519` "will execute within 30 seconds" | `RetryPendingIsQueued` |
| `OnlyLeftOversRequeued` (steps) | a starting container queues the job of a checkpoint that a live one is working on (`spot_checkpoint.py:229`) | :186 "any checkpoint left by a previous Spot task" | |
| `DoneNotRequeued` (steps) | a checkpoint whose deletion fails queues a job that is done (`spot_checkpoint.py:286`) | :274 "so it isn't accidentally re-queued" | `FinishedNotRequeued` |
| `NeverSentTwice` | a run of over an hour and the next run of its server hold the lock together and both send (`sequences.ts:270`, :328, :465) | `README.md:521` "prevents double-sends" | `SentOnce` |
| `EndIsShown` | a report of the call's end that finds no row is dropped, and the row then comes as initiated (`twilio-voice.ts:595`) | :585 "updates call log with final status" | `LastReportShown` |
| `NeverSignedTwice` | two requests pass the check of one link, and both write by id (`contracts.ts:527`) | :517 "Already signed" | `SignedOncePerLink` |
| `NeverOverLimit` | replies are counted before the AI is asked and logged after the send (`twilio.ts:1027`) | `CampaignList.tsx:614` "Max AI Replies per Lead per Day" | `RepliesWithinLimit` |
| `EveryKeyTried` | requests share one index and count tries, not keys (`propertyApi.ts:66`) | :305 "try every non-depleted key" | `AloneTriesEveryKey` |
| `FirstTextHasLead` | the insert of a new number's lead gives no address, which `schema/crm.ts:66` declares `notNull`; it always fails, and the text is worked on without a lead (`twilio.ts:861`) | :854 "automatically create a new lead" | |
| `StartedIsTranscribed` | a stream that starts before OpenAI's socket is open has no transcription, and the opening of the socket does not turn it on | `twilio-voice-agent.ts:503` | |
| `ProbesAgain` | `HALF_OPEN` is never stored, so an open breaker takes no probe off the count and no successful probe closes it: after its probes it refuses every call until it is reset | `circuit_breaker.py:9-10` | |

Exempt without such a line to hold against the code: an event of Dropbox Sign
revives a voided contract (`contracts.ts:584`, `VoidedStays`); overlapping cron
runs, or one that breaks between notice and mark, announce a task twice
(`services/automation.ts:305`, `AnnouncedOnce`); a crash or a failed insert
between a send and its log leads to a second send (`sequences.ts:465`,
`SentOnce`), and a broken connection lets a second server in
(`OneServerAtATime`); a run cut short leaves its page (`RunLogsAll`); the session
of a repeated webhook knows no log (`CallAccounted`).  And without a definition:

* A second `/call` before a result is logged dials the same lead again
  (`routes/twilio-power-dialer.ts:282`; its comment at :280 promises otherwise).
* A result logged during `/call` makes the next advance skip undialed leads,
  and the page then says all were dialed (:362; `PowerDialer.tsx:849`).
* A failed `XADD` of the retry stream reaches nobody, and the in-memory fallback is
  unreachable (`retry_queue.py:429`, :435).
* Start-up recovery takes rows of jobs that live containers are running
  (`job_store.py:142`); it skips a completed job that a manual retry had set running
  (`job_store.py:149`), which then says running for ever.  The copy of an
  interrupted job has no parameters, so a manual retry of it runs with none
  (`job_store.py:157`).  First runs save no checkpoint and are not registered
  with the shutdown handler, which says they "will be re-queued".
* A sequence step is sent on its exact day or never (`sequences.ts:316`); a
  failed send is never repeated; the SMS opt-out endpoint stores the phone as
  typed while `sendSms` looks for its E.164 form (`sequences.ts:207`,
  `smsService.ts:36`).
* The bulk change of lead status calls `onLeadStatusChanged` with its
  arguments shifted (`routes/crm/leads.ts:624`), so that it closes no tasks.
* A GET of `/jobs/{id}` may answer with a status that changed long ago in the
  other container: the copy in memory is read first and never refreshed
  (`job_store.py:77`).
* The confirmation of a STOP is not delivered: the opt-out is stored first and
  `sendSms` then refuses the number (`twilio.ts:927-938`, `smsService.ts:60-63`).
  The confirmation says START resubscribes (`twilio.ts:931`); nothing handles it.
* The recording callback names the call by the body's `CallSid` first, although
  `twilio-voice.ts:658` says that this is the conference's leg.
* An escalated task that is reopened or gets a new date stays escalated and is
  never announced again (`services/automation.ts:260-276`); a task due within a
  day is announced every hour (`:235`); the onboarding queue is in memory and a
  restart loses it (`:52`, which the comment at :15 accepts).
* After `invalidate_session`, "next call will re-login" (`_browser_session.py:687`)
  fails when a context that had read Redis before writes the file again, or when a
  login under way stores in Redis what it had read from the file before.
* Stripe's webhook reads a raw body that `app.ts:199-207` has already parsed, so
  that its signature cannot be verified (`routes/stripe.ts:190`).

## Proofs

All theorems assume only the named `ASSUME`s on constants, which TLC evaluates
in the passing runs.

`PowerDialerProofs`.  `TypeCorrect` proves the inductive invariant `TypeInv`:
`TypeOK` alone is not inductive, because recording a batch takes the first
created call and pairs calls by rank, and because a handler indexes the queue
at the payload it read.  It is strengthened by `DialOK` (a request on its way
has created at least one call, and knows for each lead whether) and `SlotsOK`
(handlers go on only with payloads that have a current lead).  `RowStep` then
reduces every step to one of three effects on the row: written from a payload
read before, changed under the lock without touching the index, or left alone.
From it follow the action properties `NeverReopenedCorrect` and
`IndexForwardCorrect`, and `ClosedWithItsQueueCorrect`, whose invariant adds
`NotStarted`: before `StartSession` nothing is under way, so that starting
closes no session.  `DncMarkedFirstCorrect` uses `DncInv`, which speaks of the
payloads in the handlers' hands as well as of the row: each of them has marked
the leads of its do-not-call results, a disposition about to write such a result
has marked its current lead, and a status callback never infers one.  So the
write of a stale payload cannot bring in an unmarked result.

Its second half counts calls.  `StepKinds` says how a step can touch them:
not at all, as the creation of a request's batch, as its recording, as a write of
the row, or as one AMD answer or callback.  `BatchInv` (a call not yet created
is nowhere; the calls of a request name each other; until they are recorded none
of them can win or be hung up, and no payload knows them) is what the others
stand on.  `WinInv` adds that the whole batch of a winner, and each call being
hung up, is out of activeCalls, so neither can be answered again or lose
(`WinnerNotHungUpCorrect`, `OneWinnerPerBatchCorrect`).  `AttrInv` speaks of the
payloads in the handlers' hands and of the pairing still to be made, where
`FullRank` shows that the position in the list of created calls is that of the
lead unless a creation failed before it (`FullBatchAttributedCorrect`).
`StatsInv` keeps counter and record together in every payload and leaves
room for the calls still to be recorded, which are placed and not counted;
`ExactInv` adds the answers detected (`StatsMatchRecordsCorrect`,
`CountersExactCorrect`).

`RetryStreamProofs`. `TypeInv` adds to `TypeOK` the `Shape` of each container:
it has work left while it is working, that work is pending for it until the
XACK, and what it holds was due when its drain began. With it `OneHolder` is
inductive: a poll adds to a pending list only what lies behind the cursor, which
nobody had. For `NothingLost` a retry is looked at by its `Places`: with a
container that has yet to send it, in the stream, or in the hands of a container
whose run has returned. `Effects` reduces every step to one of six effects on
them: all rest, one appears, begins, moves or settles, or some are lost. So a
retry is in one place at most while XACKs get through (`Apart`), and in some
place without faults (`Kept`). `EntryDescribed` reads what the policy sees of a
retry off its place, and each effect becomes a step of the policy or one it does
not see (`StreamRefinesPolicy`).

`QueuesProofs`. What the scan of the deque keeps (`ScanKeeps`: the entries asked
for, none of them twice) is needed for a deque of any length. The library's
induction theorems cannot be used, so it is shown by least counterexample: the
positions where it fails would have a least one (`LeastNumber`, from the
well-foundedness of the naturals), and the position before contradicts it.
`PlaceOK` says where a retry is: in the deque or in `ready`, once and without an
outcome, and, unless the loop has lost some, in one of them or settled; it gives
`OnePlace`. The refinement (`MemoryRefinesPolicy`) goes as for the stream,
`Outstanding` being the attempts still to be made. `EachQueueRuns` shows that
the steps of `MCQueues` are steps of the dialer or of the queue that leave the
other alone, so that what is proved of each holds of both (`QueuesTyped`).

`EmailSequencesProofs`. `SequencesTyped` adds `Working` to the types: only
servers that are up have a run, a timer to answer or the lock. `Mutex` rests on
`Holds`: a run that is going belongs to the server whose session has the lock,
and the lock's count is at least the number of its runs, so that an unlock on
the right session frees it only after the last of them. (Two runs of one server
exist only if the session took the lock twice, hence the two slots.)
`NoDoubleSends` adds `Single` (without an overlap, one run is going), `Unlogged`
(what it is about to send or log has no log) and `Accounted` (a delivered
message is in the logs or about to be); the latter two hold until the first
fault but a failing query. `PageLogged` needs neither: by `CoverInv`, what a run has taken off its
list has a log or cannot be reached.

`ServicesProofs`. Of the contracts: `ContractsInv` adds what the checks of each
handler let through (`Saw`), and that without a stale write tokens only move on
(`LinksMoveOn`); then a signed token is an old one, or the contract is signed or
voided, where `Signable` refuses (`Accepted`). Of the reminders: `HeldOnce`
(only a doubtful task is in the hands of two runs) and `AnnouncedIsMarked` (a
task announced once is being marked, marked or deleted) carry `AnnouncedOnce`
through any edits between them. Of the breaker: the stored state is never
`half_open`, so the calls admitted while open never exceed the probes counted,
which gives `FewProbes`. Of the session: while the file is gone, and for the one
context that logs in, there is a loss that the logins have not used up
(`LoginsPaid`). `EachServiceRuns` shows that a step of one service leaves the
others alone, so that each behaves by its own specification and all keep to
their types (`ServicesTyped`).

`ScraperJobsProofs`. `RowStep` names everyone who writes a row, `RunStep` and
`EntryStep` what becomes of a run and of a queue entry. `Pledged` (whoever is
about to write `retry_pending` has a retry that has not begun, because its
backoff outlasts that write) gives `PendingIsPledged` and `SettledForGood`;
`RaisedIsFault` (a runner raises only after a write of its row has) gives
`NoOrphans`; `Held` (without faults a checkpoint belongs to a run between its
save and its delete) gives `NotRequeued`.

`LookupsProofs`. For any number of keys: after n tries of a request that is
alone, the n keys behind the index have been asked or are depleted
(`AloneAsks`); `FirstUsableIs` shows that `getNextApiKey` skips depleted keys
only, and `StepsBehind` how the places shift as the index moves round, so that
after as many tries as keys all have been met. `Least` takes the first usable
key from the library's well-foundedness of the naturals.

`CallsProofs`. Of the row: whoever inserted it has ended and did not race
(`Inserted`), and a handler that ended has said its word (`Said`); only a report
changes a status that is there, and one that came before the row is `missed`
(`ReportShown`). Of the agent:
only the stream's session is ever marked as processed, by one run, which stands
where leads and confirmations say (`EndedOnce`); without a fault the log follows
(`LogFollows`) and only a repeated webhook has no log (`FirstIsLogged`). Of the
texts: whoever is on the way to a number that has opted out was so when the
opt-out was stored, because `sendSms` asks last (`StopRespected`). While replies
do not overlap, the log is short of what was sent by the one reply between its
send and its log (`RepliesCounted`).

Only proved: the types of `EmailSequences` (`SequencesTyped`), which its run leaves
out.  Only model-checked: liveness (`JobsSettle`, `NoneWaitsForever`,
`SessionCloses`), which needs `ENABLED` and is beyond the prover. Every other
property of a passing run is a theorem.

## Not modelled

Reading endpoints; `pruneExpiredJobs`, which has no caller; texts, prices and
formats; the propelio and propwire runners, of the same shape as the two
modelled; the CRUD routes and third-party clients, which keep no state between
requests.  More than half of the repository's lines are pages, generated clients,
scrapers that parse web sites, and handlers of one statement: they have no
behaviour over time to check.  The proxy pool has no caller and the browser pool
only a debug endpoint; SSE tokens are taken out in one synchronous step.  Twilio,
OpenAI, Dropbox Sign, Redis, Postgres and S3 are modelled by what the code relies
on.  Copies of a job in Redis and in memory are left out of `ScraperJobs`, and of
the spot shutdown only its outcome is in it: its deadlines are timing.

## What could follow

1. Job copies on top of `ScraperJobs`: that a poll never goes back from a
   settled status in one container.
2. The shutdown of `spot_handler.py` with its callbacks, in place of the crash.
3. Proofs: that `ScraperJobs` over either backend's own steps implements
   `ScraperJobs` over `RetryPolicy`.

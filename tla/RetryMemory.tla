---------------------------- MODULE RetryMemory ----------------------------
(***************************************************************************)
(* The in-memory backend of the retry queue (workers/retry_queue.py): a    *)
(* deque that enqueue appends to, and one loop that takes out the entries  *)
(* whose backoff is over and runs them one after the other.                *)
(*                                                                         *)
(* asyncio switches tasks at an await only, so enqueue and the scan of the *)
(* deque are single actions; other tasks enqueue while a runner is awaited.*)
(***************************************************************************)
EXTENDS Integers, Sequences, SequencesExt

CONSTANTS
    MemoryTicket,    \* calls of enqueue with attempt = 0
    MemoryAttempts,  \* MAX_ATTEMPTS
    MaxQueueSize,  \* MAX_QUEUE_SIZE
    MaxRaises      \* bound: callbacks that raise

ASSUME MemoryAssumption ==
    /\ MemoryAttempts \in Nat \ {0}
    /\ MaxQueueSize \in Nat \ {0}
    /\ MaxRaises \in Nat

VARIABLES
    deque,      \* _deque: entries [ticket, attempt, due]; due once retry_at has passed
    ready,      \* the local list of _drain_once_memory
    loop,       \* where the drain loop is
    accepted,   \* history: tickets enqueue returned True for
    refused,    \* history: tickets enqueue returned False for
    succeeded,  \* history: tickets whose on_success returned
    exhausted,  \* history: tickets whose on_exhaust returned
    overflowed, \* history: tickets whose next attempt met a full deque
    raises      \* what is left of MaxRaises

history == <<accepted, refused, succeeded, exhausted, overflowed>>
memoryVars == <<deque, ready, loop, history, raises>>

PendingRetry == [ticket : MemoryTicket, attempt : 0..MemoryAttempts-1, due : BOOLEAN]

FullByOne == Len(deque) > MaxQueueSize

Full == Len(deque) >= MaxQueueSize

MemoryInit ==
    /\ deque = << >> /\ ready = << >>
    /\ loop = "poll"
    /\ accepted = {} /\ refused = {} /\ succeeded = {} /\ exhausted = {} /\ overflowed = {}
    /\ raises = MaxRaises

Pushed(t, n) == Append(deque, [ticket |-> t, attempt |-> n, due |-> FALSE])

\* enqueue with attempt = 0.
EnqueueInMemory(t) ==
    /\ t \notin accepted \cup refused
    /\ IF Full
       THEN /\ refused' = refused \cup {t}
            /\ UNCHANGED <<deque, accepted>>
       ELSE /\ deque' = Pushed(t, 0)
            /\ accepted' = accepted \cup {t}
            /\ UNCHANGED refused
    /\ UNCHANGED <<ready, loop, succeeded, exhausted, overflowed, raises>>

\* The backoff of an entry is over.
Elapse(i) ==
    /\ ~deque[i].due
    /\ deque' = [deque EXCEPT ![i].due = TRUE]
    /\ UNCHANGED <<ready, loop, history, raises>>

\* The entries of the deque whose backoff is over, or is not, in their order.
Scan(due) ==
    LET kept[i \in 0..Len(deque)] ==
            IF i = 0 THEN << >>
            ELSE IF deque[i].due = due THEN Append(kept[i-1], deque[i]) ELSE kept[i-1]
    IN  kept[Len(deque)]

EmptiedDeque == << >>
WholeDeque == deque

Remaining == Scan(FALSE)

\* The scan of the deque (one that finds nothing changes nothing).
Drain ==
    /\ loop = "poll"
    /\ Scan(TRUE) # << >>
    /\ ready' = Scan(TRUE)
    /\ deque' = Remaining
    /\ loop' = "next"
    /\ UNCHANGED <<history, raises>>

RunFirst ==
    /\ loop = "next"
    /\ loop' = "run"
    /\ UNCHANGED <<deque, ready, history, raises>>

OneEntryPerPoll ==
    /\ ready' = Tail(ready)
    /\ loop' = "poll"

\* On to the next ready entry, or back to sleep.
NextEntry ==
    /\ ready' = Tail(ready)
    /\ loop' = IF Len(ready) = 1 THEN "poll" ELSE "next"

RunSucceeds ==
    /\ loop = "run"
    /\ NextEntry
    /\ succeeded' = succeeded \cup {Head(ready).ticket}
    /\ UNCHANGED <<deque, accepted, refused, exhausted, overflowed, raises>>

SameAttempt(e) == e.attempt
NextAttempt(e) == e.attempt + 1

\* The runner raises, or on_success does after it: enqueue with the next
\* attempt.  When the deque is full it returns False, which the loop ignores.
RunFailsAgain ==
    /\ loop = "run"
    /\ NextAttempt(Head(ready)) < MemoryAttempts
    /\ IF Full
       THEN overflowed' = overflowed \cup {Head(ready).ticket} /\ UNCHANGED deque
       ELSE deque' = Pushed(Head(ready).ticket, NextAttempt(Head(ready))) /\ UNCHANGED overflowed
    /\ NextEntry
    /\ UNCHANGED <<accepted, refused, succeeded, exhausted, raises>>

RunExhausts ==
    /\ loop = "run"
    /\ NextAttempt(Head(ready)) >= MemoryAttempts
    /\ NextEntry
    /\ exhausted' = exhausted \cup {Head(ready).ticket}
    /\ UNCHANGED <<deque, accepted, refused, succeeded, overflowed, raises>>

\* on_exhaust raises: the loop logs it and sleeps; the rest of ready is gone.
ExhaustCallbackRaises ==
    /\ loop = "run"
    /\ NextAttempt(Head(ready)) >= MemoryAttempts
    /\ raises > 0 /\ raises' = raises - 1
    /\ ready' = << >>
    /\ loop' = "poll"
    /\ UNCHANGED <<deque, history>>

\* stop() cancels the loop wherever it is; enqueue goes on accepting.
Stop ==
    /\ loop # "stopped"
    /\ loop' = "stopped"
    /\ ready' = << >>
    /\ UNCHANGED <<deque, history, raises>>

MemoryNext ==
    \/ \E t \in MemoryTicket : EnqueueInMemory(t)
    \/ \E i \in DOMAIN deque : Elapse(i)
    \/ Drain \/ RunFirst \/ RunSucceeds \/ RunFailsAgain \/ RunExhausts
    \/ ExhaustCallbackRaises \/ Stop

MemorySpec == MemoryInit /\ [][MemoryNext]_memoryVars

(* Backoffs end, the loop polls every POLL_INTERVAL seconds, and a runner    *)
(* returns or raises: each is capped by a timeout.                           *)
MemoryFairness ==
    /\ WF_memoryVars(\E i \in DOMAIN deque : Elapse(i))
    /\ WF_memoryVars(Drain) /\ WF_memoryVars(RunFirst)
    /\ WF_memoryVars(RunSucceeds \/ RunFailsAgain \/ RunExhausts)

MemoryFairSpec == MemorySpec /\ MemoryFairness

----------------------------------------------------------------------------
(* Properties *)

TicketsIn(s) == {s[i].ticket : i \in DOMAIN s}

MemoryTypeOK ==
    /\ deque \in Seq(PendingRetry) /\ ready \in Seq(PendingRetry)
    /\ loop \in {"poll", "next", "run", "stopped"}
    /\ loop \in {"next", "run"} <=> ready # << >>
    /\ accepted \subseteq MemoryTicket /\ refused \subseteq MemoryTicket
    /\ succeeded \cup exhausted \cup overflowed \subseteq accepted
    /\ raises \in 0..MaxRaises
    /\ Len(deque) <= MaxQueueSize

\* The backend keeps the promise of the retry policy: attempts one by one, no
\* run after the end, no more runs than attempts.
Running == IF loop = "run" THEN {Head(ready).ticket} ELSE {}
Waiting == TicketsIn(deque) \cup (TicketsIn(ready) \ Running)

AttemptOf(t) ==
    LET e == CHOOSE e \in ToSet(deque) \cup ToSet(ready) : e.ticket = t IN e.attempt

EntryOf(t) ==
    IF t \in Running THEN [phase |-> "running", attempt |-> AttemptOf(t)]
    ELSE IF t \in Waiting THEN [phase |-> "waiting", attempt |-> AttemptOf(t)]
    ELSE [ phase |-> IF t \in succeeded THEN "succeeded"
                     ELSE IF t \in exhausted THEN "exhausted"
                     ELSE IF t \in refused THEN "refused"
                     ELSE IF t \in accepted THEN "dropped"
                     ELSE "none",
           attempt |-> 0 ]

Entries == [t \in MemoryTicket |-> EntryOf(t)]

Policy == INSTANCE RetryPolicy WITH Ticket <- MemoryTicket, MaxAttempts <- MemoryAttempts,
                                      entry <- Entries

RefinesPolicy == Policy!Spec

\* Each accepted retry is in exactly one place: the deque, the list being run,
\* or settled.  Only a full deque, a raising on_exhaust or stop() loses one.
OnePlace ==
    LET places == <<TicketsIn(deque), TicketsIn(ready), succeeded, exhausted, overflowed>>
    IN  /\ \A i, j \in DOMAIN places : i # j => places[i] \cap places[j] = {}
        /\ Len(deque) = Cardinality(TicketsIn(deque)) /\ Len(ready) = Cardinality(TicketsIn(ready))
        /\ raises = MaxRaises /\ loop # "stopped" => accepted = UNION ToSet(places)

\* An accepted retry does not wait for ever, as long as the loop is not stopped.
NoneWaitsForever ==
    \A t \in MemoryTicket : t \in accepted ~> (t \notin Running \cup Waiting \/ loop = "stopped")
=============================================================================

---------------------------- MODULE RetryStream ----------------------------
(***************************************************************************)
(* The Redis Streams backend of the retry queue (workers/retry_queue.py):  *)
(* one stream, one consumer group, and a drain loop in every container.    *)
(* A container is a consumer of its own (hostname-pid), so a restarted one *)
(* is another member of Worker.                                            *)
(*                                                                         *)
(* Redis is external: XADD appends; XREADGROUP with ">" hands the next     *)
(* messages to the consumer and lists them as pending for it; with "0" it  *)
(* lists its pending messages again; XACK removes one from its list.       *)
(***************************************************************************)
EXTENDS Integers, Sequences, FiniteSets, FiniteSetsExt

CONSTANTS
    Worker,       \* containers, each with its own consumer name
    Ticket,       \* calls of enqueue with attempt = 0
    MaxAttempts,  \* MAX_ATTEMPTS
    BatchSize,    \* _BATCH_SIZE
    MaxFaults     \* bound: kinds of faults that happen, each once

ASSUME StreamAssumption ==
    /\ MaxAttempts \in Nat \ {0}
    /\ BatchSize \in Nat \ {0}
    /\ MaxFaults \in Nat
    /\ IsFiniteSet(Worker) /\ IsFiniteSet(Ticket)

VARIABLES
    stream,    \* the messages ever added: [ticket, attempt]; an id is an index
    cursor,    \* how many of them the group has delivered
    pel,       \* per worker: ids delivered to it and not acknowledged
    due,       \* ids whose retry_at has passed
    worker,    \* per worker: its drain loop
    sending,   \* per worker: tickets accepted whose XADD is still to come
    accepted,  \* history: tickets enqueue returned True for
    ran,       \* history: tickets a runner was called for
    succeeded, \* history: tickets whose on_success returned
    exhausted, \* history: tickets whose on_exhaust returned
    faults     \* history: the faults that have happened

vars == <<stream, cursor, pel, due, worker, sending, accepted, ran, succeeded, exhausted, faults>>

Id == DOMAIN stream

Message == [ticket : Ticket, attempt : 0..MaxAttempts-1]

\* todo: the ids of all_msgs still to handle, in the order of the stream (what is read
\* again was delivered before what is new); now: the ids due when the drain began.
Asleep == [at |-> "poll", todo |-> {}, now |-> {}]
Down   == [Asleep EXCEPT !.at = "down"]
Gone   == [Asleep EXCEPT !.at = "gone"]

Up(w) == worker[w].at \notin {"down", "gone"}

Fault == {"crash", "xadd", "xack", "read", "callback"}

Happens(f) == f \notin faults /\ Cardinality(faults) < MaxFaults /\ faults' = faults \cup {f}

Init ==
    /\ stream = << >> /\ cursor = 0 /\ due = {}
    /\ pel = [w \in Worker |-> {}]
    /\ worker = [w \in Worker |-> Down]
    /\ sending = [w \in Worker |-> {}]
    /\ accepted = {} /\ succeeded = {} /\ exhausted = {}
    /\ ran = {}
    /\ faults = {}

----------------------------------------------------------------------------
(* Containers and enqueue *)

\* init (which creates the group if it is new) and start.
Start(w) ==
    /\ worker[w] = Down
    /\ worker' = [worker EXCEPT ![w] = Asleep]
    /\ UNCHANGED <<stream, cursor, pel, due, sending, accepted, ran, succeeded, exhausted, faults>>

\* The container dies (or is replaced); its pending list stays in Redis.
Crash(w) ==
    /\ Up(w)
    /\ Happens("crash")
    /\ worker' = [worker EXCEPT ![w] = Gone]
    /\ sending' = [sending EXCEPT ![w] = {}]
    /\ UNCHANGED <<stream, cursor, pel, due, accepted, ran, succeeded, exhausted>>

\* enqueue starts a task for the XADD and returns True.
Enqueue(w, t) ==
    /\ Up(w)
    /\ t \notin accepted
    /\ accepted' = accepted \cup {t}
    /\ sending' = [sending EXCEPT ![w] = @ \cup {t}]
    /\ UNCHANGED <<stream, cursor, pel, due, worker, ran, succeeded, exhausted, faults>>

\* _stream_enqueue logs an error of XADD and returns False, which no caller reads.
Add(t, n) ==
    \/ stream' = Append(stream, [ticket |-> t, attempt |-> n]) /\ UNCHANGED faults
    \/ Happens("xadd") /\ UNCHANGED stream

AsyncEnqueue(w, t) ==
    /\ t \in sending[w]
    /\ Add(t, 0)
    /\ sending' = [sending EXCEPT ![w] = @ \ {t}]
    /\ UNCHANGED <<cursor, pel, due, worker, accepted, ran, succeeded, exhausted>>

\* retry_at of a message passes.
Elapse(i) ==
    /\ i \notin due
    /\ due' = due \cup {i}
    /\ UNCHANGED <<stream, cursor, pel, worker, sending, accepted, ran, succeeded, exhausted, faults>>

----------------------------------------------------------------------------
(* _stream_drain_once *)

\* The first BatchSize of a set of ids, in the order of the stream.
Batch(S) == {i \in S : Cardinality({j \in S : j < i}) < BatchSize}

\* `now` is taken; the consumer's pending messages are read again.
ReadPending(w) ==
    /\ worker[w].at = "poll"
    /\ stream # << >>
    /\ worker' = [worker EXCEPT ![w] = [at |-> "block", todo |-> Batch(pel[w]), now |-> due]]
    /\ UNCHANGED <<stream, cursor, pel, due, sending, accepted, ran, succeeded, exhausted, faults>>

StuckCursor   == cursor
SkippedCursor == Len(stream)

\* The group's position after delivering the next messages.
Delivered == IF cursor + BatchSize < Len(stream) THEN cursor + BatchSize ELSE Len(stream)

\* New messages: block=0 waits until there is one.
ReadNew(w) ==
    /\ worker[w].at = "block"
    /\ cursor < Len(stream)
    /\ LET new == Batch(cursor+1..Len(stream))
       IN  /\ worker' = [worker EXCEPT ![w].at = "next", ![w].todo = @ \cup new]
           /\ pel' = [pel EXCEPT ![w] = @ \cup new]
    /\ cursor' = Delivered
    /\ UNCHANGED <<stream, due, sending, accepted, ran, succeeded, exhausted, faults>>

\* The wait is cut off by the socket timeout (3 s), or the connection fails:
\* the pending messages that were read are not handled either.
ReadFails(w) ==
    /\ worker[w].at = "block"
    /\ \/ cursor = Len(stream) /\ UNCHANGED faults
       \/ Happens("read")
    /\ worker' = [worker EXCEPT ![w] = Asleep]
    /\ UNCHANGED <<stream, cursor, pel, due, sending, accepted, ran, succeeded, exhausted>>

Current(w) == Min(worker[w].todo)
TicketOf(w) == stream[Current(w)].ticket

\* On to the next message, or back to sleep.
Onward(w) ==
    LET rest == worker[w].todo \ {Current(w)}
    IN  worker' = [worker EXCEPT ![w] =
            IF rest = {} THEN Asleep ELSE [at |-> "next", todo |-> rest, now |-> worker[w].now]]

DueAlways(w) == TRUE

Due(w) == Current(w) \in worker[w].now

\* Not ready yet: left for a later poll.
Skip(w) ==
    /\ worker[w].at = "next"
    /\ ~Due(w)
    /\ Onward(w)
    /\ UNCHANGED <<stream, cursor, pel, due, sending, accepted, ran, succeeded, exhausted, faults>>

Run(w) ==
    /\ worker[w].at = "next"
    /\ Due(w)
    /\ worker' = [worker EXCEPT ![w].at = "run"]
    /\ ran' = ran \cup {TicketOf(w)}
    /\ UNCHANGED <<stream, cursor, pel, due, sending, accepted, succeeded, exhausted, faults>>

Unacked(w) == pel

Acked(w) == [pel EXCEPT ![w] = @ \ {Current(w)}]

\* The runner returns or raises, and the message is acknowledged; _ack
\* swallows its error.
Return(w) ==
    /\ worker[w].at = "run"
    /\ \E next \in {"success", "again"} : worker' = [worker EXCEPT ![w].at = next]
    /\ \/ pel' = Acked(w) /\ UNCHANGED faults
       \/ Happens("xack") /\ UNCHANGED pel
    /\ UNCHANGED <<stream, cursor, due, sending, accepted, ran, succeeded, exhausted>>

\* on_success; if it raises, the message is acknowledged again and the run
\* counts as failed.
Succeed(w) ==
    /\ worker[w].at = "success"
    /\ \/ /\ succeeded' = succeeded \cup {TicketOf(w)}
          /\ Onward(w)
          /\ UNCHANGED <<pel, faults>>
       \/ /\ Happens("callback")
          /\ worker' = [worker EXCEPT ![w].at = "again"]
          /\ \/ pel' = Acked(w)
             \/ "xack" \in faults /\ UNCHANGED pel
          /\ UNCHANGED succeeded
    /\ UNCHANGED <<stream, cursor, due, sending, accepted, ran, exhausted>>

SameAttempt(w) == stream[Current(w)].attempt

NextAttempt(w) == stream[Current(w)].attempt + 1

ExhaustedLate(w) == NextAttempt(w) > MaxAttempts

Exhausted(w) == NextAttempt(w) >= MaxAttempts

\* The message of the next attempt is added under a new id.
Again(w) ==
    /\ worker[w].at = "again"
    /\ ~Exhausted(w)
    /\ Add(TicketOf(w), NextAttempt(w))
    /\ Onward(w)
    /\ UNCHANGED <<cursor, pel, due, sending, accepted, ran, succeeded, exhausted>>

\* on_exhaust; if it raises, the loop logs it and the rest of the batch is left.
Exhaust(w) ==
    /\ worker[w].at = "again"
    /\ Exhausted(w)
    /\ \/ /\ exhausted' = exhausted \cup {TicketOf(w)}
          /\ Onward(w)
          /\ UNCHANGED faults
       \/ /\ Happens("callback")
          /\ worker' = [worker EXCEPT ![w] = Asleep]
          /\ UNCHANGED exhausted
    /\ UNCHANGED <<stream, cursor, pel, due, sending, accepted, ran, succeeded>>

Drain(w) ==
    \/ ReadPending(w) \/ ReadNew(w) \/ ReadFails(w) \/ Skip(w) \/ Run(w)
    \/ Return(w) \/ Succeed(w) \/ Again(w) \/ Exhaust(w)

Next ==
    \/ \E w \in Worker : \/ Start(w) \/ Crash(w) \/ Drain(w)
                         \/ \E t \in Ticket : Enqueue(w, t) \/ AsyncEnqueue(w, t)
    \/ \E i \in Id : Elapse(i)

Spec == Init /\ [][Next]_vars

(* Containers start, poll and run their handlers, and backoffs end.          *)
Fairness ==
    /\ \A w \in Worker : WF_vars(Start(w)) /\ WF_vars(Drain(w))
    /\ WF_vars(\E w \in Worker, t \in Ticket : AsyncEnqueue(w, t))
    /\ WF_vars(\E i \in Id : Elapse(i))

FairSpec == Spec /\ Fairness

----------------------------------------------------------------------------
(* Properties that hold *)

\* What is pending was delivered, what a loop holds is due, what ended was accepted.
TypeOK ==
    /\ stream \in Seq(Message)
    /\ cursor \in 0..Len(stream)
    /\ due \subseteq Id
    /\ pel \in [Worker -> SUBSET (1..cursor)]
    /\ worker \in [Worker -> [at   : {"down", "gone", "poll", "block", "next", "run", "success", "again"},
                              todo : SUBSET Id, now : SUBSET due]]
    /\ sending \in [Worker -> SUBSET accepted]
    /\ accepted \subseteq Ticket
    /\ ran \subseteq accepted
    /\ succeeded \cup exhausted \subseteq accepted
    /\ faults \subseteq Fault

Held(w) == worker[w].at \in {"run", "success", "again"}

\* Containers share the queue: no message is pending for two of them, and one
\* that is run is past its backoff.
OneHolder ==
    /\ \A v, w \in Worker : v # w => pel[v] \cap pel[w] = {}
    /\ \A w \in Worker : Held(w) => Current(w) \in due

\* Messages of a ticket that some container may still run.
Live(t) == {i \in Id : /\ stream[i].ticket = t
                       /\ i > cursor \/ \E w \in Worker : Up(w) /\ i \in pel[w]}

Sending(t) == \E w \in Worker : t \in sending[w]
InHand(t)  == \E w \in Worker : Held(w) /\ TicketOf(w) = t

\* Without a fault no accepted retry is lost, whatever containers do in
\* between: it is settled, or it is on its way to Redis, waits there in
\* exactly one message, or is being run.
NothingLost ==
    faults = {} =>
        \A t \in accepted :
            \/ t \in succeeded \cup exhausted /\ Live(t) = {}
            \/ Sending(t) /\ Live(t) = {}
            \/ Cardinality(Live(t)) = 1
            \/ InHand(t) /\ Live(t) = {}

\* As long as acknowledgements get through, the backend keeps the promise of
\* the retry policy; what a dead consumer had pending counts as dropped.
AttemptOf(t) ==
    IF InHand(t) THEN stream[Current(CHOOSE w \in Worker : Held(w) /\ TicketOf(w) = t)].attempt
    ELSE IF Live(t) # {} THEN stream[CHOOSE i \in Live(t) : TRUE].attempt
    ELSE 0

EntryOf(t) ==
    [ phase |-> IF t \notin accepted THEN "none"
                ELSE IF InHand(t) THEN "running"
                ELSE IF Sending(t) \/ Live(t) # {} THEN "waiting"
                ELSE IF t \in succeeded THEN "succeeded"
                ELSE IF t \in exhausted THEN "exhausted"
                ELSE "dropped",
      attempt |-> AttemptOf(t) ]

Entries == [t \in Ticket |-> EntryOf(t)]

Policy == INSTANCE RetryPolicy WITH entry <- Entries

RefinesPolicy == Policy!Init /\ [][Policy!Next \/ "xack" \in faults']_Entries

----------------------------------------------------------------------------
(* What a message says, and the code does not do *)

\* workers/main.py:2519, "Job re-queued - will execute within 30 seconds": a
\* queued retry is run in the end.
RetriesRun == \A t \in Ticket : t \in accepted ~> t \in ran

\* retry_queue.py:6, "Survives container restarts (Fargate Spot interruptions)":
\* a retry that has reached Redis is not dropped by crashes alone.
SurvivesRestarts ==
    \A i \in DOMAIN stream :
        faults \subseteq {"crash"} => EntryOf(stream[i].ticket).phase # "dropped"
=============================================================================

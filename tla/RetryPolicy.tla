---------------------------- MODULE RetryPolicy ----------------------------
(***************************************************************************)
(* What the retry queue of the scraper engine (workers/retry_queue.py)     *)
(* promises, whichever backend it runs on: an accepted retry is run at     *)
(* most MaxAttempts times, one run after the other, until a run succeeds   *)
(* or the attempts are exhausted; it is never run after that.  It may be   *)
(* dropped, and then it is never run again either.                         *)
(***************************************************************************)
EXTENDS Integers

CONSTANTS
    Ticket,       \* the retries callers ask for, each with attempt = 0
    MaxAttempts   \* MAX_ATTEMPTS, at least 1

VARIABLE entry   \* [Ticket -> Entry]

Phase == {"none", "refused", "waiting", "running", "succeeded", "exhausted", "dropped"}

\* attempt counts the failed runs of a retry that is still waiting or running.
Entry == [phase : Phase, attempt : 0..MaxAttempts-1]

In(ph) == [phase |-> ph, attempt |-> 0]

Alive(t) == entry[t].phase \in {"waiting", "running"}

Init == entry = [t \in Ticket |-> In("none")]

Accept(t) == entry[t] = In("none") /\ entry' = [entry EXCEPT ![t] = In("waiting")]

Refuse(t) == entry[t] = In("none") /\ entry' = [entry EXCEPT ![t] = In("refused")]

Start(t) == entry[t].phase = "waiting" /\ entry' = [entry EXCEPT ![t].phase = "running"]

Succeed(t) == entry[t].phase = "running" /\ entry' = [entry EXCEPT ![t] = In("succeeded")]

Again(t) ==
    /\ entry[t].phase = "running"
    /\ entry[t].attempt + 1 < MaxAttempts
    /\ entry' = [entry EXCEPT ![t] = [phase |-> "waiting", attempt |-> @.attempt + 1]]

Exhaust(t) ==
    /\ entry[t].phase = "running"
    /\ entry[t].attempt + 1 = MaxAttempts
    /\ entry' = [entry EXCEPT ![t] = In("exhausted")]

Drop(S) ==
    /\ S # {}
    /\ \A t \in S : Alive(t)
    /\ entry' = [t \in Ticket |-> IF t \in S THEN In("dropped") ELSE entry[t]]

Next ==
    \/ \E t \in Ticket : \/ Accept(t) \/ Refuse(t) \/ Start(t)
                         \/ Succeed(t) \/ Again(t) \/ Exhaust(t)
    \/ \E S \in SUBSET Ticket : Drop(S)

Spec == Init /\ [][Next]_entry
=============================================================================

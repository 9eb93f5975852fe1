---------------------------- MODULE PowerDialer ----------------------------
(***************************************************************************)
(* One power-dial session of the API server                                *)
(* (artifacts/api-server/src/routes/twilio-power-dialer.ts), its row in    *)
(* crm_background_jobs, and the Twilio calls it starts.                    *)
(*                                                                         *)
(* A handler that awaits is several actions.  What it read before the      *)
(* await is kept in its slot (dial, dispo, cb[c]) and used after it, as    *)
(* the code keeps `p`.  The `db.transaction` blocks, which lock the row    *)
(* with FOR UPDATE, are single actions.                                    *)
(*                                                                         *)
(* The dialer page keeps at most one /call and one /disposition request    *)
(* in flight (calling, disposingId), so each has one slot; /call-status    *)
(* has one slot per call.  A handler may stop at any await, because the    *)
(* await throws or because the process dies: the actions *Aborts.          *)
(***************************************************************************)
EXTENDS Integers, Sequences, FiniteSets

CONSTANTS
    Lead,          \* lead ids
    Queue,         \* payload.leadIds, in dialing order
    HasPhone,      \* the leads whose row has a phone number
    Lines,         \* payload.lines
    Call,          \* call SIDs Twilio can hand out: the bound on placed calls
    NoCall,        \* null, where a call SID may stand
    NoLead,        \* no lead: a SID without an entry in activeCalls
    Disposition,   \* the results the agent may log
    Inferred,      \* what the duration of a completed call may tell
    MaxDials,        \* bound: /call requests the page sends
    MaxDispositions, \* bound: /disposition requests the page sends
    MaxFaults,       \* bound: handlers that stop half-way, failed Twilio requests
    MaxLate          \* bound: AMD answers written after the end of their call

ValidDisposition == {"answered", "no_answer", "voicemail", "dnc", "callback", "skip"}

\* leadIds are the primary keys of distinct rows; an empty list is refused.
ASSUME QueueAssumption ==
    /\ Queue \in Seq(Lead)
    /\ Len(Queue) > 0
    /\ \A i, j \in 1..Len(Queue) : Queue[i] = Queue[j] => i = j
\* lines = Math.min(Math.max(1, lines), 5)
ASSUME LinesAssumption == Lines \in 1..5
ASSUME SetsAssumption ==
    /\ HasPhone \subseteq Lead
    /\ IsFiniteSet(Lead)
    /\ IsFiniteSet(Call)
    /\ NoCall \notin Call
    /\ NoLead \notin Lead
    /\ Disposition \subseteq ValidDisposition
    /\ Inferred \subseteq {"answered", "no_answer"}
ASSUME BoundsAssumption ==
    MaxDials \in Nat /\ MaxDispositions \in Nat /\ MaxFaults \in Nat /\ MaxLate \in Nat

VARIABLES
    open,      \* the client holds the session id
    status,    \* crm_background_jobs.status
    payload,   \* crm_background_jobs.payload
    dial,      \* POST /session/:id/call in progress
    dispo,     \* POST /session/:id/disposition in progress
    cb,        \* per call: POST /call-status, due or in progress
    call,      \* per call: what Twilio knows of it, and its history
    callLog,   \* per call: the lead and disposition of its crm_call_logs row
    dnc,       \* leads whose status is "dnc"
    lost,      \* history: a payload was overwritten by one computed from an
               \* older payload
    left       \* what is left of the four bounds

vars == <<open, status, payload, dial, dispo, cb, call, callLog, dnc, lost, left>>

----------------------------------------------------------------------------
(* Data *)

Counter == {"called", "answered", "voicemail", "noAnswer", "dnc", "callback"}

Record == [lead : Lead, disposition : ValidDisposition, call : Call \cup {NoCall}]

Payload ==
    [ index  : Nat,                          \* currentIndex, from 0
      cur    : Call \cup {NoCall},           \* currentCallSid
      batch  : SUBSET Lead,                  \* currentBatchLeadIds
      active : [Call -> Lead \cup {NoLead}], \* activeCalls
      stats  : [Counter -> Nat],
      dispositions : Seq(Record) ]

InitPayload ==
    [ index |-> 0, cur |-> NoCall, batch |-> {},
      active |-> [c \in Call |-> NoLead],
      stats |-> [k \in Counter |-> 0],
      dispositions |-> << >> ]

CallState ==
    [ lead   : Lead \cup {NoLead},
      batch  : SUBSET Call,      \* the calls placed by the same request
      full   : BOOLEAN,          \* every creation of that request succeeded
      state  : {"none", "live", "bridged", "ended"},
      amd    : {"none", "human", "machine"},
      won    : BOOLEAN,          \* answered by a human while in activeCalls
      hangup : {"no", "asked", "tried"} ]

NotPlaced ==
    [ lead |-> NoLead, batch |-> {}, full |-> FALSE, state |-> "none",
      amd |-> "none", won |-> FALSE, hangup |-> "no" ]

Placed == {c \in Call : call[c].state # "none"}

\* Faulty variants, each before the definition it stands for in a mutation run.
SwappedStatOf ==
    [ answered |-> "voicemail", no_answer |-> "noAnswer", voicemail |-> "answered",
      dnc |-> "dnc", callback |-> "callback" ]

StatOf ==
    [ answered |-> "answered", no_answer |-> "noAnswer", voicemail |-> "voicemail",
      dnc |-> "dnc", callback |-> "callback" ]

BumpDown(p, k) == [p EXCEPT !.stats[k] = @ - 1]

Bump(p, k) == [p EXCEPT !.stats[k] = @ + 1]

CurrentLead(p) == Queue[p.index + 1]
Exhausted(p)   == p.index >= Len(Queue)

RecordOf(p, d) == [lead |-> CurrentLead(p), disposition |-> d, call |-> p.cur]

UncountedRecord(p, d) ==
    IF d = "skip" THEN p ELSE [p EXCEPT !.dispositions = Append(@, RecordOf(p, d))]

\* Count the result and push its record; a skip does neither.
Recorded(p, d) ==
    IF d = "skip" THEN p
    ELSE [Bump(p, StatOf[d]) EXCEPT !.dispositions = Append(@, RecordOf(p, d))]

BatchSize(p) == Cardinality(p.batch)

\* Math.max(1, currentBatchLeadIds.length)
BatchAdvance(p) == IF p.batch = {} THEN 1 ELSE Cardinality(p.batch)

AdvanceTo(p) == [p EXCEPT !.index = BatchAdvance(p), !.cur = NoCall, !.batch = {}]

Advance(p) == [p EXCEPT !.index = @ + BatchAdvance(p), !.cur = NoCall, !.batch = {}]

\* The payload a handler writes that read p and logs d.
Disposed(p, d) == Advance(Recorded(p, d))

\* leadIds.slice(currentIndex, currentIndex + lines)
Window(p) == {Queue[i] : i \in {j \in 1..Len(Queue) : p.index < j /\ j <= p.index + Lines}}

Dialable(p) == Window(p) \cap HasPhone

\* The rows of `IN (batchIds)` come back in no particular order.
Orders(S) == {s \in [1..Cardinality(S) -> S] : \A i, j \in DOMAIN s : s[i] = s[j] => i = j}

----------------------------------------------------------------------------
(* Request slots *)

IdleDial   == [at |-> "idle", leads |-> << >>, sids |-> << >>]
IdleDispo  == [at |-> "idle", p |-> InitPayload, d |-> "skip"]
IdleStatus == [at |-> "idle", p |-> InitPayload, d |-> "skip"]

Bounds == [dials |-> MaxDials, dispositions |-> MaxDispositions, faults |-> MaxFaults,
           late |-> MaxLate]

Init ==
    /\ open = FALSE
    /\ status = "queued"
    /\ payload = InitPayload
    /\ dial = IdleDial
    /\ dispo = IdleDispo
    /\ cb = [c \in Call |-> IdleStatus]
    /\ call = [c \in Call |-> NotPlaced]
    /\ callLog = [c \in Call |-> [lead |-> NoLead, disposition |-> "none"]]
    /\ dnc = {}
    /\ lost = FALSE
    /\ left = Bounds

\* A step that uses up one of a bounded kind of events.
Spend(k) == left[k] > 0 /\ left' = [left EXCEPT ![k] = @ - 1]
Fault == Spend("faults")

----------------------------------------------------------------------------
(* POST /session and DELETE /session/:id *)

\* The row was inserted as queued; updateBackgroundJob swallows its error, so
\* the client may hold a session that never became running.
StartSession ==
    /\ ~open
    /\ open' = TRUE
    /\ \/ status' = "running" /\ UNCHANGED left
       \/ UNCHANGED status /\ Fault
    /\ UNCHANGED <<payload, dial, dispo, cb, call, callLog, dnc, lost>>

Delete ==
    /\ open
    /\ status' = "cancelled"
    /\ UNCHANGED <<open, payload, dial, dispo, cb, call, callLog, dnc, lost, left>>

----------------------------------------------------------------------------
(* POST /session/:id/call *)

CallRead ==
    /\ open
    /\ dial.at = "idle"
    /\ ~Exhausted(payload)
    /\ Dialable(payload) # {}
    /\ \E s \in Orders(Dialable(payload)) :
          dial' = [at |-> "place", leads |-> s, sids |-> << >>]
    /\ Spend("dials")
    /\ UNCHANGED <<open, status, payload, dispo, cb, call, callLog, dnc, lost>>

\* Promise.all of calls.create: sids[i] is the new call for leads[i], or NoCall
\* where the creation failed and was logged.
Creations(leads) ==
    {f \in [DOMAIN leads -> {c \in Call : call[c].state = "none"} \cup {NoCall}] :
        \A i, j \in DOMAIN f : f[i] = f[j] /\ f[i] # NoCall => i = j}

Created(sids) == {sids[i] : i \in DOMAIN sids} \ {NoCall}

CallPlace ==
    /\ dial.at = "place"
    /\ \E sids \in Creations(dial.leads) :
          /\ call' = [c \in Call |->
                IF c \notin Created(sids) THEN call[c]
                ELSE [NotPlaced EXCEPT
                        !.lead  = dial.leads[CHOOSE i \in DOMAIN sids : sids[i] = c],
                        !.batch = Created(sids),
                        !.full  = \A i \in DOMAIN sids : sids[i] # NoCall,
                        !.state = "live"]]
          /\ dial' = IF Created(sids) = {} THEN IdleDial
                     ELSE [dial EXCEPT !.at = "record", !.sids = sids]
          /\ IF \E i \in DOMAIN sids : sids[i] = NoCall THEN Fault ELSE UNCHANGED left
    /\ UNCHANGED <<open, status, payload, dispo, cb, callLog, dnc, lost>>

\* successCalls = the creations that succeeded, in order: the place of the
\* call sids[i] among them is Rank(sids, i).  The handler pairs successCalls[k]
\* with dialableLeads[k], so after a failed creation the leads shift.
Rank(sids, i) == Cardinality({j \in 1..i : sids[j] # NoCall})

PairedByQueue(c) ==
    Queue[Rank(dial.sids, CHOOSE i \in DOMAIN dial.sids : dial.sids[i] = c)]

PairedLead(c) == dial.leads[Rank(dial.sids, CHOOSE i \in DOMAIN dial.sids : dial.sids[i] = c)]

FirstCall == dial.sids[CHOOSE i \in DOMAIN dial.sids :
                          dial.sids[i] # NoCall /\ \A j \in 1..(i-1) : dial.sids[j] = NoCall]

\* The locked transaction: it merges into the payload as it is now.
CallRecord ==
    /\ dial.at = "record"
    /\ payload' = [payload EXCEPT
          !.active = [c \in Call |-> IF c \in Created(dial.sids) THEN PairedLead(c) ELSE @[c]],
          !.cur    = FirstCall,
          !.batch  = {dial.leads[i] : i \in DOMAIN dial.leads},
          !.stats["called"] = @ + Cardinality(Created(dial.sids))]
    /\ dial' = [dial EXCEPT !.at = "log"]
    /\ UNCHANGED <<open, status, dispo, cb, call, callLog, dnc, lost, left>>

\* One batch INSERT, onConflictDoNothing.
CallLog ==
    /\ dial.at = "log"
    /\ callLog' = [c \in Call |->
          IF c \in Created(dial.sids) /\ callLog[c].lead = NoLead
          THEN [lead |-> PairedLead(c), disposition |-> "power_dial"]
          ELSE callLog[c]]
    /\ dial' = IdleDial
    /\ UNCHANGED <<open, status, payload, dispo, cb, call, dnc, lost, left>>

\* An await rejects, or the process dies.  Calls already created stay up.
CallAborts ==
    /\ dial.at # "idle"
    /\ dial' = IdleDial
    /\ Fault
    /\ UNCHANGED <<open, status, payload, dispo, cb, call, callLog, dnc, lost>>

----------------------------------------------------------------------------
(* What the disposition and the call-status handler share *)

\* UPDATE crm_call_logs ... WHERE call_sid = p.currentCallSid
LogCall(p, d) ==
    callLog' = IF p.cur # NoCall /\ callLog[p.cur].lead # NoLead
               THEN [callLog EXCEPT ![p.cur].disposition = d]
               ELSE callLog

EarlyWriteBack(p, d) ==
    /\ payload' = Disposed(p, d)
    /\ status' = IF Exhausted(p) THEN "done" ELSE status
    /\ lost' = (lost \/ payload # p)

ReopeningWriteBack(p, d) ==
    LET q == Disposed(p, d)
    IN  /\ payload' = q
        /\ status' = IF Exhausted(q) THEN "done" ELSE "running"
        /\ lost' = (lost \/ payload # p)

\* updateBackgroundJob with a payload computed from p, without a row lock.
WriteBack(p, d) ==
    LET q == Disposed(p, d)
    IN  /\ payload' = q
        /\ status' = IF Exhausted(q) THEN "done" ELSE status
        /\ lost' = (lost \/ payload # p)

----------------------------------------------------------------------------
(* POST /session/:id/disposition *)

DispoRead ==
    /\ open
    /\ dispo.at = "idle"
    /\ ~Exhausted(payload)
    /\ \E d \in Disposition :
          dispo' = [at |-> IF d = "skip" THEN "write" ELSE "log", p |-> payload, d |-> d]
    /\ Spend("dispositions")
    /\ UNCHANGED <<open, status, payload, dial, cb, call, callLog, dnc, lost>>

DispoLogNoDnc ==
    /\ dispo.at = "log"
    /\ LogCall(dispo.p, dispo.d)
    /\ dispo' = [dispo EXCEPT !.at = "write"]
    /\ UNCHANGED <<open, status, payload, dial, cb, call, dnc, lost, left>>

DispoLog ==
    /\ dispo.at = "log"
    /\ LogCall(dispo.p, dispo.d)
    /\ dispo' = [dispo EXCEPT !.at = IF dispo.d = "dnc" THEN "dnc" ELSE "write"]
    /\ UNCHANGED <<open, status, payload, dial, cb, call, dnc, lost, left>>

DispoDnc ==
    /\ dispo.at = "dnc"
    /\ dnc' = dnc \cup {CurrentLead(dispo.p)}
    /\ dispo' = [dispo EXCEPT !.at = "write"]
    /\ UNCHANGED <<open, status, payload, dial, cb, call, callLog, lost, left>>

DispoWrite ==
    /\ dispo.at = "write"
    /\ WriteBack(dispo.p, dispo.d)
    /\ dispo' = IdleDispo
    /\ UNCHANGED <<open, dial, cb, call, callLog, dnc, left>>

\* An await rejects or the process dies; also the error of the final update,
\* which updateBackgroundJob swallows: the client is told it succeeded.
DispoAborts ==
    /\ dispo.at # "idle"
    /\ dispo' = IdleDispo
    /\ Fault
    /\ UNCHANGED <<open, status, payload, dial, cb, call, callLog, dnc, lost>>

----------------------------------------------------------------------------
(* POST /call-status: the response has been sent before the handler works *)

\* A terminal status other than completed, a session that is not running, a
\* SID that is not the current one, or an exhausted queue ends the handler.
StatusIgnored(c) ==
    \/ status # "running"
    \/ payload.cur # NoCall /\ payload.cur # c
    \/ Exhausted(payload)

StatusRead(c) ==
    /\ cb[c].at = "due"
    /\ cb' = [cb EXCEPT ![c] = IF StatusIgnored(c) THEN IdleStatus
                               ELSE [@ EXCEPT !.at = "log", !.p = payload]]
    /\ UNCHANGED <<open, status, payload, dial, dispo, call, callLog, dnc, lost, left>>

StatusLog(c) ==
    /\ cb[c].at = "log"
    /\ LogCall(cb[c].p, cb[c].d)
    /\ cb' = [cb EXCEPT ![c].at = "write"]
    /\ UNCHANGED <<open, status, payload, dial, dispo, call, dnc, lost, left>>

StatusWrite(c) ==
    /\ cb[c].at = "write"
    /\ WriteBack(cb[c].p, cb[c].d)
    /\ cb' = [cb EXCEPT ![c] = IdleStatus]
    /\ UNCHANGED <<open, dial, dispo, call, callLog, dnc, left>>

StatusAborts(c) ==
    /\ cb[c].at # "idle"
    /\ cb' = [cb EXCEPT ![c] = IdleStatus]
    /\ Fault
    /\ UNCHANGED <<open, status, payload, dial, dispo, call, callLog, dnc, lost>>

----------------------------------------------------------------------------
(* Twilio, and POST /amd-handler, which it calls once per answered call *)

\* The request may still be under way when the call has ended.
Unheard(c) ==
    /\ call[c].amd = "none"
    /\ \/ call[c].state = "live" /\ UNCHANGED left
       \/ call[c].state = "ended" /\ Spend("late")

\* Machine or fax, in one locked transaction.
AmdMachine(c) ==
    /\ Unheard(c)
    /\ payload' = [Bump(payload, "voicemail") EXCEPT !.active[c] = NoLead]
    /\ call' = [call EXCEPT ![c].amd = "machine"]
    /\ UNCHANGED <<open, status, dial, dispo, cb, callLog, dnc, lost>>

\* Human: the locked transaction takes every call out of activeCalls, the
\* others are to be hung up, and this one is bridged to the agent.
Sisters(c) == {s \in Call : payload.active[s] # NoLead} \ {c}

ClearedOwn(c)     == [payload.active EXCEPT ![c] = NoLead]
ClearedSisters(c) == [s \in Call |-> IF s = c THEN payload.active[c] ELSE NoLead]

Cleared(c) == [s \in Call |-> NoLead]

Bridged(c) == IF call[c].state = "live" THEN "bridged" ELSE "ended"

AmdHuman(c) ==
    /\ Unheard(c)
    /\ payload' = [Bump(payload, "answered") EXCEPT !.active = Cleared(c)]
    /\ call' = [s \in Call |->
          IF s = c
          THEN [call[c] EXCEPT !.amd   = "human",
                               !.won   = payload.active[c] # NoLead,
                               !.state = Bridged(c)]
          ELSE IF s \in Sisters(c) /\ call[s].hangup = "no"
               THEN [call[s] EXCEPT !.hangup = "asked"]
               ELSE call[s]]
    /\ UNCHANGED <<open, status, dial, dispo, cb, callLog, dnc, lost>>

\* calls(sid).update({status: "completed"}), not awaited; its failure is logged.
CancelSister(c) ==
    /\ call[c].hangup = "asked"
    /\ \E ends \in BOOLEAN :
          call' = [call EXCEPT ![c].hangup = "tried",
                               ![c].state = IF ends THEN "ended" ELSE @]
          /\ IF ends THEN UNCHANGED left ELSE Fault
    /\ UNCHANGED <<open, status, payload, dial, dispo, cb, callLog, dnc, lost>>

\* The call ends: it was never answered, either side hung up, or the handler
\* answered <Hangup/> (for an unknown AnsweredBy, or after a failed transaction,
\* it does so without any other effect).  Its callback says completed with a duration, from which the
\* handler infers "answered" (30 s or more) or "no_answer", or it is one the
\* handler ignores, or it is lost.
Ended(c) ==
    /\ call[c].state \in {"live", "bridged"}
    /\ call' = [call EXCEPT ![c].state = "ended"]

CallEnds(c) ==
    /\ Ended(c)
    /\ UNCHANGED <<open, status, payload, dial, dispo, cb, callLog, dnc, lost, left>>

CallCompletes(c) ==
    /\ Ended(c)
    /\ \E d \in Inferred :
          cb' = [cb EXCEPT ![c] = [IdleStatus EXCEPT !.at = "due", !.d = d]]
    /\ UNCHANGED <<open, status, payload, dial, dispo, callLog, dnc, lost, left>>

----------------------------------------------------------------------------

Server ==
    \/ StartSession
    \/ CallRead \/ CallPlace \/ CallRecord \/ CallLog \/ CallAborts
    \/ DispoRead \/ DispoLog \/ DispoDnc \/ DispoWrite \/ DispoAborts
    \/ Delete

Telephony(c) ==
    \/ StatusRead(c) \/ StatusLog(c) \/ StatusWrite(c) \/ StatusAborts(c)
    \/ AmdMachine(c) \/ AmdHuman(c)
    \/ CancelSister(c) \/ CallEnds(c) \/ CallCompletes(c)

Next == Server \/ \E c \in Call : Telephony(c)

Spec == Init /\ [][Next]_vars

(* The page polls, and its agent keeps logging results until the session is  *)
(* closed: a /disposition is always sent again, and gets through in the end. *)
Fairness ==
    /\ WF_vars(DispoRead) /\ WF_vars(DispoLog) /\ WF_vars(DispoDnc)
    /\ WF_vars(DispoWrite)

FairSpec == Spec /\ Fairness

----------------------------------------------------------------------------
(* Properties that hold *)

\* The shapes of the session row, the request slots, the calls and the logs.
TypeOK ==
    /\ open \in BOOLEAN
    /\ status \in {"queued", "running", "done", "cancelled"}
    /\ payload \in Payload
    /\ dial \in [at : {"idle", "place", "record", "log"}, leads : Seq(Lead),
                sids : Seq(Call \cup {NoCall})]
    /\ dispo \in [at : {"idle", "log", "dnc", "write"}, p : Payload, d : ValidDisposition]
    /\ cb \in [Call -> [at : {"idle", "due", "log", "write"}, p : Payload,
                        d : ValidDisposition]]
    /\ call \in [Call -> CallState]
    /\ callLog \in [Call -> [lead : Lead \cup {NoLead},
                             disposition : ValidDisposition \cup {"none", "power_dial"}]]
    /\ dnc \subseteq Lead
    /\ lost \in BOOLEAN
    /\ left \in [DOMAIN Bounds -> Nat]

Logged(p, d) == Cardinality({i \in DOMAIN p.dispositions : p.dispositions[i].disposition = d})

\* The counters the agent sees are the number of logged results of that kind,
\* in the row and in every payload a handler is about to write, whatever the
\* interleaving: a count and its record are won or lost together.
StatsMatchRecords ==
    \A p \in {payload, dispo.p} \cup {cb[c].p : c \in Call} :
       \A d \in {"no_answer", "dnc", "callback"} : p.stats[StatOf[d]] = Logged(p, d)

Detected(r) == Cardinality({c \in Call : call[c].amd = r})

\* The counters the AMD handler also bumps are exact, machines and humans it
\* detected plus logged results, as long as no unlocked write has overwritten
\* a payload it had not read; and no call is ever counted as called twice.
CountersExactUnlessLost ==
    /\ ~lost => /\ payload.stats["answered"]  = Detected("human") + Logged(payload, "answered")
                /\ payload.stats["voicemail"] = Detected("machine") + Logged(payload, "voicemail")
    /\ payload.stats["called"] <= Cardinality(Placed)

\* A call that reached a human while it stood in activeCalls is bridged to the
\* agent: no later AMD answer hangs it up, unless a lost update has put it back.
WinnerNotHungUp ==
    ~lost => \A c \in Call : call[c].won => call[c].hangup = "no"

\* Of the calls one request placed, the row lock lets one human answer find
\* itself in activeCalls.
OneWinnerPerBatch ==
    ~lost => \A c, e \in Call :
                call[c].won /\ call[e].won /\ e \in call[c].batch => c = e

\* A lead whose do-not-call result is on record is marked so, also when the
\* handler stopped between its writes or its record came from a stale payload.
DncMarkedFirst ==
    \A i \in DOMAIN payload.dispositions :
       payload.dispositions[i].disposition = "dnc" => payload.dispositions[i].lead \in dnc

\* A session whose queue is exhausted, which every handler refuses, is never
\* left open; and it is declared done only for an exhausted queue, unless a
\* lost update has moved the index back.
ClosedWithItsQueue ==
    /\ Exhausted(payload) => status \in {"done", "cancelled"}
    /\ ~lost /\ status = "done" => Exhausted(payload)

\* When every creation of a request succeeded, the session and the call log
\* know each of its calls by the lead that was dialed.
FullBatchAttributed ==
    \A c \in Call : call[c].full =>
        /\ payload.active[c] \in {call[c].lead, NoLead}
        /\ callLog[c].lead \in {call[c].lead, NoLead}

\* A session that stopped running never runs again, so that no callback of an
\* old call moves it (call-status asks for running).
NeverReopened == [][open /\ status # "running" => status' # "running"]_vars

\* The queue moves forward only, unless a lost update moves it back.
IndexForwardUnlessLost == [][~lost' => payload'.index >= payload.index]_vars

\* If the agent keeps logging results, and the server stops half-way only
\* finitely often, a session that was opened is closed in the end.
SessionCloses == open ~> status \in {"done", "cancelled"}

----------------------------------------------------------------------------
(* What comments and documents say, and the code does not do *)

\* routes/twilio-power-dialer.ts:558, "Only auto-advance if this status callback
\* matches the current active call (guards against stale callbacks ...)": the
\* callback of a call the session knows advances it only while it is current.
StaleCallbackIgnored ==
    \A c \in Call :
        cb[c].at \in {"log", "write"} /\ cb[c].p.active[c] # NoLead => cb[c].p.cur = c

\* Twiliofix.md:34: activeCalls holds [call.sid]: lead.id.
ActiveCallsAttributed ==
    \A c \in Call : payload.active[c] \in {call[c].lead, NoLead}

\* Twiliofix.md:18, "All mutations use .for("update") inside db.transaction()": no
\* answer that was counted is lost again.
AnswersStayCounted ==
    /\ payload.stats["answered"] >= Detected("human")
    /\ payload.stats["voicemail"] >= Detected("machine")

\* README.md:507, "human -> cancel sibling calls": once a human has answered, no
\* other call of the batch keeps ringing.
SiblingsCancelled ==
    \A c \in Call : call[c].amd = "human" =>
        \A e \in call[c].batch \ {c} :
            call[e].state = "live" /\ call[e].amd = "none" => call[e].hangup # "no"
====

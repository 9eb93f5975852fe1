------------------------------ MODULE CallLog ------------------------------
(* The row of one outbound browser call in crm_call_logs, and the handlers  *)
(* of routes/twilio-voice.ts that look for it, insert it or update it: the  *)
(* answer webhook, the browser's POST and PATCH, and Twilio's status,       *)
(* conference and recording callbacks, in any order. call_sid is unique.    *)
EXTENDS Naturals, FiniteSets

CONSTANT MaxCallFaults  \* bound: restarts and failed queries

ASSUME CallLogAssumption == MaxCallFaults \in Nat

VARIABLES
    callRow,    \* status of the row, "none" without one
    marks,      \* what has been written to the row besides
    writer,     \* how far each handler that may insert is
    conference, \* the conference: "none", "known" (activeConferences) or "forgotten"
    body,       \* what Twilio's recording callback names the call by
    strayRows,  \* rows inserted under the sid of the other leg
    reported,   \* history: the status reported last, "none" before the first
    missed,     \* history: that report found no row, or its update failed
    raced,      \* history: handlers whose insert met another one's row
    callFaults

callLogVars == <<callRow, marks, writer, conference, body, strayRows, reported, missed, raced, callFaults>>

Writer == {"answer", "log", "recording"}
Mark == {"log", "recording", "conferenceSid"}

\* What status reports say of the call: that it goes on, or that it is over.
Reported == {"in-progress", "completed"}

CallLogTypeOK ==
    /\ callRow \in Reported \cup {"none", "initiated"}
    /\ marks \subseteq Mark /\ (callRow = "none" => marks = {})
    /\ writer \in [Writer -> {"idle", "insert", "stray", "done"}]
    /\ conference \in {"none", "known", "forgotten"}
    /\ body \in {"name", "sid", "leg"}
    /\ strayRows \in 0..1
    /\ reported \in Reported \cup {"none"} /\ missed \in BOOLEAN
    /\ raced \subseteq Writer /\ callFaults \in 0..MaxCallFaults

CallLogInit ==
    /\ callRow = "none" /\ marks = {} /\ writer = [w \in Writer |-> "idle"]
    /\ conference = "none" /\ body \in {"name", "sid", "leg"} /\ strayRows = 0
    /\ reported = "none" /\ missed = FALSE /\ raced = {} /\ callFaults = MaxCallFaults

To(w, s) == writer' = [writer EXCEPT ![w] = s]
CallFault == callFaults > 0 /\ callFaults' = callFaults - 1

\* What each writer leaves in an existing row: the answer webhook nothing.
MarkOf(w) == {w} \cap Mark

(* The status a writer gives to a row that exists: none of them touches it.  *)
(* The form in which the browser's POST updates it as it inserts it.         *)
RowReset(w) == IF w = "log" THEN "initiated" ELSE callRow
RowKept(w) == callRow

-----------------------------------------------------------------------------
(* Which row the recording is for: by the conference's name, by its sid in   *)
(* memory, in the table or at Twilio; a leg's sid in the callback leaves     *)
(* only the table as another way.                                            *)
Resolves ==
    \/ body = "name"
    \/ "conferenceSid" \in marks
    \/ body = "sid" /\ (conference = "known" \/ callFaults = MaxCallFaults)

(* The first query: a select for the answer webhook, an update for the       *)
(* others. Without a row an insert comes next, and the form without it. A    *)
(* recording that finds no call is dropped, or filed under the leg it names. *)
UpdateOnly(w) == IF w = "recording" THEN "done" ELSE "insert"
UpdateThenInsert(w) == "insert"

First(w) ==
    /\ writer[w] = "idle"
    /\ IF w = "recording" /\ ~Resolves
       THEN To(w, IF body = "leg" THEN "stray" ELSE "done") /\ UNCHANGED <<callRow, marks>>
       ELSE IF callRow = "none" THEN To(w, UpdateThenInsert(w)) /\ UNCHANGED <<callRow, marks>>
       ELSE /\ To(w, "done") /\ marks' = marks \cup MarkOf(w)
            /\ callRow' = RowKept(w)
    /\ UNCHANGED <<conference, body, strayRows, reported, missed, raced, callFaults>>

(* The insert; lookups lie between, and the unique index refuses a second.   *)
Insert(w) ==
    /\ writer[w] = "insert" /\ To(w, "done")
    /\ IF callRow = "none"
       THEN /\ callRow' = IF w = "recording" THEN "completed" ELSE "initiated"
            /\ marks' = MarkOf(w) /\ UNCHANGED raced
       ELSE raced' = raced \cup {w} /\ UNCHANGED <<callRow, marks>>
    /\ UNCHANGED <<conference, body, strayRows, reported, missed, callFaults>>

(* The recording's row under the sid of the other leg. *)
InsertStray ==
    /\ writer["recording"] = "stray" /\ To("recording", "done")
    /\ strayRows' = 1
    /\ UNCHANGED <<callRow, marks, conference, body, reported, missed, raced, callFaults>>

(* A query fails, or the request is dropped. *)
WriterFails(w) ==
    /\ writer[w] # "done" /\ CallFault /\ To(w, "done")
    /\ UNCHANGED <<callRow, marks, conference, body, strayRows, reported, missed, raced>>

(* The conference begins, is joined or ends, each with a callback: its sid   *)
(* is kept in memory, and in the row if there is one and the update succeeds.*)
ConferenceStatus ==
    /\ conference' = "known"
    /\ \/ /\ marks' = IF callRow = "none" THEN marks ELSE marks \cup {"conferenceSid"}
          /\ UNCHANGED callFaults
       \/ CallFault /\ UNCHANGED marks
    /\ UNCHANGED <<callRow, writer, body, strayRows, reported, missed, raced>>

(* A report of the call's status, from Twilio's callback, its alias or the   *)
(* browser's PATCH, in any order and as often as they come: it is written as *)
(* it is, whatever the row says.                                             *)
CallStatus(s) ==
    /\ reported' = s
    /\ \/ /\ missed' = (callRow = "none") /\ UNCHANGED callFaults
          /\ callRow' = IF callRow = "none" THEN callRow ELSE s
       \/ CallFault /\ missed' = TRUE /\ UNCHANGED callRow
    /\ UNCHANGED <<marks, writer, conference, body, strayRows, raced>>

(* Memory and the handlers under way are lost; Twilio has its answers. *)
CallServerRestart ==
    /\ CallFault
    /\ conference' = IF conference = "known" THEN "forgotten" ELSE conference
    /\ writer' = [w \in Writer |-> IF writer[w] = "idle" THEN "idle" ELSE "done"]
    /\ UNCHANGED <<callRow, marks, body, strayRows, reported, missed, raced>>

CallLogNext ==
    \/ \E w \in Writer : First(w) \/ Insert(w) \/ WriterFails(w)
    \/ InsertStray \/ ConferenceStatus \/ CallServerRestart
    \/ \E s \in Reported : CallStatus(s)

CallLogSpec == CallLogInit /\ [][CallLogNext]_callLogVars

-----------------------------------------------------------------------------
(* The row says what was reported last, whichever handler inserts it or adds *)
(* to it before or after, unless that report itself was not written.         *)
LastReportShown == reported # "none" /\ ~missed => callRow = reported

(* "Twilio status callback - updates call log with final status & duration": *)
(* a call whose end was reported last is shown as completed. False: a report *)
(* that finds no row is dropped, and the row comes as initiated.             *)
EndIsShown == reported = "completed" /\ callRow # "none" => callRow = "completed"

(* What a handler had to say is in the row when it has ended, unless its     *)
(* insert met another's, a fault came in between, or the recording could     *)
(* only be filed under the other leg. An insert is only beaten by a handler  *)
(* that ended, so the row is there for it.                                   *)
NothingForgotten ==
    /\ callFaults = MaxCallFaults =>
          \A w \in {"log", "recording"} :
             writer[w] = "done" => w \in marks \cup raced \/ (w = "recording" /\ strayRows = 1)
    /\ strayRows = 1 => body = "leg"
    /\ raced # {} => callRow # "none" /\ \E w \in Writer \ raced : writer[w] = "done"
=============================================================================

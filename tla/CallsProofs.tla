----------------------------- MODULE CallsProofs ------------------------------
(* What holds of the calls and texts of a lead: of an outbound call's row    *)
(* for any number of faults, of an inbound call to the AI agent for any      *)
(* number of webhooks and faults, and of a number's texts for any number of  *)
(* them and any daily limit. The row was inserted by a handler that ended    *)
(* without racing, and only status reports write its status afterwards; the  *)
(* agent's call is ended by one run, because the first one marks the         *)
(* stream's session. A text is only on its way to an opted-out number if it  *)
(* was when the opt-out was stored, because sendSms asks last; and as long   *)
(* as replies do not overlap, the log is short of what was sent by the one   *)
(* reply between its send and its log.                                       *)
EXTENDS CallLog, VoiceAgent, SmsInbox, SequenceTheorems, TLAPS

\* Whoever inserted the row has ended, and did not race.
Inserted == callRow # "none" => \E w \in Writer \ raced : writer[w] = "done"

\* A handler that ended without a fault has said what it had to say.
Said ==
    callFaults = MaxCallFaults =>
       \A w \in {"log", "recording"} :
          writer[w] = "done" => w \in marks \cup raced \/ (w = "recording" /\ strayRows = 1)

\* Only a leg's sid sends a recording astray.
Astray == writer["recording"] = "stray" \/ strayRows = 1 => body = "leg"

CallLogInv ==
    /\ CallLogTypeOK
    /\ Inserted /\ Said /\ Astray /\ LastReportShown
    /\ raced # {} => callRow # "none"

(* No row and no handler at first.                                           *)
LEMMA CallLogStarts == CallLogInit => CallLogInv
  <1> SUFFICES ASSUME CallLogInit PROVE CallLogInv
    OBVIOUS
  <1>1. CallLogTypeOK
    <2>1. missed \in BOOLEAN
      BY DEF CallLogInit
    <2> QED
      BY <2>1, CallLogAssumption DEF CallLogInit, CallLogTypeOK
  <1>2. Inserted /\ Said /\ Astray /\ LastReportShown /\ raced = {}
    BY DEF CallLogInit, Inserted, Said, Astray, LastReportShown, Writer
  <1> QED
    BY <1>1, <1>2 DEF CallLogInv

(* The first query: the writer has found a row, or not.                      *)
LEMMA FirstSafe == ASSUME CallLogInv, NEW w \in Writer, First(w) PROVE CallLogInv'
  <1>1. /\ writer[w] = "idle" /\ writer \in [Writer -> {"idle", "insert", "stray", "done"}]
        /\ UNCHANGED <<conference, body, strayRows, reported, missed, raced, callFaults>>
    BY DEF First, CallLogInv, CallLogTypeOK
  <1>2. CASE w = "recording" /\ ~Resolves
    <2>1. UNCHANGED <<callRow, marks>> /\ writer' = [writer EXCEPT ![w] = IF body = "leg" THEN "stray" ELSE "done"]
      BY <1>2 DEF First, To
    <2>2. body = "leg" \/ callFaults < MaxCallFaults
      BY <1>2, CallLogAssumption DEF Resolves, CallLogInv, CallLogTypeOK
    <2> QED
      BY <1>1, <1>2, <2>1, <2>2, CallLogAssumption
      DEF CallLogInv, CallLogTypeOK, Inserted, Said, Astray, LastReportShown, Writer
  <1>3. CASE callRow = "none" /\ writer' = [writer EXCEPT ![w] = "insert"] /\ UNCHANGED <<callRow, marks>>
    BY <1>1, <1>3 DEF CallLogInv, CallLogTypeOK, Inserted, Said, Astray, LastReportShown, Writer
  <1>4. CASE /\ callRow # "none" /\ writer' = [writer EXCEPT ![w] = "done"]
             /\ marks' = marks \cup MarkOf(w) /\ callRow' = callRow
    BY <1>1, <1>4 DEF CallLogInv, CallLogTypeOK, Inserted, Said, Astray, LastReportShown, Writer, MarkOf, Mark
  <1> QED
    BY <1>2, <1>3, <1>4 DEF First, To, UpdateThenInsert, RowKept

(* The insert makes the row, or meets it and is refused.                     *)
LEMMA InsertSafe == ASSUME CallLogInv, NEW w \in Writer, Insert(w) PROVE CallLogInv'
  <1>1. /\ writer[w] = "insert" /\ writer \in [Writer -> {"idle", "insert", "stray", "done"}]
        /\ writer' = [writer EXCEPT ![w] = "done"]
        /\ UNCHANGED <<conference, body, strayRows, reported, missed, callFaults>>
    BY DEF Insert, To, CallLogInv, CallLogTypeOK
  <1>2. CASE /\ callRow = "none" /\ callRow' \in {"initiated", "completed"}
             /\ marks' = MarkOf(w) /\ raced' = raced
    <2>1. CallLogTypeOK'
      BY <1>1, <1>2 DEF CallLogInv, CallLogTypeOK, Writer, MarkOf, Mark, Reported
    <2>2. LastReportShown'
      BY <1>1, <1>2 DEF CallLogInv, LastReportShown
    <2> QED
      BY <1>1, <1>2, <2>1, <2>2 DEF CallLogInv, CallLogTypeOK, Inserted, Said, Astray, Writer, MarkOf, Mark
  <1>3. CASE callRow # "none" /\ raced' = raced \cup {w} /\ UNCHANGED <<callRow, marks>>
    BY <1>1, <1>3 DEF CallLogInv, CallLogTypeOK, Inserted, Said, Astray, LastReportShown, Writer
  <1> QED
    BY <1>2, <1>3 DEF Insert

(* Every step keeps the invariant.                                           *)
LEMMA CallLogStep == CallLogInv /\ [CallLogNext]_callLogVars => CallLogInv'
  <1> SUFFICES ASSUME CallLogInv, [CallLogNext]_callLogVars PROVE CallLogInv'
    OBVIOUS
  <1>1. ASSUME NEW w \in Writer, First(w) \/ Insert(w) PROVE CallLogInv'
    BY <1>1, FirstSafe, InsertSafe
  <1>2. ASSUME NEW w \in Writer, WriterFails(w) PROVE CallLogInv'
    <2>1. callFaults' \in 0..MaxCallFaults /\ callFaults' < MaxCallFaults
      BY <1>2, CallLogAssumption DEF WriterFails, CallFault, CallLogInv, CallLogTypeOK
    <2> QED
      BY <1>2, <2>1 DEF WriterFails, To, CallLogInv, CallLogTypeOK, Inserted, Said, Astray, LastReportShown, Writer
  <1>3. CASE InsertStray
    BY <1>3 DEF InsertStray, To, CallLogInv, CallLogTypeOK, Inserted, Said, Astray, LastReportShown, Writer
  <1>4. CASE ConferenceStatus
    <2>1. callFaults' \in 0..MaxCallFaults /\ (callFaults' = callFaults \/ callFaults' < MaxCallFaults)
      BY <1>4, CallLogAssumption DEF ConferenceStatus, CallFault, CallLogInv, CallLogTypeOK
    <2>2. conference' = "known" /\ (marks' = marks \/ (callRow # "none" /\ marks' = marks \cup {"conferenceSid"}))
      BY <1>4 DEF ConferenceStatus
    <2>3. UNCHANGED <<callRow, writer, body, strayRows, reported, missed, raced>>
      BY <1>4 DEF ConferenceStatus
    <2>4. CallLogTypeOK'
      BY <2>1, <2>2, <2>3 DEF CallLogInv, CallLogTypeOK, Mark
    <2>5. Inserted' /\ Astray' /\ LastReportShown' /\ (raced' # {} => callRow' # "none")
      BY <2>3 DEF CallLogInv, Inserted, Astray, LastReportShown
    <2>6. Said'
      BY <2>1, <2>2, <2>3, CallLogAssumption DEF CallLogInv, Said
    <2> QED
      BY <2>4, <2>5, <2>6 DEF CallLogInv
  <1>5. ASSUME NEW r \in Reported, CallStatus(r) PROVE CallLogInv'
    <2>1. callFaults' \in 0..MaxCallFaults /\ (callFaults' = callFaults \/ callFaults' < MaxCallFaults)
      BY <1>5, CallLogAssumption DEF CallStatus, CallFault, CallLogInv, CallLogTypeOK
    <2>2. /\ reported' = r /\ missed' \in BOOLEAN /\ (~missed' => callRow' = r)
          /\ callRow' = callRow \/ (callRow # "none" /\ callRow' = r)
          /\ UNCHANGED <<marks, writer, conference, body, strayRows, raced>>
      BY <1>5 DEF CallStatus
    <2>3. r # "none"
      BY DEF Reported
    <2> QED
      BY <2>1, <2>2, <2>3, CallLogAssumption
      DEF CallLogInv, CallLogTypeOK, Inserted, Said, Astray, LastReportShown
  <1>6. CASE CallServerRestart
    <2>1. callFaults' \in 0..MaxCallFaults /\ callFaults' < MaxCallFaults
      BY <1>6, CallLogAssumption DEF CallServerRestart, CallFault, CallLogInv, CallLogTypeOK
    <2> QED
      BY <1>6, <2>1 DEF CallServerRestart, CallLogInv, CallLogTypeOK, Inserted, Said, Astray, LastReportShown, Writer
  <1>7. CASE UNCHANGED callLogVars
    BY <1>7 DEF callLogVars, CallLogInv, CallLogTypeOK, Inserted, Said, Astray, LastReportShown
  <1> QED
    BY <1>1, <1>2, <1>3, <1>4, <1>5, <1>6, <1>7 DEF CallLogNext

(* The invariant holds, whatever faults there are.                           *)
THEOREM CallLogInvariant == CallLogSpec => []CallLogInv
  BY CallLogStarts, CallLogStep, PTL DEF CallLogSpec

(* The row and its handlers keep to their types.                             *)
THEOREM CallLogTyped == CallLogSpec => []CallLogTypeOK
  <1>1. CallLogInv => CallLogTypeOK
    BY DEF CallLogInv
  <1> QED
    BY <1>1, CallLogInvariant, PTL

(* No handler's word is lost but to a race, a fault or the other leg's sid.  *)
THEOREM WordsKept == CallLogSpec => []NothingForgotten
  <1>1. CallLogInv => NothingForgotten
    BY DEF CallLogInv, Inserted, Said, Astray, NothingForgotten
  <1> QED
    BY <1>1, CallLogInvariant, PTL

(* Whatever handler inserts the row or adds to it, around any number of      *)
(* status reports, it shows the last one, if that one could be written.      *)
THEOREM ReportShown == CallLogSpec => []LastReportShown
  <1>1. CallLogInv => LastReportShown
    BY DEF CallLogInv
  <1> QED
    BY <1>1, CallLogInvariant, PTL

-----------------------------------------------------------------------------
AgentSession == [logged : BOOLEAN, saved : BOOLEAN, processed : BOOLEAN]

\* Only the stream's session is ever marked, and the one run that marked it
\* stands where the leads and confirmations say.
EndedOnce ==
    /\ \A i \in 1..Len(sessions) : sessions[i].processed => i = streamSession
    /\ callEnd # {} \/ agentLeads > 0 => streamSession # 0 /\ sessions[streamSession].processed
    /\ \A e, f \in callEnd : e = f
    /\ \A e \in callEnd : /\ e.session = streamSession /\ confirmations = 0
                          /\ e.step \in {"update", "insert"} => agentLeads = 0
                          /\ e.step \in {"link", "text"} => agentLeads = 1
                          /\ e.step # "update" => e.qualified
                          /\ e.qualified => sessions[streamSession].saved
    /\ agentLeads > 0 => sessions[streamSession].saved
    /\ agentLeads <= 1 /\ confirmations <= agentLeads

\* Without a fault: where the log stands, and what it has still to learn.
LogFollows ==
    /\ twilioWs \in {"stopped", "closed"} /\ streamSession # 0 => sessions[streamSession].processed
    /\ agentLog = "ai_qualified" => agentLeads = 1 \/ \E e \in callEnd : e.step = "insert"
    /\ logHasLead => agentLeads = 1
    /\ streamSession # 0 /\ sessions[streamSession].logged =>
          /\ sessions[streamSession].processed =>
                agentLog \in {"ai_qualified", "ai_unqualified"} \/ \E e \in callEnd : e.step = "update"
          /\ agentLeads = 1 => logHasLead \/ \E e \in callEnd : e.step = "link"

\* Without a fault: only a repeated webhook makes a session without its log.
FirstIsLogged ==
    /\ deliveries = 0 => answering = {} /\ sessions = << >> /\ agentLog = "none"
    /\ deliveries = 1 => answering \subseteq {TRUE} /\ \A i \in 1..Len(sessions) : sessions[i].logged
    /\ sessions # << >> /\ streamSession = 0 => agentSession # 0
    /\ twilioWs # "none" => sessions # << >>

AgentInv ==
    /\ AgentTypeOK /\ EndedOnce
    /\ agentFaults = MaxAgentFaults => LogFollows /\ FirstIsLogged

(* A new session is the last one; the others stay.                           *)
LEMMA SessionAdded ==
    ASSUME sessions \in Seq(AgentSession), NEW logged \in BOOLEAN, sessions' = NewSession(logged)
    PROVE  /\ sessions' \in Seq(AgentSession) /\ Len(sessions') = Len(sessions) + 1 /\ sessions' # << >>
           /\ \A i \in 1..Len(sessions) : sessions'[i] = sessions[i]
           /\ sessions'[Len(sessions) + 1] = [logged |-> logged, saved |-> FALSE, processed |-> FALSE]
  <1>1. [logged |-> logged, saved |-> FALSE, processed |-> FALSE] \in AgentSession
    BY DEF AgentSession
  <1> QED
    BY <1>1, AppendProperties DEF NewSession

(* A session marked; the others stay.                                        *)
LEMMA SessionMarked ==
    ASSUME sessions \in Seq(AgentSession), NEW s \in 1..Len(sessions), NEW q \in AgentSession,
           sessions' = [sessions EXCEPT ![s] = q]
    PROVE  /\ sessions' \in Seq(AgentSession) /\ Len(sessions') = Len(sessions)
           /\ sessions'[s] = q
           /\ \A i \in 1..Len(sessions) \ {s} : sessions'[i] = sessions[i]
           /\ sessions # << >> /\ sessions' # << >>
  <1>1. /\ sessions' \in Seq(AgentSession) /\ Len(sessions') = Len(sessions)
        /\ \A j \in 1..Len(sessions) : sessions'[j] = IF j = s THEN q ELSE sessions[j]
    BY ExceptSeq
  <1>2. Len(<< >>) = 0 /\ Len(sessions) \in Nat
    BY EmptySeq, LenProperties
  <1> QED
    BY <1>1, <1>2

(* No session at first.                                                      *)
LEMMA AgentStarts == AgentInit => AgentInv
  <1> SUFFICES ASSUME AgentInit PROVE AgentInv
    OBVIOUS
  <1>1. sessions \in Seq(AgentSession) /\ Len(sessions) = 0 /\ 0 \in 0..Len(sessions)
    BY EmptySeq DEF AgentInit
  <1>2. AgentTypeOK
    <2>1. transcribing \in BOOLEAN /\ logHasLead \in BOOLEAN /\ answering \subseteq BOOLEAN
      BY DEF AgentInit
    <2>2. deliveries \in 0..MaxDeliveries /\ agentFaults \in 0..MaxAgentFaults
      BY AgentAssumption DEF AgentInit
    <2> QED
      BY <1>1, <2>1, <2>2 DEF AgentInit, AgentTypeOK, AgentSession
  <1>3. EndedOnce
    BY <1>1 DEF AgentInit, EndedOnce
  <1>4. LogFollows
    <2>1. ~logHasLead
      BY DEF AgentInit
    <2> QED
      BY <2>1 DEF AgentInit, LogFollows
  <1>5. FirstIsLogged
    BY <1>1 DEF AgentInit, FirstIsLogged
  <1> QED
    BY <1>2, <1>3, <1>4, <1>5 DEF AgentInv

(* The webhook: the first delivery inserts the log.                          *)
LEMMA InboundSafe == AgentInv /\ Inbound => AgentInv'
  <1> SUFFICES ASSUME AgentInv, Inbound PROVE AgentInv'
    OBVIOUS
  <1>1. /\ UNCHANGED <<sessions, agentSession, twilioWs, openaiWs, streamSession, transcribing,
                       callEnd, logHasLead, agentLeads, confirmations>>
        /\ deliveries < MaxDeliveries /\ deliveries' = deliveries + 1
    BY DEF Inbound, sockets
  <1>2. PICK logged \in BOOLEAN :
            /\ answering' = answering \cup {logged}
            /\ agentLog' = agentLog \/ (agentLog = "none" /\ agentLog' = "ai_pending")
            /\ \/ logged = (agentLog = "none") /\ agentFaults' = agentFaults
               \/ agentFaults > 0 /\ agentFaults' = agentFaults - 1
    BY DEF Inbound
  <1>3. deliveries' \in 0..MaxDeliveries /\ agentFaults' \in 0..MaxAgentFaults
        /\ (agentFaults' = MaxAgentFaults => agentFaults = MaxAgentFaults /\ logged = (agentLog = "none"))
    BY <1>1, <1>2, AgentAssumption DEF AgentInv, AgentTypeOK
  <1>4. AgentTypeOK'
    <2>1. answering' \subseteq BOOLEAN
      BY <1>2 DEF AgentInv, AgentTypeOK
    <2>2. agentLog' \in {"none", "ai_pending", "ai_qualified", "ai_unqualified"}
      BY <1>2 DEF AgentInv, AgentTypeOK
    <2> QED
      BY <1>1, <1>3, <2>1, <2>2 DEF AgentInv, AgentTypeOK
  <1>5. EndedOnce'
    BY <1>1 DEF AgentInv, EndedOnce
  <1>6. agentFaults' = MaxAgentFaults => LogFollows'
    BY <1>1, <1>2, <1>3 DEF AgentInv, LogFollows
  <1>7. ASSUME agentFaults' = MaxAgentFaults PROVE FirstIsLogged'
    <2>1. FirstIsLogged /\ logged = (agentLog = "none") /\ deliveries \in Nat
      BY <1>3, <1>7 DEF AgentInv, AgentTypeOK
    <2>2. deliveries' # 0 /\ (deliveries' = 1 => deliveries = 0)
      BY <1>1, <2>1
    <2>3. deliveries' = 1 => answering' \subseteq {TRUE} /\ \A i \in 1..Len(sessions) : sessions[i].logged
      <3> SUFFICES ASSUME deliveries' = 1
                   PROVE  answering' \subseteq {TRUE} /\ \A i \in 1..Len(sessions) : sessions[i].logged
        OBVIOUS
      <3>1. answering = {} /\ sessions = << >> /\ agentLog = "none"
        BY <2>1, <2>2 DEF FirstIsLogged
      <3>2. logged = TRUE
        BY <2>1, <3>1
      <3>3. answering' \subseteq {TRUE}
        BY <1>2, <3>1, <3>2, Zenon
      <3>4. 1..Len(sessions) = {}
        BY <3>1, EmptySeq
      <3> QED
        BY <3>3, <3>4
    <2> QED
      BY <1>1, <2>1, <2>2, <2>3 DEF FirstIsLogged
  <1> QED
    BY <1>4, <1>5, <1>6, <1>7 DEF AgentInv

(* A session stored: the stream's own, if it has one, is another.            *)
LEMMA AnswerSafe == ASSUME AgentInv, NEW logged \in answering, Answer(logged) PROVE AgentInv'
  <1>1. /\ answering' = answering \ {logged} /\ sessions' = NewSession(logged) /\ agentSession' = Len(sessions) + 1
        /\ UNCHANGED <<deliveries, twilioWs, openaiWs, streamSession, transcribing, callEnd,
                       agentLog, logHasLead, agentLeads, confirmations, agentFaults>>
    BY DEF Answer, sockets, results
  <1>2. logged \in BOOLEAN /\ sessions \in Seq(AgentSession) /\ Len(sessions) \in Nat /\ streamSession \in 0..Len(sessions)
    BY LenProperties DEF AgentInv, AgentTypeOK, AgentSession
  <1>3. /\ sessions' \in Seq(AgentSession) /\ Len(sessions') = Len(sessions) + 1 /\ sessions' # << >>
        /\ \A i \in 1..Len(sessions) : sessions'[i] = sessions[i]
        /\ sessions'[Len(sessions) + 1] = [logged |-> logged, saved |-> FALSE, processed |-> FALSE]
    BY <1>1, <1>2, SessionAdded
  <1>4. \A i \in 1..Len(sessions') : i \in 1..Len(sessions) \/ i = Len(sessions) + 1
    BY <1>2, <1>3
  <1>5. streamSession # 0 => sessions'[streamSession] = sessions[streamSession]
    BY <1>2, <1>3
  <1>6. AgentTypeOK'
    <2>1. agentSession' \in 0..Len(sessions') /\ streamSession \in 0..Len(sessions')
      BY <1>1, <1>2, <1>3
    <2>2. 1..Len(sessions) \subseteq 1..Len(sessions')
      BY <1>2, <1>3
    <2>3. callEnd' \subseteq [step : Steps, session : 1..Len(sessions'), qualified : BOOLEAN]
      BY <1>1, <2>2 DEF AgentInv, AgentTypeOK
    <2> QED
      BY <1>1, <1>3, <2>1, <2>3 DEF AgentInv, AgentTypeOK, AgentSession
  <1>7. EndedOnce'
    <2>1. \A i \in 1..Len(sessions') : sessions'[i].processed => i = streamSession
      BY <1>3, <1>4 DEF AgentInv, EndedOnce
    <2> QED
      BY <1>1, <1>5, <2>1 DEF AgentInv, EndedOnce
  <1>8. agentFaults = MaxAgentFaults => LogFollows'
    BY <1>1, <1>5 DEF AgentInv, LogFollows
  <1>9. ASSUME agentFaults = MaxAgentFaults PROVE FirstIsLogged'
    <2>1. FirstIsLogged
      BY <1>9 DEF AgentInv
    <2>2. deliveries = 1 => \A i \in 1..Len(sessions') : sessions'[i].logged
      <3>1. deliveries = 1 => logged
        BY <2>1 DEF FirstIsLogged
      <3>2. sessions'[Len(sessions) + 1].logged = logged
        BY <1>3
      <3> QED
        BY <1>3, <1>4, <2>1, <3>1, <3>2 DEF FirstIsLogged
    <2>3. agentSession' # 0
      BY <1>1, <1>2
    <2> QED
      BY <1>1, <1>3, <2>1, <2>2, <2>3 DEF FirstIsLogged
  <1> QED
    BY <1>1, <1>6, <1>7, <1>8, <1>9 DEF AgentInv

(* The sockets open: no session is touched.                                  *)
LEMMA OpensSafe == AgentInv /\ (Connect \/ OpenAiOpens) => AgentInv'
  <1> SUFFICES ASSUME AgentInv, Connect \/ OpenAiOpens PROVE AgentInv'
    OBVIOUS
  <1>1. /\ UNCHANGED <<deliveries, answering, sessions, agentSession, streamSession, transcribing,
                       callEnd, agentLog, logHasLead, agentLeads, confirmations, agentFaults>>
        /\ twilioWs' = twilioWs \/ (twilioWs' = "open" /\ sessions # << >>)
        /\ openaiWs' \in {"connecting", "open"}
    BY DEF Connect, OpenAiOpens, results
  <1>2. AgentTypeOK'
    BY <1>1 DEF AgentInv, AgentTypeOK
  <1>3. EndedOnce'
    BY <1>1 DEF AgentInv, EndedOnce
  <1>4. agentFaults = MaxAgentFaults => LogFollows' /\ FirstIsLogged'
    BY <1>1 DEF AgentInv, LogFollows, FirstIsLogged
  <1> QED
    BY <1>1, <1>2, <1>3, <1>4 DEF AgentInv

(* The stream takes its session: the one in the map, or a bare one of its    *)
(* own after a restart. None is marked yet.                                  *)
LEMMA StartSafe == AgentInv /\ Start => AgentInv'
  <1> SUFFICES ASSUME AgentInv, Start PROVE AgentInv'
    OBVIOUS
  <1>1. /\ twilioWs = "open" /\ streamSession = 0
        /\ UNCHANGED <<deliveries, answering, twilioWs, openaiWs, callEnd, agentLog, logHasLead,
                       agentLeads, confirmations, agentFaults>>
        /\ transcribing' \in BOOLEAN
    BY DEF Start, results
  <1>2. /\ sessions \in Seq(AgentSession) /\ Len(sessions) \in Nat /\ agentSession \in 0..Len(sessions)
        /\ callEnd = {} /\ agentLeads = 0
        /\ \A i \in 1..Len(sessions) : ~sessions[i].processed
    BY <1>1, LenProperties DEF AgentInv, AgentTypeOK, AgentSession, EndedOnce
  <1>3. /\ sessions' \in Seq(AgentSession) /\ Len(sessions') \in Nat
        /\ agentSession' \in 1..Len(sessions') /\ streamSession' = agentSession'
        /\ \A i \in 1..Len(sessions') : ~sessions'[i].processed
        /\ agentSession # 0 => sessions' = sessions
    <2>1. CASE agentSession # 0
      BY <1>2, <2>1 DEF Start
    <2>2. CASE agentSession = 0
      <3>1. sessions' = NewSession(FALSE) /\ streamSession' = Len(sessions) + 1 /\ agentSession' = streamSession'
        BY <2>2 DEF Start
      <3>2. /\ sessions' \in Seq(AgentSession) /\ Len(sessions') = Len(sessions) + 1
            /\ \A i \in 1..Len(sessions) : sessions'[i] = sessions[i]
            /\ sessions'[Len(sessions) + 1] = [logged |-> FALSE, saved |-> FALSE, processed |-> FALSE]
        BY <1>2, <3>1, SessionAdded
      <3>3. \A i \in 1..Len(sessions') : i \in 1..Len(sessions) \/ i = Len(sessions) + 1
        BY <1>2, <3>2
      <3>4. ~sessions'[Len(sessions) + 1].processed
        BY <3>2
      <3>5. Len(sessions') \in Nat /\ Len(sessions) + 1 \in 1..Len(sessions')
        BY <1>2, <3>2
      <3>6. \A i \in 1..Len(sessions') : ~sessions'[i].processed
        BY <1>2, <3>2, <3>3, <3>4
      <3> QED
        BY <2>2, <3>1, <3>2, <3>5, <3>6
    <2> QED
      BY <2>1, <2>2
  <1>4. AgentTypeOK'
    BY <1>1, <1>2, <1>3 DEF AgentInv, AgentTypeOK, AgentSession
  <1>5. EndedOnce'
    BY <1>1, <1>2, <1>3 DEF AgentInv, EndedOnce
  <1>6. agentFaults = MaxAgentFaults => LogFollows'
    BY <1>1, <1>2, <1>3 DEF AgentInv, LogFollows
  <1>7. ASSUME agentFaults = MaxAgentFaults PROVE FirstIsLogged'
    <2>1. FirstIsLogged /\ sessions' = sessions
      BY <1>1, <1>3, <1>7 DEF AgentInv, FirstIsLogged
    <2>2. streamSession' # 0
      BY <1>3
    <2> QED
      BY <1>1, <2>1, <2>2 DEF FirstIsLogged
  <1> QED
    BY <1>1, <1>4, <1>5, <1>6, <1>7 DEF AgentInv

(* The tool call fills the session in; an end under way does not look again. *)
LEMMA SaveSafe == AgentInv /\ SaveQualification => AgentInv'
  <1> SUFFICES ASSUME AgentInv, SaveQualification PROVE AgentInv'
    OBVIOUS
  <1> DEFINE s == streamSession
             q == [sessions[s] EXCEPT !.saved = TRUE]
  <1>1. /\ s # 0 /\ sessions' = [sessions EXCEPT ![s] = q]
        /\ UNCHANGED <<deliveries, answering, agentSession, twilioWs, openaiWs, streamSession, transcribing,
                       callEnd, agentLog, logHasLead, agentLeads, confirmations, agentFaults>>
    BY DEF SaveQualification, sockets, results
  <1>2. sessions \in Seq(AgentSession) /\ Len(sessions) \in Nat /\ s \in 1..Len(sessions) /\ sessions[s] \in AgentSession
    <2>1. sessions \in Seq(AgentSession) /\ s \in 0..Len(sessions)
      BY DEF AgentInv, AgentTypeOK, AgentSession
    <2>2. Len(sessions) \in Nat
      BY <2>1, LenProperties
    <2>3. s \in 1..Len(sessions)
      BY <1>1, <2>1, <2>2
    <2> QED
      BY <2>1, <2>2, <2>3, ElementOfSeq
  <1>3. q \in AgentSession
    BY <1>2 DEF AgentSession
  <1>4. q.saved
    BY <1>2 DEF AgentSession
  <1>5. q.logged = sessions[s].logged
    BY <1>2 DEF AgentSession
  <1>6. q.processed = sessions[s].processed
    BY <1>2 DEF AgentSession
  <1>7. /\ sessions' \in Seq(AgentSession) /\ Len(sessions') = Len(sessions) /\ sessions'[s] = q
        /\ \A i \in 1..Len(sessions) \ {s} : sessions'[i] = sessions[i]
        /\ sessions # << >> /\ sessions' # << >>
    BY <1>1, <1>2, <1>3, SessionMarked
  <1>8. /\ sessions'[s].saved
        /\ sessions'[s].logged = sessions[s].logged
        /\ sessions'[s].processed = sessions[s].processed
    BY <1>4, <1>5, <1>6, <1>7
  <1> HIDE DEF q
  <1>9. AgentTypeOK'
    BY <1>1, <1>7 DEF AgentInv, AgentTypeOK, AgentSession
  <1>10. EndedOnce'
    BY <1>1, <1>7, <1>8 DEF AgentInv, EndedOnce
  <1>11. agentFaults = MaxAgentFaults => LogFollows'
    BY <1>1, <1>8 DEF AgentInv, LogFollows
  <1>12. agentFaults = MaxAgentFaults => FirstIsLogged'
    BY <1>1, <1>2, <1>7, <1>8 DEF AgentInv, FirstIsLogged
  <1> QED
    BY <1>1, <1>9, <1>10, <1>11, <1>12 DEF AgentInv

(* The stop event and the close of the socket: the first of them starts the  *)
(* end, the other finds the session marked.                                  *)
LEMMA EndsSafe == AgentInv /\ (Stop \/ Close) => AgentInv'
  <1> SUFFICES ASSUME AgentInv, Stop \/ Close PROVE AgentInv'
    OBVIOUS
  <1> DEFINE s == streamSession
             q == [sessions[s] EXCEPT !.processed = TRUE]
             e == [step |-> "update", session |-> s, qualified |-> sessions[s].saved]
  <1>1. /\ twilioWs \in {"open", "stopped"} /\ twilioWs' \in {"stopped", "closed"} /\ openaiWs' = "closed"
        /\ UNCHANGED <<deliveries, answering, streamSession, transcribing,
                       agentLog, logHasLead, agentLeads, confirmations, agentFaults>>
        /\ BeginEnd(s)
    BY DEF Stop, Close, results
  <1>2. CASE ~NotProcessed(s)
    <2>1. UNCHANGED <<sessions, agentSession, callEnd>> /\ (s # 0 => sessions[s].processed)
      BY <1>1, <1>2 DEF BeginEnd, NotProcessed
    <2>2. AgentTypeOK'
      BY <1>1, <2>1 DEF AgentInv, AgentTypeOK
    <2>3. EndedOnce'
      BY <1>1, <2>1 DEF AgentInv, EndedOnce
    <2>4. agentFaults = MaxAgentFaults => LogFollows' /\ FirstIsLogged'
      BY <1>1, <2>1 DEF AgentInv, LogFollows, FirstIsLogged
    <2> QED
      BY <1>1, <2>2, <2>3, <2>4 DEF AgentInv
  <1>3. CASE NotProcessed(s)
    <2>1. /\ s # 0 /\ ~sessions[s].processed
          /\ sessions' = [sessions EXCEPT ![s] = q] /\ agentSession' = 0 /\ callEnd' = callEnd \cup {e}
      BY <1>1, <1>3 DEF BeginEnd, NotProcessed
    <2>2. sessions \in Seq(AgentSession) /\ Len(sessions) \in Nat /\ s \in 1..Len(sessions) /\ sessions[s] \in AgentSession
      <3>1. sessions \in Seq(AgentSession) /\ s \in 0..Len(sessions)
        BY DEF AgentInv, AgentTypeOK, AgentSession
      <3>2. Len(sessions) \in Nat
        BY <3>1, LenProperties
      <3>3. s \in 1..Len(sessions)
        BY <2>1, <3>1, <3>2
      <3> QED
        BY <3>1, <3>2, <3>3, ElementOfSeq
    <2>3. q \in AgentSession
      BY <2>2 DEF AgentSession
    <2>4. q.processed
      BY <2>2 DEF AgentSession
    <2>5. q.logged = sessions[s].logged
      BY <2>2 DEF AgentSession
    <2>6. q.saved = sessions[s].saved
      BY <2>2 DEF AgentSession
    <2>7. /\ sessions' \in Seq(AgentSession) /\ Len(sessions') = Len(sessions) /\ sessions'[s] = q
          /\ \A i \in 1..Len(sessions) \ {s} : sessions'[i] = sessions[i]
          /\ sessions # << >> /\ sessions' # << >>
      BY <2>1, <2>2, <2>3, SessionMarked
    <2>8. /\ sessions'[s].processed
          /\ sessions'[s].logged = sessions[s].logged
          /\ sessions'[s].saved = sessions[s].saved
      BY <2>4, <2>5, <2>6, <2>7
    <2>9. callEnd = {} /\ agentLeads = 0 /\ confirmations = 0
      BY <2>1 DEF AgentInv, AgentTypeOK, EndedOnce
    <2>10. callEnd' = {e} /\ e.step = "update" /\ e.session = s /\ e.qualified = sessions[s].saved
      BY <2>1, <2>9
    <2> HIDE DEF q
    <2>11. AgentTypeOK'
      <3>1. e \in [step : Steps, session : 1..Len(sessions'), qualified : BOOLEAN]
        BY <2>2, <2>7 DEF AgentSession, Steps
      <3>2. 0 \in 0..Len(sessions')
        BY <2>2, <2>7
      <3> HIDE DEF e
      <3> QED
        BY <1>1, <2>1, <2>7, <2>10, <3>1, <3>2 DEF AgentInv, AgentTypeOK, AgentSession
    <2> HIDE DEF e
    <2>12. EndedOnce'
      BY <1>1, <2>1, <2>7, <2>8, <2>9, <2>10 DEF AgentInv, EndedOnce
    <2>13. agentFaults = MaxAgentFaults => LogFollows'
      BY <1>1, <2>1, <2>8, <2>9, <2>10 DEF AgentInv, LogFollows
    <2>14. agentFaults = MaxAgentFaults => FirstIsLogged'
      BY <1>1, <2>1, <2>2, <2>7, <2>8 DEF AgentInv, FirstIsLogged
    <2> QED
      BY <1>1, <2>11, <2>12, <2>13, <2>14 DEF AgentInv
  <1> QED
    BY <1>2, <1>3

(* One step of the end, taken by the only run there is.                      *)
LEMMA EndStepSafe == ASSUME AgentInv, NEW e \in callEnd, EndStep(e) PROVE AgentInv'
  <1>1. /\ e \in [step : Steps, session : 1..Len(sessions), qualified : BOOLEAN]
        /\ callEnd = {e} /\ e.session = streamSession /\ streamSession # 0 /\ sessions[streamSession].processed
        /\ confirmations = 0
        /\ e.step \in {"update", "insert"} => agentLeads = 0
        /\ e.step \in {"link", "text"} => agentLeads = 1
        /\ e.step # "update" => e.qualified
        /\ e.qualified => sessions[streamSession].saved
    BY DEF AgentInv, AgentTypeOK, EndedOnce
  <1>2. UNCHANGED <<deliveries, answering, sessions, agentSession, twilioWs, openaiWs, streamSession,
                    transcribing, agentFaults>>
    BY DEF EndStep, sockets
  <1>3. agentFaults = MaxAgentFaults => FirstIsLogged /\ LogFollows
    BY DEF AgentInv
  <1>4. ASSUME NEW to \in Steps
        PROVE  /\ [e EXCEPT !.step = to] \in [step : Steps, session : 1..Len(sessions), qualified : BOOLEAN]
               /\ [e EXCEPT !.step = to].step = to
               /\ [e EXCEPT !.step = to].session = e.session
               /\ [e EXCEPT !.step = to].qualified = e.qualified
    <2>1. [e EXCEPT !.step = to] \in [step : Steps, session : 1..Len(sessions), qualified : BOOLEAN]
      BY <1>1
    <2>2. [e EXCEPT !.step = to].step = to /\ [e EXCEPT !.step = to].session = e.session
      BY <1>1
    <2>3. [e EXCEPT !.step = to].qualified = e.qualified
      BY <1>1
    <2> QED
      BY <2>1, <2>2, <2>3
  <1>5. CASE EndUpdate(e)
    <2>1. /\ e.step = "update" /\ UNCHANGED <<logHasLead, agentLeads, confirmations>>
          /\ agentLog' = IF ~sessions[e.session].logged THEN agentLog
                         ELSE IF e.qualified THEN "ai_qualified" ELSE "ai_unqualified"
          /\ callEnd' = IF e.qualified THEN {[e EXCEPT !.step = "insert"]} ELSE {}
      BY <1>1, <1>5 DEF EndUpdate, UpdatesLog
    <2>2. (callEnd' = {} /\ ~e.qualified) \/ \E f \in callEnd' : /\ callEnd' = {f} /\ f.step = "insert" /\ f.session = e.session
                                              /\ f.qualified /\ e.qualified
                                              /\ f \in [step : Steps, session : 1..Len(sessions), qualified : BOOLEAN]
      BY <1>4, <2>1 DEF Steps
    <2>3. AgentTypeOK'
      <3>1. callEnd' \subseteq [step : Steps, session : 1..Len(sessions), qualified : BOOLEAN]
        BY <2>2
      <3>2. agentLog' \in {"none", "ai_pending", "ai_qualified", "ai_unqualified"}
        BY <2>1 DEF AgentInv, AgentTypeOK
      <3> QED
        BY <1>2, <2>1, <3>1, <3>2 DEF AgentInv, AgentTypeOK
    <2>4. EndedOnce'
      BY <1>1, <1>2, <2>1, <2>2 DEF AgentInv, EndedOnce
    <2>5. agentFaults = MaxAgentFaults => LogFollows' /\ FirstIsLogged'
      <3> SUFFICES ASSUME agentFaults = MaxAgentFaults PROVE LogFollows' /\ FirstIsLogged'
        OBVIOUS
      <3>1. agentLeads = 0 /\ LogFollows /\ FirstIsLogged /\ agentLog # "ai_qualified"
        BY <1>1, <1>3, <2>1 DEF LogFollows
      <3>2. FirstIsLogged'
        <4>1. deliveries # 0
          <5>1. Len(sessions) # 0
            BY <1>1 
          <5> QED
            BY <3>1, <5>1, EmptySeq DEF FirstIsLogged
        <4> QED
          BY <1>2, <3>1, <4>1 DEF FirstIsLogged
      <3>3. agentLog' = "ai_qualified" => \E f \in callEnd' : f.step = "insert"
        BY <2>1, <2>2, <3>1
      <3>4. sessions[streamSession].logged => agentLog' \in {"ai_qualified", "ai_unqualified"}
        BY <1>1, <2>1
      <3> QED
        BY <1>2, <2>1, <3>1, <3>2, <3>3, <3>4 DEF LogFollows
    <2> QED
      BY <1>2, <2>3, <2>4, <2>5 DEF AgentInv
  <1>6. CASE EndInsert(e)
    <2>1. /\ e.step = "insert" /\ agentLeads' = 1 /\ UNCHANGED <<agentLog, logHasLead, confirmations>>
          /\ callEnd' = {[e EXCEPT !.step = "link"]}
      BY <1>1, <1>6 DEF EndInsert
    <2>2. PICK f \in callEnd' : /\ callEnd' = {f} /\ f.step = "link" /\ f.session = e.session /\ f.qualified
                                /\ f \in [step : Steps, session : 1..Len(sessions), qualified : BOOLEAN]
      BY <1>1, <1>4, <2>1 DEF Steps
    <2>3. AgentTypeOK'
      BY <1>2, <2>1, <2>2 DEF AgentInv, AgentTypeOK
    <2>4. EndedOnce'
      BY <1>1, <1>2, <2>1, <2>2 DEF AgentInv, EndedOnce
    <2>5. agentFaults = MaxAgentFaults => LogFollows'
      BY <1>1, <1>2, <1>3, <2>1, <2>2 DEF LogFollows
    <2>6. agentFaults = MaxAgentFaults => FirstIsLogged'
      BY <1>2, <1>3, <2>1 DEF FirstIsLogged
    <2> QED
      BY <1>2, <2>3, <2>4, <2>5, <2>6 DEF AgentInv
  <1>7. CASE EndLink(e)
    <2>1. /\ e.step = "link" /\ UNCHANGED <<agentLog, agentLeads, confirmations>>
          /\ logHasLead' = (logHasLead \/ sessions[e.session].logged)
          /\ callEnd' = {[e EXCEPT !.step = "text"]}
      BY <1>1, <1>7 DEF EndLink
    <2>2. PICK f \in callEnd' : /\ callEnd' = {f} /\ f.step = "text" /\ f.session = e.session /\ f.qualified
                                /\ f \in [step : Steps, session : 1..Len(sessions), qualified : BOOLEAN]
      BY <1>1, <1>4, <2>1 DEF Steps
    <2>3. AgentTypeOK'
      <3>1. logHasLead' \in BOOLEAN
        BY <2>1
      <3> QED
        BY <1>2, <2>1, <2>2, <3>1 DEF AgentInv, AgentTypeOK
    <2>4. EndedOnce'
      BY <1>1, <1>2, <2>1, <2>2 DEF AgentInv, EndedOnce
    <2>5. agentFaults = MaxAgentFaults => LogFollows'
      BY <1>1, <1>2, <1>3, <2>1, <2>2 DEF LogFollows
    <2>6. agentFaults = MaxAgentFaults => FirstIsLogged'
      BY <1>2, <1>3, <2>1 DEF FirstIsLogged
    <2> QED
      BY <1>2, <2>3, <2>4, <2>5, <2>6 DEF AgentInv
  <1>8. CASE EndText(e)
    <2>1. /\ e.step = "text" /\ UNCHANGED <<agentLog, logHasLead, agentLeads>>
          /\ confirmations' \in {0, 1} /\ callEnd' = {}
      BY <1>1, <1>8 DEF EndText
    <2>2. AgentTypeOK'
      BY <1>2, <2>1 DEF AgentInv, AgentTypeOK
    <2>3. EndedOnce'
      BY <1>1, <1>2, <2>1 DEF AgentInv, EndedOnce
    <2>4. agentFaults = MaxAgentFaults => LogFollows'
      BY <1>1, <1>2, <1>3, <2>1 DEF LogFollows
    <2>5. agentFaults = MaxAgentFaults => FirstIsLogged'
      BY <1>2, <1>3, <2>1 DEF FirstIsLogged
    <2> QED
      BY <1>2, <2>2, <2>3, <2>4, <2>5 DEF AgentInv
  <1> QED
    BY <1>5, <1>6, <1>7, <1>8 DEF EndStep

(* A fault: the run is gone, what it wrote stays.                            *)
LEMMA FaultSafe ==
    ASSUME AgentInv, Restart \/ \E e \in callEnd : EndFails(e)
    PROVE  AgentInv'
  <1>1. /\ agentFaults > 0 /\ agentFaults' = agentFaults - 1
        /\ callEnd' \subseteq callEnd /\ answering' \subseteq answering
        /\ agentSession' \in {0, agentSession}
        /\ twilioWs' \in {twilioWs, "closed"} /\ openaiWs' \in {openaiWs, "none"}
        /\ UNCHANGED <<deliveries, sessions, streamSession, transcribing, agentLog, logHasLead,
                       agentLeads, confirmations>>
    BY DEF Restart, EndFails, sockets, results
  <1>2. agentFaults' \in 0..MaxAgentFaults /\ agentFaults' # MaxAgentFaults
    BY <1>1, AgentAssumption DEF AgentInv, AgentTypeOK
  <1>3. 0 \in 0..Len(sessions)
    BY LenProperties DEF AgentInv, AgentTypeOK
  <1>4. AgentTypeOK'
    BY <1>1, <1>2, <1>3 DEF AgentInv, AgentTypeOK
  <1>5. EndedOnce'
    BY <1>1 DEF AgentInv, EndedOnce
  <1> QED
    BY <1>2, <1>4, <1>5 DEF AgentInv

(* Every step keeps the invariant.                                           *)
LEMMA AgentStep == AgentInv /\ [AgentNext]_agentVars => AgentInv'
  <1> SUFFICES ASSUME AgentInv, [AgentNext]_agentVars PROVE AgentInv'
    OBVIOUS
  <1>1. CASE UNCHANGED agentVars
    <2>1. /\ UNCHANGED <<deliveries, answering, sessions, agentSession, twilioWs, openaiWs, streamSession>>
          /\ UNCHANGED <<transcribing, callEnd, agentLog, logHasLead, agentLeads, confirmations, agentFaults>>
      BY <1>1 DEF agentVars
    <2>2. AgentTypeOK'
      BY <2>1 DEF AgentInv, AgentTypeOK
    <2>3. EndedOnce'
      BY <2>1 DEF AgentInv, EndedOnce
    <2>4. agentFaults = MaxAgentFaults => LogFollows' /\ FirstIsLogged'
      BY <2>1 DEF AgentInv, LogFollows, FirstIsLogged
    <2> QED
      BY <2>1, <2>2, <2>3, <2>4 DEF AgentInv
  <1>2. ASSUME NEW e \in callEnd, EndStep(e) PROVE AgentInv'
    BY <1>2, EndStepSafe
  <1>3. ASSUME NEW logged \in answering, Answer(logged) PROVE AgentInv'
    BY <1>3, AnswerSafe
  <1> QED
    BY <1>1, <1>2, <1>3, InboundSafe, OpensSafe, StartSafe, SaveSafe, EndsSafe, FaultSafe DEF AgentNext

(* The invariant holds, whatever webhooks and faults there are.              *)
THEOREM AgentInvariant == AgentSpec => []AgentInv
  BY AgentStarts, AgentStep, PTL DEF AgentSpec

(* Sessions, sockets and results keep to their types.                        *)
THEOREM AgentTyped == AgentSpec => []AgentTypeOK
  <1>1. AgentInv => AgentTypeOK
    BY DEF AgentInv
  <1> QED
    BY <1>1, AgentInvariant, PTL

(* processCallEnd makes one lead and one confirmation of a call, however     *)
(* often the webhook comes and the stream ends.                              *)
THEOREM OneLead == AgentSpec => []OneLeadPerCall
  <1>1. AgentInv => OneLeadPerCall
    BY DEF AgentInv, EndedOnce, OneLeadPerCall
  <1> QED
    BY <1>1, AgentInvariant, PTL

(* A call that ended without a fault is accounted for in the log and the     *)
(* leads.                                                                    *)
THEOREM CallsAccounted == AgentSpec => []CallAccounted
  <1>1. ASSUME AgentInv, twilioWs = "closed", streamSession # 0, callEnd = {}, agentFaults = MaxAgentFaults
        PROVE  /\ agentLeads = 0 \/ sessions[streamSession].saved
               /\ agentLog = "ai_qualified" => agentLeads = 1
               /\ sessions[streamSession].logged => /\ agentLog \in {"ai_qualified", "ai_unqualified"}
                                                    /\ logHasLead <=> agentLeads = 1
               /\ deliveries = 1 => sessions[streamSession].logged
    <2>1. LogFollows /\ FirstIsLogged /\ EndedOnce
      BY <1>1 DEF AgentInv
    <2>2. agentLeads = 0 \/ sessions[streamSession].saved
      BY <1>1, <2>1 DEF AgentInv, AgentTypeOK, EndedOnce
    <2>3. agentLog = "ai_qualified" => agentLeads = 1
      BY <1>1, <2>1 DEF LogFollows
    <2>4. sessions[streamSession].logged => agentLog \in {"ai_qualified", "ai_unqualified"}
      BY <1>1, <2>1 DEF LogFollows
    <2>5. sessions[streamSession].logged => (logHasLead <=> agentLeads = 1)
      BY <1>1, <2>1 DEF LogFollows
    <2>6. deliveries = 1 => sessions[streamSession].logged
      <3>1. Len(sessions) \in Nat /\ streamSession \in 0..Len(sessions)
        BY <1>1, LenProperties DEF AgentInv, AgentTypeOK
      <3>2. streamSession \in 1..Len(sessions)
        BY <1>1, <3>1
      <3> QED
        BY <2>1, <3>2 DEF FirstIsLogged
    <2> QED
      BY <2>2, <2>3, <2>4, <2>5, <2>6
  <1>2. AgentInv => CallAccounted
    BY <1>1 DEF CallAccounted
  <1> QED
    BY <1>2, AgentInvariant, PTL

-----------------------------------------------------------------------------
(* The texts of a number *)

OnTheWay(m) == step[m] \in {"send", "sendHelp", "sendAck"}

StopRespected ==
    /\ late \subseteq sendingAtStop
    /\ ~optedOut => late = {}
    /\ optedOut => \A m \in Message : OnTheWay(m) => m \in sendingAtStop

Exact == ~overlapped /\ inboxFaults = MaxInboxFaults

OneReply == \A m, n \in Message : step[m] \in Replying /\ step[n] \in Replying => m = n
Counted ==
    /\ (\A m \in Message : step[m] # "log") => sentToday = repliesToday
    /\ \A m \in Message : step[m] = "log" => sentToday = repliesToday + 1
    /\ repliesToday <= MaxPerDay
    /\ \A m \in Message : step[m] \in Replying => repliesToday < MaxPerDay

RepliesCounted == Exact => OneReply /\ Counted

InboxInv == InboxTypeOK /\ StopRespected /\ RepliesCounted

(* A handler's move, seen from every handler.                                *)
LEMMA Moved ==
    ASSUME InboxTypeOK, NEW m \in Message, NEW to \in InboxStep, GoOn(m, to)
    PROVE  /\ step' \in [Message -> InboxStep]
           /\ \A n \in Message : step'[n] = IF n = m THEN to ELSE step[n]
  BY DEF InboxTypeOK, GoOn

(* Nothing was sent at the start.                                            *)
LEMMA StartsSilent == InboxInit => InboxInv
  <1> SUFFICES ASSUME InboxInit PROVE InboxInv
    OBVIOUS
  <1>1. InboxTypeOK
    <2>1. "read" \in InboxStep
      BY DEF InboxStep
    <2>2. step \in [Message -> InboxStep]
      BY <2>1 DEF InboxInit
    <2>3. inboxFaults \in 0..MaxInboxFaults
      BY InboxAssumption DEF InboxInit
    <2> QED
      BY <2>2, <2>3 DEF InboxInit, InboxTypeOK
  <1>2. StopRespected
    BY DEF InboxInit, StopRespected, OnTheWay
  <1>3. RepliesCounted
    BY InboxAssumption DEF InboxInit, RepliesCounted, OneReply, Counted, Replying
  <1> QED
    BY <1>1, <1>2, <1>3 DEF InboxInv

(* A fault ends the exact count.                                             *)
LEMMA FaultCounts == ASSUME InboxTypeOK, InboxFault PROVE inboxFaults' \in 0..MaxInboxFaults /\ ~Exact'
  BY InboxAssumption DEF InboxTypeOK, InboxFault, Exact

(* A handler's move that neither begins a text nor leaves or begins a reply  *)
(* disturbs nothing else; nor does the end of a handler by a fault.          *)
LEMMA QuietMove ==
    ASSUME InboxInv, NEW m \in Message, NEW to \in InboxStep, GoOn(m, to),
           to \notin {"send", "sendHelp", "sendAck"},
           to \notin Replying, step[m] # "log",
           UNCHANGED <<says, hasLead, limits, consent>>, leadSeen' \subseteq Message,
           UNCHANGED inboxFaults \/ InboxFault
    PROVE  InboxInv'
  <1>1. /\ step' \in [Message -> InboxStep]
        /\ \A n \in Message : step'[n] = IF n = m THEN to ELSE step[n]
    BY Moved DEF InboxInv
  <1>2. inboxFaults' \in 0..MaxInboxFaults /\ (Exact' => Exact)
    BY FaultCounts DEF InboxInv, InboxTypeOK, Exact, limits
  <1>3. InboxTypeOK'
    BY <1>1, <1>2 DEF InboxInv, InboxTypeOK, limits, consent
  <1>4. StopRespected'
    BY <1>1 DEF InboxInv, StopRespected, OnTheWay, consent
  <1>5. RepliesCounted'
    BY <1>1, <1>2 DEF InboxInv, RepliesCounted, OneReply, Counted, Replying, limits
  <1> QED
    BY <1>3, <1>4, <1>5 DEF InboxInv

(* STOP: the texts on their way are those that may still arrive.             *)
LEMMA OptOutSafe == ASSUME InboxInv, NEW m \in Message, OptOut(m) PROVE InboxInv'
  <1>1. GoOn(m, "acknowledge") /\ "acknowledge" \in InboxStep /\ "acknowledge" \notin Replying
    BY DEF OptOut, InboxStep, Replying
  <1>2. /\ step' \in [Message -> InboxStep]
        /\ \A n \in Message : step'[n] = IF n = m THEN "acknowledge" ELSE step[n]
    BY <1>1, Moved DEF InboxInv
  <1>3. inboxFaults' \in 0..MaxInboxFaults /\ (Exact' => Exact)
    BY FaultCounts DEF OptOut, InboxInv, InboxTypeOK, Exact, limits
  <1>4. InboxTypeOK'
    BY <1>2, <1>3 DEF OptOut, InboxInv, InboxTypeOK, limits, unread
  <1>5. StopRespected'
    BY <1>2 DEF OptOut, InboxInv, InboxTypeOK, StopRespected, OnTheWay
  <1>6. RepliesCounted'
    BY <1>2, <1>3 DEF OptOut, InboxInv, RepliesCounted, OneReply, Counted, Replying, limits
  <1> QED
    BY <1>4, <1>5, <1>6 DEF InboxInv

(* A reply begins below the limit, and counts as overlapping another.        *)
LEMMA CountSafe == ASSUME InboxInv, NEW m \in Message, CountReplies(m) PROVE InboxInv'
  <1>1. CASE ~BelowLimit(repliesToday)
    BY <1>1, QuietMove DEF CountReplies, InboxInv, InboxTypeOK, InboxStep, Replying, limits, unread
  <1>2. CASE BelowLimit(repliesToday)
    <2>1. GoOn(m, "generate") /\ "generate" \in InboxStep
      BY <1>2 DEF CountReplies, InboxStep, Replying
    <2>2. /\ step' \in [Message -> InboxStep]
          /\ \A n \in Message : step'[n] = IF n = m THEN "generate" ELSE step[n]
      BY <2>1, Moved DEF InboxInv
    <2>3. Exact' => Exact /\ \A n \in Message : step[n] \notin Replying
      BY <1>2 DEF CountReplies, Exact
    <2>4. InboxTypeOK'
      BY <1>2, <2>2 DEF CountReplies, InboxInv, InboxTypeOK, unread, consent
    <2>5. StopRespected'
      BY <2>2 DEF CountReplies, InboxInv, StopRespected, OnTheWay, consent
    <2>6. RepliesCounted'
      BY <1>2, <2>2, <2>3 DEF CountReplies, BelowLimit, InboxInv, RepliesCounted, OneReply, Counted, Replying
    <2> QED
      BY <2>4, <2>5, <2>6 DEF InboxInv
  <1> QED
    BY <1>1, <1>2

(* sendSms goes on to Twilio only if the number has not opted out.           *)
LEMMA SendSmsSafe == ASSUME InboxInv, NEW m \in Message, SendSms(m) PROVE InboxInv'
  <1> PICK s \in {<<"acknowledge", "sendAck">>, <<"help", "sendHelp">>, <<"generate", "send">>} :
            step[m] = s[1] /\ GoOn(m, IF MayText THEN s[2] ELSE "done")
    BY DEF SendSms
  <1> DEFINE to == IF MayText THEN s[2] ELSE "done"
  <1>1. to \in InboxStep /\ (OnTheWay(m)' => MayText)
    <2>1. to \in InboxStep
      BY DEF InboxStep, Replying
    <2> QED
      BY <2>1, Moved DEF InboxInv, OnTheWay
  <1>2. /\ step' \in [Message -> InboxStep]
        /\ \A n \in Message : step'[n] = IF n = m THEN to ELSE step[n]
    BY <1>1, Moved DEF InboxInv
  <1>3. InboxTypeOK'
    BY <1>2 DEF SendSms, InboxInv, InboxTypeOK, unread, limits, consent
  <1>4. StopRespected'
    BY <1>1, <1>2 DEF SendSms, MayText, InboxInv, StopRespected, OnTheWay, consent
  <1>5. to # "log" /\ step[m] # "log" /\ (to \in Replying => step[m] \in Replying)
    BY DEF Replying
  <1>6. (Exact' <=> Exact) /\ UNCHANGED limits
    BY DEF SendSms, Exact, limits
  <1>7. RepliesCounted'
    BY <1>2, <1>5, <1>6 DEF InboxInv, RepliesCounted, OneReply, Counted, limits
  <1> QED
    BY <1>3, <1>4, <1>7 DEF InboxInv

(* Twilio takes a text: a reply is sent and waits for its log.               *)
LEMMA TextSafe == ASSUME InboxInv, NEW m \in Message, Text(m) PROVE InboxInv'
  <1>1. CASE InboxFault /\ GoOn(m, "done") /\ UNCHANGED <<late, acknowledged, throttled, sentToday>>
    BY <1>1, QuietMove DEF Text, InboxInv, InboxTypeOK, InboxStep, Replying, limits, consent, unread
  <1>2. CASE /\ late' = IF optedOut THEN late \cup {m} ELSE late
             /\ acknowledged' = IF step[m] = "sendAck" THEN acknowledged \cup {m} ELSE acknowledged
             /\ IF step[m] = "send"
                THEN GoOn(m, "log") /\ throttled' = TRUE /\ sentToday' = sentToday + 1
                ELSE GoOn(m, "done") /\ UNCHANGED <<throttled, sentToday>>
             /\ UNCHANGED inboxFaults
    <2> DEFINE to == IF step[m] = "send" THEN "log" ELSE "done"
    <2>1. to \in InboxStep /\ GoOn(m, to)
      BY <1>2 DEF InboxStep, Replying
    <2>2. /\ step' \in [Message -> InboxStep]
          /\ \A n \in Message : step'[n] = IF n = m THEN to ELSE step[n]
      BY <2>1, Moved DEF InboxInv
    <2>3. InboxTypeOK'
      <3>1. late' \subseteq Message /\ acknowledged' \subseteq Message
        BY <1>2 DEF InboxInv, InboxTypeOK
      <3>2. sentToday' \in Nat
        BY <1>2 DEF InboxInv, InboxTypeOK
      <3>3. throttled' \in BOOLEAN
        BY <1>2, Zenon DEF InboxInv, InboxTypeOK
      <3> QED
        BY <1>2, <2>2, <3>1, <3>2, <3>3 DEF Text, InboxInv, InboxTypeOK, unread
    <2>4. StopRespected'
      BY <1>2, <2>2 DEF Text, InboxInv, StopRespected, OnTheWay
    <2>5. Exact' => Exact
      BY <1>2 DEF Text, Exact
    <2>6. RepliesCounted'
      <3> SUFFICES ASSUME Exact' PROVE OneReply' /\ Counted'
        BY DEF RepliesCounted
      <3>1. OneReply /\ Counted
        BY <2>5 DEF InboxInv, RepliesCounted
      <3>2. CASE step[m] = "send"
        <4>1. \A n \in Message : step[n] # "log"
          BY <3>1, <3>2 DEF OneReply, Replying
        <4>2. sentToday' = repliesToday' + 1 /\ repliesToday' = repliesToday /\ repliesToday < MaxPerDay
          BY <1>2, <3>1, <3>2, <4>1 DEF Text, Counted, Replying
        <4> QED
          BY <2>2, <3>1, <3>2, <4>2 DEF OneReply, Counted, Replying
      <3>3. CASE step[m] # "send"
        BY <1>2, <2>2, <3>1, <3>3 DEF Text, OneReply, Counted, Replying
      <3> QED
        BY <3>2, <3>3
    <2> QED
      BY <2>3, <2>4, <2>6 DEF InboxInv
  <1> QED
    BY <1>1, <1>2 DEF Text

(* The log catches up with what was sent.                                    *)
LEMMA LogSafe == ASSUME InboxInv, NEW m \in Message, LogReply(m) PROVE InboxInv'
  <1>1. GoOn(m, "done") /\ "done" \in InboxStep /\ "done" \notin Replying
    BY DEF LogReply, InboxStep, Replying
  <1>2. /\ step' \in [Message -> InboxStep]
        /\ \A n \in Message : step'[n] = IF n = m THEN "done" ELSE step[n]
    BY <1>1, Moved DEF InboxInv
  <1>3. inboxFaults' \in 0..MaxInboxFaults
    BY FaultCounts DEF LogReply, InboxInv, InboxTypeOK
  <1>4. InboxTypeOK'
    BY <1>2, <1>3 DEF LogReply, InboxInv, InboxTypeOK, unread, consent
  <1>5. StopRespected'
    BY <1>2 DEF LogReply, InboxInv, StopRespected, OnTheWay, consent
  <1>6. RepliesCounted'
    <2> SUFFICES ASSUME Exact' PROVE OneReply' /\ Counted'
      BY DEF RepliesCounted
    <2>1. Exact /\ repliesToday' = repliesToday + 1
      BY FaultCounts DEF LogReply, InboxInv, Exact
    <2>2. OneReply /\ Counted
      BY <2>1 DEF InboxInv, RepliesCounted
    <2>3. \A n \in Message : step'[n] \notin Replying
      BY <1>1, <1>2, <2>2 DEF LogReply, OneReply, Replying
    <2>4. sentToday' = repliesToday' /\ repliesToday < MaxPerDay
      BY <2>1, <2>2 DEF LogReply, Counted, Replying
    <2>5. repliesToday' <= MaxPerDay
      BY <2>1, <2>4, InboxAssumption DEF InboxInv, InboxTypeOK
    <2> QED
      BY <2>3, <2>4, <2>5 DEF OneReply, Counted, Replying
  <1> QED
    BY <1>4, <1>5, <1>6 DEF InboxInv

(* A restart ends the handlers and the exact count.                          *)
LEMMA RestartSafe == ASSUME InboxInv, InboxRestart PROVE InboxInv'
  <1>1. inboxFaults' \in 0..MaxInboxFaults /\ ~Exact'
    BY FaultCounts DEF InboxRestart, InboxInv
  <1>2. InboxTypeOK'
    BY <1>1 DEF InboxRestart, InboxInv, InboxTypeOK, InboxStep, unread, consent
  <1>3. StopRespected'
    BY DEF InboxRestart, InboxInv, StopRespected, OnTheWay, consent
  <1> QED
    BY <1>1, <1>2, <1>3 DEF InboxInv, RepliesCounted

(* Every step keeps the invariant.                                           *)
LEMMA InboxStepSafe == InboxInv /\ [InboxNext]_inboxVars => InboxInv'
  <1> SUFFICES ASSUME InboxInv, [InboxNext]_inboxVars PROVE InboxInv'
    OBVIOUS
  <1>1. ASSUME NEW m \in Message, ReadLead(m) PROVE InboxInv'
    BY <1>1, QuietMove DEF ReadLead, InboxInv, InboxTypeOK, InboxStep, Replying
  <1>2. ASSUME NEW m \in Message, Store(m) PROVE InboxInv'
    BY <1>2, QuietMove DEF Store, InboxInv, InboxTypeOK, InboxStep, Replying, unread
  <1>3. ASSUME NEW m \in Message, OptOut(m) PROVE InboxInv'
    BY <1>3, OptOutSafe
  <1>4. ASSUME NEW m \in Message, Branch(m) PROVE InboxInv'
    BY <1>4, QuietMove DEF Branch, InboxInv, InboxTypeOK, InboxStep, Replying, unread
  <1>5. ASSUME NEW m \in Message, AiCheck(m) PROVE InboxInv'
    BY <1>5, QuietMove DEF AiCheck, InboxInv, InboxTypeOK, InboxStep, Replying, unread
  <1>6. ASSUME NEW m \in Message, CountReplies(m) PROVE InboxInv'
    BY <1>6, CountSafe
  <1>7. ASSUME NEW m \in Message, SendSms(m) PROVE InboxInv'
    BY <1>7, SendSmsSafe
  <1>8. ASSUME NEW m \in Message, Text(m) PROVE InboxInv'
    BY <1>8, TextSafe
  <1>9. ASSUME NEW m \in Message, LogReply(m) PROVE InboxInv'
    BY <1>9, LogSafe
  <1>10. CASE Unthrottle \/ AddLead \/ UNCHANGED inboxVars
    <2>1. InboxTypeOK'
      BY <1>10 DEF Unthrottle, AddLead, inboxVars, consent, limits, InboxInv, InboxTypeOK
    <2>2. StopRespected'
      BY <1>10 DEF Unthrottle, AddLead, inboxVars, consent, limits, InboxInv, StopRespected, OnTheWay
    <2>3. UNCHANGED <<step, sentToday, repliesToday, overlapped, inboxFaults>>
      BY <1>10 DEF Unthrottle, AddLead, inboxVars, consent, limits
    <2>4. RepliesCounted'
      BY <2>3 DEF InboxInv, RepliesCounted, Exact, OneReply, Counted
    <2> QED
      BY <2>1, <2>2, <2>4 DEF InboxInv
  <1>11. CASE Midnight
    BY <1>11, InboxAssumption DEF Midnight, consent, InboxInv, InboxTypeOK, StopRespected,
                 OnTheWay, RepliesCounted, Exact, OneReply, Counted, Replying
  <1>12. CASE InboxRestart
    BY <1>12, RestartSafe
  <1> QED
    BY <1>1, <1>2, <1>3, <1>4, <1>5, <1>6, <1>7, <1>8, <1>9, <1>10, <1>11, <1>12 DEF InboxNext

(* The invariant holds for any number of texts.                              *)
THEOREM InboxInvariant == InboxSpec => []InboxInv
  BY StartsSilent, InboxStepSafe, PTL DEF InboxSpec

(* The variables of the webhook keep to their types.                         *)
THEOREM InboxTyped == InboxSpec => []InboxTypeOK
  <1>1. InboxInv => InboxTypeOK
    BY DEF InboxInv
  <1> QED
    BY <1>1, InboxInvariant, PTL

(* After an opt-out only the texts already with Twilio arrive: sendSms looks *)
(* for the opt-out last.                                                     *)
THEOREM OptOutRespected == InboxSpec => []LateOnlyIfOnTheWay
  <1>1. InboxInv => LateOnlyIfOnTheWay
    BY DEF InboxInv, StopRespected, LateOnlyIfOnTheWay
  <1> QED
    BY <1>1, InboxInvariant, PTL

(* The daily limit of AI replies holds as long as replies do not overlap and *)
(* none is lost before its log.                                              *)
THEOREM DailyLimitKept == InboxSpec => []RepliesWithinLimit
  <1>1. InboxInv => RepliesWithinLimit
    <2> SUFFICES ASSUME InboxInv, Exact PROVE sentToday <= MaxPerDay
      BY DEF RepliesWithinLimit, Exact
    <2>1. Counted
      BY DEF InboxInv, RepliesCounted
    <2>2. CASE \E m \in Message : step[m] = "log"
      BY <2>1, <2>2, InboxAssumption DEF Counted, Replying, InboxInv, InboxTypeOK
    <2>3. CASE \A m \in Message : step[m] # "log"
      BY <2>1, <2>3 DEF Counted
    <2> QED
      BY <2>2, <2>3
  <1> QED
    BY <1>1, InboxInvariant, PTL
=============================================================================

---------------------------- MODULE VoiceAgent ----------------------------
(* One inbound call answered by the AI agent: routes/twilio-voice-agent.ts. *)
(* Twilio's webhook stores a session, the media stream finds it, OpenAI     *)
(* fills it in, and the end of the stream turns it into a call log and a    *)
(* lead. Calls share nothing, so one is enough. A session is an object: the *)
(* stream keeps the one it found even when the map gets another.            *)
EXTENDS Naturals, Sequences

CONSTANTS
    MaxDeliveries,  \* bound: the webhook and its repetitions
    MaxAgentFaults  \* bound: failed queries and restarts

ASSUME AgentAssumption == MaxDeliveries \in Nat \ {0} /\ MaxAgentFaults \in Nat

VARIABLES
    deliveries,    \* webhooks received
    answering,     \* webhooks past the insert: whether each got the log's id
    sessions,      \* every session object made: [logged, saved, processed]
    agentSession,  \* agentSessions.get(callSid): an index, 0 for none
    twilioWs, openaiWs,
    streamSession, \* the stream handler's own `session`, 0 for null
    transcribing,  \* input_audio_transcription was sent to OpenAI
    callEnd,       \* processCallEnd: [step, session, qualified] of the runs under way
    agentLog,      \* disposition of the row in crm_call_logs, "none" without one
    logHasLead, agentLeads, confirmations,
    agentFaults

agentVars == <<deliveries, answering, sessions, agentSession, twilioWs, openaiWs, streamSession,
               transcribing, callEnd, agentLog, logHasLead, agentLeads, confirmations, agentFaults>>
sockets == <<twilioWs, openaiWs, streamSession, transcribing>>
results == <<agentLog, logHasLead, agentLeads, confirmations>>

Steps == {"update", "insert", "link", "text"}

AgentTypeOK ==
    /\ deliveries \in 0..MaxDeliveries /\ answering \subseteq BOOLEAN
    /\ sessions \in Seq([logged : BOOLEAN, saved : BOOLEAN, processed : BOOLEAN])
    /\ agentSession \in 0..Len(sessions) /\ streamSession \in 0..Len(sessions)
    /\ twilioWs \in {"none", "open", "stopped", "closed"}
    /\ openaiWs \in {"none", "connecting", "open", "closed"}
    /\ transcribing \in BOOLEAN
    /\ callEnd \subseteq [step : Steps, session : 1..Len(sessions), qualified : BOOLEAN]
    /\ agentLog \in {"none", "ai_pending", "ai_qualified", "ai_unqualified"}
    /\ logHasLead \in BOOLEAN /\ agentLeads \in Nat /\ confirmations \in Nat
    /\ agentFaults \in 0..MaxAgentFaults

AgentInit ==
    /\ deliveries = 0 /\ answering = {} /\ sessions = << >> /\ agentSession = 0
    /\ twilioWs = "none" /\ openaiWs = "none" /\ streamSession = 0 /\ transcribing = FALSE
    /\ callEnd = {} /\ agentLog = "none" /\ logHasLead = FALSE
    /\ agentLeads = 0 /\ confirmations = 0 /\ agentFaults = MaxAgentFaults

NewSession(logged) == Append(sessions, [logged |-> logged, saved |-> FALSE, processed |-> FALSE])

-----------------------------------------------------------------------------
(* POST /inbound-agent: the log is inserted unless the call has one; only    *)
(* the delivery whose insert took place learns the id.                       *)
Inbound ==
    /\ deliveries < MaxDeliveries /\ twilioWs # "closed"
    /\ deliveries' = deliveries + 1
    /\ \/ /\ answering' = answering \cup {agentLog = "none"}
          /\ agentLog' = IF agentLog = "none" THEN "ai_pending" ELSE agentLog
          /\ UNCHANGED agentFaults
       \/ /\ agentFaults > 0 /\ agentFaults' = agentFaults - 1
          /\ answering' = answering \cup {FALSE} /\ UNCHANGED agentLog
    /\ UNCHANGED <<sessions, agentSession, sockets, callEnd, logHasLead, agentLeads, confirmations>>

(* ... and the session is stored over the one the map may hold. *)
Answer(logged) ==
    /\ answering' = answering \ {logged}
    /\ sessions' = NewSession(logged) /\ agentSession' = Len(sessions) + 1
    /\ UNCHANGED <<deliveries, sockets, callEnd, results, agentFaults>>

(* Twilio opens the stream it was told about; OpenAI is called at once. *)
Connect ==
    /\ twilioWs = "none" /\ sessions # << >>
    /\ twilioWs' = "open" /\ openaiWs' = "connecting"
    /\ UNCHANGED <<deliveries, answering, sessions, agentSession, streamSession, transcribing,
                   callEnd, results, agentFaults>>

(* The start event: without a session in the map a bare one is made. *)
Start ==
    /\ twilioWs = "open" /\ streamSession = 0
    /\ IF agentSession # 0
       THEN streamSession' = agentSession /\ UNCHANGED <<sessions, agentSession>>
       ELSE /\ sessions' = NewSession(FALSE)
            /\ streamSession' = Len(sessions) + 1 /\ agentSession' = streamSession'
    /\ transcribing' = (openaiWs = "open")
    /\ UNCHANGED <<deliveries, answering, twilioWs, openaiWs, callEnd, results, agentFaults>>

OpenAiOpens ==
    /\ openaiWs = "connecting" /\ openaiWs' = "open"
    /\ UNCHANGED <<deliveries, answering, sessions, agentSession, twilioWs, streamSession,
                   transcribing, callEnd, results, agentFaults>>

(* The save_qualification tool call; it may come while the socket closes. *)
SaveQualification ==
    /\ openaiWs \in {"open", "closed"} /\ streamSession # 0
    /\ ~sessions[streamSession].saved
    /\ sessions' = [sessions EXCEPT ![streamSession].saved = TRUE]
    /\ UNCHANGED <<deliveries, answering, agentSession, sockets, callEnd, results, agentFaults>>

-----------------------------------------------------------------------------
(* processCallEnd's first part; the guard against a second run, and the form *)
(* without it.                                                               *)
EveryTime(s) == s # 0
NotProcessed(s) == s # 0 /\ ~sessions[s].processed

BeginEnd(s) ==
    IF NotProcessed(s)
    THEN /\ sessions' = [sessions EXCEPT ![s].processed = TRUE]
         /\ agentSession' = 0
         /\ callEnd' = callEnd \cup {[step |-> "update", session |-> s, qualified |-> sessions[s].saved]}
    ELSE UNCHANGED <<sessions, agentSession, callEnd>>

(* Twilio's stop event. *)
Stop ==
    /\ twilioWs = "open" /\ twilioWs' = "stopped"
    /\ BeginEnd(streamSession)
    /\ openaiWs' = "closed"
    /\ UNCHANGED <<deliveries, answering, streamSession, transcribing, results, agentFaults>>

(* The stream closes: after a stop, on a hang-up, after an OpenAI error, or  *)
(* when OpenAI did not open within 8 s.                                      *)
Close ==
    /\ twilioWs \in {"open", "stopped"} /\ twilioWs' = "closed"
    /\ BeginEnd(streamSession)
    /\ openaiWs' = "closed"
    /\ UNCHANGED <<deliveries, answering, streamSession, transcribing, results, agentFaults>>

(* What follows the update of the log, and the form that leaves an           *)
(* unqualified call before it.                                               *)
UpdatesQualified(e) == e.qualified /\ sessions[e.session].logged
UpdatesLog(e) == sessions[e.session].logged

EndUpdate(e) ==
    /\ e.step = "update"
    /\ agentLog' = IF ~UpdatesLog(e) THEN agentLog
                   ELSE IF e.qualified THEN "ai_qualified" ELSE "ai_unqualified"
    /\ callEnd' = (callEnd \ {e}) \cup (IF e.qualified THEN {[e EXCEPT !.step = "insert"]} ELSE {})
    /\ UNCHANGED <<logHasLead, agentLeads, confirmations>>

EndInsert(e) ==
    /\ e.step = "insert" /\ agentLeads' = agentLeads + 1
    /\ callEnd' = (callEnd \ {e}) \cup {[e EXCEPT !.step = "link"]}
    /\ UNCHANGED <<agentLog, logHasLead, confirmations>>

EndLink(e) ==
    /\ e.step = "link" /\ logHasLead' = (logHasLead \/ sessions[e.session].logged)
    /\ callEnd' = (callEnd \ {e}) \cup {[e EXCEPT !.step = "text"]}
    /\ UNCHANGED <<agentLog, agentLeads, confirmations>>

(* Sent without waiting; a failure is only logged. *)
EndText(e) ==
    /\ e.step = "text" /\ confirmations' \in {confirmations, confirmations + 1}
    /\ callEnd' = callEnd \ {e}
    /\ UNCHANGED <<agentLog, logHasLead, agentLeads>>

EndStep(e) ==
    /\ EndUpdate(e) \/ EndInsert(e) \/ EndLink(e) \/ EndText(e)
    /\ UNCHANGED <<deliveries, answering, sessions, agentSession, sockets, agentFaults>>

(* A query of the end fails: the rest is skipped. *)
EndFails(e) ==
    /\ agentFaults > 0 /\ agentFaults' = agentFaults - 1
    /\ callEnd' = callEnd \ {e}
    /\ UNCHANGED <<deliveries, answering, sessions, agentSession, sockets, results>>

(* The server restarts: the map, the sockets and the work under way are gone.*)
Restart ==
    /\ agentFaults > 0 /\ agentFaults' = agentFaults - 1
    /\ agentSession' = 0 /\ callEnd' = {} /\ answering' = {}
    /\ IF twilioWs = "none" THEN UNCHANGED <<twilioWs, openaiWs>>
       ELSE twilioWs' = "closed" /\ openaiWs' = "none"
    /\ UNCHANGED <<deliveries, sessions, streamSession, transcribing, results>>

AgentNext ==
    \/ Inbound \/ (\E logged \in answering : Answer(logged)) \/ Connect \/ Start \/ OpenAiOpens
    \/ SaveQualification \/ Stop \/ Close \/ Restart
    \/ \E e \in callEnd : EndStep(e) \/ EndFails(e)

AgentSpec == AgentInit /\ [][AgentNext]_agentVars

-----------------------------------------------------------------------------
(* A call makes one lead at most: the stop event and the close of the socket *)
(* both end the call, and a repeated webhook makes another session.          *)
OneLeadPerCall == agentLeads <= 1 /\ confirmations <= agentLeads

(* A call whose stream began and ended without a failure is accounted for:   *)
(* a qualified one has a lead, and when its session knows its log the log    *)
(* says so; and only a repeated webhook keeps a session from knowing.        *)
CallAccounted ==
    twilioWs = "closed" /\ streamSession # 0 /\ callEnd = {} /\ agentFaults = MaxAgentFaults =>
       /\ (agentLeads = 0 \/ sessions[streamSession].saved)
       /\ agentLog = "ai_qualified" => agentLeads = 1
       /\ sessions[streamSession].logged => /\ agentLog \in {"ai_qualified", "ai_unqualified"}
                                            /\ logHasLead <=> agentLeads = 1
       /\ deliveries = 1 => sessions[streamSession].logged

(* routes/twilio-voice-agent.ts:503 "Enable input transcription so we get    *)
(* seller's words in the transcript": a started call with OpenAI listening   *)
(* has it.                                                                   *)
StartedIsTranscribed ==
    twilioWs = "open" /\ streamSession # 0 /\ openaiWs = "open" => transcribing
=============================================================================

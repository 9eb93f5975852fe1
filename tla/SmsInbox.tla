----------------------------- MODULE SmsInbox -----------------------------
(* The texts one phone number sends to a campaign: the webhook of           *)
(* routes/twilio.ts, sendSms of services/smsService.ts and the AI reply.    *)
(* The webhook is acknowledged before it is worked on, so nothing repeats   *)
(* it: what a restart interrupts is lost. One action per awaited step.      *)
EXTENDS Naturals, FiniteSets

CONSTANTS
    Message,        \* texts received
    MaxPerDay,      \* aiSmsMaxRepliesPerDay
    MaxInboxFaults  \* bound: failed queries and sends, restarts

ASSUME InboxAssumption == MaxPerDay \in Nat \ {0} /\ MaxInboxFaults \in Nat

VARIABLES
    says,         \* what each message says
    step,         \* the next step of each message's handler
    hasLead,      \* a lead has this phone number
    leadSeen,     \* the messages whose handler found that lead
    optedOut,     \* the row in crm_sms_opt_outs
    throttled,    \* aiSmsReplyThrottle has an entry younger than 5 minutes
    repliesToday, \* AI replies of today in crm_sms_conversations
    sentToday,    \* history: AI replies sent today
    acknowledged, \* history: STOP messages that were confirmed
    sendingAtStop,\* history: handlers with Twilio when the number opted out
    late,         \* history: handlers that sent to an opted-out number
    overlapped,   \* history: an AI reply was begun while another was unfinished
    inboxFaults

inboxVars == <<says, step, hasLead, leadSeen, optedOut, throttled, repliesToday, sentToday,
               acknowledged, sendingAtStop, late, overlapped, inboxFaults>>

Wording == {"stop", "help", "text"}
Replying == {"generate", "send", "log"}
InboxStep == {"read", "store", "branch", "acknowledge", "sendAck", "help", "sendHelp", "ai", "count", "done"} \cup Replying

InboxTypeOK ==
    /\ says \in [Message -> Wording] /\ step \in [Message -> InboxStep]
    /\ hasLead \in BOOLEAN /\ optedOut \in BOOLEAN /\ throttled \in BOOLEAN /\ overlapped \in BOOLEAN
    /\ leadSeen \subseteq Message /\ acknowledged \subseteq Message
    /\ sendingAtStop \subseteq Message /\ late \subseteq Message
    /\ repliesToday \in Nat /\ sentToday \in Nat /\ inboxFaults \in 0..MaxInboxFaults

InboxInit ==
    /\ says \in [Message -> Wording] /\ step = [m \in Message |-> "read"]
    /\ hasLead \in BOOLEAN /\ leadSeen = {}
    /\ optedOut = FALSE /\ throttled = FALSE /\ repliesToday = 0 /\ sentToday = 0
    /\ acknowledged = {} /\ sendingAtStop = {} /\ late = {} /\ overlapped = FALSE
    /\ inboxFaults = MaxInboxFaults

GoOn(m, to) == step' = [step EXCEPT ![m] = to]
InboxFault == inboxFaults > 0 /\ inboxFaults' = inboxFaults - 1

unread == <<says, hasLead, leadSeen>>
limits == <<throttled, repliesToday, sentToday, overlapped>>
consent == <<optedOut, acknowledged, sendingAtStop, late>>

-----------------------------------------------------------------------------
(* The lead is looked up by phone. Without one the handler inserts a lead    *)
(* with no address, which the schema refuses; it goes on without a lead.     *)
ReadLead(m) ==
    /\ step[m] = "read" /\ GoOn(m, "store")
    /\ leadSeen' = IF hasLead THEN leadSeen \cup {m} ELSE leadSeen
    /\ UNCHANGED <<says, hasLead, limits, consent, inboxFaults>>

(* The message is stored; an error ends the handler. *)
Store(m) ==
    /\ step[m] = "store"
    /\ \/ GoOn(m, "branch") /\ UNCHANGED inboxFaults
       \/ InboxFault /\ GoOn(m, "done")
    /\ UNCHANGED <<unread, limits, consent>>

(* STOP: the opt-out is recorded, or failing that only logged, and either    *)
(* way the confirmation goes on to sendSms.                                  *)
OptOut(m) ==
    /\ step[m] = "branch" /\ says[m] = "stop" /\ GoOn(m, "acknowledge")
    /\ \/ /\ optedOut' = TRUE
          /\ sendingAtStop' = IF optedOut THEN sendingAtStop
                              ELSE {n \in Message : step[n] \in {"send", "sendHelp", "sendAck"}}
          /\ UNCHANGED inboxFaults
       \/ InboxFault /\ UNCHANGED <<optedOut, sendingAtStop>>
    /\ UNCHANGED <<unread, limits, acknowledged, late>>

(* HELP, or a text: users are notified (an error ends the handler), and the  *)
(* AI reply begins. Without a lead nothing happens.                          *)
Branch(m) ==
    /\ step[m] = "branch" /\ says[m] # "stop"
    /\ \/ says[m] = "help" /\ GoOn(m, "help") /\ UNCHANGED inboxFaults
       \/ /\ says[m] = "text"
          /\ GoOn(m, IF m \in leadSeen THEN "ai" ELSE "done") /\ UNCHANGED inboxFaults
       \/ says[m] = "text" /\ m \in leadSeen /\ InboxFault /\ GoOn(m, "done")
    /\ UNCHANGED <<unread, limits, consent>>

(* The daily limit, and the form that lets one reply too many pass. *)
AtMostLimit(n) == n <= MaxPerDay
BelowLimit(n) == n < MaxPerDay

(* The AI reply: opted out or throttled, it ends here ...                    *)
AiCheck(m) ==
    /\ step[m] = "ai" /\ GoOn(m, IF ~optedOut /\ ~throttled THEN "count" ELSE "done")
    /\ UNCHANGED <<unread, consent, limits, inboxFaults>>

(* ... and at the day's limit here; then the AI is asked. *)
CountReplies(m) ==
    /\ step[m] = "count"
    /\ IF BelowLimit(repliesToday)
       THEN /\ GoOn(m, "generate")
            /\ overlapped' = (overlapped \/ \E n \in Message : step[n] \in Replying)
       ELSE GoOn(m, "done") /\ UNCHANGED overlapped
    /\ UNCHANGED <<unread, consent, throttled, repliesToday, sentToday, inboxFaults>>

(* sendSms looks for the opt-out once more before it calls Twilio; the AI    *)
(* takes up to 15 s until then. The form without that look.                  *)
Unasked == TRUE
MayText == ~optedOut

SendSms(m) ==
    /\ \E s \in {<<"acknowledge", "sendAck">>, <<"help", "sendHelp">>, <<"generate", "send">>} :
          step[m] = s[1] /\ GoOn(m, IF MayText THEN s[2] ELSE "done")
    /\ UNCHANGED <<unread, limits, consent, inboxFaults>>

(* Twilio takes the text, or it fails. *)
Text(m) ==
    /\ step[m] \in {"sendAck", "sendHelp", "send"}
    /\ \/ /\ late' = IF optedOut THEN late \cup {m} ELSE late
          /\ acknowledged' = IF step[m] = "sendAck" THEN acknowledged \cup {m} ELSE acknowledged
          /\ IF step[m] = "send"
             THEN GoOn(m, "log") /\ throttled' = TRUE /\ sentToday' = sentToday + 1
             ELSE GoOn(m, "done") /\ UNCHANGED <<throttled, sentToday>>
          /\ UNCHANGED inboxFaults
       \/ InboxFault /\ GoOn(m, "done") /\ UNCHANGED <<late, acknowledged, throttled, sentToday>>
    /\ UNCHANGED <<unread, repliesToday, overlapped, optedOut, sendingAtStop>>

LogReply(m) ==
    /\ step[m] = "log" /\ GoOn(m, "done")
    /\ \/ repliesToday' = repliesToday + 1 /\ UNCHANGED inboxFaults
       \/ InboxFault /\ UNCHANGED repliesToday
    /\ UNCHANGED <<unread, consent, throttled, sentToday, overlapped>>

(* Five minutes pass; midnight passes while no reply is being made. *)
Unthrottle ==
    /\ throttled /\ throttled' = FALSE
    /\ UNCHANGED <<says, step, hasLead, leadSeen, repliesToday, sentToday, overlapped, consent, inboxFaults>>

Midnight ==
    /\ sentToday > 0 /\ \A m \in Message : step[m] \notin Replying
    /\ repliesToday' = 0 /\ sentToday' = 0
    /\ UNCHANGED <<says, step, hasLead, leadSeen, throttled, overlapped, consent, inboxFaults>>

(* A user adds the lead. *)
AddLead ==
    /\ ~hasLead /\ hasLead' = TRUE
    /\ UNCHANGED <<says, step, leadSeen, limits, consent, inboxFaults>>

InboxRestart ==
    /\ InboxFault /\ throttled' = FALSE
    /\ step' = [m \in Message |-> IF step[m] = "read" THEN "read" ELSE "done"]
    /\ UNCHANGED <<unread, consent, repliesToday, sentToday, overlapped>>

InboxNext ==
    \/ \E m \in Message : \/ ReadLead(m) \/ Store(m) \/ OptOut(m) \/ Branch(m) \/ AiCheck(m) \/ CountReplies(m)
                          \/ SendSms(m) \/ Text(m) \/ LogReply(m)
    \/ Unthrottle \/ Midnight \/ AddLead \/ InboxRestart

InboxSpec == InboxInit /\ [][InboxNext]_inboxVars

-----------------------------------------------------------------------------
(* A number that opted out gets no more automatic texts, but for those that  *)
(* were already on their way to Twilio: the opt-out is looked for after the  *)
(* slow AI call, whatever was read before it.                                *)
LateOnlyIfOnTheWay == late \subseteq sendingAtStop

(* A lead gets at most the day's number of AI replies, while replies do not  *)
(* overlap and none is lost between the send and its log: the limit is read  *)
(* from the log of what was sent, which is written last.                     *)
RepliesWithinLimit ==
    ~overlapped /\ inboxFaults = MaxInboxFaults => sentToday <= MaxPerDay

(* CampaignList.tsx:614 "Max AI Replies per Lead per Day": no more than that *)
(* are sent.                                                                 *)
NeverOverLimit == sentToday <= MaxPerDay

(* routes/twilio.ts:852 "automatically create a new lead.  This ensures the  *)
(* conversation is tracked, notifications fire, and AI can reply": no text   *)
(* is left without a lead.                                                   *)
FirstTextHasLead == \A m \in Message : step[m] = "branch" => m \in leadSeen
=============================================================================

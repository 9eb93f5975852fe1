---------------------------- MODULE MCServices ----------------------------
(* The smaller services on small instances, for TLC. They share no state, so *)
(* one run explores them side by side: the first state chooses the service   *)
(* that runs, and the others stay as they started.                           *)
EXTENDS Contracts, VoiceAgent, SmsInbox, CallLog, CircuitBreaker, Lookups,
        Reminders, BrowserSession, TLC

VARIABLE service    \* the service that runs

\* The instances give the sets of several services the same model values.
Symmetry ==
    Permutations(SignSlot \cup Request \cup Task) \cup Permutations(CronRun)

serviceVars == <<service, contractVars, agentVars, inboxVars, callLogVars,
                 breakerVars, lookupVars, reminderVars, sessionVars>>

ServicesInit ==
    /\ service \in {"contracts", "agent", "inbox", "calls", "breaker", "lookups",
                    "reminders", "session"}
    /\ ContractsInit /\ AgentInit /\ InboxInit /\ CallLogInit
    /\ BreakerInit /\ LookupsInit /\ RemindersInit /\ SessionInit
    /\ service # "calls" => body = "name"
    /\ service # "inbox" => hasLead /\ \A m \in Message : says[m] = "text"

Rest(v1, v2, v3, v4, v5, v6, v7) == UNCHANGED <<service, v1, v2, v3, v4, v5, v6, v7>>

ContractsRun ==
    /\ service = "contracts" /\ ContractsNext
    /\ Rest(agentVars, inboxVars, callLogVars, breakerVars, lookupVars, reminderVars, sessionVars)

AgentRuns ==
    /\ service = "agent" /\ AgentNext
    /\ Rest(contractVars, inboxVars, callLogVars, breakerVars, lookupVars, reminderVars, sessionVars)

InboxRuns ==
    /\ service = "inbox" /\ InboxNext
    /\ Rest(contractVars, agentVars, callLogVars, breakerVars, lookupVars, reminderVars, sessionVars)

CallsRun ==
    /\ service = "calls" /\ CallLogNext
    /\ Rest(contractVars, agentVars, inboxVars, breakerVars, lookupVars, reminderVars, sessionVars)

BreakerRuns ==
    /\ service = "breaker" /\ BreakerNext
    /\ Rest(contractVars, agentVars, inboxVars, callLogVars, lookupVars, reminderVars, sessionVars)

LookupsRun ==
    /\ service = "lookups" /\ LookupsNext
    /\ Rest(contractVars, agentVars, inboxVars, callLogVars, breakerVars, reminderVars, sessionVars)

RemindersRun ==
    /\ service = "reminders" /\ RemindersNext
    /\ Rest(contractVars, agentVars, inboxVars, callLogVars, breakerVars, lookupVars, sessionVars)

SessionRuns ==
    /\ service = "session" /\ SessionNext
    /\ Rest(contractVars, agentVars, inboxVars, callLogVars, breakerVars, lookupVars, reminderVars)

ServicesNext ==
    \/ ContractsRun \/ AgentRuns \/ InboxRuns \/ CallsRun
    \/ BreakerRuns \/ LookupsRun \/ RemindersRun \/ SessionRuns

ServicesSpec == ServicesInit /\ [][ServicesNext]_serviceVars

(* The variables of the service that runs keep to their types. *)
ServicesTypeOK ==
    /\ service = "contracts" => ContractsTypeOK
    /\ service = "agent" => AgentTypeOK
    /\ service = "inbox" => InboxTypeOK
    /\ service = "calls" => CallLogTypeOK
    /\ service = "breaker" => BreakerTypeOK
    /\ service = "lookups" => LookupsTypeOK
    /\ service = "reminders" => RemindersTypeOK
    /\ service = "session" => SessionTypeOK
=============================================================================

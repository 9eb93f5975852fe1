----------------------------- MODULE Reminders -----------------------------
(* The tasks of one lead and the hourly task cron: runTaskAutomationCron of  *)
(* services/automation.ts, routes/crm/tasks.ts and the lead's closing. A     *)
(* cron run belongs to a server's hour; runs of two servers, or of one       *)
(* server whose run takes more than the hour, overlap without a lock.        *)
EXTENDS Naturals, FiniteSets

CONSTANTS
    Task,           \* tasks that can come to exist
    CronRun,        \* the cron runs that can be under way at once
    MaxCronFaults   \* failed queries and restarts in the middle of a run

ASSUME CronFaultsAssumption == MaxCronFaults \in Nat

VARIABLES
    taskStatus,     \* "none" before the insert, "deleted" after the DELETE
    taskDue,        \* "far": more than a day, "soon", "past"
    turned,         \* per run: tasks overdue now, but not when it took its time
    escalated,      \* the tasks marked escalated
    announced,      \* "overdue" notices sent for each task
    cronRuns,       \* what each run is doing
    cronFaults,
    doubtful        \* tasks two runs held at once, or a broken run left half done

reminderVars == <<taskStatus, taskDue, turned, escalated, announced, cronRuns, cronFaults, doubtful>>
taskVars == <<taskStatus, taskDue, turned>>

\* at: reading the tasks due soon, reminding, or working through the overdue
\* ones of its own select; announcedTask is the one between its two writes.
CronState == [at : {"idle", "reminding", "overdue"}, work : SUBSET Task,
              announcedTask : SUBSET Task]
CronIdle == [at |-> "idle", work |-> {}, announcedTask |-> {}]

RemindersTypeOK ==
    /\ taskStatus \in [Task -> {"none", "pending", "completed", "deleted"}]
    /\ taskDue \in [Task -> {"far", "soon", "past"}]
    /\ turned \in [CronRun -> SUBSET Task]
    /\ escalated \subseteq Task /\ doubtful \subseteq Task
    /\ announced \in [Task -> Nat]
    /\ cronRuns \in [CronRun -> CronState]
    /\ cronFaults \in 0..MaxCronFaults

RemindersInit ==
    /\ taskStatus = [t \in Task |-> "none"] /\ taskDue = [t \in Task |-> "far"]
    /\ turned = [c \in CronRun |-> {}]
    /\ escalated = {} /\ doubtful = {}
    /\ announced = [t \in Task |-> 0]
    /\ cronRuns = [c \in CronRun |-> CronIdle] /\ cronFaults = 0

-----------------------------------------------------------------------------
(* The runs that took their time, and have yet to select, for which t became *)
(* overdue afterwards.                                                       *)
TurnsSince(t, since) ==
    turned' = [c \in CronRun |-> IF c \in since THEN turned[c] \cup {t} ELSE turned[c] \ {t}]

Reminding == {c \in CronRun : cronRuns[c].at = "reminding"}

(* POST /tasks, or onLeadCreated: the task of a new lead. Here and below, a  *)
(* date that has passed lies before or after the time a run took.            *)
CreateTask(t) ==
    /\ taskStatus[t] = "none" /\ taskStatus' = [taskStatus EXCEPT ![t] = "pending"]
    /\ \E when \in {"far", "soon", "past"} : taskDue' = [taskDue EXCEPT ![t] = when]
    /\ \E since \in SUBSET Reminding : TurnsSince(t, since)
    /\ UNCHANGED <<escalated, announced, cronRuns, cronFaults, doubtful>>

(* PATCH and DELETE /tasks/:id. A new due date or a reopened task stays      *)
(* escalated.                                                                *)
EditTask(t) ==
    /\ taskStatus[t] \in {"pending", "completed"}
    /\ \/ \E status \in {"pending", "completed"}, when \in {"far", "soon", "past"} :
             /\ taskStatus' = [taskStatus EXCEPT ![t] = status]
             /\ taskDue' = [taskDue EXCEPT ![t] = when]
             /\ \E since \in SUBSET Reminding : TurnsSince(t, since)
       \/ taskStatus' = [taskStatus EXCEPT ![t] = "deleted"] /\ UNCHANGED <<taskDue, turned>>
    /\ UNCHANGED <<escalated, announced, cronRuns, cronFaults, doubtful>>

(* onLeadStatusChanged closes the pending tasks of a lead that is closed; a  *)
(* bulk close passes the new status as the old one and closes none.          *)
CloseLead ==
    /\ taskStatus' = [t \in Task |-> IF taskStatus[t] = "pending" THEN "completed" ELSE taskStatus[t]]
    /\ UNCHANGED <<taskDue, turned, escalated, announced, cronRuns, cronFaults, doubtful>>

TaskAges(t) ==
    /\ taskDue[t] # "past"
    /\ taskDue' = [taskDue EXCEPT ![t] = IF @ = "far" THEN "soon" ELSE "past"]
    /\ TurnsSince(t, IF taskDue[t] = "soon" THEN Reminding ELSE {})
    /\ UNCHANGED <<taskStatus, escalated, announced, cronRuns, cronFaults, doubtful>>

(* A run takes the time and starts with the reminders of the tasks due soon, *)
(* which leave no trace on the task.                                         *)
CronStarts(c) ==
    /\ cronRuns[c].at = "idle"
    /\ cronRuns' = [cronRuns EXCEPT ![c].at = "reminding"]
    /\ UNCHANGED <<taskVars, escalated, announced, cronFaults, doubtful>>

(* The select of the overdue tasks; before it, one that reads them again and *)
(* again.                                                                    *)
AnyOverdue(t) == taskStatus[t] = "pending" /\ taskDue[t] = "past"
Overdue(t) == taskStatus[t] = "pending" /\ t \notin escalated /\ taskDue[t] = "past"

SelectOverdue(c) ==
    /\ cronRuns[c].at = "reminding"
    /\ LET work == {t \in Task \ turned[c] : Overdue(t)}
           held == UNION {cronRuns[d].work : d \in CronRun \ {c}} IN
       /\ cronRuns' = [cronRuns EXCEPT ![c] = [CronIdle EXCEPT !.at = "overdue", !.work = work]]
       /\ doubtful' = doubtful \cup (work \cap held)
    /\ turned' = [turned EXCEPT ![c] = {}]
    /\ UNCHANGED <<taskStatus, taskDue, escalated, announced, cronFaults>>

(* For one task after the other: the notices, then the mark by id. *)
Announce(c) ==
    /\ cronRuns[c].at = "overdue" /\ cronRuns[c].announcedTask = {}
    /\ \E t \in cronRuns[c].work :
          /\ announced' = [announced EXCEPT ![t] = @ + 1]
          /\ cronRuns' = [cronRuns EXCEPT ![c].announcedTask = {t}]
    /\ UNCHANGED <<taskVars, escalated, cronFaults, doubtful>>

Escalate(c) ==
    /\ \E t \in cronRuns[c].announcedTask :
          /\ escalated' = IF taskStatus[t] = "deleted" THEN escalated ELSE escalated \cup {t}
          /\ cronRuns' = [cronRuns EXCEPT ![c].announcedTask = {}, ![c].work = @ \ {t}]
    /\ UNCHANGED <<taskVars, announced, cronFaults, doubtful>>

CronEnds(c) ==
    /\ cronRuns[c].at = "overdue" /\ cronRuns[c].work = {}
    /\ cronRuns' = [cronRuns EXCEPT ![c] = CronIdle]
    /\ UNCHANGED <<taskVars, escalated, announced, cronFaults, doubtful>>

(* A query fails or the server stops: the rest of the run is given up, the   *)
(* reminders' failure takes the overdue tasks with it.                       *)
CronBreaks(c) ==
    /\ cronRuns[c].at # "idle" /\ cronFaults < MaxCronFaults
    /\ cronFaults' = cronFaults + 1
    /\ cronRuns' = [cronRuns EXCEPT ![c] = CronIdle]
    /\ doubtful' = doubtful \cup cronRuns[c].announcedTask
    /\ turned' = [turned EXCEPT ![c] = {}]
    /\ UNCHANGED <<taskStatus, taskDue, escalated, announced>>

RemindersNext ==
    \/ CloseLead
    \/ \E t \in Task : CreateTask(t) \/ EditTask(t) \/ TaskAges(t)
    \/ \E c \in CronRun : CronStarts(c) \/ SelectOverdue(c) \/ Announce(c) \/ Escalate(c)
                          \/ CronEnds(c) \/ CronBreaks(c)

RemindersSpec == RemindersInit /\ [][RemindersNext]_reminderVars

-----------------------------------------------------------------------------
(* An overdue task is announced once, whatever is edited, reopened or closed *)
(* meanwhile: a second announcement takes two overlapping runs or a run that *)
(* broke between the notice and the mark.                                    *)
AnnouncedOnce == \A t \in Task : announced[t] > 1 => t \in doubtful
=============================================================================

--------------------------------- MODULE Tasks ---------------------------------
(***************************************************************************)
(* Tasks and their reminders: a timer of every gateway instance lists the  *)
(* due ones, and marks and broadcasts them one after another.              *)
(***************************************************************************)
EXTENDS Naturals

CONSTANTS
    DeskTasks,
    ReminderHosts,      \* gateway instances
    MaxTaskEdits,       \* bound: changes of a task's status
    MaxReminderFaults   \* bound: failed marks and crashes

ASSUME TasksAssumption == {MaxTaskEdits, MaxReminderFaults} \subseteq Nat

TaskStatuses == {"open", "done", "cancelled"}

VARIABLES
    taskStatus,      \* tasks.status, "none" before the task is created
    remindDue,       \* tasks whose remind_at has passed
    remindedAt,      \* tasks with a reminded_at
    dueList,         \* per instance: the rows its tick listed and has not come to
    toBroadcast,     \* per instance: the row it has marked and not broadcast
    reminders,       \* per task: reminders broadcast
    taskEdits, reminderFaults,
    listedAgain      \* history: tasks an instance listed while another held them

tasksVars == <<taskStatus, remindDue, remindedAt, dueList, toBroadcast, reminders, taskEdits,
               reminderFaults, listedAgain>>

TasksInit ==
    /\ taskStatus = [t \in DeskTasks |-> "none"]
    /\ remindDue = {}
    /\ remindedAt = {}
    /\ dueList = [i \in ReminderHosts |-> {}]
    /\ toBroadcast = [i \in ReminderHosts |-> {}]
    /\ reminders = [t \in DeskTasks |-> 0]
    /\ taskEdits = 0
    /\ reminderFaults = 0
    /\ listedAgain = {}

(***************************************************************************)
(* The routes, and automations, create tasks; a PATCH writes any status    *)
(* over any other, and a task opened again keeps its reminded_at.          *)
(***************************************************************************)
CreateTask(t) ==
    /\ taskStatus[t] = "none"
    /\ taskStatus' = [taskStatus EXCEPT ![t] = "open"]
    /\ UNCHANGED <<remindDue, remindedAt, dueList, toBroadcast, reminders, taskEdits,
                   reminderFaults, listedAgain>>

UpdateTaskStatus(t, status) ==
    /\ taskStatus[t] \notin {"none", status}
    /\ taskEdits < MaxTaskEdits
    /\ taskEdits' = taskEdits + 1
    /\ taskStatus' = [taskStatus EXCEPT ![t] = status]
    /\ UNCHANGED <<remindDue, remindedAt, dueList, toBroadcast, reminders, reminderFaults,
                   listedAgain>>

ReminderComesDue(t) ==
    /\ taskStatus[t] # "none" /\ t \notin remindDue
    /\ remindDue' = remindDue \cup {t}
    /\ UNCHANGED <<taskStatus, remindedAt, dueList, toBroadcast, reminders, taskEdits,
                   reminderFaults, listedAgain>>

-----------------------------------------------------------------------------
(***************************************************************************)
(* The reminder timer. An instance starts no tick before its last ended.   *)
(* A failed mark ends the tick: its rows are listed again by the next, and *)
(* what was marked and not broadcast yet never is.                         *)
(***************************************************************************)
AwaitsAnyReminder(t) ==   \* mutant: reminded_at is not looked at
    t \in remindDue /\ taskStatus[t] = "open"

AwaitsReminder(t) == t \in remindDue \ remindedAt /\ taskStatus[t] = "open"

Listed(i) == dueList[i] \cup toBroadcast[i]

ListDueReminders(i) ==
    LET due == {t \in DeskTasks : AwaitsReminder(t)} IN
    /\ Listed(i) = {} /\ due # {}
    /\ dueList' = [dueList EXCEPT ![i] = due]
    /\ listedAgain' = listedAgain \cup (due \cap UNION {Listed(j) : j \in ReminderHosts})
    /\ UNCHANGED <<taskStatus, remindDue, remindedAt, toBroadcast, reminders, taskEdits,
                   reminderFaults>>

MarkReminded(i, t) ==
    /\ t \in dueList[i] /\ toBroadcast[i] = {}
    /\ remindedAt' = remindedAt \cup {t}
    /\ dueList' = [dueList EXCEPT ![i] = @ \ {t}]
    /\ toBroadcast' = [toBroadcast EXCEPT ![i] = {t}]
    /\ UNCHANGED <<taskStatus, remindDue, reminders, taskEdits, reminderFaults, listedAgain>>

BroadcastReminder(i) ==
    /\ toBroadcast[i] # {}
    /\ reminders' = [t \in DeskTasks |->
                       IF t \in toBroadcast[i] THEN reminders[t] + 1 ELSE reminders[t]]
    /\ toBroadcast' = [toBroadcast EXCEPT ![i] = {}]
    /\ UNCHANGED <<taskStatus, remindDue, remindedAt, dueList, taskEdits, reminderFaults,
                   listedAgain>>

ReminderTickFails(i) ==
    /\ Listed(i) # {}
    /\ reminderFaults < MaxReminderFaults
    /\ reminderFaults' = reminderFaults + 1
    /\ dueList' = [dueList EXCEPT ![i] = {}]
    /\ toBroadcast' = [toBroadcast EXCEPT ![i] = {}]
    /\ UNCHANGED <<taskStatus, remindDue, remindedAt, reminders, taskEdits, listedAgain>>

TasksNext ==
    \/ \E t \in DeskTasks :
          \/ CreateTask(t) \/ ReminderComesDue(t)
          \/ \E status \in TaskStatuses : UpdateTaskStatus(t, status)
    \/ \E i \in ReminderHosts :
          \/ ListDueReminders(i) \/ BroadcastReminder(i) \/ ReminderTickFails(i)
          \/ \E t \in DeskTasks : MarkReminded(i, t)

TasksSpec == TasksInit /\ [][TasksNext]_tasksVars

-----------------------------------------------------------------------------
\* "Dispatches due task reminders once": a second reminder of a task, also of
\* one closed and opened again, comes only of two instances that had it listed
\* at once, and nothing is broadcast that is not marked.
RemindedOnce ==
    \A t \in DeskTasks :
        /\ reminders[t] > 1 => t \in listedAgain
        /\ reminders[t] > 0 => t \in remindedAt

================================================================================

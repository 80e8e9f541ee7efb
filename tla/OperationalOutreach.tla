------------------------ MODULE OperationalOutreach ------------------------
(***************************************************************************)
(* Manual delivery results: POST /v1/tasks/{id}/delivery-result            *)
(* (api/tasks.py, domain/operational_outreach.py).  A request loads the    *)
(* task in one statement and writes the result in a later one, so that     *)
(* everything else may happen between the two.                             *)
(***************************************************************************)
EXTENDS OutreachTasks

CONSTANT Request       \* the requests that arrive; each is handled once

VARIABLES
  answer,             \* "new", "loaded" (in progress), "recorded", "conflict"
  request_task,       \* the task the request loaded
  previous_status     \* task.status as it was loaded

requestVars == <<answer, request_task, previous_status>>

Answer == {"new", "loaded", "recorded", "conflict"}

AnySourceButSent == {"scheduled", "dispatching", "failed", "cancelled"}   \* flawed

\* ALLOWED_MANUAL_DELIVERY_SOURCE_STATUSES
AllowedSource == {"scheduled", "dispatching", "failed"}

RequestTypeOK ==
  /\ answer \in [Request -> Answer]
  /\ request_task \in [Request -> Task]
  /\ previous_status \in [Request -> Status]

\* The two locals hold anything until the request loads its task.
RequestInit ==
  /\ answer = [r \in Request |-> "new"]
  /\ request_task = [r \in Request |-> CHOOSE t \in Task : TRUE]
  /\ previous_status = [r \in Request |-> "scheduled"]

-----------------------------------------------------------------------------
LoadTask(r, t) ==
  /\ answer[r] = "new"
  /\ status[t] \in AllowedSource
  /\ answer' = [answer EXCEPT ![r] = "loaded"]
  /\ request_task' = [request_task EXCEPT ![r] = t]
  /\ previous_status' = [previous_status EXCEPT ![r] = status[t]]
  /\ UNCHANGED tableVars

\* 409: cancelled, or sent already.
RejectTask(r, t) ==
  /\ answer[r] = "new"
  /\ status[t] \notin AllowedSource
  /\ answer' = [answer EXCEPT ![r] = "conflict"]
  /\ request_task' = [request_task EXCEPT ![r] = t]
  /\ UNCHANGED <<tableVars, previous_status>>

\* The update is conditional on the status the request loaded.
Unchanged(r) == Matches(request_task[r], previous_status[r])
Changed(r) == Misses(request_task[r], previous_status[r])

\* The body of the request says whether the contact was made.
RecordManualResult(r, new_status) ==
  /\ answer[r] = "loaded"
  /\ Unchanged(r)
  /\ RecordResult(request_task[r], new_status,
                  IF new_status = "sent" THEN "null" ELSE "error",
                  "delivery_result_recorded")
  /\ answer' = [answer EXCEPT ![r] = "recorded"]
  /\ UNCHANGED <<attempt_count, scheduled_at, lock, request_task, previous_status>>

\* TaskStateConflictError, answered 409.
ConflictResult(r) ==
  /\ answer[r] = "loaded"
  /\ Changed(r)
  /\ answer' = [answer EXCEPT ![r] = "conflict"]
  /\ UNCHANGED <<tableVars, request_task, previous_status>>

FinishRequest(r) == \/ \E s \in {"sent", "failed"} : RecordManualResult(r, s)
                    \/ ConflictResult(r)

RequestNext == \E r \in Request :
                 \/ \E t \in Task : LoadTask(r, t) \/ RejectTask(r, t)
                 \/ FinishRequest(r)
=============================================================================

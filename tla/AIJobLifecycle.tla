--------------------------- MODULE AIJobLifecycle ---------------------------
(***************************************************************************)
(* What the AI job domain promises about one job, whatever stores it and   *)
(* however many processes work on it: the status only moves along          *)
(* ALLOWED_TRANSITIONS, an attempt starts exactly when a job enters        *)
(* `running', and there are never more attempts than max_attempts.         *)
(* AIJobRuntime implements this specification.                             *)
(***************************************************************************)
EXTENDS Integers

CONSTANTS
    Jobs,           \* the jobs that may ever be submitted
    MaxAttempts     \* AIJob.max_attempts

VARIABLES
    status,         \* status[j]: AIJob.status, or "absent" before submission
    attempt_no      \* attempt_no[j]: AIJob.current_attempt_no

vars == <<status, attempt_no>>

AIJobStatus == {"queued", "running", "retry_scheduled", "cancel_requested",
                "succeeded", "failed", "cancelled"}

\* The statuses a job waits in for a worker to claim it.
Claimable == {"queued", "retry_scheduled"}

\* The statuses in which a worker holds the job's lease.
LeaseHolding == {"running", "cancel_requested"}

Terminal == {"succeeded", "failed", "cancelled"}

ALLOWED_TRANSITIONS ==
    {<<"queued", "running">>, <<"queued", "cancelled">>, <<"queued", "failed">>,
     <<"running", "succeeded">>, <<"running", "retry_scheduled">>,
     <<"running", "failed">>, <<"running", "cancel_requested">>,
     <<"cancel_requested", "cancelled">>,
     <<"retry_scheduled", "running">>, <<"retry_scheduled", "cancelled">>,
     <<"retry_scheduled", "failed">>}

Init == /\ status = [j \in Jobs |-> "absent"]
        /\ attempt_no = [j \in Jobs |-> 0]

\* A job is accepted: it starts queued, with no attempt.
Submit(j) == /\ status[j] = "absent"
             /\ status' = [status EXCEPT ![j] = "queued"]
             /\ UNCHANGED attempt_no

\* An execution starts: the only way into `running', and it costs an attempt.
StartAttempt(j) == /\ <<status[j], "running">> \in ALLOWED_TRANSITIONS
                   /\ attempt_no[j] < MaxAttempts
                   /\ status' = [status EXCEPT ![j] = "running"]
                   /\ attempt_no' = [attempt_no EXCEPT ![j] = @ + 1]

\* Every other status change.
Move(j, s) == /\ s # "running"
              /\ <<status[j], s>> \in ALLOWED_TRANSITIONS
              /\ status' = [status EXCEPT ![j] = s]
              /\ UNCHANGED attempt_no

Next == \E j \in Jobs : \/ Submit(j)
                        \/ StartAttempt(j)
                        \/ \E s \in AIJobStatus : Move(j, s)

Spec == Init /\ [][Next]_vars

=============================================================================

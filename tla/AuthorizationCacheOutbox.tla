---------------------- MODULE AuthorizationCacheOutbox ----------------------
(***************************************************************************)
(* The outbox of authorization cache invalidations.  A change of a member  *)
(* commits a task with itself; the entry of the superseded authz_version   *)
(* is then removed from Redis by the request that made the change, or by a *)
(* dispatcher, which claims tasks in one transaction, calls Redis outside  *)
(* any, and reports each task in a transaction of its own.                 *)
(*                                                                         *)
(* A claim lapses after five minutes: time is left out, and a claim may be *)
(* found lapsed at any moment.  A claim token is the number of the claim.  *)
(***************************************************************************)
EXTENDS Naturals

CONSTANTS Change,      \* requests that change a member, one task each
          Dispatcher,  \* processes that run the dispatcher
          MaxClaims    \* bound: claims of one task

VARIABLES
    task,         \* the table authorization_cache_invalidation_outbox
    dispatch,     \* the claims each dispatcher holds, with what Redis answered
    invalidated   \* history: tasks whose entry was removed after their commit

outboxVars == <<task, dispatch, invalidated>>

OutboxTypeOK ==
    /\ task \in [Change -> [status : {"absent", "pending", "processing", "completed"},
                            token : Nat]]
    /\ dispatch \in [Dispatcher -> SUBSET [task : Change, token : Nat,
                                           answer : {"none", "removed", "failed"}]]
    /\ invalidated \subseteq Change

OutboxInit ==
    /\ task = [k \in Change |-> [status |-> "absent", token |-> 0]]
    /\ dispatch = [d \in Dispatcher |-> {}]
    /\ invalidated = {}

\* add(), in the transaction of the change.
AddTask(k) == task' = [task EXCEPT ![k].status = "pending"]

\* mark_immediate_completed: a task somebody has claimed stays with its claim.
CompleteImmediately(k) ==
    task' = IF task[k].status = "pending" THEN [task EXCEPT ![k].status = "completed"]
                                          ELSE task

Claimable ==
    {k \in Change : task[k].status \in {"pending", "processing"} /\ task[k].token < MaxClaims}

\* claim_batch: pending and available, or processing under a lapsed claim; rows
\* another claim has locked are skipped, so it may be any of them.
ClaimTasks(d) ==
    /\ dispatch[d] = {}
    /\ \E claimed \in SUBSET Claimable \ {{}} :
          /\ task' = [k \in Change |->
                        IF k \in claimed THEN [status |-> "processing",
                                               token |-> task[k].token + 1]
                                         ELSE task[k]]
          /\ dispatch' = [dispatch EXCEPT ![d] =
                            {[task |-> k, token |-> task[k].token + 1, answer |-> "none"] :
                                k \in claimed}]
    /\ UNCHANGED invalidated

Answered(d, claim, answer) ==
    dispatch' = [dispatch EXCEPT ![d] = (@ \ {claim}) \cup {[claim EXCEPT !.answer = answer]}]

\* The tasks of a batch are handled one after the other.
InvalidateTask(d) ==
    /\ \A claim \in dispatch[d] : claim.answer = "none"
    /\ \E claim \in dispatch[d] :
          \/ Answered(d, claim, "removed") /\ invalidated' = invalidated \cup {claim.task}
          \/ Answered(d, claim, "failed") /\ UNCHANGED invalidated
    /\ UNCHANGED task

\* Fault: the report finds its row by the identifier alone.
HoldsById(claim) == task[claim.task].status # "absent"

\* The WHERE of mark_completed and release_failed.
Holds(claim) ==
    /\ task[claim.task].status = "processing"
    /\ task[claim.task].token = claim.token

ReportTask(d) ==
    \E claim \in dispatch[d] :
        /\ claim.answer # "none"
        /\ dispatch' = [dispatch EXCEPT ![d] = @ \ {claim}]
        /\ task' = IF Holds(claim)
                   THEN [task EXCEPT ![claim.task].status =
                            IF claim.answer = "removed" THEN "completed" ELSE "pending"]
                   ELSE task
        /\ UNCHANGED invalidated

\* The process ends, or a transaction of the batch fails: what it still held
\* waits for its claims to lapse.
StopDispatcher(d) ==
    /\ dispatch[d] # {}
    /\ dispatch' = [dispatch EXCEPT ![d] = {}]
    /\ UNCHANGED <<task, invalidated>>

OutboxNext ==
    \E d \in Dispatcher : ClaimTasks(d) \/ InvalidateTask(d) \/ ReportTask(d) \/ StopDispatcher(d)

\* A task is completed once the entry it names was removed, and then for good:
\* a dispatcher whose claim lapsed, and who reports late that Redis failed,
\* does not put a finished task back, nor does the request's own shortcut
\* complete one that nobody has carried out.
SettledIsInvalidated ==
    [][\A k \in Change :
          /\ task'[k].status = "completed" => k \in invalidated'
          /\ task[k].status = "completed" => task'[k].status = "completed"]_outboxVars
=============================================================================

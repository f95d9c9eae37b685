---------------------------- MODULE AIJobRuntime ----------------------------
(***************************************************************************)
(* The durable AI job runtime: a job, its execution grant and its outbox   *)
(* row are committed together; publisher processes claim outbox rows and   *)
(* hand signed envelopes to RabbitMQ; delivery handlers de-duplicate them  *)
(* through the inbox and claim the job; an executor finishes it.           *)
(*                                                                         *)
(* Every MySQL transaction that touches several tables is one step at its  *)
(* commit; a handler's transaction is split where it reads a snapshot or   *)
(* may wait for another transaction.  Time is a set of flags that the      *)
(* environment raises: a row becomes due, a claim lapses, a job expires.   *)
(* A fresh uuid7 of an outbox row (message_id, claim_token) is named by    *)
(* the version the row takes when the identifier is drawn; 0 is NULL.      *)
(***************************************************************************)
EXTENDS Integers, FiniteSets

CONSTANTS
    Jobs,               \* outbox ids in the order publishers claim them
    Publishers,         \* processes running workers/ai_job_publisher.py
    Handlers,           \* concurrent deliveries (prefetch slots) of the workers
    BatchLimit,         \* rows one publish_batch may claim
    MaxPublishAttempts, \* ai_job_outbox.max_publish_attempts
    MaxAttempts,        \* AIJob.max_attempts
    MaxFaults,          \* bound: crashes, stalls and lost connections in one behaviour
    MaxHeartbeats       \* bound: successful heartbeats of one execution

ASSUME JobsAssumption == Jobs \subseteq Nat \ {0}
ASSUME LimitsAssumption == /\ BatchLimit \in Nat \ {0}
                           /\ MaxPublishAttempts \in Nat \ {0}
                           /\ MaxAttempts \in Nat \ {0}
                           /\ MaxFaults \in Nat
                           /\ MaxHeartbeats \in Nat

VARIABLES
    job,        \* rows of ai_jobs, with the status of the job's only attempt row
    outbox,     \* rows of ai_job_outbox: one per job, created with it
    inbox,      \* committed rows of ai_job_inbox
    authority,  \* the grant still matches user, tenant, membership and roles
    expired,    \* AIJob.expires_at has passed
    batch,      \* claims a publisher holds in memory (ClaimedOutbox)
    receipt,    \* PublishReceipt of the claim a publisher is working on
    ready,      \* copies of envelopes waiting in the main queue
    dead,       \* copies routed to the dead letter queue
    handler,    \* delivery handlers of the workers
    exec,       \* what the executor of a claimed job remembers (ClaimedExecution)
    faults      \* faults left to happen

rows == <<job, inbox, authority, expired>>
publishing == <<outbox, batch, receipt>>
delivering == <<handler, ready, dead>>
vars == <<rows, publishing, delivering, exec, faults>>

AIJobStatus == {"queued", "running", "retry_scheduled", "cancel_requested",
                "succeeded", "failed", "cancelled"}
Claimable == {"queued", "retry_scheduled"}
LeaseHolding == {"running", "cancel_requested"}
TerminalStatuses == {"succeeded", "failed", "cancelled"}

NoJob == [status |-> "absent", attempt_no |-> 0, attempt |-> "none",
          lease_fence |-> 0, version |-> 0]
NoOutbox == [status |-> "absent", due |-> FALSE, message_id |-> 0, token |-> 0,
             fence |-> 0, lapsed |-> FALSE, count |-> 0, version |-> 0]
NoCopy == [job |-> 0, message_id |-> 0, token |-> 0]
IdleHandler == [pc |-> "idle", copy |-> NoCopy, held |-> FALSE,
                late |-> FALSE, entitled |-> FALSE]
NoExecution == [fence |-> 0, version |-> 0]

JobRows == [status : AIJobStatus \cup {"absent"}, attempt_no : Nat,
            attempt : {"none", "claimed", "succeeded"},
            lease_fence : Nat, version : Nat]
OutboxRows == [status : {"absent", "pending", "publishing", "published", "blocked"},
               due : BOOLEAN, message_id : Nat, token : Nat, fence : Nat,
               lapsed : BOOLEAN, count : Nat, version : Nat]
\* fence is handling_fence: 0 when no attempt handles the message.
InboxRows == [job : Jobs, message_id : Nat, status : {"completed", "processing"},
              fence : Nat]
Claims == [job : Jobs, message_id : Nat, token : Nat, fence : Nat,
           version : Nat, count : Nat]
\* One publish of an envelope; token tells apart the copies that several
\* publishes of the same envelope leave in the broker.
Copies == [job : Jobs, message_id : Nat, token : Nat]
HandlerStates ==
    {IdleHandler} \cup
    [pc : {"received", "looked_up", "inserted", "committed", "parked"},
     copy : Copies, held : BOOLEAN, late : BOOLEAN, entitled : BOOLEAN]

TypeOK ==
    /\ job \in [Jobs -> JobRows]
    /\ outbox \in [Jobs -> OutboxRows]
    /\ inbox \in SUBSET InboxRows
    /\ authority \in [Jobs -> BOOLEAN]
    /\ expired \in [Jobs -> BOOLEAN]
    /\ batch \in [Publishers -> SUBSET Claims]
    /\ receipt \in [Publishers -> {"none", "confirmed", "unconfirmed"}]
    /\ ready \in SUBSET Copies
    /\ dead \in SUBSET Copies
    /\ handler \in [Handlers -> HandlerStates]
    /\ exec \in [Jobs -> [fence : Nat, version : Nat]]
    /\ faults \in 0..MaxFaults

Init ==
    /\ job = [j \in Jobs |-> NoJob]
    /\ outbox = [j \in Jobs |-> NoOutbox]
    /\ inbox = {}
    /\ authority = [j \in Jobs |-> TRUE]
    /\ expired = [j \in Jobs |-> FALSE]
    /\ batch = [p \in Publishers |-> {}]
    /\ receipt = [p \in Publishers |-> "none"]
    /\ ready = {}
    /\ dead = {}
    /\ handler = [h \in Handlers |-> IdleHandler]
    /\ exec = [j \in Jobs |-> NoExecution]
    /\ faults = MaxFaults

\* Spends one of the faults a behaviour may contain.
Fault == faults > 0 /\ faults' = faults - 1

-----------------------------------------------------------------------------
(* The API's transactions, and what other components and the clock do.     *)

\* AIJobService.create: job, grant and outbox row in one transaction.
Create(j) ==
    /\ job[j].status = "absent"
    /\ job' = [job EXCEPT ![j].status = "queued", ![j].version = 1]
    /\ outbox' = [outbox EXCEPT ![j].status = "pending", ![j].due = TRUE,
                                ![j].version = 1]
    /\ UNCHANGED <<inbox, authority, expired, batch, receipt, delivering, exec, faults>>

\* Mutant: the conditional update forgets which statuses may be cancelled.
CancelAny(j) ==
    /\ job[j].status \in AIJobStatus \ {"cancelled"}
    /\ job' = [job EXCEPT ![j].status = "cancelled", ![j].version = @ + 1]
    /\ UNCHANGED <<inbox, authority, expired, publishing, delivering, exec, faults>>

\* AIJobService.cancel: one conditional update; anything else is "not found".
Cancel(j) ==
    /\ job[j].status \in Claimable
    /\ job[j].lease_fence = 0
    /\ job' = [job EXCEPT ![j].status = "cancelled", ![j].version = @ + 1]
    /\ UNCHANGED <<inbox, authority, expired, publishing, delivering, exec, faults>>

\* Another component suspends the user, tenant or membership, or moves
\* auth_version or authz_version past the grant's: the grant never matches again.
\* Like the expiry below, it is read only while the job waits to be claimed.
RevokeAuthority(j) ==
    /\ job[j].status \in Claimable
    /\ authority[j]
    /\ authority' = [authority EXCEPT ![j] = FALSE]
    /\ UNCHANGED <<job, inbox, expired, publishing, delivering, exec, faults>>

JobExpires(j) ==
    /\ job[j].status \in Claimable
    /\ ~expired[j]
    /\ expired' = [expired EXCEPT ![j] = TRUE]
    /\ UNCHANGED <<job, inbox, authority, publishing, delivering, exec, faults>>

-----------------------------------------------------------------------------
(* The outbox publisher.                                                   *)

\* Mutant: rows a dead publisher left behind are never claimed again.
DuePendingOnly(j) == outbox[j].status = "pending" /\ outbox[j].due

Due(j) == \/ outbox[j].status = "pending" /\ outbox[j].due
          \/ outbox[j].status = "publishing" /\ outbox[j].lapsed

\* ORDER BY id LIMIT n.  Transactions are atomic here, so FOR UPDATE SKIP
\* LOCKED never meets a locked row.
Selected == {j \in Jobs : Due(j) /\ Cardinality({k \in Jobs : k < j /\ Due(k)}) < BatchLimit}

\* Mutant: every claim builds a new envelope.
ClaimedRowRebuilt(j) ==
    [outbox[j] EXCEPT !.status = "publishing", !.message_id = outbox[j].version + 1,
                      !.token = outbox[j].version + 1, !.fence = @ + 1, !.lapsed = FALSE,
                      !.count = @ + 1, !.version = @ + 1]

\* The envelope is built by the first claim of the row and reused afterwards.
ClaimedRow(j) ==
    LET row == outbox[j]
        next == row.version + 1
    IN  [row EXCEPT !.status = "publishing",
                    !.message_id = IF row.message_id = 0 THEN next ELSE row.message_id,
                    !.token = next, !.fence = @ + 1, !.lapsed = FALSE,
                    !.count = @ + 1, !.version = next]

ClaimOf(j, row) == [job |-> j, message_id |-> row.message_id, token |-> row.token,
                    fence |-> row.fence, version |-> row.version, count |-> row.count]

ClaimOutboxBatch(p) ==
    /\ batch[p] = {}
    /\ Selected # {}
    /\ outbox' = [j \in Jobs |-> IF j \in Selected THEN ClaimedRow(j) ELSE outbox[j]]
    /\ batch' = [batch EXCEPT ![p] = {ClaimOf(j, ClaimedRow(j)) : j \in Selected}]
    /\ receipt' = [receipt EXCEPT ![p] = "none"]
    /\ UNCHANGED <<rows, delivering, exec, faults>>

\* The claim publish_batch is working on: claims are taken in row order.
IsCurrent(p, c) == c \in batch[p] /\ \A d \in batch[p] : c.job <= d.job

\* The broker may route a message whose confirm is then lost; a confirm
\* without a return means that the queue holds the message.
Publish(p) ==
    /\ receipt[p] = "none"
    /\ \E c \in batch[p], routed, confirmed \in BOOLEAN :
        /\ IsCurrent(p, c)
        /\ confirmed => routed
        /\ ready' = IF routed
                    THEN ready \cup {[job |-> c.job, message_id |-> c.message_id,
                                      token |-> c.token]}
                    ELSE ready
        /\ receipt' = [receipt EXCEPT ![p] = IF confirmed THEN "confirmed"
                                                          ELSE "unconfirmed"]
    /\ UNCHANGED <<rows, outbox, batch, handler, dead, exec, faults>>

\* Mutant: whoever works on a publishing row may settle it.
HoldsAny(c) == outbox[c.job].status = "publishing"

\* The fence every conditional update of a claimed row repeats.
Holds(c) == /\ outbox[c.job].status = "publishing"
            /\ outbox[c.job].token = c.token
            /\ outbox[c.job].fence = c.fence
            /\ outbox[c.job].version = c.version

MarkPublished(row) == [row EXCEPT !.status = "published", !.version = @ + 1]

\* Back to pending after a pause, or blocked once the attempts are used up;
\* either way the claim columns, the fence among them, are cleared.
ReleaseOrBlock(row, c) ==
    [row EXCEPT !.status = IF c.count >= MaxPublishAttempts THEN "blocked" ELSE "pending",
                !.due = FALSE, !.token = 0, !.fence = 0, !.lapsed = FALSE,
                !.version = @ + 1]

\* mark_published, and release_or_block when there was no confirm.  A claim
\* that was taken over in the meantime changes no row.
Settle(p) ==
    /\ receipt[p] # "none"
    /\ \E c \in batch[p] :
        /\ IsCurrent(p, c)
        /\ outbox' = IF ~Holds(c) THEN outbox
                     ELSE [outbox EXCEPT ![c.job] = IF receipt[p] = "confirmed"
                                                    THEN MarkPublished(@)
                                                    ELSE ReleaseOrBlock(@, c)]
        /\ batch' = [batch EXCEPT ![p] = @ \ {c}]
    /\ receipt' = [receipt EXCEPT ![p] = "none"]
    /\ UNCHANGED <<rows, delivering, exec, faults>>

\* The process dies, or an exception leaves publish_batch: the rest of the
\* batch stays claimed in the database and is forgotten here.
AbandonBatch(p) ==
    /\ batch[p] # {}
    /\ Fault
    /\ batch' = [batch EXCEPT ![p] = {}]
    /\ receipt' = [receipt EXCEPT ![p] = "none"]
    /\ UNCHANGED <<rows, outbox, delivering, exec>>

\* available_at, five seconds after a release, has passed.
BecomesDue(j) ==
    /\ outbox[j].status = "pending"
    /\ ~outbox[j].due
    /\ outbox' = [outbox EXCEPT ![j].due = TRUE]
    /\ UNCHANGED <<rows, batch, receipt, delivering, exec, faults>>

Held(j) == \E p \in Publishers : \E c \in batch[p] : c.job = j /\ Holds(c)

\* claim_expires_at, thirty seconds after the claim, has passed: the claim's
\* owner is gone, or it is slow (a fault: a long batch, a stalled confirm).
ClaimLapses(j) ==
    /\ outbox[j].status = "publishing"
    /\ ~outbox[j].lapsed
    /\ IF Held(j) THEN Fault ELSE UNCHANGED faults
    /\ outbox' = [outbox EXCEPT ![j].lapsed = TRUE]
    /\ UNCHANGED <<rows, batch, receipt, delivering, exec>>

-----------------------------------------------------------------------------
(* A delivery handler: AioPikaJobConsumer._on_message around               *)
(* AIJobWorkerService.accept_delivery, which runs in one transaction.      *)

\* The broker hands over a copy; received_at is the handler's clock from here on.
Receive(h) ==
    /\ handler[h].pc = "idle"
    /\ \E c \in ready :
        /\ ready' = ready \ {c}
        /\ handler' = [handler EXCEPT ![h] =
            [IdleHandler EXCEPT !.pc = "received", !.copy = c, !.held = TRUE,
                                !.late = expired[c.job]]]
    /\ UNCHANGED <<rows, publishing, dead, exec, faults>>

\* The signature does not verify under this worker's ring (an unknown key id):
\* rejected without requeue, which the queue's policy turns into a dead letter.
RejectDelivery(h) ==
    /\ handler[h].pc = "received"
    /\ Fault
    /\ dead' = IF handler[h].held THEN dead \cup {handler[h].copy} ELSE dead
    /\ handler' = [handler EXCEPT ![h] = IdleHandler]
    /\ UNCHANGED <<rows, publishing, ready, exec>>

Recorded(c) == \E r \in inbox : r.job = c.job /\ r.message_id = c.message_id

\* inbox_row, the transaction's first read.  It fixes the snapshot in which
\* user, tenant, membership and roles are read later (REPEATABLE READ).
LookUpInbox(h) ==
    LET c == handler[h].copy
    IN  /\ handler[h].pc = "received"
        /\ handler' = [handler EXCEPT
                ![h].pc = IF Recorded(c) THEN "committed" ELSE "looked_up",
                ![h].entitled = ~Recorded(c) /\ authority[c.job]]
        /\ UNCHANGED <<rows, publishing, ready, dead, exec, faults>>

\* Mutants: the acknowledgement happens in a finally block; the slot forgets its copy.
ParkedAcks(h) == IdleHandler
ParkedForgets(h) == [handler[h] EXCEPT !.pc = "parked", !.copy = NoCopy]

\* An exception leaves the callback: the delivery is neither acked nor rejected,
\* and holds the prefetch slot unless its channel is gone already.
Parked(h) == IF handler[h].held THEN [handler[h] EXCEPT !.pc = "parked"] ELSE IdleHandler

\* insert_inbox_accepted waits while another transaction has inserted the same
\* (tenant, message); if that one committed, the unique key raises, the
\* transaction rolls back and the delivery is left unacknowledged.
InsertInbox(h) ==
    LET c == handler[h].copy
    IN  /\ handler[h].pc = "looked_up"
        /\ \A g \in Handlers : handler[g].pc = "inserted" =>
              <<handler[g].copy.job, handler[g].copy.message_id>> # <<c.job, c.message_id>>
        /\ handler' = [handler EXCEPT
                ![h] = IF Recorded(c) THEN Parked(h) ELSE [@ EXCEPT !.pc = "inserted"]]
        /\ UNCHANGED <<rows, publishing, ready, dead, exec, faults>>

\* What the authorization of the claim comes to.
Allowed(h) == handler[h].entitled /\ ~handler[h].late

\* claim_due_job: attempt row, lease and fence together.
Started(row) == [row EXCEPT !.status = "running", !.attempt_no = @ + 1, !.attempt = "claimed",
                            !.lease_fence = @ + 1, !.version = @ + 1]

\* Mutant: a denied delivery is recorded, but its job is left as it was.
FailedStaysQueued(row) == [row EXCEPT !.version = @ + 1]

\* fail_job_without_attempt.
Failed(row) == [row EXCEPT !.status = "failed", !.version = @ + 1]

\* The rest of accept_delivery under the job's row lock, up to the commit:
\* authorize, then claim the job, or fail it, or find it no longer claimable.
Decide(h) ==
    LET c == handler[h].copy
        row == job[c.job]
        claimable == row.status \in Claimable /\ row.lease_fence = 0
        record(s, f) == inbox \cup {[job |-> c.job, message_id |-> c.message_id,
                                     status |-> s, fence |-> f]}
    IN  /\ handler[h].pc = "inserted"
        /\ \/ /\ Allowed(h) /\ claimable
              /\ job' = [job EXCEPT ![c.job] = Started(row)]
              /\ inbox' = record("processing", row.lease_fence + 1)
              /\ exec' = [exec EXCEPT ![c.job] = [fence |-> row.lease_fence + 1,
                                                  version |-> row.version + 1]]
           \/ /\ ~Allowed(h) /\ claimable
              /\ job' = [job EXCEPT ![c.job] = Failed(row)]
              /\ inbox' = record("completed", 0)
              /\ UNCHANGED exec
           \/ /\ ~claimable
              /\ inbox' = record("completed", 0)
              /\ UNCHANGED <<job, exec>>
        /\ handler' = [handler EXCEPT ![h].pc = "committed"]
        /\ UNCHANGED <<authority, expired, publishing, ready, dead, faults>>

\* The acknowledgement, only after the commit.
Acknowledge(h) ==
    /\ handler[h].pc = "committed"
    /\ handler' = [handler EXCEPT ![h] = IdleHandler]
    /\ UNCHANGED <<rows, publishing, ready, dead, exec, faults>>

\* An exception inside the transaction (lost database, deadlock victim, missing
\* authority row): the transaction is rolled back.
AcceptFails(h) ==
    /\ handler[h].pc \in {"received", "looked_up", "inserted"}
    /\ Fault
    /\ handler' = [handler EXCEPT ![h] = Parked(h)]
    /\ UNCHANGED <<rows, publishing, ready, dead, exec>>

\* Mutant: an unacknowledged delivery is not queued again.
ReturnedNever(h) == ready

\* The broker queues an unacknowledged delivery again when its channel closes.
Returned(h) == IF handler[h].held THEN ready \cup {handler[h].copy} ELSE ready

\* The worker process dies and restarts; open transactions roll back.
HandlerDies(h) ==
    /\ handler[h].pc # "idle"
    /\ Fault
    /\ ready' = Returned(h)
    /\ handler' = [handler EXCEPT ![h] = IdleHandler]
    /\ UNCHANGED <<rows, publishing, dead, exec>>

\* The channel to the broker is lost: the copy is queued again while the
\* handler's task carries on with its transaction.
ConnectionLost(h) ==
    /\ handler[h].held
    /\ Fault
    /\ ready' = Returned(h)
    /\ handler' = [handler EXCEPT ![h] =
            IF handler[h].pc = "parked" THEN IdleHandler ELSE [@ EXCEPT !.held = FALSE]]
    /\ UNCHANGED <<rows, publishing, dead, exec>>

-----------------------------------------------------------------------------
(* The executor of a claimed job, through the repository's fenced updates. *)

LeaseMatches(j) == /\ exec[j].fence # 0
                   /\ job[j].lease_fence = exec[j].fence
                   /\ job[j].version = exec[j].version

\* heartbeat: extends the lease; its answer may be lost on the way back.
Heartbeat(j) ==
    /\ LeaseMatches(j)
    /\ job[j].status \in LeaseHolding
    /\ job[j].version < 2 + MaxHeartbeats
    /\ job' = [job EXCEPT ![j].version = @ + 1]
    /\ \E answered \in BOOLEAN :
        exec' = IF answered THEN [exec EXCEPT ![j].version = @ + 1] ELSE exec
    /\ UNCHANGED <<inbox, authority, expired, publishing, delivering, faults>>

\* finalize_success: job and attempt row in one transaction.
FinalizeSuccess(j) ==
    /\ LeaseMatches(j)
    /\ job[j].status = "running"
    /\ job' = [job EXCEPT ![j].status = "succeeded", ![j].lease_fence = 0,
                          ![j].attempt = IF @ = "claimed" THEN "succeeded" ELSE @,
                          ![j].version = @ + 1]
    /\ UNCHANGED <<inbox, authority, expired, publishing, delivering, exec, faults>>

\* Nothing in the code takes the job over from a dead executor.
ExecutorDies(j) ==
    /\ exec[j].fence # 0
    /\ exec' = [exec EXCEPT ![j] = NoExecution]
    /\ UNCHANGED <<rows, publishing, delivering, faults>>

-----------------------------------------------------------------------------

Environment(j) == \/ Create(j) \/ Cancel(j) \/ RevokeAuthority(j) \/ JobExpires(j)
                  \/ BecomesDue(j) \/ ClaimLapses(j)

Publisher(p) == \/ ClaimOutboxBatch(p) \/ Publish(p) \/ Settle(p) \/ AbandonBatch(p)

Worker(h) == \/ Receive(h) \/ RejectDelivery(h) \/ LookUpInbox(h) \/ InsertInbox(h)
             \/ Decide(h) \/ Acknowledge(h) \/ AcceptFails(h) \/ HandlerDies(h)
             \/ ConnectionLost(h)

Executor(j) == Heartbeat(j) \/ FinalizeSuccess(j) \/ ExecutorDies(j)

Next == \/ \E j \in Jobs : Environment(j) \/ Executor(j)
        \/ \E p \in Publishers : Publisher(p)
        \/ \E h \in Handlers : Worker(h)

Spec == Init /\ [][Next]_vars

-----------------------------------------------------------------------------
(* Safety.                                                                 *)

\* However often an envelope is published or delivered, its job is claimed at
\* most once, by the message of its only inbox row.
RowsOf(j) == {r \in inbox : r.job = j}
ClaimedAtMostOnce ==
    \A j \in Jobs :
        /\ \A r1, r2 \in RowsOf(j) : r1 = r2
        /\ job[j].attempt_no = (IF \E r \in RowsOf(j) : r.status = "processing"
                                THEN 1 ELSE 0)
        /\ (job[j].attempt = "succeeded") <=> (job[j].status = "succeeded")

\* A message is only de-duplicated away once its job has left the queue: an
\* inbox row never hides a job that still waits for its message.
NoJobSwallowed ==
    \A j \in Jobs : RowsOf(j) # {} => job[j].status \notin Claimable

\* At-least-once delivery: what the outbox calls published is queued, being
\* handled, dead-lettered, or recorded in the inbox - never gone.
Reached(j) ==
    LET same(c) == c.job = j /\ c.message_id = outbox[j].message_id
    IN  \/ \E c \in ready \cup dead : same(c)
        \/ \E h \in Handlers : handler[h].held /\ same(handler[h].copy)
        \/ \E r \in inbox : same(r)
PublishedIsNeverLost ==
    \A j \in Jobs : outbox[j].status = "published" => Reached(j)

\* However many publishers took a row over from each other, at most one of
\* them can still settle it.
OneClaimHolder ==
    \A p, q \in Publishers : \A c \in batch[p], d \in batch[q] :
        c.job = d.job /\ Holds(c) /\ Holds(d) => p = q

\* The runtime implements the lifecycle the domain promises.
Lifecycle == INSTANCE AIJobLifecycle
                WITH status <- [j \in Jobs |-> job[j].status],
                     attempt_no <- [j \in Jobs |-> job[j].attempt_no]
ImplementsLifecycle == Lifecycle!Spec

-----------------------------------------------------------------------------
(* Liveness.  The publisher and the worker are loops that always go on, the *)
(* broker delivers what it holds, and clocks advance; faults run out.       *)

Fairness ==
    /\ \A p \in Publishers : /\ WF_vars(ClaimOutboxBatch(p))
                             /\ WF_vars(Publish(p))
                             /\ WF_vars(Settle(p))
    /\ \A j \in Jobs : /\ WF_vars(BecomesDue(j))
                       /\ WF_vars(~Held(j) /\ ClaimLapses(j))
    /\ \A h \in Handlers : WF_vars(\/ Receive(h) \/ LookUpInbox(h) \/ InsertInbox(h)
                                   \/ Decide(h) \/ Acknowledge(h))

FairSpec == Spec /\ Fairness

\* A publisher that dies with claims in hand delays a row but never strands it.
OutboxSettles ==
    \A j \in Jobs : outbox[j].status = "pending" ~> outbox[j].status \in {"published", "blocked"}

\* A published message gets its job decided, unless it was dead-lettered or a
\* failed handler sits on a delivery it never acknowledges.
PublishedIsDecided ==
    \A j \in Jobs :
        outbox[j].status = "published" ~>
            \/ job[j].status \notin Claimable
            \/ \E c \in dead : c.job = j
            \/ \E h \in Handlers : handler[h].pc = "parked"

-----------------------------------------------------------------------------
(* What the design says and the code does not do.                          *)

Starts(j) == job[j].status # "running" /\ job'[j].status = "running"

\* Design 6.2: a change of authority stops every effect not yet committed.
StartsOnlyWithAuthority ==
    [][\A j \in Jobs : Starts(j) => authority[j]]_vars

=============================================================================

------------------------ MODULE AIJobDeliveryProofs ------------------------
(***************************************************************************)
(* A job is claimed at most once and its message is never swallowed,       *)
(* however often its envelope is published and delivered.  The inductive   *)
(* invariant says where an envelope's identifier may occur, what an inbox  *)
(* row implies about its job, and what a handler between two of its steps  *)
(* may rely on; it stands on type correctness, proved first.  The          *)
(* refinement of AIJobLifecycle follows from it.                           *)
(***************************************************************************)
EXTENDS AIJobRuntime, TLAPS

----------------------------------------------------------------------------
\* Type correctness

USE DEF Claimable, LeaseHolding, TerminalStatuses, AIJobStatus

\* A row a publisher claims stays a well-formed outbox row, and the claim it
\* returns is a well-formed claim.
LEMMA ClaimedRowType ==
    ASSUME TypeOK, NEW j \in Jobs
    PROVE  ClaimedRow(j) \in OutboxRows /\ ClaimOf(j, ClaimedRow(j)) \in Claims
<1> DEFINE row == outbox[j]
<1>1. row \in OutboxRows  BY DEF TypeOK
<1>2. PICK v \in Nat : v = row.version + 1  BY <1>1 DEF OutboxRows
<1>3. PICK f \in Nat : f = row.fence + 1  BY <1>1 DEF OutboxRows
<1>4. PICK k \in Nat : k = row.count + 1  BY <1>1 DEF OutboxRows
<1>5. PICK m \in Nat : m = IF row.message_id = 0 THEN v ELSE row.message_id
  BY <1>1 DEF OutboxRows
<1>6. [row EXCEPT !.status = "publishing", !.message_id = m, !.token = v, !.fence = f,
                  !.lapsed = FALSE, !.count = k, !.version = v] \in OutboxRows
  BY <1>1 DEF OutboxRows
<1> HIDE DEF row
<1>7. ClaimedRow(j) \in OutboxRows
  BY <1>2, <1>3, <1>4, <1>5, <1>6, Zenon DEF ClaimedRow, row
<1>8. ClaimOf(j, ClaimedRow(j)) \in Claims
  BY <1>7 DEF ClaimOf, OutboxRows, Claims
<1> QED  BY <1>7, <1>8

\* Every update of an outbox row, by creation, settlement or the clock, leaves a
\* well-formed row.
LEMMA OutboxRowUpdates ==
    ASSUME NEW row \in OutboxRows
    PROVE  /\ [row EXCEPT !.status = "pending", !.due = TRUE, !.version = 1] \in OutboxRows
           /\ [row EXCEPT !.due = TRUE] \in OutboxRows
           /\ [row EXCEPT !.lapsed = TRUE] \in OutboxRows
           /\ MarkPublished(row) \in OutboxRows
           /\ \A c \in Claims : ReleaseOrBlock(row, c) \in OutboxRows
<1>1. PICK v \in Nat : v = row.version + 1  BY DEF OutboxRows
<1>2. [row EXCEPT !.status = "published", !.version = v] \in OutboxRows BY DEF OutboxRows
<1>3. MarkPublished(row) \in OutboxRows
  BY <1>1, <1>2, Zenon DEF MarkPublished
<1>4. ASSUME NEW c \in Claims PROVE ReleaseOrBlock(row, c) \in OutboxRows
  <2>1. PICK s \in {"pending", "blocked"} :
          s = IF c.count >= MaxPublishAttempts THEN "blocked" ELSE "pending"
    OBVIOUS
  <2>2. [row EXCEPT !.status = s, !.due = FALSE, !.token = 0, !.fence = 0, !.lapsed = FALSE,
                    !.version = v] \in OutboxRows
    BY DEF OutboxRows
  <2> QED  BY <1>1, <2>1, <2>2, Zenon DEF ReleaseOrBlock
<1>5. /\ [row EXCEPT !.status = "pending", !.due = TRUE, !.version = 1] \in OutboxRows
      /\ [row EXCEPT !.due = TRUE] \in OutboxRows
      /\ [row EXCEPT !.lapsed = TRUE] \in OutboxRows
  BY DEF OutboxRows
<1> QED  BY <1>3, <1>4, <1>5

\* Every update of a job row leaves a well-formed row.
LEMMA JobRowUpdates ==
    ASSUME NEW row \in JobRows
    PROVE  /\ [row EXCEPT !.status = "queued", !.version = 1] \in JobRows
           /\ [row EXCEPT !.status = "cancelled", !.version = @ + 1] \in JobRows
           /\ Failed(row) \in JobRows
           /\ [row EXCEPT !.version = @ + 1] \in JobRows
           /\ Started(row) \in JobRows
           /\ [row EXCEPT !.status = "succeeded", !.lease_fence = 0,
                          !.attempt = IF @ = "claimed" THEN "succeeded" ELSE @,
                          !.version = @ + 1] \in JobRows
<1>1. PICK v \in Nat : v = row.version + 1  BY DEF JobRows
<1>2. PICK f \in Nat : f = row.lease_fence + 1  BY DEF JobRows
<1>3. PICK n \in Nat : n = row.attempt_no + 1  BY DEF JobRows
<1>4. PICK a \in {"none", "claimed", "succeeded"} : a = IF row.attempt = "claimed" THEN "succeeded" ELSE row.attempt
  BY DEF JobRows
<1>5. /\ [row EXCEPT !.status = "queued", !.version = 1] \in JobRows
      /\ [row EXCEPT !.status = "cancelled", !.version = v] \in JobRows
      /\ [row EXCEPT !.status = "failed", !.version = v] \in JobRows
      /\ [row EXCEPT !.version = v] \in JobRows
      /\ [row EXCEPT !.status = "running", !.attempt_no = n, !.attempt = "claimed",
                     !.lease_fence = f, !.version = v] \in JobRows
      /\ [row EXCEPT !.status = "succeeded", !.lease_fence = 0, !.attempt = a,
                     !.version = v] \in JobRows
  BY DEF JobRows
<1> QED  BY <1>1, <1>2, <1>3, <1>4, <1>5, Zenon DEF Failed, Started

\* A handler that takes a delivery is in one of its states.
LEMMA HandlerStarts ==
    ASSUME NEW c \in Copies, NEW l \in BOOLEAN
    PROVE  [IdleHandler EXCEPT !.pc = "received", !.copy = c, !.held = TRUE, !.late = l]
             \in HandlerStates
  BY DEF IdleHandler, HandlerStates

\* A handler at work has a copy, and each of its steps leaves it in one of its states.
LEMMA HandlerMoves ==
    ASSUME NEW r \in HandlerStates, r.pc # "idle"
    PROVE  /\ r.copy \in Copies
           /\ \A pc \in {"received", "looked_up", "inserted", "committed", "parked"} :
                 /\ [r EXCEPT !.pc = pc] \in HandlerStates
                 /\ \A e \in BOOLEAN : [r EXCEPT !.pc = pc, !.entitled = e] \in HandlerStates
           /\ [r EXCEPT !.held = FALSE] \in HandlerStates
<1> DEFINE Busy == [pc : {"received", "looked_up", "inserted", "committed", "parked"},
                    copy : Copies, held : BOOLEAN, late : BOOLEAN, entitled : BOOLEAN]
<1>1. r \in Busy  BY DEF HandlerStates, IdleHandler
<1>2. /\ r.copy \in Copies
      /\ \A pc \in {"received", "looked_up", "inserted", "committed", "parked"} :
            /\ [r EXCEPT !.pc = pc] \in Busy
            /\ \A e \in BOOLEAN : [r EXCEPT !.pc = pc, !.entitled = e] \in Busy
      /\ [r EXCEPT !.held = FALSE] \in Busy
  BY <1>1
<1>3. Busy \subseteq HandlerStates  BY DEF HandlerStates
<1> HIDE DEF Busy
<1> QED  BY <1>2, <1>3

\* Before anything happened every variable is in its type.
LEMMA InitType == Init => TypeOK
  BY LimitsAssumption DEF Init, TypeOK, NoJob, NoOutbox, NoExecution, JobRows, OutboxRows,
     HandlerStates

\* Every transaction leaves every variable in its type: the steps of the API,
\* the environment and the executor, then the publisher's, then the handler's.
LEMMA TypeStep == TypeOK /\ [Next]_vars => TypeOK'
<1> SUFFICES ASSUME TypeOK, [Next]_vars PROVE TypeOK'
  OBVIOUS
<1> USE LimitsAssumption DEF rows, publishing, delivering
<1>1. ASSUME NEW j \in Jobs, Create(j) PROVE TypeOK'
  BY <1>1, JobRowUpdates, OutboxRowUpdates DEF Create, TypeOK
<1>2. ASSUME NEW j \in Jobs, Cancel(j) PROVE TypeOK'
  <2>1. [job[j] EXCEPT !.status = "cancelled", !.version = @ + 1] \in JobRows
    BY JobRowUpdates DEF TypeOK
  <2> QED  BY <1>2, <2>1 DEF Cancel, TypeOK
<1>3. ASSUME NEW j \in Jobs, RevokeAuthority(j) \/ JobExpires(j) PROVE TypeOK'
  BY <1>3 DEF RevokeAuthority, JobExpires, TypeOK
<1>4. ASSUME NEW j \in Jobs, BecomesDue(j) \/ ClaimLapses(j) PROVE TypeOK'
  <2>1. /\ [outbox[j] EXCEPT !.due = TRUE] \in OutboxRows
        /\ [outbox[j] EXCEPT !.lapsed = TRUE] \in OutboxRows
    BY OutboxRowUpdates DEF TypeOK
  <2>2. faults' \in 0..MaxFaults  BY <1>4 DEF BecomesDue, ClaimLapses, Fault, TypeOK
  <2> QED  BY <1>4, <2>1, <2>2 DEF BecomesDue, ClaimLapses, TypeOK
<1>5. ASSUME NEW j \in Jobs, Executor(j) PROVE TypeOK'
  <2>1. CASE Heartbeat(j)
    <3>1. [exec[j] EXCEPT !.version = @ + 1] \in [fence : Nat, version : Nat]
      BY DEF TypeOK
    <3> QED  BY <2>1, <3>1, JobRowUpdates DEF Heartbeat, TypeOK
  <2>2. CASE FinalizeSuccess(j)
    BY <2>2, JobRowUpdates DEF FinalizeSuccess, TypeOK
  <2>3. CASE ExecutorDies(j)
    BY <2>3 DEF ExecutorDies, NoExecution, TypeOK
  <2> QED  BY <1>5, <2>1, <2>2, <2>3 DEF Executor
<1>6. ASSUME NEW p \in Publishers, ClaimOutboxBatch(p) PROVE TypeOK'
  <2>1. outbox' \in [Jobs -> OutboxRows]
    BY <1>6, ClaimedRowType DEF ClaimOutboxBatch, TypeOK
  <2>2. {ClaimOf(j, ClaimedRow(j)) : j \in Selected} \in SUBSET Claims
    BY ClaimedRowType DEF Selected
  <2> QED  BY <1>6, <2>1, <2>2 DEF ClaimOutboxBatch, TypeOK
<1>7. ASSUME NEW p \in Publishers, Publish(p) PROVE TypeOK'
  BY <1>7 DEF Publish, TypeOK, Claims, Copies
<1>8. ASSUME NEW p \in Publishers, Settle(p) PROVE TypeOK'
  <2>1. PICK c \in batch[p] :
          /\ outbox' = IF ~Holds(c) THEN outbox
                   ELSE [outbox EXCEPT ![c.job] = IF receipt[p] = "confirmed"
                                                  THEN MarkPublished(@)
                                                  ELSE ReleaseOrBlock(@, c)]
          /\ batch' = [batch EXCEPT ![p] = @ \ {c}]
    BY <1>8 DEF Settle
  <2>2. c \in Claims  BY DEF TypeOK
  <2>3. c.job \in Jobs  BY <2>2 DEF Claims
  <2>4. outbox[c.job] \in OutboxRows  BY <2>3 DEF TypeOK
  <2>5. /\ MarkPublished(outbox[c.job]) \in OutboxRows
        /\ ReleaseOrBlock(outbox[c.job], c) \in OutboxRows
    BY <2>2, <2>4, OutboxRowUpdates
  <2> QED  BY <1>8, <2>1, <2>3, <2>5 DEF Settle, TypeOK
<1>9. ASSUME NEW p \in Publishers, AbandonBatch(p) PROVE TypeOK'
  BY <1>9 DEF AbandonBatch, Fault, TypeOK
<1>10. ASSUME NEW h \in Handlers, Receive(h) PROVE TypeOK'
  <2>1. PICK c \in ready :
          /\ ready' = ready \ {c}
          /\ handler' = [handler EXCEPT ![h] =
               [IdleHandler EXCEPT !.pc = "received", !.copy = c, !.held = TRUE,
                                   !.late = expired[c.job]]]
    BY <1>10 DEF Receive
  <2>2. c \in Copies /\ expired[c.job] \in BOOLEAN  BY DEF TypeOK, Copies
  <2> QED  BY <1>10, <2>1, <2>2, HandlerStarts DEF Receive, TypeOK
<1>11. ASSUME NEW h \in Handlers, RejectDelivery(h) \/ HandlerDies(h) \/ ConnectionLost(h)
       PROVE TypeOK'
  <2>1. handler[h] \in HandlerStates /\ IdleHandler \in HandlerStates
    BY DEF TypeOK, HandlerStates
  <2>. handler[h].held => handler[h].pc # "idle"
    BY <2>1 DEF HandlerStates, IdleHandler
  <2>2. handler[h].held => /\ handler[h].copy \in Copies
                           /\ [handler[h] EXCEPT !.held = FALSE] \in HandlerStates
    BY <2>1, HandlerMoves
  <2>3. ready' \in SUBSET Copies /\ dead' \in SUBSET Copies
    BY <1>11, <2>2 DEF RejectDelivery, HandlerDies, ConnectionLost, Returned, TypeOK
  <2>4. handler' \in [Handlers -> HandlerStates]
    BY <1>11, <2>1, <2>2 DEF RejectDelivery, HandlerDies, ConnectionLost, TypeOK
  <2>5. faults' \in 0..MaxFaults
    BY <1>11 DEF RejectDelivery, HandlerDies, ConnectionLost, Fault, TypeOK
  <2> QED  BY <1>11, <2>3, <2>4, <2>5 DEF RejectDelivery, HandlerDies, ConnectionLost, TypeOK
<1>12. ASSUME NEW h \in Handlers,
              LookUpInbox(h) \/ InsertInbox(h) \/ Acknowledge(h) \/ AcceptFails(h)
       PROVE TypeOK'
  <2>1. handler[h] \in HandlerStates /\ IdleHandler \in HandlerStates
    BY DEF TypeOK, HandlerStates
  <2>2. CASE LookUpInbox(h)
    <3> DEFINE pc == IF Recorded(handler[h].copy) THEN "committed" ELSE "looked_up"
               e == ~Recorded(handler[h].copy) /\ authority[handler[h].copy.job]
    <3>1. handler[h].copy \in Copies /\ handler[h].pc # "idle"
      BY <2>1, <2>2, HandlerMoves DEF LookUpInbox
    <3>2. pc \in {"committed", "looked_up"} /\ e \in BOOLEAN
      OBVIOUS
    <3>3. /\ handler' = [handler EXCEPT ![h] = [@ EXCEPT !.pc = pc, !.entitled = e]]
          /\ UNCHANGED <<rows, publishing, ready, dead, exec, faults>>
      BY <2>2 DEF LookUpInbox
    <3> HIDE DEF pc, e
    <3>4. [handler[h] EXCEPT !.pc = pc, !.entitled = e] \in HandlerStates
      BY <2>1, <3>1, <3>2, HandlerMoves
    <3> QED  BY <3>3, <3>4 DEF TypeOK
  <2>3. ASSUME handler[h].pc # "idle" PROVE Parked(h) \in HandlerStates
    <3>1. [handler[h] EXCEPT !.pc = "parked"] \in HandlerStates
      BY <2>1, <2>3, HandlerMoves
    <3> QED  BY <2>1, <3>1 DEF Parked
  <2>4. CASE InsertInbox(h)
    <3>1. [handler[h] EXCEPT !.pc = "inserted"] \in HandlerStates
      BY <2>1, <2>4, HandlerMoves DEF InsertInbox
    <3> QED  BY <2>3, <2>4, <3>1 DEF InsertInbox, TypeOK
  <2>5. CASE Acknowledge(h)
    BY <2>1, <2>5 DEF Acknowledge, TypeOK
  <2>6. CASE AcceptFails(h)
    <3>1. Parked(h) \in HandlerStates  BY <2>3, <2>6 DEF AcceptFails
    <3> QED  BY <2>6, <3>1 DEF AcceptFails, Fault, TypeOK
  <2> QED  BY <1>12, <2>2, <2>4, <2>5, <2>6
<1>13. ASSUME NEW h \in Handlers, Decide(h) PROVE TypeOK'
  <2> DEFINE c == handler[h].copy
             row == job[c.job]
  <2>1. handler[h] \in HandlerStates /\ handler[h].pc # "idle"
    BY <1>13 DEF Decide, TypeOK
  <2>2. c \in Copies  BY <2>1, HandlerMoves
  <2>3. c.job \in Jobs /\ c.message_id \in Nat  BY <2>2 DEF Copies
  <2>4. row \in JobRows  BY <2>3 DEF TypeOK
  <2>5. row.lease_fence + 1 \in Nat /\ row.version + 1 \in Nat  BY <2>4 DEF JobRows
  <2>6. handler' \in [Handlers -> HandlerStates]
    <3>1. [handler[h] EXCEPT !.pc = "committed"] \in HandlerStates
      BY <2>1, HandlerMoves
    <3> QED  BY <1>13, <3>1 DEF Decide, TypeOK
  <2>7. Started(row) \in JobRows /\ Failed(row) \in JobRows
    BY <2>4, JobRowUpdates
  <2>8. job' \in [Jobs -> JobRows]
    BY <1>13, <2>3, <2>7 DEF Decide, TypeOK
  <2>9. inbox' \in SUBSET InboxRows
    BY <1>13, <2>3, <2>5 DEF Decide, TypeOK, InboxRows
  <2>10. exec' \in [Jobs -> [fence : Nat, version : Nat]]
    BY <1>13, <2>3, <2>5 DEF Decide, TypeOK
  <2> QED  BY <1>13, <2>6, <2>8, <2>9, <2>10 DEF Decide, TypeOK
<1>14. CASE UNCHANGED vars
  BY <1>14 DEF vars, TypeOK
<1> QED
  BY <1>1, <1>2, <1>3, <1>4, <1>5, <1>6, <1>7, <1>8, <1>9, <1>10, <1>11, <1>12, <1>13,
     <1>14 DEF Next, Environment, Publisher, Worker

\* The tables, the broker and the processes always hold well-formed values.
THEOREM TypeCorrect == Spec => []TypeOK
<1> QED  BY InitType, TypeStep, PTL DEF Spec

HIDE DEF TerminalStatuses, AIJobStatus

----------------------------------------------------------------------------
\* Delivery

\* What a job row looks like in each status: nothing in the runtime leaves
\* `running' for another attempt, so one attempt is all a job ever gets.
JobShape(r) ==
    /\ r.status \in {"absent", "queued", "running", "succeeded", "failed", "cancelled"}
    /\ r.status \in {"absent", "queued", "failed", "cancelled"} =>
         r.attempt_no = 0 /\ r.attempt = "none" /\ r.lease_fence = 0
    /\ r.status = "running" => r.attempt_no = 1 /\ r.attempt = "claimed" /\ r.lease_fence # 0
    /\ r.status = "succeeded" => r.attempt_no = 1 /\ r.attempt = "succeeded" /\ r.lease_fence = 0
JobInv == \A j \in Jobs : JobShape(job[j])

\* An envelope is built once: whoever carries an identifier carries the one in
\* its outbox row, and the row's job exists.
Genuine(x) == x.message_id # 0 /\ x.message_id = outbox[x.job].message_id
MessageInv ==
    /\ \A j \in Jobs : /\ job[j].status = "absent" <=> outbox[j].status = "absent"
                       /\ outbox[j].status = "absent" => outbox[j].message_id = 0
    /\ \A p \in Publishers : \A c \in batch[p] : Genuine(c)
    /\ \A c \in ready \cup dead : Genuine(c)
    /\ \A r \in inbox : Genuine(r)
    /\ \A h \in Handlers : handler[h].pc # "idle" => Genuine(handler[h].copy)

\* One row per job; a row says how its job was decided; a handler that has
\* inserted is alone with its job, and one that committed has left a row.
InboxInv ==
    /\ \A r1, r2 \in inbox : r1.job = r2.job => r1 = r2
    /\ \A r \in inbox : IF r.status = "processing"
                        THEN r.fence # 0 /\ job[r.job].status \in {"running", "succeeded"}
                        ELSE r.fence = 0 /\ job[r.job].status \in {"failed", "cancelled"}
    /\ \A j \in Jobs : job[j].status \in {"running", "succeeded"} => RowsOf(j) # {}
    /\ \A h \in Handlers : handler[h].pc = "inserted" => RowsOf(handler[h].copy.job) = {}
    /\ \A h, g \in Handlers :
         h # g /\ handler[h].pc = "inserted" /\ handler[g].pc = "inserted" =>
           handler[h].copy.job # handler[g].copy.job
    /\ \A h \in Handlers : handler[h].pc = "committed" => Recorded(handler[h].copy)

DeliveryInv == TypeOK /\ JobInv /\ MessageInv /\ InboxInv

\* In the initial state no job exists and nothing is under way.
LEMMA InitDelivery == Init => DeliveryInv
<1> SUFFICES ASSUME Init PROVE DeliveryInv
  OBVIOUS
<1>1. TypeOK  BY InitType
<1>2. JobInv  BY DEF Init, JobInv, JobShape, NoJob
<1>3. MessageInv  BY DEF Init, MessageInv, NoJob, NoOutbox, IdleHandler
<1>4. InboxInv  BY DEF Init, InboxInv, NoJob, IdleHandler
<1> QED  BY <1>1, <1>2, <1>3, <1>4 DEF DeliveryInv

\* The shape survives a heartbeat, a completion, a claim and a failure.
LEMMA ShapeIsKept ==
    ASSUME NEW r \in JobRows, JobShape(r)
    PROVE  /\ JobShape([r EXCEPT !.version = @ + 1])
           /\ r.status = "running" =>
                JobShape([r EXCEPT !.status = "succeeded", !.lease_fence = 0,
                                   !.attempt = IF @ = "claimed" THEN "succeeded" ELSE @,
                                   !.version = @ + 1])
           /\ r.status \in Claimable =>
                /\ JobShape(Started(r))
                /\ JobShape(Failed(r))
                /\ JobShape([r EXCEPT !.status = "cancelled", !.version = @ + 1])
<1>1. PICK v \in Nat : v = r.version + 1  BY DEF JobRows
<1>2. PICK f \in Nat \ {0} : f = r.lease_fence + 1  BY DEF JobRows
<1>3. PICK n \in Nat : n = r.attempt_no + 1  BY DEF JobRows
<1>4. JobShape([r EXCEPT !.version = v])
  BY DEF JobRows, JobShape
<1>5. ASSUME r.status = "running"
      PROVE  JobShape([r EXCEPT !.status = "succeeded", !.lease_fence = 0,
                                !.attempt = "succeeded", !.version = v])
  BY <1>5 DEF JobRows, JobShape
<1>6. ASSUME r.status \in Claimable
      PROVE  /\ n = 1
             /\ JobShape([r EXCEPT !.status = "running", !.attempt_no = 1,
                          !.attempt = "claimed", !.lease_fence = f, !.version = v])
             /\ JobShape([r EXCEPT !.status = "failed", !.version = v])
             /\ JobShape([r EXCEPT !.status = "cancelled", !.version = v])
  <2>1. r.attempt_no = 0 /\ r.attempt = "none" /\ r.lease_fence = 0
    BY <1>6 DEF JobShape
  <2>2. JobShape([r EXCEPT !.status = "running", !.attempt_no = 1,
                           !.attempt = "claimed", !.lease_fence = f, !.version = v])
    BY DEF JobRows, JobShape
  <2>3. /\ JobShape([r EXCEPT !.status = "failed", !.version = v])
        /\ JobShape([r EXCEPT !.status = "cancelled", !.version = v])
    BY <2>1 DEF JobRows, JobShape
  <2> QED  BY <1>3, <2>1, <2>2, <2>3
<1>7. r.status = "running" => (IF r.attempt = "claimed" THEN "succeeded" ELSE r.attempt) = "succeeded"
  BY DEF JobShape
<1> QED  BY <1>1, <1>2, <1>3, <1>4, <1>5, <1>6, <1>7, Zenon DEF Started, Failed

\* Which steps touch the job rows.
LEMMA JobIsLeftAlone ==
    ASSUME [Next]_vars
    PROVE  \/ UNCHANGED job
           \/ \E j \in Jobs : Create(j) \/ Cancel(j) \/ Executor(j)
           \/ \E h \in Handlers : Decide(h)
<1> QED
  BY DEF Next, Environment, Publisher, Worker, RevokeAuthority, JobExpires, BecomesDue,
     ClaimLapses, ClaimOutboxBatch, Publish, Settle, AbandonBatch, Receive, RejectDelivery,
     LookUpInbox, InsertInbox, Acknowledge, AcceptFails, HandlerDies, ConnectionLost, rows, vars

\* A publisher's batch only grows by claiming.
LEMMA BatchGrowsByClaims ==
    ASSUME TypeOK, [Next]_vars, NEW p \in Publishers, NEW c \in batch'[p], c \notin batch[p]
    PROVE  ClaimOutboxBatch(p) /\ c \in {ClaimOf(j, ClaimedRow(j)) : j \in Selected}
<1>1. CASE \E q \in Publishers : ClaimOutboxBatch(q)
  BY <1>1 DEF ClaimOutboxBatch, TypeOK
<1>2. CASE \E q \in Publishers : Settle(q) \/ AbandonBatch(q)
  BY <1>2 DEF Settle, AbandonBatch, TypeOK
<1>3. CASE UNCHANGED batch
  BY <1>3
<1>4. \/ UNCHANGED batch
      \/ \E q \in Publishers : ClaimOutboxBatch(q)
      \/ \E q \in Publishers : Settle(q) \/ AbandonBatch(q)
  BY DEF Next, Environment, Publisher, Worker, Executor, Create, Cancel, RevokeAuthority,
     JobExpires, BecomesDue, ClaimLapses, Publish, Receive, RejectDelivery, LookUpInbox,
     InsertInbox, Decide, Acknowledge, AcceptFails, HandlerDies, ConnectionLost, Heartbeat,
     FinalizeSuccess, ExecutorDies, publishing, vars
<1> QED  BY <1>1, <1>2, <1>3, <1>4

\* A copy enters the broker from a claim, or comes back from a handler.
LEMMA CopiesComeFromClaims ==
    ASSUME TypeOK, [Next]_vars, NEW c \in ready' \cup dead'
    PROVE  \/ c \in ready \cup dead
           \/ \E p \in Publishers : \E d \in batch[p] :
                c.job = d.job /\ c.message_id = d.message_id
           \/ \E h \in Handlers : handler[h].pc # "idle" /\ c = handler[h].copy
<1>1. CASE \E p \in Publishers : Publish(p)
  BY <1>1 DEF Publish
<1>2. CASE \E h \in Handlers : Receive(h) \/ RejectDelivery(h) \/ HandlerDies(h) \/ ConnectionLost(h)
  <2>1. \A h \in Handlers : handler[h].held => handler[h].pc # "idle"
    BY DEF TypeOK, HandlerStates, IdleHandler
  <2> QED
    BY <1>2, <2>1 DEF Receive, RejectDelivery, HandlerDies, ConnectionLost, Returned
<1>3. CASE UNCHANGED <<ready, dead>>
  BY <1>3
<1>4. \/ UNCHANGED <<ready, dead>>
      \/ \E p \in Publishers : Publish(p)
      \/ \E h \in Handlers : Receive(h) \/ RejectDelivery(h) \/ HandlerDies(h) \/ ConnectionLost(h)
  BY DEF Next, Environment, Publisher, Worker, Executor, Create, Cancel, RevokeAuthority,
     JobExpires, BecomesDue, ClaimLapses, ClaimOutboxBatch, Settle, AbandonBatch, LookUpInbox,
     InsertInbox, Decide, Acknowledge, AcceptFails, Heartbeat, FinalizeSuccess, ExecutorDies,
     delivering, vars
<1> QED  BY <1>1, <1>2, <1>3, <1>4

\* Only a decision touches the inbox.
LEMMA InboxIsLeftAlone ==
    ASSUME [Next]_vars
    PROVE  UNCHANGED inbox \/ \E h \in Handlers : Decide(h)
<1> QED
  BY DEF Next, Environment, Publisher, Worker, Executor, Create, Cancel, RevokeAuthority,
     JobExpires, BecomesDue, ClaimLapses, ClaimOutboxBatch, Publish, Settle, AbandonBatch,
     Receive, RejectDelivery, LookUpInbox, InsertInbox, Acknowledge, AcceptFails, HandlerDies,
     ConnectionLost, Heartbeat, FinalizeSuccess, ExecutorDies, rows, vars

\* An inbox row is committed with the decision of a handler that inserted it.
LEMMA InboxGrowsByDecisions ==
    ASSUME [Next]_vars, NEW r \in inbox'
    PROVE  \/ r \in inbox
           \/ \E h \in Handlers : /\ handler[h].pc = "inserted"
                                  /\ r.job = handler[h].copy.job
                                  /\ r.message_id = handler[h].copy.message_id
<1>1. CASE \E h \in Handlers : Decide(h)
  BY <1>1 DEF Decide
<1> QED  BY <1>1, InboxIsLeftAlone

\* A handler's copy comes from the queue and stays until the handler is idle.
LEMMA HandlersTakeCopies ==
    ASSUME TypeOK, [Next]_vars, NEW h \in Handlers, handler'[h].pc # "idle"
    PROVE  \/ handler[h].pc # "idle" /\ handler'[h].copy = handler[h].copy
           \/ handler'[h].copy \in ready
<1>1. ASSUME NEW g \in Handlers, Worker(g) PROVE h # g => handler'[h] = handler[h]
  BY <1>1 DEF Worker, Receive, RejectDelivery, LookUpInbox, InsertInbox, Decide, Acknowledge,
     AcceptFails, HandlerDies, ConnectionLost, TypeOK
<1>2. CASE Worker(h)
  <2>1. CASE Receive(h)
    BY <2>1 DEF Receive, IdleHandler, TypeOK
  <2>2. CASE RejectDelivery(h) \/ Acknowledge(h) \/ HandlerDies(h)
    BY <2>2 DEF RejectDelivery, Acknowledge, HandlerDies, IdleHandler, TypeOK
  <2>3. CASE LookUpInbox(h) \/ InsertInbox(h) \/ Decide(h) \/ AcceptFails(h) \/ ConnectionLost(h)
    <3>1. handler[h] \in HandlerStates  BY DEF TypeOK
    <3>2. handler[h].held => handler[h].pc # "idle"
      BY <3>1 DEF HandlerStates, IdleHandler
    <3> QED
      BY <2>3, <3>1, <3>2 DEF LookUpInbox, InsertInbox, Decide, AcceptFails, ConnectionLost,
         Parked, IdleHandler, HandlerStates, TypeOK
  <2> QED  BY <1>2, <2>1, <2>2, <2>3 DEF Worker
<1>3. CASE UNCHANGED handler
  BY <1>3
<1>4. UNCHANGED handler \/ \E g \in Handlers : Worker(g)
  BY DEF Next, Environment, Publisher, Executor, Create, Cancel, RevokeAuthority, JobExpires,
     BecomesDue, ClaimLapses, ClaimOutboxBatch, Publish, Settle, AbandonBatch, Heartbeat,
     FinalizeSuccess, ExecutorDies, delivering, vars
<1> QED  BY <1>1, <1>2, <1>3, <1>4

\* A job only leaves the queue for `running', `failed' or `cancelled', and leaves
\* `running' only for `succeeded': claims, heartbeats and completions are fenced.
LEMMA JobStep ==
    ASSUME TypeOK, JobInv, [Next]_vars
    PROVE  JobInv'
<1> USE DEF JobInv
<1>1. ASSUME NEW j \in Jobs, Create(j) PROVE JobInv'
  BY <1>1 DEF Create, TypeOK, JobRows, JobShape
<1>2. ASSUME NEW j \in Jobs, Cancel(j) PROVE JobInv'
  <2>1. JobShape([job[j] EXCEPT !.status = "cancelled", !.version = @ + 1])
    BY <1>2, ShapeIsKept DEF Cancel, TypeOK
  <2> QED  BY <1>2, <2>1 DEF Cancel, TypeOK
<1>3. ASSUME NEW j \in Jobs, Executor(j) PROVE JobInv'
  <2>1. job[j] \in JobRows /\ JobShape(job[j])  BY DEF TypeOK
  <2>2. CASE Heartbeat(j)
    <3>1. JobShape([job[j] EXCEPT !.version = @ + 1])
      BY <2>1, ShapeIsKept
    <3> QED  BY <2>2, <3>1 DEF Heartbeat, TypeOK
  <2>3. CASE FinalizeSuccess(j)
    <3>1. JobShape([job[j] EXCEPT !.status = "succeeded", !.lease_fence = 0,
                          !.attempt = IF @ = "claimed" THEN "succeeded" ELSE @,
                          !.version = @ + 1])
      BY <2>1, <2>3, ShapeIsKept DEF FinalizeSuccess
    <3> QED  BY <2>3, <3>1 DEF FinalizeSuccess, TypeOK
  <2>4. CASE ExecutorDies(j)
    BY <2>4 DEF ExecutorDies, rows
  <2> QED  BY <1>3, <2>2, <2>3, <2>4 DEF Executor
<1>4. ASSUME NEW h \in Handlers, Decide(h) PROVE JobInv'
  <2> DEFINE c == handler[h].copy
             row == job[c.job]
  <2>1. c.job \in Jobs
    <3>1. handler[h] \in HandlerStates /\ handler[h].pc # "idle"
      BY <1>4 DEF Decide, TypeOK
    <3> QED  BY <3>1, HandlerMoves DEF Copies
  <2>2. JobShape(row) /\ row \in JobRows
    BY <2>1 DEF TypeOK
  <2>3. row.status \in Claimable =>
          JobShape(Started(row)) /\ JobShape(Failed(row))
    BY <2>2, ShapeIsKept
  <2> QED  BY <1>4, <2>1, <2>3 DEF Decide, TypeOK
<1>5. CASE UNCHANGED job
  BY <1>5
<1> QED  BY <1>1, <1>2, <1>3, <1>4, <1>5, JobIsLeftAlone

\* Only the first claim of a row draws its message_id; no later step changes it,
\* and only submission brings a row into existence.
LEMMA EnvelopeIsStable ==
    ASSUME TypeOK, [Next]_vars
    PROVE  \A k \in Jobs :
             /\ outbox[k].message_id # 0 => outbox'[k].message_id = outbox[k].message_id
             /\ outbox'[k].status = "absent" => outbox'[k] = outbox[k]
             /\ outbox[k].status = "absent" => outbox'[k] = outbox[k] \/ Create(k)
<1> SUFFICES ASSUME NEW k \in Jobs
             PROVE  /\ outbox[k].message_id # 0 => outbox'[k].message_id = outbox[k].message_id
                    /\ outbox'[k].status = "absent" => outbox'[k] = outbox[k]
                    /\ outbox[k].status = "absent" => outbox'[k] = outbox[k] \/ Create(k)
  OBVIOUS
<1>0. outbox[k] \in OutboxRows  BY DEF TypeOK
<1>1. CASE \E j \in Jobs : Create(j) \/ BecomesDue(j) \/ ClaimLapses(j)
  <2>1. PICK j \in Jobs : Create(j) \/ BecomesDue(j) \/ ClaimLapses(j)
    BY <1>1
  <2>2. CASE k # j
    BY <2>1, <2>2 DEF Create, BecomesDue, ClaimLapses, TypeOK
  <2>3. CASE k = j
    <3>1. Create(j) => outbox'[j].message_id = outbox[j].message_id /\ outbox'[j].status = "pending"
      BY <1>0, <2>3 DEF Create, TypeOK, OutboxRows
    <3>2. BecomesDue(j) \/ ClaimLapses(j) =>
            /\ outbox'[j].message_id = outbox[j].message_id
            /\ outbox'[j].status = outbox[j].status /\ outbox[j].status # "absent"
      BY <1>0, <2>3 DEF BecomesDue, ClaimLapses, TypeOK, OutboxRows
    <3> QED  BY <2>1, <2>3, <3>1, <3>2
  <2> QED  BY <2>2, <2>3
<1>2. CASE \E p \in Publishers : ClaimOutboxBatch(p)
  <2>1. /\ outbox[k].message_id # 0 => ClaimedRow(k).message_id = outbox[k].message_id
        /\ ClaimedRow(k).status = "publishing"
    BY <1>0 DEF ClaimedRow, OutboxRows
  <2>2. k \in Selected => outbox[k].status # "absent"
    BY DEF Selected, Due
  <2> QED  BY <1>2, <2>1, <2>2 DEF ClaimOutboxBatch
<1>3. CASE \E p \in Publishers : Settle(p)
  <2>0. PICK p \in Publishers : Settle(p)
    BY <1>3
  <2>1. PICK c \in batch[p] :
            outbox' = IF ~Holds(c) THEN outbox
                     ELSE [outbox EXCEPT ![c.job] = IF receipt[p] = "confirmed"
                                                    THEN MarkPublished(@)
                                                    ELSE ReleaseOrBlock(@, c)]
    BY <2>0 DEF Settle
  <2>2. /\ MarkPublished(outbox[k]).message_id = outbox[k].message_id
        /\ MarkPublished(outbox[k]).status = "published"
        /\ ReleaseOrBlock(outbox[k], c).message_id = outbox[k].message_id
        /\ ReleaseOrBlock(outbox[k], c).status \in {"pending", "blocked"}
    BY <1>0 DEF MarkPublished, ReleaseOrBlock, OutboxRows
  <2> QED  BY <1>0, <2>1, <2>2 DEF Holds, TypeOK
<1>4. CASE UNCHANGED outbox
  BY <1>4
<1>5. \/ UNCHANGED outbox
      \/ \E j \in Jobs : Create(j) \/ BecomesDue(j) \/ ClaimLapses(j)
      \/ \E p \in Publishers : ClaimOutboxBatch(p)
      \/ \E p \in Publishers : Settle(p)
  BY DEF Next, Environment, Publisher, Worker, Executor, Cancel, RevokeAuthority, JobExpires,
     Publish, AbandonBatch, Receive, RejectDelivery, LookUpInbox, InsertInbox, Decide,
     Acknowledge, AcceptFails, HandlerDies, ConnectionLost, Heartbeat, FinalizeSuccess,
     ExecutorDies, rows, publishing, delivering, vars
<1> QED  BY <1>1, <1>2, <1>3, <1>4, <1>5

\* Whatever carries an envelope's identifier keeps carrying the right one.
LEMMA GenuineStays ==
    ASSUME TypeOK, [Next]_vars, NEW x, x.job \in Jobs, Genuine(x)
    PROVE  Genuine(x)'
<1> QED  BY EnvelopeIsStable DEF Genuine

\* The three outcomes of a decision, read off the job's status and the new inbox row.
LEMMA DecisionOutcomes ==
    ASSUME TypeOK, NEW h \in Handlers, Decide(h), NEW k, k = handler[h].copy.job
    PROVE  /\ k \in Jobs
           /\ \A j \in Jobs : j # k => job'[j] = job[j]
           /\ \E r \in InboxRows :
                /\ r.job = k /\ r.message_id = handler[h].copy.message_id
                /\ inbox' = inbox \cup {r}
                /\ \/ /\ job[k].status \in Claimable /\ job'[k].status = "running"
                      /\ r.status = "processing" /\ r.fence # 0
                   \/ /\ job[k].status \in Claimable /\ job'[k].status = "failed"
                      /\ r.status = "completed" /\ r.fence = 0
                   \/ /\ ~(job[k].status \in Claimable /\ job[k].lease_fence = 0)
                      /\ job'[k] = job[k]
                      /\ r.status = "completed" /\ r.fence = 0
<1>1. handler[h].copy \in Copies
  <2>1. handler[h] \in HandlerStates /\ handler[h].pc # "idle"
    BY DEF Decide, TypeOK
  <2> QED  BY <2>1, HandlerMoves
<1>2. k \in Jobs /\ handler[h].copy.message_id \in Nat  BY <1>1 DEF Copies
<1>3. job[k] \in JobRows  BY <1>2 DEF TypeOK
<1>4. PICK f \in Nat \ {0} : f = job[k].lease_fence + 1  BY <1>3 DEF JobRows
<1> DEFINE record(s, n) == [job |-> k, message_id |-> handler[h].copy.message_id,
                            status |-> s, fence |-> n]
<1>5. Started(job[k]).status = "running" /\ Failed(job[k]).status = "failed"
  BY <1>3 DEF JobRows, Started, Failed
<1>6. \/ /\ job[k].status \in Claimable
         /\ job' = [job EXCEPT ![k] = Started(job[k])]
         /\ inbox' = inbox \cup {record("processing", f)}
      \/ /\ job[k].status \in Claimable
         /\ job' = [job EXCEPT ![k] = Failed(job[k])]
         /\ inbox' = inbox \cup {record("completed", 0)}
      \/ /\ ~(job[k].status \in Claimable /\ job[k].lease_fence = 0)
         /\ job' = job
         /\ inbox' = inbox \cup {record("completed", 0)}
  BY <1>4, Zenon DEF Decide
<1>7. record("processing", f) \in InboxRows /\ record("completed", 0) \in InboxRows
  BY <1>2 DEF InboxRows
<1> QED  BY <1>2, <1>5, <1>6, <1>7 DEF TypeOK

\* A job comes into existence with its outbox row and never disappears.
LEMMA SubmissionIsJoint ==
    ASSUME TypeOK, [Next]_vars, NEW k \in Jobs, ~Create(k)
    PROVE  job'[k].status = "absent" <=> job[k].status = "absent"
<1>0. job[k] \in JobRows  BY DEF TypeOK
<1>1. CASE \E j \in Jobs : Create(j) \/ Cancel(j) \/ Executor(j)
  <2>1. PICK j \in Jobs : Create(j) \/ Cancel(j) \/ Executor(j)
    BY <1>1
  <2>2. CASE k # j
    BY <2>1, <2>2 DEF Create, Cancel, Executor, Heartbeat, FinalizeSuccess, ExecutorDies, rows, TypeOK
  <2>3. CASE k = j
    BY <1>0, <2>1, <2>3 DEF Cancel, Executor, Heartbeat, FinalizeSuccess, ExecutorDies, rows, TypeOK,
       JobRows
  <2> QED  BY <2>2, <2>3
<1>2. CASE \E h \in Handlers : Decide(h)
  BY <1>2, DecisionOutcomes
<1>3. CASE UNCHANGED job
  BY <1>3
<1> QED  BY <1>1, <1>2, <1>3, JobIsLeftAlone

\* The identifiers in batches, in the broker, in the inbox and in the handlers'
\* hands are those of the outbox rows.
LEMMA MessageStep ==
    ASSUME TypeOK, MessageInv, [Next]_vars
    PROVE  MessageInv'
<1>1. ASSUME NEW j \in Jobs
      PROVE  /\ job'[j].status = "absent" <=> outbox'[j].status = "absent"
             /\ outbox'[j].status = "absent" => outbox'[j].message_id = 0
  <2>1. CASE Create(j)
    BY <2>1 DEF Create, TypeOK, JobRows, OutboxRows
  <2>2. CASE ~Create(j)
    BY <2>2, SubmissionIsJoint, EnvelopeIsStable DEF MessageInv
  <2> QED  BY <2>1, <2>2
<1>2. ASSUME NEW p \in Publishers, NEW c \in batch'[p] PROVE Genuine(c)'
  <2>1. CASE c \in batch[p]
    <3>1. c.job \in Jobs  BY <2>1 DEF TypeOK, Claims
    <3> QED  BY <2>1, <3>1, GenuineStays DEF MessageInv
  <2>2. CASE c \notin batch[p]
    <3>1. /\ ClaimOutboxBatch(p)
          /\ c \in {ClaimOf(j, ClaimedRow(j)) : j \in Selected}
      BY <1>2, <2>2, BatchGrowsByClaims
    <3>2. PICK j \in Selected : c = ClaimOf(j, ClaimedRow(j))
      BY <3>1
    <3>3. j \in Jobs /\ outbox'[j] = ClaimedRow(j)
      BY <3>1 DEF ClaimOutboxBatch, Selected
    <3>4. outbox[j].message_id # 0 \/ outbox[j].version + 1 # 0
      BY <3>3 DEF TypeOK, OutboxRows
    <3>5. ClaimedRow(j).message_id # 0
      BY <3>3, <3>4 DEF ClaimedRow, TypeOK, OutboxRows
    <3> QED  BY <3>2, <3>3, <3>5 DEF Genuine, ClaimOf
  <2> QED  BY <2>1, <2>2
<1>3. ASSUME NEW c \in ready' \cup dead' PROVE Genuine(c)'
  <2>1. \/ c \in ready \cup dead
        \/ \E p \in Publishers : \E d \in batch[p] : c.job = d.job /\ c.message_id = d.message_id
        \/ \E h \in Handlers : handler[h].pc # "idle" /\ c = handler[h].copy
    BY <1>3, CopiesComeFromClaims
  <2>2. c.job \in Jobs
    BY <1>3, TypeStep DEF TypeOK, Copies
  <2>3. Genuine(c)
    BY <2>1 DEF MessageInv, Genuine
  <2> QED  BY <2>2, <2>3, GenuineStays
<1>4. ASSUME NEW r \in inbox' PROVE Genuine(r)'
  <2>1. \/ r \in inbox
        \/ \E h \in Handlers : /\ handler[h].pc = "inserted"
                               /\ r.job = handler[h].copy.job
                               /\ r.message_id = handler[h].copy.message_id
    BY <1>4, InboxGrowsByDecisions
  <2>2. r.job \in Jobs
    BY <1>4, TypeStep DEF TypeOK, InboxRows
  <2>3. Genuine(r)
    BY <2>1 DEF MessageInv, Genuine
  <2> QED  BY <2>2, <2>3, GenuineStays
<1>5. ASSUME NEW h \in Handlers, handler'[h].pc # "idle" PROVE Genuine(handler[h].copy)'
  <2>1. \/ handler[h].pc # "idle" /\ handler'[h].copy = handler[h].copy
        \/ handler'[h].copy \in ready
    BY <1>5, HandlersTakeCopies
  <2>2. handler'[h].copy.job \in Jobs
    <3>1. handler'[h] \in HandlerStates  BY TypeStep DEF TypeOK
    <3> QED  BY <1>5, <3>1, HandlerMoves DEF Copies
  <2>3. Genuine(handler'[h].copy)
    BY <2>1 DEF MessageInv
  <2>4. PICK x : x = handler'[h].copy
    OBVIOUS
  <2>5. Genuine(x)'
    BY <2>2, <2>3, <2>4, GenuineStays
  <2> QED  BY <2>4, <2>5 DEF Genuine
<1> QED  BY <1>1, <1>2, <1>3, <1>4, <1>5 DEF MessageInv

\* How a handler gets to hold an inbox insert, and how it gets to its commit.
LEMMA HandlerProgress ==
    ASSUME TypeOK, [Next]_vars, NEW h \in Handlers
    PROVE  /\ handler'[h].pc = "inserted" =>
                /\ handler'[h].copy = handler[h].copy
                /\ \/ handler[h].pc = "inserted" /\ ~Decide(h)
                   \/ InsertInbox(h) /\ ~Recorded(handler[h].copy)
           /\ handler'[h].pc = "committed" =>
                /\ handler'[h].copy = handler[h].copy
                /\ \/ handler[h].pc = "committed"
                   \/ Recorded(handler[h].copy)
                   \/ Decide(h)
<1>1. handler[h] \in HandlerStates  BY DEF TypeOK
<1>2. ASSUME NEW g \in Handlers, Worker(g), g # h
      PROVE  handler'[h] = handler[h] /\ ~Decide(h)
  <2>1. handler'[h] = handler[h]
    BY <1>2 DEF Worker, Receive, RejectDelivery, LookUpInbox, InsertInbox, Decide, Acknowledge,
       AcceptFails, HandlerDies, ConnectionLost, TypeOK
  <2>2. Decide(h) => handler[h].pc = "inserted" /\ handler'[h].pc = "committed"
    BY <1>1 DEF Decide, TypeOK, HandlerStates, IdleHandler
  <2> QED  BY <2>1, <2>2
<1>3. CASE Worker(h)
  <2>1. CASE Receive(h)
    BY <2>1 DEF Receive, IdleHandler, TypeOK
  <2>2. CASE RejectDelivery(h) \/ Acknowledge(h) \/ HandlerDies(h)
    BY <2>2 DEF RejectDelivery, Acknowledge, HandlerDies, IdleHandler, TypeOK
  <2>3. CASE LookUpInbox(h)
    BY <1>1, <2>3 DEF LookUpInbox, HandlerStates, IdleHandler, TypeOK
  <2>4. CASE InsertInbox(h) \/ AcceptFails(h)
    BY <1>1, <2>4 DEF InsertInbox, AcceptFails, Parked, HandlerStates, IdleHandler, TypeOK
  <2>5. CASE Decide(h)
    BY <1>1, <2>5 DEF Decide, HandlerStates, IdleHandler, TypeOK
  <2>6. CASE ConnectionLost(h)
    <3>1. Decide(h) => handler[h].pc = "inserted" /\ handler'[h].pc = "committed"
      BY <1>1 DEF Decide, TypeOK, HandlerStates, IdleHandler
    <3> QED  BY <1>1, <2>6, <3>1 DEF ConnectionLost, HandlerStates, IdleHandler, TypeOK
  <2> QED  BY <1>3, <2>1, <2>2, <2>3, <2>4, <2>5, <2>6 DEF Worker
<1>4. CASE UNCHANGED handler
  BY <1>1, <1>4 DEF Decide, TypeOK, HandlerStates, IdleHandler
<1>5. UNCHANGED handler \/ \E g \in Handlers : Worker(g)
  BY DEF Next, Environment, Publisher, Executor, Create, Cancel, RevokeAuthority, JobExpires,
     BecomesDue, ClaimLapses, ClaimOutboxBatch, Publish, Settle, AbandonBatch, Heartbeat,
     FinalizeSuccess, ExecutorDies, delivering, vars
<1> QED  BY <1>2, <1>3, <1>4, <1>5

\* Every way a job's status can move.
LEMMA StatusMoves ==
    ASSUME TypeOK, [Next]_vars, NEW k \in Jobs
    PROVE  \/ job'[k].status = job[k].status
           \/ job[k].status = "absent" /\ job'[k].status = "queued"
           \/ job[k].status \in Claimable /\ job'[k].status = "cancelled"
           \/ job[k].status = "running" /\ job'[k].status = "succeeded"
           \/ \E h \in Handlers : /\ Decide(h) /\ handler[h].copy.job = k
                                  /\ job[k].status \in Claimable
                                  /\ job'[k].status \in {"running", "failed"}
<1>0. job[k] \in JobRows  BY DEF TypeOK
<1>1. CASE \E j \in Jobs : Create(j) \/ Cancel(j) \/ Executor(j)
  <2>1. PICK j \in Jobs : Create(j) \/ Cancel(j) \/ Executor(j)
    BY <1>1
  <2>2. CASE k # j
    BY <2>1, <2>2 DEF Create, Cancel, Executor, Heartbeat, FinalizeSuccess, ExecutorDies, rows, TypeOK
  <2>3. CASE k = j
    BY <1>0, <2>1, <2>3 DEF Create, Cancel, Executor, Heartbeat, FinalizeSuccess, ExecutorDies,
       rows, TypeOK, JobRows
  <2> QED  BY <2>2, <2>3
<1>2. CASE \E h \in Handlers : Decide(h)
  BY <1>2, DecisionOutcomes
<1>3. CASE UNCHANGED job
  BY <1>3
<1> QED  BY <1>1, <1>2, <1>3, JobIsLeftAlone

\* The inbox de-duplicates: no second row, no second decision.
LEMMA InboxStep ==
    ASSUME DeliveryInv, [Next]_vars
    PROVE  InboxInv'
<1> USE DEF DeliveryInv
<1>1. inbox \subseteq inbox' /\ \A r \in inbox' : r \in inbox \/ \E h \in Handlers : Decide(h)
  BY InboxIsLeftAlone DEF Decide
<1>2. ASSUME NEW h \in Handlers, Decide(h)
      PROVE  \E r \in InboxRows :
               /\ inbox' = inbox \cup {r}
               /\ r.job = handler[h].copy.job /\ r.message_id = handler[h].copy.message_id
               /\ \A q \in inbox : q.job # r.job
               /\ IF r.status = "processing"
                  THEN r.fence # 0 /\ job'[r.job].status \in {"running", "succeeded"}
                  ELSE r.fence = 0 /\ job'[r.job].status \in {"failed", "cancelled"}
               /\ job'[r.job].status \in {"running", "succeeded"} => r.status = "processing"
  <2> DEFINE k == handler[h].copy.job
  <2>1. k \in Jobs
    BY <1>2, DecisionOutcomes
  <2>2. handler[h].pc = "inserted"
    BY <1>2 DEF Decide
  <2>3. RowsOf(k) = {}
    BY <2>2 DEF InboxInv
  <2>4. job[k].status \notin {"absent", "running", "succeeded"}
    BY <2>1, <2>2, <2>3 DEF InboxInv, MessageInv, Genuine
  <2>5. ~(job[k].status \in Claimable /\ job[k].lease_fence = 0)
          => job[k].status \in {"failed", "cancelled"}
    BY <2>1, <2>4 DEF JobInv, JobShape
  <2> HIDE DEF k
  <2>6. PICK r \in InboxRows :
            /\ r.job = k /\ r.message_id = handler[h].copy.message_id
            /\ inbox' = inbox \cup {r}
            /\ \/ /\ job[k].status \in Claimable /\ job'[k].status = "running"
                  /\ r.status = "processing" /\ r.fence # 0
               \/ /\ job[k].status \in Claimable /\ job'[k].status = "failed"
                  /\ r.status = "completed" /\ r.fence = 0
               \/ /\ ~(job[k].status \in Claimable /\ job[k].lease_fence = 0)
                  /\ job'[k] = job[k]
                  /\ r.status = "completed" /\ r.fence = 0
    BY <1>2, DecisionOutcomes DEF k
  <2>7. \A q \in inbox : q.job # k
    BY <2>3 DEF RowsOf
  <2>8. r.job = handler[h].copy.job  BY <2>6 DEF k
  <2> QED  BY <2>5, <2>6, <2>7, <2>8
<1>3. ASSUME NEW r1 \in inbox', NEW r2 \in inbox', r1.job = r2.job PROVE r1 = r2
  BY <1>1, <1>2, <1>3 DEF InboxInv
<1>4. ASSUME NEW r \in inbox'
      PROVE  IF r.status = "processing"
             THEN r.fence # 0 /\ job'[r.job].status \in {"running", "succeeded"}
             ELSE r.fence = 0 /\ job'[r.job].status \in {"failed", "cancelled"}
  <2>1. CASE r \notin inbox
    BY <1>1, <1>2, <1>4, <2>1
  <2>2. CASE r \in inbox
    <3>1. r.job \in Jobs  BY <2>2 DEF TypeOK, InboxRows
    <3> QED  BY <2>2, <3>1, StatusMoves DEF InboxInv
  <2> QED  BY <2>1, <2>2
<1>5. ASSUME NEW j \in Jobs, job'[j].status \in {"running", "succeeded"}
      PROVE  \E r \in inbox' : r.job = j
  <2>1. CASE \E h \in Handlers : Decide(h) /\ handler[h].copy.job = j
    BY <1>2, <2>1
  <2>2. CASE ~\E h \in Handlers : Decide(h) /\ handler[h].copy.job = j
    <3>1. job[j].status \in {"running", "succeeded"}
      BY <1>5, <2>2, StatusMoves
    <3> QED  BY <1>1, <3>1 DEF InboxInv, RowsOf
  <2> QED  BY <2>1, <2>2
<1>6. ASSUME NEW h \in Handlers, handler'[h].pc = "inserted", NEW r \in inbox'
      PROVE  r.job # handler'[h].copy.job
  <2>1. CASE InsertInbox(h) /\ ~Recorded(handler[h].copy)
    <3>1. inbox' = inbox /\ handler[h].pc = "looked_up"
      BY <2>1 DEF InsertInbox, rows
    <3>2. Genuine(r) /\ Genuine(handler[h].copy)
      BY <1>6, <3>1 DEF MessageInv
    <3> QED  BY <1>6, <2>1, <3>1, <3>2, HandlerProgress DEF Genuine, Recorded
  <2>2. CASE handler[h].pc = "inserted" /\ ~Decide(h)
    <3>1. CASE r \in inbox
      BY <1>6, <2>2, <3>1, HandlerProgress DEF InboxInv, RowsOf
    <3>2. CASE r \notin inbox
      <4>1. PICK g \in Handlers : Decide(g)
        BY <1>1, <1>6, <3>2
      <4>2. g # h /\ handler[g].pc = "inserted"
        BY <2>2, <4>1 DEF Decide
      <4>3. r.job = handler[g].copy.job
        BY <1>2, <1>6, <3>2, <4>1
      <4> QED  BY <1>6, <2>2, <4>2, <4>3, HandlerProgress DEF InboxInv
    <3> QED  BY <3>1, <3>2
  <2> QED  BY <1>6, <2>1, <2>2, HandlerProgress
<1>7. ASSUME NEW h \in Handlers, NEW g \in Handlers, h # g,
             handler'[h].pc = "inserted", handler'[g].pc = "inserted"
      PROVE  handler'[h].copy.job # handler'[g].copy.job
  <2>1. CASE handler[h].pc = "inserted" /\ handler[g].pc = "inserted"
    BY <1>7, <2>1, HandlerProgress DEF InboxInv
  <2>2. ASSUME NEW a \in Handlers, NEW b \in Handlers, a # b, InsertInbox(a),
               handler'[b].pc = "inserted"
        PROVE  handler[a].copy.job # handler[b].copy.job
    <3>1. handler'[b] = handler[b]
      BY <2>2 DEF InsertInbox, TypeOK
    <3>2. Genuine(handler[a].copy) /\ Genuine(handler[b].copy)
      BY <2>2, <3>1 DEF InsertInbox, MessageInv
    <3> QED  BY <2>2, <3>1, <3>2 DEF InsertInbox, Genuine
  <2> QED  BY <1>7, <2>1, <2>2, HandlerProgress
<1>8. ASSUME NEW h \in Handlers, handler'[h].pc = "committed"
      PROVE  \E r \in inbox' : /\ r.job = handler'[h].copy.job
                              /\ r.message_id = handler'[h].copy.message_id
  <2>1. CASE Decide(h)
    BY <1>2, <1>8, <2>1, HandlerProgress
  <2>2. CASE Recorded(handler[h].copy)
    BY <1>1, <1>8, <2>2, HandlerProgress DEF Recorded
  <2> QED  BY <1>8, <2>1, <2>2, HandlerProgress DEF InboxInv
<1> QED  BY <1>3, <1>4, <1>5, <1>6, <1>7, <1>8 DEF InboxInv, RowsOf, Recorded

\* The inductive invariant holds in every reachable state.
THEOREM DeliveryCorrect == Spec => []DeliveryInv
<1>1. DeliveryInv /\ [Next]_vars => DeliveryInv'
  BY TypeStep, JobStep, MessageStep, InboxStep DEF DeliveryInv
<1> QED  BY InitDelivery, <1>1, PTL DEF Spec

\* However often an envelope is published or delivered, whoever crashes, its job
\* is claimed at most once (accept_delivery, claim_due_job, the inbox's unique key).
THEOREM NoDuplicateExecution == Spec => []ClaimedAtMostOnce
<1>1. DeliveryInv => ClaimedAtMostOnce
  <2> SUFFICES ASSUME DeliveryInv, NEW j \in Jobs
               PROVE  /\ \A r1, r2 \in RowsOf(j) : r1 = r2
                      /\ job[j].attempt_no = (IF \E r \in RowsOf(j) : r.status = "processing"
                                              THEN 1 ELSE 0)
                      /\ (job[j].attempt = "succeeded") <=> (job[j].status = "succeeded")
    BY DEF ClaimedAtMostOnce
  <2>1. \A r1, r2 \in RowsOf(j) : r1 = r2
    BY DEF DeliveryInv, InboxInv, RowsOf
  <2>2. (\E r \in RowsOf(j) : r.status = "processing") <=> job[j].status \in {"running", "succeeded"}
    BY DEF DeliveryInv, InboxInv, RowsOf
  <2>3. /\ job[j].attempt_no = IF job[j].status \in {"running", "succeeded"} THEN 1 ELSE 0
        /\ (job[j].attempt = "succeeded") <=> (job[j].status = "succeeded")
    BY DEF DeliveryInv, JobInv, JobShape
  <2> QED  BY <2>1, <2>2, <2>3
<1> QED  BY DeliveryCorrect, <1>1, PTL

\* An inbox row is only ever left for a job that has left the queue: the message of
\* a waiting job is never de-duplicated away.
THEOREM NoMessageSwallowed == Spec => []NoJobSwallowed
<1>1. DeliveryInv => NoJobSwallowed
  BY DEF DeliveryInv, InboxInv, NoJobSwallowed, RowsOf
<1> QED  BY DeliveryCorrect, <1>1, PTL

----------------------------------------------------------------------------
\* Claims and receipts

\* A version is drawn by one claim: the claims held in memory are not newer than
\* their rows, a batch has one claim per row, and no two publishers hold a claim
\* with the same version of the same row.
ClaimInv ==
    /\ \A p \in Publishers : \A c \in batch[p] : c.version <= outbox[c.job].version
    /\ \A p \in Publishers : \A c, d \in batch[p] : c.job = d.job => c = d
    /\ \A p, q \in Publishers : \A c \in batch[p], d \in batch[q] :
         c.job = d.job /\ c.version = d.version => p = q

\* The versions of an outbox row never go back.
LEMMA VersionsGrow ==
    ASSUME TypeOK, MessageInv, [Next]_vars, NEW k \in Jobs, outbox[k].message_id # 0
    PROVE  outbox[k].version <= outbox'[k].version
<1>0. outbox[k] \in OutboxRows /\ outbox[k].status # "absent"
  BY DEF TypeOK, MessageInv
<1>1. CASE \E j \in Jobs : Create(j) \/ BecomesDue(j) \/ ClaimLapses(j)
  <2>1. ASSUME NEW j \in Jobs, Create(j) PROVE j # k
    BY <1>0, <2>1 DEF Create, MessageInv
  <2>2. ASSUME NEW j \in Jobs, Create(j) \/ BecomesDue(j) \/ ClaimLapses(j)
        PROVE  outbox'[k].version = outbox[k].version
    <3>1. CASE j # k
      BY <2>2, <3>1 DEF Create, BecomesDue, ClaimLapses, TypeOK
    <3>2. CASE j = k
      <4>1. BecomesDue(k) \/ ClaimLapses(k)
        BY <2>1, <2>2, <3>2
      <4>2. /\ [outbox[k] EXCEPT !.due = TRUE].version = outbox[k].version
            /\ [outbox[k] EXCEPT !.lapsed = TRUE].version = outbox[k].version
        BY <1>0 DEF OutboxRows
      <4> QED  BY <4>1, <4>2 DEF BecomesDue, ClaimLapses, TypeOK
    <3> QED  BY <3>1, <3>2
  <2> QED  BY <1>0, <1>1, <2>2 DEF OutboxRows
<1>2. CASE \E p \in Publishers : ClaimOutboxBatch(p)
  <2>1. ClaimedRow(k).version = outbox[k].version + 1
    BY <1>0 DEF ClaimedRow, OutboxRows
  <2>2. outbox'[k] = ClaimedRow(k) \/ outbox'[k] = outbox[k]
    BY <1>2 DEF ClaimOutboxBatch
  <2> QED  BY <1>0, <2>1, <2>2 DEF OutboxRows
<1>3. CASE \E p \in Publishers : Settle(p)
  <2>1. PICK c : \/ outbox' = outbox
                 \/ outbox' = [outbox EXCEPT ![c.job] = MarkPublished(@)]
                 \/ outbox' = [outbox EXCEPT ![c.job] = ReleaseOrBlock(@, c)]
    BY <1>3 DEF Settle
  <2>2. /\ MarkPublished(outbox[k]).version = outbox[k].version + 1
        /\ ReleaseOrBlock(outbox[k], c).version = outbox[k].version + 1
    BY <1>0 DEF MarkPublished, ReleaseOrBlock, OutboxRows
  <2> QED  BY <1>0, <2>1, <2>2 DEF TypeOK, OutboxRows
<1>4. CASE UNCHANGED outbox
  BY <1>0, <1>4 DEF OutboxRows
<1>5. \/ UNCHANGED outbox
      \/ \E j \in Jobs : Create(j) \/ BecomesDue(j) \/ ClaimLapses(j)
      \/ \E p \in Publishers : ClaimOutboxBatch(p)
      \/ \E p \in Publishers : Settle(p)
  BY DEF Next, Environment, Publisher, Worker, Executor, Cancel, RevokeAuthority, JobExpires,
     Publish, AbandonBatch, Receive, RejectDelivery, LookUpInbox, InsertInbox, Decide,
     Acknowledge, AcceptFails, HandlerDies, ConnectionLost, Heartbeat, FinalizeSuccess,
     ExecutorDies, rows, publishing, delivering, vars
<1> QED  BY <1>1, <1>2, <1>3, <1>4, <1>5

\* A new claim draws the version after the row's, so it is newer than every claim
\* of the row that is already in somebody's hands.
LEMMA ClaimStep ==
    ASSUME DeliveryInv, ClaimInv, [Next]_vars
    PROVE  ClaimInv'
<1> USE DEF DeliveryInv
<1>1. ASSUME NEW p \in Publishers, NEW c \in batch[p]
      PROVE  /\ c \in Claims /\ c.job \in Jobs /\ outbox[c.job] \in OutboxRows
             /\ c.version <= outbox[c.job].version
             /\ outbox'[c.job] \in OutboxRows
             /\ outbox[c.job].version <= outbox'[c.job].version
  <2>1. c \in Claims /\ c.job \in Jobs  BY <1>1 DEF TypeOK, Claims
  <2>2. outbox[c.job].message_id # 0  BY <1>1 DEF MessageInv, Genuine
  <2>3. outbox'[c.job] \in OutboxRows  BY <2>1, TypeStep DEF TypeOK
  <2> QED  BY <1>1, <2>1, <2>2, <2>3, VersionsGrow DEF ClaimInv, TypeOK
<1>2. ASSUME NEW p \in Publishers, NEW c \in batch'[p], c \notin batch[p]
      PROVE  /\ ClaimOutboxBatch(p)
             /\ \E j \in Jobs : /\ j \in Selected /\ c = ClaimOf(j, ClaimedRow(j)) /\ c.job = j
                                /\ c.version = outbox[j].version + 1
                                /\ outbox'[j].version = outbox[j].version + 1
  <2>1. ClaimOutboxBatch(p) /\ c \in {ClaimOf(j, ClaimedRow(j)) : j \in Selected}
    BY <1>2, BatchGrowsByClaims
  <2>2. PICK j \in Selected : c = ClaimOf(j, ClaimedRow(j))
    BY <2>1
  <2>3. j \in Jobs  BY DEF Selected
  <2>4. outbox'[j] = ClaimedRow(j)
    BY <2>1, <2>3 DEF ClaimOutboxBatch
  <2>5. ClaimedRow(j).version = outbox[j].version + 1
    BY <2>3 DEF ClaimedRow, TypeOK, OutboxRows
  <2> QED  BY <2>1, <2>2, <2>3, <2>4, <2>5 DEF ClaimOf
<1>3. ASSUME NEW p \in Publishers, ClaimOutboxBatch(p)
      PROVE  /\ \A q \in Publishers : q # p => batch'[q] = batch[q]
             /\ batch[p] = {}
  BY <1>3 DEF ClaimOutboxBatch, TypeOK
<1>4. ASSUME NEW p \in Publishers, NEW c \in batch'[p]
      PROVE  c.version <= outbox'[c.job].version
  <2>1. CASE c \in batch[p]
    BY <1>1, <2>1 DEF OutboxRows, Claims
  <2>2. CASE c \notin batch[p]
    <3>1. PICK j \in Jobs : /\ c.job = j /\ c.version = outbox[j].version + 1
                            /\ outbox'[j].version = outbox[j].version + 1
      BY <1>2, <1>4, <2>2
    <3>2. outbox[j].version \in Nat  BY DEF TypeOK, OutboxRows
    <3> QED  BY <3>1, <3>2
  <2> QED  BY <2>1, <2>2
<1>5. ASSUME NEW p \in Publishers, NEW c \in batch'[p], NEW d \in batch'[p], c.job = d.job
      PROVE  c = d
  <2>1. CASE c \in batch[p] /\ d \in batch[p]
    BY <1>5, <2>1 DEF ClaimInv
  <2>2. CASE c \notin batch[p] \/ d \notin batch[p]
    <3>1. batch[p] = {}
      BY <1>2, <1>3, <1>5, <2>2
    <3>2. /\ c = ClaimOf(c.job, ClaimedRow(c.job))
          /\ d = ClaimOf(d.job, ClaimedRow(d.job))
      BY <1>2, <1>5, <3>1
    <3> QED  BY <1>5, <3>2
  <2> QED  BY <2>1, <2>2
<1>6. ASSUME NEW p \in Publishers, NEW q \in Publishers, NEW c \in batch'[p],
             NEW d \in batch'[q], c.job = d.job, c.version = d.version
      PROVE  p = q
  <2>1. ASSUME NEW a \in Publishers, NEW b \in Publishers, NEW x \in batch'[a],
               NEW y \in batch'[b], x.job = y.job, x.version = y.version,
               x \notin batch[a]
        PROVE  a = b
    <3>1. PICK j \in Jobs : x.job = j /\ x.version = outbox[j].version + 1
      BY <1>2, <2>1
    <3>2. ClaimOutboxBatch(a)
      BY <1>2, <2>1
    <3>3. SUFFICES ASSUME a # b PROVE FALSE
      OBVIOUS
    <3>4. y \in batch[b]
      BY <1>3, <2>1, <3>2, <3>3
    <3>5. y.version <= outbox[j].version /\ y.version \in Nat /\ outbox[j].version \in Nat
      BY <1>1, <2>1, <3>1, <3>4 DEF Claims, OutboxRows
    <3> QED  BY <2>1, <3>1, <3>5
  <2>2. CASE c \in batch[p] /\ d \in batch[q]
    BY <1>6, <2>2 DEF ClaimInv
  <2> QED  BY <1>6, <2>1, <2>2
<1> QED  BY <1>4, <1>5, <1>6 DEF ClaimInv

\* Where a message can be: in a queue, with a handler, or recorded.
Somewhere(j, m) ==
    \/ \E c \in ready \cup dead : c.job = j /\ c.message_id = m
    \/ \E h \in Handlers : /\ handler[h].held
                           /\ handler[h].copy.job = j /\ handler[h].copy.message_id = m
    \/ \E r \in inbox : r.job = j /\ r.message_id = m

\* No step makes a message vanish: a delivery leaves its handler for the inbox, for
\* the dead letter queue, or back to the queue.
LEMMA MessageStays ==
    ASSUME DeliveryInv, [Next]_vars, NEW j \in Jobs, NEW m, Somewhere(j, m)
    PROVE  Somewhere(j, m)'
<1> USE DEF DeliveryInv
<1>0. /\ inbox \subseteq inbox'
      /\ \A h \in Handlers : handler[h].held => handler[h].pc # "idle"
  <2>1. inbox \subseteq inbox'  BY InboxIsLeftAlone DEF Decide
  <2>2. \A h \in Handlers : handler[h].held => handler[h].pc # "idle"
    BY DEF TypeOK, HandlerStates, IdleHandler
  <2> QED  BY <2>1, <2>2
<1>1. CASE UNCHANGED <<handler, ready, dead>>
  BY <1>0, <1>1 DEF Somewhere
<1>2. CASE \E p \in Publishers : Publish(p)
  BY <1>0, <1>2 DEF Publish, Somewhere
<1>3. ASSUME NEW h \in Handlers, Worker(h) PROVE Somewhere(j, m)'
  <2>0. handler[h] \in HandlerStates  BY DEF TypeOK
  <2>1. CASE Receive(h)
    <3>1. PICK c \in ready :
            /\ ready' = ready \ {c}
            /\ handler' = [handler EXCEPT ![h] =
                 [IdleHandler EXCEPT !.pc = "received", !.copy = c, !.held = TRUE,
                                     !.late = expired[c.job]]]
      BY <2>1 DEF Receive
    <3>2. handler'[h].held /\ handler'[h].copy = c
      BY <3>1 DEF TypeOK, IdleHandler
    <3>3. ~handler[h].held
      BY <1>0, <2>1 DEF Receive
    <3>4. \A g \in Handlers : g # h => handler'[g] = handler[g]
      BY <3>1 DEF TypeOK
    <3>5. dead' = dead  BY <2>1 DEF Receive
    <3> QED  BY <1>0, <3>1, <3>2, <3>3, <3>4, <3>5 DEF Somewhere
  <2>2. CASE RejectDelivery(h) \/ HandlerDies(h)
    <3>1. \A g \in Handlers : g # h => handler'[g] = handler[g]
      BY <2>2 DEF RejectDelivery, HandlerDies, TypeOK
    <3>2. /\ ready \cup dead \subseteq ready' \cup dead'
          /\ handler[h].held => handler[h].copy \in ready' \cup dead'
      BY <2>2 DEF RejectDelivery, HandlerDies, Returned
    <3> QED  BY <1>0, <3>1, <3>2 DEF Somewhere
  <2>3. CASE Acknowledge(h)
    <3>1. /\ \A g \in Handlers : g # h => handler'[g] = handler[g]
          /\ UNCHANGED <<ready, dead>>
      BY <2>3 DEF Acknowledge, TypeOK
    <3>2. Recorded(handler[h].copy)
      BY <2>3 DEF Acknowledge, InboxInv
    <3> QED  BY <1>0, <3>1, <3>2 DEF Somewhere, Recorded
  <2>4. CASE LookUpInbox(h) \/ InsertInbox(h) \/ Decide(h) \/ AcceptFails(h)
    <3>1. /\ \A g \in Handlers : g # h => handler'[g] = handler[g]
          /\ UNCHANGED <<ready, dead>>
      BY <2>4 DEF LookUpInbox, InsertInbox, Decide, AcceptFails, TypeOK
    <3>2. handler[h].held => handler'[h].held /\ handler'[h].copy = handler[h].copy
      BY <2>0, <2>4 DEF LookUpInbox, InsertInbox, Decide, AcceptFails, Parked, HandlerStates,
         IdleHandler, TypeOK
    <3> QED  BY <1>0, <3>1, <3>2 DEF Somewhere
  <2>5. CASE ConnectionLost(h)
    <3>1. /\ \A g \in Handlers : g # h => handler'[g] = handler[g]
          /\ ready \subseteq ready' /\ dead' = dead
          /\ handler[h].copy \in ready'
      BY <2>5 DEF ConnectionLost, Returned, TypeOK
    <3> QED  BY <1>0, <3>1 DEF Somewhere
  <2> QED  BY <1>3, <2>1, <2>2, <2>3, <2>4, <2>5 DEF Worker
<1>4. \/ UNCHANGED <<handler, ready, dead>>
      \/ \E p \in Publishers : Publish(p)
      \/ \E h \in Handlers : Worker(h)
  BY DEF Next, Environment, Publisher, Executor, Create, Cancel, RevokeAuthority, JobExpires,
     BecomesDue, ClaimLapses, ClaimOutboxBatch, Settle, AbandonBatch, Heartbeat,
     FinalizeSuccess, ExecutorDies, delivering, vars
<1> QED  BY <1>1, <1>2, <1>3, <1>4

\* So a job whose envelope has reached the broker stays reached.
LEMMA ReachedStays ==
    ASSUME DeliveryInv, [Next]_vars, NEW j \in Jobs, Reached(j)
    PROVE  Reached(j)'
<1> USE DEF DeliveryInv
<1>1. PICK m : m = outbox[j].message_id
  OBVIOUS
<1>2. \A h \in Handlers : handler[h].held => handler[h].pc # "idle"
  BY DEF TypeOK, HandlerStates, IdleHandler
<1>3. Somewhere(j, m) /\ m # 0
  BY <1>1, <1>2 DEF Reached, Somewhere, MessageInv, Genuine
<1>4. outbox'[j].message_id = m
  BY <1>1, <1>3, EnvelopeIsStable
<1>5. Somewhere(j, m)'
  BY <1>3, MessageStays
<1> QED  BY <1>4, <1>5 DEF Reached, Somewhere

\* A publisher with a confirmed receipt in hand knows that the message it is working
\* on is in the queue or beyond, whoever took the row over since.
ReceiptInv ==
    \A p \in Publishers : \A c \in batch[p] :
        receipt[p] = "confirmed" /\ IsCurrent(p, c) => Reached(c.job)
PublishedInv == DeliveryInv /\ ClaimInv /\ ReceiptInv /\ PublishedIsNeverLost

\* A receipt is confirmed by the publish of the current claim, and forgotten when
\* the batch changes.
LEMMA ReceiptStep ==
    ASSUME DeliveryInv, ReceiptInv, [Next]_vars
    PROVE  ReceiptInv'
<1> USE DEF DeliveryInv
<1> SUFFICES ASSUME NEW p \in Publishers, NEW c \in batch'[p], receipt'[p] = "confirmed",
                    IsCurrent(p, c)'
             PROVE  Reached(c.job)'
  BY DEF ReceiptInv
<1>0. c.job \in Jobs
  BY TypeStep DEF TypeOK, Claims
<1>1. ASSUME NEW q \in Publishers, q # p, Publisher(q)
      PROVE  batch'[p] = batch[p] /\ receipt'[p] = receipt[p]
  BY <1>1 DEF Publisher, ClaimOutboxBatch, Publish, Settle, AbandonBatch, TypeOK
<1>2. CASE Publish(p)
  <2>1. PICK d \in batch[p], routed, confirmed \in BOOLEAN :
          /\ IsCurrent(p, d)
          /\ confirmed => routed
          /\ ready' = IF routed
                      THEN ready \cup {[job |-> d.job, message_id |-> d.message_id,
                                        token |-> d.token]}
                      ELSE ready
          /\ receipt' = [receipt EXCEPT ![p] = IF confirmed THEN "confirmed"
                                                            ELSE "unconfirmed"]
          /\ UNCHANGED <<outbox, batch>>
    BY <1>2 DEF Publish
  <2>2. confirmed  BY <2>1 DEF TypeOK
  <2>3. [job |-> d.job, message_id |-> d.message_id, token |-> d.token] \in ready'
    BY <2>1, <2>2
  <2>4. d.job <= c.job /\ c.job <= d.job /\ d.job \in Jobs
    BY <2>1 DEF IsCurrent, TypeOK, Claims
  <2>5. d.job = c.job
    <3>1. \A a, b \in Jobs : a <= b /\ b <= a => a = b
      BY JobsAssumption
    <3> QED  BY <1>0, <2>4, <3>1
  <2>6. d.message_id = outbox'[d.job].message_id
    BY <2>1 DEF MessageInv, Genuine
  <2> QED  BY <2>3, <2>5, <2>6 DEF Reached
<1>3. CASE ClaimOutboxBatch(p) \/ Settle(p) \/ AbandonBatch(p)
  BY <1>3 DEF ClaimOutboxBatch, Settle, AbandonBatch, TypeOK
<1>4. CASE batch'[p] = batch[p] /\ receipt'[p] = receipt[p]
  <2>1. Reached(c.job)
    BY <1>4 DEF ReceiptInv, IsCurrent
  <2> QED  BY <1>0, <2>1, ReachedStays
<1>5. UNCHANGED <<batch, receipt>> \/ \E q \in Publishers : Publisher(q)
  BY DEF Next, Environment, Worker, Executor, Create, Cancel, RevokeAuthority, JobExpires,
     BecomesDue, ClaimLapses, Receive, RejectDelivery, LookUpInbox, InsertInbox, Decide,
     Acknowledge, AcceptFails, HandlerDies, ConnectionLost, Heartbeat, FinalizeSuccess,
     ExecutorDies, publishing, vars
<1> QED  BY <1>1, <1>2, <1>3, <1>4, <1>5 DEF Publisher

\* A row is marked published only by a settlement with a confirmed receipt.
LEMMA PublishedByConfirm ==
    ASSUME TypeOK, [Next]_vars, NEW j \in Jobs, outbox'[j].status = "published",
           outbox[j].status # "published"
    PROVE  \E p \in Publishers : \E c \in batch[p] :
             c.job = j /\ IsCurrent(p, c) /\ receipt[p] = "confirmed"
<1>0. outbox[j] \in OutboxRows  BY DEF TypeOK
<1>1. CASE \E k \in Jobs : Create(k) \/ BecomesDue(k) \/ ClaimLapses(k)
  <2>1. ASSUME NEW k \in Jobs, Create(k) \/ BecomesDue(k) \/ ClaimLapses(k)
        PROVE  outbox'[j].status \in {outbox[j].status, "pending"}
    <3>1. CASE k # j
      BY <2>1, <3>1 DEF Create, BecomesDue, ClaimLapses, TypeOK
    <3>2. CASE k = j
      <4>1. /\ [outbox[k] EXCEPT !.status = "pending", !.due = TRUE, !.version = 1].status = "pending"
            /\ [outbox[k] EXCEPT !.due = TRUE].status = outbox[k].status
            /\ [outbox[k] EXCEPT !.lapsed = TRUE].status = outbox[k].status
        BY <1>0, <3>2 DEF OutboxRows
      <4> QED  BY <2>1, <3>2, <4>1 DEF Create, BecomesDue, ClaimLapses, TypeOK
    <3> QED  BY <3>1, <3>2
  <2> QED  BY <1>1, <2>1
<1>2. CASE \E p \in Publishers : ClaimOutboxBatch(p)
  <2>1. ClaimedRow(j).status = "publishing"
    BY <1>0 DEF ClaimedRow, OutboxRows
  <2> QED  BY <1>2, <2>1 DEF ClaimOutboxBatch
<1>3. CASE \E p \in Publishers : Settle(p)
  <2>0. PICK p \in Publishers : Settle(p)
    BY <1>3
  <2>1. PICK c \in batch[p] :
          /\ IsCurrent(p, c)
          /\ outbox' = IF ~Holds(c) THEN outbox
                       ELSE [outbox EXCEPT ![c.job] = IF receipt[p] = "confirmed"
                                                      THEN MarkPublished(@)
                                                      ELSE ReleaseOrBlock(@, c)]
    BY <2>0 DEF Settle
  <2>2. ReleaseOrBlock(outbox[j], c).status \in {"pending", "blocked"}
    BY <1>0 DEF ReleaseOrBlock, OutboxRows
  <2> QED  BY <2>1, <2>2 DEF TypeOK
<1>4. CASE UNCHANGED outbox
  BY <1>4
<1>5. \/ UNCHANGED outbox
      \/ \E k \in Jobs : Create(k) \/ BecomesDue(k) \/ ClaimLapses(k)
      \/ \E p \in Publishers : ClaimOutboxBatch(p)
      \/ \E p \in Publishers : Settle(p)
  BY DEF Next, Environment, Publisher, Worker, Executor, Cancel, RevokeAuthority, JobExpires,
     Publish, AbandonBatch, Receive, RejectDelivery, LookUpInbox, InsertInbox, Decide,
     Acknowledge, AcceptFails, HandlerDies, ConnectionLost, Heartbeat, FinalizeSuccess,
     ExecutorDies, rows, publishing, delivering, vars
<1> QED  BY <1>1, <1>2, <1>3, <1>4, <1>5

\* Claims, receipts and published rows together, in every reachable state.
THEOREM ClaimsCorrect == Spec => []PublishedInv
<1>1. Init => PublishedInv
  <2>1. Init => ClaimInv /\ ReceiptInv /\ PublishedIsNeverLost
    BY DEF Init, ClaimInv, ReceiptInv, PublishedIsNeverLost, NoOutbox
  <2> QED  BY <2>1, InitDelivery DEF PublishedInv
<1>2. PublishedInv /\ [Next]_vars => PublishedInv'
  <2> SUFFICES ASSUME PublishedInv, [Next]_vars PROVE PublishedInv'
    OBVIOUS
  <2>0. DeliveryInv /\ ClaimInv /\ ReceiptInv /\ PublishedIsNeverLost  BY DEF PublishedInv
  <2>1. DeliveryInv'
    BY <2>0, TypeStep, JobStep, MessageStep, InboxStep DEF DeliveryInv
  <2>2. ASSUME NEW j \in Jobs, outbox'[j].status = "published" PROVE Reached(j)'
    <3>1. CASE outbox[j].status = "published"
      BY <2>0, <2>2, <3>1, ReachedStays DEF PublishedIsNeverLost
    <3>2. CASE outbox[j].status # "published"
      <4>1. TypeOK  BY <2>0 DEF DeliveryInv
      <4>2. Reached(j)
        BY <2>0, <2>2, <3>2, <4>1, PublishedByConfirm DEF ReceiptInv
      <4> QED  BY <2>0, <4>2, ReachedStays
    <3> QED  BY <3>1, <3>2
  <2>3. PublishedIsNeverLost'
    BY <2>2 DEF PublishedIsNeverLost
  <2> QED  BY <2>0, <2>1, <2>3, ClaimStep, ReceiptStep DEF PublishedInv
<1> QED  BY <1>1, <1>2, PTL DEF Spec

\* At-least-once delivery: what the outbox calls published is never gone, whoever
\* dies and however often a row is taken over (publish_batch, mark_published).
THEOREM NothingPublishedIsLost == Spec => []PublishedIsNeverLost
<1> QED  BY ClaimsCorrect, PTL DEF PublishedInv

\* The claim fence of mark_published and release_or_block: of all publishers that
\* ever claimed a row, at most one can still settle it.
THEOREM OneHolder == Spec => []OneClaimHolder
<1>1. PublishedInv => OneClaimHolder
  BY DEF PublishedInv, ClaimInv, OneClaimHolder, Holds
<1> QED  BY ClaimsCorrect, <1>1, PTL

----------------------------------------------------------------------------
\* The runtime implements the lifecycle: each of its steps is a transition of
\* AIJobLifecycle on at most one job, or a stutter.

\* A transaction changes at most one job row.
LEMMA OneJobPerStep ==
    ASSUME TypeOK, [Next]_vars
    PROVE  UNCHANGED job \/ \E k \in Jobs : \A j \in Jobs : j # k => job'[j] = job[j]
<1>1. ASSUME NEW k \in Jobs, Create(k) \/ Cancel(k) \/ Executor(k)
      PROVE  \A j \in Jobs : j # k => job'[j] = job[j]
  BY <1>1 DEF Create, Cancel, Executor, Heartbeat, FinalizeSuccess, ExecutorDies, rows, TypeOK
<1>2. ASSUME NEW h \in Handlers, Decide(h)
      PROVE  \E k \in Jobs : \A j \in Jobs : j # k => job'[j] = job[j]
  BY <1>2, DecisionOutcomes
<1> QED  BY <1>1, <1>2, JobIsLeftAlone

\* Creation is a submission, a claim starts an attempt, and every other change of a
\* job row is a move of its status or none.
THEOREM RuntimeImplementsLifecycle == Spec => ImplementsLifecycle
<1> DEFINE status == [j \in Jobs |-> job[j].status]
           attempt_no == [j \in Jobs |-> job[j].attempt_no]
<1>1. Init => Lifecycle!Init
  BY DEF Init, NoJob, Lifecycle!Init
<1>2. DeliveryInv /\ DeliveryInv' /\ [Next]_vars => [Lifecycle!Next]_(Lifecycle!vars)
  <2> SUFFICES ASSUME DeliveryInv, DeliveryInv', [Next]_vars
               PROVE  [Lifecycle!Next]_(Lifecycle!vars)
    OBVIOUS
  <2>0. TypeOK /\ JobInv /\ JobInv'  BY DEF DeliveryInv
  <2>1. CASE UNCHANGED job
    BY <2>1 DEF Lifecycle!vars
  <2>2. ASSUME NEW k \in Jobs, \A j \in Jobs : j # k => job'[j] = job[j]
        PROVE  [Lifecycle!Next]_(Lifecycle!vars)
    <3>1. JobShape(job[k]) /\ JobShape(job[k])'
      BY <2>0 DEF JobInv
    <3>2. status' = [status EXCEPT ![k] = job'[k].status]
      BY <2>2
    <3>3. ASSUME job'[k].attempt_no = job[k].attempt_no PROVE UNCHANGED attempt_no
      BY <2>2, <3>3
    <3>4. CASE job[k].status = "absent" /\ job'[k].status = "queued"
      <4>1. UNCHANGED attempt_no
        BY <3>1, <3>3, <3>4 DEF JobShape
      <4>2. status' = [status EXCEPT ![k] = "queued"] /\ status[k] = "absent"
        BY <3>2, <3>4
      <4>3. Lifecycle!Submit(k)
        BY <4>1, <4>2, Zenon DEF Lifecycle!Submit
      <4> QED  BY <4>3 DEF Lifecycle!Next
    <3>5. CASE job[k].status \in Claimable /\ job'[k].status = "running"
      <4>1. job[k].status = "queued" /\ job[k].attempt_no = 0 /\ job'[k].attempt_no = 1
        BY <3>1, <3>5 DEF JobShape
      <4>2. attempt_no' = [attempt_no EXCEPT ![k] = attempt_no[k] + 1]
        <5>1. attempt_no' = [attempt_no EXCEPT ![k] = job'[k].attempt_no]
          BY <2>2
        <5>2. attempt_no[k] + 1 = job'[k].attempt_no
          BY <4>1
        <5> QED  BY <5>1, <5>2, Zenon
      <4>3. status' = [status EXCEPT ![k] = "running"] /\ status[k] = "queued"
        BY <3>2, <3>5, <4>1
      <4>4. attempt_no[k] < MaxAttempts
        BY <4>1, LimitsAssumption
      <4>5. <<status[k], "running">> \in Lifecycle!ALLOWED_TRANSITIONS
        BY <4>3 DEF Lifecycle!ALLOWED_TRANSITIONS
      <4>6. Lifecycle!StartAttempt(k)
        BY <4>2, <4>3, <4>4, <4>5, Zenon DEF Lifecycle!StartAttempt
      <4> QED  BY <4>6 DEF Lifecycle!Next
    <3>6. CASE \/ job[k].status \in Claimable /\ job'[k].status \in {"cancelled", "failed"}
               \/ job[k].status = "running" /\ job'[k].status = "succeeded"
      <4>1. PICK s \in Lifecycle!AIJobStatus : s = job'[k].status
        BY <3>6 DEF Lifecycle!AIJobStatus
      <4>2. UNCHANGED attempt_no
        BY <3>1, <3>3, <3>6 DEF JobShape
      <4>3. status[k] = job[k].status
        OBVIOUS
      <4>4. s # "running" /\ <<status[k], s>> \in Lifecycle!ALLOWED_TRANSITIONS
        BY <3>1, <3>6, <4>1, <4>3 DEF JobShape, Lifecycle!ALLOWED_TRANSITIONS
      <4>5. Lifecycle!Move(k, s)
        BY <3>2, <4>1, <4>2, <4>4, Zenon DEF Lifecycle!Move
      <4> QED  BY <4>5 DEF Lifecycle!Next
    <3>7. CASE job'[k].status = job[k].status
      <4>1. UNCHANGED status /\ UNCHANGED attempt_no
        BY <2>2, <3>1, <3>3, <3>7 DEF JobShape
      <4> QED  BY <4>1 DEF Lifecycle!vars
    <3> QED  BY <2>0, <3>4, <3>5, <3>6, <3>7, StatusMoves
  <2> QED  BY <2>0, <2>1, <2>2, OneJobPerStep
<1> QED  BY <1>1, <1>2, DeliveryCorrect, PTL DEF Spec, ImplementsLifecycle, Lifecycle!Spec
=============================================================================

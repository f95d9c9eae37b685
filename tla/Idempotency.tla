----------------------------- MODULE Idempotency -----------------------------
(***************************************************************************)
(* Idempotent writes: an API unit of work reserves its Idempotency-Key,    *)
(* writes, completes the record and commits, all in one MySQL transaction; *)
(* a retry of a committed request is answered from the record.             *)
(*                                                                         *)
(* An attempt is one HTTP request.  Its transaction holds the row lock of  *)
(* its idempotency record from acquire to commit or rollback, so a         *)
(* concurrent attempt with the same key waits.  No engine of the code sets *)
(* an isolation level: plain SELECTs read the snapshot that the first of   *)
(* them took (REPEATABLE READ, the MySQL default), locking reads and       *)
(* writes see the last commit.  Units of work that read before they        *)
(* reserve (ReadsFirst) take that snapshot before they may wait.           *)
(*                                                                         *)
(* A key stands for (scope, operation, key_hash); the identifier of the    *)
(* entity an attempt writes is named by the attempt.                       *)
(***************************************************************************)
EXTENDS FiniteSets

CONSTANTS
    Keys,           \* rows that idempotency_records may hold
    ReadsFirst,     \* the keys of operations that read before they reserve
    Fingerprints,   \* request fingerprints
    Attempts,       \* HTTP requests, first tries and retries alike
    Free,           \* nobody holds the row lock
    NoResult        \* result_type and result_id are NULL

ASSUME KeysAssumption == ReadsFirst \subseteq Keys
ASSUME NamesAssumption == Free \notin Attempts /\ NoResult \notin Attempts

VARIABLES
    row,        \* committed rows of idempotency_records
    written,    \* committed business writes under a key, by the attempt that made them
    holder,     \* the attempt whose transaction has locked the row
    attempt     \* what each attempt has done so far

vars == <<row, written, holder, attempt>>

NoRow == [status |-> "absent"]
Reserved(f) == [status |-> "reserved", fingerprint |-> f, result |-> NoResult]

Completed(f, r) == [status |-> "completed", fingerprint |-> f, result |-> r]
Rows == [status : {"reserved", "completed", "failed"}, fingerprint : Fingerprints,
         result : Attempts \cup {NoResult}]

NotSent == [pc |-> "not_sent"]
Working == {"begun", "reserved", "written", "completed", "replaying"}
Holding == Working \ {"begun"}
Answers == {"none", "created", "replayed", "conflict", "in_progress", "not_found", "error"}
AttemptStates ==
    {NotSent} \cup
    [pc : Working \cup {"done"}, key : Keys, fingerprint : Fingerprints,
     snapshot : SUBSET Attempts, draft : Rows \cup {NoRow},
     answer : Answers, result : Attempts \cup {NoResult}]

TypeOK ==
    /\ row \in [Keys -> Rows \cup {NoRow}]
    /\ written \in [Keys -> SUBSET Attempts]
    /\ holder \in [Keys -> Attempts \cup {Free}]
    /\ attempt \in [Attempts -> AttemptStates]

Init ==
    /\ row = [k \in Keys |-> NoRow]
    /\ written = [k \in Keys |-> {}]
    /\ holder = [k \in Keys |-> Free]
    /\ attempt = [a \in Attempts |-> NotSent]

Moves(a, pc) == attempt' = [attempt EXCEPT ![a].pc = pc]

\* The transaction of a is over: the client is told answer, with the entity r.
Answered(a, answer, r) ==
    attempt' = [attempt EXCEPT ![a].pc = "done", ![a].answer = answer, ![a].result = r]

Unlocked(k) == holder' = [holder EXCEPT ![k] = Free]

\* Mutant: the session of a former request is used again with the transaction
\* it left open, and reads in the view of that one.
BeginInOldView(a) ==
    /\ attempt[a] = NotSent
    /\ \E k \in Keys, f \in Fingerprints :
       \E view \in {written[k]} \cup {attempt[b].snapshot : b \in {c \in Attempts :
                       attempt[c] # NotSent /\ attempt[c].pc = "done" /\ attempt[c].key = k}} :
         attempt' = [attempt EXCEPT ![a] =
             [pc |-> "begun", key |-> k, fingerprint |-> f,
              snapshot |-> IF k \in ReadsFirst THEN view ELSE {},
              draft |-> NoRow, answer |-> "none", result |-> NoResult]]
    /\ UNCHANGED <<row, written, holder>>

\* A unit of work starts.  The operations of ReadsFirst read now, and their
\* transaction keeps what it sees of the business rows.
Begin(a) ==
    /\ attempt[a] = NotSent
    /\ \E k \in Keys, f \in Fingerprints :
         attempt' = [attempt EXCEPT ![a] =
             [pc |-> "begun", key |-> k, fingerprint |-> f,
              snapshot |-> IF k \in ReadsFirst THEN written[k] ELSE {},
              draft |-> NoRow, answer |-> "none", result |-> NoResult]]
    /\ UNCHANGED <<row, written, holder>>

\* INSERT .. ON DUPLICATE KEY UPDATE and SELECT .. FOR UPDATE both wait for a
\* transaction that holds the row.
Lockable(k) == holder[k] = Free

\* Mutant: the status is tested before the fingerprint is compared.
FingerprintIgnored(stored, f, expired) ==
    CASE stored = NoRow -> "fresh"
      [] stored # NoRow /\ stored.status = "completed" -> "replay"
      [] OTHER -> "conflict"

\* What IdempotencyService.reserve makes of the locked row.
Reservation(stored, f, expired) ==
    CASE stored = NoRow -> "fresh"
      [] stored # NoRow /\ stored.fingerprint # f -> "conflict"
      [] stored # NoRow /\ stored.fingerprint = f /\ stored.status = "completed" -> "replay"
      [] stored # NoRow /\ stored.fingerprint = f /\ stored.status = "failed" -> "restart"
      [] stored # NoRow /\ stored.fingerprint = f /\ stored.status = "reserved" ->
            IF expired THEN "restart" ELSE "in_progress"

ReserveFresh(a) ==
    /\ attempt[a].pc = "begun"
    /\ Lockable(attempt[a].key)
    /\ \E expired \in BOOLEAN :
         Reservation(row[attempt[a].key], attempt[a].fingerprint, expired)
            \in {"fresh", "restart"}
    /\ holder' = [holder EXCEPT ![attempt[a].key] = a]
    /\ attempt' = [attempt EXCEPT ![a].pc = "reserved",
                                  ![a].draft = Reserved(attempt[a].fingerprint)]
    /\ UNCHANGED <<row, written>>

ReserveReplay(a) ==
    /\ attempt[a].pc = "begun"
    /\ Lockable(attempt[a].key)
    /\ \E expired \in BOOLEAN :
         Reservation(row[attempt[a].key], attempt[a].fingerprint, expired) = "replay"
    /\ holder' = [holder EXCEPT ![attempt[a].key] = a]
    /\ Moves(a, "replaying")
    /\ UNCHANGED <<row, written>>

\* IdempotencyConflictError and IdempotencyInProgressError end the unit of
\* work before it has written anything.
ReserveRefused(a) ==
    /\ attempt[a].pc = "begun"
    /\ Lockable(attempt[a].key)
    /\ \E expired \in BOOLEAN :
         LET outcome == Reservation(row[attempt[a].key], attempt[a].fingerprint, expired)
         IN  /\ outcome \in {"conflict", "in_progress"}
             /\ Answered(a, outcome, NoResult)
    /\ UNCHANGED <<row, written, holder>>

\* The operation writes its entity; nothing is visible before the commit.
Write(a) ==
    /\ attempt[a].pc = "reserved"
    /\ Moves(a, "written")
    /\ UNCHANGED <<row, written, holder>>

\* Mutant: an operation that returns without calling complete.
ForgetsComplete(a) ==
    /\ attempt[a].pc = "written"
    /\ Moves(a, "completed")
    /\ UNCHANGED <<row, written, holder>>

Complete(a) ==
    /\ attempt[a].pc = "written"
    /\ attempt[a].draft.status = "reserved"
    /\ attempt[a].draft.fingerprint = attempt[a].fingerprint
    /\ attempt' = [attempt EXCEPT ![a].pc = "completed",
                                  ![a].draft = Completed(attempt[a].fingerprint, a)]
    /\ UNCHANGED <<row, written, holder>>

\* The response of a committed request may be lost; the client sees an error.
Commit(a) ==
    /\ attempt[a].pc = "completed"
    /\ row' = [row EXCEPT ![attempt[a].key] = attempt[a].draft]
    /\ written' = [written EXCEPT ![attempt[a].key] = @ \cup {a}]
    /\ Unlocked(attempt[a].key)
    /\ \/ Answered(a, "created", a)
       \/ Answered(a, "error", NoResult)

\* The business rows a replay can see.
Visible(a) ==
    IF attempt[a].key \in ReadsFirst THEN attempt[a].snapshot ELSE written[attempt[a].key]

\* Mutant: the replay ends without ending its transaction.
ReplayKeepsLock(a) ==
    /\ attempt[a].pc = "replaying"
    /\ Answered(a, "replayed", row[attempt[a].key].result)
    /\ UNCHANGED <<row, written, holder>>

\* A replay reads the entity that the record names with a plain SELECT.
Replay(a) ==
    /\ attempt[a].pc = "replaying"
    /\ LET r == row[attempt[a].key].result
       IN  \/ r \in Visible(a) /\ Answered(a, "replayed", r)
           \/ r \notin Visible(a) /\ Answered(a, "not_found", NoResult)
    /\ Unlocked(attempt[a].key)
    /\ UNCHANGED <<row, written>>

\* A refused operation, a lock timeout, a deadlock victim or a crash: the
\* transaction leaves nothing behind, and no lock.
Rollback(a) ==
    /\ attempt[a].pc \in Working
    /\ holder' = [k \in Keys |-> IF holder[k] = a THEN Free ELSE holder[k]]
    /\ Answered(a, "error", NoResult)
    /\ UNCHANGED <<row, written>>

Proceeds(a) ==
    \/ ReserveFresh(a)
    \/ ReserveReplay(a)
    \/ ReserveRefused(a)
    \/ Write(a)
    \/ Complete(a)
    \/ Commit(a)
    \/ Replay(a)

Next == \E a \in Attempts : Begin(a) \/ Proceeds(a) \/ Rollback(a)

Spec == Init /\ [][Next]_vars

\* A request that was accepted is executed: no step of it is skipped for ever.
FairSpec == Spec /\ \A a \in Attempts : WF_vars(Proceeds(a))

-----------------------------------------------------------------------------
Done(a) == attempt[a].pc = "done"
HasResult(a) == Done(a) /\ attempt[a].answer \in {"created", "replayed"}

\* However often a request is sent, at most one attempt writes under its key
\* (identity design 5.11: one actor and operation never executes twice).
WrittenOnce == \A k \in Keys : \A a, b \in written[k] : a = b

\* The record and the write commit together: no reservation without a write is
\* ever visible (AI job design 12.1, steps 4 and 5) and no write without the
\* record that a retry will find.
RowTellsTheWrite ==
    \A k \in Keys :
        \/ row[k] = NoRow /\ written[k] = {}
        \/ /\ row[k] # NoRow
           /\ row[k].status = "completed"
           /\ written[k] = {row[k].result}

\* Two attempts that were both told of a result under one key sent the same
\* request and were told of the same result.
SameAnswer ==
    \A a, b \in Attempts :
        (HasResult(a) /\ HasResult(b) /\ attempt[a].key = attempt[b].key) =>
            /\ attempt[a].result = attempt[b].result
            /\ attempt[a].fingerprint = attempt[b].fingerprint

\* What is left to b, sent after a was told of a result under the same key: the
\* same result for the same request, a conflict for another one, or an error
\* that leaves nothing behind.
RepeatsAnswer(a, b) ==
    (HasResult(a) /\ Done(b) /\ attempt[b].key = attempt[a].key) =>
        \/ attempt[b].answer = "error"
        \/ /\ attempt[b].answer = "replayed"
           /\ attempt[b].fingerprint = attempt[a].fingerprint
           /\ attempt[b].result = attempt[a].result
        \/ /\ attempt[b].answer = "conflict"
           /\ attempt[b].fingerprint # attempt[a].fingerprint

\* A client that was told of a result can ask for it again as often as it likes,
\* also of an operation that reads before it reserves and whatever other retries
\* do meanwhile: "not found" and "in progress" are for requests that were sent
\* before the first answer was given.
RetryIsReplayed ==
    \A a, b \in Attempts :
        [](HasResult(a) /\ attempt[b] = NotSent => []RepeatsAnswer(a, b))

\* Every request that was sent is answered: nobody waits for ever for a lock.
EveryAttemptAnswered ==
    \A a \in Attempts : (attempt[a] # NotSent) ~> Done(a)
=============================================================================

-------------------------- MODULE IdempotencyProofs --------------------------
(***************************************************************************)
(* A key is written once and every retry is told what was written, for any *)
(* number of keys, fingerprints and attempts.                              *)
(*                                                                         *)
(* The properties hold because an attempt that works on a key owns its row *)
(* lock (LockInv), so the row it has seen is the row it will replace       *)
(* (DraftInv); a committed row is never changed again, so an answer given  *)
(* once stays the answer (AnswerInv).  A request sent after that answer    *)
(* reads in a view that holds the write, and keeps doing so until it is    *)
(* answered itself (SentAfter).                                            *)
(***************************************************************************)
EXTENDS Idempotency, TLAPS

LockInv ==
    /\ \A a \in Attempts : attempt[a].pc \in Holding => holder[attempt[a].key] = a
    /\ \A k \in Keys : holder[k] # Free =>
          attempt[holder[k]].pc \in Holding /\ attempt[holder[k]].key = k

DraftInv ==
    \A a \in Attempts :
        /\ attempt[a].pc \in {"reserved", "written", "completed"} =>
              row[attempt[a].key] = NoRow
        /\ attempt[a].pc = "completed" =>
              attempt[a].draft = Completed(attempt[a].fingerprint, a)
        /\ attempt[a].pc = "replaying" =>
              /\ row[attempt[a].key] # NoRow
              /\ row[attempt[a].key].fingerprint = attempt[a].fingerprint

AnswerInv ==
    \A a \in Attempts : HasResult(a) =>
        /\ row[attempt[a].key] # NoRow
        /\ row[attempt[a].key].fingerprint = attempt[a].fingerprint
        /\ row[attempt[a].key].result = attempt[a].result

RecordInv == LockInv /\ DraftInv /\ AnswerInv /\ RowTellsTheWrite

Sent == AttemptStates \ {NotSent}

-----------------------------------------------------------------------------
\* Every value that an action stores has its type.
LEMMA InitType == Init => TypeOK
<1>1. NoRow \in Rows \cup {NoRow} /\ NotSent \in AttemptStates
  BY DEF AttemptStates
<1> QED BY <1>1 DEF Init, TypeOK

\* What an attempt that was sent has stored.
LEMMA SentFields ==
    ASSUME TypeOK, NEW a \in Attempts, attempt[a].pc # "not_sent"
    PROVE  /\ attempt[a] \in Sent
           /\ attempt[a].key \in Keys
           /\ attempt[a].fingerprint \in Fingerprints
           /\ attempt[a].draft \in Rows \cup {NoRow}
BY DEF TypeOK, AttemptStates, Sent, NotSent

\* A sent attempt whose program counter and answer change keeps its type.
LEMMA FieldUpdates ==
    ASSUME NEW s \in Sent, NEW pc \in Working \cup {"done"}
    PROVE  /\ [s EXCEPT !.pc = pc] \in AttemptStates
           /\ \A d \in Rows : [s EXCEPT !.pc = pc, !.draft = d] \in AttemptStates
           /\ \A answer \in Answers, r \in Attempts \cup {NoResult} :
                 [s EXCEPT !.pc = pc, !.answer = answer, !.result = r] \in AttemptStates
BY DEF Sent, AttemptStates, NotSent

\* The rows that reserve and complete write have the type of a record.
LEMMA RowValues ==
    ASSUME NEW f \in Fingerprints, NEW a \in Attempts
    PROVE  Reserved(f) \in Rows /\ Completed(f, a) \in Rows
BY DEF Reserved, Completed, Rows

\* Every action keeps the types.  A replay needs the invariant for it: the row it
\* reads is there.
LEMMA TypeStep == TypeOK /\ RecordInv /\ [Next]_vars => TypeOK'
<1> SUFFICES ASSUME TypeOK, RecordInv, [Next]_vars PROVE TypeOK'
  OBVIOUS
<1>1. CASE UNCHANGED vars
  BY <1>1 DEF vars, TypeOK
<1>2. ASSUME NEW a \in Attempts, Begin(a) PROVE TypeOK'
  <2>1. PICK k \in Keys, f \in Fingerprints :
          attempt' = [attempt EXCEPT ![a] =
             [pc |-> "begun", key |-> k, fingerprint |-> f,
              snapshot |-> IF k \in ReadsFirst THEN written[k] ELSE {},
              draft |-> NoRow, answer |-> "none", result |-> NoResult]]
    BY <1>2 DEF Begin
  <2>2. (IF k \in ReadsFirst THEN written[k] ELSE {}) \in SUBSET Attempts
    BY DEF TypeOK
  <2>3. attempt'[a] \in AttemptStates
    BY <2>1, <2>2 DEF TypeOK, AttemptStates, Working, Answers
  <2> QED BY <1>2, <2>1, <2>3 DEF Begin, TypeOK
<1>3. ASSUME NEW a \in Attempts, attempt[a].pc \in Working,
             attempt' = [attempt EXCEPT ![a] = attempt'[a]],
             attempt'[a] \in AttemptStates,
             holder' \in [Keys -> Attempts \cup {Free}],
             row' = row \/ row' = [row EXCEPT ![attempt[a].key] = attempt[a].draft],
             written' = written
                \/ written' = [written EXCEPT ![attempt[a].key] = @ \cup {a}]
      PROVE TypeOK'
  <2>1. attempt[a].key \in Keys /\ attempt[a].draft \in Rows \cup {NoRow}
    BY <1>3, SentFields DEF Working
  <2>2. attempt' \in [Attempts -> AttemptStates]
    BY <1>3 DEF TypeOK
  <2>3. row' \in [Keys -> Rows \cup {NoRow}]
    BY <1>3, <2>1 DEF TypeOK
  <2>4. written' \in [Keys -> SUBSET Attempts]
    BY <1>3, <2>1 DEF TypeOK
  <2> QED BY <1>3, <2>2, <2>3, <2>4 DEF TypeOK
<1>4. ASSUME NEW a \in Attempts, Proceeds(a) \/ Rollback(a) PROVE TypeOK'
  <2>1. attempt[a].pc \in Working /\ attempt[a].pc # "not_sent"
    BY <1>4 DEF Proceeds, Rollback, ReserveFresh, ReserveReplay, ReserveRefused, Write,
                Complete, Commit, Replay, Working
  <2>2. /\ attempt[a] \in Sent
        /\ attempt[a].key \in Keys
        /\ attempt[a].fingerprint \in Fingerprints
    BY <2>1, SentFields
  <2>3. holder' \in [Keys -> Attempts \cup {Free}]
    BY <1>4, <2>2 DEF Proceeds, Rollback, ReserveFresh, ReserveReplay, ReserveRefused, Write,
                Complete, Commit, Replay, TypeOK, Unlocked
  <2>4. row' = row \/ row' = [row EXCEPT ![attempt[a].key] = attempt[a].draft]
    BY <1>4 DEF Proceeds, Rollback, ReserveFresh, ReserveReplay, ReserveRefused, Write,
                Complete, Commit, Replay
  <2>5. written' = written \/ written' = [written EXCEPT ![attempt[a].key] = @ \cup {a}]
    BY <1>4 DEF Proceeds, Rollback, ReserveFresh, ReserveReplay, ReserveRefused, Write,
                Complete, Commit, Replay
  <2>6. attempt' = [attempt EXCEPT ![a] = attempt'[a]] /\ attempt'[a] \in AttemptStates
    <3>1. CASE ReserveFresh(a)
      <4>1. attempt' = [attempt EXCEPT ![a] =
                [attempt[a] EXCEPT !.pc = "reserved", !.draft = Reserved(attempt[a].fingerprint)]]
        BY <3>1 DEF ReserveFresh
      <4>2. attempt[a].fingerprint \in Fingerprints => Reserved(attempt[a].fingerprint) \in Rows
        BY RowValues
      <4> QED BY <4>1, <4>2, <2>2, FieldUpdates DEF TypeOK, Working
    <3>2. CASE Complete(a)
      <4>1. attempt' = [attempt EXCEPT ![a] =
                [attempt[a] EXCEPT !.pc = "completed",
                                   !.draft = Completed(attempt[a].fingerprint, a)]]
        BY <3>2 DEF Complete
      <4>2. Completed(attempt[a].fingerprint, a) \in Rows
        BY <2>2, RowValues
      <4> QED BY <4>1, <4>2, <2>2, FieldUpdates DEF TypeOK, Working
    <3>3. CASE ReserveReplay(a) \/ Write(a)
      <4>1. PICK pc \in Working :
              attempt' = [attempt EXCEPT ![a] = [attempt[a] EXCEPT !.pc = pc]]
        BY <3>3 DEF ReserveReplay, Write, Moves, Working
      <4> QED BY <4>1, <2>2, FieldUpdates DEF TypeOK
    <3>4. CASE ReserveRefused(a) \/ Commit(a) \/ Replay(a) \/ Rollback(a)
      <4>1. \E answer \in Answers, r \in Attempts \cup {NoResult} : Answered(a, answer, r)
        <5>1. CASE ReserveRefused(a)
          <6>1. Answered(a, "conflict", NoResult) \/ Answered(a, "in_progress", NoResult)
            BY <5>1 DEF ReserveRefused
          <6> QED BY <6>1 DEF Answers
        <5>2. CASE Commit(a)
          <6>1. Answered(a, "created", a) \/ Answered(a, "error", NoResult)
            BY <5>2 DEF Commit
          <6> QED BY <6>1 DEF Answers
        <5>3. CASE Rollback(a)
          <6>1. Answered(a, "error", NoResult)
            BY <5>3 DEF Rollback
          <6> QED BY <6>1 DEF Answers
        <5>4. CASE Replay(a)
          <6>1. row[attempt[a].key] \in Rows
            BY <2>2, <5>4 DEF RecordInv, DraftInv, TypeOK, Replay
          <6>2. row[attempt[a].key].result \in Attempts \cup {NoResult}
            BY <6>1 DEF Rows
          <6>3. \/ Answered(a, "replayed", row[attempt[a].key].result)
                \/ Answered(a, "not_found", NoResult)
            BY <5>4 DEF Replay
          <6> QED BY <6>2, <6>3 DEF Answers
        <5> QED BY <3>4, <5>1, <5>2, <5>3, <5>4
      <4>2. PICK answer \in Answers, r \in Attempts \cup {NoResult} : Answered(a, answer, r)
        BY <4>1
      <4>3. attempt' = [attempt EXCEPT ![a] =
                [attempt[a] EXCEPT !.pc = "done", !.answer = answer, !.result = r]]
        BY <4>2 DEF Answered
      <4> QED BY <4>3, <2>2, FieldUpdates DEF TypeOK
    <3> QED BY <1>4, <3>1, <3>2, <3>3, <3>4 DEF Proceeds
  <2> QED BY <1>3, <2>1, <2>3, <2>4, <2>5, <2>6
<1> QED BY <1>1, <1>2, <1>4 DEF Next

\* Nothing is locked, written or answered at the start.
LEMMA SafetyInit == Init => RecordInv
BY DEF Init, RecordInv, LockInv, DraftInv, AnswerInv, RowTellsTheWrite,
       HasResult, Done, NotSent, NoRow, Holding, Working

\* An attempt that holds a key keeps every other attempt away from it.
LEMMA HolderAlone ==
    ASSUME LockInv, NEW a \in Attempts, NEW b \in Attempts, a # b,
           attempt[a].pc \in Holding, attempt[b].pc \in Holding
    PROVE  attempt[b].key # attempt[a].key
BY DEF LockInv

\* Taking a free row lock, and giving one back.
LEMMA LockTaken ==
    ASSUME TypeOK, LockInv, NEW a \in Attempts, attempt[a].pc = "begun",
           Lockable(attempt[a].key), NEW pc \in Holding,
           holder' = [holder EXCEPT ![attempt[a].key] = a],
           \A b \in Attempts \ {a} : attempt'[b] = attempt[b],
           attempt'[a].pc = pc, attempt'[a].key = attempt[a].key
    PROVE  LockInv'
<1>1. attempt[a].key \in Keys
  BY SentFields
<1>2. ASSUME NEW b \in Attempts, attempt'[b].pc \in Holding
      PROVE  holder'[attempt'[b].key] = b
  BY <1>1, <1>2, NamesAssumption, SentFields DEF LockInv, Lockable, TypeOK, Holding, Working
<1>3. ASSUME NEW k \in Keys, holder'[k] # Free
      PROVE  attempt'[holder'[k]].pc \in Holding /\ attempt'[holder'[k]].key = k
  <2>1. CASE k = attempt[a].key
    BY <2>1, <1>1 DEF TypeOK
  <2>2. CASE k # attempt[a].key
    <3>1. holder'[k] = holder[k] /\ holder[k] \in Attempts
      BY <2>2, <1>1, <1>3 DEF TypeOK
    <3>2. holder[k] # a
      BY <3>1, <1>3, <2>2 DEF LockInv, Holding, Working
    <3> QED BY <3>1, <3>2, <1>3 DEF LockInv
  <2> QED BY <2>1, <2>2
<1> QED BY <1>2, <1>3 DEF LockInv

\* An attempt that gives its locks back leaves the others where they are.
LEMMA LockReturned ==
    ASSUME TypeOK, LockInv, NEW a \in Attempts, attempt[a].pc # "not_sent",
           \A k \in Keys : holder'[k] = IF holder[k] = a THEN Free ELSE holder[k],
           \A b \in Attempts \ {a} : attempt'[b] = attempt[b],
           attempt'[a].pc \notin Holding
    PROVE  LockInv'
<1>1. ASSUME NEW b \in Attempts, attempt'[b].pc \in Holding
      PROVE  holder'[attempt'[b].key] = b
  <2>1. b # a /\ attempt'[b] = attempt[b]
    BY <1>1
  <2>2. attempt[b].key \in Keys
    BY <1>1, <2>1, SentFields DEF Holding, Working
  <2> QED BY <1>1, <2>1, <2>2 DEF LockInv
<1>2. ASSUME NEW k \in Keys, holder'[k] # Free
      PROVE  attempt'[holder'[k]].pc \in Holding /\ attempt'[holder'[k]].key = k
  BY <1>2 DEF LockInv, TypeOK
<1> QED BY <1>1, <1>2 DEF LockInv

\* Steps that change no row keep the invariant if the attempt that moves keeps
\* its own parts of it.
LEMMA RowsKept ==
    ASSUME TypeOK, RecordInv, NEW a \in Attempts, row' = row, written' = written,
           \A b \in Attempts \ {a} : attempt'[b] = attempt[b],
           LockInv',
           attempt'[a].pc \in {"reserved", "written", "completed"} =>
              row[attempt'[a].key] = NoRow,
           attempt'[a].pc = "completed" =>
              attempt'[a].draft = Completed(attempt'[a].fingerprint, a),
           attempt'[a].pc = "replaying" =>
              /\ row[attempt'[a].key] # NoRow
              /\ row[attempt'[a].key].fingerprint = attempt'[a].fingerprint,
           attempt'[a].pc = "done" /\ attempt'[a].answer \in {"created", "replayed"} =>
              /\ row[attempt'[a].key] # NoRow
              /\ row[attempt'[a].key].fingerprint = attempt'[a].fingerprint
              /\ row[attempt'[a].key].result = attempt'[a].result
    PROVE  RecordInv'
<1>1. DraftInv'
  BY DEF RecordInv, DraftInv, Completed
<1>2. AnswerInv'
  BY DEF RecordInv, AnswerInv, HasResult, Done
<1>3. RowTellsTheWrite'
  BY DEF RecordInv, RowTellsTheWrite
<1> QED BY <1>1, <1>2, <1>3 DEF RecordInv

\* An attempt that only reads holds nothing.
LEMMA BeginStep ==
    ASSUME TypeOK, RecordInv, NEW a \in Attempts, Begin(a) PROVE RecordInv'
<1>1. PICK k \in Keys, f \in Fingerprints :
        attempt' = [attempt EXCEPT ![a] =
             [pc |-> "begun", key |-> k, fingerprint |-> f,
              snapshot |-> IF k \in ReadsFirst THEN written[k] ELSE {},
              draft |-> NoRow, answer |-> "none", result |-> NoResult]]
  BY DEF Begin
<1>2. attempt'[a].pc = "begun" /\ \A b \in Attempts \ {a} : attempt'[b] = attempt[b]
  BY <1>1 DEF TypeOK
<1>3. LockInv'
  BY <1>2 DEF RecordInv, LockInv, Begin, TypeOK, NotSent, Holding, Working
<1> QED BY <1>2, <1>3, RowsKept DEF Begin

\* A record is reserved only where no row is committed: committed rows are
\* completed, so neither restart branch of reserve is ever taken.
LEMMA ReserveFreshStep ==
    ASSUME TypeOK, RecordInv, NEW a \in Attempts, ReserveFresh(a) PROVE RecordInv'
<1>1. /\ attempt[a].key \in Keys
      /\ attempt[a] \in Sent
  BY SentFields DEF ReserveFresh
<1>2. /\ attempt'[a].pc = "reserved"
      /\ attempt'[a].key = attempt[a].key
      /\ \A b \in Attempts \ {a} : attempt'[b] = attempt[b]
  BY <1>1 DEF ReserveFresh, TypeOK, Sent, AttemptStates
<1>3. LockInv'
  <2>1. "reserved" \in Holding
    BY DEF Holding, Working
  <2> QED BY <1>2, <2>1, LockTaken DEF ReserveFresh, RecordInv
<1>4. row[attempt[a].key] = NoRow
  <2>1. PICK expired \in BOOLEAN :
          Reservation(row[attempt[a].key], attempt[a].fingerprint, expired)
            \in {"fresh", "restart"}
    BY DEF ReserveFresh
  <2> SUFFICES ASSUME row[attempt[a].key] # NoRow PROVE FALSE
    OBVIOUS
  <2>2. row[attempt[a].key].status = "completed"
    BY <1>1 DEF RecordInv, RowTellsTheWrite
  <2>3. Reservation(row[attempt[a].key], attempt[a].fingerprint, expired)
            \in {"conflict", "replay"}
    BY <2>2 DEF Reservation
  <2> QED BY <2>1, <2>3
<1> QED BY <1>2, <1>3, <1>4, RowsKept DEF ReserveFresh

\* A replay holds the completed record of its own request.
LEMMA ReserveReplayStep ==
    ASSUME TypeOK, RecordInv, NEW a \in Attempts, ReserveReplay(a) PROVE RecordInv'
<1>1. /\ attempt[a].key \in Keys
      /\ attempt[a] \in Sent
  BY SentFields DEF ReserveReplay
<1>2. /\ attempt'[a].pc = "replaying"
      /\ attempt'[a].key = attempt[a].key
      /\ attempt'[a].fingerprint = attempt[a].fingerprint
      /\ \A b \in Attempts \ {a} : attempt'[b] = attempt[b]
  BY <1>1 DEF ReserveReplay, Moves, TypeOK, Sent, AttemptStates
<1>3. LockInv'
  <2>1. "replaying" \in Holding
    BY DEF Holding, Working
  <2> QED BY <1>2, <2>1, LockTaken DEF ReserveReplay, RecordInv
<1>4. /\ row[attempt[a].key] # NoRow
      /\ row[attempt[a].key].fingerprint = attempt[a].fingerprint
  <2>1. PICK expired \in BOOLEAN :
          Reservation(row[attempt[a].key], attempt[a].fingerprint, expired) = "replay"
    BY DEF ReserveReplay
  <2>2. row[attempt[a].key] # NoRow
    BY <2>1 DEF Reservation
  <2>3. row[attempt[a].key].status = "completed"
    BY <1>1, <2>2 DEF RecordInv, RowTellsTheWrite
  <2> QED BY <2>1, <2>2, <2>3 DEF Reservation
<1> QED BY <1>2, <1>3, <1>4, RowsKept DEF ReserveReplay

\* A refused attempt leaves nothing behind.
LEMMA ReserveRefusedStep ==
    ASSUME TypeOK, RecordInv, NEW a \in Attempts, ReserveRefused(a) PROVE RecordInv'
<1>1. attempt[a] \in Sent
  BY SentFields DEF ReserveRefused
<1>2. /\ attempt'[a].pc = "done"
      /\ attempt'[a].answer \in {"conflict", "in_progress"}
      /\ \A b \in Attempts \ {a} : attempt'[b] = attempt[b]
  BY <1>1 DEF ReserveRefused, Answered, TypeOK, Sent, AttemptStates
<1>3. LockInv'
  BY <1>2 DEF ReserveRefused, RecordInv, LockInv, TypeOK, Holding, Working
<1> QED BY <1>2, <1>3, RowsKept DEF ReserveRefused

\* The write of the operation stays inside its transaction.
LEMMA WriteStep ==
    ASSUME TypeOK, RecordInv, NEW a \in Attempts, Write(a) PROVE RecordInv'
<1>1. attempt[a] \in Sent
  BY SentFields DEF Write
<1>2. /\ attempt'[a].pc = "written"
      /\ attempt'[a].key = attempt[a].key
      /\ \A b \in Attempts \ {a} : attempt'[b] = attempt[b]
  BY <1>1 DEF Write, Moves, TypeOK, Sent, AttemptStates
<1>3. LockInv'
  BY <1>2 DEF Write, RecordInv, LockInv, TypeOK, Holding, Working
<1> QED BY <1>2, <1>3, RowsKept DEF Write, RecordInv, DraftInv

\* complete turns the reservation into the record of the attempt's own write.
LEMMA CompleteStep ==
    ASSUME TypeOK, RecordInv, NEW a \in Attempts, Complete(a) PROVE RecordInv'
<1>1. attempt[a] \in Sent
  BY SentFields DEF Complete
<1>2. /\ attempt'[a].pc = "completed"
      /\ attempt'[a].key = attempt[a].key
      /\ attempt'[a].draft = Completed(attempt'[a].fingerprint, a)
      /\ \A b \in Attempts \ {a} : attempt'[b] = attempt[b]
  BY <1>1 DEF Complete, TypeOK, Sent, AttemptStates
<1>3. LockInv'
  BY <1>2 DEF Complete, RecordInv, LockInv, TypeOK, Holding, Working
<1> QED BY <1>2, <1>3, RowsKept DEF Complete, RecordInv, DraftInv

\* A commit publishes record and write together; no other attempt has been
\* answered from, or is working on, the row it replaces.
LEMMA CommitStep ==
    ASSUME TypeOK, RecordInv, NEW a \in Attempts, Commit(a) PROVE RecordInv'
<1> DEFINE k == attempt[a].key
           stored == Completed(attempt[a].fingerprint, a)
<1>1. attempt[a] \in Sent /\ k \in Keys /\ attempt[a].pc = "completed"
  BY SentFields DEF Commit
<1>2. /\ attempt'[a].pc = "done"
      /\ attempt'[a].key = k
      /\ attempt'[a].fingerprint = attempt[a].fingerprint
      /\ \/ attempt'[a].answer = "created" /\ attempt'[a].result = a
         \/ attempt'[a].answer = "error"
      /\ \A b \in Attempts \ {a} : attempt'[b] = attempt[b]
  BY <1>1 DEF Commit, Answered, TypeOK, Sent, AttemptStates
<1>3. row[k] = NoRow /\ attempt[a].draft = stored /\ written[k] = {}
  BY <1>1 DEF RecordInv, DraftInv, RowTellsTheWrite
<1>4. row'[k] = stored /\ written'[k] = {a}
  BY <1>1, <1>3 DEF Commit, TypeOK
<1>5. \A j \in Keys \ {k} : row'[j] = row[j] /\ written'[j] = written[j]
  BY <1>1 DEF Commit, TypeOK
<1>6. LockInv'
  <2>1. a \in Attempts /\ holder[k] = a
    BY <1>1 DEF RecordInv, LockInv, Holding, Working
  <2>2. \A j \in Keys : holder'[j] = IF holder[j] = a THEN Free ELSE holder[j]
    BY <1>1, <2>1, NamesAssumption DEF Commit, Unlocked, TypeOK, RecordInv, LockInv
  <2> QED BY <1>1, <1>2, <2>2, LockReturned DEF RecordInv, Holding, Working
<1>7. stored # NoRow /\ stored.status = "completed" /\ stored.result = a
         /\ stored.fingerprint = attempt[a].fingerprint
  BY DEF Completed, NoRow
<1>8. \A b \in Attempts \ {a} : attempt[b].pc \in Holding => attempt[b].key # k
  BY <1>1, HolderAlone DEF RecordInv, Holding, Working
<1>9. DraftInv'
  <2> SUFFICES ASSUME NEW b \in Attempts, b # a, attempt[b].pc \in Holding
               PROVE  row'[attempt[b].key] = row[attempt[b].key]
    BY <1>2 DEF RecordInv, DraftInv, Holding, Working, Completed
  <2>1. attempt[b].key \in Keys
    BY SentFields DEF Holding, Working
  <2> QED BY <2>1, <1>5, <1>8
<1>10. AnswerInv'
  <2> SUFFICES ASSUME NEW b \in Attempts, HasResult(b)'
               PROVE  (/\ row[attempt[b].key] # NoRow
                       /\ row[attempt[b].key].fingerprint = attempt[b].fingerprint
                       /\ row[attempt[b].key].result = attempt[b].result)'
    BY DEF AnswerInv
  <2>1. CASE b = a
    BY <2>1, <1>2, <1>4, <1>7 DEF HasResult, Done
  <2>2. CASE b # a
    <3>1. HasResult(b) /\ attempt'[b] = attempt[b]
      BY <2>2, <1>2 DEF HasResult, Done
    <3>2. attempt[b].key \in Keys /\ attempt[b].key # k
      BY <3>1, <1>3, SentFields DEF RecordInv, AnswerInv, HasResult, Done
    <3> QED BY <3>1, <3>2, <1>5 DEF RecordInv, AnswerInv
  <2> QED BY <2>1, <2>2
<1>11. RowTellsTheWrite'
  BY <1>4, <1>5, <1>7 DEF RecordInv, RowTellsTheWrite
<1> QED BY <1>6, <1>9, <1>10, <1>11 DEF RecordInv

\* A replay answers with the result of the record, or does not see it.
LEMMA ReplayStep ==
    ASSUME TypeOK, RecordInv, NEW a \in Attempts, Replay(a) PROVE RecordInv'
<1> DEFINE k == attempt[a].key
           r == row[k].result
<1>1. attempt[a] \in Sent /\ k \in Keys /\ attempt[a].pc = "replaying"
  BY SentFields DEF Replay
<1>2. /\ row[k] # NoRow
      /\ row[k].fingerprint = attempt[a].fingerprint
      /\ written[k] = {r}
  BY <1>1 DEF RecordInv, DraftInv, RowTellsTheWrite
<1>3. /\ attempt'[a].pc = "done"
      /\ attempt'[a].key = k
      /\ attempt'[a].fingerprint = attempt[a].fingerprint
      /\ \/ attempt'[a].answer = "replayed" /\ attempt'[a].result = r
         \/ attempt'[a].answer = "not_found"
      /\ \A b \in Attempts \ {a} : attempt'[b] = attempt[b]
  BY <1>1 DEF Replay, Answered, TypeOK, Sent, AttemptStates
<1>4. LockInv'
  <2>1. holder[k] = a
    BY <1>1 DEF RecordInv, LockInv, Holding, Working
  <2>2. \A j \in Keys : holder'[j] = IF holder[j] = a THEN Free ELSE holder[j]
    BY <1>1, <2>1, NamesAssumption DEF Replay, Unlocked, TypeOK, RecordInv, LockInv
  <2> QED BY <1>1, <1>3, <2>2, LockReturned DEF RecordInv, Holding, Working
<1> QED BY <1>2, <1>3, <1>4, RowsKept DEF Replay

\* A rollback gives the row lock back and publishes nothing.
LEMMA RollbackStep ==
    ASSUME TypeOK, RecordInv, NEW a \in Attempts, Rollback(a) PROVE RecordInv'
<1>1. attempt[a] \in Sent /\ attempt[a].pc # "not_sent"
  BY SentFields DEF Rollback, Working
<1>2. /\ attempt'[a].pc = "done"
      /\ attempt'[a].answer = "error"
      /\ \A b \in Attempts \ {a} : attempt'[b] = attempt[b]
  BY <1>1 DEF Rollback, Answered, TypeOK, Sent, AttemptStates
<1>3. LockInv'
  BY <1>1, <1>2, LockReturned DEF Rollback, RecordInv, Holding, Working
<1> QED BY <1>2, <1>3, RowsKept DEF Rollback

\* Every step keeps the inductive invariant.
LEMMA SafetyStep == TypeOK /\ RecordInv /\ [Next]_vars => RecordInv'
<1> SUFFICES ASSUME TypeOK, RecordInv, [Next]_vars PROVE RecordInv'
  OBVIOUS
<1>1. CASE UNCHANGED vars
  BY <1>1 DEF vars, RecordInv, LockInv, DraftInv, AnswerInv, RowTellsTheWrite,
              HasResult, Done
<1>2. CASE Next
  BY <1>2, BeginStep, ReserveFreshStep, ReserveReplayStep, ReserveRefusedStep, WriteStep,
     CompleteStep, CommitStep, ReplayStep, RollbackStep DEF Next, Proceeds
<1> QED BY <1>1, <1>2

-----------------------------------------------------------------------------
\* The type invariant and the inductive invariant hold in every reachable state.
THEOREM RecordsCorrect == Spec => [](TypeOK /\ RecordInv)
<1>1. Init => TypeOK /\ RecordInv
  BY InitType, SafetyInit
<1>2. TypeOK /\ RecordInv /\ [Next]_vars => (TypeOK /\ RecordInv)'
  BY TypeStep, SafetyStep
<1> QED BY <1>1, <1>2, PTL DEF Spec

\* A retry never executes its operation a second time: at most one attempt
\* writes under a key.
THEOREM OneWritePerKey == Spec => []WrittenOnce
<1>1. TypeOK /\ RecordInv => WrittenOnce
  BY DEF RecordInv, RowTellsTheWrite, WrittenOnce
<1> QED BY <1>1, RecordsCorrect, PTL

\* A committed record is completed and names the only write of its key.
THEOREM RecordsTellWrites == Spec => []RowTellsTheWrite
<1>1. TypeOK /\ RecordInv => RowTellsTheWrite
  BY DEF RecordInv
<1> QED BY <1>1, RecordsCorrect, PTL

\* All attempts that are told of a result under one key are told of the same.
THEOREM AnswersAgree == Spec => []SameAnswer
<1>1. TypeOK /\ RecordInv => SameAnswer
  BY DEF RecordInv, AnswerInv, SameAnswer
<1> QED BY <1>1, RecordsCorrect, PTL

-----------------------------------------------------------------------------
(***************************************************************************)
(* A request that was sent after another one was told of a result.         *)
(***************************************************************************)

\* What b has done since: if it uses the key of a and an operation that reads
\* first, its view holds what a was told of.
SentAfter(a, b) ==
    /\ HasResult(a)
    /\ attempt[b] # NotSent /\ attempt[b].key = attempt[a].key =>
          /\ attempt[a].key \in ReadsFirst => attempt[a].result \in attempt[b].snapshot
          /\ RepeatsAnswer(a, b)

\* The record that a was told of is the committed row of its key.
LEMMA ToldOfRow ==
    ASSUME TypeOK, RecordInv, NEW a \in Attempts, HasResult(a)
    PROVE  LET k == attempt[a].key
           IN  /\ k \in Keys
               /\ row[k] # NoRow
               /\ row[k].status = "completed"
               /\ row[k].fingerprint = attempt[a].fingerprint
               /\ row[k].result = attempt[a].result
               /\ written[k] = {attempt[a].result}
<1>1. attempt[a].key \in Keys
  BY SentFields DEF HasResult, Done
<1> QED BY <1>1 DEF RecordInv, AnswerInv, RowTellsTheWrite

\* Only b itself moves b, and an answered attempt does not move.
LEMMA OneMoves ==
    ASSUME TypeOK, NEW c \in Attempts, Begin(c) \/ Proceeds(c) \/ Rollback(c)
    PROVE  /\ attempt[c].pc # "done"
           /\ \A d \in Attempts \ {c} : attempt'[d] = attempt[d]
<1>1. attempt[c].pc # "done"
  BY DEF Begin, Proceeds, Rollback, ReserveFresh, ReserveReplay, ReserveRefused, Write, Complete,
         Commit, Replay, Working, NotSent
<1>2. PICK s : attempt' = [attempt EXCEPT ![c] = s]
  BY DEF Begin, Proceeds, Rollback, ReserveFresh, ReserveReplay, ReserveRefused, Write, Complete,
         Commit, Replay, Moves, Answered
<1> QED BY <1>1, <1>2 DEF TypeOK

\* b moves on without an answer, or is answered with an error.
LEMMA GoesOn ==
    ASSUME NEW a \in Attempts, NEW b \in Attempts, SentAfter(a, b), attempt[b] # NotSent,
           attempt'[a] = attempt[a],
           attempt'[b].key = attempt[b].key,
           attempt'[b].snapshot = attempt[b].snapshot,
           attempt'[b].pc # "done" \/ attempt'[b].answer = "error"
    PROVE  SentAfter(a, b)'
BY DEF SentAfter, HasResult, Done, RepeatsAnswer

LEMMA SentAfterBegin ==
    ASSUME TypeOK, RecordInv, NEW a \in Attempts, NEW b \in Attempts, a # b,
           SentAfter(a, b), attempt'[a] = attempt[a], Begin(b)
    PROVE  SentAfter(a, b)'
<1>1. PICK k \in Keys, f \in Fingerprints :
        attempt' = [attempt EXCEPT ![b] =
             [pc |-> "begun", key |-> k, fingerprint |-> f,
              snapshot |-> IF k \in ReadsFirst THEN written[k] ELSE {},
              draft |-> NoRow, answer |-> "none", result |-> NoResult]]
  BY DEF Begin
<1>2. /\ attempt'[b].pc = "begun" /\ attempt'[b].key = k
      /\ k \in ReadsFirst => attempt'[b].snapshot = written[k]
  BY <1>1 DEF TypeOK
<1>3. HasResult(a) /\ written[attempt[a].key] = {attempt[a].result}
  BY ToldOfRow DEF SentAfter
<1> QED BY <1>2, <1>3 DEF SentAfter, HasResult, Done, RepeatsAnswer

\* The steps up to the commit, and a rollback.
LEMMA SentAfterWorks ==
    ASSUME TypeOK, RecordInv, NEW a \in Attempts, NEW b \in Attempts,
           SentAfter(a, b), attempt'[a] = attempt[a],
           ReserveFresh(b) \/ ReserveReplay(b) \/ Write(b) \/ Complete(b) \/ Rollback(b)
    PROVE  SentAfter(a, b)'
<1>1. attempt[b].pc # "not_sent" /\ attempt[b] # NotSent
  BY DEF ReserveFresh, ReserveReplay, Write, Complete, Rollback, Working, NotSent
<1>2. attempt[b] \in Sent
  BY <1>1, SentFields
<1>3. /\ attempt'[b].key = attempt[b].key
      /\ attempt'[b].snapshot = attempt[b].snapshot
      /\ attempt'[b].pc # "done" \/ attempt'[b].answer = "error"
  BY <1>2 DEF ReserveFresh, ReserveReplay, Write, Complete, Rollback, Moves, Answered, TypeOK,
              Sent, AttemptStates
<1> QED BY <1>1, <1>3, GoesOn

\* The row is completed: a refusal is a conflict of fingerprints.
LEMMA SentAfterRefused ==
    ASSUME TypeOK, RecordInv, NEW a \in Attempts, NEW b \in Attempts,
           SentAfter(a, b), attempt'[a] = attempt[a], ReserveRefused(b)
    PROVE  SentAfter(a, b)'
<1>1. attempt[b] \in Sent /\ attempt[b] # NotSent
  BY SentFields DEF ReserveRefused, NotSent
<1>2. PICK expired \in BOOLEAN :
        LET outcome == Reservation(row[attempt[b].key], attempt[b].fingerprint, expired)
        IN  /\ outcome \in {"conflict", "in_progress"}
            /\ Answered(b, outcome, NoResult)
  BY DEF ReserveRefused
<1>3. /\ attempt'[b].key = attempt[b].key
      /\ attempt'[b].fingerprint = attempt[b].fingerprint
      /\ attempt'[b].snapshot = attempt[b].snapshot
      /\ attempt'[b].answer = Reservation(row[attempt[b].key], attempt[b].fingerprint, expired)
  BY <1>1, <1>2 DEF Answered, TypeOK, Sent, AttemptStates
<1>4. ASSUME attempt[b].key = attempt[a].key
      PROVE  attempt'[b].answer = "conflict" /\ attempt'[b].fingerprint # attempt[a].fingerprint
  <2>1. /\ row[attempt[b].key] # NoRow
        /\ row[attempt[b].key].status = "completed"
        /\ row[attempt[b].key].fingerprint = attempt[a].fingerprint
    BY <1>4, ToldOfRow DEF SentAfter
  <2>2. attempt[b].fingerprint # attempt[a].fingerprint
    <3> SUFFICES ASSUME attempt[b].fingerprint = attempt[a].fingerprint PROVE FALSE
      OBVIOUS
    <3>1. Reservation(row[attempt[b].key], attempt[b].fingerprint, expired) = "replay"
      BY <2>1 DEF Reservation
    <3> QED BY <1>2, <3>1
  <2>3. Reservation(row[attempt[b].key], attempt[b].fingerprint, expired) = "conflict"
    BY <2>1, <2>2 DEF Reservation
  <2> QED BY <1>3, <2>2, <2>3
<1> QED BY <1>1, <1>3, <1>4 DEF SentAfter, HasResult, Done, RepeatsAnswer

\* Nobody commits a second write under the key.
LEMMA SentAfterCommit ==
    ASSUME TypeOK, RecordInv, NEW a \in Attempts, NEW b \in Attempts,
           SentAfter(a, b), attempt'[a] = attempt[a], Commit(b)
    PROVE  SentAfter(a, b)'
<1>1. attempt[b] \in Sent
  BY SentFields DEF Commit
<1>2. attempt'[b].key = attempt[b].key
  BY <1>1 DEF Commit, Answered, TypeOK, Sent, AttemptStates
<1>3. attempt[b].key # attempt[a].key
  <2>1. row[attempt[b].key] = NoRow
    BY DEF RecordInv, DraftInv, Commit
  <2>2. row[attempt[a].key] # NoRow
    BY ToldOfRow DEF SentAfter
  <2> QED BY <2>1, <2>2
<1> QED BY <1>2, <1>3 DEF SentAfter, HasResult, Done

\* The replay sees the result: in its view, which holds it, or in the last commit.
LEMMA SentAfterReplay ==
    ASSUME TypeOK, RecordInv, NEW a \in Attempts, NEW b \in Attempts,
           SentAfter(a, b), attempt'[a] = attempt[a], Replay(b)
    PROVE  SentAfter(a, b)'
<1>1. attempt[b] \in Sent /\ attempt[b] # NotSent /\ attempt[b].pc = "replaying"
  BY SentFields DEF Replay, NotSent
<1>2. /\ attempt'[b].key = attempt[b].key
      /\ attempt'[b].fingerprint = attempt[b].fingerprint
      /\ attempt'[b].snapshot = attempt[b].snapshot
      /\ \/ /\ attempt'[b].answer = "replayed"
            /\ attempt'[b].result = row[attempt[b].key].result
         \/ row[attempt[b].key].result \notin Visible(b)
  BY <1>1 DEF Replay, Answered, TypeOK, Sent, AttemptStates
<1>3. ASSUME attempt[b].key = attempt[a].key
      PROVE  /\ attempt'[b].answer = "replayed"
             /\ attempt'[b].result = attempt[a].result
             /\ attempt'[b].fingerprint = attempt[a].fingerprint
  <2>1. /\ row[attempt[b].key].result = attempt[a].result
        /\ row[attempt[b].key].fingerprint = attempt[a].fingerprint
        /\ written[attempt[b].key] = {attempt[a].result}
    BY <1>3, ToldOfRow DEF SentAfter
  <2>2. row[attempt[b].key].fingerprint = attempt[b].fingerprint
    BY <1>1 DEF RecordInv, DraftInv
  <2>3. attempt[a].result \in Visible(b)
    BY <1>1, <1>3, <2>1 DEF SentAfter, Visible
  <2> QED BY <1>2, <2>1, <2>2, <2>3
<1> QED BY <1>1, <1>2, <1>3 DEF SentAfter, HasResult, Done, RepeatsAnswer

LEMMA SentAfterStep ==
    ASSUME NEW a \in Attempts, NEW b \in Attempts
    PROVE  TypeOK /\ RecordInv /\ SentAfter(a, b) /\ [Next]_vars => SentAfter(a, b)'
<1> SUFFICES ASSUME TypeOK, RecordInv, SentAfter(a, b), [Next]_vars PROVE SentAfter(a, b)'
  OBVIOUS
<1>1. CASE UNCHANGED vars
  BY <1>1 DEF vars, SentAfter, HasResult, Done, RepeatsAnswer
<1>2. ASSUME NEW c \in Attempts, Begin(c) \/ Proceeds(c) \/ Rollback(c)
      PROVE  SentAfter(a, b)'
  <2>1. /\ attempt[c].pc # "done"
        /\ \A d \in Attempts \ {c} : attempt'[d] = attempt[d]
    BY <1>2, OneMoves
  <2>2. c # a /\ attempt'[a] = attempt[a]
    BY <2>1 DEF SentAfter, HasResult, Done
  <2>3. CASE c # b
    BY <2>1, <2>2, <2>3 DEF SentAfter, HasResult, Done, RepeatsAnswer
  <2>4. CASE c = b
    BY <1>2, <2>2, <2>4, SentAfterBegin, SentAfterWorks, SentAfterRefused, SentAfterCommit,
       SentAfterReplay DEF Proceeds
  <2> QED BY <2>3, <2>4
<1> QED BY <1>1, <1>2 DEF Next

\* A client that was told of a result is answered with it whenever it asks again
\* (IdempotencyService.reserve and the replays of its callers), and "not found"
\* is possible only for a request that was on its way before.
THEOREM RetriesAreReplayed == Spec => RetryIsReplayed
<1> SUFFICES ASSUME NEW a \in Attempts, NEW b \in Attempts
             PROVE  Spec => [](HasResult(a) /\ attempt[b] = NotSent => []RepeatsAnswer(a, b))
  BY DEF RetryIsReplayed
<1>1. HasResult(a) /\ attempt[b] = NotSent => SentAfter(a, b)
  BY DEF SentAfter
<1>2. TypeOK /\ RecordInv /\ SentAfter(a, b) /\ [Next]_vars => SentAfter(a, b)'
  BY SentAfterStep
<1>3. SentAfter(a, b) => RepeatsAnswer(a, b)
  BY DEF SentAfter, RepeatsAnswer, HasResult, Done, NotSent
<1> QED BY <1>1, <1>2, <1>3, RecordsCorrect, PTL DEF Spec
=============================================================================

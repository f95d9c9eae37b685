----------------------- MODULE ContractReviewRunsProofs -----------------------
(***************************************************************************)
(* The safety of the contract review runs.  A run takes its file once and  *)
(* its claim once.  What a call remembers of both stays true for as long   *)
(* as anything of the call lives, its task that saves and its fail_owned   *)
(* included, so neither has to be told that the world went on.             *)
(***************************************************************************)
EXTENDS ContractReviewRuns, TLAPS

\* The steps of a call that has claimed its run and not returned.
Holding == Reviewing \cup {"taken", "cleanup"}

\* What the table promises of one run: its file is stored, its result is of
\* this file, and its claim is held by a call for this run that has got past
\* the claim; the call may have ended since and left the row to its fail_owned.
RunInv(r) ==
    /\ row[r].pdf \in Pdf => <<r, row[r].pdf>> \in objects
    /\ row[r].doc \in {NoPdf, row[r].pdf}
    /\ row[r].lease # NoCall =>
          /\ call[row[r].lease].run = r
          /\ call[row[r].lease].pdf \in Pdf
          /\ call[row[r].lease].step \in Holding \cup {"ended"}

\* What the registry promises: an entry is a call for the run, at its review
\* or its cleanup.
EntryInv(r) ==
    active[r] # NoCall => /\ call[active[r]].run = r
                          /\ call[active[r]].step \in Reviewing \cup {"cleanup"}

\* What a call knows: the file it took is the file of the row, and until it
\* returns the run is its own or has ended.
CallInv(c) ==
    /\ call[c].pdf \in {NoPdf, row[call[c].run].pdf}
    /\ call[c].step \in Holding =>
          /\ call[c].pdf \in Pdf
          /\ \/ row[call[c].run].lease = c
             \/ row[call[c].run].status \in Ended

\* Only a call with a file saves, and only what is stored is attached.
SaveInv(c) == save[c].step # "none" => call[c].pdf \in Pdf

UploadInv(u) ==
    upload[u].step \in {"read", "attach"} => <<upload[u].run, upload[u].pdf>> \in objects

ReviewInv ==
    /\ TypeOK
    /\ \A r \in Run : RunInv(r) /\ EntryInv(r)
    /\ \A c \in Call : CallInv(c) /\ SaveInv(c)
    /\ \A u \in Upload : UploadInv(u)

----------------------------------------------------------------------------
\* The rows

\* A row is in one of five shapes, told apart by its status.
LEMMA RowShape ==
    ASSUME NEW q, q \in Row
    PROVE  /\ q.version \in Nat
           /\ q.status \in {"absent", "awaiting_upload"} =>
                 /\ q.pdf = NoPdf /\ q.doc = NoPdf
                 /\ q.lease = NoCall /\ q.live = FALSE
           /\ q.status \in {"uploaded", "failed", "cancelled"} =>
                 /\ q.pdf \in Pdf /\ q.doc = NoPdf
                 /\ q.lease = NoCall /\ q.live = FALSE
           /\ q.status = "running" =>
                 /\ q.pdf \in Pdf /\ q.doc = NoPdf
                 /\ q.lease \in Call /\ q.live \in BOOLEAN
           /\ q.status \in {"draft", "no_evidence"} =>
                 /\ q.pdf \in Pdf /\ q.doc \in Pdf
                 /\ q.lease = NoCall /\ q.live = FALSE
           /\ q.status \in {"absent", "awaiting_upload", "uploaded", "failed",
                            "cancelled", "running", "draft", "no_evidence"}
  BY DEF Row

\* What every step keeps of a row: its file once it has one, its claim until
\* the run ends, and its end.
Keeps(old, new) ==
    /\ old.pdf \in Pdf => new.pdf = old.pdf
    /\ old.status \in Ended => new = old
    /\ old.lease # NoCall => new.lease = old.lease \/ new.status \in Ended

\* The updates of the repository keep the shape of the row: an insert waits for
\* its file.
LEMMA CreatedRow ==
    ASSUME row \in [Run -> Row], NEW r \in Run, Create(r)
    PROVE  /\ row' \in [Run -> Row]
           /\ \A q \in Run \ {r} : row'[q] = row[q]
           /\ row'[r].status = "awaiting_upload"
<1>1. row[r] \in Row /\ row[r].status = "absent"  BY DEF Create
<1>2. row' = [row EXCEPT ![r] = [[row[r] EXCEPT !.status = "awaiting_upload"]
                                        EXCEPT !.version = 1]]
  BY DEF Create
<1>3. PICK new : new = [[row[r] EXCEPT !.status = "awaiting_upload"] EXCEPT !.version = 1]
  OBVIOUS
<1>4. new \in Row /\ new.status = "awaiting_upload"  BY <1>1, <1>3 DEF Row
<1> QED  BY <1>2, <1>3, <1>4

\* An attach gives the row its file.
LEMMA AttachedRow ==
    ASSUME row \in [Run -> Row], NEW r \in Run, NEW pdf \in Pdf,
           row[r].status = "awaiting_upload", Attached(r, pdf)
    PROVE  /\ row' \in [Run -> Row]
           /\ \A q \in Run \ {r} : row'[q] = row[q]
           /\ row'[r].status = "uploaded" /\ row'[r].pdf = pdf
<1>1. row[r] \in Row  OBVIOUS
<1>v. PICK n \in Nat : n = row[r].version + 1
  <2>1. row[r].version \in Nat  BY <1>1, RowShape
  <2> QED  BY <2>1
<1>2. row' = [row EXCEPT ![r] = [[[row[r] EXCEPT !.status = "uploaded"] EXCEPT !.pdf = pdf]
                                        EXCEPT !.version = n]]
  BY <1>v DEF Attached
<1>3. PICK new : new = [[[row[r] EXCEPT !.status = "uploaded"] EXCEPT !.pdf = pdf]
                               EXCEPT !.version = n]
  OBVIOUS
<1>4. new \in Row /\ new.status = "uploaded" /\ new.pdf = pdf  BY <1>1, <1>3 DEF Row
<1> QED  BY <1>2, <1>3, <1>4

\* A claim gives it a lease and leaves the file.
LEMMA ClaimedRow ==
    ASSUME row \in [Run -> Row], NEW r \in Run, NEW c \in Call,
           row[r].status = "uploaded", Claimed(r, c)
    PROVE  /\ row' \in [Run -> Row]
           /\ \A q \in Run \ {r} : row'[q] = row[q]
           /\ row'[r].status = "running" /\ row'[r].pdf = row[r].pdf
           /\ row'[r].lease = c
<1>1. row[r] \in Row  OBVIOUS
<1>v. PICK n \in Nat : n = row[r].version + 1
  <2>1. row[r].version \in Nat  BY <1>1, RowShape
  <2> QED  BY <2>1
<1>2. row' = [row EXCEPT ![r] = [[[[row[r] EXCEPT !.status = "running"] EXCEPT !.lease = c]
                                         EXCEPT !.live = TRUE]
                                         EXCEPT !.version = n]]
  BY <1>v DEF Claimed
<1>3. PICK new : new = [[[[row[r] EXCEPT !.status = "running"] EXCEPT !.lease = c]
                                EXCEPT !.live = TRUE]
                                EXCEPT !.version = n]
  OBVIOUS
<1>4. new \in Row /\ new.status = "running" /\ new.pdf = row[r].pdf /\ new.lease = c
  BY <1>1, <1>3 DEF Row
<1> QED  BY <1>2, <1>3, <1>4

\* A result leaves the file too and ends the lease.
LEMMA FinishedRow ==
    ASSUME row \in [Run -> Row], NEW r \in Run, NEW status \in {"draft", "no_evidence"},
           NEW pdf \in Pdf, row[r].status = "running", Finished(r, status, pdf)
    PROVE  /\ row' \in [Run -> Row]
           /\ \A q \in Run \ {r} : row'[q] = row[q]
           /\ row'[r].status = status /\ row'[r].pdf = row[r].pdf /\ row'[r].doc = pdf
<1>1. row[r] \in Row  OBVIOUS
<1>v. PICK n \in Nat : n = row[r].version + 1
  <2>1. row[r].version \in Nat  BY <1>1, RowShape
  <2> QED  BY <2>1
<1>2. row' = [row EXCEPT ![r] = [[[[[row[r] EXCEPT !.status = status] EXCEPT !.doc = pdf]
                                          EXCEPT !.lease = NoCall] EXCEPT !.live = FALSE]
                                          EXCEPT !.version = n]]
  BY <1>v DEF Finished
<1>3. PICK new : new = [[[[[row[r] EXCEPT !.status = status] EXCEPT !.doc = pdf]
                                 EXCEPT !.lease = NoCall] EXCEPT !.live = FALSE]
                                 EXCEPT !.version = n]
  OBVIOUS
<1>4. new \in Row /\ new.status = status /\ new.pdf = row[r].pdf /\ new.doc = pdf
  BY <1>1, <1>3 DEF Row
<1> QED  BY <1>2, <1>3, <1>4

\* So does a failure.
LEMMA FailedRow ==
    ASSUME row \in [Run -> Row], NEW r \in Run, NEW status \in {"failed", "cancelled"},
           row[r].status = "running", Failed(r, status)
    PROVE  /\ row' \in [Run -> Row]
           /\ \A q \in Run \ {r} : row'[q] = row[q]
           /\ row'[r].status = status /\ row'[r].pdf = row[r].pdf
<1>1. row[r] \in Row  OBVIOUS
<1>v. PICK n \in Nat : n = row[r].version + 1
  <2>1. row[r].version \in Nat  BY <1>1, RowShape
  <2> QED  BY <2>1
<1>2. row' = [row EXCEPT ![r] = [[[[row[r] EXCEPT !.status = status]
                                         EXCEPT !.lease = NoCall] EXCEPT !.live = FALSE]
                                         EXCEPT !.version = n]]
  BY <1>v DEF Failed
<1>3. PICK new : new = [[[[row[r] EXCEPT !.status = status]
                                EXCEPT !.lease = NoCall] EXCEPT !.live = FALSE]
                                EXCEPT !.version = n]
  OBVIOUS
<1>4. new \in Row /\ new.status = status /\ new.pdf = row[r].pdf  BY <1>1, <1>3 DEF Row
<1> QED  BY <1>2, <1>3, <1>4

\* An expired lease still names its call.
LEMMA ExpiredRow ==
    ASSUME row \in [Run -> Row], NEW r \in Run, LeaseExpires(r)
    PROVE  /\ row' \in [Run -> Row]
           /\ \A q \in Run \ {r} : row'[q] = row[q]
           /\ row[r].status = "running" /\ row'[r].status = "running"
           /\ row'[r].pdf = row[r].pdf /\ row'[r].lease = row[r].lease
<1>1. row[r] \in Row /\ row[r].live  BY DEF LeaseExpires
<1>2. row' = [row EXCEPT ![r] = [row[r] EXCEPT !.live = FALSE]]  BY DEF LeaseExpires
<1>3. PICK new : new = [row[r] EXCEPT !.live = FALSE]
  OBVIOUS
<1>4. /\ row[r].status = "running" /\ new \in Row /\ new.status = "running"
      /\ new.pdf = row[r].pdf /\ new.lease = row[r].lease
  BY <1>1, <1>3 DEF Row
<1> QED  BY <1>2, <1>3, <1>4

\* Only these steps write the table.
RowWrites ==
    \/ \E r \in Run : Create(r) \/ LeaseExpires(r)
    \/ \E u \in Upload : Attach(u)
    \/ \E c \in Call : Take(c) \/ SaveWrite(c) \/ CleanWrite(c)

\* No step but these changes a row.
LEMMA OtherwiseRowsStay == ASSUME Next PROVE RowWrites \/ row' = row
  BY DEF Next, RowWrites, UploadStep, RunStep, SaveStep, CleanStep, BeginUpload,
         PutObject, ReadForAttach, OpenStream, Acquire, ReadForClaim, Register,
         CancelledInClaim, Load, Conclude, Returned, Answer, SaveRequire, SaveRead,
         SaveStopped, Fail, CleanRead, CleanFails, Leave, Disconnect, Close, Exit,
         Revoke

\* No step takes a row its file, its claim or its end.
LEMMA RowsKeep ==
    ASSUME TypeOK, \A c \in Call : SaveInv(c), Next
    PROVE  row' \in [Run -> Row] /\ \A r \in Run : Keeps(row[r], row'[r])
<1> USE DEF TypeOK, Keeps, Ended
<1>0. row \in [Run -> Row]  OBVIOUS
<1>1. \A r \in Run : row[r] \in Row  BY <1>0
<1>2. ASSUME NEW r \in Run, \A q \in Run \ {r} : row'[q] = row[q],
             Keeps(row[r], row'[r])
      PROVE  \A q \in Run : Keeps(row[q], row'[q])
  BY <1>2
<1>3. ASSUME NEW r \in Run, Create(r)
      PROVE  row' \in [Run -> Row] /\ \A q \in Run : Keeps(row[q], row'[q])
  <2>1. row[r].status = "absent"  BY <1>3 DEF Create
  <2>2. row[r].pdf = NoPdf /\ row[r].lease = NoCall  BY <1>1, <2>1, RowShape
  <2>3. Keeps(row[r], row'[r])  BY <2>1, <2>2, ConstantsAssumption
  <2> QED  BY <1>0, <1>2, <1>3, <2>3, CreatedRow
<1>4. ASSUME NEW r \in Run, LeaseExpires(r)
      PROVE  row' \in [Run -> Row] /\ \A q \in Run : Keeps(row[q], row'[q])
  <2>1. Keeps(row[r], row'[r])  BY <1>0, <1>4, ExpiredRow
  <2> QED  BY <1>0, <1>2, <1>4, <2>1, ExpiredRow
<1>5. ASSUME NEW u \in Upload, Attach(u)
      PROVE  row' \in [Run -> Row] /\ \A q \in Run : Keeps(row[q], row'[q])
  <2>1. CASE row' = row  BY <1>0, <2>1
  <2>2. CASE row' # row
    <3>1. PICK r \in Run : r = upload[u].run  OBVIOUS
    <3>2. PICK pdf \in Pdf : pdf = upload[u].pdf  OBVIOUS
    <3>3. Attached(r, pdf) /\ row[r].status = "awaiting_upload"
      BY <1>5, <2>2, <3>1, <3>2 DEF Attach, Unchanged
    <3>4. row[r].pdf = NoPdf /\ row[r].lease = NoCall  BY <1>1, <3>3, RowShape
    <3>5. Keeps(row[r], row'[r])  BY <3>3, <3>4, ConstantsAssumption
    <3> QED  BY <1>0, <1>2, <3>3, <3>5, AttachedRow
  <2> QED  BY <2>1, <2>2
<1>6. ASSUME NEW c \in Call, Take(c)
      PROVE  row' \in [Run -> Row] /\ \A q \in Run : Keeps(row[q], row'[q])
  <2>1. CASE row' = row  BY <1>0, <2>1
  <2>2. CASE row' # row
    <3>1. PICK r \in Run : r = call[c].run  OBVIOUS
    <3>2. Claimed(r, c) /\ row[r].status = "uploaded"
      BY <1>6, <2>2, <3>1 DEF Take, Unchanged
    <3>3. row[r].lease = NoCall  BY <1>1, <3>2, RowShape
    <3>4. Keeps(row[r], row'[r])  BY <1>0, <3>2, <3>3, ClaimedRow
    <3> QED  BY <1>0, <1>2, <3>2, <3>4, ClaimedRow
  <2> QED  BY <2>1, <2>2
<1>7. ASSUME NEW c \in Call, SaveWrite(c)
      PROVE  row' \in [Run -> Row] /\ \A q \in Run : Keeps(row[q], row'[q])
  <2>1. CASE row' = row  BY <1>0, <2>1
  <2>2. CASE row' # row
    <3>1. PICK r \in Run : r = call[c].run  OBVIOUS
    <3>2. PICK status \in {"draft", "no_evidence"} : status = save[c].result  OBVIOUS
    <3>3. call[c].pdf \in Pdf  BY <1>7 DEF SaveWrite, SaveInv
    <3>4. Finished(r, status, call[c].pdf) /\ row[r].status = "running"
      BY <1>7, <2>2, <3>1, <3>2 DEF SaveWrite, Unchanged
    <3>5. Keeps(row[r], row'[r])  BY <1>0, <3>3, <3>4, FinishedRow
    <3> QED  BY <1>0, <1>2, <3>3, <3>4, <3>5, FinishedRow
  <2> QED  BY <2>1, <2>2
<1>8. ASSUME NEW c \in Call, CleanWrite(c)
      PROVE  row' \in [Run -> Row] /\ \A q \in Run : Keeps(row[q], row'[q])
  <2>1. CASE row' = row  BY <1>0, <2>1
  <2>2. CASE row' # row
    <3>1. PICK r \in Run : r = call[c].run  OBVIOUS
    <3>2. PICK status \in {"failed", "cancelled"} : status = clean[c].target  OBVIOUS
    <3>3. Failed(r, status) /\ row[r].status = "running"
      BY <1>8, <2>2, <3>1, <3>2 DEF CleanWrite, Unchanged
    <3>4. Keeps(row[r], row'[r])  BY <1>0, <3>3, FailedRow
    <3> QED  BY <1>0, <1>2, <3>3, <3>4, FailedRow
  <2> QED  BY <2>1, <2>2
<1>9. CASE row' = row  BY <1>0, <1>9
<1> QED  BY <1>3, <1>4, <1>5, <1>6, <1>7, <1>8, <1>9, OtherwiseRowsStay DEF RowWrites

----------------------------------------------------------------------------
\* The calls

CallRec == [step : CallStep, run : Run, pdf : Pdf \cup {NoPdf}, seen : Nat,
            cancelled : BOOLEAN]

\* The steps of the calls the registry may name.
Entered == Reviewing \cup {"cleanup"}

\* The call has just claimed its run, with the file the row has.
Took(c) ==
    /\ row'[call[c].run].lease = c
    /\ call'[c].pdf \in Pdf
    /\ call'[c].pdf = row'[call[c].run].pdf

\* What a step leaves of a call: its run, its file unless it takes one, and
\* its place behind the claim; it leaves the registry when it returns.
Follows(c) ==
    /\ call'[c].run = call[c].run
    /\ call'[c].pdf = call[c].pdf \/ (call[c].step = "take" /\ Took(c))
    /\ call'[c].step \in Holding => call[c].step \in Holding \/ Took(c)
    /\ call[c].step \in Holding \cup {"ended"} => call'[c].step \in Holding \cup {"ended"}
    /\ call[c].step \in Entered =>
          call'[c].step \in Entered \/ active'[call[c].run] = NoCall

\* One call goes to another step.
LEMMA GoesOn ==
    ASSUME call \in [Call -> CallRec], NEW c \in Call, NEW step \in CallStep, Goes(c, step)
    PROVE  /\ call' \in [Call -> CallRec]
           /\ \A d \in Call \ {c} : call'[d] = call[d]
           /\ call'[c].run = call[c].run /\ call'[c].pdf = call[c].pdf
           /\ call'[c].step = step
<1>1. PICK new : new = [call[c] EXCEPT !.step = step]
  OBVIOUS
<1>2. /\ new \in CallRec /\ new.step = step
      /\ new.run = call[c].run /\ new.pdf = call[c].pdf
  BY <1>1 DEF CallRec
<1> QED  BY <1>1, <1>2 DEF Goes

\* A call that is over keeps its run and its file.
LEMMA OverRecord ==
    ASSUME NEW old, old \in CallRec
    PROVE  /\ Over(old) \in CallRec
           /\ Over(old).run = old.run /\ Over(old).pdf = old.pdf
           /\ Over(old).step = "ended"
<1>1. "ended" \in CallStep  BY DEF CallStep
<1>2. PICK first : first = [old EXCEPT !.step = "ended"]  OBVIOUS
<1>3. /\ first \in CallRec /\ first.step = "ended"
      /\ first.run = old.run /\ first.pdf = old.pdf
  BY <1>1, <1>2 DEF CallRec
<1>4. PICK second : second = [first EXCEPT !.seen = 0]  OBVIOUS
<1>5. /\ second \in CallRec /\ second.step = "ended"
      /\ second.run = old.run /\ second.pdf = old.pdf
  BY <1>3, <1>4 DEF CallRec
<1>6. Over(old) = [second EXCEPT !.cancelled = FALSE]  BY <1>2, <1>4 DEF Over
<1> QED  BY <1>5, <1>6 DEF CallRec

\* One call returns.
LEMMA EndsThere ==
    ASSUME call \in [Call -> CallRec], NEW c \in Call, Ends(c)
    PROVE  /\ call' \in [Call -> CallRec]
           /\ \A d \in Call \ {c} : call'[d] = call[d]
           /\ call'[c].run = call[c].run /\ call'[c].pdf = call[c].pdf
           /\ call'[c].step = "ended"
<1>1. call[c] \in CallRec  OBVIOUS
<1>2. PICK new : new = Over(call[c])  OBVIOUS
<1>3. call' = [call EXCEPT ![c] = new]  BY <1>2 DEF Ends
<1> QED  BY <1>1, <1>2, <1>3, OverRecord

\* A cancellation reaches a call without moving it.
LEMMA CancelLeaves ==
    ASSUME call \in [Call -> CallRec], NEW calls, Cancel(calls)
    PROVE  /\ call' \in [Call -> CallRec]
           /\ \A d \in Call : /\ call'[d].run = call[d].run
                              /\ call'[d].pdf = call[d].pdf
                              /\ call'[d].step = call[d].step
<1>1. ASSUME NEW d \in Call
      PROVE  /\ call'[d] \in CallRec
             /\ call'[d].run = call[d].run /\ call'[d].pdf = call[d].pdf
             /\ call'[d].step = call[d].step
  <2>1. call[d] \in CallRec  OBVIOUS
  <2>2. call'[d] = [call[d] EXCEPT !.cancelled = TRUE] \/ call'[d] = call[d]
    BY DEF Cancel
  <2> QED  BY <2>1, <2>2 DEF CallRec
<1>2. call' = [d \in Call |-> call'[d]]  BY DEF Cancel
<1> QED  BY <1>1, <1>2

\* Only these steps move calls.
CallMoves ==
    \E c \in Call :
       \/ OpenStream(c) \/ Acquire(c) \/ ReadForClaim(c) \/ Take(c) \/ Register(c)
       \/ CancelledInClaim(c) \/ Load(c) \/ Returned(c) \/ Answer(c) \/ Fail(c)
       \/ Leave(c) \/ Disconnect(c)

\* No step but these, a shutdown and an exit changes a call.
LEMMA OtherwiseCallsStay == ASSUME Next PROVE CallMoves \/ Close \/ Exit \/ call' = call
  BY DEF Next, CallMoves, UploadStep, RunStep, SaveStep, CleanStep, Create, LeaseExpires,
         BeginUpload, PutObject, ReadForAttach, Attach, Conclude, SaveRequire, SaveRead,
         SaveWrite, SaveStopped, CleanRead, CleanWrite, CleanFails, Revoke

\* Nothing of a call but a claim changes what it works on.
LEMMA CallsFollow ==
    ASSUME TypeOK, Next
    PROVE  call' \in [Call -> CallRec] /\ \A d \in Call : Follows(d)
<1>0. call \in [Call -> CallRec]  BY DEF TypeOK, CallRec
<1>1. ASSUME NEW d \in Call, call'[d] = call[d]
      PROVE  Follows(d)
  BY <1>1 DEF Follows
<1>s. {"acquire", "claim", "take", "taken", "load", "review", "reply", "cleanup", "ended"}
         \subseteq CallStep
  BY DEF CallStep, InSlot, Reviewing
<1>2. ASSUME NEW c \in Call,
             call' \in [Call -> CallRec], \A d \in Call \ {c} : call'[d] = call[d],
             Follows(c)
      PROVE  call' \in [Call -> CallRec] /\ \A d \in Call : Follows(d)
  BY <1>1, <1>2
<1>3. ASSUME NEW c \in Call, OpenStream(c)
      PROVE  call' \in [Call -> CallRec] /\ \A d \in Call : Follows(d)
  <2>1. call[c].step = "idle"  BY <1>3 DEF OpenStream
  <2>2. CASE Goes(c, "acquire")
    <3>1. Follows(c)
      BY <1>0, <1>s, <2>1, <2>2, GoesOn DEF Follows, Holding, Entered, Reviewing
    <3> QED  BY <1>0, <1>2, <1>s, <2>2, <3>1, GoesOn
  <2>3. CASE Ends(c)
    <3>1. Follows(c)
      BY <1>0, <2>1, <2>3, EndsThere DEF Follows, Holding, Entered, Reviewing
    <3> QED  BY <1>0, <1>2, <2>3, <3>1, EndsThere
  <2> QED  BY <1>3, <2>2, <2>3 DEF OpenStream
<1>4. ASSUME NEW c \in Call, Acquire(c)
      PROVE  call' \in [Call -> CallRec] /\ \A d \in Call : Follows(d)
  <2>1. call[c].step = "acquire"  BY <1>4 DEF Acquire
  <2>2. CASE Goes(c, "claim")
    <3>1. Follows(c)
      BY <1>0, <1>s, <2>1, <2>2, GoesOn DEF Follows, Holding, Entered, Reviewing
    <3> QED  BY <1>0, <1>2, <1>s, <2>2, <3>1, GoesOn
  <2>3. CASE Ends(c)
    <3>1. Follows(c)
      BY <1>0, <2>1, <2>3, EndsThere DEF Follows, Holding, Entered, Reviewing
    <3> QED  BY <1>0, <1>2, <2>3, <3>1, EndsThere
  <2> QED  BY <1>4, <2>2, <2>3 DEF Acquire
<1>5. ASSUME NEW c \in Call, ReadForClaim(c)
      PROVE  call' \in [Call -> CallRec] /\ \A d \in Call : Follows(d)
  <2>1. call[c].step = "claim"  BY <1>5 DEF ReadForClaim
  <2>2. CASE Ends(c)
    <3>1. Follows(c)
      BY <1>0, <2>1, <2>2, EndsThere DEF Follows, Holding, Entered, Reviewing
    <3> QED  BY <1>0, <1>2, <2>2, <3>1, EndsThere
  <2>3. CASE ~Ends(c)
    <3>1. PICK r \in Run : r = call[c].run  BY <1>0 DEF CallRec
    <3>2. row[r].version \in Nat  BY RowShape DEF TypeOK
    <3>3. PICK new : new = [[call[c] EXCEPT !.step = "take"] EXCEPT !.seen = row[r].version]
      OBVIOUS
    <3>4. call' = [call EXCEPT ![c] = new]
      BY <1>5, <2>3, <3>1, <3>3 DEF ReadForClaim
    <3>5. /\ new \in CallRec /\ new.step = "take"
          /\ new.run = call[c].run /\ new.pdf = call[c].pdf
      BY <1>0, <1>s, <3>2, <3>3 DEF CallRec
    <3>6. Follows(c)
      BY <1>0, <2>1, <3>4, <3>5 DEF Follows, Holding, Entered, Reviewing
    <3> QED  BY <1>0, <1>2, <3>4, <3>5, <3>6
  <2> QED  BY <2>2, <2>3
<1>6. ASSUME NEW c \in Call, Take(c)
      PROVE  call' \in [Call -> CallRec] /\ \A d \in Call : Follows(d)
  <2>1. call[c].step = "take"  BY <1>6 DEF Take
  <2>2. CASE Ends(c)
    <3>1. Follows(c)
      BY <1>0, <2>1, <2>2, EndsThere DEF Follows, Holding, Entered, Reviewing
    <3> QED  BY <1>0, <1>2, <2>2, <3>1, EndsThere
  <2>3. CASE ~Ends(c)
    <3>1. PICK r \in Run : r = call[c].run  BY <1>0 DEF CallRec
    <3>2. Claimed(r, c) /\ row[r].status = "uploaded"
      BY <1>6, <2>3, <3>1 DEF Take, Unchanged
    <3>3. row[r].pdf \in Pdf  BY <3>2, RowShape DEF TypeOK
    <3>4. PICK new : new = [[[call[c] EXCEPT !.step = "taken"] EXCEPT !.pdf = row[r].pdf]
                                  EXCEPT !.seen = 0]
      OBVIOUS
    <3>5. call' = [call EXCEPT ![c] = new]
      BY <1>6, <2>3, <3>1, <3>4 DEF Take
    <3>6. /\ new \in CallRec /\ new.step = "taken"
          /\ new.run = call[c].run /\ new.pdf = row[r].pdf
      BY <1>0, <1>s, <3>3, <3>4 DEF CallRec
    <3>7. row'[r].lease = c /\ row'[r].pdf = row[r].pdf
      BY <3>2, ClaimedRow DEF TypeOK
    <3>8. Took(c)  BY <1>0, <3>1, <3>3, <3>5, <3>6, <3>7 DEF Took
    <3>9. Follows(c)
      BY <1>0, <2>1, <3>5, <3>6, <3>8 DEF Follows, Holding, Entered, Reviewing
    <3> QED  BY <1>0, <1>2, <3>5, <3>6, <3>9
  <2> QED  BY <2>2, <2>3
<1>7. ASSUME NEW c \in Call, Register(c)
      PROVE  call' \in [Call -> CallRec] /\ \A d \in Call : Follows(d)
  <2>1. call[c].step = "taken" /\ Goes(c, "load")  BY <1>7 DEF Register
  <2>2. Follows(c)
    BY <1>0, <1>s, <2>1, GoesOn DEF Follows, Holding, Entered, Reviewing
  <2> QED  BY <1>0, <1>2, <1>s, <2>1, <2>2, GoesOn
<1>8. ASSUME NEW c \in Call, CancelledInClaim(c)
      PROVE  call' \in [Call -> CallRec] /\ \A d \in Call : Follows(d)
  <2>1. call[c].step \in {"acquire", "claim", "take", "taken"} /\ Ends(c)
    BY <1>8 DEF CancelledInClaim
  <2>2. Follows(c)
    BY <1>0, <2>1, EndsThere DEF Follows, Holding, Entered, Reviewing
  <2> QED  BY <1>0, <1>2, <2>1, <2>2, EndsThere
<1>9. ASSUME NEW c \in Call, NEW step \in Entered, call[c].step \in Entered, Goes(c, step)
      PROVE  call' \in [Call -> CallRec] /\ \A d \in Call : Follows(d)
  <2>1. step \in CallStep  BY <1>s DEF Entered, Reviewing
  <2>2. Follows(c)
    BY <1>0, <1>9, <2>1, GoesOn DEF Follows, Holding, Entered, Reviewing
  <2> QED  BY <1>0, <1>2, <1>9, <2>1, <2>2, GoesOn
<1>10. ASSUME NEW c \in Call, Load(c) \/ Returned(c) \/ Fail(c)
       PROVE  call' \in [Call -> CallRec] /\ \A d \in Call : Follows(d)
  <2>1. call[c].step \in Entered
    BY <1>10 DEF Load, Returned, Fail, Entered, Reviewing
  <2>2. Goes(c, "review") \/ Goes(c, "reply") \/ Goes(c, "cleanup")
    BY <1>10 DEF Load, Returned, Fail
  <2> QED  BY <1>9, <2>1, <2>2 DEF Entered, Reviewing
<1>11. ASSUME NEW c \in Call, Answer(c) \/ Leave(c)
       PROVE  call' \in [Call -> CallRec] /\ \A d \in Call : Follows(d)
  <2>1. Ends(c) /\ active' = [active EXCEPT ![call[c].run] = NoCall]
    BY <1>11 DEF Answer, Leave
  <2>2. active'[call[c].run] = NoCall  BY <1>0, <2>1 DEF TypeOK, CallRec
  <2>3. call[c].step \in Entered
    BY <1>11 DEF Answer, Leave, Entered, Reviewing
  <2>4. Follows(c)
    BY <1>0, <2>1, <2>2, <2>3, EndsThere DEF Follows, Holding, Entered, Reviewing
  <2> QED  BY <1>0, <1>2, <2>1, <2>4, EndsThere
<1>12. ASSUME NEW calls, Cancel(calls)
       PROVE  call' \in [Call -> CallRec] /\ \A d \in Call : Follows(d)
  BY <1>0, <1>12, CancelLeaves DEF Follows
<1>13. ASSUME Exit
       PROVE  call' \in [Call -> CallRec] /\ \A d \in Call : Follows(d)
  <2>1. /\ call' = [c \in Call |-> IF c \in Unfinished THEN Over(call[c]) ELSE call[c]]
        /\ active' = [r \in Run |-> NoCall]
    BY <1>13 DEF Exit
  <2>2. ASSUME NEW d \in Call
        PROVE  call'[d] \in CallRec /\ Follows(d)
    <3>1. call[d] \in CallRec /\ call[d].run \in Run  BY <1>0 DEF CallRec
    <3>2. active'[call[d].run] = NoCall  BY <2>1, <3>1
    <3>3. CASE d \in Unfinished
      <4>1. call'[d] = Over(call[d])  BY <2>1, <3>3
      <4> QED  BY <3>1, <3>2, <4>1, OverRecord DEF Follows, Holding, Entered, Reviewing
    <3>4. CASE d \notin Unfinished
      BY <1>1, <2>1, <3>1, <3>4
    <3> QED  BY <3>3, <3>4
  <2> QED  BY <2>1, <2>2
<1>14. ASSUME NEW c \in Call, Disconnect(c)
       PROVE  call' \in [Call -> CallRec] /\ \A d \in Call : Follows(d)
  BY <1>12, <1>14 DEF Disconnect
<1>15. ASSUME Close
       PROVE  call' \in [Call -> CallRec] /\ \A d \in Call : Follows(d)
  BY <1>12, <1>15 DEF Close
<1>16. CASE call' = call  BY <1>0, <1>1, <1>16
<1> QED  BY <1>3, <1>4, <1>5, <1>6, <1>7, <1>8, <1>10, <1>11, <1>13, <1>14, <1>15, <1>16,
            OtherwiseCallsStay DEF CallMoves

----------------------------------------------------------------------------
\* The uploads

UploadRec == [step : {"idle", "put", "read", "attach", "ended"}, run : Run, pdf : Pdf,
              seen : Nat]

\* Only these steps move uploads.
LEMMA OtherwiseUploadsStay ==
    ASSUME Next
    PROVE  Exit \/ upload' = upload \/ \E u \in Upload : UploadStep(u)
  BY DEF Next, RunStep, SaveStep, CleanStep, Create, LeaseExpires, OpenStream, Acquire,
         ReadForClaim, Take, Register, CancelledInClaim, Load, Returned, Answer, Fail,
         Leave, Disconnect, Close, Conclude, SaveRequire, SaveRead, SaveWrite,
         SaveStopped, CleanRead, CleanWrite, CleanFails, Revoke

\* Only a PUT adds an object, and no step removes one.
LEMMA ObjectsGrow ==
    ASSUME TypeOK, Next
    PROVE  /\ objects \subseteq objects'
           /\ objects' \subseteq Run \X Pdf
<1>1. ASSUME NEW u \in Upload, PutObject(u)
      PROVE  objects \subseteq objects' /\ objects' \subseteq Run \X Pdf
  BY <1>1 DEF PutObject, TypeOK
<1>2. CASE objects' = objects  BY <1>2 DEF TypeOK
<1>3. objects' = objects \/ \E u \in Upload : PutObject(u)
  BY DEF Next, UploadStep, RunStep, SaveStep, CleanStep, BeginUpload, ReadForAttach,
         Attach, Create, LeaseExpires, OpenStream, Acquire, ReadForClaim, Take, Register,
         CancelledInClaim, Load, Returned, Answer, Fail, Leave, Disconnect, Close, Exit,
         Conclude, SaveRequire, SaveRead, SaveWrite, SaveStopped, CleanRead, CleanWrite,
         CleanFails, Revoke
<1> QED  BY <1>1, <1>2, <1>3

\* An upload goes on with its run and its file, and past the PUT the file is
\* stored.
LEMMA UploadsFollow ==
    ASSUME TypeOK, \A u \in Upload : UploadInv(u), Next
    PROVE  upload' \in [Upload -> UploadRec] /\ \A u \in Upload : UploadInv(u)'
<1>0. upload \in [Upload -> UploadRec]  BY DEF TypeOK, UploadRec
<1>1. objects \subseteq objects'  BY ObjectsGrow
<1>2. ASSUME NEW u \in Upload, NEW step \in {"put", "read", "ended"}, UploadGoes(u, step),
             step = "read" => <<upload[u].run, upload[u].pdf>> \in objects'
      PROVE  upload' \in [Upload -> UploadRec] /\ \A v \in Upload : UploadInv(v)'
  <2>1. PICK new : new = [[upload[u] EXCEPT !.step = step] EXCEPT !.seen = 0]
    OBVIOUS
  <2>2. /\ new \in UploadRec /\ new.step = step
        /\ new.run = upload[u].run /\ new.pdf = upload[u].pdf
    BY <1>0, <2>1 DEF UploadRec
  <2>3. upload' = [upload EXCEPT ![u] = new]  BY <1>2, <2>1 DEF UploadGoes
  <2> QED  BY <1>0, <1>1, <1>2, <2>2, <2>3 DEF UploadInv
<1>3. ASSUME NEW u \in Upload, UploadStep(u)
      PROVE  upload' \in [Upload -> UploadRec] /\ \A v \in Upload : UploadInv(v)'
  <2>1. CASE BeginUpload(u)
    <3>1. UploadGoes(u, "put") \/ UploadGoes(u, "ended")  BY <2>1 DEF BeginUpload
    <3> QED  BY <1>2, <3>1
  <2>2. CASE PutObject(u)
    <3>1. \/ /\ UploadGoes(u, "read")
             /\ objects' = objects \cup {<<upload[u].run, upload[u].pdf>>}
          \/ UploadGoes(u, "ended")
      BY <2>2 DEF PutObject
    <3> QED  BY <1>2, <3>1
  <2>3. CASE ReadForAttach(u)
    <3>1. CASE UploadGoes(u, "ended")  BY <1>2, <3>1
    <3>2. CASE ~UploadGoes(u, "ended")
      <4>1. PICK r \in Run : r = upload[u].run  BY <1>0 DEF UploadRec
      <4>2. row[r].version \in Nat  BY RowShape DEF TypeOK
      <4>3. PICK new : new = [[upload[u] EXCEPT !.step = "attach"]
                                     EXCEPT !.seen = row[r].version]
        OBVIOUS
      <4>4. /\ new \in UploadRec
            /\ new.run = upload[u].run /\ new.pdf = upload[u].pdf
        BY <1>0, <4>2, <4>3 DEF UploadRec
      <4>5. upload[u].step = "read" /\ upload' = [upload EXCEPT ![u] = new]
        BY <2>3, <3>2, <4>1, <4>3 DEF ReadForAttach
      <4> QED  BY <1>0, <1>1, <4>4, <4>5 DEF UploadInv
    <3> QED  BY <3>1, <3>2
  <2>4. CASE Attach(u)
    BY <1>2, <2>4 DEF Attach
  <2> QED  BY <1>3, <2>1, <2>2, <2>3, <2>4 DEF UploadStep
<1>4. ASSUME Exit
      PROVE  upload' \in [Upload -> UploadRec] /\ \A v \in Upload : UploadInv(v)'
  <2>1. upload' = [u \in Upload |-> IF upload[u].step # "idle"
                                    THEN [upload[u] EXCEPT !.step = "ended", !.seen = 0]
                                    ELSE upload[u]]
    BY <1>4 DEF Exit
  <2>2. ASSUME NEW u \in Upload
        PROVE  upload'[u] \in UploadRec /\ upload'[u].step \in {"idle", "ended"}
    <3>1. upload[u] \in UploadRec  BY <1>0
    <3>2. CASE upload[u].step # "idle"
      <4>1. PICK first : first = [upload[u] EXCEPT !.step = "ended"]  OBVIOUS
      <4>2. first \in UploadRec /\ first.step = "ended"  BY <3>1, <4>1 DEF UploadRec
      <4>3. upload'[u] = [first EXCEPT !.seen = 0]  BY <2>1, <3>2, <4>1
      <4> QED  BY <4>2, <4>3 DEF UploadRec
    <3>3. CASE upload[u].step = "idle"
      BY <2>1, <3>1, <3>3
    <3> QED  BY <3>2, <3>3
  <2> QED  BY <2>1, <2>2 DEF UploadInv
<1>5. CASE upload' = upload  BY <1>0, <1>1, <1>5 DEF UploadInv
<1> QED  BY <1>3, <1>4, <1>5, OtherwiseUploadsStay

----------------------------------------------------------------------------
\* The tasks of a call and the registry

SaveRec == [step : {"none", "require", "read", "write", "saved", "failed"},
            result : {"draft", "no_evidence"}, seen : Nat]

CleanRec == [step : {"none", "read", "write", "ended"}, target : {"failed", "cancelled"},
             seen : Nat]

\* Only these steps move the saving tasks.
SaveMoves ==
    \E c \in Call :
       \/ SaveStep(c) \/ SaveStopped(c)
       \/ \E result \in {"draft", "no_evidence"} : Conclude(c, result)

\* No step but these and an exit changes a saving task.
LEMMA OtherwiseSavesStay == ASSUME Next PROVE SaveMoves \/ Exit \/ save' = save
  BY DEF Next, SaveMoves, UploadStep, RunStep, CleanStep, Create, LeaseExpires,
         BeginUpload, PutObject, ReadForAttach, Attach, OpenStream, Acquire,
         ReadForClaim, Take, Register, CancelledInClaim, Load, Returned, Answer, Fail,
         Leave, Disconnect, Close, CleanRead, CleanWrite, CleanFails, Revoke

\* A call starts to save out of its review, so with a file.
LEMMA SavesFollow ==
    ASSUME TypeOK, Next
    PROVE  /\ save' \in [Call -> SaveRec]
           /\ \A d \in Call : save'[d].step # "none" =>
                 save[d].step # "none" \/ call[d].step = "review"
<1>0. save \in [Call -> SaveRec]  BY DEF TypeOK, SaveRec
<1> DEFINE Late(d) == save'[d].step # "none" =>
                         save[d].step # "none" \/ call[d].step = "review"
<1>1. ASSUME NEW c \in Call, NEW new \in SaveRec, save' = [save EXCEPT ![c] = new],
             save[c].step # "none" \/ call[c].step = "review"
      PROVE  save' \in [Call -> SaveRec] /\ \A d \in Call : Late(d)
  BY <1>0, <1>1
<1>2. ASSUME NEW c \in Call, NEW step \in {"read", "saved", "failed"}, SaveGoes(c, step),
             save[c].step # "none"
      PROVE  save' \in [Call -> SaveRec] /\ \A d \in Call : Late(d)
  <2>1. PICK new : new = [[save[c] EXCEPT !.step = step] EXCEPT !.seen = 0]
    OBVIOUS
  <2>2. new \in SaveRec  BY <1>0, <2>1 DEF SaveRec
  <2>3. save' = [save EXCEPT ![c] = new]  BY <1>2, <2>1 DEF SaveGoes
  <2> QED  BY <1>1, <1>2, <2>2, <2>3
<1>3. ASSUME NEW c \in Call, NEW result \in {"draft", "no_evidence"}, Conclude(c, result)
      PROVE  save' \in [Call -> SaveRec] /\ \A d \in Call : Late(d)
  <2>1. PICK step \in {"require", "read"} :
          step = IF result = "draft" THEN "require" ELSE "read"
    OBVIOUS
  <2>2. PICK new : new = [[save[c] EXCEPT !.step = step] EXCEPT !.result = result]
    OBVIOUS
  <2>3. new \in SaveRec  BY <1>0, <2>2 DEF SaveRec
  <2>4. save' = [save EXCEPT ![c] = new] /\ call[c].step = "review"
    BY <1>3, <2>1, <2>2 DEF Conclude
  <2> QED  BY <1>1, <2>3, <2>4
<1>4. ASSUME NEW c \in Call, SaveRequire(c) \/ SaveStopped(c) \/ SaveWrite(c)
      PROVE  save' \in [Call -> SaveRec] /\ \A d \in Call : Late(d)
  <2>1. /\ save[c].step # "none"
        /\ SaveGoes(c, "read") \/ SaveGoes(c, "saved") \/ SaveGoes(c, "failed")
    BY <1>4 DEF SaveRequire, SaveStopped, SaveWrite
  <2> QED  BY <1>2, <2>1
<1>5. ASSUME NEW c \in Call, SaveRead(c)
      PROVE  save' \in [Call -> SaveRec] /\ \A d \in Call : Late(d)
  <2>1. save[c].step # "none"  BY <1>5 DEF SaveRead
  <2>2. CASE SaveGoes(c, "failed")  BY <1>2, <2>1, <2>2
  <2>3. CASE ~SaveGoes(c, "failed")
    <3>1. PICK r \in Run : r = call[c].run  BY DEF TypeOK
    <3>2. row[r].version \in Nat  BY RowShape DEF TypeOK
    <3>3. PICK new : new = [[save[c] EXCEPT !.step = "write"] EXCEPT !.seen = row[r].version]
      OBVIOUS
    <3>4. new \in SaveRec  BY <1>0, <3>2, <3>3 DEF SaveRec
    <3>5. save' = [save EXCEPT ![c] = new]  BY <1>5, <2>3, <3>1, <3>3 DEF SaveRead
    <3> QED  BY <1>1, <2>1, <3>4, <3>5
  <2> QED  BY <2>2, <2>3
<1>6. ASSUME Exit
      PROVE  save' \in [Call -> SaveRec] /\ \A d \in Call : Late(d)
  <2>1. NoSave \in SaveRec /\ NoSave.step = "none"  BY DEF NoSave, SaveRec
  <2>2. save' = [c \in Call |-> NoSave]  BY <1>6 DEF Exit
  <2> QED  BY <2>1, <2>2
<1>7. CASE save' = save  BY <1>0, <1>7
<1> QED  BY <1>3, <1>4, <1>5, <1>6, <1>7, OtherwiseSavesStay DEF SaveMoves, SaveStep

\* fail_owned is told its target by the call, and the version by the row.
LEMMA CleansTyped ==
    ASSUME TypeOK, Next
    PROVE  clean' \in [Call -> CleanRec]
<1>0. clean \in [Call -> CleanRec]  BY DEF TypeOK, CleanRec
<1>1. ASSUME NEW c \in Call, Fail(c)
      PROVE  clean' \in [Call -> CleanRec]
  <2>1. PICK target \in {"failed", "cancelled"} :
          clean' = [clean EXCEPT ![c].step = "read", ![c].target = target]
    BY <1>1 DEF Fail
  <2>2. PICK new : new = [[clean[c] EXCEPT !.step = "read"] EXCEPT !.target = target]
    OBVIOUS
  <2>3. new \in CleanRec  BY <1>0, <2>2 DEF CleanRec
  <2> QED  BY <1>0, <2>1, <2>2, <2>3
<1>2. ASSUME NEW c \in Call, CleanEnds(c)
      PROVE  clean' \in [Call -> CleanRec]
  <2>1. [NoClean EXCEPT !.step = "ended"] \in CleanRec  BY DEF NoClean, CleanRec
  <2> QED  BY <1>0, <1>2, <2>1 DEF CleanEnds
<1>3. ASSUME NEW c \in Call, CleanRead(c)
      PROVE  clean' \in [Call -> CleanRec]
  <2>1. CASE CleanEnds(c)  BY <1>2, <2>1
  <2>2. CASE ~CleanEnds(c)
    <3>1. PICK r \in Run : r = call[c].run  BY DEF TypeOK
    <3>2. row[r].version \in Nat  BY RowShape DEF TypeOK
    <3>3. PICK new : new = [[clean[c] EXCEPT !.step = "write"]
                                   EXCEPT !.seen = row[r].version]
      OBVIOUS
    <3>4. new \in CleanRec  BY <1>0, <3>2, <3>3 DEF CleanRec
    <3>5. clean' = [clean EXCEPT ![c] = new]  BY <1>3, <2>2, <3>1, <3>3 DEF CleanRead
    <3> QED  BY <1>0, <3>4, <3>5
  <2> QED  BY <2>1, <2>2
<1>4. ASSUME Exit
      PROVE  clean' \in [Call -> CleanRec]
  BY <1>4 DEF Exit, NoClean, CleanRec
<1>5. CASE clean' = clean  BY <1>0, <1>5
<1>6. \/ clean' = clean \/ Exit
      \/ \E c \in Call : Fail(c) \/ CleanRead(c) \/ CleanEnds(c)
  BY DEF Next, UploadStep, RunStep, SaveStep, CleanStep, Create, LeaseExpires,
         BeginUpload, PutObject, ReadForAttach, Attach, OpenStream, Acquire,
         ReadForClaim, Take, Register, CancelledInClaim, Load, Returned, Answer,
         Leave, Disconnect, Close, Conclude, SaveRequire, SaveRead, SaveWrite,
         SaveStopped, CleanWrite, CleanFails, Revoke
<1> QED  BY <1>1, <1>2, <1>3, <1>4, <1>5, <1>6

\* A call enters itself for its run, and entries only leave otherwise.
LEMMA EntriesFollow ==
    ASSUME TypeOK, \A r \in Run : EntryInv(r), Next
    PROVE  /\ active' \in [Run -> Call \cup {NoCall}]
           /\ \A r \in Run : EntryInv(r)'
<1>0. /\ call \in [Call -> CallRec]
      /\ active \in [Run -> Call \cup {NoCall}]
  BY DEF TypeOK, CallRec
<1>1. \A d \in Call : Follows(d)  BY CallsFollow
<1>2. ASSUME NEW r \in Run, active'[r] \in {active[r], NoCall}
      PROVE  EntryInv(r)'
  <2>1. CASE active'[r] = NoCall  BY <2>1 DEF EntryInv
  <2>2. CASE active'[r] # NoCall
    <3>1. PICK c \in Call : c = active[r]  BY <1>0, <1>2, <2>2
    <3>2. call[c].run = r /\ call[c].step \in Entered
      BY <1>2, <2>2, <3>1 DEF EntryInv, Entered
    <3>3. Follows(c)  BY <1>1
    <3>4. call'[c].run = r /\ call'[c].step \in Entered
      BY <2>2, <3>2, <3>3 DEF Follows
    <3> QED  BY <1>2, <2>2, <3>1, <3>4 DEF EntryInv, Entered
  <2> QED  BY <2>1, <2>2
<1>3. ASSUME NEW c \in Call, Register(c)
      PROVE  /\ active' \in [Run -> Call \cup {NoCall}]
             /\ \A r \in Run : EntryInv(r)'
  <2>1. PICK q \in Run : q = call[c].run  BY <1>0 DEF CallRec
  <2>2. active' = [active EXCEPT ![q] = c] /\ Goes(c, "load")
    BY <1>3, <2>1 DEF Register
  <2>3. "load" \in CallStep  BY DEF CallStep, InSlot, Reviewing
  <2>4. call'[c].run = q /\ call'[c].step = "load"
    BY <1>0, <2>1, <2>2, <2>3, GoesOn
  <2>5. EntryInv(q)'
    BY <1>0, <2>2, <2>4 DEF EntryInv, Reviewing
  <2>6. ASSUME NEW r \in Run, r # q PROVE EntryInv(r)'
    BY <1>0, <1>2, <2>2, <2>6
  <2>7. active' \in [Run -> Call \cup {NoCall}]  BY <1>0, <2>2
  <2> QED  BY <2>5, <2>6, <2>7
<1>4. ASSUME NEW c \in Call, active' = [active EXCEPT ![call[c].run] = NoCall]
      PROVE  /\ active' \in [Run -> Call \cup {NoCall}]
             /\ \A r \in Run : EntryInv(r)'
  <2>1. \A r \in Run : active'[r] \in {active[r], NoCall}  BY <1>0, <1>4
  <2> QED  BY <1>0, <1>2, <1>4, <2>1
<1>5. ASSUME active' = [r \in Run |-> NoCall]
      PROVE  /\ active' \in [Run -> Call \cup {NoCall}]
             /\ \A r \in Run : EntryInv(r)'
  BY <1>2, <1>5
<1>6. CASE active' = active  BY <1>0, <1>2, <1>6
<1>7. \/ active' = active \/ active' = [r \in Run |-> NoCall]
      \/ \E c \in Call : Register(c) \/ active' = [active EXCEPT ![call[c].run] = NoCall]
  BY DEF Next, UploadStep, RunStep, SaveStep, CleanStep, Create, LeaseExpires,
         BeginUpload, PutObject, ReadForAttach, Attach, OpenStream, Acquire,
         ReadForClaim, Take, CancelledInClaim, Load, Returned, Answer, Fail, Leave,
         Disconnect, Close, Exit, Conclude, SaveRequire, SaveRead, SaveWrite,
         SaveStopped, CleanRead, CleanWrite, CleanFails, Revoke
<1> QED  BY <1>3, <1>4, <1>5, <1>6, <1>7

----------------------------------------------------------------------------
\* The invariant

\* Only an attach gives a run its file, and the file is stored by then; only a
\* save gives it a result, of its own file; only a claim gives it a holder.
LEMMA RunsHold ==
    ASSUME ReviewInv, Next
    PROVE  \A r \in Run : RunInv(r)'
<1>0. /\ row \in [Run -> Row] /\ call \in [Call -> CallRec]
      /\ upload \in [Upload -> UploadRec] /\ save \in [Call -> SaveRec]
      /\ clean \in [Call -> CleanRec]
  BY DEF ReviewInv, TypeOK, CallRec, UploadRec, SaveRec, CleanRec
<1>1. /\ \A r \in Run : RunInv(r) /\ \A c \in Call : CallInv(c) /\ SaveInv(c)
      /\ \A u \in Upload : UploadInv(u)
  BY DEF ReviewInv
<1>2. /\ row' \in [Run -> Row] /\ \A r \in Run : Keeps(row[r], row'[r])
      /\ \A c \in Call : Follows(c)
      /\ objects \subseteq objects'
  BY RowsKeep, CallsFollow, ObjectsGrow DEF ReviewInv
<1>3. \A r \in Run : row[r] \in Row /\ row'[r] \in Row  BY <1>0, <1>2
<1>4. ASSUME NEW r \in Run, row[r].lease # NoCall
      PROVE  /\ call'[row[r].lease].run = r
             /\ call'[row[r].lease].pdf \in Pdf
             /\ call'[row[r].lease].step \in Holding \cup {"ended"}
  <2>1. PICK c \in Call : c = row[r].lease  BY <1>3, <1>4, RowShape
  <2>2. call[c].run = r /\ call[c].pdf \in Pdf /\ call[c].step \in Holding \cup {"ended"}
    BY <1>1, <1>4, <2>1 DEF RunInv
  <2>3. call[c].step # "take"  BY <2>2 DEF Holding, Reviewing
  <2>4. /\ call'[c].run = r /\ call'[c].pdf = call[c].pdf
        /\ call'[c].step \in Holding \cup {"ended"}
    BY <1>2, <2>2, <2>3 DEF Follows
  <2> QED  BY <2>1, <2>2, <2>4
<1>5. ASSUME NEW r \in Run, row'[r].pdf = row[r].pdf, row'[r].doc \in {NoPdf, row[r].pdf},
             row'[r].lease \in {NoCall, row[r].lease}
      PROVE  RunInv(r)'
  BY <1>1, <1>2, <1>4, <1>5 DEF RunInv
<1>6. \A r \in Run : row[r].doc \in {NoPdf, row[r].pdf}  BY <1>1 DEF RunInv
<1>7. ASSUME NEW r \in Run, row'[r] = row[r] PROVE RunInv(r)'
  BY <1>5, <1>6, <1>7
<1>8. ASSUME NEW r \in Run, row'[r].status \in {"awaiting_upload", "failed", "cancelled"},
             row'[r].pdf = row[r].pdf
      PROVE  RunInv(r)'
  BY <1>3, <1>5, <1>8, RowShape
<1>9. ASSUME NEW r \in Run, Create(r) PROVE \A q \in Run : RunInv(q)'
  <2>1. row[r].status = "absent"  BY <1>9 DEF Create
  <2>2. /\ \A q \in Run \ {r} : row'[q] = row[q]
        /\ row'[r].status = "awaiting_upload"
    BY <1>0, <1>9, CreatedRow
  <2>3. row[r].pdf = NoPdf /\ row'[r].pdf = NoPdf  BY <1>3, <2>1, <2>2, RowShape
  <2>4. RunInv(r)'  BY <1>8, <2>2, <2>3
  <2> QED  BY <1>7, <2>2, <2>4
<1>10. ASSUME NEW r \in Run, LeaseExpires(r) PROVE \A q \in Run : RunInv(q)'
  <2>1. /\ \A q \in Run \ {r} : row'[q] = row[q]
        /\ row'[r].status = "running" /\ row'[r].pdf = row[r].pdf
        /\ row'[r].lease = row[r].lease
    BY <1>0, <1>10, ExpiredRow
  <2>2. row'[r].doc = NoPdf  BY <1>3, <2>1, RowShape
  <2>3. RunInv(r)'  BY <1>5, <2>1, <2>2
  <2> QED  BY <1>7, <2>1, <2>3
<1>11. ASSUME NEW u \in Upload, Attach(u), row' # row PROVE \A q \in Run : RunInv(q)'
  <2>1. PICK r \in Run : r = upload[u].run  BY <1>0 DEF UploadRec
  <2>2. PICK pdf \in Pdf : pdf = upload[u].pdf  BY <1>0 DEF UploadRec
  <2>3. Attached(r, pdf) /\ row[r].status = "awaiting_upload" /\ upload[u].step = "attach"
    BY <1>11, <2>1, <2>2 DEF Attach, Unchanged
  <2>4. /\ \A q \in Run \ {r} : row'[q] = row[q]
        /\ row'[r].status = "uploaded" /\ row'[r].pdf = pdf
    BY <1>0, <2>3, AttachedRow
  <2>5. <<r, pdf>> \in objects'  BY <1>1, <1>2, <2>1, <2>2, <2>3 DEF UploadInv
  <2>6. row'[r].doc = NoPdf /\ row'[r].lease = NoCall  BY <1>3, <2>4, RowShape
  <2>7. RunInv(r)'  BY <2>4, <2>5, <2>6 DEF RunInv
  <2> QED  BY <1>7, <2>4, <2>7
<1>12. ASSUME NEW c \in Call, Take(c), row' # row PROVE \A q \in Run : RunInv(q)'
  <2>1. PICK r \in Run : r = call[c].run  BY <1>0 DEF CallRec
  <2>2. /\ Claimed(r, c) /\ row[r].status = "uploaded"
        /\ call' = [call EXCEPT ![c].step = "taken", ![c].pdf = row[r].pdf, ![c].seen = 0]
    BY <1>12, <2>1 DEF Take, Unchanged
  <2>3. /\ \A q \in Run \ {r} : row'[q] = row[q]
        /\ row'[r].status = "running" /\ row'[r].pdf = row[r].pdf /\ row'[r].lease = c
    BY <1>0, <2>2, ClaimedRow
  <2>4. row[r].pdf \in Pdf /\ row'[r].doc = NoPdf  BY <1>3, <2>2, <2>3, RowShape
  <2>5. call[c] \in CallRec  BY <1>0
  <2>6. call'[c].step = "taken" /\ call'[c].pdf = row[r].pdf /\ call'[c].run = r
    BY <1>0, <2>1, <2>2, <2>5 DEF CallRec
  <2>7. <<r, row[r].pdf>> \in objects'  BY <1>1, <1>2, <2>4 DEF RunInv
  <2>8. RunInv(r)'  BY <2>3, <2>4, <2>6, <2>7 DEF RunInv, Holding
  <2> QED  BY <1>7, <2>3, <2>8
<1>13. ASSUME NEW c \in Call, SaveWrite(c), row' # row PROVE \A q \in Run : RunInv(q)'
  <2>1. PICK r \in Run : r = call[c].run  BY <1>0 DEF CallRec
  <2>2. PICK status \in {"draft", "no_evidence"} : status = save[c].result
    BY <1>0 DEF SaveRec
  <2>3. call[c].pdf \in Pdf  BY <1>1, <1>13 DEF SaveWrite, SaveInv
  <2>4. Finished(r, status, call[c].pdf) /\ row[r].status = "running"
    BY <1>13, <2>1, <2>2 DEF SaveWrite, Unchanged
  <2>5. /\ \A q \in Run \ {r} : row'[q] = row[q]
        /\ row'[r].status = status /\ row'[r].pdf = row[r].pdf
        /\ row'[r].doc = call[c].pdf
    BY <1>0, <2>3, <2>4, FinishedRow
  <2>6. call[c].pdf = row[r].pdf  BY <1>1, <2>1, <2>3, ConstantsAssumption DEF CallInv
  <2>7. row'[r].lease = NoCall  BY <1>3, <2>5, RowShape
  <2>8. RunInv(r)'  BY <1>5, <2>5, <2>6, <2>7
  <2> QED  BY <1>7, <2>5, <2>8
<1>14. ASSUME NEW c \in Call, CleanWrite(c), row' # row PROVE \A q \in Run : RunInv(q)'
  <2>1. PICK r \in Run : r = call[c].run  BY <1>0 DEF CallRec
  <2>2. PICK status \in {"failed", "cancelled"} : status = clean[c].target
    BY <1>0 DEF CleanRec
  <2>3. Failed(r, status) /\ row[r].status = "running"
    BY <1>14, <2>1, <2>2 DEF CleanWrite, Unchanged
  <2>4. /\ \A q \in Run \ {r} : row'[q] = row[q]
        /\ row'[r].status = status /\ row'[r].pdf = row[r].pdf
    BY <1>0, <2>3, FailedRow
  <2>5. RunInv(r)'  BY <1>8, <2>4
  <2> QED  BY <1>7, <2>4, <2>5
<1>15. CASE row' = row  BY <1>7, <1>15
<1> QED  BY <1>9, <1>10, <1>11, <1>12, <1>13, <1>14, <1>15, OtherwiseRowsStay DEF RowWrites

\* A call keeps its file, and the run keeps it too; while the call works, the
\* run is its own until it ends.
LEMMA CallsHold ==
    ASSUME ReviewInv, Next
    PROVE  \A c \in Call : CallInv(c)' /\ SaveInv(c)'
<1> SUFFICES ASSUME NEW c \in Call PROVE CallInv(c)' /\ SaveInv(c)'
  OBVIOUS
<1>1. /\ CallInv(c) /\ SaveInv(c) /\ Follows(c)
      /\ call[c] \in CallRec
  BY CallsFollow DEF ReviewInv, TypeOK, CallRec
<1>2. PICK r \in Run : r = call[c].run  BY <1>1 DEF CallRec
<1>3. Keeps(row[r], row'[r])  BY RowsKeep DEF ReviewInv
<1>4. call'[c].run = r  BY <1>1, <1>2 DEF Follows
<1>5. call'[c].pdf \in {NoPdf, row'[r].pdf}
  <2>1. CASE call'[c].pdf = call[c].pdf
    <3>1. CASE call[c].pdf = NoPdf  BY <2>1, <3>1
    <3>2. CASE call[c].pdf # NoPdf
      <4>1. call[c].pdf = row[r].pdf /\ call[c].pdf \in Pdf
        BY <1>1, <1>2, <3>2 DEF CallInv, CallRec
      <4> QED  BY <1>3, <2>1, <4>1 DEF Keeps
    <3> QED  BY <3>1, <3>2
  <2>2. CASE Took(c)  BY <1>2, <2>2 DEF Took
  <2> QED  BY <1>1, <2>1, <2>2 DEF Follows
<1>6. ASSUME call[c].pdf \in Pdf PROVE call'[c].pdf \in Pdf
  BY <1>1, <1>6 DEF Follows, Took
<1>7. ASSUME call'[c].step \in Holding
      PROVE  /\ call'[c].pdf \in Pdf
             /\ row'[r].lease = c \/ row'[r].status \in Ended
  <2>1. CASE Took(c)  BY <1>2, <2>1 DEF Took
  <2>2. CASE call[c].step \in Holding
    <3>1. call[c].pdf \in Pdf /\ (row[r].lease = c \/ row[r].status \in Ended)
      BY <1>1, <1>2, <2>2 DEF CallInv
    <3>2. row'[r].lease = c \/ row'[r].status \in Ended
      BY <1>3, <3>1, ConstantsAssumption DEF Keeps
    <3> QED  BY <1>6, <3>1, <3>2
  <2> QED  BY <1>1, <1>7, <2>1, <2>2 DEF Follows
<1>8. CallInv(c)'  BY <1>4, <1>5, <1>7 DEF CallInv
<1>9. SaveInv(c)'
  <2>1. ASSUME save'[c].step # "none" PROVE call[c].pdf \in Pdf
    <3>1. save[c].step # "none" \/ call[c].step = "review"
      BY <2>1, SavesFollow DEF ReviewInv
    <3> QED  BY <1>1, <3>1 DEF SaveInv, CallInv, Holding, Reviewing
  <2> QED  BY <1>6, <2>1 DEF SaveInv
<1> QED  BY <1>8, <1>9

\* Every step keeps the variables in their types.
LEMMA TypesHold == ASSUME ReviewInv, Next PROVE TypeOK'
<1>1. TypeOK  BY DEF ReviewInv
<1>2. row' \in [Run -> Row]  BY RowsKeep DEF ReviewInv
<1>3. call' \in [Call -> CallRec]  BY <1>1, CallsFollow
<1>4. upload' \in [Upload -> UploadRec]  BY UploadsFollow DEF ReviewInv
<1>5. save' \in [Call -> SaveRec]  BY <1>1, SavesFollow
<1>6. clean' \in [Call -> CleanRec]  BY <1>1, CleansTyped
<1>7. active' \in [Run -> Call \cup {NoCall}]  BY EntriesFollow DEF ReviewInv
<1>8. objects' \subseteq Run \X Pdf  BY <1>1, ObjectsGrow
<1>9. standing' \in BOOLEAN /\ open' \in BOOLEAN
  <2>1. standing' \in {standing, FALSE} /\ open' \in {open, TRUE, FALSE}
    BY DEF Next, UploadStep, RunStep, SaveStep, CleanStep, BeginUpload, PutObject,
           ReadForAttach, Attach, Create, LeaseExpires, OpenStream, Acquire,
           ReadForClaim, Take, Register, CancelledInClaim, Load, Returned, Answer,
           Fail, Leave, Disconnect, Close, Exit, Conclude, SaveRequire, SaveRead,
           SaveWrite, SaveStopped, CleanRead, CleanWrite, CleanFails, Revoke
  <2> QED  BY <1>1, <2>1 DEF TypeOK
<1>10. exits' \in Nat
  <2>1. exits' = exits \/ exits' = exits + 1
    BY DEF Next, UploadStep, RunStep, SaveStep, CleanStep, BeginUpload, PutObject,
           ReadForAttach, Attach, Create, LeaseExpires, OpenStream, Acquire,
           ReadForClaim, Take, Register, CancelledInClaim, Load, Returned, Answer,
           Fail, Leave, Disconnect, Close, Exit, Conclude, SaveRequire, SaveRead,
           SaveWrite, SaveStopped, CleanRead, CleanWrite, CleanFails, Revoke
  <2> QED  BY <1>1, <2>1 DEF TypeOK
<1>11. abandoned' \subseteq Run
  <2>1. \/ abandoned' = abandoned
        \/ abandoned' = abandoned \cup {r \in Run : row[r].status = "running"}
        \/ \E c \in Call : abandoned' = abandoned \cup {call[c].run}
    BY DEF Next, UploadStep, RunStep, SaveStep, CleanStep, BeginUpload, PutObject,
           ReadForAttach, Attach, Create, LeaseExpires, OpenStream, Acquire,
           ReadForClaim, Take, Register, CancelledInClaim, Load, Returned, Answer,
           Fail, Leave, Disconnect, Close, Exit, Conclude, SaveRequire, SaveRead,
           SaveWrite, SaveStopped, CleanRead, CleanWrite, CleanFails, Revoke
  <2> QED  BY <1>1, <2>1 DEF TypeOK
<1> QED  BY <1>2, <1>3, <1>4, <1>5, <1>6, <1>7, <1>8, <1>9, <1>10, <1>11
         DEF TypeOK, CallRec, UploadRec, SaveRec, CleanRec

\* Nothing is claimed, stored or remembered at first.
LEMMA ReviewInit == Init => ReviewInv
<1> SUFFICES ASSUME Init PROVE ReviewInv
  OBVIOUS
<1>1. \A r \in Run : /\ row[r].status = "absent" /\ row[r].pdf = NoPdf
                     /\ row[r].lease = NoCall /\ row[r].doc = NoPdf
                     /\ active[r] = NoCall
  BY DEF Init
<1>2. \A c \in Call : /\ call[c].step = "idle" /\ call[c].pdf = NoPdf
                      /\ save[c].step = "none"
  BY DEF Init, NoSave
<1>3. \A u \in Upload : upload[u].step = "idle"  BY DEF Init
<1>4. \A r \in Run : RunInv(r) /\ EntryInv(r)
  BY <1>1, ConstantsAssumption DEF RunInv, EntryInv
<1>5. \A c \in Call : CallInv(c) /\ SaveInv(c)
  BY <1>2 DEF CallInv, SaveInv, Holding, Reviewing
<1>6. \A u \in Upload : UploadInv(u)  BY <1>3 DEF UploadInv
<1>7. row \in [Run -> Row]  BY DEF Init, Row
<1>8. call \in [Call -> CallRec]
  <2>1. "idle" \in CallStep  BY DEF CallStep
  <2>2. PICK First : First = [step : {"idle"}, run : Run, pdf : {NoPdf}, seen : {0},
                              cancelled : {FALSE}]
    OBVIOUS
  <2>3. ASSUME NEW f \in First PROVE f \in CallRec
    <3>1. PICK r \in Run : f = [step |-> "idle", run |-> r, pdf |-> NoPdf, seen |-> 0,
                                cancelled |-> FALSE]
      BY <2>2
    <3> QED  BY <2>1, <3>1 DEF CallRec
  <2>4. call \in [Call -> First]  BY <2>2 DEF Init
  <2> QED  BY <2>3, <2>4
<1>9. upload \in [Upload -> UploadRec]  BY DEF Init, UploadRec
<1>10. save \in [Call -> SaveRec] /\ clean \in [Call -> CleanRec]
  BY DEF Init, SaveRec, CleanRec, NoSave, NoClean
<1>11. /\ objects \subseteq Run \X Pdf /\ standing \in BOOLEAN /\ open \in BOOLEAN
       /\ active \in [Run -> Call \cup {NoCall}] /\ exits \in Nat /\ abandoned \subseteq Run
  BY DEF Init
<1>12. TypeOK
  BY <1>7, <1>8, <1>9, <1>10, <1>11 DEF TypeOK, CallRec, UploadRec, SaveRec, CleanRec
<1> QED  BY <1>4, <1>5, <1>6, <1>12 DEF ReviewInv

\* Every step keeps the invariant.
LEMMA ReviewStep == ReviewInv /\ [Next]_vars => ReviewInv'
<1>1. ASSUME ReviewInv, Next PROVE ReviewInv'
  <2>1. TypeOK'  BY <1>1, TypesHold
  <2>2. \A r \in Run : RunInv(r)'  BY <1>1, RunsHold
  <2>3. \A r \in Run : EntryInv(r)'  BY <1>1, EntriesFollow DEF ReviewInv
  <2>4. \A c \in Call : CallInv(c)' /\ SaveInv(c)'  BY <1>1, CallsHold
  <2>5. \A u \in Upload : UploadInv(u)'  BY <1>1, UploadsFollow DEF ReviewInv
  <2> QED  BY <2>1, <2>2, <2>3, <2>4, <2>5 DEF ReviewInv
<1>2. ASSUME ReviewInv, UNCHANGED vars PROVE ReviewInv'
  BY <1>2 DEF vars, ReviewInv, TypeOK, RunInv, EntryInv, CallInv, SaveInv, UploadInv
<1> QED  BY <1>1, <1>2

\* The rows, the registry and the memory of the calls agree in every state.
THEOREM ReviewsCorrect == Spec => []ReviewInv
<1> QED  BY ReviewInit, ReviewStep, PTL DEF Spec

\* A claimed run is running, for a call that works on this run and on its
\* file, and no other call is in the registry for it.
THEOREM ClaimsMatch == Spec => []ClaimMatchesCall
<1>1. ReviewInv => ClaimMatchesCall
  <2> SUFFICES ASSUME ReviewInv, NEW r \in Run, row[r].lease # NoCall
               PROVE  /\ row[r].status = "running"
                      /\ call[row[r].lease].run = r
                      /\ call[row[r].lease].pdf = row[r].pdf
                      /\ \A c \in Call : active[r] = c => row[r].lease = c
    BY DEF ClaimMatchesCall
  <2>1. RunInv(r) /\ EntryInv(r) /\ row[r] \in Row  BY DEF ReviewInv, TypeOK
  <2>2. row[r].status = "running" /\ row[r].lease \in Call  BY <2>1, RowShape
  <2>3. call[row[r].lease].run = r /\ call[row[r].lease].pdf \in Pdf
    BY <2>1 DEF RunInv
  <2>4. CallInv(row[r].lease)  BY <2>2 DEF ReviewInv
  <2>5. call[row[r].lease].pdf = row[r].pdf
    BY <2>3, <2>4, ConstantsAssumption DEF CallInv
  <2>6. ASSUME NEW c \in Call, active[r] = c PROVE row[r].lease = c
    <3>1. call[c].run = r /\ call[c].step \in Holding
      BY <2>1, <2>6, ConstantsAssumption DEF EntryInv, Holding, Reviewing
    <3>2. CallInv(c)  BY DEF ReviewInv
    <3> QED  BY <2>2, <3>1, <3>2 DEF CallInv, Ended
  <2> QED  BY <2>2, <2>3, <2>5, <2>6
<1> QED  BY <1>1, ReviewsCorrect, PTL

\* A result is a review of the attached file, and the file is stored.
THEOREM ReviewsAreOfTheFile == Spec => []ReviewedAsStored
<1>1. ReviewInv => ReviewedAsStored
  <2> SUFFICES ASSUME ReviewInv, NEW r \in Run, row[r].status \in {"draft", "no_evidence"}
               PROVE  row[r].doc = row[r].pdf /\ <<r, row[r].doc>> \in objects
    BY DEF ReviewedAsStored
  <2>1. RunInv(r) /\ row[r] \in Row  BY DEF ReviewInv, TypeOK
  <2>2. row[r].pdf \in Pdf /\ row[r].doc \in Pdf  BY <2>1, RowShape
  <2> QED  BY <2>1, <2>2, ConstantsAssumption DEF RunInv
<1> QED  BY <1>1, ReviewsCorrect, PTL

\* A run that has ended stays as it ended, whatever fail_owned, upload, claim
\* or save is still under way.
THEOREM EndsAreFinal == Spec => EndedIsFinal
<1>1. ReviewInv /\ [Next]_vars
        => [\A r \in Run : row[r].status \in Ended => row'[r] = row[r]]_vars
  <2>1. ASSUME ReviewInv, Next, NEW r \in Run, row[r].status \in Ended
        PROVE  row'[r] = row[r]
    BY <2>1, RowsKeep DEF ReviewInv, Keeps
  <2> QED  BY <2>1
<1> QED  BY <1>1, ReviewsCorrect, PTL DEF Spec, EndedIsFinal
=============================================================================

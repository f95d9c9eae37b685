------------------------- MODULE ContractReviewRuns -------------------------
(***************************************************************************)
(* The runs of the contract review: a row in MySQL per run, the PDF in the *)
(* object store, and the calls of ContractReviewService.run that review it *)
(* in one process, under a semaphore, each started by an event stream.     *)
(*                                                                         *)
(* Three tasks act for one call: the call itself, the workflow step that   *)
(* saves the result, and fail_owned, which the call starts behind a shield *)
(* and which outlives it.  Each transaction of the repository is two steps,*)
(* the read that fixes its snapshot and the compare-and-swap that commits. *)
(*                                                                         *)
(* A run has one owner; requests of others find no row.  standing is       *)
(* whether the owner's session and membership are still the ones that the  *)
(* requests in progress were authorised with; a change of them is for good.*)
(***************************************************************************)
EXTENDS Naturals, FiniteSets

CONSTANTS Run,        \* rows of tenant_contract_reviews
          Call,       \* calls of run(), one per event stream
          Upload,     \* upload requests
          Pdf,        \* contents of PDF files, known by their digest
          NoPdf,      \* a run without a file
          NoCall,     \* a run without a failure lease
          Capacity,   \* calls that may review at once
          MaxExit     \* bound: ends of the process

ASSUME ConstantsAssumption ==
    /\ NoPdf \notin Pdf
    /\ NoCall \notin Call
    /\ Capacity \in Nat
    /\ MaxExit \in Nat

VARIABLES
    row,        \* the table
    objects,    \* the PDFs in the object store, under the key of their run
    standing,   \* whether the owner is still authorised
    upload,     \* what each upload request is about to do
    call,       \* what each call of run() is about to do
    save,       \* the workflow step of each call that saves its result
    clean,      \* the fail_owned task of each call
    active,     \* the service's registry of the calls that hold a claim
    open,       \* FALSE once aclose() has begun
    exits,      \* how often the process has ended
    abandoned   \* history: runs whose cleanup the environment prevented

vars == <<row, objects, standing, upload, call, save, clean, active, open,
          exits, abandoned>>

Ended == {"draft", "no_evidence", "failed", "cancelled"}

\* A row by its status: the file from the upload on, the failure lease while it
\* runs, the reviewed file with a result.
Row ==
    [status : {"absent", "awaiting_upload"}, version : Nat, pdf : {NoPdf},
     lease : {NoCall}, live : {FALSE}, doc : {NoPdf}]
    \cup
    [status : {"uploaded", "failed", "cancelled"}, version : Nat, pdf : Pdf,
     lease : {NoCall}, live : {FALSE}, doc : {NoPdf}]
    \cup
    [status : {"running"}, version : Nat, pdf : Pdf,
     lease : Call, live : BOOLEAN, doc : {NoPdf}]
    \cup
    [status : {"draft", "no_evidence"}, version : Nat, pdf : Pdf,
     lease : {NoCall}, live : {FALSE}, doc : Pdf]

\* The steps of a call: waiting for a slot, before and after the read of the
\* claim, with the committed claim, fetching the PDF, reviewing, reading the
\* answer, waiting for fail_owned.
Reviewing == {"load", "review", "reply"}
InSlot    == {"claim", "take", "taken", "cleanup"} \cup Reviewing
CallStep  == {"idle", "acquire", "ended"} \cup InSlot

TypeOK ==
    /\ row \in [Run -> Row]
    /\ objects \subseteq Run \X Pdf
    /\ standing \in BOOLEAN
    /\ upload \in [Upload -> [step : {"idle", "put", "read", "attach", "ended"},
                              run : Run, pdf : Pdf, seen : Nat]]
    /\ call \in [Call -> [step : CallStep, run : Run, pdf : Pdf \cup {NoPdf},
                          seen : Nat, cancelled : BOOLEAN]]
    /\ save \in [Call -> [step : {"none", "require", "read", "write", "saved",
                                  "failed"},
                          result : {"draft", "no_evidence"}, seen : Nat]]
    /\ clean \in [Call -> [step : {"none", "read", "write", "ended"},
                           target : {"failed", "cancelled"}, seen : Nat]]
    /\ active \in [Run -> Call \cup {NoCall}]
    /\ open \in BOOLEAN
    /\ exits \in Nat
    /\ abandoned \subseteq Run

NoSave  == [step |-> "none", result |-> "draft", seen |-> 0]
NoClean == [step |-> "none", target |-> "failed", seen |-> 0]

Init ==
    /\ row = [r \in Run |-> [status |-> "absent", pdf |-> NoPdf, version |-> 0,
                             lease |-> NoCall, live |-> FALSE, doc |-> NoPdf]]
    /\ objects = {}
    /\ standing = TRUE
    /\ upload \in [Upload -> [step : {"idle"}, run : Run, pdf : Pdf, seen : {0}]]
    /\ call \in [Call -> [step : {"idle"}, run : Run, pdf : {NoPdf}, seen : {0},
                          cancelled : {FALSE}]]
    /\ save = [c \in Call |-> NoSave]
    /\ clean = [c \in Call |-> NoClean]
    /\ active = [r \in Run |-> NoCall]
    /\ open = TRUE
    /\ exits = 0
    /\ abandoned = {}

----------------------------------------------------------------------------
\* The repository

\* The read of a transition: the owner is authorised, the row as expected.
Expects(r, status) == standing /\ row[r].status = status

\* Fault: the UPDATE identifies the row, but does not compare what was read.
UnchangedUnchecked(r, status, seen) == row[r].version # 0

\* The WHERE of its UPDATE, on the committed row.
Unchanged(r, status, seen) == row[r].status = status /\ row[r].version = seen

\* create(): the unique key of the owner and the idempotency key admits one row.
Create(r) ==
    /\ standing
    /\ row[r].status = "absent"
    /\ row' = [row EXCEPT ![r].status = "awaiting_upload", ![r].version = 1]
    /\ UNCHANGED <<objects, standing, upload, call, save, clean, active, open,
                   exits, abandoned>>

Attached(r, pdf) ==
    row' = [row EXCEPT ![r].status = "uploaded", ![r].pdf = pdf, ![r].version = @ + 1]

Claimed(r, c) ==
    row' = [row EXCEPT ![r].status = "running", ![r].lease = c, ![r].live = TRUE,
                       ![r].version = @ + 1]

Finished(r, status, pdf) ==
    row' = [row EXCEPT ![r].status = status, ![r].doc = pdf, ![r].lease = NoCall,
                       ![r].live = FALSE, ![r].version = @ + 1]

Failed(r, status) ==
    row' = [row EXCEPT ![r].status = status, ![r].lease = NoCall, ![r].live = FALSE,
                       ![r].version = @ + 1]

\* Fault: the cleanup goes through fail(), which authorises the owner again.
OwnedAndAuthorised(r, c) == standing /\ row[r].status = "running" /\ row[r].lease = c

\* What fail_owned demands of the row it reads: this call's lease, unexpired.
Owned(r, c) == row[r].status = "running" /\ row[r].lease = c /\ row[r].live

----------------------------------------------------------------------------
\* upload(): authorise, store the file, attach it to the row

UploadGoes(u, step) == upload' = [upload EXCEPT ![u].step = step, ![u].seen = 0]

BeginUpload(u) ==
    LET r == upload[u].run IN
    /\ upload[u].step = "idle"
    /\ row[r].status # "absent"
    /\ UploadGoes(u, IF Expects(r, "awaiting_upload") \/ Expects(r, "uploaded")
                     THEN "put" ELSE "ended")
    /\ UNCHANGED <<row, objects, standing, call, save, clean, active, open, exits,
                   abandoned>>

\* PUT with If-None-Match: the key holds the digest, so a second PUT of the
\* file finds the same object.
PutObject(u) ==
    /\ upload[u].step = "put"
    /\ \/ /\ objects' = objects \cup {<<upload[u].run, upload[u].pdf>>}
          /\ UploadGoes(u, "read")
       \/ /\ UploadGoes(u, "ended")
          /\ UNCHANGED objects
    /\ UNCHANGED <<row, standing, call, save, clean, active, open, exits, abandoned>>

\* A row that already has this file is a replay, any other a conflict; neither
\* writes.
ReadForAttach(u) ==
    LET r == upload[u].run IN
    /\ upload[u].step = "read"
    /\ IF Expects(r, "awaiting_upload")
       THEN upload' = [upload EXCEPT ![u].step = "attach", ![u].seen = row[r].version]
       ELSE UploadGoes(u, "ended")
    /\ UNCHANGED <<row, objects, standing, call, save, clean, active, open, exits,
                   abandoned>>

Attach(u) ==
    LET r == upload[u].run IN
    /\ upload[u].step = "attach"
    /\ UploadGoes(u, "ended")
    /\ IF Unchanged(r, "awaiting_upload", upload[u].seen)
       THEN Attached(r, upload[u].pdf) ELSE UNCHANGED row
    /\ UNCHANGED <<objects, standing, call, save, clean, active, open, exits,
                   abandoned>>

----------------------------------------------------------------------------
\* run(): a slot, the claim, the review, the answer

Goes(c, step) == call' = [call EXCEPT ![c].step = step]

\* A call that has returned; what it remembered is gone with it.
Over(record) == [record EXCEPT !.step = "ended", !.seen = 0, !.cancelled = FALSE]

Ends(c) == call' = [call EXCEPT ![c] = Over(@)]

InUse == {c \in Call : call[c].step \in InSlot}

\* The event stream reads the run first, then starts the call.
OpenStream(c) ==
    /\ call[c].step = "idle"
    /\ standing
    /\ row[call[c].run].status # "absent"
    /\ IF open THEN Goes(c, "acquire") ELSE Ends(c)
    /\ UNCHANGED <<row, objects, standing, upload, save, clean, active, open, exits,
                   abandoned>>

\* A slot within a tenth of a second, or "contract_review_busy".
Acquire(c) ==
    /\ call[c].step = "acquire"
    /\ IF Cardinality(InUse) < Capacity THEN Goes(c, "claim") ELSE Ends(c)
    /\ UNCHANGED <<row, objects, standing, upload, save, clean, active, open, exits,
                   abandoned>>

ReadForClaim(c) ==
    LET r == call[c].run IN
    /\ call[c].step = "claim"
    /\ IF Expects(r, "uploaded")
       THEN call' = [call EXCEPT ![c].step = "take", ![c].seen = row[r].version]
       ELSE Ends(c)
    /\ UNCHANGED <<row, objects, standing, upload, save, clean, active, open, exits,
                   abandoned>>

Take(c) ==
    LET r == call[c].run IN
    /\ call[c].step = "take"
    /\ IF Unchanged(r, "uploaded", call[c].seen)
       THEN /\ Claimed(r, c)
            /\ call' = [call EXCEPT ![c].step = "taken", ![c].pdf = row[r].pdf,
                                    ![c].seen = 0]
       ELSE Ends(c) /\ UNCHANGED row
    /\ UNCHANGED <<objects, standing, upload, save, clean, active, open, exits,
                   abandoned>>

\* The claim returns and the call enters itself in the registry.
Register(c) ==
    /\ call[c].step = "taken"
    /\ Goes(c, "load")
    /\ active' = [active EXCEPT ![call[c].run] = c]
    /\ UNCHANGED <<row, objects, standing, upload, save, clean, open, exits,
                   abandoned>>

\* A cancellation that arrives before: the exception leaves run() outside the
\* block that cleans up, also when the claim has already committed.
CancelledInClaim(c) ==
    /\ call[c].step \in {"acquire", "claim", "take", "taken"}
    /\ call[c].cancelled
    /\ Ends(c)
    /\ abandoned' = IF call[c].step = "taken" THEN abandoned \cup {call[c].run}
                                              ELSE abandoned
    /\ UNCHANGED <<row, objects, standing, upload, save, clean, active, open, exits>>

Load(c) ==
    /\ call[c].step = "load"
    /\ standing
    /\ <<call[c].run, call[c].pdf>> \in objects
    /\ Goes(c, "review")
    /\ UNCHANGED <<row, objects, standing, upload, save, clean, active, open, exits,
                   abandoned>>

\* The workflow has a draft, or research found no evidence.
Conclude(c, result) ==
    /\ call[c].step = "review"
    /\ save[c].step = "none"
    /\ save' = [save EXCEPT ![c].step = IF result = "draft" THEN "require" ELSE "read",
                            ![c].result = result]
    /\ UNCHANGED <<row, objects, standing, upload, call, clean, active, open, exits,
                   abandoned>>

Returned(c) ==
    /\ call[c].step = "review"
    /\ save[c].step = "saved"
    /\ Goes(c, "reply")
    /\ UNCHANGED <<row, objects, standing, upload, save, clean, active, open, exits,
                   abandoned>>

\* The last read of the run, and the end of the call.
Answer(c) ==
    /\ call[c].step = "reply"
    /\ standing
    /\ Ends(c)
    /\ active' = [active EXCEPT ![call[c].run] = NoCall]
    /\ UNCHANGED <<row, objects, standing, upload, save, clean, open, exits,
                   abandoned>>

----------------------------------------------------------------------------
\* The workflow step that saves, a task of its own

SaveGoes(c, step) == save' = [save EXCEPT ![c].step = step, ![c].seen = 0]

\* require("review_save"): the run is still this call's to write.
SaveRequire(c) ==
    LET r == call[c].run IN
    /\ save[c].step = "require"
    /\ SaveGoes(c, IF Expects(r, "running") /\ row[r].pdf = call[c].pdf
                   THEN "read" ELSE "failed")
    /\ UNCHANGED <<row, objects, standing, upload, call, clean, active, open, exits,
                   abandoned>>

SaveRead(c) ==
    LET r == call[c].run IN
    /\ save[c].step = "read"
    /\ IF Expects(r, "running") /\ row[r].pdf = call[c].pdf
       THEN save' = [save EXCEPT ![c].step = "write", ![c].seen = row[r].version]
       ELSE SaveGoes(c, "failed")
    /\ UNCHANGED <<row, objects, standing, upload, call, clean, active, open, exits,
                   abandoned>>

SaveWrite(c) ==
    LET r == call[c].run IN
    /\ save[c].step = "write"
    /\ IF Unchanged(r, "running", save[c].seen)
       THEN Finished(r, save[c].result, call[c].pdf) /\ SaveGoes(c, "saved")
       ELSE SaveGoes(c, "failed") /\ UNCHANGED row
    /\ UNCHANGED <<objects, standing, upload, call, clean, active, open, exits,
                   abandoned>>

\* cancel_run() stops the step of a call that unwinds, if it gets there first.
SaveStopped(c) ==
    /\ call[c].step \in {"cleanup", "ended"}
    /\ save[c].step \in {"require", "read", "write"}
    /\ SaveGoes(c, "failed")
    /\ UNCHANGED <<row, objects, standing, upload, call, clean, active, open, exits,
                   abandoned>>

----------------------------------------------------------------------------
\* The except block and fail_owned

\* Any error: of the model, the PDF or the saving step, a lost authority, the
\* ten minutes, a cancellation.  The block starts fail_owned behind a shield.
Fail(c) ==
    /\ call[c].step \in Reviewing
    /\ Goes(c, "cleanup")
    /\ \E target \in IF call[c].cancelled THEN {"failed", "cancelled"} ELSE {"failed"} :
          clean' = [clean EXCEPT ![c].step = "read", ![c].target = target]
    /\ UNCHANGED <<row, objects, standing, upload, save, active, open, exits,
                   abandoned>>

CleanEnds(c) == clean' = [clean EXCEPT ![c] = [NoClean EXCEPT !.step = "ended"]]

\* fail_owned asks for no authority of the owner, only for the lease.
CleanRead(c) ==
    LET r == call[c].run IN
    /\ clean[c].step = "read"
    /\ IF Owned(r, c)
       THEN clean' = [clean EXCEPT ![c].step = "write", ![c].seen = row[r].version]
       ELSE CleanEnds(c)
    /\ UNCHANGED <<row, objects, standing, upload, call, save, active, open, exits,
                   abandoned>>

\* Fault: the UPDATE of fail_owned has no condition but the identifier.
CleanWriteById(c) ==
    /\ clean[c].step = "write"
    /\ CleanEnds(c)
    /\ Failed(call[c].run, clean[c].target)
    /\ UNCHANGED <<objects, standing, upload, call, save, active, open, exits,
                   abandoned>>

\* The lease was judged against a clock read before the snapshot.
CleanWrite(c) ==
    LET r == call[c].run IN
    /\ clean[c].step = "write"
    /\ CleanEnds(c)
    /\ IF Unchanged(r, "running", clean[c].seen) /\ row[r].lease = c
       THEN Failed(r, clean[c].target) ELSE UNCHANGED row
    /\ UNCHANGED <<objects, standing, upload, call, save, active, open, exits,
                   abandoned>>

\* The database fails; the error is suppressed.
CleanFails(c) ==
    /\ clean[c].step \in {"read", "write"}
    /\ CleanEnds(c)
    /\ abandoned' = abandoned \cup {call[c].run}
    /\ UNCHANGED <<row, objects, standing, upload, call, save, active, open, exits>>

\* The call leaves when fail_owned is done, after five seconds, or on a second
\* cancellation; in the last two cases fail_owned goes on.
Leave(c) ==
    /\ call[c].step = "cleanup"
    /\ Ends(c)
    /\ active' = [active EXCEPT ![call[c].run] = NoCall]
    /\ UNCHANGED <<row, objects, standing, upload, save, clean, open, exits,
                   abandoned>>

----------------------------------------------------------------------------
\* Cancellation, shutdown and the environment

Unfinished == {c \in Call : call[c].step \notin {"idle", "ended"}}

Cancel(calls) ==
    call' = [c \in Call |-> IF c \in calls \cap Unfinished
                            THEN [call[c] EXCEPT !.cancelled = TRUE] ELSE call[c]]

\* The client goes away: the stream cancels its own call, then the service
\* cancels whichever call the registry names for the run.
Disconnect(c) ==
    /\ c \in Unfinished
    /\ Cancel({c, active[call[c].run]})
    /\ UNCHANGED <<row, objects, standing, upload, save, clean, active, open, exits,
                   abandoned>>

Close ==
    /\ open
    /\ open' = FALSE
    /\ Cancel({active[r] : r \in Run})
    /\ UNCHANGED <<row, objects, standing, upload, save, clean, active, exits,
                   abandoned>>

\* The process ends, by a crash or after aclose(), and a new one starts.
Exit ==
    /\ exits < MaxExit
    /\ exits' = exits + 1
    /\ open' = TRUE
    /\ abandoned' = abandoned \cup {r \in Run : row[r].status = "running"}
    /\ call' = [c \in Call |-> IF c \in Unfinished
                               THEN Over(call[c]) ELSE call[c]]
    /\ upload' = [u \in Upload |-> IF upload[u].step # "idle"
                                   THEN [upload[u] EXCEPT !.step = "ended", !.seen = 0]
                                   ELSE upload[u]]
    /\ save' = [c \in Call |-> NoSave]
    /\ clean' = [c \in Call |-> NoClean]
    /\ active' = [r \in Run |-> NoCall]
    /\ UNCHANGED <<row, objects, standing>>

\* The owner's membership, session or role changes.
Revoke ==
    /\ standing
    /\ standing' = FALSE
    /\ UNCHANGED <<row, objects, upload, call, save, clean, active, open, exits,
                   abandoned>>

\* Fifteen minutes pass: the process was suspended or the database blocked.
LeaseExpires(r) ==
    /\ row[r].live
    /\ row' = [row EXCEPT ![r].live = FALSE]
    /\ UNCHANGED <<objects, standing, upload, call, save, clean, active, open, exits,
                   abandoned>>

----------------------------------------------------------------------------
UploadStep(u) == BeginUpload(u) \/ PutObject(u) \/ ReadForAttach(u) \/ Attach(u)

RunStep(c) ==
    \/ Acquire(c) \/ ReadForClaim(c) \/ Take(c) \/ Register(c) \/ CancelledInClaim(c)
    \/ Load(c) \/ Returned(c) \/ Answer(c) \/ Fail(c) \/ Leave(c)

SaveStep(c) == SaveRequire(c) \/ SaveRead(c) \/ SaveWrite(c)

CleanStep(c) == CleanRead(c) \/ CleanWrite(c)

Next ==
    \/ \E r \in Run : Create(r) \/ LeaseExpires(r)
    \/ \E u \in Upload : UploadStep(u)
    \/ \E c \in Call :
          \/ OpenStream(c) \/ RunStep(c) \/ SaveStep(c) \/ SaveStopped(c)
          \/ CleanStep(c) \/ CleanFails(c) \/ Disconnect(c)
          \/ \E result \in {"draft", "no_evidence"} : Conclude(c, result)
    \/ Close \/ Exit \/ Revoke

\* The event loop resumes every call, ten minutes bound the review (Fail), five
\* seconds bound the wait for fail_owned (Leave), and the database answers.
Fairness == \A c \in Call :
    WF_vars(RunStep(c)) /\ WF_vars(SaveStep(c)) /\ WF_vars(CleanStep(c))

Spec == Init /\ [][Next]_vars /\ Fairness

----------------------------------------------------------------------------
\* Properties

\* A row names at most one call as the holder of its claim, a call that works
\* on this row and on the file the row still has: an upload that was
\* authorised before the claim does not exchange the file under the reviewer,
\* and a claimed row is running.
ClaimMatchesCall ==
    \A r \in Run : row[r].lease # NoCall =>
        /\ row[r].status = "running"
        /\ call[row[r].lease].run = r
        /\ call[row[r].lease].pdf = row[r].pdf
        /\ \A c \in Call : active[r] = c => row[r].lease = c

\* A result is final and is a review of the attached file, which is stored:
\* neither a fail_owned that outlived its call nor a late upload, claim or
\* save changes a row that has ended.
EndedIsFinal ==
    [][\A r \in Run : row[r].status \in Ended => row'[r] = row[r]]_vars

ReviewedAsStored ==
    \A r \in Run : row[r].status \in {"draft", "no_evidence"} =>
        row[r].doc = row[r].pdf /\ <<r, row[r].doc>> \in objects

\* No run stays "running" because of what the owner does: cancelling at any
\* moment of the review, disconnecting twice, or losing every permission while
\* the model works.  What remains is the environment: the process ends, the
\* database fails during the cleanup, the lease expires, or a cancellation
\* hits the claim between its commit and its return.
RunsEnd ==
    \A r \in Run : row[r].status = "running" ~>
        \/ row[r].status \in Ended
        \/ r \in abandoned
        \/ ~row[r].live
=============================================================================

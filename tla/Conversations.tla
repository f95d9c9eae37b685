---------------------------- MODULE Conversations ----------------------------
(***************************************************************************)
(* The turns of one private conversation: a request opens a turn under a   *)
(* lease, streams the answer of the model into it piece by piece and       *)
(* settles it.  Every transaction locks the row of the conversation, so    *)
(* the model has one step from its lock to its commit; but start reads the *)
(* caller's authority first, which fixes its snapshot, and then finds the  *)
(* earlier turns in this snapshot and the lease in the locked row.         *)
(*                                                                         *)
(* Requests are repeated, disconnected, cut and overtaken by the expiry of *)
(* their lease, which whoever comes next acts upon.  Titles, listings, the *)
(* contract attached to a conversation and the limits of fifteen turns, of *)
(* the context's length and of a conversation's length are left out.       *)
(***************************************************************************)
EXTENDS Naturals, Sequences

CONSTANTS Call,       \* HTTP requests that send a message
          Ask,        \* what they send: records of a request id and a text
          MaxPieces,  \* bound on the pieces of an answer
          Nobody      \* a conversation without a lease

ASSUME NobodyAssumption == Nobody \notin Call
ASSUME PiecesAssumption == MaxPieces \in Nat

VARIABLES
    turn,       \* the turns: both messages of each, in order of sequence
    lease,      \* the call whose token the row holds
    live,       \* the lease has not run out
    ask,        \* what each call sends
    step,       \* how far it is
    view,       \* the turns in the snapshot of its start
    at,         \* the position of the turn it opened, 0 before
    given,      \* history: the requests of the turns the model was given
    verdict,    \* the local status of its stream
    connected,  \* its client is there
    said,       \* the pieces its client was sent
    done,       \* the status its client was told at the end
    unheard     \* history: its turn was completed, but it was not told so

vars == <<turn, lease, live, ask, step, view, at, given, verdict, connected, said,
          done, unheard>>
row == <<turn, lease, live>>
sent == <<said, done>>
stream == <<at, given, verdict, unheard>>

Turns == [request : {a.request : a \in Ask}, text : {a.text : a \in Ask},
          status : {"streaming", "completed", "incomplete"}, size : 0..MaxPieces]
Step == {"idle", "starting", "streaming", "saying", "completing", "closing",
         "telling", "ended"}

TypeOK ==
    /\ turn \in Seq(Turns)
    /\ lease \in Call \cup {Nobody} /\ live \in BOOLEAN
    /\ ask \in [Call -> Ask]
    /\ step \in [Call -> Step]
    /\ view \in [Call -> Seq(Turns)]
    /\ at \in [Call -> Nat]
    /\ given \in [Call -> SUBSET {a.request : a \in Ask}]
    /\ verdict \in [Call -> {"completed", "incomplete"}]
    /\ connected \in [Call -> BOOLEAN]
    /\ said \in [Call -> 0..MaxPieces]
    /\ done \in [Call -> {"none", "completed", "incomplete"}]
    /\ unheard \in [Call -> BOOLEAN]

Init ==
    /\ turn = << >> /\ lease = Nobody /\ live = FALSE
    /\ ask \in [Call -> Ask]
    /\ step = [c \in Call |-> "idle"]
    /\ view = [c \in Call |-> << >>]
    /\ at = [c \in Call |-> 0]
    /\ given = [c \in Call |-> {}]
    /\ verdict = [c \in Call |-> "incomplete"]
    /\ connected = [c \in Call |-> TRUE]
    /\ said = [c \in Call |-> 0]
    /\ done = [c \in Call |-> "none"]
    /\ unheard = [c \in Call |-> FALSE]

----------------------------------------------------------------------------
Goes(c, to) == step' = [step EXCEPT ![c] = to]

\* Where a stream is when its request no longer listens.
GoesIfHeard(c, to) == Goes(c, IF connected[c] THEN to ELSE "ended")

Positions(s, request) == {i \in DOMAIN s : s[i].request = request}

Settled(s, i, status) == [s EXCEPT ![i].status = status]

Release == lease' = Nobody /\ live' = FALSE

\* Fault: any lease will do.
HoldsAnyLease(c) == lease # Nobody /\ live

\* _lease: the request, the token and the time.
HoldsLease(c) == lease = c /\ live

----------------------------------------------------------------------------
\* The lease runs out

\* It is set once, for 240 seconds; a stream that is stopped for long, or whose
\* process is gone, does not renew it.
Lapse ==
    /\ lease # Nobody /\ live
    /\ live' = FALSE
    /\ UNCHANGED <<turn, lease, ask, step, view, connected, stream, sent>>

Expired == lease # Nobody /\ ~live

\* _expire, on the turns of the row or of a snapshot.
AfterExpiry(s) == IF Expired THEN Settled(s, at[lease], "incomplete") ELSE s

\* get: reading the conversation settles a turn whose lease ran out.
Read ==
    /\ Expired
    /\ turn' = AfterExpiry(turn)
    /\ Release
    /\ UNCHANGED <<ask, step, view, connected, stream, sent>>

----------------------------------------------------------------------------
\* start

\* The first SELECT of _authorize fixes what the later ones see.
BeginStart(c) ==
    /\ step[c] = "idle"
    /\ view' = [view EXCEPT ![c] = turn]
    /\ Goes(c, "starting")
    /\ UNCHANGED <<row, ask, connected, stream, sent>>

\* The assistant message that expires is looked up in the snapshot.
ExpiryIsSeen(c) == Expired => at[lease] \in DOMAIN view[c]

Seen(c) == AfterExpiry(view[c])

Prior(c) == Positions(Seen(c), ask[c].request)

\* Fault: nothing but the snapshot speaks against the new messages.
AlwaysFree(c) == TRUE

\* The unique keys of the messages, request and sequence, against the committed
\* ones: the sequence is the next one of the snapshot.
KeysFree(c) ==
    /\ Positions(turn, ask[c].request) = {}
    /\ Len(view[c]) + 1 \notin DOMAIN turn

\* Fault: interrupted turns are fed to the model.
CompletedOrCut(s) == {s[i].request : i \in {j \in DOMAIN s : s[j].status # "streaming"}}

\* The history for the model: the completed turns of the snapshot.
Completed(s) == {s[i].request : i \in {j \in DOMAIN s : s[j].status = "completed"}}

\* Busy, a conflict of texts, a lease lost or a duplicate key: the transaction
\* is rolled back, an expiry that it has written with it.
StartRefused(c) ==
    /\ step[c] = "starting"
    /\ \/ ~ExpiryIsSeen(c)
       \/ /\ ExpiryIsSeen(c)
          /\ \E i \in Prior(c) : \/ Seen(c)[i].text # ask[c].text
                                 \/ Seen(c)[i].status = "streaming"
       \/ ExpiryIsSeen(c) /\ Prior(c) = {} /\ lease # Nobody /\ live
       \/ ExpiryIsSeen(c) /\ Prior(c) = {} /\ ~KeysFree(c)
    /\ view' = [view EXCEPT ![c] = << >>]
    /\ Goes(c, "ended")
    /\ UNCHANGED <<row, ask, connected, stream, sent>>

\* The request was answered before: the stored answer is sent once more.
Replay(c) ==
    /\ step[c] = "starting"
    /\ ExpiryIsSeen(c)
    /\ \E i \in Prior(c) :
          /\ Seen(c)[i].text = ask[c].text
          /\ Seen(c)[i].status # "streaming"
          /\ said' = [said EXCEPT ![c] = Seen(c)[i].size]
          /\ done' = [done EXCEPT ![c] = Seen(c)[i].status]
    /\ turn' = AfterExpiry(turn)
    /\ IF Expired THEN Release ELSE UNCHANGED <<lease, live>>
    /\ view' = [view EXCEPT ![c] = << >>]
    /\ Goes(c, "ended")
    /\ UNCHANGED <<ask, connected, stream>>

OpenTurn(c) ==
    /\ step[c] = "starting"
    /\ ExpiryIsSeen(c)
    /\ Prior(c) = {}
    /\ lease = Nobody \/ ~live
    /\ KeysFree(c)
    /\ turn' = Append(AfterExpiry(turn),
                      [request |-> ask[c].request, text |-> ask[c].text,
                       status |-> "streaming", size |-> 0])
    /\ lease' = c /\ live' = TRUE
    /\ at' = [at EXCEPT ![c] = Len(turn) + 1]
    /\ given' = [given EXCEPT ![c] = Completed(Seen(c))]
    /\ view' = [view EXCEPT ![c] = << >>]
    /\ Goes(c, "streaming")
    /\ UNCHANGED <<ask, connected, verdict, unheard, sent>>

----------------------------------------------------------------------------
\* stream

\* append commits a piece before it is sent.
AppendPiece(c) ==
    /\ step[c] = "streaming"
    /\ HoldsLease(c)
    /\ turn[at[c]].size < MaxPieces
    /\ turn' = [turn EXCEPT ![at[c]].size = @ + 1]
    /\ Goes(c, "saying")
    /\ UNCHANGED <<lease, live, ask, view, connected, stream, sent>>

SayPiece(c) ==
    /\ step[c] = "saying"
    /\ said' = [said EXCEPT ![c] = @ + 1]
    /\ Goes(c, "streaming")
    /\ UNCHANGED <<row, ask, view, connected, stream, done>>

\* The model has nothing more to say.
EndAnswer(c) ==
    /\ step[c] = "streaming"
    /\ said[c] # 0
    /\ Goes(c, "completing")
    /\ UNCHANGED <<row, ask, view, connected, stream, sent>>

\* The model fails, says nothing or takes too long; the authority is gone, the
\* lease is lost or the database fails.
Fail(c) ==
    /\ step[c] \in {"streaming", "saying", "completing"}
    /\ Goes(c, "closing")
    /\ UNCHANGED <<row, ask, view, connected, stream, sent>>

Completes(c) ==
    /\ HoldsLease(c)
    /\ turn' = Settled(turn, at[c], "completed")
    /\ Release

\* Fault: the verdict is set before the turn is saved.
CompleteEarly(c) ==
    /\ step[c] = "completing"
    /\ verdict' = [verdict EXCEPT ![c] = "completed"]
    /\ IF HoldsLease(c) THEN Completes(c) /\ Goes(c, "telling")
                        ELSE UNCHANGED row /\ Goes(c, "closing")
    /\ UNCHANGED <<ask, view, connected, at, given, unheard, sent>>

Complete(c) ==
    /\ step[c] = "completing"
    /\ Completes(c)
    /\ verdict' = [verdict EXCEPT ![c] = "completed"]
    /\ Goes(c, "telling")
    /\ UNCHANGED <<ask, view, connected, at, given, unheard, sent>>

\* The commit took effect, but its answer or the task that waits is lost.
CompleteUnheard(c) ==
    /\ step[c] = "completing"
    /\ Completes(c)
    /\ unheard' = [unheard EXCEPT ![c] = TRUE]
    /\ Goes(c, "closing")
    /\ UNCHANGED <<ask, view, connected, at, given, verdict, sent>>

\* The shielded finish.
CloseTurn(c) ==
    /\ step[c] = "closing"
    /\ HoldsLease(c)
    /\ turn' = Settled(turn, at[c], "incomplete")
    /\ Release
    /\ GoesIfHeard(c, "telling")
    /\ UNCHANGED <<ask, view, connected, stream, sent>>

\* It raises out of the generator: the lease is lost or the database fails.
CloseFails(c) ==
    /\ step[c] = "closing"
    /\ Goes(c, "ended")
    /\ UNCHANGED <<row, ask, view, connected, stream, sent>>

\* After six seconds the stream moves on without it.
CloseGivesUp(c) ==
    /\ step[c] = "closing"
    /\ GoesIfHeard(c, "telling")
    /\ UNCHANGED <<row, ask, view, connected, stream, sent>>

TellDone(c) ==
    /\ step[c] = "telling"
    /\ done' = [done EXCEPT ![c] = verdict[c]]
    /\ Goes(c, "ended")
    /\ UNCHANGED <<row, ask, view, connected, stream, said>>

\* The client goes: a stream at work is cancelled and closes its turn, one that
\* closes already is shielded.
Disconnect(c) ==
    /\ connected[c]
    /\ step[c] \in {"streaming", "saying", "completing", "closing", "telling"}
    /\ connected' = [connected EXCEPT ![c] = FALSE]
    /\ Goes(c, IF step[c] = "telling" THEN "ended" ELSE "closing")
    /\ UNCHANGED <<row, ask, view, stream, sent>>

\* The process dies.
Crash(c) ==
    /\ step[c] \notin {"idle", "ended"}
    /\ view' = [view EXCEPT ![c] = << >>]
    /\ Goes(c, "ended")
    /\ UNCHANGED <<row, ask, connected, stream, sent>>

Next ==
    \/ Lapse \/ Read
    \/ \E c \in Call :
          \/ BeginStart(c) \/ StartRefused(c) \/ Replay(c) \/ OpenTurn(c)
          \/ AppendPiece(c) \/ SayPiece(c) \/ EndAnswer(c) \/ Fail(c)
          \/ Complete(c) \/ CompleteUnheard(c)
          \/ CloseTurn(c) \/ CloseFails(c) \/ CloseGivesUp(c) \/ TellDone(c)
          \/ Disconnect(c) \/ Crash(c)

Spec == Init /\ [][Next]_vars

----------------------------------------------------------------------------
\* Properties

\* However often a request is repeated, and however old the snapshot in which
\* its repetition looks for the first one, the model answers it once, and one
\* turn at a time: a turn that is open is the one whose lease the row holds.
AnsweredOnce ==
    /\ \A i, j \in DOMAIN turn : turn[i].request = turn[j].request => i = j
    /\ \A i \in DOMAIN turn :
          turn[i].status = "streaming" => lease # Nobody /\ at[lease] = i

\* A turn that is settled stays as it is: no stream that lost its lease, and no
\* expiry that comes late, changes its answer or its status.
SettledIsFinal ==
    [][\A i \in DOMAIN turn : turn[i].status # "streaming" => turn'[i] = turn[i]]_vars

\* The model is given completed turns only, none that was cut, and every one
\* but perhaps the last: the snapshot of a start may be older than the end of
\* the turn before, and no older.
HistoryIsWhole ==
    \A c \in Call : \A i \in 1..(at[c] - 1) :
        /\ turn[i].request \in given[c] => turn[i].status = "completed"
        /\ turn[i].status = "completed" /\ i < at[c] - 1 => turn[i].request \in given[c]

\* What a client was sent is stored, and what it was told at the end stays true:
\* "completed" after the whole answer, "incomplete" of an answer that never
\* becomes complete, unless the answer to the commit that completed it was lost.
ToldIsTrue ==
    \A c \in Call : \A i \in Positions(turn, ask[c].request) :
        /\ i = at[c] \/ done[c] # "none" => said[c] <= turn[i].size
        /\ done[c] = "completed" => turn[i].status = "completed" /\ said[c] = turn[i].size
        /\ done[c] = "incomplete" /\ ~unheard[c] => turn[i].status # "completed"
=============================================================================

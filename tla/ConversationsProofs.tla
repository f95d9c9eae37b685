------------------------- MODULE ConversationsProofs -------------------------
(***************************************************************************)
(* Turns are answered once, and what was settled, sent and told stays      *)
(* true.                                                                   *)
(*                                                                         *)
(* The argument.  Turns only ever grow (Grown): one is appended, one gets  *)
(* another piece, or the open one is settled, and there is no open one but *)
(* that of the lease, which is the last (LeaseInv).  So a snapshot is an   *)
(* earlier state of the turns, and what it shows as settled is as it was   *)
(* (ViewInv).  A stream knows how much of its turn it has passed on, even  *)
(* when the turn was settled by somebody else (OwnTurnInv), and an answer  *)
(* that was sent once more is that of a settled turn (ReplayInv).          *)
(***************************************************************************)
EXTENDS Conversations, SequenceTheorems, TLAPS

\* t is s some transactions later.
Grown(s, t) ==
    /\ Len(s) <= Len(t)
    /\ \A i \in DOMAIN s : /\ t[i].request = s[i].request /\ t[i].text = s[i].text
                           /\ s[i].size <= t[i].size
                           /\ s[i].status # "streaming" => t[i] = s[i]

\* The open turn is the last one and belongs to the lease.
LeaseInv ==
    /\ live => lease # Nobody
    /\ lease # Nobody => /\ at[lease] = Len(turn) /\ at[lease] # 0
                         /\ turn[at[lease]].status = "streaming"
    /\ \A i \in DOMAIN turn :
         turn[i].status = "streaming" => lease # Nobody /\ at[lease] = i
RequestInv == \A i, j \in DOMAIN turn : turn[i].request = turn[j].request => i = j
PositionInv == \A c, d \in Call : at[c] = at[d] /\ at[c] # 0 => c = d

\* A snapshot shows an earlier state, in which only the last turn was open.
ViewInv(c) ==
    step[c] = "starting" =>
        /\ Grown(view[c], turn)
        /\ \A i \in DOMAIN view[c] : i # Len(view[c]) => view[c][i].status # "streaming"

\* What the step of a call says about its other fields.
Working == {"streaming", "saying", "completing"}
PhaseInv(c) ==
    /\ step[c] \in {"idle", "starting"} =>
         at[c] = 0 /\ said[c] = 0 /\ verdict[c] = "incomplete" /\ ~unheard[c]
    /\ step[c] \in Working \cup {"closing", "telling"} => at[c] # 0
    /\ step[c] \in Working => verdict[c] = "incomplete" /\ ~unheard[c]
    /\ verdict[c] = "completed" => at[c] # 0 /\ step[c] \in {"telling", "ended"}
    /\ done[c] # "none" => step[c] = "ended"

\* How far a stream is with the turn it opened.
OwnTurnInv(c) ==
    at[c] # 0 =>
        /\ at[c] \in DOMAIN turn
        /\ turn[at[c]].request = ask[c].request /\ turn[at[c]].text = ask[c].text
        /\ said[c] <= turn[at[c]].size
        /\ step[c] \in {"streaming", "completing"} => said[c] = turn[at[c]].size
        /\ step[c] = "saying" => said[c] + 1 = turn[at[c]].size
        /\ verdict[c] = "completed" =>
             turn[at[c]].status = "completed" /\ said[c] = turn[at[c]].size
        /\ turn[at[c]].status = "completed" => verdict[c] = "completed" \/ unheard[c]
        /\ done[c] # "none" => done[c] = verdict[c]

\* A call that was told an end without a turn of its own was sent a settled one.
ReplayInv(c) ==
    at[c] = 0 /\ done[c] # "none" =>
        \E i \in DOMAIN turn : /\ turn[i].request = ask[c].request
                               /\ turn[i].status = done[c]
                               /\ said[c] <= turn[i].size
                               /\ done[c] = "completed" => said[c] = turn[i].size

ConversationInv ==
    /\ TypeOK /\ LeaseInv /\ RequestInv /\ PositionInv
    /\ \A c \in Call : ViewInv(c) /\ PhaseInv(c) /\ OwnTurnInv(c) /\ ReplayInv(c)

----------------------------------------------------------------------------
\* Turns

\* Settling a turn of a sequence changes its status and nothing else.
LEMMA SettledTurns ==
    ASSUME NEW s \in Seq(Turns), NEW i \in DOMAIN s, NEW st, st \in {"completed", "incomplete"}
    PROVE  /\ Settled(s, i, st) \in Seq(Turns)
           /\ Len(Settled(s, i, st)) = Len(s)
           /\ \A j \in DOMAIN s : Settled(s, i, st)[j] = IF j = i THEN [s[i] EXCEPT !.status = st]
                                                          ELSE s[j]
<1>1. i \in 1 .. Len(s) /\ DOMAIN s = 1 .. Len(s)
  OBVIOUS
<1>2. s[i] \in Turns
  OBVIOUS
<1>3. PICK e \in Turns : e = [s[i] EXCEPT !.status = st]
  BY <1>2 DEF Turns
<1>4. Settled(s, i, st) = [s EXCEPT ![i] = e]
  BY <1>3 DEF Settled
<1> QED  BY <1>1, <1>3, <1>4, ExceptSeq

\* One more piece.
LEMMA LongerTurns ==
    ASSUME NEW s \in Seq(Turns), NEW i \in DOMAIN s, s[i].size < MaxPieces
    PROVE  LET t == [s EXCEPT ![i].size = @ + 1]
           IN  /\ t \in Seq(Turns)
               /\ Len(t) = Len(s)
               /\ \A j \in DOMAIN s : t[j] = IF j = i THEN [s[i] EXCEPT !.size = @ + 1] ELSE s[j]
<1>1. i \in 1 .. Len(s) /\ DOMAIN s = 1 .. Len(s)
  OBVIOUS
<1>2. s[i] \in Turns
  OBVIOUS
<1>3. s[i].size + 1 \in 0..MaxPieces
  BY <1>2, PiecesAssumption DEF Turns
<1>4. PICK e \in Turns : e = [s[i] EXCEPT !.size = s[i].size + 1]
  BY <1>2, <1>3 DEF Turns
<1>5. [s EXCEPT ![i].size = @ + 1] = [s EXCEPT ![i] = e]
  BY <1>4
<1> QED  BY <1>1, <1>4, <1>5, ExceptSeq

\* An open turn that is settled, or that gets one more piece, has grown.
LEMMA OpenTurnGrows ==
    ASSUME NEW s \in Seq(Turns), NEW i \in DOMAIN s, s[i].status = "streaming"
    PROVE  /\ Grown(s, s)
           /\ \A st \in {"completed", "incomplete"} : Grown(s, Settled(s, i, st))
           /\ s[i].size < MaxPieces => Grown(s, [s EXCEPT ![i].size = @ + 1])
<1>1. \A j \in DOMAIN s : s[j] \in Turns /\ s[j].size \in Nat /\ s[j].size <= s[j].size
  <2>1. \A j \in DOMAIN s : s[j] \in Turns
    OBVIOUS
  <2> QED  BY <2>1, PiecesAssumption DEF Turns
<1>2. Len(s) <= Len(s)
  OBVIOUS
<1>3. Grown(s, s)
  BY <1>1, <1>2 DEF Grown
<1>4. ASSUME NEW st \in {"completed", "incomplete"} PROVE Grown(s, Settled(s, i, st))
  <2>1. PICK e : e = [s[i] EXCEPT !.status = st]
    OBVIOUS
  <2>2. e.request = s[i].request /\ e.text = s[i].text /\ e.size = s[i].size
    <3>1. PICK r \in Turns : r = s[i]
      BY <1>1
    <3> QED  BY <2>1, <3>1 DEF Turns
  <2>3. PICK t : t = Settled(s, i, st)
    OBVIOUS
  <2>4. Len(t) = Len(s) /\ \A j \in DOMAIN s : t[j] = IF j = i THEN e ELSE s[j]
    <3>1. /\ Len(Settled(s, i, st)) = Len(s)
          /\ \A j \in DOMAIN s : Settled(s, i, st)[j] = IF j = i THEN [s[i] EXCEPT !.status = st]
                                                         ELSE s[j]
      <4>1. st \in {"completed", "incomplete"}  BY <1>4
      <4> QED  BY <4>1, SettledTurns
    <3> QED  BY <2>1, <2>3, <3>1
  <2>5. Grown(s, t)
    BY <1>1, <1>2, <2>2, <2>4 DEF Grown
  <2> QED  BY <2>3, <2>5
<1>5. ASSUME s[i].size < MaxPieces PROVE Grown(s, [s EXCEPT ![i].size = @ + 1])
  <2>1. PICK n \in Nat : n = s[i].size + 1 /\ s[i].size <= n
    BY <1>1
  <2>2. /\ [s[i] EXCEPT !.size = n].request = s[i].request
        /\ [s[i] EXCEPT !.size = n].text = s[i].text
        /\ [s[i] EXCEPT !.size = n].size = n
    BY <1>1 DEF Turns
  <2>3. PICK t : t = [s EXCEPT ![i].size = @ + 1]
    OBVIOUS
  <2>4. /\ Len(t) = Len(s)
        /\ \A j \in DOMAIN s : t[j] = IF j = i THEN [s[i] EXCEPT !.size = n] ELSE s[j]
    BY <1>5, <2>1, <2>3, LongerTurns
  <2>5. Grown(s, t)
    BY <1>1, <1>2, <2>1, <2>2, <2>4 DEF Grown
  <2> QED  BY <2>3, <2>5
<1> QED  BY <1>3, <1>4, <1>5

\* Turns that have grown and grow again have grown.
LEMMA GrownTwice ==
    ASSUME NEW s \in Seq(Turns), NEW t \in Seq(Turns), NEW u \in Seq(Turns),
           Grown(s, t), Grown(t, u)
    PROVE  Grown(s, u)
<1>1. DOMAIN s \subseteq DOMAIN t /\ Len(s) \in Nat /\ Len(t) \in Nat /\ Len(u) \in Nat
  BY DEF Grown
<1>2. ASSUME NEW i \in DOMAIN s PROVE s[i].size <= u[i].size
  <2>1. i \in DOMAIN t /\ i \in DOMAIN u
    BY <1>1 DEF Grown
  <2>2. s[i] \in Turns /\ t[i] \in Turns /\ u[i] \in Turns
    BY <1>2, <2>1
  <2>3. s[i].size \in Nat /\ t[i].size \in Nat /\ u[i].size \in Nat
    BY <2>2, PiecesAssumption DEF Turns
  <2> QED  BY <1>2, <2>1, <2>3 DEF Grown
<1>3. ASSUME NEW i \in DOMAIN s
      PROVE  /\ u[i].request = s[i].request /\ u[i].text = s[i].text
             /\ s[i].status # "streaming" => u[i] = s[i]
  <2>1. i \in DOMAIN t
    BY <1>1
  <2> QED  BY <1>3, <2>1 DEF Grown
<1>4. Len(s) <= Len(u)
  BY <1>1 DEF Grown
<1> QED  BY <1>2, <1>3, <1>4 DEF Grown

----------------------------------------------------------------------------
\* What a transaction does to the turns

\* The lease's turn is settled and the lease given up.
Settles(status) == lease # Nobody /\ turn' = Settled(turn, at[lease], status) /\ Release

\* A turn as it was, unless it was cut.
SameOrCut(r, s) == /\ s.request = r.request /\ s.text = r.text /\ s.size = r.size
                   /\ s.status \in {r.status, "incomplete"}

\* The leased turn exists, is open, and is the last one.
LEMMA LeasedTurn ==
    ASSUME TypeOK, LeaseInv, lease # Nobody
    PROVE  /\ lease \in Call /\ at[lease] \in DOMAIN turn /\ at[lease] = Len(turn)
           /\ turn[at[lease]].status = "streaming"
<1>1. Len(turn) \in Nat /\ DOMAIN turn = 1 .. Len(turn)
  BY DEF TypeOK
<1>2. lease \in Call /\ at[lease] \in Nat
  BY DEF TypeOK
<1> QED  BY <1>1, <1>2 DEF LeaseInv

\* Without a live lease the expiry leaves no turn open.
LEMMA AfterExpiryIsSettled ==
    ASSUME TypeOK, LeaseInv, lease = Nobody \/ ~live
    PROVE  /\ AfterExpiry(turn) \in Seq(Turns)
           /\ Len(AfterExpiry(turn)) = Len(turn)
           /\ Grown(turn, AfterExpiry(turn))
           /\ \A i \in DOMAIN turn : /\ AfterExpiry(turn)[i].status # "streaming"
                                     /\ SameOrCut(turn[i], AfterExpiry(turn)[i])
<1>1. CASE lease = Nobody
  <2>1. AfterExpiry(turn) = turn
    BY <1>1 DEF AfterExpiry, Expired
  <2>2. \A i \in DOMAIN turn : turn[i] \in Turns
    BY DEF TypeOK
  <2>3. \A i \in DOMAIN turn : turn[i].size <= turn[i].size
    BY <2>2, PiecesAssumption DEF Turns
  <2>4. turn \in Seq(Turns) /\ Len(turn) <= Len(turn)
    BY DEF TypeOK
  <2> QED  BY <1>1, <2>1, <2>3, <2>4 DEF LeaseInv, Grown, SameOrCut
<1>2. CASE lease # Nobody /\ ~live
  <2>1. PICK k : k = at[lease]
    OBVIOUS
  <2>2. k \in DOMAIN turn /\ turn[k].status = "streaming" /\ turn \in Seq(Turns)
    BY <1>2, <2>1, LeasedTurn DEF TypeOK
  <2>3. AfterExpiry(turn) = Settled(turn, k, "incomplete")
    BY <1>2, <2>1 DEF AfterExpiry, Expired
  <2>4. Grown(turn, AfterExpiry(turn))
    BY <2>2, <2>3, OpenTurnGrows
  <2>5. /\ Settled(turn, k, "incomplete") \in Seq(Turns)
        /\ Len(Settled(turn, k, "incomplete")) = Len(turn)
        /\ \A j \in DOMAIN turn : Settled(turn, k, "incomplete")[j] =
             IF j = k THEN [turn[k] EXCEPT !.status = "incomplete"] ELSE turn[j]
    BY <2>2, SettledTurns
  <2>6. PICK e : e = [turn[k] EXCEPT !.status = "incomplete"]
    OBVIOUS
  <2>7. e.status = "incomplete" /\ SameOrCut(turn[k], e)
    <3>1. turn[k] \in Turns  BY <2>2
    <3> QED  BY <2>6, <3>1 DEF Turns, SameOrCut
  <2>8. \A j \in DOMAIN turn : /\ j # k => turn[j].status # "streaming"
                               /\ SameOrCut(turn[j], turn[j])
    BY <2>1 DEF LeaseInv, SameOrCut
  <2> QED  BY <2>3, <2>4, <2>5, <2>6, <2>7, <2>8
<1> QED  BY <1>1, <1>2

\* A call that holds the lease settles its turn with Complete and CloseTurn, and
\* whoever comes after the lease ran out settles it for the call that lost it.
LEMMA TurnMoves ==
    ASSUME TypeOK, LeaseInv, [Next]_vars
    PROVE  \/ turn' = turn /\ lease' = lease /\ (live' => live)
           \/ Settles("incomplete")
           \/ \E c \in Call : Settles("completed") /\ (Complete(c) \/ CompleteUnheard(c))
           \/ \E c \in Call : AppendPiece(c)
           \/ \E c \in Call : OpenTurn(c)
<1>1. CASE Lapse
  BY <1>1 DEF Lapse
<1>2. CASE Read
  BY <1>2 DEF Read, Settles, AfterExpiry, Expired
<1>3. ASSUME NEW c \in Call, Replay(c)
      PROVE  (turn' = turn /\ lease' = lease /\ live' = live) \/ Settles("incomplete")
  BY <1>3 DEF Replay, AfterExpiry, Settles, Expired
<1>4. ASSUME NEW c \in Call, Complete(c) \/ CompleteUnheard(c)
      PROVE  Settles("completed")
  BY <1>4 DEF Complete, CompleteUnheard, Completes, HoldsLease, Settles, LeaseInv
<1>5. ASSUME NEW c \in Call, CloseTurn(c) PROVE Settles("incomplete")
  BY <1>5 DEF CloseTurn, HoldsLease, Settles, LeaseInv
<1>6. ASSUME NEW c \in Call, \/ BeginStart(c) \/ StartRefused(c) \/ SayPiece(c) \/ EndAnswer(c)
                             \/ Fail(c) \/ CloseFails(c) \/ CloseGivesUp(c) \/ TellDone(c)
                             \/ Disconnect(c) \/ Crash(c)
      PROVE  turn' = turn /\ lease' = lease /\ live' = live
  BY <1>6 DEF BeginStart, StartRefused, SayPiece, EndAnswer, Fail, CloseFails, CloseGivesUp,
     TellDone, Disconnect, Crash, row
<1>7. CASE UNCHANGED vars
  BY <1>7 DEF vars
<1> QED  BY <1>1, <1>2, <1>3, <1>4, <1>5, <1>6, <1>7, Zenon DEF Next

\* A new turn is appended to turns that are all settled.
LEMMA TurnOpened ==
    ASSUME TypeOK, LeaseInv, NEW c \in Call, OpenTurn(c)
    PROVE  /\ turn' \in Seq(Turns) /\ Grown(turn, turn')
           /\ Len(turn') = Len(turn) + 1
           /\ \A i \in DOMAIN turn : /\ turn'[i] = AfterExpiry(turn)[i]
                                     /\ turn'[i].status # "streaming"
                                     /\ SameOrCut(turn[i], turn'[i])
           /\ turn'[Len(turn) + 1] = [request |-> ask[c].request, text |-> ask[c].text,
                                      status |-> "streaming", size |-> 0]
<1>0. turn \in Seq(Turns) /\ Len(turn) \in Nat /\ DOMAIN turn = 1 .. Len(turn)
  BY DEF TypeOK
<1>1. PICK e : e = [request |-> ask[c].request, text |-> ask[c].text,
                    status |-> "streaming", size |-> 0]
  OBVIOUS
<1>2. e \in Turns
  <2>1. ask[c] \in Ask  BY DEF TypeOK
  <2> QED  BY <1>1, <2>1, PiecesAssumption DEF Turns
<1>3. PICK s : s = AfterExpiry(turn)
  OBVIOUS
<1>4. /\ s \in Seq(Turns) /\ Len(s) = Len(turn) /\ Grown(turn, s)
      /\ \A i \in DOMAIN turn : s[i].status # "streaming" /\ SameOrCut(turn[i], s[i])
  BY <1>3, AfterExpiryIsSettled DEF OpenTurn
<1>5. turn' = Append(s, e)
  BY <1>1, <1>3 DEF OpenTurn
<1>6. /\ Append(s, e) \in Seq(Turns) /\ Len(Append(s, e)) = Len(s) + 1
      /\ \A i \in 1 .. Len(s) : Append(s, e)[i] = s[i]
      /\ Append(s, e)[Len(s) + 1] = e
  BY <1>2, <1>4, AppendProperties
<1>7. Grown(turn, turn')
  BY <1>0, <1>4, <1>5, <1>6 DEF Grown
<1> QED  BY <1>0, <1>1, <1>3, <1>4, <1>5, <1>6, <1>7

\* The turn of the lease is settled, and the others stay.
LEMMA TurnSettled ==
    ASSUME TypeOK, LeaseInv, NEW st, st \in {"completed", "incomplete"}, Settles(st)
    PROVE  /\ turn' \in Seq(Turns) /\ Grown(turn, turn')
           /\ Len(turn') = Len(turn)
           /\ lease \in Call /\ at[lease] \in DOMAIN turn
           /\ turn[at[lease]].status = "streaming" /\ turn'[at[lease]].status = st
           /\ turn'[at[lease]].request = turn[at[lease]].request
           /\ turn'[at[lease]].text = turn[at[lease]].text
           /\ turn'[at[lease]].size = turn[at[lease]].size
           /\ \A i \in DOMAIN turn : i # at[lease] => turn'[i] = turn[i]
           /\ \A i \in DOMAIN turn : turn'[i].status # "streaming"
<1>1. PICK k \in DOMAIN turn : k = at[lease] /\ turn[k].status = "streaming"
  BY LeasedTurn DEF Settles
<1>2. turn' = Settled(turn, k, st) /\ turn \in Seq(Turns)
  BY <1>1 DEF Settles, TypeOK
<1>3. /\ turn' \in Seq(Turns)
      /\ Len(turn') = Len(turn)
      /\ \A j \in DOMAIN turn : turn'[j] = IF j = k THEN [turn[k] EXCEPT !.status = st] ELSE turn[j]
  BY <1>2, SettledTurns
<1>4. Grown(turn, turn')
  BY <1>1, <1>2, OpenTurnGrows
<1>5. /\ turn'[k].status = st /\ turn'[k].request = turn[k].request
      /\ turn'[k].text = turn[k].text /\ turn'[k].size = turn[k].size
  <2>1. PICK r \in Turns : r = turn[k]  BY <1>2
  <2>2. turn'[k] = [r EXCEPT !.status = st]  BY <1>3, <2>1
  <2> QED  BY <2>1, <2>2 DEF Turns
<1>6. \A j \in DOMAIN turn : j # k => turn[j].status # "streaming"
  BY <1>1 DEF LeaseInv
<1>7. lease \in Call
  BY LeasedTurn DEF Settles
<1> QED  BY <1>1, <1>3, <1>4, <1>5, <1>6, <1>7

\* The turn of the lease gets a piece.
LEMMA PieceAppended ==
    ASSUME TypeOK, LeaseInv, NEW c \in Call, AppendPiece(c)
    PROVE  /\ turn' \in Seq(Turns) /\ Grown(turn, turn')
           /\ Len(turn') = Len(turn)
           /\ lease = c /\ at[c] \in DOMAIN turn /\ turn[at[c]].status = "streaming"
           /\ turn'[at[c]].status = "streaming"
           /\ turn'[at[c]].size = turn[at[c]].size + 1
           /\ turn'[at[c]].request = turn[at[c]].request
           /\ turn'[at[c]].text = turn[at[c]].text
           /\ \A i \in DOMAIN turn : i # at[c] => turn'[i] = turn[i]
<1>1. lease = c /\ lease # Nobody
  BY DEF AppendPiece, HoldsLease, LeaseInv
<1>2. PICK k \in DOMAIN turn : k = at[c] /\ turn[k].status = "streaming"
  BY <1>1, LeasedTurn
<1>3. turn' = [turn EXCEPT ![k].size = @ + 1] /\ turn[k].size < MaxPieces /\ turn \in Seq(Turns)
  BY <1>2 DEF AppendPiece, TypeOK
<1>4. /\ turn' \in Seq(Turns)
      /\ Len(turn') = Len(turn)
      /\ \A j \in DOMAIN turn : turn'[j] = IF j = k THEN [turn[k] EXCEPT !.size = @ + 1] ELSE turn[j]
  BY <1>3, LongerTurns
<1>5. Grown(turn, turn')
  BY <1>2, <1>3, OpenTurnGrows
<1>6. /\ turn'[k].status = "streaming" /\ turn'[k].size = turn[k].size + 1
      /\ turn'[k].request = turn[k].request /\ turn'[k].text = turn[k].text
  <2>1. PICK r \in Turns : r = turn[k]  BY <1>3
  <2>2. turn'[k] = [r EXCEPT !.size = @ + 1]  BY <1>4, <2>1
  <2> QED  BY <1>2, <2>1, <2>2 DEF Turns
<1> QED  BY <1>1, <1>2, <1>4, <1>5, <1>6

\* The turns grow with every step, and are as many as before unless one is opened.
LEMMA TurnsGrow ==
    ASSUME TypeOK, LeaseInv, [Next]_vars
    PROVE  /\ turn' \in Seq(Turns) /\ Grown(turn, turn')
           /\ Len(turn') = Len(turn) \/ \E c \in Call : OpenTurn(c)
<1>1. CASE turn' = turn
  <2>1. turn \in Seq(Turns) /\ Len(turn) \in Nat
    BY DEF TypeOK
  <2>2. \A i \in DOMAIN turn : turn[i] \in Turns
    BY <2>1
  <2>3. \A i \in DOMAIN turn : turn[i].size <= turn[i].size
    BY <2>2, PiecesAssumption DEF Turns
  <2> QED  BY <1>1, <2>1, <2>3 DEF Grown
<1> QED  BY <1>1, TurnMoves, TurnOpened, TurnSettled, PieceAppended

\* Only an opened turn gives a call a position.
LEMMA PositionsStay ==
    ASSUME [Next]_vars
    PROVE  at' = at \/ \E c \in Call : OpenTurn(c)
<1> QED
  BY DEF Next, Lapse, Read, BeginStart, StartRefused, Replay, AppendPiece, SayPiece, EndAnswer,
     Fail, Complete, CompleteUnheard, CloseTurn, CloseFails, CloseGivesUp, TellDone, Disconnect,
     Crash, stream, vars

\* While a turn is open nothing is appended, and whoever settles it gives up the lease.
LEMMA LeaseStep ==
    ASSUME TypeOK, LeaseInv, RequestInv, PositionInv, [Next]_vars,
           \A c \in Call : at[c] # 0 => at[c] \in DOMAIN turn
    PROVE  LeaseInv' /\ RequestInv' /\ PositionInv'
<1>0. turn \in Seq(Turns) /\ Len(turn) \in Nat /\ DOMAIN turn = 1 .. Len(turn)
  BY DEF TypeOK
<1>1. ASSUME NEW c \in Call, OpenTurn(c) PROVE LeaseInv' /\ RequestInv' /\ PositionInv'
  <2>1. /\ turn' \in Seq(Turns) /\ Len(turn') = Len(turn) + 1
        /\ \A i \in DOMAIN turn : turn'[i].status # "streaming"
        /\ \A i \in DOMAIN turn : turn'[i].request = turn[i].request
        /\ turn'[Len(turn) + 1].status = "streaming"
        /\ turn'[Len(turn) + 1].request = ask[c].request
    <3>1. PICK e : e = turn'[Len(turn) + 1]
      OBVIOUS
    <3>2. e.status = "streaming" /\ e.request = ask[c].request
      <4>1. e = [request |-> ask[c].request, text |-> ask[c].text,
                 status |-> "streaming", size |-> 0]
        BY <1>1, <3>1, TurnOpened
      <4> QED  BY <4>1
    <3>3. /\ turn' \in Seq(Turns) /\ Len(turn') = Len(turn) + 1 /\ Grown(turn, turn')
          /\ \A i \in DOMAIN turn : turn'[i].status # "streaming"
      BY <1>1, TurnOpened
    <3> QED  BY <3>1, <3>2, <3>3 DEF Grown
  <2>2. DOMAIN turn' = 1 .. Len(turn) + 1
    BY <1>0, <2>1
  <2>3. /\ lease' = c /\ live' = TRUE /\ c # Nobody
        /\ at' = [at EXCEPT ![c] = Len(turn) + 1]
        /\ Positions(turn, ask[c].request) = {}
    BY <1>1, NobodyAssumption DEF OpenTurn, KeysFree
  <2>4. at'[c] = Len(turn) + 1 /\ \A d \in Call : d # c => at'[d] = at[d]
    BY <2>3 DEF TypeOK
  <2>5. LeaseInv'
    BY <1>0, <2>1, <2>2, <2>3, <2>4 DEF LeaseInv
  <2>6. RequestInv'
    <3>1. \A i \in DOMAIN turn : turn[i].request # ask[c].request
      BY <2>3 DEF Positions
    <3> QED  BY <1>0, <2>1, <2>2, <3>1 DEF RequestInv
  <2>7. PositionInv'
    <3>1. \A d \in Call : at[d] # Len(turn) + 1
      BY <1>0
    <3> QED  BY <2>4, <3>1 DEF PositionInv
  <2> QED  BY <2>5, <2>6, <2>7
<1>2. ASSUME ~\E c \in Call : OpenTurn(c) PROVE LeaseInv' /\ RequestInv' /\ PositionInv'
  <2>1. /\ at' = at
        /\ turn' \in Seq(Turns) /\ Len(turn') = Len(turn)
        /\ \A i \in DOMAIN turn : turn'[i].request = turn[i].request
    BY <1>2, PositionsStay, TurnsGrow DEF Grown
  <2>2. DOMAIN turn' = DOMAIN turn
    BY <1>0, <2>1
  <2>3. RequestInv' /\ PositionInv'
    BY <2>1, <2>2 DEF RequestInv, PositionInv
  <2>4. ASSUME turn' = turn, lease' = lease, live' => live PROVE LeaseInv'
    BY <2>1, <2>4 DEF LeaseInv
  <2>5. ASSUME NEW st, st \in {"completed", "incomplete"}, Settles(st) PROVE LeaseInv'
    BY <2>2, <2>5, TurnSettled DEF LeaseInv, Settles, Release
  <2>6. ASSUME NEW c \in Call, AppendPiece(c) PROVE LeaseInv'
    <3>1. lease' = lease /\ live' = live
      BY <2>6 DEF AppendPiece
    <3> QED  BY <2>1, <2>2, <2>6, <3>1, PieceAppended DEF LeaseInv
  <2> QED  BY <1>2, <2>3, <2>4, <2>5, <2>6, TurnMoves
<1> QED  BY <1>1, <1>2

----------------------------------------------------------------------------
\* What a call knows

\* The steps of one call.
By(c) == \/ BeginStart(c) \/ StartRefused(c) \/ Replay(c) \/ OpenTurn(c)
         \/ AppendPiece(c) \/ SayPiece(c) \/ EndAnswer(c) \/ Fail(c)
         \/ Complete(c) \/ CompleteUnheard(c)
         \/ CloseTurn(c) \/ CloseFails(c) \/ CloseGivesUp(c) \/ TellDone(c)
         \/ Disconnect(c) \/ Crash(c)
CallIsQuiet(c) ==
    /\ step'[c] = step[c] /\ view'[c] = view[c] /\ at'[c] = at[c]
    /\ given'[c] = given[c] /\ verdict'[c] = verdict[c] /\ said'[c] = said[c]
    /\ done'[c] = done[c] /\ unheard'[c] = unheard[c]

\* Nobody changes the fields of another call, and nobody what a call asks.
LEMMA CallsAreApart ==
    ASSUME TypeOK, [Next]_vars, NEW c \in Call
    PROVE  ask' = ask /\ (By(c) \/ CallIsQuiet(c))
<1>1. CASE Lapse \/ Read \/ UNCHANGED vars
  BY <1>1 DEF Lapse, Read, vars, stream, sent, CallIsQuiet
<1>2. ASSUME NEW d \in Call, By(d) PROVE ask' = ask /\ (d # c => CallIsQuiet(c))
  <2>1. CASE BeginStart(d) \/ StartRefused(d) \/ Replay(d) \/ OpenTurn(d)
    BY <2>1 DEF BeginStart, StartRefused, Replay, OpenTurn, Goes, TypeOK, stream, sent, CallIsQuiet
  <2>2. CASE AppendPiece(d) \/ SayPiece(d) \/ EndAnswer(d) \/ Fail(d)
    BY <2>2 DEF AppendPiece, SayPiece, EndAnswer, Fail, Goes, TypeOK, stream, sent, CallIsQuiet
  <2>3. CASE Complete(d) \/ CompleteUnheard(d)
    BY <2>3 DEF Complete, CompleteUnheard, Goes, TypeOK, stream, sent, CallIsQuiet
  <2>4. CASE CloseTurn(d) \/ CloseFails(d) \/ CloseGivesUp(d) \/ TellDone(d)
    BY <2>4 DEF CloseTurn, CloseFails, CloseGivesUp, TellDone, GoesIfHeard, Goes, TypeOK,
       stream, sent, CallIsQuiet
  <2>5. CASE Disconnect(d) \/ Crash(d)
    BY <2>5 DEF Disconnect, Crash, Goes, TypeOK, stream, sent, CallIsQuiet
  <2> QED  BY <1>2, <2>1, <2>2, <2>3, <2>4, <2>5 DEF By
<1> QED  BY <1>1, <1>2 DEF Next, By

\* Nobody else adds to a call's turn or completes it; it may be cut.
LEMMA OthersOnlyCut ==
    ASSUME TypeOK, LeaseInv, PositionInv, [Next]_vars, NEW c \in Call, ~By(c),
           at[c] \in DOMAIN turn
    PROVE  SameOrCut(turn[at[c]], turn'[at[c]])
<1>0. at[c] # 0
  BY DEF TypeOK
<1>1. CASE turn' = turn
  BY <1>1 DEF SameOrCut
<1>2. CASE Settles("incomplete")
  BY <1>2, TurnSettled DEF SameOrCut
<1>3. ASSUME NEW d \in Call, Settles("completed"), Complete(d) \/ CompleteUnheard(d)
      PROVE  SameOrCut(turn[at[c]], turn'[at[c]])
  <2>1. lease = d /\ d # c
    BY <1>3 DEF Complete, CompleteUnheard, Completes, HoldsLease, By
  <2>2. at[d] # at[c]
    BY <1>0, <2>1 DEF PositionInv
  <2> QED  BY <1>3, <2>1, <2>2, TurnSettled DEF SameOrCut
<1>4. ASSUME NEW d \in Call, AppendPiece(d) PROVE SameOrCut(turn[at[c]], turn'[at[c]])
  <2>1. d # c
    BY <1>4 DEF By
  <2>2. at[d] # at[c]
    BY <1>0, <2>1 DEF PositionInv
  <2> QED  BY <1>4, <2>2, PieceAppended DEF SameOrCut
<1>5. ASSUME NEW d \in Call, OpenTurn(d) PROVE SameOrCut(turn[at[c]], turn'[at[c]])
  BY <1>5, TurnOpened
<1> QED  BY <1>1, <1>2, <1>3, <1>4, <1>5, TurnMoves

\* The step of a call and what goes with it.
LEMMA PhaseStep ==
    ASSUME TypeOK, LeaseInv, [Next]_vars, NEW c \in Call, PhaseInv(c)
    PROVE  PhaseInv(c)'
<1> USE DEF PhaseInv, Working
<1>0. /\ c # Nobody /\ step[c] \in Step /\ verdict[c] \in {"completed", "incomplete"}
      /\ at[c] \in Nat /\ Len(turn) \in Nat
  BY NobodyAssumption DEF TypeOK
<1>1. CASE CallIsQuiet(c)
  BY <1>1 DEF CallIsQuiet
<1>2. CASE BeginStart(c) \/ StartRefused(c)
  BY <1>2 DEF BeginStart, StartRefused, Goes, TypeOK, stream, sent
<1>3. CASE Replay(c)
  BY <1>3 DEF Replay, Goes, TypeOK, stream
<1>4. CASE OpenTurn(c)
  <2>1. at'[c] # 0
    BY <1>0, <1>4 DEF OpenTurn, TypeOK
  <2> QED  BY <1>4, <2>1 DEF OpenTurn, Goes, TypeOK, sent
<1>5. CASE AppendPiece(c) \/ SayPiece(c) \/ EndAnswer(c) \/ Fail(c)
  BY <1>5 DEF AppendPiece, SayPiece, EndAnswer, Fail, Goes, TypeOK, stream, sent
<1>6. CASE Complete(c) \/ CompleteUnheard(c)
  BY <1>6 DEF Complete, CompleteUnheard, Goes, TypeOK, sent
<1>7. CASE CloseTurn(c) \/ CloseFails(c) \/ CloseGivesUp(c) \/ TellDone(c)
  BY <1>7 DEF CloseTurn, CloseFails, CloseGivesUp, TellDone, GoesIfHeard, Goes, TypeOK, stream, sent
<1>8. CASE Disconnect(c) \/ Crash(c)
  BY <1>0, <1>8 DEF Disconnect, Crash, Goes, TypeOK, stream, sent, Step
<1> QED
  BY <1>1, <1>2, <1>3, <1>4, <1>5, <1>6, <1>7, <1>8, CallsAreApart DEF By

\* A snapshot stays an earlier state of the turns.
LEMMA ViewStep ==
    ASSUME TypeOK, LeaseInv, [Next]_vars, NEW c \in Call, ViewInv(c)
    PROVE  ViewInv(c)'
<1>0. /\ turn \in Seq(Turns) /\ view[c] \in Seq(Turns)
      /\ turn' \in Seq(Turns) /\ Grown(turn, turn')
  BY TurnsGrow DEF TypeOK
<1>1. SUFFICES ASSUME step'[c] = "starting"
               PROVE  /\ Grown(view'[c], turn')
                      /\ \A i \in DOMAIN view'[c] :
                           i # Len(view'[c]) => view'[c][i].status # "streaming"
  BY DEF ViewInv
<1>2. CASE CallIsQuiet(c)
  BY <1>0, <1>1, <1>2, GrownTwice DEF CallIsQuiet, ViewInv
<1>3. CASE BeginStart(c)
  <2>1. view'[c] = turn /\ turn' = turn
    BY <1>3 DEF BeginStart, TypeOK, row
  <2> QED  BY <1>0, <2>1 DEF LeaseInv
<1>4. CASE By(c) /\ ~BeginStart(c)
  BY <1>1, <1>4 DEF By, StartRefused, Replay, OpenTurn, AppendPiece, SayPiece, EndAnswer, Fail,
     Complete, CompleteUnheard, CloseTurn, CloseFails, CloseGivesUp, TellDone, GoesIfHeard,
     Disconnect, Crash, Goes, TypeOK
<1> QED  BY <1>2, <1>3, <1>4, CallsAreApart

\* What a start sees behind the expiry, and how far it is true of the turns: a
\* settled turn has its status, and a completed one all of its answer.
LEMMA SeenIsTrue ==
    ASSUME TypeOK, LeaseInv, NEW c \in Call, ViewInv(c), step[c] = "starting", ExpiryIsSeen(c)
    PROVE  /\ Seen(c) \in Seq(Turns) /\ Len(Seen(c)) = Len(view[c])
           /\ Len(view[c]) <= Len(turn)
           /\ \A i \in DOMAIN view[c] :
                /\ i \in DOMAIN turn
                /\ Seen(c)[i].request = turn[i].request
                /\ Seen(c)[i].status # "streaming" =>
                     /\ AfterExpiry(turn)[i].status = Seen(c)[i].status
                     /\ Seen(c)[i].size <= AfterExpiry(turn)[i].size
                     /\ Seen(c)[i].status = "completed" => Seen(c)[i].size = AfterExpiry(turn)[i].size
                /\ i # Len(view[c]) /\ AfterExpiry(turn)[i].status = "completed" =>
                     Seen(c)[i].status = "completed"
<1>0. /\ turn \in Seq(Turns) /\ view[c] \in Seq(Turns)
      /\ Grown(view[c], turn)
      /\ \A i \in DOMAIN view[c] : i # Len(view[c]) => view[c][i].status # "streaming"
  BY DEF TypeOK, ViewInv
<1>1. PICK v \in Seq(Turns) : v = view[c]
  BY <1>0
<1>2. Len(v) <= Len(turn) /\ DOMAIN v \subseteq DOMAIN turn
  <2>1. Len(v) <= Len(turn) /\ Len(v) \in Nat /\ Len(turn) \in Nat
    BY <1>0, <1>1 DEF Grown
  <2> QED  BY <1>0, <1>1, <2>1
<1>3. ASSUME NEW i \in DOMAIN v
      PROVE  /\ i \in DOMAIN turn
             /\ v[i].request = turn[i].request
             /\ v[i].size <= turn[i].size
             /\ v[i].status # "streaming" =>
                  v[i].status = turn[i].status /\ v[i].size = turn[i].size
             /\ i # Len(v) => v[i].status # "streaming"
  BY <1>0, <1>1, <1>2, <1>3 DEF Grown
<1>4. CASE ~Expired
  <2>1. Seen(c) = v /\ AfterExpiry(turn) = turn
    BY <1>1, <1>4 DEF Seen, AfterExpiry
  <2>2. v \in Seq(Turns) /\ Len(v) = Len(view[c]) /\ DOMAIN v = DOMAIN view[c]
    BY <1>1
  <2> HIDE DEF Seen, AfterExpiry
  <2> QED  BY <1>1, <1>2, <1>3, <2>1, <2>2
<1>5. CASE Expired
  <2>1. PICK k : k = at[lease]
    OBVIOUS
  <2>2. k \in DOMAIN v /\ k \in DOMAIN turn /\ turn[k].status = "streaming"
    BY <1>1, <1>5, <2>1, LeasedTurn DEF ExpiryIsSeen, Expired
  <2>3. PICK s : s = Seen(c)
    OBVIOUS
  <2>4. PICK t : t = AfterExpiry(turn)
    OBVIOUS
  <2>5. /\ s \in Seq(Turns) /\ Len(s) = Len(v)
        /\ \A i \in DOMAIN v : i # k => s[i] = v[i]
        /\ s[k].status = "incomplete" /\ s[k].size = v[k].size /\ s[k].request = v[k].request
    <3>1. s = Settled(v, k, "incomplete")
      BY <1>1, <1>5, <2>1, <2>3 DEF Seen, AfterExpiry
    <3>2. /\ s \in Seq(Turns) /\ Len(s) = Len(v)
          /\ \A i \in DOMAIN v : s[i] = IF i = k THEN [v[k] EXCEPT !.status = "incomplete"] ELSE v[i]
      BY <2>2, <3>1, SettledTurns
    <3>3. PICK r \in Turns : r = v[k]
      BY <1>1, <2>2
    <3>4. s[k] = [r EXCEPT !.status = "incomplete"]
      BY <2>2, <3>2, <3>3
    <3>5. s[k].status = "incomplete" /\ s[k].size = r.size /\ s[k].request = r.request
      BY <3>3, <3>4 DEF Turns
    <3> QED  BY <3>2, <3>3, <3>5
  <2>6. /\ \A i \in DOMAIN turn : i # k => t[i] = turn[i]
        /\ t[k].status = "incomplete" /\ t[k].size = turn[k].size
    <3>1. t = Settled(turn, k, "incomplete")
      BY <1>5, <2>1, <2>4 DEF AfterExpiry
    <3>2. \A i \in DOMAIN turn :
            t[i] = IF i = k THEN [turn[k] EXCEPT !.status = "incomplete"] ELSE turn[i]
      BY <1>0, <2>2, <3>1, SettledTurns
    <3>3. PICK r \in Turns : r = turn[k]
      BY <1>0, <2>2
    <3>4. t[k] = [r EXCEPT !.status = "incomplete"]
      BY <2>2, <3>2, <3>3
    <3>5. t[k].status = "incomplete" /\ t[k].size = r.size
      BY <3>3, <3>4 DEF Turns
    <3> QED  BY <3>2, <3>3, <3>5
  <2> HIDE DEF Seen, AfterExpiry
  <2>7. ASSUME NEW i \in DOMAIN v
        PROVE  /\ i \in DOMAIN turn
               /\ s[i].request = turn[i].request
               /\ s[i].status # "streaming" =>
                    /\ t[i].status = s[i].status
                    /\ s[i].size <= t[i].size
                    /\ s[i].status = "completed" => s[i].size = t[i].size
               /\ i # Len(v) /\ t[i].status = "completed" => s[i].status = "completed"
    <3>1. CASE i = k
      BY <1>3, <2>2, <2>5, <2>6, <2>7, <3>1
    <3>2. CASE i # k
      <4>1. s[i] = v[i] /\ t[i] = turn[i] /\ i \in DOMAIN turn
        BY <1>2, <2>5, <2>6, <2>7, <3>2
      <4> QED  BY <1>3, <2>7, <4>1
    <3> QED  BY <3>1, <3>2
  <2> QED  BY <1>1, <1>2, <2>3, <2>4, <2>5, <2>7
<1> QED  BY <1>4, <1>5

\* How far a stream is with its turn, whatever became of the turn.
LEMMA OwnTurnStep ==
    ASSUME ConversationInv, [Next]_vars, NEW c \in Call
    PROVE  OwnTurnInv(c)'
<1> USE DEF ConversationInv
<1>0. /\ TypeOK /\ LeaseInv /\ PhaseInv(c) /\ OwnTurnInv(c) /\ ask' = ask
      /\ turn \in Seq(Turns) /\ turn' \in Seq(Turns) /\ Grown(turn, turn')
      /\ DOMAIN turn \subseteq DOMAIN turn'
  <2>1. turn' \in Seq(Turns) /\ Grown(turn, turn') /\ turn \in Seq(Turns)
    BY TurnsGrow DEF TypeOK
  <2>2. DOMAIN turn \subseteq DOMAIN turn'
    BY <2>1 DEF Grown
  <2> QED  BY <2>1, <2>2, CallsAreApart
<1>1. SUFFICES ASSUME at'[c] # 0
               PROVE  /\ at'[c] \in DOMAIN turn'
                      /\ turn'[at'[c]].request = ask[c].request
                      /\ turn'[at'[c]].text = ask[c].text
                      /\ said'[c] <= turn'[at'[c]].size
                      /\ step'[c] \in {"streaming", "completing"} => said'[c] = turn'[at'[c]].size
                      /\ step'[c] = "saying" => said'[c] + 1 = turn'[at'[c]].size
                      /\ verdict'[c] = "completed" =>
                           turn'[at'[c]].status = "completed" /\ said'[c] = turn'[at'[c]].size
                      /\ turn'[at'[c]].status = "completed" => verdict'[c] = "completed" \/ unheard'[c]
                      /\ done'[c] # "none" => done'[c] = verdict'[c]
  BY <1>0 DEF OwnTurnInv
<1>2. at[c] \in Nat /\ said[c] \in Nat
  BY DEF TypeOK
<1>3. CASE OpenTurn(c)
  <2>1. /\ at'[c] = Len(turn) + 1 /\ Len(turn') = Len(turn) + 1 /\ Len(turn) \in Nat
        /\ step'[c] = "streaming" /\ said'[c] = said[c] /\ done'[c] = done[c]
        /\ verdict'[c] = verdict[c] /\ step[c] = "starting"
    <3>1. Len(turn') = Len(turn) + 1 /\ Len(turn) \in Nat
      <4>1. Len(turn) \in Nat  BY <1>0
      <4>2. TypeOK /\ LeaseInv  BY <1>0
      <4>3. Len(turn') = Len(turn) + 1  BY <1>3, <4>2, TurnOpened
      <4> QED  BY <4>1, <4>3
    <3>2. /\ at' = [at EXCEPT ![c] = Len(turn) + 1] /\ Goes(c, "streaming")
          /\ said' = said /\ done' = done /\ verdict' = verdict /\ step[c] = "starting"
      BY <1>3 DEF OpenTurn, sent
    <3> QED  BY <3>1, <3>2 DEF Goes, TypeOK
  <2>2. PICK e : e = turn'[Len(turn) + 1]
    OBVIOUS
  <2>3. /\ e.request = ask[c].request /\ e.text = ask[c].text
        /\ e.status = "streaming" /\ e.size = 0
    <3>1. e = [request |-> ask[c].request, text |-> ask[c].text,
               status |-> "streaming", size |-> 0]
      BY <1>3, <2>2, TurnOpened
    <3> QED  BY <3>1
  <2>4. said[c] = 0 /\ verdict[c] = "incomplete" /\ done[c] = "none"
    BY <1>0, <2>1 DEF PhaseInv
  <2>5. at'[c] \in DOMAIN turn'
    BY <1>0, <2>1
  <2> QED  BY <2>1, <2>2, <2>3, <2>4, <2>5
<1>4. CASE CallIsQuiet(c) /\ ~By(c)
  <2>1. SameOrCut(turn[at[c]], turn'[at[c]]) /\ at[c] \in DOMAIN turn
    BY <1>0, <1>1, <1>4, OthersOnlyCut DEF CallIsQuiet, OwnTurnInv
  <2>2. turn[at[c]].status = "completed" => turn'[at[c]] = turn[at[c]]
    BY <1>0, <2>1 DEF Grown
  <2> QED  BY <1>0, <1>1, <1>4, <2>1, <2>2 DEF CallIsQuiet, OwnTurnInv, SameOrCut
<1>5. CASE \/ BeginStart(c) \/ StartRefused(c) \/ Replay(c)
  BY <1>0, <1>1, <1>5 DEF BeginStart, StartRefused, Replay, PhaseInv, stream
<1>6. CASE AppendPiece(c)
  <2>1. /\ step[c] = "streaming" /\ step'[c] = "saying" /\ at'[c] = at[c] /\ said'[c] = said[c]
        /\ verdict'[c] = verdict[c] /\ done'[c] = done[c]
    BY <1>6 DEF AppendPiece, Goes, TypeOK, stream, sent
  <2>2. PICK n \in Nat : n = turn[at[c]].size /\ said[c] = n
    BY <1>0, <1>1, <1>2, <2>1 DEF OwnTurnInv
  <2>3. /\ at[c] \in DOMAIN turn /\ turn'[at[c]].size = n + 1 /\ turn'[at[c]].status = "streaming"
        /\ turn'[at[c]].request = turn[at[c]].request /\ turn'[at[c]].text = turn[at[c]].text
    BY <1>0, <1>6, <2>2, PieceAppended
  <2>4. verdict[c] = "incomplete" /\ done[c] = "none"
    BY <1>0, <2>1 DEF PhaseInv, Working
  <2> QED  BY <1>0, <1>1, <2>1, <2>2, <2>3, <2>4 DEF OwnTurnInv
<1>7. CASE SayPiece(c) \/ EndAnswer(c) \/ Fail(c)
  <2>1. /\ turn' = turn /\ at' = at /\ verdict' = verdict /\ unheard' = unheard /\ done' = done
        /\ step[c] \in Working
    BY <1>7 DEF SayPiece, EndAnswer, Fail, row, stream, sent, Working
  <2>2. verdict[c] = "incomplete" /\ done[c] = "none"
    BY <1>0, <2>1 DEF PhaseInv, Working
  <2>3. \/ step[c] = "saying" /\ step'[c] = "streaming" /\ said'[c] = said[c] + 1
        \/ step[c] = "streaming" /\ step'[c] = "completing" /\ said'[c] = said[c]
        \/ step'[c] = "closing" /\ said'[c] = said[c]
    BY <1>7 DEF SayPiece, EndAnswer, Fail, Goes, TypeOK, sent
  <2> QED  BY <1>0, <1>1, <1>2, <2>1, <2>2, <2>3 DEF OwnTurnInv
<1>8. CASE Complete(c) \/ CompleteUnheard(c)
  <2>1. /\ Settles("completed") /\ lease = c
        /\ step[c] = "completing" /\ at'[c] = at[c] /\ said'[c] = said[c] /\ done'[c] = done[c]
        /\ step'[c] \in {"telling", "closing"}
        /\ verdict'[c] = "completed" \/ unheard'[c]
    BY <1>0, <1>8 DEF Complete, CompleteUnheard, Completes, HoldsLease, LeaseInv, Settles, Goes,
       TypeOK, sent
  <2>2. /\ turn'[at[c]].status = "completed" /\ turn'[at[c]].size = turn[at[c]].size
        /\ turn'[at[c]].request = turn[at[c]].request /\ turn'[at[c]].text = turn[at[c]].text
        /\ at[c] \in DOMAIN turn
    BY <2>1, TurnSettled
  <2>3. said[c] = turn[at[c]].size /\ done[c] = "none"
    BY <1>0, <1>1, <2>1 DEF PhaseInv, OwnTurnInv
  <2> QED  BY <1>0, <1>1, <1>2, <2>1, <2>2, <2>3 DEF OwnTurnInv
<1>9. CASE CloseTurn(c)
  <2>1. /\ Settles("incomplete") /\ lease = c
        /\ step[c] = "closing" /\ at'[c] = at[c] /\ said'[c] = said[c] /\ done'[c] = done[c]
        /\ step'[c] \in {"telling", "ended"} /\ verdict'[c] = verdict[c]
    BY <1>0, <1>9 DEF CloseTurn, HoldsLease, LeaseInv, Settles, GoesIfHeard, Goes, TypeOK, stream, sent
  <2>2. /\ turn'[at[c]].status = "incomplete" /\ turn'[at[c]].size = turn[at[c]].size
        /\ turn'[at[c]].request = turn[at[c]].request /\ turn'[at[c]].text = turn[at[c]].text
        /\ at[c] \in DOMAIN turn
    BY <2>1, TurnSettled
  <2>3. verdict[c] # "completed" /\ done[c] = "none"
    BY <1>0, <2>1 DEF PhaseInv
  <2> QED  BY <1>0, <1>1, <1>2, <2>1, <2>2, <2>3 DEF OwnTurnInv
<1>10. CASE CloseFails(c) \/ CloseGivesUp(c) \/ Disconnect(c) \/ Crash(c) \/ TellDone(c)
  <2>1. /\ turn' = turn /\ at' = at /\ verdict' = verdict /\ unheard' = unheard /\ said' = said
        /\ step'[c] \in {"closing", "telling", "ended"}
        /\ done'[c] = done[c] \/ done'[c] = verdict[c]
    BY <1>10 DEF CloseFails, CloseGivesUp, Disconnect, Crash, TellDone, GoesIfHeard, Goes, TypeOK,
       row, stream, sent
  <2> QED  BY <1>0, <1>1, <2>1 DEF OwnTurnInv
<1> QED
  BY <1>3, <1>4, <1>5, <1>6, <1>7, <1>8, <1>9, <1>10, CallsAreApart DEF By

\* The stored answer that a repeated request was sent is settled and stays.
LEMMA ReplayStep ==
    ASSUME ConversationInv, [Next]_vars, NEW c \in Call
    PROVE  ReplayInv(c)'
<1> USE DEF ConversationInv
<1>0. /\ TypeOK /\ LeaseInv /\ PhaseInv(c) /\ ReplayInv(c) /\ ask' = ask
      /\ turn \in Seq(Turns) /\ turn' \in Seq(Turns) /\ Grown(turn, turn')
      /\ DOMAIN turn \subseteq DOMAIN turn'
  <2>1. turn' \in Seq(Turns) /\ Grown(turn, turn') /\ turn \in Seq(Turns)
    BY TurnsGrow DEF TypeOK
  <2>2. DOMAIN turn \subseteq DOMAIN turn'
    BY <2>1 DEF Grown
  <2> QED  BY <2>1, <2>2, CallsAreApart
<1>1. SUFFICES ASSUME at'[c] = 0, done'[c] # "none"
               PROVE  \E i \in DOMAIN turn' : /\ turn'[i].request = ask[c].request
                                              /\ turn'[i].status = done'[c]
                                              /\ said'[c] <= turn'[i].size
                                              /\ done'[c] = "completed" => said'[c] = turn'[i].size
  BY <1>0 DEF ReplayInv
<1>2. CASE CallIsQuiet(c)
  <2>1. PICK i \in DOMAIN turn : /\ turn[i].request = ask[c].request
                                 /\ turn[i].status = done[c]
                                 /\ said[c] <= turn[i].size
                                 /\ done[c] = "completed" => said[c] = turn[i].size
    BY <1>0, <1>1, <1>2 DEF ReplayInv, CallIsQuiet
  <2>2. done[c] \in {"completed", "incomplete"}
    BY <1>1, <1>2 DEF CallIsQuiet, TypeOK
  <2>3. turn'[i] = turn[i] /\ i \in DOMAIN turn'
    BY <1>0, <2>1, <2>2 DEF Grown
  <2> QED  BY <1>2, <2>1, <2>3 DEF CallIsQuiet
<1>3. CASE Replay(c)
  <2>1. step[c] = "starting" /\ ExpiryIsSeen(c) /\ turn' = AfterExpiry(turn)
    BY <1>3 DEF Replay
  <2>2. PICK i \in Prior(c) : /\ Seen(c)[i].status # "streaming"
                              /\ said' = [said EXCEPT ![c] = Seen(c)[i].size]
                              /\ done' = [done EXCEPT ![c] = Seen(c)[i].status]
    BY <1>3 DEF Replay
  <2>3. /\ Seen(c) \in Seq(Turns) /\ Len(Seen(c)) = Len(view[c]) /\ view[c] \in Seq(Turns)
        /\ ViewInv(c)
    BY <2>1, SeenIsTrue DEF TypeOK
  <2>4. i \in DOMAIN view[c] /\ Seen(c)[i].request = ask[c].request
    BY <2>3 DEF Prior, Positions
  <2>5. said'[c] = Seen(c)[i].size /\ done'[c] = Seen(c)[i].status
    BY <2>2 DEF TypeOK
  <2>6. /\ i \in DOMAIN turn /\ Seen(c)[i].request = turn[i].request
        /\ turn'[i].status = Seen(c)[i].status
        /\ Seen(c)[i].size <= turn'[i].size
        /\ Seen(c)[i].status = "completed" => Seen(c)[i].size = turn'[i].size
    BY <2>1, <2>2, <2>3, <2>4, SeenIsTrue
  <2>7. i \in DOMAIN turn' /\ turn'[i].request = turn[i].request
    BY <1>0, <2>6 DEF Grown
  <2> QED  BY <2>4, <2>5, <2>6, <2>7
<1>4. CASE OpenTurn(c)
  <2>1. at'[c] = Len(turn) + 1 /\ Len(turn) \in Nat
    BY <1>4 DEF OpenTurn, TypeOK
  <2> QED  BY <1>1, <2>1
<1>5. CASE By(c) /\ ~Replay(c) /\ ~OpenTurn(c)
  <2>1. step[c] # "ended"
    BY <1>5 DEF By, BeginStart, StartRefused, AppendPiece, SayPiece, EndAnswer, Fail, Complete,
       CompleteUnheard, CloseTurn, CloseFails, CloseGivesUp, TellDone, Disconnect, Crash
  <2>2. at'[c] = at[c]
    BY <1>5 DEF By, BeginStart, StartRefused, AppendPiece, SayPiece, EndAnswer, Fail, Complete,
       CompleteUnheard, CloseTurn, CloseFails, CloseGivesUp, TellDone, Disconnect, Crash, stream
  <2>3. CASE TellDone(c)
    BY <1>0, <1>1, <2>2, <2>3 DEF TellDone, PhaseInv
  <2>4. CASE ~TellDone(c)
    <3>1. done'[c] = done[c]
      BY <1>5, <2>4 DEF By, BeginStart, StartRefused, AppendPiece, SayPiece, EndAnswer, Fail,
         Complete, CompleteUnheard, CloseTurn, CloseFails, CloseGivesUp, Disconnect, Crash, sent
    <3> QED  BY <1>0, <1>1, <2>1, <3>1 DEF PhaseInv
  <2> QED  BY <2>3, <2>4
<1> QED  BY <1>2, <1>3, <1>4, <1>5, CallsAreApart

\* The part of the types that each step keeps by itself.
PlainTypes ==
    /\ lease \in Call \cup {Nobody} /\ live \in BOOLEAN
    /\ ask \in [Call -> Ask]
    /\ step \in [Call -> Step]
    /\ view \in [Call -> Seq(Turns)]
    /\ at \in [Call -> Nat]
    /\ verdict \in [Call -> {"completed", "incomplete"}]
    /\ connected \in [Call -> BOOLEAN]
    /\ unheard \in [Call -> BOOLEAN]

\* Positions, steps and verdicts stay in their types.
LEMMA PlainTypesStep ==
    ASSUME TypeOK, [Next]_vars
    PROVE  PlainTypes'
<1> USE DEF PlainTypes
<1>0. << >> \in Seq(Turns) /\ Len(turn) + 1 \in Nat
  BY DEF TypeOK
<1>1. CASE Lapse \/ Read \/ UNCHANGED vars
  BY <1>1 DEF Lapse, Read, Release, TypeOK, stream, vars
<1>2. ASSUME NEW c \in Call, BeginStart(c) \/ StartRefused(c) \/ Replay(c) \/ OpenTurn(c)
      PROVE  PlainTypes'
  <2>1. view' \in [Call -> Seq(Turns)]
    BY <1>0, <1>2 DEF BeginStart, StartRefused, Replay, OpenTurn, TypeOK
  <2>2. step' \in [Call -> Step]
    BY <1>2 DEF BeginStart, StartRefused, Replay, OpenTurn, Goes, TypeOK, Step
  <2>3. lease' \in Call \cup {Nobody} /\ live' \in BOOLEAN /\ at' \in [Call -> Nat]
    BY <1>0, <1>2 DEF BeginStart, StartRefused, Replay, OpenTurn, Release, TypeOK, row, stream
  <2>4. /\ verdict' = verdict /\ connected' = connected /\ unheard' = unheard /\ ask' = ask
    BY <1>2 DEF BeginStart, StartRefused, Replay, OpenTurn, stream
  <2> QED  BY <2>1, <2>2, <2>3, <2>4 DEF TypeOK
<1>3. ASSUME NEW c \in Call, AppendPiece(c) \/ SayPiece(c) \/ EndAnswer(c) \/ Fail(c)
      PROVE  PlainTypes'
  BY <1>3 DEF AppendPiece, SayPiece, EndAnswer, Fail, Goes, TypeOK, row, stream, Step
<1>4. ASSUME NEW c \in Call, Complete(c) \/ CompleteUnheard(c) PROVE PlainTypes'
  BY <1>4 DEF Complete, CompleteUnheard, Completes, Release, Goes, TypeOK, Step
<1>5. ASSUME NEW c \in Call, CloseTurn(c) \/ CloseFails(c) \/ CloseGivesUp(c) \/ TellDone(c)
      PROVE  PlainTypes'
  BY <1>5 DEF CloseTurn, CloseFails, CloseGivesUp, TellDone, GoesIfHeard, Goes, Release, TypeOK,
     row, stream, Step
<1>6. ASSUME NEW c \in Call, Disconnect(c) \/ Crash(c) PROVE PlainTypes'
  BY <1>0, <1>6 DEF Disconnect, Crash, Goes, TypeOK, row, stream, Step
<1> QED  BY <1>1, <1>2, <1>3, <1>4, <1>5, <1>6 DEF Next

\* Every value stays in its type: a stream says no more than it has stored, and
\* what a start takes from the turns it sees are turns.
LEMMA TypeStep ==
    ASSUME ConversationInv, [Next]_vars
    PROVE  TypeOK'
<1> USE DEF ConversationInv
<1>0. /\ TypeOK /\ LeaseInv /\ turn' \in Seq(Turns) /\ PlainTypes'
      /\ \A c \in Call : ViewInv(c) /\ OwnTurnInv(c) /\ PhaseInv(c)
  BY TurnsGrow, PlainTypesStep
<1> DEFINE Sizes == [Call -> 0..MaxPieces]
           Ends == [Call -> {"none", "completed", "incomplete"}]
           Histories == [Call -> SUBSET {a.request : a \in Ask}]
<1>1. ASSUME NEW c \in Call, Replay(c) PROVE said' \in Sizes /\ done' \in Ends /\ given' = given
  <2>1. PICK i \in Prior(c) : /\ Seen(c)[i].status # "streaming"
                              /\ said' = [said EXCEPT ![c] = Seen(c)[i].size]
                              /\ done' = [done EXCEPT ![c] = Seen(c)[i].status]
    BY <1>1 DEF Replay
  <2>2. Seen(c) \in Seq(Turns) /\ i \in DOMAIN Seen(c)
    BY <1>0, <1>1, SeenIsTrue DEF Replay, Prior, Positions
  <2>3. Seen(c)[i] \in Turns
    BY <2>2
  <2>4. Seen(c)[i].size \in 0..MaxPieces /\ Seen(c)[i].status \in {"completed", "incomplete"}
    BY <2>1, <2>3 DEF Turns
  <2> QED  BY <1>1, <2>1, <2>4 DEF Replay, TypeOK, stream
<1>2. ASSUME NEW c \in Call, OpenTurn(c)
      PROVE  said' = said /\ done' = done /\ given' \in Histories
  <2>1. Seen(c) \in Seq(Turns)
    BY <1>0, <1>2, SeenIsTrue DEF OpenTurn
  <2>2. \A i \in DOMAIN Seen(c) : Seen(c)[i] \in Turns
    BY <2>1
  <2>3. Completed(Seen(c)) \subseteq {a.request : a \in Ask}
    BY <2>2 DEF Completed, Turns
  <2> QED  BY <1>2, <2>3 DEF OpenTurn, TypeOK, sent
<1>3. ASSUME NEW c \in Call, SayPiece(c) PROVE said' \in Sizes /\ done' = done /\ given' = given
  <2>1. step[c] = "saying"  BY <1>3 DEF SayPiece
  <2>2. at[c] \in DOMAIN turn /\ said[c] + 1 = turn[at[c]].size
    BY <1>0, <2>1 DEF PhaseInv, OwnTurnInv, Working
  <2>3. turn[at[c]] \in Turns  BY <2>2 DEF TypeOK
  <2>4. said[c] + 1 \in 0..MaxPieces  BY <2>2, <2>3 DEF Turns
  <2> QED  BY <1>3, <2>4 DEF SayPiece, TypeOK, stream
<1>4. ASSUME NEW c \in Call, TellDone(c) PROVE said' = said /\ done' \in Ends /\ given' = given
  BY <1>4 DEF TellDone, TypeOK, stream
<1>5. ASSUME NEW c \in Call, By(c), ~Replay(c), ~OpenTurn(c), ~SayPiece(c), ~TellDone(c)
      PROVE  said' = said /\ done' = done /\ given' = given
  BY <1>5 DEF By, BeginStart, StartRefused, AppendPiece, EndAnswer, Fail, Complete, CompleteUnheard,
     CloseTurn, CloseFails, CloseGivesUp, Disconnect, Crash, stream, sent
<1>6. said' \in Sizes /\ done' \in Ends /\ given' \in Histories
  <2>1. said \in Sizes /\ done \in Ends /\ given \in Histories  BY <1>0 DEF TypeOK
  <2>2. Lapse \/ Read \/ UNCHANGED vars => said' = said /\ done' = done /\ given' = given
    BY DEF Lapse, Read, vars, stream, sent
  <2> HIDE DEF Sizes, Ends, Histories
  <2> QED  BY <1>1, <1>2, <1>3, <1>4, <1>5, <2>1, <2>2 DEF Next, By
<1> QED  BY <1>0, <1>6 DEF TypeOK, PlainTypes

----------------------------------------------------------------------------
\* The invariant and what follows from it

\* Nothing was asked yet, and nothing answered.
LEMMA InitConversation == Init => ConversationInv
<1> SUFFICES ASSUME Init PROVE ConversationInv
  OBVIOUS
<1>1. TypeOK
  <2>1. << >> \in Seq(Turns) /\ 0 \in 0..MaxPieces /\ 0 \in Nat
    BY PiecesAssumption
  <2>2. turn \in Seq(Turns) /\ view \in [Call -> Seq(Turns)]
    BY <2>1 DEF Init
  <2>3. said \in [Call -> 0..MaxPieces] /\ at \in [Call -> Nat]
    BY <2>1 DEF Init
  <2> QED  BY <2>2, <2>3 DEF Init, TypeOK, Step
<1>2. LeaseInv /\ RequestInv /\ PositionInv
  BY DEF Init, LeaseInv, RequestInv, PositionInv
<1>3. \A c \in Call : ViewInv(c) /\ PhaseInv(c) /\ OwnTurnInv(c) /\ ReplayInv(c)
  BY DEF Init, ViewInv, PhaseInv, OwnTurnInv, ReplayInv, Working
<1> QED  BY <1>1, <1>2, <1>3 DEF ConversationInv

\* Every step keeps the invariant.
LEMMA ConversationStep == ConversationInv /\ [Next]_vars => ConversationInv'
<1> SUFFICES ASSUME ConversationInv, [Next]_vars PROVE ConversationInv'
  OBVIOUS
<1>1. TypeOK'
  BY TypeStep
<1>2. \A c \in Call : at[c] # 0 => at[c] \in DOMAIN turn
  BY DEF ConversationInv, OwnTurnInv
<1>3. LeaseInv' /\ RequestInv' /\ PositionInv'
  BY <1>2, LeaseStep DEF ConversationInv
<1>4. ASSUME NEW c \in Call PROVE (ViewInv(c) /\ PhaseInv(c) /\ OwnTurnInv(c) /\ ReplayInv(c))'
  <2>1. ViewInv(c)' /\ PhaseInv(c)'
    BY ViewStep, PhaseStep DEF ConversationInv
  <2> QED  BY <2>1, OwnTurnStep, ReplayStep
<1> QED  BY <1>1, <1>3, <1>4 DEF ConversationInv

\* Turns, lease, streams and replays fit together in every reachable state.
THEOREM ConversationsCorrect == Spec => []ConversationInv
<1> QED  BY InitConversation, ConversationStep, PTL DEF Spec

\* Every value stays in its type.
THEOREM ConversationsTyped == Spec => []TypeOK
<1> QED  BY ConversationsCorrect, PTL DEF ConversationInv

\* One turn per request and one open turn at a time, the lease's, however old the
\* snapshot of a start is (start, _lease and the unique keys of the messages).
THEOREM OneAnswerPerRequest == Spec => []AnsweredOnce
<1>1. ConversationInv => AnsweredOnce
  BY DEF ConversationInv, RequestInv, LeaseInv, AnsweredOnce
<1> QED  BY ConversationsCorrect, <1>1, PTL

\* No late expiry and no stream without its lease touches a settled turn (append,
\* complete, finish and _expire).
THEOREM SettledTurnsStay == Spec => SettledIsFinal
<1>1. ConversationInv /\ [Next]_vars =>
        [\A i \in DOMAIN turn : turn[i].status # "streaming" => turn'[i] = turn[i]]_vars
  BY TurnsGrow DEF ConversationInv, Grown
<1> QED  BY ConversationsCorrect, <1>1, PTL DEF Spec, SettledIsFinal

\* What was sent is stored and what was told stays true, through expiry, lost
\* answers, disconnection and repetition (stream, its shielded finish, replay).
THEOREM EndsAreTrue == Spec => []ToldIsTrue
<1>1. ConversationInv => ToldIsTrue
  <2> SUFFICES ASSUME ConversationInv, NEW c \in Call, NEW i \in Positions(turn, ask[c].request)
               PROVE  /\ i = at[c] \/ done[c] # "none" => said[c] <= turn[i].size
                      /\ done[c] = "completed" =>
                           turn[i].status = "completed" /\ said[c] = turn[i].size
                      /\ done[c] = "incomplete" /\ ~unheard[c] => turn[i].status # "completed"
    BY DEF ToldIsTrue
  <2>1. /\ OwnTurnInv(c) /\ ReplayInv(c) /\ RequestInv
        /\ i \in DOMAIN turn /\ turn[i].request = ask[c].request
        /\ turn \in Seq(Turns) /\ at[c] \in Nat
    BY DEF ConversationInv, Positions, TypeOK
  <2>2. CASE at[c] # 0
    <3>1. i = at[c]
      BY <2>1, <2>2 DEF OwnTurnInv, RequestInv
    <3> QED  BY <2>1, <2>2, <3>1 DEF OwnTurnInv
  <2>3. CASE at[c] = 0
    <3>1. i # at[c]
      BY <2>1, <2>3
    <3>2. ASSUME done[c] # "none"
          PROVE  /\ turn[i].status = done[c] /\ said[c] <= turn[i].size
                 /\ done[c] = "completed" => said[c] = turn[i].size
      BY <2>1, <2>3, <3>2 DEF ReplayInv, RequestInv
    <3> QED  BY <3>1, <3>2
  <2> QED  BY <2>2, <2>3
<1> QED  BY ConversationsCorrect, <1>1, PTL

\* What the model was given stays what it should have been: the turns before a
\* call's own are settled when it opens its turn.
LEMMA HistoryStep ==
    ASSUME ConversationInv, ConversationInv', HistoryIsWhole, [Next]_vars
    PROVE  HistoryIsWhole'
<1> SUFFICES ASSUME NEW c \in Call, NEW i \in 1..(at'[c] - 1)
             PROVE  /\ turn'[i].request \in given'[c] => turn'[i].status = "completed"
                    /\ turn'[i].status = "completed" /\ i < at'[c] - 1 => turn'[i].request \in given'[c]
  BY DEF HistoryIsWhole
<1>0. /\ TypeOK /\ LeaseInv /\ OwnTurnInv(c) /\ ViewInv(c) /\ RequestInv'
      /\ turn \in Seq(Turns) /\ Len(turn) \in Nat /\ DOMAIN turn = 1 .. Len(turn)
      /\ Grown(turn, turn') /\ turn' \in Seq(Turns) /\ at[c] \in Nat
  <2>1. TypeOK /\ LeaseInv /\ OwnTurnInv(c) /\ ViewInv(c) /\ RequestInv'
    BY DEF ConversationInv
  <2>2. turn \in Seq(Turns) /\ at[c] \in Nat
    BY <2>1 DEF TypeOK
  <2>3. Grown(turn, turn') /\ turn' \in Seq(Turns)
    BY <2>1, TurnsGrow
  <2> QED  BY <2>1, <2>2, <2>3
<1>1. CASE at'[c] = at[c] /\ given'[c] = given[c]
  <2>1. at[c] # 0 /\ at[c] \in DOMAIN turn
    BY <1>0, <1>1 DEF OwnTurnInv
  <2>2. i \in DOMAIN turn /\ i # Len(turn)
    <3>1. PICK n \in Nat : n = Len(turn) /\ DOMAIN turn = 1 .. n
      BY <1>0
    <3>2. PICK a \in 1 .. n : a = at[c]
      BY <2>1, <3>1
    <3>3. i \in 1 .. a - 1
      BY <1>1, <3>2
    <3>4. i \in 1 .. n /\ i # n
      BY <3>2, <3>3
    <3> QED  BY <3>1, <3>4
  <2>3. turn[i].status # "streaming"
    BY <1>0, <2>2 DEF LeaseInv
  <2>4. turn'[i] = turn[i]
    BY <1>0, <2>2, <2>3 DEF Grown
  <2> QED  BY <1>1, <2>4 DEF HistoryIsWhole
<1>2. CASE OpenTurn(c)
  <2>1. /\ at'[c] = Len(turn) + 1 /\ given'[c] = Completed(Seen(c))
        /\ step[c] = "starting" /\ ExpiryIsSeen(c) /\ Len(view[c]) + 1 \notin DOMAIN turn
    BY <1>2 DEF OpenTurn, KeysFree, TypeOK, ConversationInv
  <2>2. /\ Seen(c) \in Seq(Turns) /\ Len(Seen(c)) = Len(view[c])
        /\ Len(view[c]) <= Len(turn) /\ view[c] \in Seq(Turns)
    BY <1>0, <2>1, SeenIsTrue DEF TypeOK
  <2>3. /\ Len(view[c]) = Len(turn) /\ DOMAIN view[c] = DOMAIN turn
        /\ DOMAIN Seen(c) = DOMAIN turn
    BY <1>0, <2>1, <2>2
  <2>4. /\ i \in DOMAIN turn
        /\ i < at'[c] - 1 => i # Len(view[c])
    <3>1. PICK n \in Nat : n = Len(turn) /\ DOMAIN turn = 1 .. n
      BY <1>0
    <3>2. PICK a : a = at'[c]
      OBVIOUS
    <3>3. a = n + 1 /\ i \in 1 .. a - 1
      BY <2>1, <3>1, <3>2
    <3>4. i \in 1 .. n /\ (i < a - 1 => i # n)
      BY <3>3
    <3> QED  BY <2>3, <3>1, <3>2, <3>4
  <2>5. PICK t : t = AfterExpiry(turn)
    OBVIOUS
  <2>6. \A j \in DOMAIN turn : turn'[j] = t[j]
    BY <1>0, <1>2, <2>5, TurnOpened
  <2>7. \A j \in DOMAIN turn : turn'[j].request = turn[j].request /\ j \in DOMAIN turn'
    BY <1>0 DEF Grown
  <2>8. PICK s \in Seq(Turns) : s = Seen(c) /\ DOMAIN s = DOMAIN turn
    BY <2>2, <2>3
  <2>9. \A j \in DOMAIN turn :
          /\ s[j].request = turn[j].request
          /\ s[j].status = "completed" => t[j].status = "completed"
          /\ j # Len(view[c]) /\ t[j].status = "completed" => s[j].status = "completed"
    BY <1>0, <2>1, <2>3, <2>5, <2>8, SeenIsTrue
  <2>10. ASSUME turn'[i].request \in given'[c] PROVE turn'[i].status = "completed"
    <3>1. PICK j \in DOMAIN turn : s[j].status = "completed" /\ s[j].request = turn'[i].request
      BY <2>1, <2>8, <2>10 DEF Completed
    <3>2. turn'[j].request = turn'[i].request /\ turn'[j].status = "completed"
      BY <2>6, <2>7, <2>9, <3>1
    <3> QED  BY <1>0, <2>4, <2>7, <3>2 DEF RequestInv
  <2>11. ASSUME turn'[i].status = "completed", i < at'[c] - 1 PROVE turn'[i].request \in given'[c]
    <3>1. s[i].status = "completed" /\ s[i].request = turn'[i].request
      BY <2>4, <2>6, <2>7, <2>9, <2>11
    <3> QED  BY <2>1, <2>4, <2>8, <3>1 DEF Completed
  <2> QED  BY <2>10, <2>11
<1>3. CASE By(c) /\ ~OpenTurn(c)
  <2>1. at'[c] = at[c] /\ given'[c] = given[c]
    BY <1>3 DEF By, BeginStart, StartRefused, Replay, AppendPiece, SayPiece, EndAnswer, Fail,
       Complete, CompleteUnheard, CloseTurn, CloseFails, CloseGivesUp, TellDone, Disconnect, Crash,
       stream
  <2> QED  BY <1>1, <2>1
<1> QED  BY <1>0, <1>1, <1>2, <1>3, CallsAreApart DEF CallIsQuiet

\* The model is given completed turns only, and all of them but perhaps the last
\* (start: the snapshot of its first SELECT against the unique key of the sequence).
THEOREM HistoriesAreWhole == Spec => []HistoryIsWhole
<1>1. Init => HistoryIsWhole
  BY DEF Init, HistoryIsWhole
<1>2. ConversationInv /\ ConversationInv' /\ HistoryIsWhole /\ [Next]_vars => HistoryIsWhole'
  BY HistoryStep
<1> QED  BY <1>1, <1>2, ConversationsCorrect, PTL DEF Spec
=============================================================================

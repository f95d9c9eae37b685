------------------- MODULE LegalDatasetPublicationProofs -------------------
(***************************************************************************)
(* The publication journal for any number of processes, rows, aliases and  *)
(* indexes.  The argument has three layers: the types; the reservation,    *)
(* which relates the state column to what the processes and the requests   *)
(* in flight are about to do; and the content, which relates the alias to  *)
(* the inventory while an alias is published by the journal only.          *)
(***************************************************************************)
EXTENDS LegalDatasetPublication, TLAPS

\* The row a process works on is in the state its next step expects; it has
\* caused no switch before the process sends and one afterwards.
Fits(p) ==
    /\ pub[p].step \notin NoRow => Stored(pub[p].run)
    /\ pub[p].step \in Holding => row[pub[p].run].state = "switching"
    /\ pub[p].step \in {"verify", "complete"} =>
           row[pub[p].run].state \in {"acknowledged", "completed"}
    /\ pub[p].step \in {"compare", "resolve", "send"} => sends[pub[p].run] = 0
    /\ pub[p].step \in {"waiting", "acknowledge"} => sends[pub[p].run] = 1
    /\ pub[p].step = "acknowledge" => \A q \in requests : q.run # pub[p].run

\* One process at most holds a row as switching.
OneHolder ==
    \A p, q \in Publisher :
        (pub[p].step \in Holding /\ pub[q].step \in Holding /\ p # q)
            => pub[p].run # pub[q].run

\* A row sends once, not before it is switching, and its request is in flight
\* only while it is.
SendsFit ==
    /\ \A r \in Run : sends[r] \in {0, 1}
    /\ \A r \in Run : row[r].state \in {"none", "ready"} => sends[r] = 0
    /\ \A q \in requests :
         /\ row[q.run].state = "switching"
         /\ sends[q.run] = 1
         /\ q.alias = row[q.run].alias
         /\ q.index = row[q.run].index

\* The unique keys of the table.
KeysHold ==
    \A r, s \in Run :
        (r # s /\ Stored(r) /\ Stored(s)) =>
            /\ row[r].index # row[s].index
            /\ Unfinished(r) /\ Unfinished(s) => row[r].alias # row[s].alias

Reservation == (\A p \in Publisher : Fits(p)) /\ OneHolder /\ SendsFit /\ KeysHold

\* What an alias without a target, or with one, resolves to.
Rec(i) == IF i = NoIndex THEN {} ELSE {i}

\* The alias of a row against the inventory, from the state of the row.
Content(r) ==
    LET a == row[r].alias IN
    /\ row[r].previous # row[r].index
    /\ drifted[a] = 0 =>
         /\ (row[r].state = "switching" /\ sends[r] = 0) => target[a] = Rec(inventory[a])
         /\ (row[r].state = "switching" /\ sends[r] = 1) =>
               /\ inventory[a] = row[r].previous
               /\ target[a] \in {Rec(row[r].previous), {row[r].index}}
         /\ row[r].state = "acknowledged" =>
               /\ inventory[a] = row[r].previous
               /\ target[a] = {row[r].index}

\* A request in flight removes the target the row was created against.
Pending(q) == drifted[q.alias] = 0 =>
    /\ q.remove = row[q.run].previous
    /\ target[q.alias] = Rec(q.remove)

\* What the holder of a row knows of its alias.
Knows(p) ==
    (pub[p].step \in Holding /\ drifted[row[pub[p].run].alias] = 0) =>
      LET r == pub[p].run
          a == row[r].alias
      IN /\ pub[p].step \in {"resolve", "send"} => target[a] = Rec(row[r].previous)
         /\ pub[p].step = "send" => pub[p].seen = row[r].previous
         /\ pub[p].step = "waiting" /\ (\A q \in requests : q.run # r)
                => target[a] = {row[r].index}
         /\ pub[p].step = "acknowledge" => target[a] = {row[r].index}

Moving(r) == row[r].state \in {"switching", "acknowledged"}

Served(a) == (drifted[a] = 0 /\ \A r \in Run : Moving(r) => row[r].alias # a)
                 => target[a] = Rec(inventory[a])

\* A publication outside the journal is counted until it ends.
Counted == \A d \in direct : drifted[d.alias] > 0

Agreement == /\ \A r \in Run : Stored(r) => Content(r)
             /\ \A q \in requests : Pending(q)
             /\ \A p \in Publisher : Knows(p)
             /\ \A a \in Alias : Served(a)

\* The steps of a publication outside the journal.
OutsideStep ==
    \/ \E a \in Alias, i \in Index, seen \in Index \cup {NoIndex} : DirectRead(a, i, seen)
    \/ \E d \in direct : DirectSwitch(d) \/ DirectRecord(d) \/ DirectEnds(d)

-----------------------------------------------------------------------------

LEMMA TypeInit == ASSUME Init PROVE TypeOK
  BY ConstantsAssumption
  DEF Init, TypeOK, Row, State, Process, Step, NoRow, Request

\* A process is a record of these fields; it names a row if its step needs one.
LEMMA ProcessFields ==
    ASSUME NEW q \in Process
    PROVE  /\ q = [step |-> q.step, run |-> q.run, alias |-> q.alias, index |-> q.index,
                   seen |-> q.seen]
           /\ q.alias \in Alias /\ q.index \in Index /\ q.seen \in Index \cup {NoIndex}
  <1>1. CASE q \in [step : NoRow, run : {NoRun}, alias : Alias, index : Index,
                    seen : Index \cup {NoIndex}]
    BY <1>1
  <1>2. CASE q \in [step : Step \ NoRow, run : Run, alias : Alias, index : Index,
                    seen : Index \cup {NoIndex}]
    BY <1>2
  <1> QED
    BY <1>1, <1>2 DEF Process

\* A process that takes a row up, and one that gives its row back.
LEMMA LoadFits ==
    ASSUME NEW p \in Publisher, NEW r \in Run, pub \in [Publisher -> Process],
           pub' = [pub EXCEPT ![p].step = "load", ![p].run = r]
    PROVE  pub' \in [Publisher -> Process]
  <1> DEFINE q == pub[p]
  <1> DEFINE new == [step |-> "load", run |-> r, alias |-> q.alias, index |-> q.index,
                     seen |-> q.seen]
  <1>1. q \in Process
    OBVIOUS
  <1>2. /\ q = [step |-> q.step, run |-> q.run, alias |-> q.alias, index |-> q.index,
                seen |-> q.seen]
        /\ q.alias \in Alias /\ q.index \in Index /\ q.seen \in Index \cup {NoIndex}
    <2> HIDE DEF q
    <2> QED
      BY <1>1, ProcessFields
  <1>3. new \in Process
    <2> HIDE DEF q
    <2> QED
      BY <1>2 DEF Process, Step, NoRow
  <1>4. pub' = [pub EXCEPT ![p] = new]
    <2>1. [q EXCEPT !.step = "load", !.run = r] = new
      <3> HIDE DEF q
      <3>1. PICK s, o, a, i, e : q = [step |-> s, run |-> o, alias |-> a, index |-> i, seen |-> e]
        BY <1>2
      <3>2. [q EXCEPT !.step = "load", !.run = r]
              = [[q EXCEPT !.step = "load"] EXCEPT !.run = r]
        OBVIOUS
      <3>3. [[step |-> s, run |-> o, alias |-> a, index |-> i, seen |-> e] EXCEPT !.step = "load"]
              = [step |-> "load", run |-> o, alias |-> a, index |-> i, seen |-> e]
        OBVIOUS
      <3>4. [[step |-> "load", run |-> o, alias |-> a, index |-> i, seen |-> e] EXCEPT !.run = r]
              = [step |-> "load", run |-> r, alias |-> a, index |-> i, seen |-> e]
        OBVIOUS
      <3> QED
        BY <3>1, <3>2, <3>3, <3>4
    <2> QED
      BY <2>1
  <1> HIDE DEF new
  <1> QED
    BY <1>3, <1>4

LEMMA StopFits ==
    ASSUME NEW p \in Publisher, pub \in [Publisher -> Process], Stop(p)
    PROVE  pub' \in [Publisher -> Process]
  <1> DEFINE q == pub[p]
  <1> DEFINE new == [step |-> "idle", run |-> NoRun, alias |-> q.alias, index |-> q.index,
                     seen |-> NoIndex]
  <1>1. q \in Process
    OBVIOUS
  <1>2. /\ q = [step |-> q.step, run |-> q.run, alias |-> q.alias, index |-> q.index,
                seen |-> q.seen]
        /\ q.alias \in Alias /\ q.index \in Index /\ q.seen \in Index \cup {NoIndex}
    <2> HIDE DEF q
    <2> QED
      BY <1>1, ProcessFields
  <1>3. new \in Process
    <2> HIDE DEF q
    <2> QED
      BY <1>2 DEF Process, NoRow
  <1>4. pub' = [pub EXCEPT ![p] = new]
    <2>1. [q EXCEPT !.step = "idle", !.run = NoRun, !.seen = NoIndex] = new
      <3> HIDE DEF q
      <3>1. PICK s, o, a, i, e : q = [step |-> s, run |-> o, alias |-> a, index |-> i, seen |-> e]
        BY <1>2
      <3>2. [q EXCEPT !.step = "idle", !.run = NoRun, !.seen = NoIndex]
              = [[[q EXCEPT !.step = "idle"] EXCEPT !.run = NoRun] EXCEPT !.seen = NoIndex]
        OBVIOUS
      <3>3. [[step |-> s, run |-> o, alias |-> a, index |-> i, seen |-> e] EXCEPT !.step = "idle"]
              = [step |-> "idle", run |-> o, alias |-> a, index |-> i, seen |-> e]
        OBVIOUS
      <3>4. [[step |-> "idle", run |-> o, alias |-> a, index |-> i, seen |-> e] EXCEPT !.run = NoRun]
              = [step |-> "idle", run |-> NoRun, alias |-> a, index |-> i, seen |-> e]
        OBVIOUS
      <3>5. [[step |-> "idle", run |-> NoRun, alias |-> a, index |-> i, seen |-> e] EXCEPT !.seen = NoIndex]
              = [step |-> "idle", run |-> NoRun, alias |-> a, index |-> i, seen |-> NoIndex]
        OBVIOUS
      <3> QED
        BY <3>1, <3>2, <3>3, <3>4, <3>5
    <2> QED
      BY <2>1 DEF Stop
  <1> HIDE DEF new
  <1> QED
    BY <1>3, <1>4

\* Every action keeps every variable in its type.
LEMMA TypeStep == ASSUME TypeOK, [Next]_vars PROVE TypeOK'
  <1> USE DEF TypeOK, Stop, Goto, NoRow
  <1>1. CASE UNCHANGED vars
    BY <1>1 DEF vars
  <1>2. ASSUME NEW p \in Publisher, NEW a \in Alias, NEW i \in Index, ReadPrevious(p, a, i)
        PROVE  TypeOK'
    BY <1>2 DEF ReadPrevious, Process, Step
  <1>3. ASSUME NEW p \in Publisher, NEW r \in Run, Create(p, r)
        PROVE  TypeOK'
    <2>1. pub[p].alias \in Alias /\ pub[p].index \in Index /\ pub[p].seen \in Index \cup {NoIndex}
      BY DEF Process
    <2>2. row' \in [Run -> Row]
      BY <1>3, <2>1 DEF Create, Row, State
    <2>3. pub' \in [Publisher -> Process]
      BY <1>3, LoadFits DEF Create
    <2> QED
      BY <1>3, <2>2, <2>3 DEF Create
  <1>4. ASSUME NEW p \in Publisher, NEW r \in Run, Resume(p, r)
        PROVE  TypeOK'
    BY <1>4, LoadFits DEF Resume
  <1>5. ASSUME NEW p \in Publisher, CreateConflict(p) \/ Abandon(p)
        PROVE  TypeOK'
    BY <1>5, StopFits DEF CreateConflict, Abandon
  <1>6. ASSUME NEW p \in Publisher, Load(p)
        PROVE  TypeOK'
    BY <1>6 DEF Load, AfterLoad, Process, Step
  <1>7. ASSUME NEW p \in Publisher, Claim(p) \/ Acknowledge(p)
        PROVE  TypeOK'
    <2>1. row' \in [Run -> Row]
      BY <1>7 DEF Claim, Acknowledge, Row, State
    <2>2. pub' \in [Publisher -> Process]
      BY <1>7 DEF Claim, Acknowledge, Process, Step
    <2> QED
      BY <1>7, <2>1, <2>2 DEF Claim, Acknowledge
  <1>8. ASSUME NEW p \in Publisher, Compare(p) \/ Resolve(p) \/ Answer(p) \/ Verify(p)
        PROVE  TypeOK'
    BY <1>8 DEF Compare, Resolve, Answer, Verify, Process, Step
  <1>9. ASSUME NEW p \in Publisher, Send(p)
        PROVE  TypeOK'
    <2>1. requests' \subseteq Request
      BY <1>9 DEF Send, Request, Process, Row
    <2>2. sends' \in [Run -> Nat]
      <3>1. pub[p].run \in Run /\ sends[pub[p].run] \in Nat
        BY <1>9 DEF Send, Process
      <3> QED
        BY <1>9, <3>1 DEF Send
    <2>3. pub' \in [Publisher -> Process]
      BY <1>9 DEF Send, Process, Step
    <2> QED
      BY <1>9, <2>1, <2>2, <2>3 DEF Send
  <1>10. ASSUME NEW p \in Publisher, Complete(p)
         PROVE  TypeOK'
    <2>1. pub[p].run \in Run
      BY <1>10 DEF Complete, Process
    <2>2. row' \in [Run -> Row]
      BY <1>10, <2>1 DEF Complete, Row, State
    <2>3. inventory' \in [Alias -> Index \cup {NoIndex}]
      BY <1>10, <2>1 DEF Complete, Row
    <2>4. pub' \in [Publisher -> Process]
      BY <1>10, StopFits DEF Complete
    <2> QED
      BY <1>10, <2>2, <2>3, <2>4 DEF Complete
  <1>11. ASSUME NEW q \in requests, SwitchAlias(q) \/ RefuseSwitch(q)
         PROVE  TypeOK'
    <2>1. CASE SwitchAlias(q)
      <3>1. q.alias \in Alias /\ q.index \in Index
        BY DEF Request
      <3>2. target' \in [Alias -> SUBSET Index]
        BY <2>1, <3>1 DEF SwitchAlias
      <3> QED
        BY <2>1, <3>2 DEF SwitchAlias
    <2>2. CASE RefuseSwitch(q)
      <3>1. pub' \in [Publisher -> Process]
        <4> SUFFICES ASSUME NEW p \in Publisher
                     PROVE  pub'[p] \in Process
          BY <2>2 DEF RefuseSwitch
        <4> QED
          BY <2>2 DEF RefuseSwitch, Process, Step
      <3> QED
        BY <2>2, <3>1 DEF RefuseSwitch
    <2> QED
      BY <1>11, <2>1, <2>2
  <1>12. ASSUME NEW a \in Alias, NEW i \in Index, NEW seen \in Index \cup {NoIndex},
                DirectRead(a, i, seen)
         PROVE  TypeOK'
    BY <1>12 DEF DirectRead, Direct
  <1>13. ASSUME NEW d \in direct, DirectSwitch(d)
         PROVE  TypeOK'
    <2>1. d \in Direct /\ [d EXCEPT !.step = "record"] \in Direct
      BY DEF Direct
    <2>2. d.alias \in Alias /\ d.index \in Index
      BY <2>1 DEF Direct
    <2> QED
      BY <1>13, <2>1, <2>2 DEF DirectSwitch
  <1>14. ASSUME NEW d \in direct, DirectRecord(d) \/ DirectEnds(d)
         PROVE  TypeOK'
    <2>1. d.alias \in Alias /\ d.index \in Index
      BY DEF Direct
    <2> QED
      BY <1>14, <2>1 DEF DirectRecord, DirectEnds
  <1> QED
    BY <1>1, <1>2, <1>3, <1>4, <1>5, <1>6, <1>7, <1>8, <1>9, <1>10, <1>11, <1>12, <1>13, <1>14
    DEF Next

-----------------------------------------------------------------------------

LEMMA ReservationInit == ASSUME Init PROVE Reservation
  BY DEF Init, Reservation, Fits, OneHolder, SendsFit, KeysHold, Stored, Unfinished,
         Holding, NoRow

\* What the two ways of leaving a step, and a change of state, amount to.
LEMMA StopEffect ==
    ASSUME TypeOK, NEW p \in Publisher, Stop(p)
    PROVE  /\ pub'[p].step = "idle"
           /\ \A q \in Publisher \ {p} : pub'[q] = pub[q]
  BY DEF TypeOK, Stop, Process

LEMMA GotoEffect ==
    ASSUME TypeOK, NEW p \in Publisher, NEW s, Goto(p, s)
    PROVE  /\ pub'[p].step = s
           /\ pub'[p].run = pub[p].run
           /\ pub'[p].seen = pub[p].seen
           /\ \A q \in Publisher \ {p} : pub'[q] = pub[q]
  BY DEF TypeOK, Goto, Process

LEMMA MoveEffect ==
    ASSUME TypeOK, NEW r \in Run, NEW s, row' = [row EXCEPT ![r].state = s]
    PROVE  /\ row'[r].state = s
           /\ \A t \in Run : /\ row'[t].alias = row[t].alias
                             /\ row'[t].index = row[t].index
                             /\ row'[t].previous = row[t].previous
           /\ \A t \in Run \ {r} : row'[t] = row[t]
  BY DEF TypeOK, Row

LEMMA RunOf ==
    ASSUME TypeOK, NEW p \in Publisher, pub[p].step \notin NoRow
    PROVE  pub[p].run \in Run
  BY DEF TypeOK, Process

\* A step of one process that changes neither the table nor the requests.
LEMMA OnlyProcessMoves ==
    ASSUME TypeOK, Reservation, NEW p \in Publisher,
           UNCHANGED <<row, requests, sends>>,
           \A q \in Publisher \ {p} : pub'[q] = pub[q],
           Fits(p)',
           pub'[p].step \in Holding => pub[p].step \in Holding /\ pub'[p].run = pub[p].run
    PROVE  Reservation'
  <1>1. ASSUME NEW q \in Publisher PROVE Fits(q)'
    <2>1. CASE q = p
      BY <2>1
    <2>2. CASE q # p
      BY <2>2 DEF Reservation, Fits, Stored
    <2> QED
      BY <2>1, <2>2
  <1>2. OneHolder'
    BY DEF Reservation, OneHolder
  <1>3. SendsFit' /\ KeysHold'
    BY DEF Reservation, SendsFit, KeysHold, Stored, Unfinished
  <1> QED
    BY <1>1, <1>2, <1>3 DEF Reservation

\* A step of the process that holds a row, changing the state of that row.
LEMMA HeldRowMoves ==
    ASSUME TypeOK, Reservation, NEW p \in Publisher, NEW s \in State \ {"none", "ready"},
           pub[p].step \notin NoRow,
           UNCHANGED <<requests, sends>>,
           row' = [row EXCEPT ![pub[p].run].state = s],
           \A q \in Publisher \ {p} : pub'[q] = pub[q],
           \A q \in Publisher \ {p} : pub[q].run = pub[p].run =>
                                          pub[q].step \notin Holding,
           row[pub[p].run].state \in {"acknowledged", "completed"} =>
                s \in {"acknowledged", "completed"},
           row[pub[p].run].state # "none",
           s # "switching" => \A q \in requests : q.run # pub[p].run,
           row[pub[p].run].state = "completed" => s = "completed",
           Fits(p)', pub'[p].run = pub[p].run \/ pub'[p].step \notin Holding
    PROVE  Reservation'
  <1>1. pub[p].run \in Run
    BY RunOf
  <1>2. /\ row'[pub[p].run].state = s
        /\ \A t \in Run : row'[t].alias = row[t].alias /\ row'[t].index = row[t].index
        /\ \A t \in Run \ {pub[p].run} : row'[t] = row[t]
    BY <1>1, MoveEffect
  <1>3. ASSUME NEW q \in Publisher PROVE Fits(q)'
    <2>1. CASE q = p
      BY <2>1
    <2>2. CASE q # p
      <3>1. pub'[q] = pub[q] /\ Fits(q) /\ (pub[q].step \notin NoRow => pub[q].run \in Run)
        BY <2>2, RunOf DEF Reservation
      <3>2. CASE pub[q].run = pub[p].run
        BY <3>1, <3>2, <2>2, <1>1, <1>2 DEF Fits, Stored, Holding, NoRow
      <3>3. CASE pub[q].run # pub[p].run
        BY <3>1, <3>3, <1>2 DEF Fits, Stored, Holding, NoRow
      <3> QED
        BY <3>2, <3>3
    <2> QED
      BY <2>1, <2>2
  <1>4. OneHolder'
    <2> SUFFICES ASSUME NEW q \in Publisher, NEW t \in Publisher, q # t,
                        pub'[q].step \in Holding, pub'[t].step \in Holding
                 PROVE  pub'[q].run # pub'[t].run
      BY DEF OneHolder
    <2>1. CASE q # p /\ t # p
      BY <2>1 DEF Reservation, OneHolder
    <2>2. CASE q = p \/ t = p
      BY <2>2
    <2> QED
      BY <2>1, <2>2
  <1>5. SendsFit'
    BY <1>1, <1>2 DEF Reservation, SendsFit, TypeOK, Request
  <1>6. KeysHold'
    <2>1. \A t \in Run : (Stored(t)' => Stored(t)) /\ (Unfinished(t)' => Unfinished(t))
      BY <1>1, <1>2 DEF Stored, Unfinished, TypeOK, Row, State
    <2> QED
      BY <1>2, <2>1 DEF Reservation, KeysHold
  <1> QED
    BY <1>3, <1>4, <1>5, <1>6 DEF Reservation

LEMMA ReservationStep ==
    ASSUME TypeOK, Reservation, [Next]_vars
    PROVE  Reservation'
  <1>1. CASE UNCHANGED vars
    BY <1>1 DEF vars, Reservation, Fits, OneHolder, SendsFit, KeysHold, Stored, Unfinished
  <1>2. ASSUME NEW p \in Publisher, NEW a \in Alias, NEW i \in Index, ReadPrevious(p, a, i)
        PROVE  Reservation'
    <2>1. pub'[p].step = "create" /\ \A q \in Publisher \ {p} : pub'[q] = pub[q]
      BY <1>2 DEF ReadPrevious, TypeOK
    <2> QED
      BY <1>2, <2>1, OnlyProcessMoves DEF ReadPrevious, Fits, Holding, NoRow
  <1>3. ASSUME NEW p \in Publisher, NEW r \in Run, Create(p, r)
        PROVE  Reservation'
    <2> USE DEF Stored, Holding, NoRow
    <2>1. /\ row'[r].state = "ready" /\ row'[r].alias = pub[p].alias
          /\ row'[r].index = pub[p].index
          /\ \A s \in Run \ {r} : row'[s] = row[s]
      BY <1>3 DEF Create, TypeOK
    <2>2. /\ pub'[p].step = "load" /\ pub'[p].run = r
          /\ \A q \in Publisher \ {p} : pub'[q] = pub[q]
      BY <1>3 DEF Create, TypeOK, Process
    <2>3. /\ row[r].state = "none" /\ KeysFree(pub[p].alias, pub[p].index)
          /\ UNCHANGED <<requests, sends>>
      BY <1>3 DEF Create
    <2>4. ASSUME NEW q \in Publisher PROVE Fits(q)'
      <3>1. CASE q = p
        BY <3>1, <2>1, <2>2 DEF Fits
      <3>2. CASE q # p
        <4>1. Fits(q) /\ pub'[q] = pub[q] /\ (pub[q].step \notin NoRow => pub[q].run \in Run)
          BY <3>2, <2>2, RunOf DEF Reservation
        <4> QED
          BY <4>1, <2>1, <2>3 DEF Fits
      <3> QED
        BY <3>1, <3>2
    <2>5. OneHolder'
      BY <2>2 DEF Reservation, OneHolder
    <2>6. SendsFit'
      BY <2>1, <2>3 DEF Reservation, SendsFit, TypeOK, Request
    <2>7. KeysHold'
      BY <2>1, <2>3 DEF Reservation, KeysHold, KeysFree, Unfinished
    <2> QED
      BY <2>4, <2>5, <2>6, <2>7 DEF Reservation
  <1>4. ASSUME NEW p \in Publisher, NEW r \in Run, Resume(p, r)
        PROVE  Reservation'
    <2>1. /\ pub'[p].step = "load" /\ pub'[p].run = r
          /\ \A q \in Publisher \ {p} : pub'[q] = pub[q]
      BY <1>4 DEF Resume, TypeOK, Process
    <2> QED
      BY <1>4, <2>1, OnlyProcessMoves DEF Resume, Fits, Holding, NoRow, Stored
  <1>5. ASSUME NEW p \in Publisher, Stop(p), UNCHANGED <<row, requests, sends>>
        PROVE  Reservation'
    BY <1>5, StopEffect, OnlyProcessMoves DEF Fits, Holding, NoRow
  <1>6. ASSUME NEW p \in Publisher, Load(p)
        PROVE  Reservation'
    <2>1. CASE AfterLoad(row[pub[p].run].state) = "idle"
      BY <1>5, <1>6, <2>1 DEF Load
    <2>2. CASE AfterLoad(row[pub[p].run].state) # "idle"
      <3>1. Goto(p, AfterLoad(row[pub[p].run].state)) /\ UNCHANGED <<row, requests, sends>>
            /\ pub[p].step = "load"
        BY <1>6, <2>2 DEF Load
      <3>2. PICK s : s = AfterLoad(row[pub[p].run].state)
        OBVIOUS
      <3>3. /\ pub'[p].step = s /\ pub'[p].run = pub[p].run
            /\ \A q \in Publisher \ {p} : pub'[q] = pub[q]
        BY <3>1, <3>2, GotoEffect
      <3>4. \/ s = "claim"
            \/ s = "verify" /\ row[pub[p].run].state = "acknowledged"
        BY <2>2, <3>2 DEF AfterLoad
      <3>5. Fits(p)' /\ pub'[p].step \notin Holding
        BY <3>1, <3>3, <3>4 DEF Fits, Holding, NoRow, Stored, Reservation
      <3> QED
        BY <3>1, <3>3, <3>5, OnlyProcessMoves
    <2> QED
      BY <2>1, <2>2
  <1>7. ASSUME NEW p \in Publisher, Claim(p), row[pub[p].run].state = "ready"
        PROVE  Reservation'
    <2>1. /\ row' = [row EXCEPT ![pub[p].run].state = "switching"]
          /\ Goto(p, "compare") /\ UNCHANGED <<requests, sends>> /\ pub[p].step = "claim"
      BY <1>7 DEF Claim
    <2>2. /\ pub'[p].step = "compare" /\ pub'[p].run = pub[p].run
          /\ \A q \in Publisher \ {p} : pub'[q] = pub[q]
      BY <2>1, GotoEffect
    <2>3. pub[p].run \in Run /\ row'[pub[p].run].state = "switching"
      BY <2>1, RunOf, MoveEffect DEF NoRow
    <2>4. Fits(p)'
      BY <1>7, <2>1, <2>2, <2>3 DEF Fits, Holding, NoRow, Stored, Reservation, SendsFit
    <2>5. \A q \in Publisher \ {p} : pub[q].run = pub[p].run => pub[q].step \notin Holding
      BY <1>7 DEF Reservation, Fits
    <2> QED
      BY <1>7, <2>1, <2>2, <2>4, <2>5, HeldRowMoves DEF NoRow, State
  <1>8. ASSUME NEW p \in Publisher, NEW s \in {"resolve", "complete"}, Goto(p, s),
               pub[p].step = (IF s = "resolve" THEN "compare" ELSE "verify"),
               UNCHANGED <<row, requests, sends>>
        PROVE  Reservation'
    <2>1. /\ pub'[p].step = s /\ pub'[p].run = pub[p].run
          /\ \A q \in Publisher \ {p} : pub'[q] = pub[q]
      BY <1>8, GotoEffect
    <2>2. Fits(p)'
      BY <1>8, <2>1 DEF Reservation, Fits, Holding, NoRow, Stored
    <2> QED
      BY <1>8, <2>1, <2>2, OnlyProcessMoves DEF Holding
  <1>9. ASSUME NEW p \in Publisher, NEW seen \in Index \cup {NoIndex}, pub[p].step = "resolve",
               pub' = [pub EXCEPT ![p].step = "send", ![p].seen = seen],
               UNCHANGED <<row, requests, sends>>
        PROVE  Reservation'
    <2>1. /\ pub'[p].step = "send" /\ pub'[p].run = pub[p].run
          /\ \A q \in Publisher \ {p} : pub'[q] = pub[q]
      BY <1>9 DEF TypeOK, Process
    <2>2. Fits(p)'
      BY <1>9, <2>1 DEF Reservation, Fits, Holding, NoRow, Stored
    <2> QED
      BY <1>9, <2>1, <2>2, OnlyProcessMoves DEF Holding
  <1>10. ASSUME NEW p \in Publisher, Send(p)
         PROVE  Reservation'
    <2> USE DEF Holding, NoRow, Stored
    <2>1. /\ pub[p].step = "send" /\ pub'[p].step = "waiting" /\ pub'[p].run = pub[p].run
          /\ \A q \in Publisher \ {p} : pub'[q] = pub[q]
      BY <1>10, GotoEffect DEF Send
    <2>2. pub[p].run \in Run /\ Fits(p)
      BY <2>1, RunOf DEF Reservation
    <2>3. PICK q \in Request : /\ q.run = pub[p].run /\ q.alias = row[pub[p].run].alias
                               /\ q.index = row[pub[p].run].index
                               /\ requests' = requests \cup {q}
      BY <1>10, <2>2 DEF Send, Request, TypeOK, Row, Process
    <2>4. /\ sends'[pub[p].run] = 1 /\ UNCHANGED row
          /\ \A r \in Run \ {pub[p].run} : sends'[r] = sends[r]
      BY <1>10, <2>1, <2>2 DEF Send, TypeOK, Fits
    <2>5. ASSUME NEW t \in Publisher PROVE Fits(t)'
      <3>1. CASE t = p
        BY <3>1, <2>1, <2>2, <2>4 DEF Fits
      <3>2. CASE t # p
        <4>1. Fits(t) /\ pub'[t] = pub[t] /\ (pub[t].step \notin NoRow => pub[t].run \in Run)
          BY <3>2, <2>1, RunOf DEF Reservation
        <4>2. pub[t].step \in Holding => pub[t].run # pub[p].run
          BY <3>2, <2>1 DEF Reservation, OneHolder
        <4> QED
          BY <4>1, <4>2, <2>3, <2>4 DEF Fits
      <3> QED
        BY <3>1, <3>2
    <2>6. OneHolder'
      BY <2>1 DEF Reservation, OneHolder
    <2>7. SendsFit'
      BY <2>1, <2>2, <2>3, <2>4 DEF Reservation, SendsFit, Fits, TypeOK, Request
    <2>8. KeysHold'
      BY <2>4 DEF Reservation, KeysHold, Unfinished
    <2> QED
      BY <2>5, <2>6, <2>7, <2>8 DEF Reservation
  <1>11. ASSUME NEW p \in Publisher, Answer(p)
         PROVE  Reservation'
    <2>1. CASE pub[p].seen = row[pub[p].run].previous
      <3>1. /\ pub'[p].step = "acknowledge" /\ pub'[p].run = pub[p].run
            /\ \A q \in Publisher \ {p} : pub'[q] = pub[q]
        BY <1>11, <2>1, GotoEffect DEF Answer
      <3>2. Fits(p)' /\ pub[p].step = "waiting" /\ UNCHANGED <<row, requests, sends>>
        BY <1>11, <3>1 DEF Reservation, Fits, Holding, NoRow, Stored, Answer
      <3> QED
        BY <3>1, <3>2, OnlyProcessMoves DEF Holding
    <2>2. CASE pub[p].seen # row[pub[p].run].previous
      BY <1>5, <1>11, <2>2 DEF Answer
    <2> QED
      BY <2>1, <2>2
  <1>12. ASSUME NEW p \in Publisher, Acknowledge(p), row[pub[p].run].state = "switching"
         PROVE  Reservation'
    <2>1. /\ row' = [row EXCEPT ![pub[p].run].state = "acknowledged"]
          /\ Goto(p, "verify") /\ UNCHANGED <<requests, sends>> /\ pub[p].step = "acknowledge"
      BY <1>12 DEF Acknowledge
    <2>2. /\ pub'[p].step = "verify" /\ pub'[p].run = pub[p].run
          /\ \A q \in Publisher \ {p} : pub'[q] = pub[q]
      BY <2>1, GotoEffect
    <2>3. pub[p].run \in Run /\ row'[pub[p].run].state = "acknowledged"
      BY <2>1, RunOf, MoveEffect DEF NoRow
    <2>4. Fits(p)'
      BY <2>2, <2>3 DEF Fits, Holding, NoRow, Stored
    <2>5. \A q \in Publisher \ {p} : pub[q].run = pub[p].run => pub[q].step \notin Holding
      BY <2>1 DEF Reservation, OneHolder, Holding
    <2>6. \A q \in requests : q.run # pub[p].run
      BY <2>1 DEF Reservation, Fits
    <2> QED
      <3>1. row[pub[p].run].state \notin {"none", "completed"} /\ pub[p].step \notin NoRow
        BY <1>12, <2>1 DEF NoRow
      <3>2. PICK s \in State \ {"none", "ready"} : s = "acknowledged"
        BY DEF State
      <3>3. row' = [row EXCEPT ![pub[p].run].state = s]
        BY <2>1, <3>2
      <3> QED
        BY <1>12, <2>1, <2>2, <2>4, <2>5, <2>6, <3>1, <3>2, <3>3, HeldRowMoves
  <1>13. ASSUME NEW p \in Publisher, Complete(p), row[pub[p].run].state = "acknowledged"
         PROVE  Reservation'
    <2>1. /\ row' = [row EXCEPT ![pub[p].run].state = "completed"]
          /\ Stop(p) /\ UNCHANGED <<requests, sends>> /\ pub[p].step = "complete"
      BY <1>13 DEF Complete
    <2>2. pub'[p].step = "idle" /\ \A q \in Publisher \ {p} : pub'[q] = pub[q]
      BY <2>1, StopEffect
    <2>3. Fits(p)' /\ pub'[p].step \notin Holding
      BY <2>2 DEF Fits, Holding, NoRow
    <2>4. \A q \in Publisher \ {p} : pub[q].run = pub[p].run => pub[q].step \notin Holding
      BY <1>13 DEF Reservation, Fits
    <2>5. \A q \in requests : q.run # pub[p].run
      BY <1>13 DEF Reservation, SendsFit
    <2> QED
      <3>1. row[pub[p].run].state \notin {"none", "completed"} /\ pub[p].step \notin NoRow
        BY <1>13, <2>1 DEF NoRow
      <3>2. PICK s \in State \ {"none", "ready"} : s = "completed"
        BY DEF State
      <3>3. row' = [row EXCEPT ![pub[p].run].state = s]
        BY <2>1, <3>2
      <3> QED
        BY <1>13, <2>1, <2>2, <2>3, <2>4, <2>5, <3>1, <3>2, <3>3, HeldRowMoves
  <1>14. ASSUME NEW q \in requests, SwitchAlias(q)
         PROVE  Reservation'
    <2>1. requests' \subseteq requests /\ UNCHANGED <<row, sends, pub>>
      BY <1>14 DEF SwitchAlias
    <2> QED
      BY <2>1 DEF Reservation, Fits, OneHolder, SendsFit, KeysHold, Stored, Unfinished
  <1>15. ASSUME NEW q \in requests, RefuseSwitch(q)
         PROVE  Reservation'
    <2>1. /\ requests' \subseteq requests /\ UNCHANGED <<row, sends>>
          /\ \A p \in Publisher : pub'[p] = pub[p] \/ pub'[p].step = "idle"
      BY <1>15 DEF RefuseSwitch, TypeOK, Process
    <2>2. ASSUME NEW p \in Publisher PROVE Fits(p)'
      BY <2>1 DEF Reservation, Fits, Stored, Holding, NoRow
    <2>3. OneHolder'
      BY <2>1 DEF Reservation, OneHolder, Holding
    <2>4. SendsFit' /\ KeysHold'
      BY <2>1 DEF Reservation, SendsFit, KeysHold, Stored, Unfinished
    <2> QED
      BY <2>2, <2>3, <2>4 DEF Reservation
  <1>16. CASE OutsideStep
    BY <1>16 DEF OutsideStep, DirectRead, DirectSwitch, DirectRecord, DirectEnds, Reservation,
                 Fits, OneHolder, SendsFit, KeysHold, Stored, Unfinished
  <1>17. ASSUME NEW p \in Publisher,
                \/ CreateConflict(p) \/ Abandon(p)
                \/ Claim(p) \/ Acknowledge(p) \/ Complete(p)
                \/ Compare(p) \/ Resolve(p) \/ Verify(p)
         PROVE  Reservation'
    BY <1>5, <1>7, <1>8, <1>9, <1>12, <1>13, <1>17
    DEF CreateConflict, Abandon, Claim, Acknowledge, Complete, Compare, Resolve, Verify
  <1> QED
    BY <1>1, <1>2, <1>3, <1>4, <1>6, <1>10, <1>11, <1>14, <1>15, <1>16, <1>17
    DEF Next, OutsideStep

-----------------------------------------------------------------------------

LEMMA RecFacts ==
    /\ \A i, j \in Index \cup {NoIndex} : Rec(i) = Rec(j) => i = j
    /\ \A i, j \in Index \cup {NoIndex} : i # j /\ j # NoIndex =>
            (Rec(i) \ {i}) \cup {j} = {j} /\ Rec(i) # {j}
    /\ \A a \in Alias, i \in Index \cup {NoIndex} : Resolves(a, i) <=> target[a] = Rec(i)
  BY ConstantsAssumption DEF Rec, Resolves

LEMMA AgreementInit == ASSUME Init PROVE Agreement
  BY DEF Init, Agreement, Content, Pending, Knows, Served, Stored, Holding, Rec, Moving

\* A step that leaves the table, the alias, the inventory and the requests as
\* they are disturbs only what its process knows.
LEMMA OnlyKnowledgeMoves ==
    ASSUME Agreement, NEW p \in Publisher,
           UNCHANGED <<row, target, inventory, requests, sends, drifted>>,
           \A q \in Publisher \ {p} : pub'[q] = pub[q],
           Knows(p)'
    PROVE  Agreement'
  <1>1. \A q \in Publisher : Knows(q)'
    BY DEF Agreement, Knows
  <1> QED
    BY <1>1 DEF Agreement, Content, Pending, Served, Stored, Moving

\* What is published outside the journal is counted.
LEMMA CountedStep ==
    ASSUME TypeOK, Counted, [Next]_vars
    PROVE  Counted'
  <1>1. CASE UNCHANGED <<drifted, direct>>
    BY <1>1 DEF Counted
  <1>2. ASSUME NEW a \in Alias, NEW i \in Index, NEW seen \in Index \cup {NoIndex},
               DirectRead(a, i, seen)
        PROVE  Counted'
    <2>1. PICK new : /\ new.alias = a /\ direct' = direct \cup {new}
                     /\ drifted' = [drifted EXCEPT ![a] = @ + 1]
      <3>1. PICK new : new = [alias |-> a, index |-> i, seen |-> seen,
                              step |-> IF seen = i THEN "record" ELSE "switch"]
        OBVIOUS
      <3>2. new.alias = a
        BY <3>1
      <3>3. /\ direct' = direct \cup {new}
            /\ drifted' = [drifted EXCEPT ![a] = @ + 1]
        BY <1>2, <3>1 DEF DirectRead
      <3> QED
        BY <3>2, <3>3
    <2>2. drifted'[a] > 0 /\ \A b \in Alias : drifted[b] > 0 => drifted'[b] > 0
      BY <2>1 DEF TypeOK
    <2>3. \A d \in direct : d.alias \in Alias
      BY DEF TypeOK, Direct
    <2> QED
      BY <2>1, <2>2, <2>3 DEF Counted
  <1>3. ASSUME NEW d \in direct, DirectSwitch(d)
        PROVE  Counted'
    <2>1. PICK new : /\ new.alias = d.alias /\ direct' = (direct \ {d}) \cup {new}
                     /\ UNCHANGED drifted
      <3>1. d \in Direct
        BY DEF TypeOK
      <3>2. [d EXCEPT !.step = "record"].alias = d.alias
        BY <3>1 DEF Direct
      <3> QED
        BY <1>3, <3>2 DEF DirectSwitch
    <2> QED
      BY <2>1 DEF Counted
  <1>4. ASSUME NEW d \in direct, DirectRecord(d) \/ DirectEnds(d)
        PROVE  Counted'
    BY <1>4 DEF DirectRecord, DirectEnds, Counted
  <1> QED
    BY <1>1, <1>2, <1>3, <1>4 DEF Next, vars, ReadPrevious, Create, Resume, CreateConflict, Load,
       Claim, Compare, Resolve, Send, Answer, Acknowledge, Verify, Complete, Abandon,
       SwitchAlias, RefuseSwitch

\* A publication outside the journal disturbs only the alias it is counted for.
LEMMA OutsideEffect ==
    ASSUME TypeOK, Counted, OutsideStep
    PROVE  /\ UNCHANGED <<row, requests, pub, sends>>
           /\ \A b \in Alias : drifted'[b] = 0 =>
                 drifted[b] = 0 /\ target'[b] = target[b] /\ inventory'[b] = inventory[b]
  <1>1. ASSUME NEW a \in Alias, NEW i \in Index, NEW seen \in Index \cup {NoIndex},
               DirectRead(a, i, seen)
        PROVE  \A b \in Alias : drifted'[b] = 0 =>
                  drifted[b] = 0 /\ target'[b] = target[b] /\ inventory'[b] = inventory[b]
    BY <1>1 DEF DirectRead, TypeOK
  <1>2. ASSUME NEW d \in direct, DirectSwitch(d) \/ DirectRecord(d) \/ DirectEnds(d)
        PROVE  \A b \in Alias : drifted'[b] = 0 =>
                  drifted[b] = 0 /\ target'[b] = target[b] /\ inventory'[b] = inventory[b]
    <2>1. drifted[d.alias] # 0 /\ UNCHANGED drifted
      BY <1>2 DEF Counted, DirectSwitch, DirectRecord, DirectEnds
    <2>2. \A b \in Alias \ {d.alias} : target'[b] = target[b] /\ inventory'[b] = inventory[b]
      BY <1>2 DEF DirectSwitch, DirectRecord, DirectEnds, TypeOK
    <2> QED
      BY <2>1, <2>2
  <1>3. UNCHANGED <<row, requests, pub, sends>>
    BY DEF OutsideStep, DirectRead, DirectSwitch, DirectRecord, DirectEnds
  <1> QED
    BY <1>1, <1>2, <1>3 DEF OutsideStep

LEMMA OutsideAgrees ==
    ASSUME TypeOK, Counted, Agreement, OutsideStep
    PROVE  Agreement'
  <1>1. /\ UNCHANGED <<row, requests, pub, sends>>
        /\ \A b \in Alias : drifted'[b] = 0 =>
              drifted[b] = 0 /\ target'[b] = target[b] /\ inventory'[b] = inventory[b]
    BY OutsideEffect
  <1>2. ASSUME NEW t \in Run, Stored(t)' PROVE Content(t)'
    <2>1. Content(t) /\ row[t].alias \in Alias
      BY <1>1, <1>2 DEF Agreement, Stored, TypeOK, Row
    <2> QED
      BY <1>1, <2>1 DEF Content
  <1>3. ASSUME NEW q \in requests' PROVE Pending(q)'
    <2>1. Pending(q) /\ q.alias \in Alias
      BY <1>1 DEF Agreement, TypeOK, Request
    <2> QED
      BY <1>1, <2>1 DEF Pending
  <1>4. ASSUME NEW p \in Publisher PROVE Knows(p)'
    <2> SUFFICES ASSUME pub[p].step \in Holding PROVE Knows(p)'
      BY <1>1 DEF Knows
    <2>1. Knows(p) /\ row[pub[p].run].alias \in Alias
      BY RunOf DEF Agreement, Holding, NoRow, TypeOK, Row
    <2> QED
      BY <1>1, <2>1 DEF Knows
  <1>5. ASSUME NEW b \in Alias PROVE Served(b)'
    BY <1>1 DEF Agreement, Served, Moving
  <1> QED
    BY <1>1, <1>2, <1>3, <1>4, <1>5 DEF Agreement

LEMMA AgreementStep ==
    ASSUME TypeOK, TypeOK', Reservation, Counted, Agreement, [Next]_vars
    PROVE  Agreement'
  <1>1. CASE UNCHANGED vars
    BY <1>1 DEF vars, Agreement, Content, Pending, Knows, Served, Stored, Moving
  <1>2. ASSUME NEW p \in Publisher, pub'[p].step \notin Holding,
               \A q \in Publisher \ {p} : pub'[q] = pub[q],
               UNCHANGED <<row, target, inventory, requests, sends, drifted>>
        PROVE  Agreement'
    BY <1>2, OnlyKnowledgeMoves DEF Knows
  <1>3. ASSUME NEW p \in Publisher, NEW a \in Alias, NEW i \in Index, ReadPrevious(p, a, i)
        PROVE  Agreement'
    BY <1>2, <1>3 DEF ReadPrevious, TypeOK, Holding
  <1>4. ASSUME NEW p \in Publisher, NEW r \in Run, Create(p, r)
        PROVE  Agreement'
    <2>1. /\ row'[r].state = "ready" /\ row'[r].previous # row'[r].index
          /\ \A s \in Run \ {r} : row'[s] = row[s]
      BY <1>4 DEF Create, TypeOK
    <2>2. /\ pub'[p].step = "load"
          /\ \A q \in Publisher \ {p} : pub'[q] = pub[q]
      BY <1>4 DEF Create, TypeOK, Process
    <2>3. /\ row[r].state = "none"
          /\ UNCHANGED <<target, inventory, requests, sends, drifted>>
      BY <1>4 DEF Create, Stored
    <2>4. ASSUME NEW s \in Run, Stored(s)' PROVE Content(s)'
      BY <2>1, <2>3, <2>4 DEF Agreement, Content, Stored
    <2>5. ASSUME NEW q \in requests' PROVE Pending(q)'
      BY <2>1, <2>3 DEF Agreement, Pending, Reservation, SendsFit, TypeOK, Request
    <2>6. ASSUME NEW q \in Publisher PROVE Knows(q)'
      <3>1. CASE q = p
        BY <2>2, <3>1 DEF Knows, Holding
      <3>2. CASE q # p
        <4>1. /\ pub'[q] = pub[q] /\ Knows(q) /\ Fits(q)
              /\ pub[q].step \in Holding => pub[q].run \in Run
          BY <2>2, <3>2, RunOf DEF Agreement, Reservation, Holding, NoRow
        <4> QED
          BY <4>1, <2>1, <2>3 DEF Knows, Fits
      <3> QED
        BY <3>1, <3>2
    <2>7. ASSUME NEW a \in Alias PROVE Served(a)'
      <3>1. Served(a)
        BY DEF Agreement
      <3>2. \A s \in Run : Moving(s) => s # r /\ Moving(s)' /\ row'[s].alias = row[s].alias
        BY <2>1, <2>3 DEF Moving
      <3> QED
        BY <2>3, <3>1, <3>2 DEF Served
    <2> QED
      BY <2>4, <2>5, <2>6, <2>7 DEF Agreement
  <1>5. ASSUME NEW p \in Publisher, NEW r \in Run, Resume(p, r)
        PROVE  Agreement'
    <2>1. pub'[p].step = "load" /\ \A q \in Publisher \ {p} : pub'[q] = pub[q]
      BY <1>5 DEF Resume, TypeOK, Process
    <2> QED
      BY <1>2, <1>5, <2>1 DEF Resume, Holding
  <1>6. ASSUME NEW p \in Publisher, Stop(p),
               UNCHANGED <<row, target, inventory, requests, sends, drifted>>
        PROVE  Agreement'
    BY <1>2, <1>6, StopEffect DEF Holding
  <1>7. ASSUME NEW p \in Publisher, NEW s \in {"claim", "verify", "complete"}, Goto(p, s),
               UNCHANGED <<row, target, inventory, requests, sends, drifted>>
        PROVE  Agreement'
    BY <1>2, <1>7, GotoEffect DEF Holding
  <1>8. ASSUME NEW p \in Publisher, Load(p)
        PROVE  Agreement'
    BY <1>6, <1>7, <1>8 DEF Load, AfterLoad
  <1>9. ASSUME NEW p \in Publisher, Claim(p), row[pub[p].run].state = "ready"
        PROVE  Agreement'
    <2>1. PICK r \in Run : r = pub[p].run
      BY <1>9, RunOf DEF Claim, NoRow
    <2>2. /\ row'[r].state = "switching"
          /\ \A t \in Run : /\ row'[t].alias = row[t].alias
                            /\ row'[t].index = row[t].index
                            /\ row'[t].previous = row[t].previous
          /\ \A t \in Run \ {r} : row'[t] = row[t]
      BY <1>9, <2>1, MoveEffect DEF Claim
    <2>3. /\ pub'[p].step = "compare" /\ pub'[p].run = r
          /\ \A q \in Publisher \ {p} : pub'[q] = pub[q]
          /\ UNCHANGED <<target, inventory, requests, sends, drifted>>
      BY <1>9, <2>1, GotoEffect DEF Claim
    <2>4. /\ sends[r] = 0
          /\ \A t \in Run : Moving(t) => row[t].alias # row[r].alias
          /\ row[r].alias \in Alias
      BY <1>9, <2>1 DEF Reservation, SendsFit, KeysHold, Moving, Stored, Unfinished,
                       TypeOK, Row
    <2>5. drifted[row[r].alias] = 0 => target[row[r].alias] = Rec(inventory[row[r].alias])
      BY <2>4 DEF Agreement, Served
    <2>6. ASSUME NEW t \in Run, Stored(t)' PROVE Content(t)'
      <3>1. CASE t = r
        BY <1>9, <2>1, <2>2, <2>3, <2>4, <2>5, <3>1 DEF Agreement, Content, Stored
      <3>2. CASE t # r
        BY <2>2, <2>3, <2>6, <3>2 DEF Agreement, Content, Stored
      <3> QED
        BY <3>1, <3>2
    <2>7. ASSUME NEW q \in requests' PROVE Pending(q)'
      BY <2>2, <2>3 DEF Agreement, Pending, TypeOK, Request
    <2>8. ASSUME NEW q \in Publisher PROVE Knows(q)'
      <3>1. CASE q = p
        BY <2>3, <3>1 DEF Knows
      <3>2. CASE q # p
        <4>1. /\ pub'[q] = pub[q] /\ Knows(q)
              /\ pub[q].step \in Holding => pub[q].run \in Run
          BY <2>3, <3>2, RunOf DEF Agreement, Holding, NoRow
        <4> QED
          BY <4>1, <2>2, <2>3 DEF Knows
      <3> QED
        BY <3>1, <3>2
    <2>9. ASSUME NEW a \in Alias PROVE Served(a)'
      <3>1. Served(a)
        BY DEF Agreement
      <3>2. \A t \in Run : Moving(t) => Moving(t)'
        BY <1>9, <2>1, <2>2 DEF Moving
      <3> QED
        BY <2>2, <2>3, <3>1, <3>2 DEF Served
    <2> QED
      BY <2>6, <2>7, <2>8, <2>9 DEF Agreement
  <1>10. ASSUME NEW p \in Publisher, Compare(p), Resolves(row[pub[p].run].alias, row[pub[p].run].previous)
         PROVE  Agreement'
    <2>1. pub[p].run \in Run /\ pub[p].step = "compare"
      BY <1>10, RunOf DEF Compare, NoRow
    <2>2. row[pub[p].run].alias \in Alias /\ row[pub[p].run].previous \in Index \cup {NoIndex}
      BY <2>1 DEF TypeOK, Row
    <2>3. target[row[pub[p].run].alias] = Rec(row[pub[p].run].previous)
      BY <1>10, <2>2, RecFacts
    <2>4. /\ pub'[p].step = "resolve" /\ pub'[p].run = pub[p].run
          /\ \A q \in Publisher \ {p} : pub'[q] = pub[q]
          /\ UNCHANGED <<row, target, inventory, requests, sends, drifted>>
      BY <1>10, GotoEffect DEF Compare
    <2>5. Knows(p)'
      BY <2>3, <2>4 DEF Knows
    <2> QED
      BY <2>4, <2>5, OnlyKnowledgeMoves
  <1>11. ASSUME NEW p \in Publisher, pub[p].step = "resolve",
                NEW seen \in Index \cup {NoIndex}, Resolves(row[pub[p].run].alias, seen),
                pub' = [pub EXCEPT ![p].step = "send", ![p].seen = seen],
                UNCHANGED <<row, target, inventory, requests, sends, drifted>>
         PROVE  Agreement'
    <2>1. pub[p].run \in Run /\ Knows(p)
      BY <1>11, RunOf DEF NoRow, Agreement
    <2>2. row[pub[p].run].alias \in Alias /\ row[pub[p].run].previous \in Index \cup {NoIndex}
      BY <2>1 DEF TypeOK, Row
    <2>3. target[row[pub[p].run].alias] = Rec(seen)
      BY <1>11, <2>2, RecFacts
    <2>4. /\ pub'[p].step = "send" /\ pub'[p].run = pub[p].run /\ pub'[p].seen = seen
          /\ \A q \in Publisher \ {p} : pub'[q] = pub[q]
      BY <1>11 DEF TypeOK, Process
    <2>5. drifted[row[pub[p].run].alias] = 0 =>
             target[row[pub[p].run].alias] = Rec(row[pub[p].run].previous)
      BY <1>11, <2>1 DEF Knows, Holding
    <2>6. drifted[row[pub[p].run].alias] = 0 => seen = row[pub[p].run].previous
      BY <2>2, <2>3, <2>5, RecFacts
    <2>7. Knows(p)'
      BY <1>11, <2>4, <2>5, <2>6 DEF Knows
    <2> QED
      BY <1>11, <2>4, <2>7, OnlyKnowledgeMoves
  <1>12. ASSUME NEW p \in Publisher, Send(p)
         PROVE  Agreement'
    <2>1. PICK r \in Run : r = pub[p].run
      BY <1>12, RunOf DEF Send, NoRow
    <2>2. /\ pub[p].step = "send" /\ Knows(p) /\ Fits(p)
      BY <1>12 DEF Send, Agreement, Reservation
    <2>3. /\ row[r].state = "switching" /\ sends[r] = 0 /\ row[r].alias \in Alias
          /\ row[r].previous \in Index \cup {NoIndex}
          /\ inventory[row[r].alias] \in Index \cup {NoIndex}
      BY <2>1, <2>2 DEF Fits, Holding, TypeOK, Row
    <2>4. drifted[row[r].alias] = 0 =>
            /\ target[row[r].alias] = Rec(row[r].previous)
            /\ inventory[row[r].alias] = row[r].previous
            /\ pub[p].seen = row[r].previous
      <3>1. Content(r)
        BY <2>3 DEF Agreement, Stored
      <3> QED
        BY <3>1, <2>1, <2>2, <2>3, RecFacts DEF Content, Knows, Holding
    <2>5. PICK q \in Request : /\ q.run = r /\ q.alias = row[r].alias
                               /\ q.index = row[r].index /\ q.remove = pub[p].seen
                               /\ requests' = requests \cup {q}
      BY <1>12, <2>1 DEF Send, Request, TypeOK, Row, Process
    <2>6. /\ sends'[r] = 1 /\ \A t \in Run \ {r} : sends'[t] = sends[t]
          /\ UNCHANGED <<row, target, inventory, drifted>>
      BY <1>12, <2>1, <2>3 DEF Send, TypeOK
    <2>7. /\ pub'[p].step = "waiting" /\ pub'[p].run = r
          /\ \A t \in Publisher \ {p} : pub'[t] = pub[t]
      BY <1>12, <2>1, GotoEffect DEF Send
    <2>8. ASSUME NEW t \in Run, Stored(t)' PROVE Content(t)'
      <3>1. CASE t = r
        BY <2>3, <2>4, <2>6, <3>1 DEF Agreement, Content, Stored
      <3>2. CASE t # r
        BY <2>6, <2>8, <3>2 DEF Agreement, Content, Stored
      <3> QED
        BY <3>1, <3>2
    <2>9. ASSUME NEW t \in requests' PROVE Pending(t)'
      <3>1. CASE t = q
        BY <2>4, <2>5, <2>6, <3>1 DEF Pending
      <3>2. CASE t \in requests
        BY <2>6, <3>2 DEF Agreement, Pending
      <3> QED
        BY <2>5, <3>1, <3>2
    <2>10. ASSUME NEW t \in Publisher PROVE Knows(t)'
      <3>1. CASE t = p
        BY <2>5, <2>6, <2>7, <3>1 DEF Knows
      <3>2. CASE t # p
        BY <2>5, <2>6, <2>7, <3>2 DEF Agreement, Knows
      <3> QED
        BY <3>1, <3>2
    <2>11. \A a \in Alias : Served(a)'
      BY <2>6 DEF Agreement, Served, Moving
    <2> QED
      BY <2>8, <2>9, <2>10, <2>11 DEF Agreement
  <1>13. ASSUME NEW p \in Publisher, Answer(p), pub[p].seen = row[pub[p].run].previous
         PROVE  Agreement'
    <2>1. /\ pub'[p].step = "acknowledge" /\ pub'[p].run = pub[p].run
          /\ \A q \in Publisher \ {p} : pub'[q] = pub[q]
          /\ UNCHANGED <<row, target, inventory, requests, sends, drifted>>
      BY <1>13, GotoEffect DEF Answer
    <2>2. Knows(p)'
      BY <1>13, <2>1 DEF Agreement, Knows, Answer, Holding
    <2> QED
      BY <2>1, <2>2, OnlyKnowledgeMoves
  <1>14. ASSUME NEW p \in Publisher, Acknowledge(p), row[pub[p].run].state = "switching"
         PROVE  Agreement'
    <2>1. PICK r \in Run : r = pub[p].run
      BY <1>14, RunOf DEF Acknowledge, NoRow
    <2>2. /\ row'[r].state = "acknowledged"
          /\ \A t \in Run : /\ row'[t].alias = row[t].alias
                            /\ row'[t].index = row[t].index
                            /\ row'[t].previous = row[t].previous
          /\ \A t \in Run \ {r} : row'[t] = row[t]
      BY <1>14, <2>1, MoveEffect DEF Acknowledge
    <2>3. /\ pub'[p].step = "verify"
          /\ \A q \in Publisher \ {p} : pub'[q] = pub[q]
          /\ UNCHANGED <<target, inventory, requests, sends, drifted>>
      BY <1>14, GotoEffect DEF Acknowledge
    <2>4. /\ Knows(p) /\ pub[p].step = "acknowledge" /\ sends[r] = 1
          /\ \A q \in requests : q.run # r
      BY <1>14, <2>1 DEF Acknowledge, Agreement, Reservation, Fits
    <2>5. ASSUME NEW t \in Run, Stored(t)' PROVE Content(t)'
      <3>1. CASE t = r
        BY <1>14, <2>1, <2>2, <2>3, <2>4, <3>1 DEF Agreement, Content, Stored, Knows, Holding
      <3>2. CASE t # r
        BY <2>2, <2>3, <2>5, <3>2 DEF Agreement, Content, Stored
      <3> QED
        BY <3>1, <3>2
    <2>6. ASSUME NEW q \in requests' PROVE Pending(q)'
      BY <2>2, <2>3 DEF Agreement, Pending, TypeOK, Request
    <2>7. ASSUME NEW q \in Publisher PROVE Knows(q)'
      <3>1. CASE q = p
        BY <2>3, <3>1 DEF Knows, Holding
      <3>2. CASE q # p
        <4>1. /\ pub'[q] = pub[q] /\ Knows(q)
              /\ pub[q].step \in Holding => pub[q].run \in Run
          BY <2>3, <3>2, RunOf DEF Agreement, Holding, NoRow
        <4> QED
          BY <4>1, <2>2, <2>3 DEF Knows
      <3> QED
        BY <3>1, <3>2
    <2>8. ASSUME NEW a \in Alias PROVE Served(a)'
      <3>1. Served(a)
        BY DEF Agreement
      <3>2. \A t \in Run : Moving(t) => Moving(t)'
        BY <2>2 DEF Moving
      <3> QED
        BY <2>2, <2>3, <3>1, <3>2 DEF Served
    <2> QED
      BY <2>5, <2>6, <2>7, <2>8 DEF Agreement
  <1>15. ASSUME NEW p \in Publisher, Complete(p), row[pub[p].run].state = "acknowledged"
         PROVE  Agreement'
    <2>1. PICK r \in Run : r = pub[p].run
      BY <1>15, RunOf DEF Complete, NoRow
    <2>2. /\ row'[r].state = "completed"
          /\ \A t \in Run : /\ row'[t].alias = row[t].alias
                            /\ row'[t].index = row[t].index
                            /\ row'[t].previous = row[t].previous
          /\ \A t \in Run \ {r} : row'[t] = row[t]
      BY <1>15, <2>1, MoveEffect DEF Complete
    <2>3. /\ pub'[p].step = "idle"
          /\ \A q \in Publisher \ {p} : pub'[q] = pub[q]
          /\ UNCHANGED <<target, requests, sends, drifted>>
      BY <1>15, StopEffect DEF Complete
    <2>4. /\ inventory'[row[r].alias] = row[r].index
          /\ \A a \in Alias \ {row[r].alias} : inventory'[a] = inventory[a]
          /\ row[r].alias \in Alias /\ row[r].index \in Index
      BY <1>15, <2>1 DEF Complete, TypeOK, Row
    <2>5. \A t \in Run \ {r} : Moving(t) => row[t].alias # row[r].alias
      BY <1>15, <2>1 DEF Reservation, KeysHold, Stored, Unfinished, Moving
    <2>6. ASSUME NEW t \in Run, Stored(t)' PROVE Content(t)'
      <3>1. CASE t = r
        BY <1>15, <2>1, <2>2, <3>1 DEF Agreement, Content, Stored
      <3>2. CASE t # r
        <4>1. Content(t) /\ row'[t] = row[t] /\ row[t].alias \in Alias
          BY <2>2, <2>6, <3>2 DEF Agreement, Stored, TypeOK, Row
        <4> QED
          BY <2>3, <2>4, <2>5, <3>2, <4>1 DEF Content, Moving
      <3> QED
        BY <3>1, <3>2
    <2>7. ASSUME NEW q \in requests' PROVE Pending(q)'
      BY <2>2, <2>3 DEF Agreement, Pending, TypeOK, Request
    <2>8. ASSUME NEW q \in Publisher PROVE Knows(q)'
      <3>1. CASE q = p
        BY <2>3, <3>1 DEF Knows, Holding
      <3>2. CASE q # p
        <4>1. /\ pub'[q] = pub[q] /\ Knows(q)
              /\ pub[q].step \in Holding => pub[q].run \in Run
          BY <2>3, <3>2, RunOf DEF Agreement, Holding, NoRow
        <4> QED
          BY <4>1, <2>2, <2>3 DEF Knows
      <3> QED
        BY <3>1, <3>2
    <2>9. ASSUME NEW a \in Alias PROVE Served(a)'
      <3>1. CASE a = row[r].alias
        <4>1. drifted[a] = 0 => target[a] = {row[r].index}
          BY <1>15, <2>1, <3>1 DEF Agreement, Content, Stored
        <4>2. Rec(row[r].index) = {row[r].index}
          BY <2>4, ConstantsAssumption DEF Rec
        <4> QED
          BY <2>3, <2>4, <3>1, <4>1, <4>2 DEF Served, Rec
      <3>2. CASE a # row[r].alias
        <4>1. Served(a) /\ inventory'[a] = inventory[a]
          BY <2>4, <3>2 DEF Agreement
        <4>2. \A t \in Run : Moving(t) /\ row[t].alias = a => Moving(t)'
          BY <2>2, <3>2 DEF Moving
        <4> QED
          BY <2>2, <2>3, <4>1, <4>2 DEF Served
      <3> QED
        BY <3>1, <3>2
    <2> QED
      BY <2>6, <2>7, <2>8, <2>9 DEF Agreement
  <1>16. ASSUME NEW q \in requests, SwitchAlias(q)
         PROVE  Agreement'
    <2>1. /\ q.run \in Run /\ q.alias \in Alias /\ q.index \in Index
          /\ q.remove \in Index \cup {NoIndex}
      BY DEF TypeOK, Request
    <2>2. /\ row[q.run].state = "switching" /\ sends[q.run] = 1 /\ q.alias = row[q.run].alias
          /\ q.index = row[q.run].index
      BY DEF Reservation, SendsFit
    <2>3. Pending(q) /\ Content(q.run)
      BY <2>1, <2>2 DEF Agreement, Stored
    <2>4. /\ target'[q.alias] = (target[q.alias] \ {q.remove}) \cup {q.index}
          /\ \A a \in Alias \ {q.alias} : target'[a] = target[a]
          /\ requests' = requests \ {q}
          /\ UNCHANGED <<row, inventory, pub, sends, drifted>>
      BY <1>16, <2>1 DEF SwitchAlias, TypeOK
    <2>5. drifted[q.alias] = 0 => target'[q.alias] = {q.index}
      <3>1. q.index # NoIndex
        BY <2>1, ConstantsAssumption
      <3> QED
        BY <2>1, <2>2, <2>3, <2>4, <3>1, RecFacts DEF Pending, Content
    <2>6. \A t \in Run \ {q.run} : Unfinished(t) => row[t].alias # q.alias
      BY <2>1, <2>2 DEF Reservation, KeysHold, Stored, Unfinished
    <2>7. ASSUME NEW t \in Run, Stored(t)' PROVE Content(t)'
      <3>1. CASE t = q.run
        BY <2>2, <2>3, <2>4, <2>5, <3>1 DEF Content
      <3>2. CASE t # q.run
        <4>1. Content(t) /\ row[t].alias \in Alias
          BY <2>4, <2>7 DEF Agreement, Stored, TypeOK, Row
        <4> QED
          BY <2>4, <2>6, <3>2, <4>1 DEF Content, Unfinished
      <3> QED
        BY <3>1, <3>2
    <2>8. ASSUME NEW t \in requests' PROVE Pending(t)'
      <3>1. /\ t \in requests /\ t # q /\ Pending(t) /\ t \in Request /\ q \in Request
            /\ row[t.run].state = "switching" /\ t.alias = row[t.run].alias
            /\ t.index = row[t.run].index
        BY <2>4 DEF Agreement, TypeOK, Reservation, SendsFit
      <3>2. CASE t.run = q.run
        <4>1. drifted[q.alias] # 0
          BY <2>2, <2>3, <3>1, <3>2 DEF Pending, Request
        <4> QED
          BY <2>2, <2>4, <3>1, <3>2, <4>1 DEF Pending
      <3>3. CASE t.run # q.run
        <4>1. t.alias # q.alias /\ t.alias \in Alias
          BY <2>6, <3>1, <3>3 DEF Unfinished, Request
        <4> QED
          BY <2>4, <3>1, <4>1 DEF Pending
      <3> QED
        BY <3>2, <3>3
    <2>9. ASSUME NEW p \in Publisher PROVE Knows(p)'
      <3> SUFFICES ASSUME pub[p].step \in Holding, drifted[row[pub[p].run].alias] = 0
                   PROVE  Knows(p)'
        BY <2>4 DEF Knows
      <3>1. /\ pub[p].run \in Run /\ Fits(p) /\ Knows(p)
            /\ row[pub[p].run].alias \in Alias
        BY RunOf DEF Holding, NoRow, Reservation, Agreement, TypeOK, Row
      <3>2. CASE pub[p].run = q.run
        <4>1. pub[p].step = "waiting"
          BY <2>2, <3>1, <3>2 DEF Fits, Holding
        <4> QED
          BY <2>2, <2>4, <2>5, <3>2, <4>1 DEF Knows
      <3>3. CASE pub[p].run # q.run
        <4>1. row[pub[p].run].alias # q.alias
          BY <2>6, <3>1, <3>3 DEF Fits, Unfinished
        <4>2. \A t \in requests : t.run = pub[p].run => t \in requests'
          BY <2>4, <3>3
        <4> QED
          BY <2>4, <3>1, <4>1, <4>2 DEF Knows
      <3> QED
        BY <3>2, <3>3
    <2>10. ASSUME NEW a \in Alias PROVE Served(a)'
      <3>1. Served(a)
        BY DEF Agreement
      <3> QED
        BY <2>1, <2>2, <2>4, <3>1 DEF Served, Moving
    <2> QED
      BY <2>7, <2>8, <2>9, <2>10 DEF Agreement
  <1>17. ASSUME NEW q \in requests, RefuseSwitch(q)
         PROVE  Agreement'
    <2>1. /\ requests' = requests \ {q} /\ UNCHANGED <<row, target, inventory, sends, drifted>>
          /\ \A p \in Publisher :
                IF pub[p].step = "waiting" /\ pub[p].run = q.run
                THEN pub'[p].step = "idle" ELSE pub'[p] = pub[p]
      BY <1>17 DEF RefuseSwitch, TypeOK, Process
    <2>2. ASSUME NEW p \in Publisher PROVE Knows(p)'
      BY <2>1 DEF Agreement, Knows, Holding
    <2> QED
      BY <2>1, <2>2 DEF Agreement, Content, Pending, Served, Stored, Moving
  <1>18. CASE OutsideStep
    BY <1>18, OutsideAgrees
  <1>19. ASSUME NEW p \in Publisher,
                \/ CreateConflict(p) \/ Abandon(p)
                \/ Claim(p) \/ Acknowledge(p) \/ Complete(p)
                \/ Compare(p) \/ Resolve(p) \/ Verify(p) \/ Answer(p)
         PROVE  Agreement'
    BY <1>6, <1>7, <1>9, <1>10, <1>11, <1>13, <1>14, <1>15, <1>19
    DEF CreateConflict, Abandon, Claim, Acknowledge, Complete, Compare, Resolve, Verify, Answer
  <1> QED
    BY <1>1, <1>3, <1>4, <1>5, <1>8, <1>12, <1>16, <1>17, <1>18, <1>19
    DEF Next, OutsideStep

\* Every variable of the journal keeps its type in every behaviour.
THEOREM TypeCorrect == Spec => []TypeOK
  BY TypeInit, TypeStep, PTL DEF Spec

LEMMA ReservationHolds == Spec => []Reservation
  BY TypeCorrect, ReservationInit, ReservationStep, PTL DEF Spec

\* A row switches its alias at most once (application/legal_dataset_publication.py:
\* resume claims a row before it sends and never sends from switching).
THEOREM SendsOnce == Spec => []SentOnce
  <1>1. Reservation => SentOnce
    BY DEF Reservation, SendsFit, SentOnce
  <1> QED
    BY <1>1, ReservationHolds, PTL

\* A switch in flight belongs to a row that still occupies its alias: no late
\* request outlives the reservation of its row.
THEOREM LateSwitchReserved == Spec => []LateSwitchIsReserved
  <1>1. Reservation => LateSwitchIsReserved
    BY DEF Reservation, SendsFit, LateSwitchIsReserved
  <1> QED
    BY <1>1, ReservationHolds, PTL

LEMMA CountedHolds == Spec => []Counted
  <1>1. Init => Counted
    BY DEF Init, Counted
  <1> QED
    BY <1>1, TypeCorrect, CountedStep, PTL DEF Spec

LEMMA AgreementHolds == Spec => []Agreement
  BY TypeCorrect, ReservationHolds, CountedHolds, AgreementInit, AgreementStep, PTL DEF Spec

\* While no publication occupies an alias, its readers are served the index the
\* inventory records (repositories/legal_dataset_publication.py: the reservation
\* is released in the transaction that writes the snapshot).
THEOREM ReadersServedTheRecord == Spec => []ServedIsRecorded
  <1>1. TypeOK /\ Agreement => ServedIsRecorded
    <2> SUFFICES ASSUME TypeOK, Agreement, NEW a \in Alias, drifted[a] = 0,
                        \A r \in Run : Unfinished(r) => row[r].alias # a
                 PROVE  Resolves(a, inventory[a])
      BY DEF ServedIsRecorded
    <2>1. Served(a) /\ \A r \in Run : Moving(r) => row[r].alias # a
      BY DEF Agreement, Moving, Unfinished
    <2>2. inventory[a] \in Index \cup {NoIndex}
      BY DEF TypeOK
    <2> QED
      BY <2>1, <2>2, RecFacts DEF Served
  <1> QED
    BY <1>1, TypeCorrect, AgreementHolds, PTL

\* What completes a row: the acknowledged row of the process that completes it.
LEMMA CompletingStep ==
    ASSUME TypeOK, Next, NEW r \in Run,
           row[r].state # "completed", row'[r].state = "completed"
    PROVE  /\ row[r].state = "acknowledged"
           /\ row' = [row EXCEPT ![r].state = "completed"]
           /\ inventory' = [inventory EXCEPT ![row[r].alias] = row[r].index]
           /\ UNCHANGED drifted
  <1>1. ASSUME NEW p \in Publisher, NEW t \in Run, Create(p, t) PROVE FALSE
    BY <1>1 DEF Create, TypeOK
  <1>2. ASSUME NEW p \in Publisher, Claim(p) \/ Acknowledge(p) PROVE FALSE
    <2>1. pub[p].run \in Run
      BY <1>2, RunOf DEF Claim, Acknowledge, NoRow
    <2> QED
      BY <1>2, <2>1 DEF Claim, Acknowledge, TypeOK, Row
  <1>3. ASSUME NEW p \in Publisher, Complete(p)
        PROVE  /\ pub[p].run = r /\ row[r].state = "acknowledged"
               /\ row' = [row EXCEPT ![r].state = "completed"]
               /\ inventory' = [inventory EXCEPT ![row[r].alias] = row[r].index]
               /\ UNCHANGED drifted
    <2>1. pub[p].run \in Run
      BY <1>3, RunOf DEF Complete, NoRow
    <2>2. pub[p].run = r
      BY <1>3, <2>1 DEF Complete, TypeOK, Row
    <2> QED
      BY <1>3, <2>2 DEF Complete
  <1> QED
    BY <1>1, <1>2, <1>3 DEF Next, ReadPrevious, Resume, CreateConflict, Load, Compare,
       Resolve, Send, Answer, Verify, Abandon, SwitchAlias, RefuseSwitch,
       DirectRead, DirectSwitch, DirectRecord, DirectEnds

\* A publication replaces exactly the snapshot it was created against
\* (application/legal_dataset_publication.py compares the alias with the
\* previous target of the row before and after the switch).
THEOREM ReplacesExactly == Spec => ReplacesItsBase
  <1>1. ASSUME TypeOK, Agreement, [Next]_vars
        PROVE  [\A r \in Run :
                  (row[r].state # "completed" /\ row'[r].state = "completed"
                     /\ drifted[row[r].alias] = 0)
                      => inventory[row[r].alias] = row[r].previous]_vars
    <2> SUFFICES ASSUME Next, NEW r \in Run, drifted[row[r].alias] = 0,
                        row[r].state # "completed", row'[r].state = "completed"
                 PROVE  inventory[row[r].alias] = row[r].previous
      BY <1>1
    <2> QED
      BY <1>1, CompletingStep DEF Agreement, Content, Stored
  <1> QED
    BY <1>1, TypeCorrect, AgreementHolds, PTL DEF Spec, ReplacesItsBase

-----------------------------------------------------------------------------
(***************************************************************************)
(* The inventory implements the forward-only register.                     *)
(***************************************************************************)
Done == {row[r].index : r \in {s \in Run : row[s].state = "completed"}}

Left == {a \in Alias : drifted[a] > 0}

\* A publication outside the journal leaves the alias, or overwrites it.
LEMMA OutsideRegisters ==
    ASSUME TypeOK, Counted, OutsideStep
    PROVE  Register!Next \/ UNCHANGED <<inventory, Done, Left>>
  <1>0. UNCHANGED Done
    BY OutsideEffect DEF Done
  <1>1. ASSUME NEW a \in Alias, NEW i \in Index, NEW seen \in Index \cup {NoIndex},
               DirectRead(a, i, seen)
        PROVE  Register!Next
    <2>1. drifted'[a] > 0 /\ \A b \in Alias \ {a} : drifted'[b] = drifted[b]
      BY <1>1 DEF DirectRead, TypeOK
    <2>2. Left' = Left \cup {a}
      BY <2>1 DEF Left
    <2> QED
      BY <1>0, <1>1, <2>2 DEF DirectRead, Register!Next, Register!Leave, Done, Left
  <1>2. ASSUME NEW d \in direct, DirectRecord(d)
        PROVE  Register!Next
    <2>1. d.alias \in Alias /\ d.index \in Index
      BY DEF TypeOK, Direct
    <2>2. d.alias \in Left
      BY <2>1 DEF Counted, Left
    <2>3. UNCHANGED Left
      BY <1>2 DEF DirectRecord, Left
    <2>4. \E a \in Alias, i \in Index :
             /\ a \in Left
             /\ inventory' = [inventory EXCEPT ![a] = i]
             /\ UNCHANGED <<Done, Left>>
      <3> HIDE DEF Done, Left
      <3> QED
        BY <1>0, <1>2, <2>1, <2>2, <2>3 DEF DirectRecord
    <2> QED
      BY <2>4 DEF Register!Next, Register!Overwrite, Done, Left
  <1>3. ASSUME NEW d \in direct, DirectSwitch(d) \/ DirectEnds(d)
        PROVE  UNCHANGED <<inventory, Done, Left>>
    BY <1>0, <1>3 DEF DirectSwitch, DirectEnds, Left
  <1> QED
    BY <1>1, <1>2, <1>3 DEF OutsideStep

LEMMA RegisterStep ==
    ASSUME TypeOK, KeysHold, Counted, [Next]_vars
    PROVE  [Register!Next]_<<inventory, Done, Left>>
  <1> SUFFICES ASSUME Next
               PROVE  Register!Next \/ UNCHANGED <<inventory, Done, Left>>
    BY DEF vars, Done, Left
  <1>1. CASE \E r \in Run : row[r].state # "completed" /\ row'[r].state = "completed"
    <2>1. PICK r \in Run : row[r].state # "completed" /\ row'[r].state = "completed"
      BY <1>1
    <2>2. /\ row[r].state = "acknowledged"
          /\ row' = [row EXCEPT ![r].state = "completed"]
          /\ inventory' = [inventory EXCEPT ![row[r].alias] = row[r].index]
          /\ UNCHANGED drifted
      BY <2>1, CompletingStep
    <2>3. row[r].index \notin Done
      BY <2>2 DEF Done, KeysHold, Stored
    <2>4. Done' = Done \cup {row[r].index}
      <3>1. /\ row'[r].state = "completed"
            /\ \A t \in Run : row'[t].index = row[t].index
            /\ \A t \in Run \ {r} : row'[t] = row[t]
        BY <2>2, MoveEffect
      <3> QED
        BY <2>2, <3>1 DEF Done
    <2>5. row[r].alias \in Alias /\ row[r].index \in Index
      BY DEF TypeOK, Row
    <2>6. \E a \in Alias, i \in Index :
             /\ i \notin Done
             /\ inventory' = [inventory EXCEPT ![a] = i]
             /\ Done' = Done \cup {i}
             /\ UNCHANGED Left
      <3>1. UNCHANGED Left
        BY <2>2 DEF Left
      <3> HIDE DEF Done, Left
      <3> QED
        BY <2>2, <2>3, <2>4, <2>5, <3>1
    <2>7. Register!Next
      BY <2>6 DEF Register!Next, Register!Publish, Done, Left
    <2> QED
      BY <2>7
  <1>2. CASE ~ \E r \in Run : row[r].state # "completed" /\ row'[r].state = "completed"
    <2>1. ASSUME NEW p \in Publisher, NEW r \in Run, Create(p, r)
          PROVE  UNCHANGED <<inventory, Done, Left>>
      <3>1. /\ row[r].state = "none" /\ row'[r].state = "ready" /\ UNCHANGED inventory
            /\ \A t \in Run \ {r} : row'[t] = row[t]
        BY <2>1 DEF Create, Stored, TypeOK
      <3> QED
        BY <2>1, <3>1 DEF Create, Done, Left
    <2>2. ASSUME NEW p \in Publisher, Claim(p) \/ Acknowledge(p)
          PROVE  UNCHANGED <<inventory, Done, Left>>
      <3>1. CASE UNCHANGED row
        BY <2>2, <3>1 DEF Claim, Acknowledge, Done, Left
      <3>2. CASE ~ UNCHANGED row
        <4>1. PICK r \in Run : r = pub[p].run
          BY <2>2, RunOf DEF Claim, Acknowledge, NoRow
        <4>2. PICK s \in {"switching", "acknowledged"} :
                 row[r].state # "completed" /\ row' = [row EXCEPT ![r].state = s]
          BY <2>2, <3>2, <4>1 DEF Claim, Acknowledge
        <4>3. /\ row'[r].state # "completed"
              /\ \A t \in Run \ {r} : row'[t] = row[t]
          BY <4>2, MoveEffect
        <4> QED
          BY <2>2, <4>2, <4>3 DEF Claim, Acknowledge, Done, Left
      <3> QED
        BY <3>1, <3>2
    <2>3. ASSUME NEW p \in Publisher, Complete(p)
          PROVE  UNCHANGED <<inventory, Done, Left>>
      <3>1. PICK r \in Run : r = pub[p].run
        BY <2>3, RunOf DEF Complete, NoRow
      <3>2. row[r].state # "acknowledged"
        BY <1>2, <2>3, <3>1, MoveEffect DEF Complete
      <3> QED
        BY <2>3, <3>1, <3>2 DEF Complete, Done, Left
    <2>4. CASE OutsideStep
      BY <2>4, OutsideRegisters
    <2>5. ASSUME NEW p \in Publisher,
                 \/ \E a \in Alias, i \in Index : ReadPrevious(p, a, i)
                 \/ \E r \in Run : Resume(p, r)
                 \/ CreateConflict(p) \/ Load(p) \/ Compare(p) \/ Resolve(p) \/ Send(p)
                 \/ Answer(p) \/ Verify(p) \/ Abandon(p)
          PROVE  UNCHANGED <<inventory, Done, Left>>
      BY <2>5 DEF ReadPrevious, Resume, CreateConflict, Load, Compare, Resolve, Send, Answer,
         Verify, Abandon, Done, Left
    <2>6. ASSUME NEW q \in requests, SwitchAlias(q) \/ RefuseSwitch(q)
          PROVE  UNCHANGED <<inventory, Done, Left>>
      BY <2>6 DEF SwitchAlias, RefuseSwitch, Done, Left
    <2> QED
      BY <2>1, <2>2, <2>3, <2>4, <2>5, <2>6 DEF Next, OutsideStep
  <1> QED
    BY <1>1, <1>2

\* The journal writes the snapshot of a row once, in the transaction that ends
\* the row (repositories/legal_dataset_publication.py: complete), and a dataset
\* nobody publishes with publish_set or publish_version is written by the journal
\* only: retrying or resuming a historical row never overwrites a newer snapshot.
THEOREM ForwardOnly == Spec => NeverBackwards
  <1>1. Init => Register!Init
    BY DEF Init, Register!Init
  <1>2. TypeOK /\ Reservation /\ Counted /\ [Next]_vars
          => [Register!Next]_<<inventory, Done, Left>>
    BY RegisterStep DEF Reservation
  <1> QED
    BY <1>1, <1>2, TypeCorrect, ReservationHolds, CountedHolds, PTL
    DEF Spec, NeverBackwards, Register!Spec, Done, Left
=============================================================================

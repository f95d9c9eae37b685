---------------------- MODULE LegalDatasetPublication ----------------------
(***************************************************************************)
(* The publication of a legal dataset: a journal row in MySQL, the alias   *)
(* of OpenSearch that the retrieval reads, and the dataset snapshot of the *)
(* corpus inventory, changed by command line processes that may stop at    *)
(* any await.  A process builds a fresh index, reads the alias, writes the *)
(* row and then drives it through ready, switching, acknowledged and       *)
(* completed; a later process may resume a row by its identifier.          *)
(* The older services publish_set and publish_version switch the same      *)
(* alias and write the same inventory without a row.                       *)
(*                                                                         *)
(* Each action is what one process does between two awaits; a statement of *)
(* the journal commits on its own.  A switch of the alias is a request that*)
(* stays in flight after its sender has given up, and may be carried out   *)
(* much later.                                                             *)
(***************************************************************************)
EXTENDS Naturals, FiniteSets

CONSTANTS Publisher,   \* command line processes
          Run,         \* identifiers of journal rows
          Alias,       \* dataset aliases
          Index,       \* names of physical indexes
          NoIndex,     \* an alias without a target, a dataset without a snapshot
          NoRun,       \* a process that works on no row
          MaxDirect    \* bound: publications of an alias outside the journal

ASSUME ConstantsAssumption ==
    /\ NoIndex \notin Index
    /\ NoRun \notin Run
    /\ MaxDirect \in Nat

VARIABLES
    row,        \* the table legal_dataset_publications
    target,     \* target[a]: the indexes the alias a points at
    inventory,  \* inventory[a]: the index of the published snapshot
    requests,   \* switches of an alias sent and not carried out yet
    pub,        \* what each process is about to do
    sends,      \* history: how many switches a row has caused
    drifted,    \* history: publications of an alias begun outside the journal
    direct      \* those of them that have not ended

vars == <<row, target, inventory, requests, pub, sends, drifted, direct>>

State == {"none", "ready", "switching", "acknowledged", "completed"}

Row == [state : State, alias : Alias, index : Index,
        previous : Index \cup {NoIndex}]

\* The steps of a process:
\*   idle        nothing to do
\*   create      has read the previous target of its candidate
\*   load        has the identifier of a row
\*   claim       has read the row as ready
\*   compare     holds the row as switching, compares the alias
\*   resolve     resolves the alias inside point_alias
\*   send        is about to post the switch
\*   waiting     waits for the answer of the index
\*   acknowledge has the answer, and it names the expected target
\*   verify      compares the alias with its own index
\*   complete    is about to write the snapshot
Step == {"idle", "create", "load", "claim", "compare", "resolve", "send",
         "waiting", "acknowledge", "verify", "complete"}

Holding == {"compare", "resolve", "send", "waiting", "acknowledge"}

NoRow == {"idle", "create"}

Process == [step : NoRow, run : {NoRun}, alias : Alias, index : Index,
            seen : Index \cup {NoIndex}]
           \cup
           [step : Step \ NoRow, run : Run, alias : Alias, index : Index,
            seen : Index \cup {NoIndex}]

Request == [run : Run, alias : Alias, index : Index,
            remove : Index \cup {NoIndex}]

\* A publication outside the journal: it has read the target of the alias and
\* sends the switch, or the alias is switched and it writes the snapshot.
Direct == [alias : Alias, index : Index, seen : Index \cup {NoIndex},
           step : {"switch", "record"}]

TypeOK ==
    /\ row \in [Run -> Row]
    /\ target \in [Alias -> SUBSET Index]
    /\ inventory \in [Alias -> Index \cup {NoIndex}]
    /\ requests \subseteq Request
    /\ pub \in [Publisher -> Process]
    /\ sends \in [Run -> Nat]
    /\ drifted \in [Alias -> Nat]
    /\ direct \subseteq Direct

Init ==
    \E a \in Alias, i \in Index :
        /\ row = [r \in Run |-> [state |-> "none", alias |-> a, index |-> i,
                                 previous |-> NoIndex]]
        /\ target = [b \in Alias |-> {}]
        /\ inventory = [b \in Alias |-> NoIndex]
        /\ requests = {}
        /\ pub = [p \in Publisher |-> [step |-> "idle", run |-> NoRun,
                                       alias |-> a, index |-> i, seen |-> NoIndex]]
        /\ sends = [r \in Run |-> 0]
        /\ drifted = [b \in Alias |-> 0]
        /\ direct = {}

Stored(r) == row[r].state # "none"

\* A row that still occupies its alias (active_alias is not null).
Unfinished(r) == row[r].state \in {"ready", "switching", "acknowledged"}

\* resolve_alias: the single target, none, or an error when there are several.
Resolves(a, i) == target[a] = (IF i = NoIndex THEN {} ELSE {i})

Goto(p, s) == pub' = [pub EXCEPT ![p].step = s]

Stop(p) == pub' = [pub EXCEPT ![p].step = "idle", ![p].run = NoRun,
                              ![p].seen = NoIndex]

-----------------------------------------------------------------------------
(***************************************************************************)
(* A process publishes a candidate or resumes a row.                       *)
(***************************************************************************)

\* The candidate is built; the alias is read before the row exists.
ReadPrevious(p, a, i) ==
    /\ pub[p].step = "idle"
    /\ \E seen \in Index \cup {NoIndex} :
        /\ Resolves(a, seen)
        /\ pub' = [pub EXCEPT ![p] = [step |-> "create", run |-> NoRun, alias |-> a,
                                      index |-> i, seen |-> seen]]
    /\ UNCHANGED <<row, target, inventory, requests, sends, drifted, direct>>

\* Mutants: the alias is not part of the key; an acknowledged row gives it back.
KeysWithoutAlias(a, i) == \A r \in Run : Stored(r) => row[r].index # i

KeysUntilAcknowledged(a, i) ==
    \A r \in Run : Stored(r) => /\ row[r].index # i
                                /\ row[r].state \in {"ready", "switching"}
                                      => row[r].alias # a

\* The unique keys of the table: one unfinished row per alias, one row per index.
KeysFree(a, i) == \A r \in Run : Stored(r) => /\ row[r].index # i
                                              /\ Unfinished(r) => row[r].alias # a

\* create: a row in state ready, or a conflict.
Create(p, r) ==
    /\ pub[p].step = "create"
    /\ pub[p].seen # pub[p].index
    /\ KeysFree(pub[p].alias, pub[p].index)
    /\ ~Stored(r)
    /\ row' = [row EXCEPT ![r] = [state |-> "ready", alias |-> pub[p].alias,
                                  index |-> pub[p].index, previous |-> pub[p].seen]]
    /\ pub' = [pub EXCEPT ![p].step = "load", ![p].run = r]
    /\ UNCHANGED <<target, inventory, requests, sends, drifted, direct>>

CreateConflict(p) ==
    /\ pub[p].step = "create"
    /\ pub[p].seen = pub[p].index \/ ~KeysFree(pub[p].alias, pub[p].index)
    /\ Stop(p)
    /\ UNCHANGED <<row, target, inventory, requests, sends, drifted, direct>>

\* The resume command, given the identifier of a row.
Resume(p, r) ==
    /\ pub[p].step = "idle"
    /\ Stored(r)
    /\ pub' = [pub EXCEPT ![p].step = "load", ![p].run = r]
    /\ UNCHANGED <<row, target, inventory, requests, sends, drifted, direct>>

\* Mutant: resume switches again what it finds in the middle of a switch.
AfterLoadSwitchesAgain(state) ==
    CASE state = "ready"        -> "claim"
      [] state = "switching"    -> "compare"
      [] state = "acknowledged" -> "verify"
      [] OTHER                  -> "idle"

\* What resume does with the state it reads: a completed row is returned, the
\* outcome of a switching one is unknown.
AfterLoad(state) ==
    CASE state = "ready"        -> "claim"
      [] state = "acknowledged" -> "verify"
      [] OTHER                  -> "idle"

Load(p) ==
    /\ pub[p].step = "load"
    /\ LET next == AfterLoad(row[pub[p].run].state)
       IN IF next = "idle" THEN Stop(p) ELSE Goto(p, next)
    /\ UNCHANGED <<row, target, inventory, requests, sends, drifted, direct>>

\* transition READY -> SWITCHING, a compare-and-set of the state column.
Claim(p) ==
    /\ pub[p].step = "claim"
    /\ IF row[pub[p].run].state = "ready"
       THEN /\ row' = [row EXCEPT ![pub[p].run].state = "switching"]
            /\ Goto(p, "compare")
       ELSE /\ Stop(p)
            /\ UNCHANGED row
    /\ UNCHANGED <<target, inventory, requests, sends, drifted, direct>>

Compare(p) ==
    /\ pub[p].step = "compare"
    /\ IF Resolves(row[pub[p].run].alias, row[pub[p].run].previous)
       THEN Goto(p, "resolve")
       ELSE Stop(p)
    /\ UNCHANGED <<row, target, inventory, requests, sends, drifted, direct>>

\* point_alias reads the target once more; when it is the index already, it
\* answers without a request and the answer differs from the row's target.
Resolve(p) ==
    /\ pub[p].step = "resolve"
    /\ \/ \E seen \in (Index \cup {NoIndex}) \ {row[pub[p].run].index} :
            /\ Resolves(row[pub[p].run].alias, seen)
            /\ pub' = [pub EXCEPT ![p].step = "send", ![p].seen = seen]
       \/ /\ \A seen \in (Index \cup {NoIndex}) \ {row[pub[p].run].index} :
                ~Resolves(row[pub[p].run].alias, seen)
          /\ Stop(p)
    /\ UNCHANGED <<row, target, inventory, requests, sends, drifted, direct>>

Send(p) ==
    /\ pub[p].step = "send"
    /\ requests' = requests \cup
          {[run |-> pub[p].run, alias |-> row[pub[p].run].alias,
            index |-> row[pub[p].run].index, remove |-> pub[p].seen]}
    /\ sends' = [sends EXCEPT ![pub[p].run] = @ + 1]
    /\ Goto(p, "waiting")
    /\ UNCHANGED <<row, target, inventory, drifted, direct>>

\* Mutant: a switch that is not acknowledged counts as done.
AnswerNotAwaited(p) ==
    /\ pub[p].step = "waiting"
    /\ IF pub[p].seen = row[pub[p].run].previous
       THEN Goto(p, "acknowledge")
       ELSE Stop(p)
    /\ UNCHANGED <<row, target, inventory, requests, sends, drifted, direct>>

\* The answer arrives: previous is the target point_alias had read itself.
Answer(p) ==
    /\ pub[p].step = "waiting"
    /\ \A q \in requests : q.run # pub[p].run
    /\ IF pub[p].seen = row[pub[p].run].previous
       THEN Goto(p, "acknowledge")
       ELSE Stop(p)
    /\ UNCHANGED <<row, target, inventory, requests, sends, drifted, direct>>

\* transition SWITCHING -> ACKNOWLEDGED.
Acknowledge(p) ==
    /\ pub[p].step = "acknowledge"
    /\ IF row[pub[p].run].state = "switching"
       THEN /\ row' = [row EXCEPT ![pub[p].run].state = "acknowledged"]
            /\ Goto(p, "verify")
       ELSE /\ Stop(p)
            /\ UNCHANGED row
    /\ UNCHANGED <<target, inventory, requests, sends, drifted, direct>>

Verify(p) ==
    /\ pub[p].step = "verify"
    /\ IF Resolves(row[pub[p].run].alias, row[pub[p].run].index)
       THEN Goto(p, "complete")
       ELSE Stop(p)
    /\ UNCHANGED <<row, target, inventory, requests, sends, drifted, direct>>

\* Mutant: a historical retry writes its snapshot again.
CompleteAgain(p) ==
    /\ pub[p].step = "complete"
    /\ row' = [row EXCEPT ![pub[p].run].state = "completed"]
    /\ inventory' = [inventory EXCEPT ![row[pub[p].run].alias] =
                         row[pub[p].run].index]
    /\ Stop(p)
    /\ UNCHANGED <<target, requests, sends, drifted, direct>>

\* complete: the row locked, the snapshot and the state written together; a
\* row that another process has completed meanwhile is returned as it is.
Complete(p) ==
    /\ pub[p].step = "complete"
    /\ IF row[pub[p].run].state = "acknowledged"
       THEN /\ row' = [row EXCEPT ![pub[p].run].state = "completed"]
            /\ inventory' = [inventory EXCEPT ![row[pub[p].run].alias] =
                                 row[pub[p].run].index]
       ELSE UNCHANGED <<row, inventory>>
    /\ Stop(p)
    /\ UNCHANGED <<target, requests, sends, drifted, direct>>

\* The process dies, is cancelled, or one of its calls fails or times out.  A
\* request it has sent stays in flight.
Abandon(p) ==
    /\ pub[p].step # "idle"
    /\ Stop(p)
    /\ UNCHANGED <<row, target, inventory, requests, sends, drifted, direct>>

-----------------------------------------------------------------------------
(***************************************************************************)
(* The index (external).                                                   *)
(***************************************************************************)

\* One POST /_aliases: the removal and the addition take effect together.  The
\* removal of a target the alias no longer has is ignored or refused.
SwitchAlias(q) ==
    /\ target' = [target EXCEPT ![q.alias] = (@ \ {q.remove}) \cup {q.index}]
    /\ requests' = requests \ {q}
    /\ UNCHANGED <<row, inventory, pub, sends, drifted, direct>>

\* The request is lost or refused: its sender is not answered with a success.
RefuseSwitch(q) ==
    /\ requests' = requests \ {q}
    /\ pub' = [p \in Publisher |->
                 IF pub[p].step = "waiting" /\ pub[p].run = q.run
                 THEN [pub[p] EXCEPT !.step = "idle", !.run = NoRun, !.seen = NoIndex]
                 ELSE pub[p]]
    /\ UNCHANGED <<row, target, inventory, sends, drifted, direct>>

-----------------------------------------------------------------------------
(***************************************************************************)
(* publish_set and publish_version, or an operator of the index.           *)
(***************************************************************************)

\* publish_dataset reads the target of the alias, or fails when there are
\* several; an alias that points at the index already is not switched.
DirectRead(a, i, seen) ==
    /\ drifted[a] < MaxDirect
    /\ Resolves(a, seen)
    /\ drifted' = [drifted EXCEPT ![a] = @ + 1]
    /\ direct' = direct \cup {[alias |-> a, index |-> i, seen |-> seen,
                                step |-> IF seen = i THEN "record" ELSE "switch"]}
    /\ UNCHANGED <<row, target, inventory, requests, pub, sends>>

DirectSwitch(d) ==
    /\ d.step = "switch"
    /\ target' = [target EXCEPT ![d.alias] = (@ \ {d.seen}) \cup {d.index}]
    /\ direct' = (direct \ {d}) \cup {[d EXCEPT !.step = "record"]}
    /\ UNCHANGED <<row, inventory, requests, pub, sends, drifted>>

\* The snapshot is written after the switch, in a transaction of its own.
DirectRecord(d) ==
    /\ d.step = "record"
    /\ inventory' = [inventory EXCEPT ![d.alias] = d.index]
    /\ direct' = direct \ {d}
    /\ UNCHANGED <<row, target, requests, pub, sends, drifted>>

\* The service has no snapshot port, a call of it fails, or its process dies.
DirectEnds(d) ==
    /\ direct' = direct \ {d}
    /\ UNCHANGED <<row, target, inventory, requests, pub, sends, drifted>>

Next ==
    \/ \E p \in Publisher :
        \/ \E a \in Alias, i \in Index : ReadPrevious(p, a, i)
        \/ \E r \in Run : Create(p, r) \/ Resume(p, r)
        \/ CreateConflict(p) \/ Load(p) \/ Claim(p) \/ Compare(p)
        \/ Resolve(p) \/ Send(p) \/ Answer(p) \/ Acknowledge(p)
        \/ Verify(p) \/ Complete(p) \/ Abandon(p)
    \/ \E q \in requests : SwitchAlias(q) \/ RefuseSwitch(q)
    \/ \E a \in Alias, i \in Index, seen \in Index \cup {NoIndex} : DirectRead(a, i, seen)
    \/ \E d \in direct : DirectSwitch(d) \/ DirectRecord(d) \/ DirectEnds(d)

Spec == Init /\ [][Next]_vars

-----------------------------------------------------------------------------
(***************************************************************************)
(* Properties.                                                             *)
(***************************************************************************)

\* A row switches its alias at most once, however many processes resume it and
\* wherever they stop (application/legal_dataset_publication.py: resume never
\* sends again from switching).
SentOnce == \A r \in Run : sends[r] <= 1

\* A switch still in flight belongs to a row that occupies its alias: once the
\* alias is free for another publication, no late request can move it.
LateSwitchIsReserved == \A q \in requests : row[q.run].state = "switching"

\* While no row occupies an alias, the readers of the alias are served the
\* index that the inventory records (the alias never published outside).
ServedIsRecorded ==
    \A a \in Alias :
        (drifted[a] = 0 /\ \A r \in Run : Unfinished(r) => row[r].alias # a)
            => Resolves(a, inventory[a])

\* A completed publication replaces the snapshot it was created against: two
\* publications never overwrite each other without having seen each other.
ReplacesItsBase ==
    [][\A r \in Run :
         (row[r].state # "completed" /\ row'[r].state = "completed"
            /\ drifted[row[r].alias] = 0)
             => inventory[row[r].alias] = row[r].previous]_vars

\* The inventory implements the register: a row writes its snapshot once, also
\* over what a publication outside the journal has recorded meanwhile, and only
\* such a publication writes without a row, to its own alias.
Register == INSTANCE DatasetRegister WITH
    current   <- inventory,
    published <- {row[r].index : r \in {s \in Run : row[s].state = "completed"}},
    outside   <- {a \in Alias : drifted[a] > 0}

NeverBackwards == Register!Spec

=============================================================================

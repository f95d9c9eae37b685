-------------------------- MODULE DatasetRegister --------------------------
(***************************************************************************)
(* What the publication journal promises to the readers of the corpus: it  *)
(* moves the recorded snapshot of a dataset only forward.  A physical      *)
(* index is published at most once, so a snapshot that was replaced never  *)
(* comes back, whatever is retried or resumed.  The journal does not keep  *)
(* others from writing: a dataset that is also published outside of it can *)
(* be overwritten by whoever does so, and no other dataset can.            *)
(***************************************************************************)
CONSTANTS Alias,   \* dataset aliases, such as dataset_v1
          Index,   \* names of physical indexes
          NoIndex  \* no snapshot was recorded yet

VARIABLES current,   \* current[a]: the index of the recorded snapshot of a
          published, \* the indexes the journal has published
          outside    \* the datasets that are published outside the journal too

Init == /\ current = [a \in Alias |-> NoIndex]
        /\ published = {}
        /\ outside = {}

Publish(a, i) ==
    /\ i \notin published
    /\ current' = [current EXCEPT ![a] = i]
    /\ published' = published \cup {i}
    /\ UNCHANGED outside

Leave(a) ==
    /\ outside' = outside \cup {a}
    /\ UNCHANGED <<current, published>>

Overwrite(a, i) ==
    /\ a \in outside
    /\ current' = [current EXCEPT ![a] = i]
    /\ UNCHANGED <<published, outside>>

Next == \E a \in Alias :
           \/ Leave(a)
           \/ \E i \in Index : Publish(a, i) \/ Overwrite(a, i)

Spec == Init /\ [][Next]_<<current, published, outside>>
=============================================================================

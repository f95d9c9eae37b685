------------------------------ MODULE MCTenants ------------------------------
(* Small instances of TenantMembers and PermissionRollout for TLC.  The two   *)
(* share no variable, so one rests while the other one moves.                 *)
EXTENDS TenantMembers, PermissionRollout, TLC

\* Requests of a kind, dispatchers and founders are interchangeable.
MCSymmetry == Permutations(Change) \cup Permutations(Acceptance)
              \cup Permutations(Dispatcher) \cup Permutations(Founder)

HasRole(m, role) == member[m].role = role

\* Bound: a tenant of owners that others join, or one with an owner, a lawyer
\* who can become one, and an administrator.
MCInit ==
    /\ Init
    /\ RolloutInit
    /\ \A u \in Member \ Founder :
          \/ ~HasRole(u, "admin") /\ ~HasRole(u, "lawyer")
                /\ \A f \in Founder : HasRole(f, "owner")
          \/ HasRole(u, "admin") /\ \E f \in Founder : HasRole(f, "lawyer")

NotBegun == (\A u \in Member \ Founder : HasRole(u, "admin")) /\ Init

MCNext ==
    \/ RolloutInit /\ UNCHANGED rolloutVars /\ Next
    \/ NotBegun /\ UNCHANGED vars /\ RolloutNext

MCSpec == MCInit /\ [][MCNext]_<<vars, rolloutVars>>

Under(step) == step \notin {"idle", "ended"}

\* Bound: two requests at a time.
MCTwoAtATime ==
    Cardinality({k \in Change : Under(change[k].step)}
                \cup {i \in Invitation : Under(invite[i].step)}
                \cup {a \in Acceptance : Under(accept[a].step)}) <= 2

\* Bound: the dispatchers, which share no state with the gate, start in a
\* tenant without invitations, while no change is on its way to its commit.
MCOutboxLast ==
    (\E d \in Dispatcher : dispatch[d] # {}) =>
        /\ \A i \in Invitation : invite[i].step = "ended" /\ invitation[i].status = "absent"
        /\ \A k \in Change : change[k].step \in {"invalidate", "mark", "ended"}
==============================================================================

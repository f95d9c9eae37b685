------------------------- MODULE PermissionRollout -------------------------
(***************************************************************************)
(* The rollout of a set of permissions (ai_job_runtime_v1) to the built-in *)
(* roles of every tenant, and back: a global row with a phase and a        *)
(* generation, the role templates new tenants are cloned from, one state   *)
(* row per tenant, and the permissions its roles really have.              *)
(*                                                                         *)
(* An operator begins a transition, converges the tenants in batches and   *)
(* finalizes.  A batch claims tenants in one transaction and then changes  *)
(* each in a transaction of its own, so it can be overtaken between them.  *)
(* Its generation is the caller's and its direction that of the method     *)
(* called: neither is compared with the global row, so a batch may run     *)
(* after the end of its transition, before its beginning or against it.    *)
(* Claim owner, token, fence and expiry are written and never read; they   *)
(* are left out.  A role has all the permissions of the set or none.       *)
(***************************************************************************)
EXTENDS Naturals, FiniteSets

CONSTANTS Tenant,         \* tenants
          Batch,          \* calls of activate_batch and deactivate_batch
          MaxGeneration   \* bound: transitions begun, generations named

ASSUME GenerationAssumption == MaxGeneration \in Nat

VARIABLES
    phase,       \* phase of the global row
    generation,  \* rollout_generation of the global row
    templates,   \* whether the role templates carry the permissions
    tenants,     \* the tenants that exist
    creating,    \* tenants whose creation has read its snapshot, and what of it
    granted,     \* tenants whose built-in roles have the permissions
    state,       \* the table permission_feature_tenant_states
    batch        \* the batches

rolloutVars == <<phase, generation, templates, tenants, creating, granted, state, batch>>

Phase == {"catalog_only", "activating", "activated", "deactivating"}

\* The transition of a generation: they alternate, and the first activates.
Activates(g) == g % 2 = 1

State == [known : BOOLEAN, applied : Nat, target : Nat, feature : BOOLEAN]

NoState == [known |-> FALSE, applied |-> 0, target |-> 0, feature |-> FALSE]
NoBatch == [generation |-> 0, feature |-> FALSE, claimed |-> {}]

RolloutTypeOK ==
    /\ phase \in Phase
    /\ generation \in Nat
    /\ templates \in BOOLEAN
    /\ tenants \subseteq Tenant
    /\ creating \in [Tenant -> {"no", "base", "feature"}]
    /\ granted \subseteq tenants
    /\ state \in [Tenant -> State]
    /\ \A t \in Tenant : state[t].known => t \in tenants
    /\ \A t \in Tenant : state[t].applied <= state[t].target
    /\ batch \in [Batch -> [generation : Nat, feature : BOOLEAN, claimed : SUBSET Tenant]]

RolloutInit ==
    /\ phase = "catalog_only"
    /\ generation = 0
    /\ templates = FALSE
    /\ tenants = {}
    /\ creating = [t \in Tenant |-> "no"]
    /\ granted = {}
    /\ state = [t \in Tenant |-> NoState]
    /\ batch = [b \in Batch |-> NoBatch]

----------------------------------------------------------------------------
\* The creation of a tenant clones the templates of its snapshot

\* What the creation demands of the templates, or it fails.
TemplatesExpected == templates = (phase # "catalog_only")

Clone(t) ==
    /\ t \notin tenants
    /\ creating[t] = "no"
    /\ TemplatesExpected
    /\ creating' = [creating EXCEPT ![t] = IF phase \in {"activating", "activated"}
                                           THEN "feature" ELSE "base"]
    /\ UNCHANGED <<phase, generation, templates, tenants, granted, state, batch>>

CommitCreation(t) ==
    /\ creating[t] # "no"
    /\ creating' = [creating EXCEPT ![t] = "no"]
    /\ tenants' = tenants \cup {t}
    /\ granted' = IF creating[t] = "feature" THEN granted \cup {t} ELSE granted
    /\ UNCHANGED <<phase, generation, templates, state, batch>>

\* A state row of the base manifest for every tenant without one.
Reconcile ==
    /\ \E t \in tenants : ~state[t].known
    /\ state' = [t \in Tenant |-> IF t \in tenants /\ ~state[t].known
                                  THEN [NoState EXCEPT !.known = TRUE] ELSE state[t]]
    /\ UNCHANGED <<phase, generation, templates, tenants, creating, granted, batch>>

----------------------------------------------------------------------------
\* The global row: begin and finalize, each under its exclusive lock

\* Fault: an operator who recovers after a crash begins again.
BeginActivationAgain ==
    /\ phase \in {"catalog_only", "activating"}
    /\ generation < MaxGeneration
    /\ phase' = "activating"
    /\ generation' = generation + 1
    /\ templates' = TRUE
    /\ UNCHANGED <<tenants, creating, granted, state, batch>>

BeginActivation ==
    /\ phase = "catalog_only"
    /\ generation < MaxGeneration
    /\ phase' = "activating"
    /\ generation' = generation + 1
    /\ templates' = TRUE
    /\ UNCHANGED <<tenants, creating, granted, state, batch>>

BeginDeactivation ==
    /\ phase = "activated"
    /\ generation < MaxGeneration
    /\ phase' = "deactivating"
    /\ generation' = generation + 1
    /\ UNCHANGED <<templates, tenants, creating, granted, state, batch>>

\* The caller names the generation it began.
FinalizeActivation(g) ==
    /\ g = generation
    /\ phase = "activating"
    /\ phase' = "activated"
    /\ UNCHANGED <<generation, templates, tenants, creating, granted, state, batch>>

FinalizeDeactivation(g) ==
    /\ g = generation
    /\ phase = "deactivating"
    /\ phase' = "catalog_only"
    /\ templates' = FALSE
    /\ UNCHANGED <<generation, tenants, creating, granted, state, batch>>

----------------------------------------------------------------------------
\* The batches, each of the generation and the direction of its call

Behind(g) == {t \in Tenant : state[t].known /\ state[t].applied < g}

\* claim_activation_batch, claim_deactivation_batch: rows locked by another
\* batch are skipped, so any of the rows may be claimed, up to the limit.
ClaimBatch(b, g) ==
    /\ batch[b].claimed = {}
    /\ \E feature \in BOOLEAN, claimed \in SUBSET Behind(g) \ {{}} :
          /\ batch' = [batch EXCEPT ![b] = [generation |-> g, feature |-> feature,
                                            claimed |-> claimed]]
          /\ state' = [t \in Tenant |->
                         IF t \in claimed THEN [state[t] EXCEPT !.target = g] ELSE state[t]]
    /\ UNCHANGED <<phase, generation, templates, tenants, creating, granted>>

\* claim_tenant, which claims one tenant and changes nothing else.
ClaimTenant(t, g) ==
    /\ t \in Behind(g)
    /\ state' = [state EXCEPT ![t].target = g]
    /\ UNCHANGED <<phase, generation, templates, tenants, creating, granted, batch>>

\* The batch goes on with the rest of what it claimed, or is over.
Remain(b, rest) ==
    batch' = [batch EXCEPT ![b] = IF rest = {} THEN NoBatch ELSE [@ EXCEPT !.claimed = rest]]

Leaves(b, t) == Remain(b, batch[b].claimed \ {t})

Applied(b, t, feature) ==
    /\ state' = [state EXCEPT ![t].applied = batch[b].generation, ![t].feature = feature]
    /\ Leaves(b, t)

\* The check of the table: no row is applied beyond its target, which a later
\* claim of an older generation lowers.
WithinTarget(b, t) == batch[b].generation <= state[t].target

\* A permission that a role already has violates the primary key.  Where the
\* database refuses, the tenant's transaction is rolled back and the batch
\* goes on.
ApplyActivation(b, t) ==
    /\ t \in batch[b].claimed
    /\ batch[b].feature
    /\ IF t \notin granted /\ WithinTarget(b, t)
       THEN granted' = granted \cup {t} /\ Applied(b, t, TRUE)
       ELSE Leaves(b, t) /\ UNCHANGED <<granted, state>>
    /\ UNCHANGED <<phase, generation, templates, tenants, creating>>

\* Fault: the state is written, and the permissions go in a transaction that
\* is rolled back.
ApplyDeactivationStateOnly(b, t) ==
    /\ t \in batch[b].claimed
    /\ ~batch[b].feature
    /\ IF WithinTarget(b, t) THEN Applied(b, t, FALSE) ELSE Leaves(b, t) /\ UNCHANGED state
    /\ UNCHANGED <<phase, generation, templates, tenants, creating, granted>>

ApplyDeactivation(b, t) ==
    /\ t \in batch[b].claimed
    /\ ~batch[b].feature
    /\ IF WithinTarget(b, t)
       THEN granted' = granted \ {t} /\ Applied(b, t, FALSE)
       ELSE Leaves(b, t) /\ UNCHANGED <<granted, state>>
    /\ UNCHANGED <<phase, generation, templates, tenants, creating>>

\* The transaction of a tenant fails, or the process ends and with it the batch.
ApplyFails(b) ==
    /\ batch[b].claimed # {}
    /\ \E rest \in SUBSET batch[b].claimed \ {batch[b].claimed} : Remain(b, rest)
    /\ UNCHANGED <<phase, generation, templates, tenants, creating, granted, state>>

RolloutNext ==
    \/ \E t \in Tenant : Clone(t) \/ CommitCreation(t)
    \/ Reconcile
    \/ BeginActivation \/ BeginDeactivation
    \/ \E g \in 1 .. MaxGeneration :
          \/ FinalizeActivation(g) \/ FinalizeDeactivation(g)
          \/ \E b \in Batch : ClaimBatch(b, g)
          \/ \E t \in Tenant : ClaimTenant(t, g)
    \/ \E b \in Batch :
          \/ ApplyFails(b)
          \/ \E t \in Tenant : ApplyActivation(b, t) \/ ApplyDeactivation(b, t)

RolloutSpec == RolloutInit /\ [][RolloutNext]_rolloutVars

----------------------------------------------------------------------------
\* Properties

\* The phase, the generation and the templates tell the same story, whoever
\* begins, repeats or finalizes: a crashed transition goes on under its own
\* generation, so an odd generation is one that activates, and the templates
\* carry the permissions except in catalog_only, so that a tenant can be
\* created at every moment of the rollout.
TransitionIsWhole ==
    /\ Activates(generation) <=> phase \in {"activating", "activated"}
    /\ TemplatesExpected

\* What a state row says was applied is what the roles of the tenant have,
\* once a batch has written it: also a batch that was overtaken by the other
\* direction, one whose claim was taken over under an older generation, and
\* one that the primary key or the check of the table refused half way.
AppliedIsGranted ==
    \A t \in Tenant : state[t].applied > 0 => (state[t].feature <=> t \in granted)
=============================================================================

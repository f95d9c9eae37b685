----------------------------- MODULE TenantProofs -----------------------------
(***************************************************************************)
(* Proofs about TenantMembers, for any number of members, requests,        *)
(* dispatchers and claims, and about PermissionRollout, for any number of  *)
(* tenants, batches and transitions.  The two share no state.              *)
(*                                                                         *)
(* The inductive invariant of the members says what a request still knows  *)
(* at each of its steps: before the gate, only that a role of its snapshot *)
(* is current as long as the version is; behind the gate, after its        *)
(* checks, everything the checks compared.  That of the rollout adds to    *)
(* the properties what the claims in memory rest on: a batch claims only   *)
(* tenants that exist and have a state row.                                *)
(***************************************************************************)
EXTENDS TenantMembers, PermissionRollout, TLAPS, FiniteSetTheorems

\* The role and the version were read together: a later version is higher.
Seen(m, role, version) ==
    /\ version <= member[m].version
    /\ member[m].version = version => member[m].role = role

Deciding == {"gate", "check", "commit"}

FitsChange(k, c) ==
    /\ c.step \in Deciding \cup {"idle"} => task[k].status = "absent"
    /\ c.step \in Deciding =>
          /\ c.actor \in Member /\ c.target \in Member
          /\ Administers(c.actorRole)
          /\ Seen(c.actor, c.actorRole, c.actorVersion)
          /\ Seen(c.target, c.targetRole, c.targetVersion)
    /\ c.step = "commit" =>
          /\ StillActs(c)
          /\ Matches(c)
          /\ Allowed(c)
          /\ RemovesOwner(c) => OwnersLocked > 1
    /\ c.step = "mark" => k \in invalidated

FitsInvite(n) ==
    /\ n.step \in Deciding =>
          /\ n.actor \in Member /\ n.target \in Member
          /\ Administers(n.actorRole)
          /\ Seen(n.actor, n.actorRole, n.actorVersion)
    /\ n.step = "commit" => StillActs(n) /\ MayInvite(n)

FitsAccept(n) ==
    /\ n.step \in Deciding => invitation[n.invitation].status # "absent"
    /\ n.step = "commit" =>
          /\ invitation[n.invitation].status = "pending"
          /\ Joinable(invitation[n.invitation].target)

InvitationsFit ==
    \A i \in Invitation : invitation[i].status # "absent" => invitation[i].target \in Member

OutboxFits ==
    /\ \A k \in Change : task[k].status = "completed" => k \in invalidated
    /\ \A d \in Dispatcher : \A claim \in dispatch[d] :
          claim.answer = "removed" => claim.task \in invalidated

RequestsFit ==
    /\ \A k \in Change : FitsChange(k, change[k])
    /\ \A i \in Invitation : FitsInvite(invite[i])
    /\ \A a \in Acceptance : FitsAccept(accept[a])

MemberInv == TypeOK /\ RequestsFit /\ InvitationsFit /\ OutboxFits

----------------------------------------------------------------------------
\* The outbox

\* A task stays out of the table until its change commits, an invalidation is
\* not undone, and a completed task stays completed.
OutboxGrows(K) ==
    /\ \A k \in K : task[k].status = "absent" => task'[k].status = "absent"
    /\ \A k \in Change : task[k].status = "completed" => task'[k].status = "completed"
    /\ invalidated \subseteq invalidated'

LEMMA OutboxStep ==
    ASSUME OutboxTypeOK, OutboxFits, OutboxNext
    PROVE  OutboxTypeOK' /\ OutboxFits' /\ OutboxGrows(Change)
<1> USE DEF OutboxTypeOK, OutboxFits, OutboxGrows
<1>0. \A k \in Change : task[k].token \in Nat
  OBVIOUS
<1>1. ASSUME NEW d \in Dispatcher, ClaimTasks(d)
      PROVE  OutboxTypeOK' /\ OutboxFits' /\ OutboxGrows(Change)
  <2>1. PICK claimed \in SUBSET Claimable :
          /\ task' = [k \in Change |->
                        IF k \in claimed THEN [status |-> "processing",
                                               token |-> task[k].token + 1]
                                         ELSE task[k]]
          /\ dispatch' = [dispatch EXCEPT ![d] =
                            {[task |-> k, token |-> task[k].token + 1, answer |-> "none"] :
                                k \in claimed}]
    BY <1>1 DEF ClaimTasks
  <2>2. invalidated' = invalidated  BY <1>1 DEF ClaimTasks
  <2>3. /\ claimed \subseteq Change
        /\ \A k \in claimed : task[k].status # "absent" /\ task[k].status # "completed"
    BY DEF Claimable
  <2>4. \A k \in Change : task'[k] = IF k \in claimed THEN [status |-> "processing",
                                                            token |-> task[k].token + 1]
                                     ELSE task[k]
    BY <2>1
  <2>5. /\ \A k \in claimed : task'[k].status = "processing"
        /\ \A k \in Change \ claimed : task'[k] = task[k]
    <3>1. ASSUME NEW k \in claimed PROVE task'[k].status = "processing"
      <4>1. k \in Change  BY <2>3
      <4>2. task'[k] = [status |-> "processing", token |-> task[k].token + 1]  BY <2>4, <4>1
      <4> QED  BY <4>2
    <3>2. ASSUME NEW k \in Change \ claimed PROVE task'[k] = task[k]
      BY <2>4
    <3> QED  BY <3>1, <3>2
  <2>6. PICK mine \in SUBSET [task : Change, token : Nat, answer : {"none", "removed", "failed"}] :
          /\ mine = {[task |-> k, token |-> task[k].token + 1, answer |-> "none"] : k \in claimed}
          /\ \A claim \in mine : claim.answer = "none"
    <3>1. ASSUME NEW k \in claimed PROVE k \in Change /\ task[k].token + 1 \in Nat
      <4>1. k \in Change  BY <2>3
      <4>2. task[k].token \in Nat  BY <1>0, <4>1
      <4> QED  BY <4>1, <4>2
    <3>2. PICK Claim : Claim = [task : Change, token : Nat, answer : {"none", "removed", "failed"}]
      OBVIOUS
    <3>3. ASSUME NEW k \in claimed
          PROVE  /\ [task |-> k, token |-> task[k].token + 1, answer |-> "none"] \in Claim
                 /\ [task |-> k, token |-> task[k].token + 1, answer |-> "none"].answer = "none"
      BY <3>1, <3>2
    <3>4. {[task |-> k, token |-> task[k].token + 1, answer |-> "none"] : k \in claimed}
             \in SUBSET Claim
      BY <3>3
    <3> QED  BY <3>2, <3>3, <3>4
  <2>7. dispatch' = [dispatch EXCEPT ![d] = mine]  BY <2>1, <2>6
  <2>8. task' \in [Change -> [status : {"absent", "pending", "processing", "completed"},
                              token : Nat]]
    BY <1>0, <2>1
  <2>9. OutboxTypeOK'  BY <2>2, <2>6, <2>7, <2>8
  <2>10. OutboxFits'  BY <2>2, <2>5, <2>6, <2>7
  <2> QED  BY <2>2, <2>3, <2>5, <2>9, <2>10
<1>2. ASSUME NEW d \in Dispatcher, InvalidateTask(d)
      PROVE  OutboxTypeOK' /\ OutboxFits' /\ OutboxGrows(Change)
  <2>1. PICK claim \in dispatch[d] :
          \/ Answered(d, claim, "removed") /\ invalidated' = invalidated \cup {claim.task}
          \/ Answered(d, claim, "failed") /\ UNCHANGED invalidated
    BY <1>2 DEF InvalidateTask
  <2>2. claim \in [task : Change, token : Nat, answer : {"none", "removed", "failed"}]
    OBVIOUS
  <2>3. task' = task  BY <1>2 DEF InvalidateTask
  <2>4. PICK answer \in {"removed", "failed"} :
          /\ Answered(d, claim, answer)
          /\ answer = "removed" => invalidated' = invalidated \cup {claim.task}
          /\ answer = "failed" => invalidated' = invalidated
    BY <2>1
  <2>5. PICK new \in [task : Change, token : Nat, answer : {"none", "removed", "failed"}] :
          new = [claim EXCEPT !.answer = answer] /\ new.task = claim.task /\ new.answer = answer
    <3>1. PICK new : new = [claim EXCEPT !.answer = answer]  OBVIOUS
    <3>2. /\ new \in [task : Change, token : Nat, answer : {"none", "removed", "failed"}]
          /\ new.task = claim.task /\ new.answer = answer
      BY <2>2, <3>1
    <3> QED  BY <3>1, <3>2
  <2>6. dispatch' = [dispatch EXCEPT ![d] = (@ \ {claim}) \cup {new}]
    BY <2>4, <2>5 DEF Answered
  <2> QED  BY <2>2, <2>3, <2>4, <2>5, <2>6
<1>3. ASSUME NEW d \in Dispatcher, ReportTask(d)
      PROVE  OutboxTypeOK' /\ OutboxFits' /\ OutboxGrows(Change)
  <2>1. PICK claim \in dispatch[d] :
          /\ dispatch' = [dispatch EXCEPT ![d] = @ \ {claim}]
          /\ task' = IF Holds(claim)
                     THEN [task EXCEPT ![claim.task].status =
                              IF claim.answer = "removed" THEN "completed" ELSE "pending"]
                     ELSE task
    BY <1>3 DEF ReportTask
  <2>2. invalidated' = invalidated  BY <1>3 DEF ReportTask
  <2>3. claim.task \in Change  OBVIOUS
  <2>4. CASE Holds(claim)
    <3>1. PICK s \in {"completed", "pending"} :
            /\ task' = [task EXCEPT ![claim.task].status = s]
            /\ s = "completed" => claim.answer = "removed"
      BY <2>1, <2>4
    <3> QED  BY <2>1, <2>2, <2>3, <2>4, <3>1 DEF Holds
  <2>5. CASE ~Holds(claim)
    BY <2>1, <2>2, <2>5
  <2> QED  BY <2>4, <2>5
<1>4. ASSUME NEW d \in Dispatcher, StopDispatcher(d)
      PROVE  OutboxTypeOK' /\ OutboxFits' /\ OutboxGrows(Change)
  BY <1>4 DEF StopDispatcher
<1> QED  BY <1>1, <1>2, <1>3, <1>4 DEF OutboxNext

----------------------------------------------------------------------------
\* What the step of one request leaves to the others

\* The memberships and the invitations change only in the hands of the request
\* that holds the gate, and every change of a membership raises its version.
GateHolderWrites(r) ==
    /\ member' \in [Member -> Membership]
    /\ invitation' \in [Invitation -> Invitations]
    /\ \A m \in Member :
          \/ member'[m] = member[m]
          \/ gate = r /\ member'[m].version = member[m].version + 1
    /\ \A i \in Invitation :
          \/ invitation'[i] = invitation[i]
          \/ gate = r /\ invitation'[i].status # "absent"

LEMMA SeenStays ==
    ASSUME TypeOK, NEW r, GateHolderWrites(r),
           NEW m \in Member, NEW role, NEW version \in Nat, Seen(m, role, version)
    PROVE  Seen(m, role, version)'
<1>1. /\ member'[m] = member[m] \/ member'[m].version = member[m].version + 1
      /\ member[m].version \in Nat
  BY DEF TypeOK, GateHolderWrites, Membership
<1> QED  BY <1>1 DEF Seen

LEMMA NothingWritten ==
    ASSUME TypeOK, NEW r, GateHolderWrites(r), gate # r
    PROVE  member' = member /\ invitation' = invitation
  BY DEF TypeOK, GateHolderWrites

LEMMA OtherChangeFits ==
    ASSUME MemberInv, NEW r, GateHolderWrites(r), NEW k \in Change, k # r,
           OutboxGrows({k})
    PROVE  \A c : c = change[k] => FitsChange(k, c)'
<1> SUFFICES ASSUME NEW c, c = change[k] PROVE FitsChange(k, c)'
  OBVIOUS
<1>1. c \in ChangeRequest /\ FitsChange(k, c)
  BY DEF MemberInv, TypeOK, RequestsFit
<1>2. c.step \in Deciding => /\ Seen(c.actor, c.actorRole, c.actorVersion)'
                             /\ Seen(c.target, c.targetRole, c.targetVersion)'
  <2>1. c.actorVersion \in Nat /\ c.targetVersion \in Nat  BY <1>1 DEF ChangeRequest
  <2> QED  BY <1>1, <2>1, SeenStays DEF MemberInv, FitsChange
<1>3. ASSUME c.step = "commit"
      PROVE  /\ StillActs(c)'
             /\ Matches(c)'
             /\ Allowed(c)'
             /\ (RemovesOwner(c) => OwnersLocked > 1)'
  <2>1. gate = k  BY <1>3 DEF MemberInv, TypeOK, GateOK, InTransaction
  <2>2. member' = member  BY <2>1, NothingWritten DEF MemberInv
  <2> QED  BY <1>1, <1>3, <2>2
           DEF FitsChange, StillActs, Matches, Allowed, RemovesOwner, OwnersLocked,
               ActiveOwner
<1> QED  BY <1>1, <1>2, <1>3 DEF FitsChange, OutboxGrows

LEMMA OtherInviteFits ==
    ASSUME MemberInv, NEW r, GateHolderWrites(r), NEW i \in Invitation, i # r
    PROVE  \A n : n = invite[i] => FitsInvite(n)'
<1> SUFFICES ASSUME NEW n, n = invite[i] PROVE FitsInvite(n)'
  OBVIOUS
<1>1. n \in InviteRequest /\ FitsInvite(n)
  BY DEF MemberInv, TypeOK, RequestsFit
<1>2. n.step \in Deciding => Seen(n.actor, n.actorRole, n.actorVersion)'
  <2>1. n.actorVersion \in Nat  BY <1>1 DEF InviteRequest
  <2> QED  BY <1>1, <2>1, SeenStays DEF MemberInv, FitsInvite
<1>3. n.step = "commit" => StillActs(n)'
  <2> SUFFICES ASSUME n.step = "commit" PROVE StillActs(n)'
    OBVIOUS
  <2>1. gate = i  BY DEF MemberInv, TypeOK, GateOK, InTransaction
  <2>2. member' = member  BY <2>1, NothingWritten DEF MemberInv
  <2> QED  BY <1>1, <2>2 DEF FitsInvite, StillActs
<1> QED  BY <1>1, <1>2, <1>3 DEF FitsInvite, MayInvite

LEMMA OtherAcceptFits ==
    ASSUME MemberInv, NEW r, GateHolderWrites(r), NEW a \in Acceptance, a # r
    PROVE  \A n : n = accept[a] => FitsAccept(n)'
<1> SUFFICES ASSUME NEW n, n = accept[a] PROVE FitsAccept(n)'
  OBVIOUS
<1>1. n \in AcceptRequest /\ n.invitation \in Invitation /\ FitsAccept(n)
  BY DEF MemberInv, TypeOK, RequestsFit, AcceptRequest
<1>2. n.step = "commit" => member' = member /\ invitation' = invitation
  <2> SUFFICES ASSUME n.step = "commit" PROVE member' = member /\ invitation' = invitation
    OBVIOUS
  <2>1. gate = a  BY DEF MemberInv, TypeOK, GateOK, InTransaction
  <2> QED  BY <2>1, NothingWritten DEF MemberInv
<1>3. invitation[n.invitation].status # "absent" => invitation'[n.invitation].status # "absent"
  BY <1>1 DEF GateHolderWrites
<1> QED  BY <1>1, <1>2, <1>3 DEF FitsAccept, Joinable

----------------------------------------------------------------------------
\* One request steps

\* The gate is kept, taken or left.
GateMoves(r, step, next) ==
    \/ gate' = gate /\ (step \in InTransaction <=> next \in InTransaction)
    \/ gate = NoRequest /\ gate' = r /\ next \in InTransaction
    \/ gate = r /\ gate' = NoRequest /\ next \notin InTransaction

OutboxInv == OutboxTypeOK /\ OutboxFits

\* Nothing that requests share changes but the gate.
Quiet == UNCHANGED <<member, invitation, outboxVars>>

LEMMA QuietStep ==
    ASSUME MemberInv, Quiet, NEW r
    PROVE  /\ GateHolderWrites(r)
           /\ InvitationsFit' /\ OutboxInv' /\ OutboxGrows(Change)
<1>1. GateHolderWrites(r)
  BY DEF MemberInv, TypeOK, Quiet, GateHolderWrites
<1>2. InvitationsFit'
  BY DEF MemberInv, Quiet, InvitationsFit
<1>3. OutboxInv' /\ OutboxGrows(Change)
  BY DEF MemberInv, TypeOK, Quiet, outboxVars, OutboxInv, OutboxTypeOK, OutboxFits, OutboxGrows
<1> QED  BY <1>1, <1>2, <1>3

LEMMA ChangeStep ==
    ASSUME MemberInv, NEW k \in Change, NEW n \in ChangeRequest,
           change' = [change EXCEPT ![k] = n], UNCHANGED <<invite, accept>>,
           GateHolderWrites(k), GateMoves(k, change[k].step, n.step),
           InvitationsFit', OutboxInv', OutboxGrows(Change \ {k}),
           FitsChange(k, n)'
    PROVE  MemberInv'
<1>1. /\ change' \in [Change -> ChangeRequest]
      /\ change'[k] = n
      /\ \A j \in Change : j # k => change'[j] = change[j]
  BY DEF MemberInv, TypeOK
<1>2. GateOK'
  BY <1>1, ConstantsAssumption DEF MemberInv, TypeOK, GateOK, GateMoves
<1>3. TypeOK'
  BY <1>1, <1>2 DEF MemberInv, TypeOK, GateHolderWrites, OutboxInv
<1>4. ASSUME NEW j \in Change PROVE FitsChange(j, change[j])'
  <2>1. CASE j = k  BY <1>1, <2>1
  <2>2. CASE j # k
    <3>1. OutboxGrows({j})  BY <2>2 DEF OutboxGrows
    <3>2. \A c : c = change[j] => FitsChange(j, c)'  BY <2>2, <3>1, OtherChangeFits
    <3>3. PICK c : c = change[j] /\ c = change'[j]  BY <1>1, <2>2
    <3>4. FitsChange(j, c)'  BY <3>2, <3>3
    <3> QED  BY <3>3, <3>4
  <2> QED  BY <2>1, <2>2
<1>5. ASSUME NEW i \in Invitation PROVE FitsInvite(invite[i])'
  <2>1. \A c : c = invite[i] => FitsInvite(c)'
    BY OtherInviteFits, ConstantsAssumption
  <2> QED  BY <2>1
<1>6. ASSUME NEW a \in Acceptance PROVE FitsAccept(accept[a])'
  <2>1. \A c : c = accept[a] => FitsAccept(c)'
    BY OtherAcceptFits, ConstantsAssumption
  <2> QED  BY <2>1
<1> QED  BY <1>3, <1>4, <1>5, <1>6 DEF MemberInv, RequestsFit, OutboxInv

LEMMA InviteStep ==
    ASSUME MemberInv, NEW i \in Invitation, NEW n \in InviteRequest,
           invite' = [invite EXCEPT ![i] = n], UNCHANGED <<change, accept>>,
           GateHolderWrites(i), GateMoves(i, invite[i].step, n.step),
           InvitationsFit', OutboxInv', OutboxGrows(Change),
           FitsInvite(n)'
    PROVE  MemberInv'
<1>1. /\ invite' \in [Invitation -> InviteRequest]
      /\ invite'[i] = n
      /\ \A j \in Invitation : j # i => invite'[j] = invite[j]
  BY DEF MemberInv, TypeOK
<1>2. GateOK'
  BY <1>1, ConstantsAssumption DEF MemberInv, TypeOK, GateOK, GateMoves
<1>3. TypeOK'
  BY <1>1, <1>2 DEF MemberInv, TypeOK, GateHolderWrites, OutboxInv
<1>4. ASSUME NEW j \in Invitation PROVE FitsInvite(invite[j])'
  <2>1. CASE j = i  BY <1>1, <2>1
  <2>2. CASE j # i
    <3>1. \A c : c = invite[j] => FitsInvite(c)'  BY <2>2, OtherInviteFits
    <3>2. PICK c : c = invite[j] /\ c = invite'[j]  BY <1>1, <2>2
    <3>3. FitsInvite(c)'  BY <3>1, <3>2
    <3> QED  BY <3>2, <3>3
  <2> QED  BY <2>1, <2>2
<1>5. ASSUME NEW k \in Change PROVE FitsChange(k, change[k])'
  <2>1. k # i /\ OutboxGrows({k})  BY ConstantsAssumption DEF OutboxGrows
  <2>2. \A c : c = change[k] => FitsChange(k, c)'  BY <2>1, OtherChangeFits
  <2> QED  BY <2>2
<1>6. ASSUME NEW a \in Acceptance PROVE FitsAccept(accept[a])'
  <2>1. \A c : c = accept[a] => FitsAccept(c)'
    BY OtherAcceptFits, ConstantsAssumption
  <2> QED  BY <2>1
<1> QED  BY <1>3, <1>4, <1>5, <1>6 DEF MemberInv, RequestsFit, OutboxInv

LEMMA AcceptStep ==
    ASSUME MemberInv, NEW a \in Acceptance, NEW n \in AcceptRequest,
           accept' = [accept EXCEPT ![a] = n], UNCHANGED <<change, invite>>,
           GateHolderWrites(a), GateMoves(a, accept[a].step, n.step),
           InvitationsFit', OutboxInv', OutboxGrows(Change),
           FitsAccept(n)'
    PROVE  MemberInv'
<1>1. /\ accept' \in [Acceptance -> AcceptRequest]
      /\ accept'[a] = n
      /\ \A b \in Acceptance : b # a => accept'[b] = accept[b]
  BY DEF MemberInv, TypeOK
<1>2. GateOK'
  BY <1>1, ConstantsAssumption DEF MemberInv, TypeOK, GateOK, GateMoves
<1>3. TypeOK'
  BY <1>1, <1>2 DEF MemberInv, TypeOK, GateHolderWrites, OutboxInv
<1>4. ASSUME NEW b \in Acceptance PROVE FitsAccept(accept[b])'
  <2>1. CASE b = a  BY <1>1, <2>1
  <2>2. CASE b # a
    <3>1. \A c : c = accept[b] => FitsAccept(c)'  BY <2>2, OtherAcceptFits
    <3>2. PICK c : c = accept[b] /\ c = accept'[b]  BY <1>1, <2>2
    <3>3. FitsAccept(c)'  BY <3>1, <3>2
    <3> QED  BY <3>2, <3>3
  <2> QED  BY <2>1, <2>2
<1>5. ASSUME NEW k \in Change PROVE FitsChange(k, change[k])'
  <2>1. k # a /\ OutboxGrows({k})  BY ConstantsAssumption DEF OutboxGrows
  <2>2. \A c : c = change[k] => FitsChange(k, c)'  BY <2>1, OtherChangeFits
  <2> QED  BY <2>2
<1>6. ASSUME NEW i \in Invitation PROVE FitsInvite(invite[i])'
  <2>1. \A c : c = invite[i] => FitsInvite(c)'
    BY OtherInviteFits, ConstantsAssumption
  <2> QED  BY <2>1
<1> QED  BY <1>3, <1>4, <1>5, <1>6 DEF MemberInv, RequestsFit, OutboxInv

----------------------------------------------------------------------------
\* The changes of a member

LEMMA QuietChange ==
    ASSUME MemberInv, Quiet, NEW k \in Change, NEW n \in ChangeRequest,
           change' = [change EXCEPT ![k] = n], UNCHANGED <<invite, accept>>,
           GateMoves(k, change[k].step, n.step), FitsChange(k, n)
    PROVE  MemberInv'
<1>1. FitsChange(k, n)'
  BY DEF Quiet, outboxVars, FitsChange, Seen, StillActs, Matches, Allowed, RemovesOwner,
         OwnersLocked, ActiveOwner
<1>2. GateHolderWrites(k) /\ InvitationsFit' /\ OutboxInv'
  BY QuietStep
<1>3. OutboxGrows(Change \ {k})
  <2>1. OutboxGrows(Change)  BY QuietStep
  <2> QED  BY <2>1 DEF OutboxGrows
<1> QED  BY <1>1, <1>2, <1>3, ChangeStep

LEMMA ChangeMoves ==
    ASSUME TypeOK, NEW k \in Change,
           NEW step \in Step \cup {"invalidate", "mark"}, ChangeGoes(k, step)
    PROVE  \E n \in ChangeRequest :
              /\ change' = [change EXCEPT ![k] = n]
              /\ n = [change[k] EXCEPT !.step = step]
              /\ n.step = step
              /\ n.actor = change[k].actor /\ n.actorRole = change[k].actorRole
              /\ n.actorVersion = change[k].actorVersion
              /\ n.target = change[k].target /\ n.targetRole = change[k].targetRole
              /\ n.targetVersion = change[k].targetVersion /\ n.expected = change[k].expected
              /\ n.status = change[k].status /\ n.role = change[k].role
<1>1. PICK c \in ChangeRequest : c = change[k]  BY DEF TypeOK
<1>2. PICK n : n = [c EXCEPT !.step = step]  OBVIOUS
<1>3. n \in ChangeRequest /\ n.step = step
      /\ n.actor = c.actor /\ n.actorRole = c.actorRole /\ n.actorVersion = c.actorVersion
      /\ n.target = c.target /\ n.targetRole = c.targetRole
      /\ n.targetVersion = c.targetVersion /\ n.expected = c.expected
      /\ n.status = c.status /\ n.role = c.role
  BY <1>2 DEF ChangeRequest
<1>4. n = [change[k] EXCEPT !.step = step]  BY <1>1, <1>2, Zenon
<1>5. change' = [change EXCEPT ![k] = n]  BY <1>4 DEF ChangeGoes
<1> QED  BY <1>1, <1>3, <1>4, <1>5

LEMMA ChangeOver ==
    ASSUME NEW step \in {"ended", "invalidate"}
    PROVE  \E n \in ChangeRequest : n = [NoChange EXCEPT !.step = step] /\ n.step = step
<1>1. PICK n : n = [NoChange EXCEPT !.step = step]  OBVIOUS
<1>2. n \in ChangeRequest /\ n.step = step
  BY <1>1 DEF NoChange, ChangeRequest, Step, Status, AnyMember, AnyRole
<1> QED  BY <1>1, <1>2

LEMMA ChangeEndsQuietly ==
    ASSUME MemberInv, Quiet, NEW k \in Change, ChangeEnds(k), UNCHANGED <<invite, accept>>,
           \/ gate = k /\ gate' = NoRequest
           \/ gate # k /\ gate' = gate
    PROVE  MemberInv'
<1>1. PICK n \in ChangeRequest : n = [NoChange EXCEPT !.step = "ended"] /\ n.step = "ended"
  BY ChangeOver
<1>2. change' = [change EXCEPT ![k] = n]  BY <1>1 DEF ChangeEnds
<1>3. FitsChange(k, n)  BY <1>1 DEF FitsChange, Deciding
<1>4. GateMoves(k, change[k].step, n.step)
  BY <1>1 DEF MemberInv, TypeOK, GateOK, GateMoves, InTransaction
<1> QED  BY <1>1, <1>2, <1>3, <1>4, QuietChange

LEMMA BeginChangeStep == ASSUME MemberInv, NEW k \in Change, BeginChange(k) PROVE MemberInv'
<1>1. PICK a \in Member, t \in Member :
         /\ MayAct(a)
         /\ member[t].status # "absent"
         /\ \E expected \in ETag,
               desired \in [status : {"active", "suspended"}, role : Role]
                           \cup [status : {"revoked"}, role : {member[t].role}] :
                change' = [change EXCEPT ![k] =
                    [step |-> "gate",
                     actor |-> a, actorRole |-> member[a].role,
                     actorVersion |-> member[a].version,
                     target |-> t, targetRole |-> member[t].role,
                     targetVersion |-> member[t].version, expected |-> expected,
                     status |-> desired.status, role |-> desired.role]]
  BY DEF BeginChange
<1>2. PICK ma \in Membership : ma = member[a]  BY DEF MemberInv, TypeOK
<1>3. PICK mt \in Membership : mt = member[t]  BY DEF MemberInv, TypeOK
<1>4. PICK expected \in Nat, status \in Status, role \in AnyRole :
         change' = [change EXCEPT ![k] =
                    [step |-> "gate",
                     actor |-> a, actorRole |-> ma.role, actorVersion |-> ma.version,
                     target |-> t, targetRole |-> mt.role,
                     targetVersion |-> mt.version, expected |-> expected,
                     status |-> status, role |-> role]]
  <2>1. PICK expected \in ETag, desired \in [status : {"active", "suspended"}, role : Role]
                            \cup [status : {"revoked"}, role : {mt.role}] :
                change' = [change EXCEPT ![k] =
                    [step |-> "gate",
                     actor |-> a, actorRole |-> ma.role, actorVersion |-> ma.version,
                     target |-> t, targetRole |-> mt.role,
                     targetVersion |-> mt.version, expected |-> expected,
                     status |-> desired.status, role |-> desired.role]]
    BY <1>1, <1>2, <1>3
  <2>2. expected \in Nat /\ desired.status \in Status /\ desired.role \in AnyRole
    BY ConstantsAssumption DEF Membership, Status, AnyRole
  <2> QED  BY <2>1, <2>2
<1>5. PICK n : n = [step |-> "gate",
                    actor |-> a, actorRole |-> ma.role, actorVersion |-> ma.version,
                    target |-> t, targetRole |-> mt.role,
                     targetVersion |-> mt.version, expected |-> expected,
                    status |-> status, role |-> role]
  OBVIOUS
<1>6. n \in ChangeRequest /\ n.step = "gate" /\ n.actor = a /\ n.target = t
      /\ n.actorRole = ma.role /\ n.actorVersion = ma.version
      /\ n.targetRole = mt.role /\ n.targetVersion = mt.version
  BY <1>5 DEF ChangeRequest, Membership, Step, AnyMember
<1>7. change' = [change EXCEPT ![k] = n]  BY <1>4, <1>5
<1>8. change[k].step = "idle" /\ Quiet /\ gate' = gate /\ UNCHANGED <<invite, accept>>
  BY DEF BeginChange, Quiet
<1>9. FitsChange(k, n)
  <2>1. task[k].status = "absent"
    BY <1>8 DEF MemberInv, RequestsFit, FitsChange
  <2>2. Seen(a, ma.role, ma.version) /\ Seen(t, mt.role, mt.version)
    BY <1>2, <1>3 DEF Seen, Membership
  <2>3. Administers(ma.role)  BY <1>1, <1>2 DEF MayAct
  <2> QED  BY <1>6, <2>1, <2>2, <2>3 DEF FitsChange
<1>10. GateMoves(k, change[k].step, n.step)
  BY <1>6, <1>8 DEF GateMoves, InTransaction
<1> QED  BY <1>6, <1>7, <1>8, <1>9, <1>10, QuietChange

LEMMA EnterChangeStep == ASSUME MemberInv, NEW k \in Change, EnterChange(k) PROVE MemberInv'
<1>1. PICK n \in ChangeRequest :
              /\ change' = [change EXCEPT ![k] = n]
              /\ n.step = "check"
              /\ n.actor = change[k].actor /\ n.actorRole = change[k].actorRole
              /\ n.actorVersion = change[k].actorVersion
              /\ n.target = change[k].target /\ n.targetRole = change[k].targetRole
              /\ n.targetVersion = change[k].targetVersion /\ n.expected = change[k].expected
  BY ChangeMoves DEF EnterChange, MemberInv, Step, InTransaction
<1>2. FitsChange(k, n)
  BY <1>1 DEF EnterChange, MemberInv, RequestsFit, FitsChange, Deciding
<1>3. GateMoves(k, change[k].step, n.step)
  BY <1>1 DEF EnterChange, AwaitGate, GateMoves, InTransaction
<1> QED  BY <1>1, <1>2, <1>3, QuietChange DEF EnterChange, Quiet

LEMMA CheckChangeStep == ASSUME MemberInv, NEW k \in Change, CheckChange(k) PROVE MemberInv'
<1>1. gate = k /\ change[k].step = "check"
  BY DEF CheckChange, MemberInv, TypeOK, GateOK, InTransaction
<1>2. Quiet /\ UNCHANGED <<invite, accept>>  BY DEF CheckChange, Quiet
<1>3. CASE ChangeEnds(k) /\ LeaveGate
  BY <1>1, <1>2, <1>3, ChangeEndsQuietly DEF LeaveGate
<1>4. CASE /\ StillActs(change[k])
           /\ Matches(change[k])
           /\ Allowed(change[k])
           /\ RemovesOwner(change[k]) => OwnersLocked > 1
           /\ ChangeGoes(k, "commit") /\ UNCHANGED gate
  <2>1. PICK n \in ChangeRequest :
              /\ change' = [change EXCEPT ![k] = n]
              /\ n.step = "commit"
              /\ n.actor = change[k].actor /\ n.actorRole = change[k].actorRole
              /\ n.actorVersion = change[k].actorVersion
              /\ n.target = change[k].target /\ n.targetRole = change[k].targetRole
              /\ n.targetVersion = change[k].targetVersion /\ n.expected = change[k].expected
              /\ n.status = change[k].status /\ n.role = change[k].role
    BY <1>4, ChangeMoves DEF MemberInv, Step, InTransaction
  <2>2. StillActs(n) /\ Matches(n) /\ Allowed(n) /\ (RemovesOwner(n) => OwnersLocked > 1)
    BY <1>4, <2>1 DEF StillActs, Matches, Allowed, RemovesOwner
  <2>3. FitsChange(k, n)
    <3>1. FitsChange(k, change[k])  BY DEF MemberInv, RequestsFit
    <3> QED  BY <1>1, <2>1, <2>2, <3>1 DEF FitsChange, Deciding
  <2>4. GateMoves(k, change[k].step, n.step)
    BY <1>1, <1>4, <2>1 DEF GateMoves, InTransaction
  <2> QED  BY <1>2, <2>1, <2>3, <2>4, QuietChange
<1> QED  BY <1>3, <1>4 DEF CheckChange

\* Of two active owners, one is not the target.
LEMMA AnotherOwner ==
    ASSUME NEW t, OwnersLocked > 1
    PROVE  \E m \in Member : m # t /\ ActiveOwner(m)
<1> SUFFICES ASSUME \A m \in Member : ActiveOwner(m) => m = t PROVE FALSE
  OBVIOUS
<1>1. PICK owners : owners = {m \in Member : ActiveOwner(m)}  OBVIOUS
<1>2. PICK single : single = {t}  OBVIOUS
<1>3. owners \subseteq single  BY <1>1, <1>2
<1>4. IsFiniteSet(single) /\ Cardinality(single) = 1  BY <1>2, FS_Singleton
<1>5. Cardinality(owners) <= 1 /\ Cardinality(owners) \in Nat
  BY <1>3, <1>4, FS_Subset, FS_CardinalityType
<1>6. OwnersLocked = Cardinality(owners)  BY <1>1 DEF OwnersLocked
<1> QED  BY <1>5, <1>6

\* What a committing change still knows, and what it writes.
LEMMA CommitChangeEffect ==
    ASSUME MemberInv, NEW k \in Change, CommitChange(k)
    PROVE  /\ gate = k /\ gate' = NoRequest
           /\ change[k] \in ChangeRequest /\ FitsChange(k, change[k])
           /\ change[k].step = "commit"
           /\ change[k].actor \in Member /\ change[k].target \in Member
           /\ MayAct(change[k].actor)
           /\ member[change[k].actor].role = change[k].actorRole
           /\ Informed(change[k]) =>
                 member[change[k].target].role = change[k].targetRole
           /\ Allowed(change[k])
           /\ RemovesOwner(change[k]) => OwnersLocked > 1
           /\ UNCHANGED <<invitation, invite, accept, dispatch, invalidated>>
<1>1. gate = k /\ gate' = NoRequest /\ change[k].step = "commit"
  BY DEF MemberInv, TypeOK, GateOK, CommitChange, LeaveGate, InTransaction
<1>2. change[k] \in ChangeRequest /\ FitsChange(k, change[k])
  BY DEF MemberInv, TypeOK, RequestsFit
<1>3. /\ change[k].actor \in Member /\ change[k].target \in Member
      /\ MayAct(change[k].actor)
      /\ member[change[k].actor].role = change[k].actorRole
  BY <1>1, <1>2 DEF FitsChange, Deciding, StillActs, Seen, MayAct
<1>5. ASSUME Informed(change[k])
      PROVE  member[change[k].target].role = change[k].targetRole
  <2>1. /\ member[change[k].target].version = change[k].expected
        /\ Seen(change[k].target, change[k].targetRole, change[k].targetVersion)
    BY <1>1, <1>2 DEF FitsChange, Deciding, Matches
  <2>2. change[k].expected \in Nat /\ change[k].targetVersion \in Nat
    BY <1>2 DEF ChangeRequest
  <2>3. member[change[k].target].version = change[k].targetVersion
    BY <1>5, <2>1, <2>2 DEF Informed, Seen
  <2> QED  BY <2>1, <2>3 DEF Seen
<1>4. Allowed(change[k]) /\ (RemovesOwner(change[k]) => OwnersLocked > 1)
  BY <1>1, <1>2 DEF FitsChange
<1> QED  BY <1>1, <1>2, <1>3, <1>4, <1>5 DEF CommitChange

\* The membership that a change replaces: its role is the one that was asked
\* for, or where that is what the snapshot had, the one it has.
LEMMA CommitChangeWrites ==
    ASSUME MemberInv, NEW k \in Change, CommitChange(k),
           ~(/\ change[k].status = member[change[k].target].status
             /\ change[k].role = change[k].targetRole)
    PROVE  \E n \in Membership :
              /\ n.status = change[k].status
              /\ n.role = IF change[k].role = change[k].targetRole
                          THEN member[change[k].target].role ELSE change[k].role
              /\ n.version = member[change[k].target].version + 1
              /\ member' = [member EXCEPT ![change[k].target] = n]
<1>1. PICK c \in ChangeRequest : c = change[k] /\ c.target \in Member
  BY CommitChangeEffect
<1>2. PICK m \in Membership : m = member[c.target]  BY <1>1 DEF MemberInv, TypeOK
<1>3. PICK role : role = IF c.role = c.targetRole THEN m.role ELSE c.role
  OBVIOUS
<1>4. role \in AnyRole  BY <1>3 DEF Membership, ChangeRequest
<1>5. PICK n : n = [status |-> c.status, role |-> role, version |-> m.version + 1]
  OBVIOUS
<1>6. n \in Membership /\ n.status = c.status /\ n.role = role /\ n.version = m.version + 1
  BY <1>4, <1>5 DEF Membership, ChangeRequest
<1>7. member' = [member EXCEPT ![c.target] =
                    [status |-> c.status,
                     role |-> IF c.role = c.targetRole THEN @.role ELSE c.role,
                     version |-> @.version + 1]]
  BY <1>1 DEF CommitChange
<1>8. member' = [member EXCEPT ![c.target] = n]  BY <1>2, <1>3, <1>5, <1>7
<1> QED  BY <1>1, <1>2, <1>3, <1>6, <1>8

LEMMA CommitChangeStep == ASSUME MemberInv, NEW k \in Change, CommitChange(k) PROVE MemberInv'
<1>1. /\ gate = k /\ gate' = NoRequest /\ change[k].step = "commit"
      /\ change[k].target \in Member /\ FitsChange(k, change[k])
      /\ UNCHANGED <<invitation, invite, accept, dispatch, invalidated>>
  BY CommitChangeEffect
<1>2. CASE /\ change[k].status = member[change[k].target].status
           /\ change[k].role = change[k].targetRole
  <2>1. ChangeEnds(k) /\ Quiet
    BY <1>1, <1>2 DEF CommitChange, Quiet, outboxVars
  <2> QED  BY <1>1, <2>1, ChangeEndsQuietly
<1>3. CASE ~(/\ change[k].status = member[change[k].target].status
             /\ change[k].role = change[k].targetRole)
  <2>1. PICK n \in Membership :
              /\ n.version = member[change[k].target].version + 1
              /\ member' = [member EXCEPT ![change[k].target] = n]
    BY <1>3, CommitChangeWrites
  <2>2. PICK t \in Member : t = change[k].target  BY <1>1
  <2>3. /\ member'[t] = n /\ \A m \in Member : m # t => member'[m] = member[m]
        /\ member' \in [Member -> Membership]
    BY <2>1, <2>2 DEF MemberInv, TypeOK
  <2>4. GateHolderWrites(k)
    BY <1>1, <2>1, <2>2, <2>3 DEF GateHolderWrites, MemberInv, TypeOK
  <2>6. AddTask(k) /\ task[k].status = "absent"
    BY <1>1, <1>3 DEF CommitChange, FitsChange, Deciding
  <2>7. OutboxInv' /\ OutboxGrows(Change \ {k})
    <3>1. \A j \in Change \ {k} : task'[j] = task[j]
      BY <2>6 DEF AddTask, MemberInv, TypeOK, OutboxTypeOK
    <3>2. task'[k].status = "pending"
          /\ task' \in [Change -> [status : {"absent", "pending", "processing", "completed"},
                                   token : Nat]]
      BY <2>6 DEF AddTask, MemberInv, TypeOK, OutboxTypeOK
    <3> QED  BY <1>1, <2>6, <3>1, <3>2
             DEF MemberInv, TypeOK, OutboxInv, OutboxTypeOK, OutboxFits, OutboxGrows
  <2>8. PICK c \in ChangeRequest : c = [NoChange EXCEPT !.step = "invalidate"]
                                   /\ c.step = "invalidate"
    BY ChangeOver
  <2>9. change' = [change EXCEPT ![k] = c]  BY <1>3, <2>8 DEF CommitChange
  <2>10. FitsChange(k, c)'  BY <2>8 DEF FitsChange, Deciding
  <2>11. InvitationsFit'  BY <1>1 DEF MemberInv, InvitationsFit
  <2>12. GateMoves(k, change[k].step, c.step)
    BY <1>1, <2>8 DEF GateMoves, InTransaction
  <2> QED  BY <1>1, <2>4, <2>7, <2>9, <2>10, <2>11, <2>12, ChangeStep
<1> QED  BY <1>2, <1>3

LEMMA InvalidateNowStep == ASSUME MemberInv, NEW k \in Change, InvalidateNow(k) PROVE MemberInv'
<1>1. /\ change[k].step = "invalidate" /\ gate # k /\ gate' = gate
      /\ UNCHANGED <<member, invitation, invite, accept, task, dispatch>>
  BY DEF InvalidateNow, MemberInv, TypeOK, GateOK, InTransaction
<1>2. CASE ChangeEnds(k) /\ UNCHANGED invalidated
  BY <1>1, <1>2, ChangeEndsQuietly DEF Quiet, outboxVars
<1>3. CASE ChangeGoes(k, "mark") /\ invalidated' = invalidated \cup {k}
  <2>1. PICK n \in ChangeRequest : change' = [change EXCEPT ![k] = n] /\ n.step = "mark"
    BY <1>3, ChangeMoves DEF MemberInv
  <2>2. FitsChange(k, n)'  BY <1>3, <2>1 DEF FitsChange, Deciding
  <2>3. GateHolderWrites(k) /\ InvitationsFit'
    BY <1>1 DEF MemberInv, TypeOK, GateHolderWrites, InvitationsFit
  <2>4. OutboxInv' /\ OutboxGrows(Change \ {k})
    BY <1>1, <1>3 DEF MemberInv, TypeOK, OutboxInv, OutboxTypeOK, OutboxFits, OutboxGrows
  <2>5. GateMoves(k, change[k].step, n.step)
    BY <1>1, <2>1 DEF GateMoves, InTransaction
  <2> QED  BY <1>1, <2>1, <2>2, <2>3, <2>4, <2>5, ChangeStep
<1> QED  BY <1>2, <1>3 DEF InvalidateNow

LEMMA MarkNowStep == ASSUME MemberInv, NEW k \in Change, MarkNow(k) PROVE MemberInv'
<1>1. /\ change[k].step = "mark" /\ gate # k /\ gate' = gate /\ k \in invalidated
      /\ ChangeEnds(k) /\ CompleteImmediately(k)
      /\ UNCHANGED <<member, invitation, invite, accept, dispatch, invalidated>>
  BY DEF MarkNow, MemberInv, TypeOK, GateOK, InTransaction, RequestsFit, FitsChange
<1>2. PICK n \in ChangeRequest : n = [NoChange EXCEPT !.step = "ended"] /\ n.step = "ended"
  BY ChangeOver
<1>3. change' = [change EXCEPT ![k] = n]  BY <1>1, <1>2 DEF ChangeEnds
<1>4. FitsChange(k, n)'  BY <1>2 DEF FitsChange, Deciding
<1>5. GateHolderWrites(k) /\ InvitationsFit'
  BY <1>1 DEF MemberInv, TypeOK, GateHolderWrites, InvitationsFit
<1>6. OutboxInv' /\ OutboxGrows(Change \ {k})
  BY <1>1 DEF CompleteImmediately, MemberInv, TypeOK, OutboxInv, OutboxTypeOK, OutboxFits,
              OutboxGrows
<1>7. GateMoves(k, change[k].step, n.step)
  BY <1>1, <1>2 DEF GateMoves, InTransaction
<1> QED  BY <1>1, <1>3, <1>4, <1>5, <1>6, <1>7, ChangeStep

LEMMA AbandonChangeStep == ASSUME MemberInv, NEW k \in Change, AbandonChange(k) PROVE MemberInv'
  BY ChangeEndsQuietly DEF AbandonChange, Quiet

----------------------------------------------------------------------------
\* The invitations

LEMMA QuietInvite ==
    ASSUME MemberInv, Quiet, NEW i \in Invitation, NEW n \in InviteRequest,
           invite' = [invite EXCEPT ![i] = n], UNCHANGED <<change, accept>>,
           GateMoves(i, invite[i].step, n.step), FitsInvite(n)
    PROVE  MemberInv'
<1>1. FitsInvite(n)'
  BY DEF Quiet, FitsInvite, Seen, StillActs, MayInvite
<1>2. GateHolderWrites(i) /\ InvitationsFit' /\ OutboxInv' /\ OutboxGrows(Change)
  BY QuietStep
<1> QED  BY <1>1, <1>2, InviteStep

LEMMA InviteMoves ==
    ASSUME TypeOK, NEW i \in Invitation, NEW step \in Step, InviteGoes(i, step)
    PROVE  \E n \in InviteRequest :
              /\ invite' = [invite EXCEPT ![i] = n]
              /\ n.step = step
              /\ n.actor = invite[i].actor /\ n.actorRole = invite[i].actorRole
              /\ n.actorVersion = invite[i].actorVersion
              /\ n.target = invite[i].target /\ n.role = invite[i].role
<1>1. PICK c \in InviteRequest : c = invite[i]  BY DEF TypeOK
<1>2. PICK n : n = [c EXCEPT !.step = step]  OBVIOUS
<1>3. n \in InviteRequest /\ n.step = step
      /\ n.actor = c.actor /\ n.actorRole = c.actorRole /\ n.actorVersion = c.actorVersion
      /\ n.target = c.target /\ n.role = c.role
  BY <1>2 DEF InviteRequest
<1>4. n = [invite[i] EXCEPT !.step = step]  BY <1>1, <1>2, Zenon
<1>5. invite' = [invite EXCEPT ![i] = n]  BY <1>4 DEF InviteGoes
<1> QED  BY <1>1, <1>3, <1>5

LEMMA InviteOver ==
    \E n \in InviteRequest : n = [NoInvite EXCEPT !.step = "ended"] /\ n.step = "ended"
<1>1. PICK n : n = [NoInvite EXCEPT !.step = "ended"]  OBVIOUS
<1>2. n \in InviteRequest /\ n.step = "ended"
  BY <1>1 DEF NoInvite, InviteRequest, Step, AnyMember, AnyRole
<1> QED  BY <1>1, <1>2

LEMMA InviteEndsQuietly ==
    ASSUME MemberInv, Quiet, NEW i \in Invitation, InviteEnds(i), UNCHANGED <<change, accept>>,
           \/ gate = i /\ gate' = NoRequest
           \/ gate # i /\ gate' = gate
    PROVE  MemberInv'
<1>1. PICK n \in InviteRequest : n = [NoInvite EXCEPT !.step = "ended"] /\ n.step = "ended"
  BY InviteOver
<1>2. invite' = [invite EXCEPT ![i] = n]  BY <1>1 DEF InviteEnds
<1>3. FitsInvite(n)  BY <1>1 DEF FitsInvite, Deciding
<1>4. GateMoves(i, invite[i].step, n.step)
  BY <1>1 DEF MemberInv, TypeOK, GateOK, GateMoves, InTransaction
<1> QED  BY <1>1, <1>2, <1>3, <1>4, QuietInvite

LEMMA BeginInviteStep == ASSUME MemberInv, NEW i \in Invitation, BeginInvite(i) PROVE MemberInv'
<1>1. PICK a \in Member, t \in Member, role \in Role :
          /\ MayAct(a)
          /\ invite' = [invite EXCEPT ![i] =
                [step |-> "gate", actor |-> a, actorRole |-> member[a].role,
                 actorVersion |-> member[a].version, target |-> t, role |-> role]]
  BY DEF BeginInvite
<1>2. PICK m \in Membership : m = member[a]  BY DEF MemberInv, TypeOK
<1>3. PICK n : n = [step |-> "gate", actor |-> a, actorRole |-> m.role,
                    actorVersion |-> m.version, target |-> t, role |-> role]
  OBVIOUS
<1>4. n \in InviteRequest /\ n.step = "gate" /\ n.actor = a /\ n.target = t
      /\ n.actorRole = m.role /\ n.actorVersion = m.version
  BY <1>3 DEF InviteRequest, Membership, Step, AnyMember, AnyRole
<1>5. invite' = [invite EXCEPT ![i] = n]  BY <1>1, <1>2, <1>3
<1>6. invite[i].step = "idle" /\ Quiet /\ gate' = gate /\ UNCHANGED <<change, accept>>
  BY DEF BeginInvite, Quiet
<1>7. FitsInvite(n)
  <2>1. Seen(a, m.role, m.version)  BY <1>2 DEF Seen, Membership
  <2>2. Administers(m.role)  BY <1>1, <1>2 DEF MayAct
  <2> QED  BY <1>4, <2>1, <2>2 DEF FitsInvite
<1>8. GateMoves(i, invite[i].step, n.step)
  BY <1>4, <1>6 DEF GateMoves, InTransaction
<1> QED  BY <1>4, <1>5, <1>6, <1>7, <1>8, QuietInvite

LEMMA EnterInviteStep == ASSUME MemberInv, NEW i \in Invitation, EnterInvite(i) PROVE MemberInv'
<1>1. PICK n \in InviteRequest :
              /\ invite' = [invite EXCEPT ![i] = n]
              /\ n.step = "check"
              /\ n.actor = invite[i].actor /\ n.actorRole = invite[i].actorRole
              /\ n.actorVersion = invite[i].actorVersion
              /\ n.target = invite[i].target /\ n.role = invite[i].role
  BY InviteMoves DEF EnterInvite, MemberInv, Step, InTransaction
<1>2. FitsInvite(n)
  BY <1>1 DEF EnterInvite, MemberInv, RequestsFit, FitsInvite, Deciding
<1>3. GateMoves(i, invite[i].step, n.step)
  BY <1>1 DEF EnterInvite, AwaitGate, GateMoves, InTransaction
<1> QED  BY <1>1, <1>2, <1>3, QuietInvite DEF EnterInvite, Quiet

LEMMA CheckInviteStep == ASSUME MemberInv, NEW i \in Invitation, CheckInvite(i) PROVE MemberInv'
<1>1. gate = i /\ invite[i].step = "check"
  BY DEF CheckInvite, MemberInv, TypeOK, GateOK, InTransaction
<1>2. Quiet /\ UNCHANGED <<change, accept>>  BY DEF CheckInvite, Quiet
<1>3. CASE InviteEnds(i) /\ LeaveGate
  BY <1>1, <1>2, <1>3, InviteEndsQuietly DEF LeaveGate
<1>4. CASE /\ StillActs(invite[i]) /\ MayInvite(invite[i])
           /\ InviteGoes(i, "commit") /\ UNCHANGED gate
  <2>1. PICK n \in InviteRequest :
              /\ invite' = [invite EXCEPT ![i] = n]
              /\ n.step = "commit"
              /\ n.actor = invite[i].actor /\ n.actorRole = invite[i].actorRole
              /\ n.actorVersion = invite[i].actorVersion
              /\ n.target = invite[i].target /\ n.role = invite[i].role
    BY <1>4, InviteMoves DEF MemberInv, Step, InTransaction
  <2>2. StillActs(n) /\ MayInvite(n)  BY <1>4, <2>1 DEF StillActs, MayInvite
  <2>3. FitsInvite(n)
    <3>1. FitsInvite(invite[i])  BY DEF MemberInv, RequestsFit
    <3> QED  BY <1>1, <2>1, <2>2, <3>1 DEF FitsInvite, Deciding
  <2>4. GateMoves(i, invite[i].step, n.step)
    BY <1>1, <1>4, <2>1 DEF GateMoves, InTransaction
  <2> QED  BY <1>2, <2>1, <2>3, <2>4, QuietInvite
<1> QED  BY <1>3, <1>4 DEF CheckInvite

\* What a committing invitation still knows, and what it writes.
LEMMA CommitInviteEffect ==
    ASSUME MemberInv, NEW i \in Invitation, CommitInvite(i)
    PROVE  /\ gate = i /\ gate' = NoRequest
           /\ invite[i] \in InviteRequest
           /\ invite[i].actor \in Member /\ invite[i].target \in Member
           /\ MayAct(invite[i].actor)
           /\ member[invite[i].actor].role = invite[i].actorRole
           /\ MayInvite(invite[i])
           /\ invitation' \in [Invitation -> Invitations]
           /\ invitation'[i].status = "pending"
           /\ invitation'[i].target = invite[i].target
           /\ invitation'[i].role = invite[i].role
           /\ \A j \in Invitation : j # i => invitation'[j] = invitation[j]
<1>1. gate = i /\ gate' = NoRequest /\ invite[i].step = "commit"
  BY DEF MemberInv, TypeOK, GateOK, CommitInvite, LeaveGate, InTransaction
<1>2. invite[i] \in InviteRequest /\ FitsInvite(invite[i])
  BY DEF MemberInv, TypeOK, RequestsFit
<1>3. /\ invite[i].actor \in Member /\ invite[i].target \in Member
      /\ MayAct(invite[i].actor)
      /\ member[invite[i].actor].role = invite[i].actorRole
      /\ MayInvite(invite[i])
  BY <1>1, <1>2 DEF FitsInvite, Deciding, StillActs, Seen, MayAct
<1>4. PICK n : n = [status |-> "pending", target |-> invite[i].target, role |-> invite[i].role]
  OBVIOUS
<1>5. n \in Invitations /\ n.status = "pending"
      /\ n.target = invite[i].target /\ n.role = invite[i].role
  BY <1>2, <1>4 DEF Invitations, InviteRequest
<1>6. invitation' = [invitation EXCEPT ![i] = n]  BY <1>4 DEF CommitInvite
<1>7. /\ invitation' \in [Invitation -> Invitations]
      /\ invitation'[i] = n
      /\ \A j \in Invitation : j # i => invitation'[j] = invitation[j]
  BY <1>5, <1>6 DEF MemberInv, TypeOK
<1> QED  BY <1>1, <1>2, <1>3, <1>5, <1>7

LEMMA CommitInviteStep == ASSUME MemberInv, NEW i \in Invitation, CommitInvite(i) PROVE MemberInv'
<1>1. /\ gate = i /\ gate' = NoRequest
      /\ invite[i].target \in Member
      /\ invitation' \in [Invitation -> Invitations]
      /\ invitation'[i].status = "pending"
      /\ invitation'[i].target = invite[i].target
      /\ \A j \in Invitation : j # i => invitation'[j] = invitation[j]
  BY CommitInviteEffect
<1>2. UNCHANGED <<member, change, accept, outboxVars>>  BY DEF CommitInvite
<1>3. PICK n \in InviteRequest : n = [NoInvite EXCEPT !.step = "ended"] /\ n.step = "ended"
  BY InviteOver
<1>4. invite' = [invite EXCEPT ![i] = n]  BY <1>3 DEF CommitInvite, InviteEnds
<1>5. FitsInvite(n)'  BY <1>3 DEF FitsInvite, Deciding
<1>6. GateHolderWrites(i) /\ InvitationsFit'
  BY <1>1, <1>2 DEF MemberInv, TypeOK, GateHolderWrites, InvitationsFit
<1>7. OutboxInv' /\ OutboxGrows(Change)
  BY <1>2 DEF outboxVars, MemberInv, TypeOK, OutboxInv, OutboxTypeOK, OutboxFits, OutboxGrows
<1>8. GateMoves(i, invite[i].step, n.step)
  BY <1>1, <1>3 DEF GateMoves, InTransaction
<1> QED  BY <1>2, <1>3, <1>4, <1>5, <1>6, <1>7, <1>8, InviteStep

LEMMA AbandonInviteStep == ASSUME MemberInv, NEW i \in Invitation, AbandonInvite(i) PROVE MemberInv'
  BY InviteEndsQuietly DEF AbandonInvite, Quiet

----------------------------------------------------------------------------
\* The acceptances

LEMMA QuietAccept ==
    ASSUME MemberInv, Quiet, NEW a \in Acceptance, NEW n \in AcceptRequest,
           accept' = [accept EXCEPT ![a] = n], UNCHANGED <<change, invite>>,
           GateMoves(a, accept[a].step, n.step), FitsAccept(n)
    PROVE  MemberInv'
<1>1. FitsAccept(n)'
  BY DEF Quiet, FitsAccept, Joinable
<1>2. GateHolderWrites(a) /\ InvitationsFit' /\ OutboxInv' /\ OutboxGrows(Change)
  BY QuietStep
<1> QED  BY <1>1, <1>2, AcceptStep

LEMMA AcceptMoves ==
    ASSUME TypeOK, NEW a \in Acceptance, NEW step \in Step, AcceptGoes(a, step)
    PROVE  \E n \in AcceptRequest :
              /\ accept' = [accept EXCEPT ![a] = n]
              /\ n.step = step
              /\ n.invitation = accept[a].invitation
<1>1. PICK c \in AcceptRequest : c = accept[a]  BY DEF TypeOK
<1>2. PICK n : n = [c EXCEPT !.step = step]  OBVIOUS
<1>3. n \in AcceptRequest /\ n.step = step /\ n.invitation = c.invitation
  BY <1>2 DEF AcceptRequest
<1>4. n = [accept[a] EXCEPT !.step = step]  BY <1>1, <1>2, Zenon
<1>5. accept' = [accept EXCEPT ![a] = n]  BY <1>4 DEF AcceptGoes
<1> QED  BY <1>1, <1>3, <1>5

LEMMA AcceptEndsQuietly ==
    ASSUME MemberInv, Quiet, NEW a \in Acceptance, AcceptGoes(a, "ended"),
           UNCHANGED <<change, invite>>,
           \/ gate = a /\ gate' = NoRequest
           \/ gate # a /\ gate' = gate
    PROVE  MemberInv'
<1>1. PICK n \in AcceptRequest : accept' = [accept EXCEPT ![a] = n] /\ n.step = "ended"
  BY AcceptMoves DEF MemberInv, Step
<1>2. FitsAccept(n)  BY <1>1 DEF FitsAccept, Deciding
<1>3. GateMoves(a, accept[a].step, n.step)
  BY <1>1 DEF MemberInv, TypeOK, GateOK, GateMoves, InTransaction
<1> QED  BY <1>1, <1>2, <1>3, QuietAccept

LEMMA BeginAcceptStep == ASSUME MemberInv, NEW a \in Acceptance, BeginAccept(a) PROVE MemberInv'
<1>1. PICK n \in AcceptRequest :
              /\ accept' = [accept EXCEPT ![a] = n]
              /\ n.step = "gate" /\ n.invitation = accept[a].invitation
  BY AcceptMoves DEF BeginAccept, MemberInv, Step
<1>2. FitsAccept(n)  BY <1>1 DEF BeginAccept, FitsAccept
<1>3. GateMoves(a, accept[a].step, n.step)
  BY <1>1 DEF BeginAccept, GateMoves, InTransaction
<1> QED  BY <1>1, <1>2, <1>3, QuietAccept DEF BeginAccept, Quiet

LEMMA EnterAcceptStep == ASSUME MemberInv, NEW a \in Acceptance, EnterAccept(a) PROVE MemberInv'
<1>1. PICK n \in AcceptRequest :
              /\ accept' = [accept EXCEPT ![a] = n]
              /\ n.step = "check" /\ n.invitation = accept[a].invitation
  BY AcceptMoves DEF EnterAccept, MemberInv, Step, InTransaction
<1>2. FitsAccept(n)
  BY <1>1 DEF EnterAccept, MemberInv, RequestsFit, FitsAccept, Deciding
<1>3. GateMoves(a, accept[a].step, n.step)
  BY <1>1 DEF EnterAccept, AwaitGate, GateMoves, InTransaction
<1> QED  BY <1>1, <1>2, <1>3, QuietAccept DEF EnterAccept, Quiet

LEMMA CheckAcceptStep == ASSUME MemberInv, NEW a \in Acceptance, CheckAccept(a) PROVE MemberInv'
<1>1. gate = a /\ accept[a].step = "check"
  BY DEF CheckAccept, MemberInv, TypeOK, GateOK, InTransaction
<1>2. Quiet /\ UNCHANGED <<change, invite>>  BY DEF CheckAccept, Quiet
<1>3. CASE AcceptGoes(a, "ended") /\ LeaveGate
  BY <1>1, <1>2, <1>3, AcceptEndsQuietly DEF LeaveGate
<1>4. CASE /\ invitation[accept[a].invitation].status = "pending"
           /\ Joinable(invitation[accept[a].invitation].target)
           /\ AcceptGoes(a, "commit") /\ UNCHANGED gate
  <2>1. PICK n \in AcceptRequest :
              /\ accept' = [accept EXCEPT ![a] = n]
              /\ n.step = "commit" /\ n.invitation = accept[a].invitation
    BY <1>4, AcceptMoves DEF MemberInv, Step, InTransaction
  <2>2. FitsAccept(n)  BY <1>4, <2>1 DEF FitsAccept
  <2>3. GateMoves(a, accept[a].step, n.step)
    BY <1>1, <1>4, <2>1 DEF GateMoves, InTransaction
  <2> QED  BY <1>2, <2>1, <2>2, <2>3, QuietAccept
<1> QED  BY <1>3, <1>4 DEF CheckAccept

\* What a committing acceptance still knows, and what it writes.
LEMMA CommitAcceptEffect ==
    ASSUME MemberInv, NEW a \in Acceptance, CommitAccept(a)
    PROVE  \E i \in Invitation, t \in Member :
              /\ gate = a /\ gate' = NoRequest
              /\ i = accept[a].invitation /\ t = invitation[i].target
              /\ invitation[i].status = "pending" /\ Joinable(t)
              /\ member' \in [Member -> Membership]
              /\ member'[t].status = "active" /\ member'[t].role = invitation[i].role
              /\ member'[t].version = member[t].version + 1
              /\ \A m \in Member : m # t => member'[m] = member[m]
              /\ invitation' \in [Invitation -> Invitations]
              /\ invitation'[i] = [status |-> "accepted", target |-> t, role |-> member'[t].role]
              /\ \A j \in Invitation : j # i => invitation'[j] = invitation[j]
<1>1. gate = a /\ gate' = NoRequest /\ accept[a].step = "commit"
  BY DEF MemberInv, TypeOK, GateOK, CommitAccept, LeaveGate, InTransaction
<1>2. PICK i \in Invitation : i = accept[a].invitation
  BY DEF MemberInv, TypeOK, AcceptRequest
<1>3. invitation[i].status = "pending" /\ Joinable(invitation[i].target)
  BY <1>1, <1>2 DEF MemberInv, RequestsFit, FitsAccept
<1>4. PICK t \in Member : t = invitation[i].target
  BY <1>3 DEF MemberInv, InvitationsFit
<1>5. PICK m \in Membership : m = member[t]  BY DEF MemberInv, TypeOK
<1>6. PICK o \in Invitations : o = invitation[i]  BY DEF MemberInv, TypeOK
<1>7. PICK n : n = [status |-> "active", role |-> o.role, version |-> m.version + 1]
  OBVIOUS
<1>8. n \in Membership /\ n.status = "active" /\ n.role = o.role /\ n.version = m.version + 1
  BY <1>7 DEF Membership, Invitations, Status
<1>9. member' = [member EXCEPT ![t] = n]
  <2>1. member' = [member EXCEPT ![t] =
                    [status |-> "active", role |-> o.role, version |-> @.version + 1]]
    BY <1>2, <1>4, <1>6 DEF CommitAccept
  <2> QED  BY <1>5, <1>7, <2>1
<1>10. PICK p : p = [o EXCEPT !.status = "accepted"]  OBVIOUS
<1>11. /\ p \in Invitations
       /\ p = [status |-> "accepted", target |-> o.target, role |-> o.role]
  BY <1>10 DEF Invitations
<1>12. invitation' = [invitation EXCEPT ![i] = p]
  <2>1. p = [invitation[i] EXCEPT !.status = "accepted"]  BY <1>6, <1>10, Zenon
  <2>2. invitation' = [invitation EXCEPT ![i].status = "accepted"]
    BY <1>2 DEF CommitAccept
  <2> QED  BY <2>1, <2>2
<1>13. /\ member' \in [Member -> Membership] /\ member'[t] = n
       /\ \A u \in Member : u # t => member'[u] = member[u]
  BY <1>8, <1>9 DEF MemberInv, TypeOK
<1>14. /\ invitation' \in [Invitation -> Invitations] /\ invitation'[i] = p
       /\ \A j \in Invitation : j # i => invitation'[j] = invitation[j]
  BY <1>11, <1>12 DEF MemberInv, TypeOK
<1>15. invitation'[i] = [status |-> "accepted", target |-> t, role |-> member'[t].role]
  BY <1>4, <1>6, <1>8, <1>11, <1>13, <1>14
<1> QED  BY <1>1, <1>2, <1>3, <1>4, <1>5, <1>6, <1>8, <1>13, <1>14, <1>15

LEMMA CommitAcceptStep == ASSUME MemberInv, NEW a \in Acceptance, CommitAccept(a) PROVE MemberInv'
<1>1. PICK i \in Invitation, t \in Member :
              /\ gate = a /\ gate' = NoRequest
              /\ t = invitation[i].target
              /\ Joinable(t)
              /\ member' \in [Member -> Membership]
              /\ member'[t].version = member[t].version + 1
              /\ \A m \in Member : m # t => member'[m] = member[m]
              /\ invitation' \in [Invitation -> Invitations]
              /\ invitation'[i].status = "accepted" /\ invitation'[i].target = t
              /\ \A j \in Invitation : j # i => invitation'[j] = invitation[j]
  <2>1. PICK i \in Invitation, t \in Member :
              /\ gate = a /\ gate' = NoRequest
              /\ t = invitation[i].target
              /\ Joinable(t)
              /\ member' \in [Member -> Membership]
              /\ member'[t].version = member[t].version + 1
              /\ \A m \in Member : m # t => member'[m] = member[m]
              /\ invitation' \in [Invitation -> Invitations]
              /\ invitation'[i] = [status |-> "accepted", target |-> t, role |-> member'[t].role]
              /\ \A j \in Invitation : j # i => invitation'[j] = invitation[j]
    BY CommitAcceptEffect
  <2>2. invitation'[i].status = "accepted" /\ invitation'[i].target = t
    BY <2>1
  <2> QED  BY <2>1, <2>2
<1>2. UNCHANGED <<change, invite, outboxVars>> /\ AcceptGoes(a, "ended")
  BY DEF CommitAccept
<1>3. PICK n \in AcceptRequest : accept' = [accept EXCEPT ![a] = n] /\ n.step = "ended"
  BY <1>2, AcceptMoves DEF MemberInv, Step
<1>4. FitsAccept(n)'  BY <1>3 DEF FitsAccept, Deciding
<1>5. GateHolderWrites(a)  BY <1>1 DEF GateHolderWrites
<1>6. InvitationsFit'  BY <1>1 DEF MemberInv, InvitationsFit
<1>8. OutboxInv' /\ OutboxGrows(Change)
  BY <1>2 DEF outboxVars, MemberInv, TypeOK, OutboxInv, OutboxTypeOK, OutboxFits, OutboxGrows
<1>9. GateMoves(a, accept[a].step, n.step)
  BY <1>1, <1>3 DEF GateMoves, InTransaction
<1> QED  BY <1>2, <1>3, <1>4, <1>5, <1>6, <1>8, <1>9, AcceptStep

LEMMA AbandonAcceptStep == ASSUME MemberInv, NEW a \in Acceptance, AbandonAccept(a) PROVE MemberInv'
  BY AcceptEndsQuietly DEF AbandonAccept, Quiet

----------------------------------------------------------------------------
\* The invariant

LEMMA InitMembers == Init => MemberInv
<1> SUFFICES ASSUME Init PROVE MemberInv
  OBVIOUS
<1>1. OutboxInv
  BY DEF Init, OutboxInit, OutboxInv, OutboxTypeOK, OutboxFits
<1>2. /\ NoChange \in ChangeRequest /\ NoChange.step = "idle"
      /\ NoInvite \in InviteRequest /\ NoInvite.step = "idle"
  BY DEF NoChange, ChangeRequest, NoInvite, InviteRequest, Step, Status, AnyMember, AnyRole
<1>3. /\ change \in [Change -> ChangeRequest] /\ \A k \in Change : change[k].step = "idle"
      /\ invite \in [Invitation -> InviteRequest]
      /\ \A i \in Invitation : invite[i].step = "idle"
  BY <1>2 DEF Init
<1>4. /\ accept \in [Acceptance -> AcceptRequest]
      /\ \A a \in Acceptance : accept[a].step = "idle"
  BY DEF Init, AcceptRequest, Step
<1>5. Unknown \in Membership /\ Invited \in Membership /\ Members \subseteq Membership
  BY DEF Members, Unknown, Invited, Membership, Status, AnyRole, Role
<1>6. member \in [Member -> Membership]
  BY <1>5 DEF Init
<1>7. PICK none : none = [status |-> "absent", target |-> NoMember, role |-> "none"]
  OBVIOUS
<1>8. none \in Invitations /\ none.status = "absent"
  BY <1>7 DEF Invitations, AnyMember, AnyRole
<1>9. invitation \in [Invitation -> Invitations]
      /\ \A i \in Invitation : invitation[i].status = "absent"
  BY <1>7, <1>8 DEF Init
<1>10. GateOK  BY <1>3, <1>4, ConstantsAssumption DEF Init, GateOK, InTransaction
<1>12. RequestsFit
  <2>1. \A k \in Change : task[k].status = "absent"  BY DEF Init, OutboxInit
  <2> QED  BY <1>3, <1>4, <2>1 DEF RequestsFit, FitsChange, FitsInvite, FitsAccept, Deciding
<1> QED  BY <1>1, <1>3, <1>4, <1>6, <1>9, <1>10, <1>12
         DEF MemberInv, TypeOK, OutboxInv, InvitationsFit

\* The dispatchers disturb no request.
LEMMA MembersStay ==
    ASSUME MemberInv, UNCHANGED memberVars, OutboxInv', OutboxGrows(Change)
    PROVE  MemberInv'
<1>1. OutboxInv' /\ OutboxGrows(Change)
  OBVIOUS
<1>2. GateHolderWrites(NoRequest)
  BY DEF memberVars, MemberInv, TypeOK, GateHolderWrites
<1>3. TypeOK'
  BY <1>1 DEF memberVars, MemberInv, TypeOK, GateOK, OutboxInv
<1>4. ASSUME NEW k \in Change PROVE FitsChange(k, change[k])'
  <2>1. k # NoRequest /\ OutboxGrows({k})  BY <1>1, ConstantsAssumption DEF OutboxGrows
  <2>2. \A c : c = change[k] => FitsChange(k, c)'  BY <1>2, <2>1, OtherChangeFits
  <2>3. PICK c : c = change[k] /\ c = change'[k]  BY DEF memberVars
  <2>4. FitsChange(k, c)'  BY <2>2, <2>3
  <2> QED  BY <2>3, <2>4
<1>5. ASSUME NEW i \in Invitation PROVE FitsInvite(invite[i])'
  BY DEF memberVars, MemberInv, RequestsFit, FitsInvite, Seen, StillActs, MayInvite
<1>6. ASSUME NEW a \in Acceptance PROVE FitsAccept(accept[a])'
  BY DEF memberVars, MemberInv, RequestsFit, FitsAccept, Joinable
<1>7. InvitationsFit'
  BY DEF memberVars, MemberInv, InvitationsFit
<1> QED  BY <1>1, <1>3, <1>4, <1>5, <1>6, <1>7 DEF MemberInv, RequestsFit, OutboxInv

LEMMA MembersStep == MemberInv /\ [Next]_vars => MemberInv'
<1> SUFFICES ASSUME MemberInv, [Next]_vars PROVE MemberInv'
  OBVIOUS
<1>1. ASSUME NEW k \in Change,
             \/ BeginChange(k) \/ EnterChange(k) \/ CheckChange(k) \/ CommitChange(k)
             \/ InvalidateNow(k) \/ MarkNow(k) \/ AbandonChange(k)
      PROVE  MemberInv'
  BY <1>1, BeginChangeStep, EnterChangeStep, CheckChangeStep, CommitChangeStep,
     InvalidateNowStep, MarkNowStep, AbandonChangeStep
<1>2. ASSUME NEW i \in Invitation,
             \/ BeginInvite(i) \/ EnterInvite(i) \/ CheckInvite(i) \/ CommitInvite(i)
             \/ AbandonInvite(i)
      PROVE  MemberInv'
  BY <1>2, BeginInviteStep, EnterInviteStep, CheckInviteStep, CommitInviteStep,
     AbandonInviteStep
<1>3. ASSUME NEW a \in Acceptance,
             \/ BeginAccept(a) \/ EnterAccept(a) \/ CheckAccept(a) \/ CommitAccept(a)
             \/ AbandonAccept(a)
      PROVE  MemberInv'
  BY <1>3, BeginAcceptStep, EnterAcceptStep, CheckAcceptStep, CommitAcceptStep,
     AbandonAcceptStep
<1>4. CASE OutboxNext /\ UNCHANGED memberVars
  BY <1>4, OutboxStep, MembersStay DEF MemberInv, TypeOK, OutboxInv
<1>5. CASE UNCHANGED vars
  <2>1. UNCHANGED memberVars /\ Quiet  BY <1>5 DEF vars, memberVars, Quiet
  <2>2. OutboxInv' /\ OutboxGrows(Change)  BY <2>1, QuietStep
  <2> QED  BY <2>1, <2>2, MembersStay
<1> QED  BY <1>1, <1>2, <1>3, <1>4, <1>5 DEF Next

\* The inductive invariant holds in every reachable state.
THEOREM MembersCorrect == Spec => []MemberInv
<1> QED  BY InitMembers, MembersStep, PTL DEF Spec

\* Every table and request keeps its type, and one request at a time is inside
\* a transaction behind the tenant gate.
THEOREM MembersTyped == Spec => []TypeOK
<1>1. MemberInv => TypeOK  BY DEF MemberInv
<1> QED  BY <1>1, MembersCorrect, PTL

----------------------------------------------------------------------------
\* The action properties

\* A membership is written by the commit of a change or of an acceptance.
LEMMA WhoWrites ==
    ASSUME MemberInv, [Next]_vars, member' # member
    PROVE  (\E k \in Change : CommitChange(k)) \/ (\E a \in Acceptance : CommitAccept(a))
  BY DEF Next, vars, memberVars, BeginChange, EnterChange, CheckChange, InvalidateNow, MarkNow,
         AbandonChange, BeginInvite, EnterInvite, CheckInvite, CommitInvite, AbandonInvite,
         BeginAccept, EnterAccept, CheckAccept, AbandonAccept

\* An invitation becomes pending by the commit of the request that creates it.
LEMMA WhoInvites ==
    ASSUME MemberInv, [Next]_vars, NEW i \in Invitation,
           invitation[i].status = "absent", invitation'[i].status = "pending"
    PROVE  CommitInvite(i)
<1>1. ASSUME NEW j \in Invitation, CommitInvite(j) PROVE CommitInvite(i)
  <2>1. j # i => invitation'[i] = invitation[i]  BY <1>1, CommitInviteEffect
  <2>2. j = i  BY <2>1
  <2> QED  BY <1>1, <2>2
<1>2. ASSUME NEW a \in Acceptance, CommitAccept(a) PROVE FALSE
  <2>1. PICK o \in Invitation, t \in Member :
           /\ invitation'[o] = [status |-> "accepted", target |-> t, role |-> member'[t].role]
           /\ \A j \in Invitation : j # o => invitation'[j] = invitation[j]
    BY <1>2, CommitAcceptEffect
  <2>2. invitation'[o].status = "accepted"  BY <2>1
  <2> QED  BY <2>1, <2>2
<1>3. invitation' # invitation  OBVIOUS
<1> QED  BY <1>1, <1>2, <1>3
         DEF Next, vars, memberVars, BeginChange, EnterChange, CheckChange, CommitChange,
             InvalidateNow, MarkNow, AbandonChange, BeginInvite, EnterInvite, CheckInvite,
             AbandonInvite, BeginAccept, EnterAccept, CheckAccept, AbandonAccept

\* What a committing change writes, without its version.
LEMMA ChangeWrites ==
    ASSUME MemberInv, NEW k \in Change, CommitChange(k), NEW m \in Member, member'[m] # member[m]
    PROVE  /\ m = change[k].target /\ member'[m].status = change[k].status
           /\ member'[m].role \in {change[k].role, member[m].role}
           /\ member[m].role = change[k].targetRole => member'[m].role = change[k].role
<1>1. ~(/\ change[k].status = member[change[k].target].status
        /\ change[k].role = change[k].targetRole)
  BY DEF CommitChange
<1>2. PICK n \in Membership :
              /\ n.status = change[k].status
              /\ n.role = IF change[k].role = change[k].targetRole
                          THEN member[change[k].target].role ELSE change[k].role
              /\ member' = [member EXCEPT ![change[k].target] = n]
  BY <1>1, CommitChangeWrites
<1>3. m = change[k].target /\ member'[m] = n  BY <1>2 DEF MemberInv, TypeOK
<1> QED  BY <1>2, <1>3

\* Who holds the gate when a membership changes commits a change of its own.
LEMMA GateHolderCommits ==
    ASSUME MemberInv, [Next]_vars, NEW k \in Change, gate = k, member' # member
    PROVE  CommitChange(k)
<1>1. (\E j \in Change : CommitChange(j)) \/ (\E a \in Acceptance : CommitAccept(a))
  BY WhoWrites
<1>2. ASSUME NEW j \in Change, CommitChange(j) PROVE j = k
  BY <1>2, CommitChangeEffect
<1>3. ASSUME NEW a \in Acceptance, CommitAccept(a) PROVE FALSE
  <2>1. gate = a  BY <1>3, CommitAcceptEffect
  <2> QED  BY <2>1, ConstantsAssumption
<1> QED  BY <1>1, <1>2, <1>3

\* A change of an informed client that takes an owner away leaves another one.
LEMMA InformedLeavesAnOwner ==
    ASSUME MemberInv, NEW k \in Change, CommitChange(k), Informed(change[k]), AlwaysAnOwner
    PROVE  AlwaysAnOwner'
<1>1. PICK c : c = change[k]  OBVIOUS
<1>2. /\ c.target \in Member
      /\ member[c.target].role = c.targetRole
      /\ RemovesOwner(c) => OwnersLocked > 1
  BY <1>1, CommitChangeEffect
<1>3. ASSUME NEW m \in Member, member'[m] # member[m]
      PROVE  m = c.target /\ member'[m].status = c.status /\ member'[m].role = c.role
  BY <1>1, <1>2, <1>3, ChangeWrites
<1>4. CASE RemovesOwner(c)
  <2>1. PICK m \in Member : m # c.target /\ ActiveOwner(m)  BY <1>2, <1>4, AnotherOwner
  <2> QED  BY <1>3, <2>1 DEF AlwaysAnOwner, ActiveOwner
<1>5. CASE ~RemovesOwner(c)
  <2>1. PICK m \in Member : ActiveOwner(m)  BY DEF AlwaysAnOwner
  <2>2. CASE member'[m] = member[m]
    BY <2>1, <2>2 DEF AlwaysAnOwner, ActiveOwner
  <2>3. CASE member'[m] # member[m]
    <3>1. m = c.target /\ member'[m].status = c.status /\ member'[m].role = c.role
      BY <1>3, <2>3
    <3>2. c.status = "active" /\ c.role = "owner"
      BY <1>2, <1>5, <2>1, <3>1 DEF RemovesOwner, ActiveOwner
    <3> QED  BY <3>1, <3>2 DEF AlwaysAnOwner, ActiveOwner
  <2> QED  BY <2>2, <2>3
<1> QED  BY <1>4, <1>5

\* The count of the active owners behind the gate keeps one of them, however
\* many removals race, unless the client of a removal guessed a version that
\* its snapshot did not have.
THEOREM LastOwnerRemains == Spec => LastOwnerStays
<1>1. MemberInv /\ [Next]_vars =>
        [AlwaysAnOwner =>
            \/ AlwaysAnOwner'
            \/ \E k \in Change : gate = k /\ ~Informed(change[k])]_vars
  <2> SUFFICES ASSUME MemberInv, [Next]_vars, AlwaysAnOwner, ~AlwaysAnOwner'
      PROVE  \E k \in Change : gate = k /\ ~Informed(change[k])
    OBVIOUS
  <2>1. member' # member  BY DEF AlwaysAnOwner, ActiveOwner
  <2>2. ASSUME NEW a \in Acceptance, CommitAccept(a) PROVE FALSE
    <3>1. PICK t \in Member :
              Joinable(t) /\ \A m \in Member : m # t => member'[m] = member[m]
      BY <2>2, CommitAcceptEffect
    <3>2. PICK m \in Member : ActiveOwner(m)  BY DEF AlwaysAnOwner
    <3>3. m # t  BY <3>1, <3>2 DEF Joinable, ActiveOwner
    <3> QED  BY <3>1, <3>2, <3>3 DEF AlwaysAnOwner, ActiveOwner
  <2>3. PICK k \in Change : CommitChange(k)  BY <2>1, <2>2, WhoWrites
  <2>4. gate = k  BY <2>3, CommitChangeEffect
  <2>5. ~Informed(change[k])  BY <2>3, InformedLeavesAnOwner
  <2> QED  BY <2>4, <2>5
<1> QED  BY <1>1, MembersCorrect, PTL DEF Spec, LastOwnerStays

\* No change and no invitation is committed on a role of its administrator
\* that was replaced after the snapshot, and no change of an informed client
\* on such a role of its target.
THEOREM AuthorityStaysCurrent == Spec => AuthorityIsCurrent
<1>1. MemberInv /\ [Next]_vars =>
        [/\ \A k \in Change, m \in Member :
              gate = k /\ member'[m] # member[m] =>
                  LET a == change[k].actor IN
                  /\ MayAct(a)
                  /\ member'[m].role # member[m].role =>
                        Rank[member'[m].role] <= Rank[member[a].role]
                  /\ Informed(change[k]) =>
                        /\ Above(a, m)
                        /\ Rank[member'[m].role] <= Rank[member[a].role]
         /\ \A i \in Invitation :
              invitation[i].status = "absent" /\ invitation'[i].status = "pending" =>
                  /\ MayAct(invite[i].actor)
                  /\ Rank[invitation'[i].role] <= Rank[member[invite[i].actor].role]]_vars
  <2> SUFFICES ASSUME MemberInv, [Next]_vars
      PROVE  /\ \A k \in Change, m \in Member :
                  gate = k /\ member'[m] # member[m] =>
                      /\ MayAct(change[k].actor)
                      /\ member'[m].role # member[m].role =>
                            Rank[member'[m].role] <= Rank[member[change[k].actor].role]
                      /\ Informed(change[k]) =>
                            /\ Above(change[k].actor, m)
                            /\ Rank[member'[m].role] <= Rank[member[change[k].actor].role]
             /\ \A i \in Invitation :
                  invitation[i].status = "absent" /\ invitation'[i].status = "pending" =>
                      /\ MayAct(invite[i].actor)
                      /\ Rank[invitation'[i].role] <= Rank[member[invite[i].actor].role]
    OBVIOUS
  <2>1. ASSUME NEW k \in Change, NEW m \in Member, gate = k, member'[m] # member[m]
        PROVE  /\ MayAct(change[k].actor)
               /\ member'[m].role # member[m].role =>
                     Rank[member'[m].role] <= Rank[member[change[k].actor].role]
               /\ Informed(change[k]) =>
                     /\ Above(change[k].actor, m)
                     /\ Rank[member'[m].role] <= Rank[member[change[k].actor].role]
    <3>1. CommitChange(k)  BY <2>1, GateHolderCommits
    <3>2. /\ m = change[k].target
          /\ member'[m].role \in {change[k].role, member[m].role}
          /\ member[m].role = change[k].targetRole => member'[m].role = change[k].role
      BY <2>1, <3>1, ChangeWrites
    <3>3. /\ MayAct(change[k].actor)
          /\ member[change[k].actor].role = change[k].actorRole
          /\ Informed(change[k]) => member[change[k].target].role = change[k].targetRole
          /\ Allowed(change[k])
      BY <3>1, CommitChangeEffect
    <3> QED  BY <3>2, <3>3 DEF Allowed, Above
  <2>2. ASSUME NEW i \in Invitation,
               invitation[i].status = "absent", invitation'[i].status = "pending"
        PROVE  /\ MayAct(invite[i].actor)
               /\ Rank[invitation'[i].role] <= Rank[member[invite[i].actor].role]
    <3>1. CommitInvite(i)  BY <2>2, WhoInvites
    <3>2. /\ MayAct(invite[i].actor)
          /\ member[invite[i].actor].role = invite[i].actorRole
          /\ MayInvite(invite[i])
          /\ invitation'[i].role = invite[i].role
          /\ invite[i] \in InviteRequest
      BY <3>1, CommitInviteEffect
    <3> QED  BY <3>2 DEF MayInvite, InviteRequest, AnyRole, Role, Rank
  <2> QED  BY <2>1, <2>2
<1> QED  BY <1>1, MembersCorrect, PTL DEF Spec, AuthorityIsCurrent

\* A membership begins by exactly one pending invitation for its user, and a
\* revoked one stays as it is.
THEOREM MembersJoinOnce == Spec => JoinsOnce
<1>1. MemberInv /\ [Next]_vars =>
        [\A m \in Member :
            /\ member[m].status = "revoked" => member'[m] = member[m]
            /\ member[m].status \in {"absent", "invited"} /\ member'[m] # member[m] =>
                  \E i \in Invitation :
                      /\ invitation[i].status = "pending"
                      /\ invitation'[i] = [status |-> "accepted", target |-> m,
                                           role |-> member'[m].role]]_vars
  <2> SUFFICES ASSUME MemberInv, [Next]_vars, NEW m \in Member, member'[m] # member[m]
      PROVE  /\ member[m].status # "revoked"
             /\ member[m].status \in {"absent", "invited"} =>
                  \E i \in Invitation :
                      /\ invitation[i].status = "pending"
                      /\ invitation'[i] = [status |-> "accepted", target |-> m,
                                           role |-> member'[m].role]
    OBVIOUS
  <2>1. ASSUME NEW k \in Change, CommitChange(k)
        PROVE  member[m].status \notin {"revoked", "absent", "invited"}
    <3>1. m = change[k].target  BY <2>1, ChangeWrites
    <3>2. Allowed(change[k])  BY <2>1, CommitChangeEffect
    <3> QED  BY <3>1, <3>2 DEF Allowed
  <2>2. ASSUME NEW a \in Acceptance, CommitAccept(a)
        PROVE  /\ member[m].status # "revoked"
               /\ \E i \in Invitation :
                      /\ invitation[i].status = "pending"
                      /\ invitation'[i] = [status |-> "accepted", target |-> m,
                                           role |-> member'[m].role]
    <3>1. PICK i \in Invitation, t \in Member :
              /\ invitation[i].status = "pending" /\ Joinable(t)
              /\ \A u \in Member : u # t => member'[u] = member[u]
              /\ invitation'[i] = [status |-> "accepted", target |-> t, role |-> member'[t].role]
      BY <2>2, CommitAcceptEffect
    <3>2. m = t  BY <3>1
    <3> QED  BY <3>1, <3>2 DEF Joinable
  <2>3. (\E k \in Change : CommitChange(k)) \/ (\E a \in Acceptance : CommitAccept(a))
    BY WhoWrites
  <2> QED  BY <2>1, <2>2, <2>3
<1> QED  BY <1>1, MembersCorrect, PTL DEF Spec, JoinsOnce

LEMMA CompletedStays ==
    ASSUME MemberInv, [Next]_vars, NEW k \in Change, task[k].status = "completed"
    PROVE  task'[k].status = "completed"
<1>1. task \in [Change -> [status : {"absent", "pending", "processing", "completed"},
                           token : Nat]]
  BY DEF MemberInv, TypeOK, OutboxTypeOK
<1>2. ASSUME NEW j \in Change, CommitChange(j) PROVE task'[k].status = "completed"
  <2>1. task[j].status = "absent"
    <3>1. FitsChange(j, change[j]) /\ change[j].step = "commit"
      BY <1>2, CommitChangeEffect
    <3> QED  BY <3>1 DEF FitsChange, Deciding
  <2>2. task' = task \/ AddTask(j)  BY <1>2 DEF CommitChange
  <2> QED  BY <1>1, <2>1, <2>2 DEF AddTask
<1>3. ASSUME NEW j \in Change, MarkNow(j) PROVE task'[k].status = "completed"
  BY <1>1, <1>3 DEF MarkNow, CompleteImmediately
<1>4. CASE OutboxNext
  BY <1>4, OutboxStep DEF MemberInv, TypeOK, OutboxGrows
<1> QED
  BY <1>2, <1>3, <1>4
  DEF Next, vars, outboxVars, BeginChange, EnterChange, CheckChange, InvalidateNow,
      AbandonChange, BeginInvite, EnterInvite, CheckInvite, CommitInvite, AbandonInvite,
      BeginAccept, EnterAccept, CheckAccept, CommitAccept, AbandonAccept

\* A task is completed only after its entry was removed, and for good, whichever
\* of the request and the dispatchers comes first or late.
THEOREM TasksSettleTruly == Spec => SettledIsInvalidated
<1>1. MemberInv /\ MemberInv' /\ [Next]_vars =>
        [\A k \in Change :
            /\ task'[k].status = "completed" => k \in invalidated'
            /\ task[k].status = "completed" => task'[k].status = "completed"]_outboxVars
  BY CompletedStays DEF MemberInv, OutboxFits
<1> QED  BY <1>1, MembersCorrect, PTL DEF Spec, SettledIsInvalidated

----------------------------------------------------------------------------
\* The rollout

\* A tenant under creation does not exist yet, a tenant without a state row has
\* applied nothing, and a batch claimed only tenants with a state row.
ClaimsFit ==
    /\ \A t \in Tenant : creating[t] # "no" => t \notin tenants
    /\ \A t \in Tenant : ~state[t].known => state[t].applied = 0
    /\ \A b \in Batch : \A t \in batch[b].claimed : state[t].known

RolloutInv == RolloutTypeOK /\ TransitionIsWhole /\ ClaimsFit /\ AppliedIsGranted

LEMMA InitRollout == RolloutInit => RolloutInv
<1> SUFFICES ASSUME RolloutInit PROVE RolloutInv
  OBVIOUS
<1>1. NoState \in State /\ \A t \in Tenant : state[t] = NoState
  BY DEF RolloutInit, State, NoState
<1>2. \A t \in Tenant : /\ state[t].known = FALSE /\ state[t].applied = 0
                        /\ state[t].target = 0
  BY <1>1 DEF NoState
<1>3. RolloutTypeOK
  <2>1. state \in [Tenant -> State]  BY <1>1 DEF RolloutInit
  <2>2. \A t \in Tenant : state[t].applied <= state[t].target  BY <1>2
  <2> QED  BY <1>2, <2>1, <2>2 DEF RolloutInit, RolloutTypeOK, Phase, NoBatch
<1>4. TransitionIsWhole
  <2>1. ~Activates(0)  BY DEF Activates
  <2> QED  BY <2>1 DEF RolloutInit, TransitionIsWhole, TemplatesExpected
<1>5. ClaimsFit /\ AppliedIsGranted  BY <1>2 DEF RolloutInit, ClaimsFit, AppliedIsGranted, NoBatch
<1> QED  BY <1>3, <1>4, <1>5 DEF RolloutInv

\* Generations alternate.
LEMMA NextGeneration ==
    ASSUME NEW g \in Nat
    PROVE  Activates(g + 1) <=> ~Activates(g)
  BY DEF Activates

\* A batch keeps of its claim no more than it had.
LEMMA RemainEffect ==
    ASSUME RolloutInv, NEW b \in Batch, NEW rest \in SUBSET batch[b].claimed, Remain(b, rest)
    PROVE  /\ batch' \in [Batch -> [generation : Nat, feature : BOOLEAN, claimed : SUBSET Tenant]]
           /\ \A c \in Batch : batch'[c].claimed \subseteq batch[c].claimed
<1>1. batch \in [Batch -> [generation : Nat, feature : BOOLEAN, claimed : SUBSET Tenant]]
  BY DEF RolloutInv, RolloutTypeOK
<1>2. PICK n : n = IF rest = {} THEN NoBatch ELSE [batch[b] EXCEPT !.claimed = rest]
  OBVIOUS
<1>3. n \in [generation : Nat, feature : BOOLEAN, claimed : SUBSET Tenant] /\ n.claimed = rest
  BY <1>1, <1>2 DEF NoBatch
<1>4. batch' = [batch EXCEPT ![b] = n]  BY <1>1, <1>2 DEF Remain
<1> QED  BY <1>1, <1>3, <1>4

\* A step that changes only what a batch still has to do.
LEMMA LeavesStep ==
    ASSUME RolloutInv, NEW b \in Batch, NEW rest \in SUBSET batch[b].claimed, Remain(b, rest),
           UNCHANGED <<phase, generation, templates, tenants, creating, granted, state>>
    PROVE  RolloutInv'
<1>1. /\ batch' \in [Batch -> [generation : Nat, feature : BOOLEAN, claimed : SUBSET Tenant]]
      /\ \A c \in Batch : batch'[c].claimed \subseteq batch[c].claimed
  BY RemainEffect
<1>2. RolloutTypeOK'  BY <1>1 DEF RolloutInv, RolloutTypeOK
<1>3. ClaimsFit'  BY <1>1 DEF RolloutInv, ClaimsFit
<1> QED  BY <1>2, <1>3 DEF RolloutInv, TransitionIsWhole, TemplatesExpected, Activates, AppliedIsGranted

\* What a batch writes for a tenant, state row and roles in one transaction.
LEMMA ApplyStep ==
    ASSUME RolloutInv, NEW b \in Batch, NEW t \in batch[b].claimed, NEW feature \in BOOLEAN,
           WithinTarget(b, t), Applied(b, t, feature),
           granted' = IF feature THEN granted \cup {t} ELSE granted \ {t},
           UNCHANGED <<phase, generation, templates, tenants, creating>>
    PROVE  RolloutInv'
<1>1. t \in Tenant /\ t \in tenants /\ state[t].known
  BY DEF RolloutInv, RolloutTypeOK, ClaimsFit
<1>2. PICK g \in Nat : g = batch[b].generation /\ g <= state[t].target
  BY DEF RolloutInv, RolloutTypeOK, WithinTarget
<1>3. /\ state'[t].applied = g
      /\ state'[t].feature = feature
      /\ \A u \in Tenant : u # t => state'[u] = state[u]
      /\ state' \in [Tenant -> State]
      /\ \A u \in Tenant : state'[u].known = state[u].known /\ state'[u].target = state[u].target
  <2>1. state \in [Tenant -> State]  BY DEF RolloutInv, RolloutTypeOK
  <2>2. PICK n : n = [state[t] EXCEPT !.applied = g, !.feature = feature]
    OBVIOUS
  <2>3. n \in State /\ n.known = state[t].known /\ n.target = state[t].target
        /\ n.applied = g /\ n.feature = feature
    <3>1. PICK s \in State : s = state[t] /\ n = [s EXCEPT !.applied = g, !.feature = feature]
      <4>1. state[t] \in State  BY <1>1, <2>1
      <4> QED  BY <2>2, <4>1, Zenon
    <3>2. n = [s EXCEPT !.applied = g, !.feature = feature]  BY <3>1, Zenon
    <3>3. n \in State /\ n.known = s.known /\ n.target = s.target /\ n.applied = g /\ n.feature = feature
      BY <3>2 DEF State
    <3> QED  BY <3>1, <3>3
  <2>4. state' = [state EXCEPT ![t] = n]
    BY <1>1, <1>2, <2>1, <2>2 DEF Applied
  <2> QED  BY <1>1, <2>1, <2>3, <2>4
<1>4. /\ batch' \in [Batch -> [generation : Nat, feature : BOOLEAN, claimed : SUBSET Tenant]]
      /\ \A c \in Batch : batch'[c].claimed \subseteq batch[c].claimed
  BY RemainEffect DEF Applied, Leaves
<1>5. RolloutTypeOK'
  <2>1. \A u \in Tenant : state'[u].applied <= state'[u].target
    BY <1>1, <1>2, <1>3 DEF RolloutInv, RolloutTypeOK
  <2> QED  BY <1>1, <1>3, <1>4, <2>1 DEF RolloutInv, RolloutTypeOK
<1>6. ClaimsFit'
  <2>1. \A u \in Tenant : ~state'[u].known => state'[u].applied = 0
    BY <1>1, <1>3 DEF RolloutInv, ClaimsFit
  <2>2. ASSUME NEW c \in Batch, NEW u \in batch'[c].claimed PROVE state'[u].known
    <3>1. u \in batch[c].claimed /\ u \in Tenant  BY <1>4 DEF RolloutInv, RolloutTypeOK
    <3> QED  BY <1>3, <3>1 DEF RolloutInv, ClaimsFit
  <2> QED  BY <2>1, <2>2 DEF RolloutInv, ClaimsFit
<1>7. AppliedIsGranted'
  <2> SUFFICES ASSUME NEW u \in Tenant, state'[u].applied > 0
               PROVE  state'[u].feature <=> u \in granted'
    BY DEF AppliedIsGranted
  <2>1. CASE u = t
    <3>1. state'[u].feature = feature  BY <1>3, <2>1
    <3> QED  BY <2>1, <3>1
  <2>2. CASE u # t
    <3>1. (u \in granted') <=> (u \in granted)  BY <2>2
    <3> QED  BY <1>3, <2>2, <3>1 DEF RolloutInv, AppliedIsGranted
  <2> QED  BY <2>1, <2>2
<1> QED  BY <1>5, <1>6, <1>7 DEF RolloutInv, TransitionIsWhole, TemplatesExpected, Activates

LEMMA RolloutStep == RolloutInv /\ [RolloutNext]_rolloutVars => RolloutInv'
<1> SUFFICES ASSUME RolloutInv, [RolloutNext]_rolloutVars PROVE RolloutInv'
  OBVIOUS
<1> USE DEF RolloutInv
<1>1. ASSUME NEW t \in Tenant, Clone(t) PROVE RolloutInv'
  BY <1>1 DEF Clone, RolloutTypeOK, TransitionIsWhole, ClaimsFit, AppliedIsGranted,
              TemplatesExpected, Activates
<1>2. ASSUME NEW t \in Tenant, CommitCreation(t) PROVE RolloutInv'
  <2>1. t \notin tenants /\ state[t].applied = 0
    BY <1>2 DEF CommitCreation, RolloutTypeOK, ClaimsFit
  <2>2. RolloutTypeOK'  BY <1>2 DEF CommitCreation, RolloutTypeOK
  <2>3. ClaimsFit'  BY <1>2 DEF CommitCreation, RolloutTypeOK, ClaimsFit
  <2>4. \A u \in Tenant : u # t => (u \in granted' <=> u \in granted)
    BY <1>2 DEF CommitCreation
  <2>5. AppliedIsGranted'
    BY <1>2, <2>1, <2>4 DEF CommitCreation, AppliedIsGranted
  <2> QED  BY <1>2, <2>2, <2>3, <2>5 DEF CommitCreation, TransitionIsWhole, TemplatesExpected, Activates
<1>3. CASE Reconcile
  <2>1. \A t \in Tenant : state'[t] = IF t \in tenants /\ ~state[t].known
                                      THEN [NoState EXCEPT !.known = TRUE] ELSE state[t]
    BY <1>3 DEF Reconcile
  <2>2. RolloutTypeOK'
    <3>1. /\ [NoState EXCEPT !.known = TRUE] \in State
          /\ [NoState EXCEPT !.known = TRUE].applied = 0
          /\ [NoState EXCEPT !.known = TRUE].target = 0
      BY DEF NoState, State
    <3>2. state' \in [Tenant -> State]
      BY <1>3, <3>1, Zenon DEF Reconcile, RolloutTypeOK
    <3>3. \A t \in Tenant : /\ state'[t].known => t \in tenants
                            /\ state'[t].applied <= state'[t].target
      <4>1. PICK n : n = [NoState EXCEPT !.known = TRUE]
        OBVIOUS
      <4>2. n.applied = 0 /\ n.target = 0  BY <3>1, <4>1, Zenon
      <4>3. \A t \in Tenant : state'[t] = IF t \in tenants /\ ~state[t].known THEN n ELSE state[t]
        BY <2>1, <4>1, Zenon
      <4> QED  BY <4>2, <4>3 DEF RolloutTypeOK
    <3> QED  BY <1>3, <3>2, <3>3 DEF Reconcile, RolloutTypeOK
  <2>3. ClaimsFit'
    <3>1. \A t \in Tenant : state[t].known => state'[t] = state[t]
      BY <2>1
    <3>2. \A t \in Tenant : ~state'[t].known => state'[t].applied = 0
      BY <2>1 DEF ClaimsFit, NoState
    <3>3. \A b \in Batch : \A t \in batch[b].claimed : state'[t] = state[t]
      BY <3>1 DEF RolloutTypeOK, ClaimsFit
    <3> QED  BY <1>3, <3>2, <3>3 DEF Reconcile, ClaimsFit
  <2>4. AppliedIsGranted'
    <3>1. \A t \in Tenant : state'[t].applied > 0 => state'[t] = state[t]
      BY <2>1 DEF NoState
    <3> QED  BY <1>3, <3>1 DEF Reconcile, AppliedIsGranted
  <2> QED  BY <1>3, <2>2, <2>3, <2>4 DEF Reconcile, TransitionIsWhole, TemplatesExpected, Activates
<1>4. CASE BeginActivation
  <2>1. ~Activates(generation)  BY <1>4 DEF BeginActivation, TransitionIsWhole
  <2>2. generation \in Nat  BY DEF RolloutTypeOK
  <2>3. Activates(generation')  BY <1>4, <2>1, <2>2, NextGeneration DEF BeginActivation
  <2>4. TransitionIsWhole'
    BY <1>4, <2>3 DEF BeginActivation, TransitionIsWhole, TemplatesExpected, Activates
  <2>5. RolloutTypeOK'  BY <1>4, <2>2 DEF BeginActivation, RolloutTypeOK, Phase
  <2>6. ClaimsFit'  BY <1>4 DEF BeginActivation, ClaimsFit
  <2> QED  BY <1>4, <2>4, <2>5, <2>6 DEF BeginActivation, AppliedIsGranted
<1>5. CASE BeginDeactivation
  <2>1. Activates(generation)  BY <1>5 DEF BeginDeactivation, TransitionIsWhole
  <2>2. generation \in Nat  BY DEF RolloutTypeOK
  <2>3. ~Activates(generation')  BY <1>5, <2>1, <2>2, NextGeneration DEF BeginDeactivation
  <2>4. TransitionIsWhole'
    BY <1>5, <2>3 DEF BeginDeactivation, TransitionIsWhole, TemplatesExpected, Activates
  <2>5. RolloutTypeOK'  BY <1>5, <2>2 DEF BeginDeactivation, RolloutTypeOK, Phase
  <2>6. ClaimsFit'  BY <1>5 DEF BeginDeactivation, ClaimsFit
  <2> QED  BY <1>5, <2>4, <2>5, <2>6 DEF BeginDeactivation, AppliedIsGranted
<1>6. ASSUME NEW g \in 1 .. MaxGeneration, FinalizeActivation(g) \/ FinalizeDeactivation(g)
      PROVE  RolloutInv'
  BY <1>6 DEF FinalizeActivation, FinalizeDeactivation, RolloutTypeOK, TransitionIsWhole, ClaimsFit,
              AppliedIsGranted, TemplatesExpected, Activates, Phase
<1>7. ASSUME NEW b \in Batch, NEW g \in 1 .. MaxGeneration, ClaimBatch(b, g) PROVE RolloutInv'
  <2>1. PICK feature \in BOOLEAN, claimed \in SUBSET Behind(g) :
          /\ batch' = [batch EXCEPT ![b] = [generation |-> g, feature |-> feature,
                                            claimed |-> claimed]]
          /\ state' = [t \in Tenant |-> IF t \in claimed THEN [state[t] EXCEPT !.target = g]
                                                         ELSE state[t]]
    BY <1>7 DEF ClaimBatch
  <2>2. /\ g \in Nat /\ claimed \subseteq Tenant
        /\ \A t \in claimed : state[t].known /\ state[t].applied < g
    BY GenerationAssumption DEF Behind
  <2>3. \A t \in claimed : state'[t].target = g
    BY <2>1, <2>2 DEF RolloutTypeOK, State
  <2>4. \A t \in Tenant : /\ state'[t].known = state[t].known
                          /\ state'[t].applied = state[t].applied
                          /\ state'[t].feature = state[t].feature
    BY <2>1 DEF RolloutTypeOK, State
  <2>5. \A t \in Tenant : t \notin claimed => state'[t] = state[t]
    BY <2>1
  <2>6. RolloutTypeOK'
    <3>1. state' \in [Tenant -> State]  BY <2>1, <2>2 DEF RolloutTypeOK, State
    <3>2. batch' \in [Batch -> [generation : Nat, feature : BOOLEAN, claimed : SUBSET Tenant]]
      BY <2>1, <2>2 DEF RolloutTypeOK
    <3>3. \A t \in Tenant : state'[t].applied <= state'[t].target
      BY <2>2, <2>3, <2>4, <2>5 DEF RolloutTypeOK, State
    <3> QED  BY <1>7, <2>4, <3>1, <3>2, <3>3 DEF ClaimBatch, RolloutTypeOK
  <2>7. ClaimsFit'
    <3>1. ASSUME NEW c \in Batch, NEW t \in batch'[c].claimed PROVE state'[t].known
      <4>1. t \in Tenant /\ state[t].known
        <5>1. CASE c = b
          <6>1. t \in claimed  BY <2>1, <5>1 DEF RolloutTypeOK
          <6> QED  BY <2>2, <6>1
        <5>2. CASE c # b
          <6>1. t \in batch[c].claimed  BY <2>1, <5>2 DEF RolloutTypeOK
          <6> QED  BY <6>1 DEF RolloutTypeOK, ClaimsFit
        <5> QED  BY <5>1, <5>2
      <4> QED  BY <2>4, <4>1
    <3> QED  BY <1>7, <2>4, <3>1 DEF ClaimBatch, ClaimsFit
  <2>8. AppliedIsGranted'
    BY <1>7, <2>4 DEF ClaimBatch, AppliedIsGranted
  <2> QED  BY <1>7, <2>6, <2>7, <2>8 DEF ClaimBatch, TransitionIsWhole, TemplatesExpected, Activates
<1>8. ASSUME NEW t \in Tenant, NEW g \in 1 .. MaxGeneration, ClaimTenant(t, g) PROVE RolloutInv'
  <2>1. g \in Nat /\ state[t].known /\ state[t].applied < g
    BY <1>8, GenerationAssumption DEF ClaimTenant, Behind
  <2>2. /\ state'[t] = [state[t] EXCEPT !.target = g]
        /\ \A u \in Tenant : u # t => state'[u] = state[u]
        /\ state' \in [Tenant -> State]
    BY <1>8, <2>1 DEF ClaimTenant, RolloutTypeOK, State
  <2>3. \A u \in Tenant : /\ state'[u].known = state[u].known
                          /\ state'[u].applied = state[u].applied
                          /\ state'[u].feature = state[u].feature
    BY <2>2 DEF RolloutTypeOK, State
  <2>4. state'[t].target = g  BY <2>2 DEF RolloutTypeOK, State
  <2>5. RolloutTypeOK'
    <3>1. \A u \in Tenant : state'[u].applied <= state'[u].target
      BY <2>1, <2>2, <2>3, <2>4 DEF RolloutTypeOK, State
    <3> QED  BY <1>8, <2>2, <2>3, <3>1 DEF ClaimTenant, RolloutTypeOK
  <2>6. ClaimsFit'
    <3>1. \A c \in Batch : \A u \in batch[c].claimed : u \in Tenant
      BY DEF RolloutTypeOK
    <3> QED  BY <1>8, <2>3, <3>1 DEF ClaimTenant, ClaimsFit
  <2> QED  BY <1>8, <2>3, <2>5, <2>6
           DEF ClaimTenant, AppliedIsGranted, TransitionIsWhole, TemplatesExpected, Activates
<1>9. ASSUME NEW b \in Batch, NEW t \in Tenant, ApplyActivation(b, t) PROVE RolloutInv'
  <2>1. CASE t \notin granted /\ WithinTarget(b, t)
    <3>1. granted' = IF TRUE THEN granted \cup {t} ELSE granted \ {t}
      BY <1>9, <2>1 DEF ApplyActivation
    <3> QED  BY <1>9, <2>1, <3>1, ApplyStep DEF ApplyActivation
  <2>2. CASE ~(t \notin granted /\ WithinTarget(b, t))
    BY <1>9, <2>2, LeavesStep DEF ApplyActivation, Leaves
  <2> QED  BY <2>1, <2>2
<1>10. ASSUME NEW b \in Batch, NEW t \in Tenant, ApplyDeactivation(b, t) PROVE RolloutInv'
  <2>1. CASE WithinTarget(b, t)
    <3>1. granted' = IF FALSE THEN granted \cup {t} ELSE granted \ {t}
      BY <1>10, <2>1 DEF ApplyDeactivation
    <3> QED  BY <1>10, <2>1, <3>1, ApplyStep DEF ApplyDeactivation
  <2>2. CASE ~WithinTarget(b, t)
    BY <1>10, <2>2, LeavesStep DEF ApplyDeactivation, Leaves
  <2> QED  BY <2>1, <2>2
<1>11. ASSUME NEW b \in Batch, ApplyFails(b) PROVE RolloutInv'
  BY <1>11, LeavesStep DEF ApplyFails
<1>12. CASE UNCHANGED rolloutVars
  BY <1>12 DEF rolloutVars, RolloutTypeOK, TransitionIsWhole, ClaimsFit, AppliedIsGranted,
               TemplatesExpected, Activates
<1> QED  BY <1>1, <1>2, <1>3, <1>4, <1>5, <1>6, <1>7, <1>8, <1>9, <1>10, <1>11, <1>12 DEF RolloutNext

\* Tables and memory of the rollout stay consistent: permission_rollout.py, with
\* batches that are overtaken, fail halfway or never come back.
THEOREM RolloutCorrect == RolloutSpec => []RolloutInv
<1> QED  BY InitRollout, RolloutStep, PTL DEF RolloutSpec

\* Phase, generation and templates tell the same story at every moment, so that
\* create_application finds the templates it expects.
THEOREM TransitionsAreWhole == RolloutSpec => []TransitionIsWhole
<1>1. RolloutInv => TransitionIsWhole  BY DEF RolloutInv
<1> QED  BY <1>1, RolloutCorrect, PTL

\* The state row of a tenant tells what its roles have: record_activation and
\* record_deactivation commit with the roles, whatever generation and direction
\* the caller names and whenever its batch runs.
THEOREM AppliedMeansGranted == RolloutSpec => []AppliedIsGranted
<1>1. RolloutInv => AppliedIsGranted  BY DEF RolloutInv
<1> QED  BY <1>1, RolloutCorrect, PTL
=============================================================================

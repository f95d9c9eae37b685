---------------------------- MODULE TenantMembers ----------------------------
(***************************************************************************)
(* The members of one tenant: changes and revocations by administrators,   *)
(* invitations, and their acceptance.  Every one of these transactions     *)
(* takes the tenant gate, an exclusive lock on the tenant's row, before it *)
(* decides; what it read before that lock may be old.                      *)
(*                                                                         *)
(* A change reads a plain snapshot first and is authorised on it.  Behind  *)
(* the gate it reads the memberships again, but the roles still come from  *)
(* the view of the first read.  `version' stands for the columns version   *)
(* and authz_version, which no operation changes one without the other.    *)
(*                                                                         *)
(* A membership has the highest of its roles; departments, and the roles   *)
(* that administer nothing beyond one department, are left out.  If-Match  *)
(* is whatever the client sends, and is compared with the locked row and   *)
(* never with the snapshot that the roles of the target come from: an      *)
(* informed client names a version that the snapshot still has, another    *)
(* one may name the version that comes next.  A replay, the subject of     *)
(* Idempotency, changes nothing here.                                      *)
(***************************************************************************)
EXTENDS AuthorizationCacheOutbox, FiniteSets

CONSTANTS Member,      \* users, who have at most one membership each
          Founder,     \* those with a membership of type owner
          Invitation,  \* invitations, with the request that creates each
          Acceptance,  \* requests that accept an invitation
          ETag,        \* the versions that If-Match names
          NoRequest,   \* the gate is free
          NoMember     \* a request that has not begun

ASSUME ConstantsAssumption ==
    /\ Founder \subseteq Member
    /\ Founder # {}
    /\ IsFiniteSet(Member)
    /\ NoRequest \notin Change \cup Invitation \cup Acceptance
    /\ Change \cap Invitation = {}
    /\ (Change \cup Invitation) \cap Acceptance = {}
    /\ NoMember \notin Member
    /\ ETag \subseteq Nat
    /\ MaxClaims \in Nat

VARIABLES
    member,      \* the table tenant_memberships, with the roles
    invitation,  \* the table tenant_invitations, with the roles
    gate,        \* the request that holds the lock on the tenant's row
    change,      \* what each change is about to do, and what it has read
    invite,      \* the same of each request that creates an invitation
    accept       \* the same of each acceptance

memberVars == <<member, invitation, gate, change, invite, accept>>
vars == <<memberVars, outboxVars>>

Role == {"owner", "admin", "lawyer"}
Rank == [none |-> 0, lawyer |-> 40, admin |-> 80, owner |-> 100]
Status == {"absent", "invited", "active", "suspended", "revoked"}

InTransaction == {"check", "commit"}
Step == {"idle", "gate", "ended"} \cup InTransaction

AnyRole   == Role \cup {"none"}
AnyMember == Member \cup {NoMember}

Membership == [status : Status, role : AnyRole, version : Nat]
Invitations == [status : {"absent", "pending", "accepted"}, target : AnyMember, role : AnyRole]

ChangeRequest ==
    [step : Step \cup {"invalidate", "mark"},
     actor : AnyMember, actorRole : AnyRole, actorVersion : Nat,
     target : AnyMember, targetRole : AnyRole, targetVersion : Nat, expected : Nat,
     status : Status, role : AnyRole]
InviteRequest ==
    [step : Step, actor : AnyMember, actorRole : AnyRole, actorVersion : Nat,
     target : AnyMember, role : AnyRole]
AcceptRequest == [step : Step, invitation : Invitation]

\* Who holds the gate is inside its transaction, and nobody else is.
GateOK ==
    /\ gate \in Change \cup Invitation \cup Acceptance \cup {NoRequest}
    /\ \A k \in Change : change[k].step \in InTransaction <=> gate = k
    /\ \A i \in Invitation : invite[i].step \in InTransaction <=> gate = i
    /\ \A a \in Acceptance : accept[a].step \in InTransaction <=> gate = a

TypeOK ==
    /\ OutboxTypeOK
    /\ member \in [Member -> Membership]
    /\ invitation \in [Invitation -> Invitations]
    /\ change \in [Change -> ChangeRequest]
    /\ invite \in [Invitation -> InviteRequest]
    /\ accept \in [Acceptance -> AcceptRequest]
    /\ GateOK

NoChange == [step |-> "idle", actor |-> NoMember, actorRole |-> "none", actorVersion |-> 0,
             target |-> NoMember, targetRole |-> "none", targetVersion |-> 0, expected |-> 0,
             status |-> "absent", role |-> "none"]
NoInvite == [step |-> "idle", actor |-> NoMember, actorRole |-> "none", actorVersion |-> 0,
             target |-> NoMember, role |-> "none"]

Unknown == [status |-> "absent", role |-> "none", version |-> 0]
Invited == [status |-> "invited", role |-> "none", version |-> 1]
Members == [status : {"active"}, role : Role, version : {1}]

\* A tenant with a past: its founders have the roles that earlier changes
\* left them, one is still an owner, and nobody else ever was.  The versions
\* count from here.  An invited membership comes from elsewhere.
Init ==
    /\ OutboxInit
    /\ member \in {m \in [Member -> Members \cup {Unknown, Invited}] :
                      /\ \A u \in Founder : m[u] \in Members
                      /\ \A u \in Member \ Founder : m[u].role # "owner"
                      /\ \E u \in Founder : m[u].role = "owner"}
    /\ invitation = [i \in Invitation |->
                        [status |-> "absent", target |-> NoMember, role |-> "none"]]
    /\ gate = NoRequest
    /\ change = [k \in Change |-> NoChange]
    /\ invite = [i \in Invitation |-> NoInvite]
    /\ accept \in [Acceptance -> [step : {"idle"}, invitation : Invitation]]

----------------------------------------------------------------------------
\* The gate, and the authorisation of the one who acts

Administers(role) == role \in {"owner", "admin"}

\* The plain snapshot: the actor's context is of the version it carries.
MayAct(a) == member[a].status = "active" /\ Administers(member[a].role)

\* Behind the gate: the membership as it is now, under the version of the
\* snapshot that the roles come from.
StillActs(request) ==
    /\ member[request.actor].status = "active"
    /\ member[request.actor].version = request.actorVersion

\* Fault: the row of the tenant is read without its lock.
AwaitGateUnlocked(request) == gate' = request

\* acquire_tenant_gate: waits until the holder's transaction is over.
AwaitGate(request) == gate = NoRequest /\ gate' = request

LeaveGate == gate' = NoRequest

ActiveOwner(m) == member[m].status = "active" /\ member[m].role = "owner"

----------------------------------------------------------------------------
\* update_member and revoke_member

ChangeGoes(k, step) == change' = [change EXCEPT ![k].step = step]
ChangeEnds(k) == change' = [change EXCEPT ![k] = [NoChange EXCEPT !.step = "ended"]]

\* A revocation, or a change of the status alone, asks for the roles it saw.
BeginChange(k) ==
    /\ change[k].step = "idle"
    /\ \E a, t \in Member :
          /\ MayAct(a)
          /\ member[t].status # "absent"
          /\ \E expected \in ETag,
                desired \in [status : {"active", "suspended"}, role : Role]
                           \cup [status : {"revoked"}, role : {member[t].role}] :
                change' = [change EXCEPT ![k] =
                    [step |-> "gate",
                     actor |-> a, actorRole |-> member[a].role,
                     actorVersion |-> member[a].version,
                     target |-> t, targetRole |-> member[t].role,
                     targetVersion |-> member[t].version, expected |-> expected,
                     status |-> desired.status, role |-> desired.role]]
    /\ UNCHANGED <<member, invitation, gate, invite, accept, outboxVars>>

EnterChange(k) ==
    /\ change[k].step = "gate"
    /\ AwaitGate(k)
    /\ ChangeGoes(k, "check")
    /\ UNCHANGED <<member, invitation, invite, accept, outboxVars>>

\* _validate_membership_mutation.  A role above the actor's, an equal of the
\* actor and the ownership are out of reach of all but owners.
Allowed(c) ==
    /\ member[c.target].status \in {"active", "suspended"}
    /\ c.actorRole = "owner" \/ Rank[c.targetRole] < Rank[c.actorRole] \/ c.target = c.actor
    /\ Rank[c.role] <= Rank[c.actorRole]
    /\ (c.targetRole = "owner") # (c.role = "owner") => c.actorRole = "owner"
    /\ c.role = "owner" => c.target \in Founder

RemovesOwner(c) ==
    /\ member[c.target].status = "active"
    /\ c.targetRole = "owner"
    /\ ~(c.status = "active" /\ c.role = "owner")

\* count_active_owners_locked, a locking read.
OwnersLocked == Cardinality({m \in Member : ActiveOwner(m)})

\* Fault: the version is compared when the row is read, not when it is locked.
MatchesOnRead(c) == c.targetVersion = c.expected

Matches(c) == member[c.target].version = c.expected

CheckChange(k) ==
    LET c == change[k] IN
    /\ c.step = "check"
    /\ IF /\ StillActs(c)
          /\ Matches(c)
          /\ Allowed(c)
          /\ RemovesOwner(c) => OwnersLocked > 1
       THEN ChangeGoes(k, "commit") /\ UNCHANGED gate
       ELSE ChangeEnds(k) /\ LeaveGate
    /\ UNCHANGED <<member, invitation, invite, accept, outboxVars>>

\* The membership, its roles and the task of the cache commit together; a
\* change that changes nothing writes none of them.  The roles are replaced
\* only where they differ from those that were seen.
CommitChange(k) ==
    LET c == change[k] IN
    /\ c.step = "commit"
    /\ LeaveGate
    /\ IF c.status = member[c.target].status /\ c.role = c.targetRole
       THEN ChangeEnds(k) /\ UNCHANGED <<member, task>>
       ELSE /\ member' = [member EXCEPT ![c.target] =
                            [status |-> c.status,
                             role |-> IF c.role = c.targetRole THEN @.role ELSE c.role,
                             version |-> @.version + 1]]
            /\ AddTask(k)
            /\ change' = [change EXCEPT ![k] = [NoChange EXCEPT !.step = "invalidate"]]
    /\ UNCHANGED <<invitation, invite, accept, dispatch, invalidated>>

\* After the commit: the entry of the old version, then the task.
InvalidateNow(k) ==
    /\ change[k].step = "invalidate"
    /\ \/ ChangeGoes(k, "mark") /\ invalidated' = invalidated \cup {k}
       \/ ChangeEnds(k) /\ UNCHANGED invalidated
    /\ UNCHANGED <<member, invitation, gate, invite, accept, task, dispatch>>

MarkNow(k) ==
    /\ change[k].step = "mark"
    /\ CompleteImmediately(k)
    /\ ChangeEnds(k)
    /\ UNCHANGED <<member, invitation, gate, invite, accept, dispatch, invalidated>>

\* The request ends at any await: its transaction is rolled back.
AbandonChange(k) ==
    /\ change[k].step \notin {"idle", "ended"}
    /\ ChangeEnds(k)
    /\ gate' = IF gate = k THEN NoRequest ELSE gate
    /\ UNCHANGED <<member, invitation, invite, accept, outboxVars>>

----------------------------------------------------------------------------
\* The creation of an invitation

InviteGoes(i, step) == invite' = [invite EXCEPT ![i].step = step]
InviteEnds(i) == invite' = [invite EXCEPT ![i] = [NoInvite EXCEPT !.step = "ended"]]

BeginInvite(i) ==
    /\ invite[i].step = "idle"
    /\ \E a, t \in Member, role \in Role :
          /\ MayAct(a)
          /\ invite' = [invite EXCEPT ![i] =
                [step |-> "gate", actor |-> a, actorRole |-> member[a].role,
                 actorVersion |-> member[a].version, target |-> t, role |-> role]]
    /\ UNCHANGED <<member, invitation, gate, change, accept, outboxVars>>

EnterInvite(i) ==
    /\ invite[i].step = "gate"
    /\ AwaitGate(i)
    /\ InviteGoes(i, "check")
    /\ UNCHANGED <<member, invitation, change, accept, outboxVars>>

\* Nobody invites an owner, and only an owner an equal.
MayInvite(n) ==
    /\ n.role # "owner"
    /\ n.actorRole = "owner" \/ Rank[n.role] < Rank[n.actorRole]

CheckInvite(i) ==
    /\ invite[i].step = "check"
    /\ IF StillActs(invite[i]) /\ MayInvite(invite[i])
       THEN InviteGoes(i, "commit") /\ UNCHANGED gate
       ELSE InviteEnds(i) /\ LeaveGate
    /\ UNCHANGED <<member, invitation, change, accept, outboxVars>>

CommitInvite(i) ==
    /\ invite[i].step = "commit"
    /\ invitation' = [invitation EXCEPT ![i] =
                        [status |-> "pending", target |-> invite[i].target,
                         role |-> invite[i].role]]
    /\ InviteEnds(i)
    /\ LeaveGate
    /\ UNCHANGED <<member, change, accept, outboxVars>>

AbandonInvite(i) ==
    /\ invite[i].step \notin {"idle", "ended"}
    /\ InviteEnds(i)
    /\ gate' = IF gate = i THEN NoRequest ELSE gate
    /\ UNCHANGED <<member, invitation, change, accept, outboxVars>>

----------------------------------------------------------------------------
\* The acceptance, by the user whom the invitation is for

AcceptGoes(a, step) == accept' = [accept EXCEPT ![a].step = step]

\* The token is out once its invitation is committed.
BeginAccept(a) ==
    /\ accept[a].step = "idle"
    /\ invitation[accept[a].invitation].status # "absent"
    /\ AcceptGoes(a, "gate")
    /\ UNCHANGED <<member, invitation, gate, change, invite, outboxVars>>

EnterAccept(a) ==
    /\ accept[a].step = "gate"
    /\ AwaitGate(a)
    /\ AcceptGoes(a, "check")
    /\ UNCHANGED <<member, invitation, change, invite, outboxVars>>

\* Fault: any membership that is not active is activated.
JoinableAgain(m) == member[m].status # "active"

\* No membership yet, or an invited one of the type the roles stand for.
Joinable(m) ==
    \/ member[m].status = "absent"
    \/ member[m].status = "invited" /\ m \notin Founder

CheckAccept(a) ==
    LET i == invitation[accept[a].invitation] IN
    /\ accept[a].step = "check"
    /\ IF i.status = "pending" /\ Joinable(i.target)
       THEN AcceptGoes(a, "commit") /\ UNCHANGED gate
       ELSE AcceptGoes(a, "ended") /\ LeaveGate
    /\ UNCHANGED <<member, invitation, change, invite, outboxVars>>

CommitAccept(a) ==
    LET i == invitation[accept[a].invitation] IN
    /\ accept[a].step = "commit"
    /\ member' = [member EXCEPT ![i.target] =
                    [status |-> "active", role |-> i.role, version |-> @.version + 1]]
    /\ invitation' = [invitation EXCEPT ![accept[a].invitation].status = "accepted"]
    /\ AcceptGoes(a, "ended")
    /\ LeaveGate
    /\ UNCHANGED <<change, invite, outboxVars>>

\* Also an expired invitation, or a user it is not for, ends here.
AbandonAccept(a) ==
    /\ accept[a].step \notin {"idle", "ended"}
    /\ AcceptGoes(a, "ended")
    /\ gate' = IF gate = a THEN NoRequest ELSE gate
    /\ UNCHANGED <<member, invitation, change, invite, outboxVars>>

----------------------------------------------------------------------------
Next ==
    \/ \E k \in Change : \/ BeginChange(k) \/ EnterChange(k) \/ CheckChange(k)
                         \/ CommitChange(k) \/ InvalidateNow(k) \/ MarkNow(k)
                         \/ AbandonChange(k)
    \/ \E i \in Invitation : \/ BeginInvite(i) \/ EnterInvite(i) \/ CheckInvite(i)
                             \/ CommitInvite(i) \/ AbandonInvite(i)
    \/ \E a \in Acceptance : \/ BeginAccept(a) \/ EnterAccept(a) \/ CheckAccept(a)
                             \/ CommitAccept(a) \/ AbandonAccept(a)
    \/ OutboxNext /\ UNCHANGED memberVars

Spec == Init /\ [][Next]_vars

----------------------------------------------------------------------------
\* Properties

\* The tenant always has an active owner.
AlwaysAnOwner == \E m \in Member : ActiveOwner(m)

\* The client named a version that it can have read before the snapshot.
Informed(c) == c.expected <= c.targetVersion

\* The tenant does not lose its last owner, though two owners may remove each
\* other, or themselves, at the same time, each counting the other one: only
\* a change whose client guessed the version of a membership that became an
\* owner behind its snapshot removes the last one.
LastOwnerStays ==
    [][AlwaysAnOwner =>
          \/ AlwaysAnOwner'
          \/ \E k \in Change : gate = k /\ ~Informed(change[k])]_vars

\* Above the target by the roles of this moment, the target being another.
Above(a, m) ==
    m = a \/ member[a].role = "owner" \/ Rank[member[m].role] < Rank[member[a].role]

\* A change commits by an administrator who is one at that moment, and a role
\* that it gives is within the actor's of that moment.  Where the client did
\* not guess the version, the actor is above the target, and takes or gives
\* the ownership only as an owner: no decision rests on roles, the actor's or
\* the target's, that were replaced between the snapshot and the gate.  An
\* invitation commits by one above the invited role.
AuthorityIsCurrent ==
    [][/\ \A k \in Change, m \in Member :
            gate = k /\ member'[m] # member[m] =>
                LET a == change[k].actor IN
                /\ MayAct(a)
                /\ member'[m].role # member[m].role =>
                      Rank[member'[m].role] <= Rank[member[a].role]
                /\ Informed(change[k]) =>
                      /\ Above(a, m)
                      /\ Rank[member'[m].role] <= Rank[member[a].role]
       /\ \A i \in Invitation :
            invitation[i].status = "absent" /\ invitation'[i].status = "pending" =>
                /\ MayAct(invite[i].actor)
                /\ Rank[invitation'[i].role] <= Rank[member[invite[i].actor].role]]_vars

\* A user joins by one pending invitation for that user, with its roles, and
\* uses it up; who was revoked does not come back, by a change or by an
\* invitation that was still pending.
JoinsOnce ==
    [][\A m \in Member :
          /\ member[m].status = "revoked" => member'[m] = member[m]
          /\ member[m].status \in {"absent", "invited"} /\ member'[m] # member[m] =>
                \E i \in Invitation :
                    /\ invitation[i].status = "pending"
                    /\ invitation'[i] = [status |-> "accepted", target |-> m,
                                         role |-> member'[m].role]]_vars
=============================================================================

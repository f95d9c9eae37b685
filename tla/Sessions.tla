------------------------------ MODULE Sessions ------------------------------
(***************************************************************************)
(* Device logins: sessions, the family of single-use refresh tokens that   *)
(* carries each of them, and the access tokens that are validated against  *)
(* the database on every request.                                          *)
(*                                                                         *)
(* A refresh is one MySQL transaction in three steps: it locates the token *)
(* with a plain SELECT, which fixes its REPEATABLE READ snapshot; it waits *)
(* for the tenant gate, the family and the session row, and reads the      *)
(* token again under its lock; it decides and commits.  The session and    *)
(* membership it decides on are read in the snapshot.  The other writers   *)
(* read only what they have locked or what never changes, and are one step *)
(* each, at the time of their commit; a step that waits for locks is       *)
(* enabled when no refresh holds them.  The cache is told after the        *)
(* commit, or never.                                                       *)
(*                                                                         *)
(* One user; her account, her tenants and the validity windows of her      *)
(* memberships are not changed by any code here, and are left out.         *)
(***************************************************************************)
EXTENDS Naturals

CONSTANTS
    SessionIds,     \* rows that auth_sessions may hold; a family is named by its session
    Tokens,         \* rows that refresh_token_records may hold
    Members,        \* memberships of the user, each in a tenant of its own
    Refreshes,      \* concurrent POST /auth/refresh requests
    Validations,    \* concurrent requests that present an access token
    NoMember,       \* the session is an account session: tenant_id is NULL
    Lifetime,       \* REMEMBER_DEVICE_SECONDS
    MaxTime,        \* bound: the clock stops here
    MaxAuthz        \* bound: changes of a membership

ASSUME NoMemberAssumption == NoMember \notin Members
ASSUME BoundsAssumption ==
    MaxTime \in Nat /\ MaxAuthz \in Nat \ {0} /\ Lifetime \in Nat \ {0}

VARIABLES
    session,        \* auth_sessions
    token,          \* refresh_token_records
    member,         \* status and authz_version of tenant_memberships
    claims,         \* the access tokens that were issued
    cache,          \* the validation cache, a hint
    uninvalidated,  \* sessions whose committed change the cache has not been told of
    refreshing,     \* what each refresh has done so far
    validating,     \* what each validation has done so far
    now             \* the clock of the service

database == <<session, token, member>>
vars == <<session, token, member, claims, cache, uninvalidated, refreshing, validating, now>>

Times == 0 .. MaxTime
Expiries == 0 .. MaxTime + Lifetime
NoRow == [status |-> "absent"]

SessionRows == [member : Members \cup {NoMember}, authz : 0 .. MaxAuthz,
                revoked : BOOLEAN, expires : Expiries]
TokenRows == [session : SessionIds, used : BOOLEAN, revoked : BOOLEAN,
              next : Tokens \cup {NoRow}, expires : Expiries]
MemberRows == [status : {"invited", "active", "suspended", "revoked"}, authz : 1 .. MaxAuthz]
Claims == [session : SessionIds, member : Members \cup {NoMember}, authz : 0 .. MaxAuthz]
ValidationStates == [session : SessionRows, member : MemberRows \cup {NoRow}]

Idle == [pc |-> "idle"]
RefreshStates ==
    {Idle} \cup
    [pc : {"located", "locked", "rotated", "replay", "invalid"}, token : Tokens,
     began : Times, sees : ValidationStates, read : TokenRows, live : BOOLEAN]
ValidatingStates ==
    {Idle} \cup
    [pc : {"loading", "storing", "valid", "refused"}, claim : Claims, began : Times,
     state : ValidationStates \cup {NoRow}, live : BOOLEAN]

Born(s) == session[s] # NoRow
Issued(t) == token[t] # NoRow
Account(s) == Born(s) /\ session[s].member = NoMember

\* auth_session_tenant_context: the three tenant columns are NULL together.
TypeOK ==
    /\ session \in [SessionIds -> SessionRows \cup {NoRow}]
    /\ \A s \in SessionIds : Born(s) => (session[s].member = NoMember <=> session[s].authz = 0)
    /\ token \in [Tokens -> TokenRows \cup {NoRow}]
    /\ member \in [Members -> MemberRows]
    /\ claims \subseteq Claims
    /\ cache \in [SessionIds -> ValidationStates \cup {NoRow}]
    /\ uninvalidated \subseteq SessionIds
    /\ refreshing \in [Refreshes -> RefreshStates]
    /\ validating \in [Validations -> ValidatingStates]
    /\ now \in Times

Init ==
    /\ session = [s \in SessionIds |-> NoRow]
    /\ token = [t \in Tokens |-> NoRow]
    /\ member \in [Members -> [status : {"invited", "active"}, authz : {1}]]
    /\ claims = {}
    /\ cache = [s \in SessionIds |-> NoRow]
    /\ uninvalidated = {}
    /\ refreshing = [r \in Refreshes |-> Idle]
    /\ validating = [v \in Validations |-> Idle]
    /\ now = 0

-----------------------------------------------------------------------------
\* What get_validation_state reads: the session joined with its membership.
ValidationState(s) ==
    [session |-> session[s],
     member |-> IF session[s].member = NoMember THEN NoRow ELSE member[session[s].member]]

Authoritative(state, at) ==
    /\ ~state.session.revoked
    /\ state.session.expires > at
    /\ state.session.member # NoMember =>
         state.member.status = "active" /\ state.member.authz = state.session.authz

Claim(s, m, a) == [session |-> s, member |-> m, authz |-> a]

SessionRow(m, a, at) == [member |-> m, authz |-> a, revoked |-> FALSE, expires |-> at + Lifetime]
TokenRow(s, at) ==
    [session |-> s, used |-> FALSE, revoked |-> FALSE, next |-> NoRow, expires |-> at + Lifetime]

\* Mutant: revoke_family spares the tokens that were already used.
RevokedUnused(S) ==
    [t \in Tokens |-> IF Issued(t) /\ token[t].session \in S /\ ~token[t].used
                        THEN [token[t] EXCEPT !.revoked = TRUE] ELSE token[t]]

\* revoke_family and revoke_session, on the current rows of the sessions S.
RevokedTokens(S) ==
    [t \in Tokens |-> IF Issued(t) /\ token[t].session \in S
                        THEN [token[t] EXCEPT !.revoked = TRUE] ELSE token[t]]
RevokedSessions(S) ==
    [s \in SessionIds |-> IF Born(s) /\ s \in S
                            THEN [session[s] EXCEPT !.revoked = TRUE] ELSE session[s]]

\* A refresh that has its locks holds the gate of the session's tenant too.
Holds(r, s) == refreshing[r].pc = "locked" /\ token[refreshing[r].token].session = s

Lockable(s) ==
    /\ \A r \in Refreshes : ~Holds(r, s)
    /\ session[s].member # NoMember =>
         \A r \in Refreshes, s2 \in SessionIds :
            Holds(r, s2) => session[s2].member # session[s].member

GateFree(m) ==
    \A r \in Refreshes, s \in SessionIds : Holds(r, s) => session[s].member # m

-----------------------------------------------------------------------------
\* Login and registration: an account session and the first token of its family.
Start(s, t) ==
    /\ ~Born(s) /\ ~Issued(t)
    /\ session' = [session EXCEPT ![s] = SessionRow(NoMember, 0, now)]
    /\ token' = [token EXCEPT ![t] = TokenRow(s, now)]
    /\ claims' = claims \cup {Claim(s, NoMember, 0)}
    /\ UNCHANGED <<member, cache, uninvalidated, refreshing, validating, now>>

\* The token could still be exchanged if nobody else touched its session.
Exchangeable(t) ==
    /\ ~token[t].used /\ ~token[t].revoked
    /\ LET state == ValidationState(token[t].session)
       IN  ~state.session.revoked
           /\ (state.session.member # NoMember =>
                 state.member.status = "active" /\ state.member.authz = state.session.authz)

\* locate_refresh: the first SELECT of the transaction.
BeginRefresh(r, t) ==
    /\ refreshing[r].pc \notin {"located", "locked"}
    /\ Issued(t)
    /\ refreshing' = [refreshing EXCEPT ![r] =
         [pc |-> "located", token |-> t, began |-> now,
          sees |-> ValidationState(token[t].session), read |-> token[t],
          live |-> Exchangeable(t)]]
    /\ UNCHANGED <<database, claims, cache, uninvalidated, validating, now>>

\* Mutant: lock_refresh reads the token in the snapshot.
ReadInSnapshot(r) == refreshing[r].read

\* lock_refresh: SELECT .. FOR UPDATE sees the last commit.
LockedToken(r) == token[refreshing[r].token]

LockRefresh(r) ==
    /\ refreshing[r].pc = "located"
    /\ Lockable(token[refreshing[r].token].session)
    /\ refreshing' = [refreshing EXCEPT ![r].pc = "locked", ![r].read = LockedToken(r)]
    /\ UNCHANGED <<database, claims, cache, uninvalidated, validating, now>>

Current(row, at) == ~row.revoked /\ ~row.used /\ row.expires > at

\* Mutant: the replay is reported and nothing is revoked.
ReplayOnlyReported(r) ==
    /\ refreshing[r].pc = "locked"
    /\ refreshing[r].read.used
    /\ refreshing' = [refreshing EXCEPT ![r].pc = "replay"]
    /\ UNCHANGED <<database, claims, cache, uninvalidated, validating, now>>

\* A used token comes back: its whole family dies.
RefreshReplayed(r) ==
    /\ refreshing[r].pc = "locked"
    /\ refreshing[r].read.used
    /\ LET s == refreshing[r].read.session
       IN  /\ token' = RevokedTokens({s})
           /\ session' = RevokedSessions({s})
           /\ uninvalidated' = uninvalidated \cup {s}
    /\ refreshing' = [refreshing EXCEPT ![r].pc = "replay"]
    /\ UNCHANGED <<member, claims, cache, validating, now>>

RefreshRefused(r) ==
    /\ refreshing[r].pc = "locked"
    /\ ~refreshing[r].read.used
    /\ Current(refreshing[r].read, refreshing[r].began) =>
         ~Authoritative(refreshing[r].sees, refreshing[r].began)
    /\ LET s == refreshing[r].read.session
       IN  /\ token' = RevokedTokens({s})
           /\ session' = RevokedSessions({s})
           /\ uninvalidated' = uninvalidated \cup {s}
    /\ refreshing' = [refreshing EXCEPT ![r].pc = "invalid"]
    /\ UNCHANGED <<member, claims, cache, validating, now>>

\* Mutant: mark_refresh_used is forgotten.
NotMarked(row, u) == [row EXCEPT !.next = u]

\* mark_refresh_used and link_refresh_replacement.
Spent(row, u) == [row EXCEPT !.used = TRUE, !.next = u]

\* The access token carries the authz_version that the snapshot showed.
Rotate(r, u) ==
    /\ refreshing[r].pc = "locked"
    /\ Current(refreshing[r].read, refreshing[r].began)
    /\ Authoritative(refreshing[r].sees, refreshing[r].began)
    /\ ~Issued(u)
    /\ LET t == refreshing[r].token
           s == refreshing[r].read.session
           state == refreshing[r].sees
           fresh == TokenRow(s, refreshing[r].began)
       IN  /\ token' = [token EXCEPT ![t] = Spent(@, u), ![u] = fresh]
           /\ session' = [session EXCEPT ![s].expires = fresh.expires]
           /\ claims' = claims \cup
                {Claim(s, state.session.member,
                       IF state.session.member = NoMember THEN 0 ELSE state.member.authz)}
           /\ uninvalidated' = uninvalidated \cup {s}
    /\ refreshing' = [refreshing EXCEPT ![r].pc = "rotated"]
    /\ UNCHANGED <<member, cache, validating, now>>

\* A deadlock victim, a lock timeout or a crash: nothing is committed.
Abort(r) ==
    /\ refreshing[r].pc \in {"located", "locked"}
    /\ refreshing' = [refreshing EXCEPT ![r] = Idle]
    /\ UNCHANGED <<database, claims, cache, uninvalidated, validating, now>>

-----------------------------------------------------------------------------
\* Logout; revoking what is revoked changes nothing but still tells the cache.
Revoke(s) ==
    /\ Born(s) /\ Lockable(s)
    /\ token' = RevokedTokens({s})
    /\ session' = RevokedSessions({s})
    /\ uninvalidated' = uninvalidated \cup {s}
    /\ UNCHANGED <<member, claims, cache, refreshing, validating, now>>

\* The account session s, and the user's membership m, allow a tenant context;
\* both endpoints take an account access token.
TenantContextAllowed(s, m) ==
    /\ Account(s) /\ Lockable(s) /\ GateFree(m)
    /\ Authoritative(ValidationState(s), now)
    /\ member[m].status = "active"

\* A tenant access token derived from the account session, which stays.
TenantAccess(s, m) ==
    /\ TenantContextAllowed(s, m)
    /\ claims' = claims \cup {Claim(s, m, member[m].authz)}
    /\ UNCHANGED <<database, cache, uninvalidated, refreshing, validating, now>>

\* The account session gives way to a session s2 of the tenant.
SwitchTenant(s, m, s2, t) ==
    /\ TenantContextAllowed(s, m)
    /\ ~Born(s2) /\ ~Issued(t)
    /\ session' = [RevokedSessions({s}) EXCEPT ![s2] = SessionRow(m, member[m].authz, now)]
    /\ token' = [RevokedTokens({s}) EXCEPT ![t] = TokenRow(s2, now)]
    /\ claims' = claims \cup {Claim(s2, m, member[m].authz)}
    /\ uninvalidated' = uninvalidated \cup {s}
    /\ UNCHANGED <<member, cache, refreshing, validating, now>>

\* An accepted invitation; nobody can have a session of an invited membership.
ActivateMember(m) ==
    /\ member[m].status = "invited"
    /\ member[m].authz < MaxAuthz
    /\ GateFree(m)
    /\ member' = [member EXCEPT ![m] = [status |-> "active", authz |-> @.authz + 1]]
    /\ UNCHANGED <<session, token, claims, cache, uninvalidated, refreshing, validating, now>>

SessionsOf(m) == {s \in SessionIds : Born(s) /\ session[s].member = m}

\* Mutant: a membership change revokes nothing.
ChangeRevokesNothing(m, status) ==
    /\ member[m].status \in {"active", "suspended"}
    /\ member[m].authz < MaxAuthz
    /\ GateFree(m)
    /\ member' = [member EXCEPT ![m] = [status |-> status, authz |-> @.authz + 1]]
    /\ UNCHANGED <<session, token, claims, cache, uninvalidated, refreshing, validating, now>>

\* An administrator changes the status, the roles or the department of a member:
\* update_locked and revoke_for_membership in one transaction.
ChangeMember(m, status) ==
    /\ member[m].status \in {"active", "suspended"}
    /\ member[m].authz < MaxAuthz
    /\ GateFree(m)
    /\ member' = [member EXCEPT ![m] = [status |-> status, authz |-> @.authz + 1]]
    /\ token' = RevokedTokens(SessionsOf(m))
    /\ session' = RevokedSessions(SessionsOf(m))
    /\ UNCHANGED <<claims, cache, uninvalidated, refreshing, validating, now>>

-----------------------------------------------------------------------------
\* The access token is good now: its session lives, and the membership it names
\* is the one it was issued for.
Good(c) ==
    /\ ~session[c.session].revoked
    /\ c.member # NoMember =>
         member[c.member].status = "active" /\ member[c.member].authz = c.authz

HintAllows(s, at) == cache[s] # NoRow => Authoritative(cache[s], at)

\* An account token is refused at once when the cache says so.
BeginValidation(v, c) ==
    /\ validating[v].pc \notin {"loading", "storing"}
    /\ c \in claims
    /\ validating' = [validating EXCEPT ![v] =
         [pc |-> IF c.member = NoMember /\ ~HintAllows(c.session, now)
                   THEN "refused" ELSE "loading",
          claim |-> c, began |-> now, state |-> NoRow, live |-> Good(c)]]
    /\ UNCHANGED <<database, claims, cache, uninvalidated, refreshing, now>>

\* Mutant: a positive cache entry replaces the database.
CacheTrusted(s) == IF cache[s] # NoRow THEN cache[s] ELSE ValidationState(s)

Loaded(s) == ValidationState(s)

\* The answer for an account token, or for a tenant token of a tenant session.
Verdict(c, state, at) ==
    IF Authoritative(state, at) /\ state.session.member = c.member
         /\ (c.member # NoMember => c.authz = state.member.authz)
      THEN "valid" ELSE "refused"

LoadAccount(v) ==
    /\ validating[v].pc = "loading"
    /\ validating[v].claim.member = NoMember
    /\ validating' = [validating EXCEPT
         ![v].pc = "storing", ![v].state = Loaded(validating[v].claim.session)]
    /\ UNCHANGED <<database, claims, cache, uninvalidated, refreshing, now>>

\* The cache is set, or cannot be, before the answer is given.
AnswerAccount(v) ==
    /\ validating[v].pc = "storing"
    /\ LET c == validating[v].claim
           state == validating[v].state
       IN  /\ \/ cache' = [cache EXCEPT ![c.session] = state]
              \/ UNCHANGED cache
           /\ validating' = [validating EXCEPT ![v].pc = Verdict(c, state, validating[v].began)]
    /\ UNCHANGED <<database, claims, uninvalidated, refreshing, now>>

\* A tenant token of an account session names its membership itself.
DerivedVerdict(c, state, at) ==
    IF Authoritative(state, at) /\ member[c.member].status = "active"
         /\ member[c.member].authz = c.authz
      THEN "valid" ELSE "refused"

AnswerTenant(v) ==
    /\ validating[v].pc = "loading"
    /\ validating[v].claim.member # NoMember
    /\ LET c == validating[v].claim
           state == ValidationState(c.session)
           at == validating[v].began
           verdict == IF Account(c.session) THEN DerivedVerdict(c, state, at)
                                            ELSE Verdict(c, state, at)
       IN  validating' = [validating EXCEPT ![v].pc = verdict]
    /\ UNCHANGED <<database, claims, cache, uninvalidated, refreshing, now>>

\* _invalidate_cache, after the commit; its failure is swallowed.
Invalidate(s) ==
    /\ s \in uninvalidated
    /\ uninvalidated' = uninvalidated \ {s}
    /\ \/ cache' = [cache EXCEPT ![s] = NoRow]
       \/ UNCHANGED cache
    /\ UNCHANGED <<database, claims, refreshing, validating, now>>

\* An entry reaches its time to live, or is evicted.
Evict(s) ==
    /\ cache[s] # NoRow
    /\ cache' = [cache EXCEPT ![s] = NoRow]
    /\ UNCHANGED <<database, claims, uninvalidated, refreshing, validating, now>>

Tick ==
    /\ now < MaxTime
    /\ now' = now + 1
    /\ UNCHANGED <<database, claims, cache, uninvalidated, refreshing, validating>>

RefreshStep(r) ==
    \/ \E t \in Tokens : BeginRefresh(r, t)
    \/ LockRefresh(r)
    \/ RefreshReplayed(r)
    \/ RefreshRefused(r)
    \/ \E u \in Tokens : Rotate(r, u)
    \/ Abort(r)

SessionStep(s) ==
    \/ \E t \in Tokens : Start(s, t)
    \/ Revoke(s)
    \/ \E m \in Members : TenantAccess(s, m)
    \/ \E m \in Members, s2 \in SessionIds, t \in Tokens : SwitchTenant(s, m, s2, t)
    \/ Invalidate(s)
    \/ Evict(s)

MemberStep(m) ==
    \/ ActivateMember(m)
    \/ \E status \in {"active", "suspended", "revoked"} : ChangeMember(m, status)

ValidationStep(v) ==
    \/ \E c \in claims : BeginValidation(v, c)
    \/ LoadAccount(v)
    \/ AnswerAccount(v)
    \/ AnswerTenant(v)

Next ==
    \/ \E r \in Refreshes : RefreshStep(r)
    \/ \E s \in SessionIds : SessionStep(s)
    \/ \E m \in Members : MemberStep(m)
    \/ \E v \in Validations : ValidationStep(v)
    \/ Tick

Spec == Init /\ [][Next]_vars

-----------------------------------------------------------------------------
Spendable(t, s) == Issued(t) /\ token[t].session = s /\ ~token[t].used

\* Rotation passes a login from hand to hand: its family has exactly one token
\* that was not yet exchanged, the others name their successor in the family,
\* and no two tokens have the same one.  Two refreshes that raced to exchange
\* one token would leave two.
ChainUnbroken ==
    /\ \A s \in SessionIds : Born(s) =>
         /\ \E t \in Tokens : Spendable(t, s)
         /\ \A t, u \in Tokens : Spendable(t, s) /\ Spendable(u, s) => t = u
    /\ \A t \in Tokens : Issued(t) =>
         /\ Born(token[t].session)
         /\ token[t].used <=> token[t].next # NoRow
         /\ token[t].used => /\ Issued(token[t].next)
                             /\ token[token[t].next].session = token[t].session
    /\ \A t, u \in Tokens :
         Issued(t) /\ Issued(u) /\ token[t].used /\ token[t].next = token[u].next => t = u

\* A session and its whole family are revoked together, however they end.
FamilyDiesWhole ==
    \A t \in Tokens : Issued(t) => token[t].revoked = session[token[t].session].revoked

\* A tenant session that is not revoked was issued for the membership as it is.
LiveSessionIsAuthorized ==
    \A s \in SessionIds : Born(s) /\ ~session[s].revoked /\ ~Account(s) =>
        /\ member[session[s].member].status = "active"
        /\ member[session[s].member].authz = session[s].authz

\* refresh decides on a session and a membership read before it waited for its
\* locks.  That is harmless: while its token is still exchangeable, the snapshot
\* shows what the database holds now.
StaleReadIsHarmless ==
    \A r \in Refreshes : refreshing[r].pc \in {"located", "locked"} =>
        LET t == refreshing[r].token
        IN  ~token[t].used /\ ~token[t].revoked =>
              refreshing[r].sees = ValidationState(token[t].session)

\* A request that began with a dead credential, a used or revoked refresh token
\* or an access token whose session was revoked or whose membership changed, is
\* never answered with success, whatever the cache says.
DeadCredentialRefused ==
    /\ \A r \in Refreshes : refreshing[r].pc = "rotated" => refreshing[r].live
    /\ \A v \in Validations : validating[v].pc = "valid" => validating[v].live

\* When two refreshes present one token and both are answered, the login dies:
\* the thief and the owner of a stolen token cannot both go on.
DoublePresentationKills ==
    \A r, r2 \in Refreshes :
        LET answered == {"rotated", "replay", "invalid"}
        IN  /\ r # r2
            /\ refreshing[r].pc \in answered /\ refreshing[r2].pc \in answered
            /\ refreshing[r].token = refreshing[r2].token
            => session[token[refreshing[r].token].session].revoked

\* Every login is one capability that passes from token to token until it dies.
Unborn == "unborn"
Dead == "dead"
HolderOf(s) ==
    IF ~Born(s) THEN Unborn
    ELSE IF session[s].revoked THEN Dead
    ELSE CHOOSE t \in Tokens : Spendable(t, s)

ASSUME NamesAssumption == NoRow \notin Tokens /\ Unborn \notin Tokens /\ Dead \notin Tokens

Family == INSTANCE SessionFamily WITH
    Sessions <- SessionIds,
    holder <- [s \in SessionIds |-> HolderOf(s)],
    issued <- {t \in Tokens : Issued(t)}

FamilySpec == Family!Spec
=============================================================================

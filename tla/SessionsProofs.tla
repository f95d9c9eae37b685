--------------------------- MODULE SessionsProofs ---------------------------
(***************************************************************************)
(* Device logins: types, what a transaction does to the tables, what the   *)
(* locks of a refresh give it, and from these the token chain, the         *)
(* revocation of whole families, the answers to refreshes and validations, *)
(* and the refinement of SessionFamily.                                    *)
(*                                                                         *)
(* Three invariants are proved inductive together first: TypeOK;           *)
(* ReferenceInv, what a row or a request names exists; and LockInv, a      *)
(* refresh that holds its locks is alone with its session and has read its *)
(* token as it is.  Every step is shown to leave the tables alone or to be *)
(* one of five transactions; the second half argues about these and not    *)
(* about the nineteen actions.                                             *)
(*                                                                         *)
(* Its argument.  An exchange spends the only token of a session that can  *)
(* be spent and adds one; a creation adds a session with its first token;  *)
(* everything else revokes sessions and their tokens together.  So while a *)
(* token is neither used nor revoked nobody has changed its session or its *)
(* membership, and what a refresh read before it waited for its locks is   *)
(* still so.  A refresh that succeeds therefore began with a token that    *)
(* could be exchanged, and takes the session from its only holder.         *)
(***************************************************************************)
EXTENDS Sessions, TLAPS

\* What a token or a claim names was created with it or before it.
ReferenceInv ==
    /\ \A t \in Tokens : Issued(t) => Born(token[t].session)
    /\ \A c \in claims : Born(c.session)
    /\ \A r \in Refreshes : refreshing[r].pc # "idle" =>
         /\ Issued(refreshing[r].token)
         /\ refreshing[r].read.session = token[refreshing[r].token].session
    /\ \A v \in Validations :
         /\ validating[v].pc # "idle" => validating[v].claim \in claims
         /\ validating[v].pc = "storing" => validating[v].state \in ValidationStates

\* The absent row is not a row.
LEMMA AbsentRow ==
    /\ NoRow \notin SessionRows
    /\ NoRow \notin TokenRows
    /\ NoRow \notin MemberRows
    /\ NoRow \notin ValidationStates
BY DEF NoRow, SessionRows, TokenRows, MemberRows, ValidationStates

\* A row that exists has the type of its table.
LEMMA RowTypes ==
    ASSUME TypeOK
    PROVE  /\ \A s \in SessionIds : Born(s) => session[s] \in SessionRows
           /\ \A t \in Tokens : Issued(t) => token[t] \in TokenRows
           /\ \A m \in Members : member[m] \in MemberRows
BY DEF TypeOK, Born, Issued

\* The join of a session with its membership.
LEMMA StateType ==
    ASSUME TypeOK, NEW s \in SessionIds, Born(s)
    PROVE  ValidationState(s) \in ValidationStates
<1>1. session[s] \in SessionRows /\ session[s].member \in Members \cup {NoMember}
  BY RowTypes DEF SessionRows
<1>2. \A m \in Members : member[m] \in MemberRows
  BY RowTypes
<1> QED BY <1>1, <1>2 DEF ValidationState, ValidationStates

\* Rows as they are inserted.
LEMMA FreshRows ==
    ASSUME NEW at \in Times
    PROVE  /\ \A s \in SessionIds : TokenRow(s, at) \in TokenRows
           /\ \A m \in Members \cup {NoMember}, a \in 0 .. MaxAuthz :
                SessionRow(m, a, at) \in SessionRows
<1>1. at + Lifetime \in Expiries
  BY BoundsAssumption DEF Times, Expiries
<1> QED BY <1>1 DEF SessionRow, TokenRow, SessionRows, TokenRows

\* What a revocation leaves of the rows.
LEMMA RevokedRows ==
    ASSUME TypeOK, NEW S \in SUBSET SessionIds
    PROVE  /\ RevokedTokens(S) \in [Tokens -> TokenRows \cup {NoRow}]
           /\ RevokedSessions(S) \in [SessionIds -> SessionRows \cup {NoRow}]
           /\ \A t \in Tokens :
                IF Issued(t) /\ token[t].session \in S
                THEN /\ RevokedTokens(S)[t] = [token[t] EXCEPT !.revoked = TRUE]
                     /\ RevokedTokens(S)[t] \in TokenRows
                ELSE RevokedTokens(S)[t] = token[t]
           /\ \A s \in SessionIds :
                IF Born(s) /\ s \in S
                THEN /\ RevokedSessions(S)[s] = [session[s] EXCEPT !.revoked = TRUE]
                     /\ RevokedSessions(S)[s] \in SessionRows
                ELSE RevokedSessions(S)[s] = session[s]
<1>1. ASSUME NEW t \in Tokens, Issued(t)
      PROVE  [token[t] EXCEPT !.revoked = TRUE] \in TokenRows
  BY <1>1, RowTypes DEF TokenRows
<1>2. ASSUME NEW s \in SessionIds, Born(s)
      PROVE  [session[s] EXCEPT !.revoked = TRUE] \in SessionRows
  BY <1>2, RowTypes DEF SessionRows
<1>3. \A t \in Tokens : token[t] \in TokenRows \cup {NoRow}
  BY DEF TypeOK
<1>4. \A s \in SessionIds : session[s] \in SessionRows \cup {NoRow}
  BY DEF TypeOK
<1> QED BY <1>1, <1>2, <1>3, <1>4 DEF RevokedTokens, RevokedSessions

\* What a refresh and a validation under way have stored.
LEMMA RequestFields ==
    ASSUME TypeOK
    PROVE  /\ \A r \in Refreshes : refreshing[r].pc # "idle" =>
                /\ refreshing[r] \in RefreshStates \ {Idle}
                /\ refreshing[r].token \in Tokens
                /\ refreshing[r].began \in Times
                /\ refreshing[r].sees \in ValidationStates
                /\ refreshing[r].read \in TokenRows
           /\ \A v \in Validations : validating[v].pc # "idle" =>
                /\ validating[v] \in ValidatingStates \ {Idle}
                /\ validating[v].claim \in Claims
BY DEF TypeOK, RefreshStates, ValidatingStates, Idle

\* A request that goes on keeps its type.
LEMMA RequestMoves ==
    /\ \A f \in RefreshStates \ {Idle},
          pc \in {"located", "locked", "rotated", "replay", "invalid"}, row \in TokenRows :
         /\ [f EXCEPT !.pc = pc] \in RefreshStates
         /\ [f EXCEPT !.pc = pc, !.read = row] \in RefreshStates
    /\ \A f \in ValidatingStates \ {Idle}, pc \in {"loading", "storing", "valid", "refused"} :
         /\ [f EXCEPT !.pc = pc] \in ValidatingStates
         /\ \A state \in ValidationStates :
              [f EXCEPT !.pc = pc, !.state = state] \in ValidatingStates
BY DEF RefreshStates, ValidatingStates, Idle

\* Empty tables, an empty cache and idle requests are well typed.
LEMMA InitType == Init => TypeOK
<1> SUFFICES ASSUME Init PROVE TypeOK
  OBVIOUS
<1>1. session \in [SessionIds -> SessionRows \cup {NoRow}]
  BY DEF Init
<1>2. \A s \in SessionIds : ~Born(s)
  BY DEF Init, Born
<1>3. /\ token \in [Tokens -> TokenRows \cup {NoRow}]
      /\ claims \subseteq Claims /\ uninvalidated \subseteq SessionIds
  BY DEF Init
<1>4. member \in [Members -> MemberRows]
  BY BoundsAssumption DEF Init, MemberRows
<1>5. cache \in [SessionIds -> ValidationStates \cup {NoRow}]
  BY DEF Init
<1>6. /\ refreshing \in [Refreshes -> RefreshStates]
      /\ validating \in [Validations -> ValidatingStates]
  BY DEF Init, RefreshStates, ValidatingStates
<1>7. now \in Times
  BY BoundsAssumption DEF Init, Times
<1> QED BY <1>1, <1>2, <1>3, <1>4, <1>5, <1>6, <1>7 DEF TypeOK

\* The types of the two tables that a revocation changes.
RowsTyped ==
    /\ session \in [SessionIds -> SessionRows \cup {NoRow}]
    /\ \A s \in SessionIds : Born(s) => (session[s].member = NoMember <=> session[s].authz = 0)
    /\ token \in [Tokens -> TokenRows \cup {NoRow}]

\* Revoking a set of sessions and their tokens keeps both tables well typed.
LEMMA RevocationTypes ==
    ASSUME TypeOK, NEW S \in SUBSET SessionIds,
           token' = RevokedTokens(S), session' = RevokedSessions(S)
    PROVE  RowsTyped'
<1>1. ASSUME NEW s \in SessionIds, Born(s)'
      PROVE  (session[s].member = NoMember <=> session[s].authz = 0)'
  <2>1. Born(s) /\ session[s] \in SessionRows
    BY <1>1, RevokedRows, RowTypes DEF Born
  <2>2. session'[s] = session[s] \/ session'[s] = [session[s] EXCEPT !.revoked = TRUE]
    BY RevokedRows
  <2>3. session'[s].member = session[s].member /\ session'[s].authz = session[s].authz
    BY <2>1, <2>2 DEF SessionRows
  <2> QED BY <2>1, <2>3 DEF TypeOK
<1> QED BY <1>1, RevokedRows DEF RowsTyped

\* Every value that an action stores has its type.
LEMMA TypeStep == TypeOK /\ ReferenceInv /\ [Next]_vars => TypeOK'
<1> SUFFICES ASSUME TypeOK, ReferenceInv, [Next]_vars PROVE TypeOK'
  OBVIOUS
<1> USE DEF database
<1>1. ASSUME NEW s \in SessionIds, NEW t \in Tokens, Start(s, t) PROVE TypeOK'
  <2>1. SessionRow(NoMember, 0, now) \in SessionRows /\ TokenRow(s, now) \in TokenRows
    <3>1. 0 \in 0 .. MaxAuthz /\ now \in Times
      BY BoundsAssumption DEF TypeOK
    <3> QED BY <3>1, FreshRows
  <2>2. Claim(s, NoMember, 0) \in Claims
    BY BoundsAssumption DEF Claim, Claims
  <2>3. SessionRow(NoMember, 0, now).member = NoMember /\ SessionRow(NoMember, 0, now).authz = 0
    BY DEF SessionRow
  <2> QED BY <1>1, <2>1, <2>2, <2>3 DEF Start, TypeOK, Born
<1>2. ASSUME NEW r \in Refreshes, NEW t \in Tokens, BeginRefresh(r, t) PROVE TypeOK'
  <2>1. token[t] \in TokenRows /\ token[t].session \in SessionIds /\ Born(token[t].session)
    BY <1>2, RowTypes DEF BeginRefresh, ReferenceInv, TokenRows
  <2>2. ValidationState(token[t].session) \in ValidationStates
    BY <2>1, StateType
  <2>3. Exchangeable(t) \in BOOLEAN
    BY <2>1, <2>2 DEF Exchangeable, TokenRows
  <2>4. [pc |-> "located", token |-> t, began |-> now,
         sees |-> ValidationState(token[t].session), read |-> token[t],
         live |-> Exchangeable(t)] \in RefreshStates
    BY <2>1, <2>2, <2>3 DEF RefreshStates, TypeOK
  <2> QED BY <1>2, <2>4 DEF BeginRefresh, TypeOK, Born
<1>3. ASSUME NEW r \in Refreshes, LockRefresh(r) PROVE TypeOK'
  <2>1. refreshing[r] \in RefreshStates \ {Idle} /\ refreshing[r].token \in Tokens
    BY <1>3, RequestFields DEF LockRefresh
  <2>2. LockedToken(r) \in TokenRows
    BY <1>3, <2>1, RowTypes DEF LockRefresh, LockedToken, ReferenceInv
  <2>3. [refreshing[r] EXCEPT !.pc = "locked", !.read = LockedToken(r)] \in RefreshStates
    BY <2>1, <2>2, RequestMoves
  <2> QED BY <1>3, <2>3 DEF LockRefresh, TypeOK, Born
<1>4. ASSUME NEW r \in Refreshes, RefreshReplayed(r) \/ RefreshRefused(r) PROVE TypeOK'
  <2>1. refreshing[r] \in RefreshStates \ {Idle} /\ refreshing[r].read \in TokenRows
    BY <1>4, RequestFields DEF RefreshReplayed, RefreshRefused
  <2>2. PICK s \in SessionIds : s = refreshing[r].read.session
    BY <2>1 DEF TokenRows
  <2>3. [refreshing[r] EXCEPT !.pc = "replay"] \in RefreshStates
        /\ [refreshing[r] EXCEPT !.pc = "invalid"] \in RefreshStates
    BY <2>1, RequestMoves
  <2>4. refreshing' \in [Refreshes -> RefreshStates]
    BY <1>4, <2>3 DEF RefreshReplayed, RefreshRefused, TypeOK
  <2>5. token' = RevokedTokens({s}) /\ session' = RevokedSessions({s})
        /\ uninvalidated' = uninvalidated \cup {s}
        /\ UNCHANGED <<member, claims, cache, validating, now>>
    BY <1>4, <2>2 DEF RefreshReplayed, RefreshRefused
  <2>6. RowsTyped'
    BY <2>5, RevocationTypes
  <2> QED BY <2>4, <2>5, <2>6 DEF TypeOK, RowsTyped
<1>5. ASSUME NEW r \in Refreshes, NEW u \in Tokens, Rotate(r, u) PROVE TypeOK'
  <2>1. /\ refreshing[r] \in RefreshStates \ {Idle}
        /\ refreshing[r].token \in Tokens
        /\ refreshing[r].began \in Times
        /\ refreshing[r].read \in TokenRows
        /\ refreshing[r].sees \in ValidationStates
    BY <1>5, RequestFields DEF Rotate
  <2> DEFINE t == refreshing[r].token
             s == refreshing[r].read.session
             state == refreshing[r].sees
             fresh == TokenRow(s, refreshing[r].began)
  <2>2. s \in SessionIds /\ BoundsAssumption
    BY <2>1, BoundsAssumption DEF TokenRows
  <2>3. fresh \in TokenRows /\ fresh.expires \in Expiries
    <3>1. fresh \in TokenRows
      BY <2>1, <2>2, FreshRows
    <3> QED BY <3>1 DEF TokenRows
  <2>4. token[t] \in TokenRows
    BY <1>5, <2>1, RowTypes DEF Rotate, ReferenceInv
  <2>5. Spent(token[t], u) \in TokenRows
    BY <2>4 DEF Spent, TokenRows
  <2>6. token' \in [Tokens -> TokenRows \cup {NoRow}]
    BY <1>5, <2>1, <2>3, <2>5 DEF Rotate, TypeOK
  <2>7. session' = [session EXCEPT ![s].expires = fresh.expires]
    BY <1>5 DEF Rotate
  <2>8. Born(s)
    BY <1>5, <2>1 DEF Rotate, ReferenceInv
  <2>9. [session[s] EXCEPT !.expires = fresh.expires] \in SessionRows
    BY <2>2, <2>3, <2>8, RowTypes DEF SessionRows
  <2>10. session' \in [SessionIds -> SessionRows \cup {NoRow}]
    BY <2>2, <2>7, <2>9 DEF TypeOK
  <2>11. ASSUME NEW s2 \in SessionIds, Born(s2)'
         PROVE  (session[s2].member = NoMember <=> session[s2].authz = 0)'
    <3>1. Born(s2) /\ session[s2] \in SessionRows
      BY <2>2, <2>7, <2>8, <2>11, RowTypes DEF Born, TypeOK
    <3>2. \/ session'[s2] = session[s2]
          \/ session'[s2] = [session[s2] EXCEPT !.expires = fresh.expires]
      BY <2>7 DEF TypeOK
    <3>3. session'[s2].member = session[s2].member /\ session'[s2].authz = session[s2].authz
      BY <3>1, <3>2 DEF SessionRows
    <3> QED BY <3>1, <3>3 DEF TypeOK
  <2>12. Claim(s, state.session.member,
               IF state.session.member = NoMember THEN 0 ELSE state.member.authz) \in Claims
    <3>1. state.session.member \in Members \cup {NoMember}
      BY <2>1 DEF ValidationStates, SessionRows
    <3>2. state.session.member # NoMember => state.member \in MemberRows
      <4>1. state.member \in MemberRows \cup {NoRow}
        BY <2>1 DEF ValidationStates
      <4>2. NoRow.status # "active"
        BY DEF NoRow
      <4> QED BY <1>5, <4>1, <4>2 DEF Rotate, Authoritative
    <3>3. (IF state.session.member = NoMember THEN 0 ELSE state.member.authz) \in 0 .. MaxAuthz
      BY <2>2, <3>1, <3>2 DEF MemberRows, BoundsAssumption
    <3> QED BY <2>2, <3>1, <3>3 DEF Claim, Claims
  <2>13. [refreshing[r] EXCEPT !.pc = "rotated"] \in RefreshStates
    BY <2>1, RequestMoves
  <2> QED BY <1>5, <2>2, <2>6, <2>10, <2>11, <2>12, <2>13 DEF Rotate, TypeOK
<1>6. ASSUME NEW r \in Refreshes, Abort(r) PROVE TypeOK'
  BY <1>6 DEF Abort, TypeOK, RefreshStates, Born
<1>7. ASSUME NEW s \in SessionIds, Revoke(s) PROVE TypeOK'
  <2>1. RowsTyped'
    BY <1>7, RevocationTypes DEF Revoke
  <2> QED BY <1>7, <2>1 DEF Revoke, TypeOK, RowsTyped
<1>8. ASSUME NEW s \in SessionIds, NEW m \in Members, TenantAccess(s, m) PROVE TypeOK'
  <2>1. member[m].authz \in 0 .. MaxAuthz
    BY RowTypes, BoundsAssumption DEF MemberRows
  <2>2. Claim(s, m, member[m].authz) \in Claims
    BY <2>1 DEF Claim, Claims
  <2> QED BY <1>8, <2>2 DEF TenantAccess, TypeOK, Born
<1>9. ASSUME NEW s \in SessionIds, NEW m \in Members, NEW s2 \in SessionIds, NEW t \in Tokens,
             SwitchTenant(s, m, s2, t)
      PROVE  TypeOK'
  <2> DEFINE row == SessionRow(m, member[m].authz, now)
  <2>1. member[m].authz \in 0 .. MaxAuthz /\ member[m].authz # 0
    BY RowTypes, BoundsAssumption DEF MemberRows
  <2>2. row \in SessionRows /\ row.member = m /\ row.authz = member[m].authz
        /\ TokenRow(s2, now) \in TokenRows
    BY <2>1, FreshRows DEF TypeOK, SessionRow
  <2>3. Claim(s2, m, member[m].authz) \in Claims
    BY <2>1 DEF Claim, Claims
  <2>4. /\ session' = [RevokedSessions({s}) EXCEPT ![s2] = row]
        /\ token' = [RevokedTokens({s}) EXCEPT ![t] = TokenRow(s2, now)]
    BY <1>9 DEF SwitchTenant
  <2>5. session' \in [SessionIds -> SessionRows \cup {NoRow}]
        /\ token' \in [Tokens -> TokenRows \cup {NoRow}]
    BY <2>2, <2>4, RevokedRows
  <2>6. ASSUME NEW s3 \in SessionIds, Born(s3)'
        PROVE  (session[s3].member = NoMember <=> session[s3].authz = 0)'
    <3>1. CASE s3 = s2
      BY <2>1, <2>2, <2>4, <2>5, <3>1, NoMemberAssumption, RevokedRows
    <3>2. CASE s3 # s2
      <4>1. session'[s3] = RevokedSessions({s})[s3]
        BY <2>4, <3>2, RevokedRows
      <4>2. \/ session'[s3] = session[s3]
            \/ Born(s3) /\ session'[s3] = [session[s3] EXCEPT !.revoked = TRUE]
        BY <4>1, RevokedRows
      <4>3. Born(s3) /\ session[s3] \in SessionRows
        BY <2>6, <4>2, RowTypes DEF Born
      <4>4. session'[s3].member = session[s3].member /\ session'[s3].authz = session[s3].authz
        BY <4>2, <4>3 DEF SessionRows
      <4> QED BY <4>3, <4>4 DEF TypeOK
    <3> QED BY <3>1, <3>2
  <2> QED BY <1>9, <2>3, <2>5, <2>6 DEF SwitchTenant, TypeOK
<1>10. ASSUME NEW m \in Members, ActivateMember(m) PROVE TypeOK'
  <2>1. [status |-> "active", authz |-> member[m].authz + 1] \in MemberRows
    BY <1>10, RowTypes, BoundsAssumption DEF ActivateMember, MemberRows
  <2>2. member' = [member EXCEPT ![m] = [status |-> "active", authz |-> member[m].authz + 1]]
    BY <1>10 DEF ActivateMember
  <2> QED BY <1>10, <2>1, <2>2 DEF ActivateMember, TypeOK, Born
<1>11. ASSUME NEW m \in Members, NEW status \in {"active", "suspended", "revoked"},
              ChangeMember(m, status)
       PROVE  TypeOK'
  <2>1. [status |-> status, authz |-> member[m].authz + 1] \in MemberRows
    BY <1>11, RowTypes, BoundsAssumption DEF ChangeMember, MemberRows
  <2>2. member' = [member EXCEPT ![m] = [status |-> status, authz |-> member[m].authz + 1]]
    BY <1>11 DEF ChangeMember
  <2>3. RowsTyped'
    BY <1>11, RevocationTypes DEF ChangeMember, SessionsOf
  <2> QED BY <1>11, <2>1, <2>2, <2>3 DEF ChangeMember, TypeOK, RowsTyped
<1>12. ASSUME NEW v \in Validations, NEW c \in claims, BeginValidation(v, c) PROVE TypeOK'
  <2>1. Good(c) \in BOOLEAN
    <3>1. c \in Claims /\ c.session \in SessionIds /\ Born(c.session)
      BY DEF ReferenceInv, TypeOK, Claims
    <3> QED BY <3>1, RowTypes DEF Good, SessionRows
  <2>2. [pc |-> IF c.member = NoMember /\ ~HintAllows(c.session, now) THEN "refused" ELSE "loading",
         claim |-> c, began |-> now, state |-> NoRow, live |-> Good(c)] \in ValidatingStates
    BY <2>1 DEF TypeOK, ValidatingStates
  <2> QED BY <1>12, <2>2 DEF BeginValidation, TypeOK, Born
<1>13. ASSUME NEW v \in Validations, LoadAccount(v) PROVE TypeOK'
  <2>1. validating[v] \in ValidatingStates \ {Idle} /\ validating[v].claim \in claims
    BY <1>13, RequestFields DEF LoadAccount, ReferenceInv
  <2>2. Loaded(validating[v].claim.session) \in ValidationStates
    BY <2>1, StateType DEF Loaded, ReferenceInv, TypeOK, Claims
  <2>3. [validating[v] EXCEPT !.pc = "storing", !.state = Loaded(validating[v].claim.session)]
           \in ValidatingStates
    BY <2>1, <2>2, RequestMoves
  <2> QED BY <1>13, <2>3 DEF LoadAccount, TypeOK, Born
<1>14. ASSUME NEW v \in Validations, AnswerAccount(v) PROVE TypeOK'
  <2>1. validating[v] \in ValidatingStates \ {Idle} /\ validating[v].state \in ValidationStates
    BY <1>14, RequestFields DEF AnswerAccount, ReferenceInv
  <2>2. cache' \in [SessionIds -> ValidationStates \cup {NoRow}]
    BY <1>14, <2>1 DEF AnswerAccount, TypeOK
  <2>3. [validating[v] EXCEPT !.pc = Verdict(validating[v].claim, validating[v].state,
                                             validating[v].began)] \in ValidatingStates
    BY <2>1, RequestMoves DEF Verdict
  <2> QED BY <1>14, <2>2, <2>3 DEF AnswerAccount, TypeOK, Born
<1>15. ASSUME NEW v \in Validations, AnswerTenant(v) PROVE TypeOK'
  <2>1. validating[v] \in ValidatingStates \ {Idle}
    BY <1>15, RequestFields DEF AnswerTenant
  <2>2. \A verdict \in {"valid", "refused"} :
           [validating[v] EXCEPT !.pc = verdict] \in ValidatingStates
    BY <2>1, RequestMoves
  <2> QED BY <1>15, <2>2 DEF AnswerTenant, DerivedVerdict, Verdict, TypeOK, Born
<1>16. ASSUME NEW s \in SessionIds, Invalidate(s) \/ Evict(s) PROVE TypeOK'
  BY <1>16 DEF Invalidate, Evict, TypeOK, Born
<1>17. ASSUME Tick PROVE TypeOK'
  BY <1>17, BoundsAssumption DEF Tick, TypeOK, Times, Born
<1>18. CASE UNCHANGED vars
  BY <1>18 DEF vars, TypeOK, Born
<1> QED
  BY <1>1, <1>2, <1>3, <1>4, <1>5, <1>6, <1>7, <1>8, <1>9, <1>10, <1>11, <1>12, <1>13, <1>14,
     <1>15, <1>16, <1>17, <1>18
  DEF Next, RefreshStep, SessionStep, MemberStep, ValidationStep

-----------------------------------------------------------------------------
\* A refresh that has its locks is alone with its session, and knows its token.
LockInv ==
    /\ \A r \in Refreshes : refreshing[r].pc = "locked" =>
         refreshing[r].read = token[refreshing[r].token]
    /\ \A r, r2 \in Refreshes : refreshing[r].pc = "locked" /\ refreshing[r2].pc = "locked" =>
         (token[refreshing[r].token].session = token[refreshing[r2].token].session => r = r2)

-----------------------------------------------------------------------------
\* A revoked row differs from what it was in nothing but its mark.
LEMMA KilledToken ==
    ASSUME TypeOK, NEW S \in SUBSET SessionIds, NEW t \in Tokens
    PROVE  /\ Issued(t) =>
                /\ RevokedTokens(S)[t] \in TokenRows
                /\ RevokedTokens(S)[t].session = token[t].session
                /\ RevokedTokens(S)[t].used = token[t].used
                /\ RevokedTokens(S)[t].next = token[t].next
                /\ RevokedTokens(S)[t].revoked = (token[t].revoked \/ token[t].session \in S)
           /\ ~Issued(t) => RevokedTokens(S)[t] = NoRow
<1>1. Issued(t) => token[t] \in TokenRows /\ token[t].revoked \in BOOLEAN
  BY RowTypes DEF TokenRows
<1>2. RevokedTokens(S)[t] = IF Issued(t) /\ token[t].session \in S
                            THEN [token[t] EXCEPT !.revoked = TRUE] ELSE token[t]
  BY DEF RevokedTokens
<1>3. CASE ~Issued(t)
  BY <1>2, <1>3 DEF Issued
<1>4. CASE Issued(t) /\ token[t].session \in S
  BY <1>1, <1>2, <1>4 DEF TokenRows
<1>5. CASE Issued(t) /\ token[t].session \notin S
  BY <1>1, <1>2, <1>5
<1> QED BY <1>3, <1>4, <1>5

\* The same of a session: its tenant context and its expiry survive it.
LEMMA KilledSession ==
    ASSUME TypeOK, NEW S \in SUBSET SessionIds, NEW s \in SessionIds
    PROVE  /\ Born(s) =>
                /\ RevokedSessions(S)[s] \in SessionRows
                /\ RevokedSessions(S)[s].member = session[s].member
                /\ RevokedSessions(S)[s].authz = session[s].authz
                /\ RevokedSessions(S)[s].expires = session[s].expires
                /\ RevokedSessions(S)[s].revoked = (session[s].revoked \/ s \in S)
           /\ ~Born(s) => RevokedSessions(S)[s] = NoRow
<1>1. Born(s) => session[s] \in SessionRows /\ session[s].revoked \in BOOLEAN
  BY RowTypes DEF SessionRows
<1>2. RevokedSessions(S)[s] = IF Born(s) /\ s \in S
                              THEN [session[s] EXCEPT !.revoked = TRUE] ELSE session[s]
  BY DEF RevokedSessions
<1>3. CASE ~Born(s)
  BY <1>2, <1>3 DEF Born
<1>4. CASE Born(s) /\ s \in S
  BY <1>1, <1>2, <1>4 DEF SessionRows
<1>5. CASE Born(s) /\ s \notin S
  BY <1>1, <1>2, <1>5
<1> QED BY <1>3, <1>4, <1>5

-----------------------------------------------------------------------------
(* What a transaction does to the tables. *)

\* No refresh that holds its locks before and after the step is for one of S.
Unheld(S) ==
    \A r \in Refreshes :
        refreshing[r].pc = "locked" /\ refreshing'[r].pc = "locked" =>
            token[refreshing[r].token].session \notin S

\* The sessions S are revoked.
Kill(S) ==
    /\ token' = RevokedTokens(S)
    /\ session' = RevokedSessions(S)
    /\ Unheld(S)

\* A session s of the tenant context (m, a) is created with its first token t,
\* in the place of the live session that S may hold.
Create(S, s, t, m, a) ==
    /\ ~Born(s) /\ ~Issued(t)
    /\ \/ S = {}
       \/ \E s2 \in SessionIds : S = {s2} /\ Born(s2) /\ ~session[s2].revoked
    /\ token' = [RevokedTokens(S) EXCEPT ![t] = TokenRow(s, now)]
    /\ session' = [RevokedSessions(S) EXCEPT ![s] = SessionRow(m, a, now)]
    /\ Unheld(S)
    /\ m # NoMember => member[m].status = "active" /\ member[m].authz = a
    /\ UNCHANGED member

\* The token t of session s is exchanged for u by a refresh that ends.
Exchange(r, s, t, u, at) ==
    /\ refreshing[r].pc = "locked" /\ refreshing'[r].pc = "rotated"
    /\ t = refreshing[r].token
    /\ Issued(t) /\ ~token[t].used /\ ~token[t].revoked /\ token[t].session = s
    /\ Born(s) /\ ~Issued(u)
    /\ token' = [token EXCEPT ![t] = Spent(token[t], u), ![u] = TokenRow(s, at)]
    /\ session' = [session EXCEPT ![s].expires = TokenRow(s, at).expires]
    /\ UNCHANGED member

\* The member m gets a new status, and all of her sessions are revoked.
Outdate(m, status) ==
    /\ Kill(SessionsOf(m))
    /\ member' = [member EXCEPT ![m] = [status |-> status, authz |-> member[m].authz + 1]]

\* Every step leaves the tables alone or is one of these transactions.
LEMMA Transactions ==
    ASSUME TypeOK, ReferenceInv, LockInv, [Next]_vars
    PROVE  \/ UNCHANGED database
           \/ \E S \in SUBSET SessionIds, s \in SessionIds, t \in Tokens,
                 m \in Members \cup {NoMember}, a \in 0 .. MaxAuthz : Create(S, s, t, m, a)
           \/ \E r \in Refreshes, s \in SessionIds, t, u \in Tokens, at \in Times :
                 Exchange(r, s, t, u, at)
           \/ \E S \in SUBSET SessionIds : Kill(S) /\ UNCHANGED member
           \/ \E m \in Members, status \in {"active", "suspended", "revoked"} : Outdate(m, status)
           \/ \E m \in Members : ActivateMember(m)
<1> DEFINE Created == \E S \in SUBSET SessionIds, s \in SessionIds, t \in Tokens,
                         m \in Members \cup {NoMember}, a \in 0 .. MaxAuthz :
                         Create(S, s, t, m, a)
           Exchanged == \E r \in Refreshes, s \in SessionIds, t, u \in Tokens, at \in Times :
                         Exchange(r, s, t, u, at)
           Killed == \E S \in SUBSET SessionIds : Kill(S) /\ UNCHANGED member
<1> HIDE DEF Created, Exchanged, Killed
<1>1. ASSUME NEW s \in SessionIds, NEW t \in Tokens, Start(s, t) PROVE Created
  <2>1. PICK S \in SUBSET SessionIds : S = {}
    OBVIOUS
  <2>2. RevokedTokens(S) = token /\ RevokedSessions(S) = session
    BY <2>1 DEF RevokedTokens, RevokedSessions, TypeOK
  <2>3. Create(S, s, t, NoMember, 0)
    BY <1>1, <2>1, <2>2 DEF Start, Create, Unheld
  <2>4. 0 \in 0 .. MaxAuthz
    BY BoundsAssumption
  <2> QED BY <2>3, <2>4 DEF Created
<1>2. ASSUME NEW r \in Refreshes, NEW u \in Tokens, Rotate(r, u) PROVE Exchanged
  <2>1. PICK t \in Tokens, s \in SessionIds, at \in Times :
            t = refreshing[r].token /\ s = refreshing[r].read.session /\ at = refreshing[r].began
    BY <1>2, RequestFields DEF Rotate, TokenRows
  <2>2. Issued(t) /\ refreshing[r].read = token[t] /\ token[t].session = s /\ Born(s)
    BY <1>2, <2>1 DEF Rotate, ReferenceInv, LockInv
  <2>3. refreshing'[r].pc = "rotated"
    <3>1. refreshing' = [refreshing EXCEPT ![r].pc = "rotated"]
          /\ refreshing[r] \in RefreshStates \ {Idle}
      BY <1>2, RequestFields DEF Rotate
    <3> QED BY <3>1 DEF TypeOK, RefreshStates, Idle
  <2>4. Exchange(r, s, t, u, at)
    BY <1>2, <2>1, <2>2, <2>3 DEF Rotate, Current, Exchange
  <2> QED BY <2>4 DEF Exchanged
<1>3. ASSUME NEW r \in Refreshes, RefreshReplayed(r) \/ RefreshRefused(r) PROVE Killed
  <2>1. PICK s \in SessionIds, S \in SUBSET SessionIds :
            s = refreshing[r].read.session /\ S = {s}
    BY <1>3, RequestFields DEF RefreshReplayed, RefreshRefused, TokenRows
  <2>2. /\ refreshing[r].pc = "locked" /\ refreshing[r] \in RefreshStates \ {Idle}
        /\ \/ refreshing' = [refreshing EXCEPT ![r].pc = "replay"]
           \/ refreshing' = [refreshing EXCEPT ![r].pc = "invalid"]
    BY <1>3, RequestFields DEF RefreshReplayed, RefreshRefused
  <2>3. /\ refreshing'[r].pc # "locked"
        /\ \A r2 \in Refreshes : r2 # r => refreshing'[r2] = refreshing[r2]
    BY <2>2 DEF TypeOK, RefreshStates, Idle
  <2>4. s = token[refreshing[r].token].session
    BY <2>1, <2>2 DEF LockInv
  <2>5. Unheld(S)
    BY <2>1, <2>2, <2>3, <2>4 DEF Unheld, LockInv
  <2>6. token' = RevokedTokens(S) /\ session' = RevokedSessions(S) /\ UNCHANGED member
    BY <1>3, <2>1 DEF RefreshReplayed, RefreshRefused
  <2> QED BY <2>5, <2>6 DEF Kill, Killed
<1>4. ASSUME NEW s \in SessionIds, Revoke(s) PROVE Killed
  <2>1. PICK S \in SUBSET SessionIds : S = {s}
    OBVIOUS
  <2>2. Unheld(S)
    BY <1>4, <2>1 DEF Revoke, Lockable, Holds, Unheld
  <2> QED BY <1>4, <2>1, <2>2 DEF Revoke, Kill, Killed
<1>5. ASSUME NEW s \in SessionIds, NEW m \in Members, NEW s2 \in SessionIds, NEW t \in Tokens,
             SwitchTenant(s, m, s2, t)
      PROVE  Created
  <2>1. PICK S \in SUBSET SessionIds : S = {s}
    OBVIOUS
  <2>2. Unheld(S)
    BY <1>5, <2>1 DEF SwitchTenant, TenantContextAllowed, Lockable, Holds, Unheld
  <2>3. PICK a \in 0 .. MaxAuthz : a = member[m].authz
    BY RowTypes, BoundsAssumption DEF MemberRows
  <2>4. Born(s) /\ ~session[s].revoked
    BY <1>5 DEF SwitchTenant, TenantContextAllowed, Account, Authoritative, ValidationState
  <2>5. Create(S, s2, t, m, a)
    BY <1>5, <2>1, <2>2, <2>3, <2>4 DEF SwitchTenant, TenantContextAllowed, Create
  <2> QED BY <2>5 DEF Created
<1>6. ASSUME NEW m \in Members, NEW status \in {"active", "suspended", "revoked"},
             ChangeMember(m, status)
      PROVE  Outdate(m, status)
  <2>1. \A r \in Refreshes : refreshing[r].pc = "locked" =>
           token[refreshing[r].token].session \notin SessionsOf(m)
    BY <1>6 DEF ChangeMember, GateFree, Holds, SessionsOf
  <2> QED BY <1>6, <2>1 DEF ChangeMember, Outdate, Kill, Unheld
<1>7. ASSUME NEW r \in Refreshes, NEW t \in Tokens, BeginRefresh(r, t) PROVE UNCHANGED database
  BY <1>7 DEF BeginRefresh
<1>8. ASSUME NEW r \in Refreshes, LockRefresh(r) \/ Abort(r) PROVE UNCHANGED database
  BY <1>8 DEF LockRefresh, Abort
<1>9. ASSUME NEW s \in SessionIds, NEW m \in Members, TenantAccess(s, m) PROVE UNCHANGED database
  BY <1>9 DEF TenantAccess
<1>10. ASSUME NEW s \in SessionIds, Invalidate(s) \/ Evict(s) PROVE UNCHANGED database
  BY <1>10 DEF Invalidate, Evict
<1>11. ASSUME NEW v \in Validations, ValidationStep(v) PROVE UNCHANGED database
  BY <1>11 DEF ValidationStep, BeginValidation, LoadAccount, AnswerAccount, AnswerTenant
<1>12. Tick \/ UNCHANGED vars => UNCHANGED database
  BY DEF Tick, vars, database
<1>13. \/ UNCHANGED database
       \/ Created \/ Exchanged \/ Killed
       \/ \E m \in Members, status \in {"active", "suspended", "revoked"} : Outdate(m, status)
       \/ \E m \in Members : ActivateMember(m)
  BY <1>1, <1>2, <1>3, <1>4, <1>5, <1>6, <1>7, <1>8, <1>9, <1>10, <1>11, <1>12
  DEF Next, RefreshStep, SessionStep, MemberStep
<1> QED BY <1>13 DEF Created, Exchanged, Killed

-----------------------------------------------------------------------------
(* What that means for a row that exists. *)

\* The token keeps its place in its family; the session keeps its context.
SamePlace(t) ==
    /\ Issued(t)' <=> Issued(t)
    /\ Issued(t) => /\ token'[t] \in TokenRows
                    /\ token'[t].session = token[t].session
                    /\ token'[t].used = token[t].used
                    /\ token'[t].next = token[t].next
SameContext(s) ==
    /\ Born(s)' <=> Born(s)
    /\ Born(s) => /\ session'[s] \in SessionRows
                  /\ session'[s].member = session[s].member
                  /\ session'[s].authz = session[s].authz

\* A row is revoked by this step, or was before, or is not.
TokenRevoked(t, S) ==
    Issued(t) => token'[t].revoked = (token[t].revoked \/ token[t].session \in S)
SessionRevoked(s, S) ==
    Born(s) => session'[s].revoked = (session[s].revoked \/ s \in S)

\* A revocation of S changes no row in anything but its mark.
LEMMA KilledRows ==
    ASSUME TypeOK, NEW S \in SUBSET SessionIds
    PROVE  /\ \A t \in Tokens : token'[t] = RevokedTokens(S)[t] =>
                                  SamePlace(t) /\ TokenRevoked(t, S)
           /\ \A s \in SessionIds : session'[s] = RevokedSessions(S)[s] =>
                                  SameContext(s) /\ SessionRevoked(s, S)
<1>1. ASSUME NEW t \in Tokens, token'[t] = RevokedTokens(S)[t]
      PROVE  SamePlace(t) /\ TokenRevoked(t, S)
  <2>1. CASE Issued(t)
    <3>1. /\ RevokedTokens(S)[t] \in TokenRows
          /\ RevokedTokens(S)[t].session = token[t].session
          /\ RevokedTokens(S)[t].used = token[t].used
          /\ RevokedTokens(S)[t].next = token[t].next
          /\ RevokedTokens(S)[t].revoked = (token[t].revoked \/ token[t].session \in S)
      BY <2>1, KilledToken
    <3>2. Issued(t)'
      BY <1>1, <3>1, AbsentRow DEF Issued
    <3> QED BY <1>1, <2>1, <3>1, <3>2 DEF SamePlace, TokenRevoked
  <2>2. CASE ~Issued(t)
    <3>1. ~Issued(t)'
      BY <1>1, <2>2, KilledToken DEF Issued
    <3> QED BY <2>2, <3>1 DEF SamePlace, TokenRevoked
  <2> QED BY <2>1, <2>2
<1>2. ASSUME NEW s \in SessionIds, session'[s] = RevokedSessions(S)[s]
      PROVE  SameContext(s) /\ SessionRevoked(s, S)
  <2>1. CASE Born(s)
    <3>1. /\ RevokedSessions(S)[s] \in SessionRows
          /\ RevokedSessions(S)[s].member = session[s].member
          /\ RevokedSessions(S)[s].authz = session[s].authz
          /\ RevokedSessions(S)[s].revoked = (session[s].revoked \/ s \in S)
      BY <2>1, KilledSession
    <3>2. Born(s)'
      BY <1>2, <3>1, AbsentRow DEF Born
    <3> QED BY <1>2, <2>1, <3>1, <3>2 DEF SameContext, SessionRevoked
  <2>2. CASE ~Born(s)
    <3>1. ~Born(s)'
      BY <1>2, <2>2, KilledSession DEF Born
    <3> QED BY <2>2, <3>1 DEF SameContext, SessionRevoked
  <2> QED BY <2>1, <2>2
<1> QED BY <1>1, <1>2

\* A creation adds one session and one token, and revokes S.
LEMMA CreatedRows ==
    ASSUME TypeOK, NEW S \in SUBSET SessionIds, NEW s \in SessionIds, NEW t \in Tokens,
           NEW m \in Members \cup {NoMember}, NEW a \in 0 .. MaxAuthz, Create(S, s, t, m, a)
    PROVE  /\ \A t2 \in Tokens \ {t} : SamePlace(t2) /\ TokenRevoked(t2, S)
           /\ \A s2 \in SessionIds \ {s} : SameContext(s2) /\ SessionRevoked(s2, S)
           /\ Issued(t)' /\ Born(s)'
           /\ token'[t] = TokenRow(s, now)
           /\ session'[s] = SessionRow(m, a, now)
           /\ token'[t] \in TokenRows /\ session'[s] \in SessionRows
<1>1. token'[t] = TokenRow(s, now) /\ session'[s] = SessionRow(m, a, now)
  BY RevokedRows DEF Create
<1>2. token'[t] \in TokenRows /\ session'[s] \in SessionRows
  BY <1>1, FreshRows DEF TypeOK
<1>3. Issued(t)' /\ Born(s)'
  BY <1>2, AbsentRow DEF Issued, Born
<1>4. /\ \A t2 \in Tokens \ {t} : token'[t2] = RevokedTokens(S)[t2]
      /\ \A s2 \in SessionIds \ {s} : session'[s2] = RevokedSessions(S)[s2]
  BY RevokedRows DEF Create
<1> QED BY <1>1, <1>2, <1>3, <1>4, KilledRows

\* An exchange spends t, adds u, and moves the expiry of their session.
LEMMA ExchangedRows ==
    ASSUME TypeOK, NEW r \in Refreshes, NEW s \in SessionIds, NEW t \in Tokens, NEW u \in Tokens,
           NEW at \in Times, Exchange(r, s, t, u, at)
    PROVE  /\ t # u
           /\ \A t2 \in Tokens \ {t, u} : SamePlace(t2) /\ token'[t2] = token[t2]
           /\ \A s2 \in SessionIds : SameContext(s2) /\ SessionRevoked(s2, {})
           /\ \A s2 \in SessionIds \ {s} : session'[s2] = session[s2]
           /\ Issued(t)' /\ Issued(u)'
           /\ token'[t] = Spent(token[t], u)
           /\ token'[u] = TokenRow(s, at)
           /\ token'[t] \in TokenRows /\ token'[u] \in TokenRows
<1>1. t # u /\ token[t] \in TokenRows
  BY RowTypes DEF Exchange
<1>2. token'[t] = Spent(token[t], u) /\ token'[u] = TokenRow(s, at)
  BY <1>1 DEF Exchange, TypeOK
<1>3. TokenRow(s, at) \in TokenRows
  BY FreshRows
<1>4. token'[t] \in TokenRows /\ token'[u] \in TokenRows
  BY <1>1, <1>2, <1>3 DEF Spent, TokenRows
<1>5. Issued(t)' /\ Issued(u)'
  BY <1>4, AbsentRow DEF Issued
<1>6. \A t2 \in Tokens \ {t, u} : SamePlace(t2) /\ token'[t2] = token[t2]
  <2>1. \A t2 \in Tokens \ {t, u} : token'[t2] = token[t2]
    BY DEF Exchange, TypeOK
  <2> QED BY <2>1, RowTypes DEF SamePlace, Issued
<1>7. ASSUME NEW s2 \in SessionIds
      PROVE  /\ SameContext(s2) /\ SessionRevoked(s2, {})
             /\ s2 # s => session'[s2] = session[s2]
  <2>1. CASE s2 = s
    <3>1. session'[s] = [session[s] EXCEPT !.expires = TokenRow(s, at).expires]
      BY DEF Exchange, TypeOK
    <3>2. session[s] \in SessionRows /\ TokenRow(s, at).expires \in Expiries
      BY <1>3, RowTypes DEF Exchange, TokenRows
    <3>3. /\ session'[s] \in SessionRows
          /\ session'[s].member = session[s].member
          /\ session'[s].authz = session[s].authz
          /\ session'[s].revoked = session[s].revoked
          /\ session[s].revoked \in BOOLEAN
      BY <3>1, <3>2 DEF SessionRows
    <3>4. Born(s)'
      BY <3>3, AbsentRow DEF Born
    <3>5. SameContext(s)
      BY <3>3, <3>4 DEF SameContext, Exchange
    <3>6. SessionRevoked(s, {})
      BY <3>3 DEF SessionRevoked
    <3> QED BY <2>1, <3>5, <3>6
  <2>2. CASE s2 # s
    <3>1. session'[s2] = session[s2]
      BY <2>2 DEF Exchange, TypeOK
    <3>2. Born(s2) => session[s2] \in SessionRows /\ session[s2].revoked \in BOOLEAN
      BY RowTypes DEF SessionRows
    <3>3. SameContext(s2)
      BY <3>1, <3>2 DEF SameContext, Born
    <3>4. SessionRevoked(s2, {})
      BY <3>1, <3>2 DEF SessionRevoked, Born
    <3> QED BY <2>2, <3>1, <3>3, <3>4
  <2> QED BY <2>1, <2>2
<1> QED BY <1>1, <1>2, <1>4, <1>5, <1>6, <1>7

\* A token is never taken back, given to another session or unmarked, and a
\* session keeps its tenant context and is never revived.
TokenEvolves(t) ==
    Issued(t) =>
        /\ Issued(t)'
        /\ token'[t].session = token[t].session
        /\ token[t].used => token'[t].used /\ token'[t].next = token[t].next
        /\ token[t].revoked => token'[t].revoked
SessionEvolves(s) ==
    Born(s) =>
        /\ Born(s)'
        /\ session'[s].member = session[s].member
        /\ session'[s].authz = session[s].authz
        /\ session[s].revoked => session'[s].revoked

\* What every step does to the rows that exist.
LEMMA RowsEvolve ==
    ASSUME TypeOK, ReferenceInv, LockInv, [Next]_vars
    PROVE  /\ \A t \in Tokens : TokenEvolves(t)
           /\ \A s \in SessionIds : SessionEvolves(s)
<1> DEFINE Evolve == /\ \A t \in Tokens : TokenEvolves(t)
                     /\ \A s \in SessionIds : SessionEvolves(s)
<1>a. ASSUME NEW t \in Tokens, NEW S \in SUBSET SessionIds, SamePlace(t), TokenRevoked(t, S)
      PROVE  TokenEvolves(t)
  BY <1>a DEF SamePlace, TokenRevoked, TokenEvolves
<1>b. ASSUME NEW s \in SessionIds, NEW S \in SUBSET SessionIds, SameContext(s), SessionRevoked(s, S)
      PROVE  SessionEvolves(s)
  BY <1>b DEF SameContext, SessionRevoked, SessionEvolves
<1>1. CASE UNCHANGED database
  BY <1>1 DEF database, TokenEvolves, SessionEvolves, Issued, Born
<1>2. ASSUME NEW S \in SUBSET SessionIds, NEW s \in SessionIds, NEW t \in Tokens,
             NEW m \in Members \cup {NoMember}, NEW a \in 0 .. MaxAuthz, Create(S, s, t, m, a)
      PROVE  Evolve
  <2>1. \A t2 \in Tokens \ {t} : TokenEvolves(t2)
    BY <1>2, <1>a, CreatedRows
  <2>2. \A s2 \in SessionIds \ {s} : SessionEvolves(s2)
    BY <1>2, <1>b, CreatedRows
  <2>3. TokenEvolves(t) /\ SessionEvolves(s)
    BY <1>2 DEF Create, TokenEvolves, SessionEvolves
  <2> QED BY <2>1, <2>2, <2>3
<1>3. ASSUME NEW r \in Refreshes, NEW s \in SessionIds, NEW t \in Tokens, NEW u \in Tokens,
             NEW at \in Times, Exchange(r, s, t, u, at)
      PROVE  Evolve
  <2>1. \A s2 \in SessionIds : SessionEvolves(s2)
    BY <1>3, <1>b, ExchangedRows
  <2>2. \A t2 \in Tokens \ {t, u} : TokenEvolves(t2)
    BY <1>3, ExchangedRows DEF SamePlace, TokenEvolves
  <2>3. TokenEvolves(u)
    BY <1>3 DEF Exchange, TokenEvolves
  <2>4. TokenEvolves(t)
    <3>1. Issued(t)' /\ token'[t] = Spent(token[t], u)
      BY <1>3, ExchangedRows
    <3>2. token[t] \in TokenRows
      BY <1>3, RowTypes DEF Exchange
    <3>3. token'[t].session = token[t].session /\ token'[t].revoked = token[t].revoked
      BY <3>1, <3>2 DEF Spent, TokenRows
    <3> QED BY <1>3, <3>1, <3>3 DEF Exchange, TokenEvolves
  <2> QED BY <2>1, <2>2, <2>3, <2>4
<1>4. ASSUME NEW S \in SUBSET SessionIds, Kill(S) PROVE Evolve
  BY <1>4, <1>a, <1>b, KilledRows DEF Kill
<1>5. ASSUME NEW m \in Members, NEW status \in {"active", "suspended", "revoked"},
             Outdate(m, status)
      PROVE  Evolve
  BY <1>4, <1>5 DEF Outdate, SessionsOf
<1>6. ASSUME NEW m \in Members, ActivateMember(m) PROVE Evolve
  BY <1>6 DEF ActivateMember, TokenEvolves, SessionEvolves, Issued, Born
<1> QED
  BY <1>1, <1>2, <1>3, <1>4, <1>5, <1>6, Transactions

-----------------------------------------------------------------------------
(* What a step does to the requests. *)

\* One refresh moves at a time, by one of its own actions.
LEMMA RefreshSteps ==
    ASSUME TypeOK, [Next]_vars, NEW r \in Refreshes
    PROVE  \/ refreshing'[r] = refreshing[r]
           \/ \E t \in Tokens : BeginRefresh(r, t)
           \/ LockRefresh(r)
           \/ RefreshReplayed(r) \/ RefreshRefused(r)
           \/ \E u \in Tokens : Rotate(r, u)
           \/ Abort(r)
<1>1. ASSUME NEW r2 \in Refreshes, RefreshStep(r2), r2 # r PROVE refreshing'[r] = refreshing[r]
  BY <1>1 DEF RefreshStep, BeginRefresh, LockRefresh, RefreshReplayed, RefreshRefused, Rotate,
              Abort, TypeOK
<1>2. ASSUME NEW s \in SessionIds, SessionStep(s) PROVE refreshing' = refreshing
  BY <1>2 DEF SessionStep, Start, Revoke, TenantAccess, SwitchTenant, Invalidate, Evict
<1>3. ASSUME NEW m \in Members, MemberStep(m) PROVE refreshing' = refreshing
  BY <1>3 DEF MemberStep, ActivateMember, ChangeMember
<1>4. ASSUME NEW v \in Validations, ValidationStep(v) PROVE refreshing' = refreshing
  BY <1>4 DEF ValidationStep, BeginValidation, LoadAccount, AnswerAccount, AnswerTenant
<1>5. Tick \/ UNCHANGED vars => refreshing' = refreshing
  BY DEF Tick, vars
<1> QED BY <1>1, <1>2, <1>3, <1>4, <1>5 DEF Next, RefreshStep

\* Where each of its actions leaves a refresh.
LEMMA RefreshResults ==
    ASSUME TypeOK, NEW r \in Refreshes
    PROVE  /\ LockRefresh(r) => refreshing'[r] = [refreshing[r] EXCEPT !.pc = "locked",
                                                                       !.read = LockedToken(r)]
           /\ RefreshReplayed(r) => refreshing'[r] = [refreshing[r] EXCEPT !.pc = "replay"]
           /\ RefreshRefused(r) => refreshing'[r] = [refreshing[r] EXCEPT !.pc = "invalid"]
           /\ \A u \in Tokens : Rotate(r, u) =>
                refreshing'[r] = [refreshing[r] EXCEPT !.pc = "rotated"]
           /\ Abort(r) => refreshing'[r] = Idle
BY DEF LockRefresh, RefreshReplayed, RefreshRefused, Rotate, Abort, TypeOK

\* The fields of a refresh survive a change of its program counter.
LEMMA RefreshFields ==
    \A f \in RefreshStates \ {Idle},
       pc \in {"located", "locked", "rotated", "replay", "invalid"} :
         LET g == [f EXCEPT !.pc = pc]
         IN  /\ g.pc = pc /\ g.token = f.token /\ g.read = f.read
             /\ g.sees = f.sees /\ g.live = f.live
             /\ \A row \in TokenRows :
                  LET h == [f EXCEPT !.pc = pc, !.read = row]
                  IN  h.pc = pc /\ h.token = f.token /\ h.read = row
                      /\ h.sees = f.sees /\ h.live = f.live
BY DEF RefreshStates, Idle

\* One validation moves at a time, by one of its own actions.
LEMMA ValidationSteps ==
    ASSUME TypeOK, [Next]_vars, NEW v \in Validations
    PROVE  \/ validating'[v] = validating[v]
           \/ \E c \in claims : BeginValidation(v, c)
           \/ LoadAccount(v) \/ AnswerAccount(v) \/ AnswerTenant(v)
<1>1. ASSUME NEW v2 \in Validations, ValidationStep(v2), v2 # v PROVE validating'[v] = validating[v]
  BY <1>1 DEF ValidationStep, BeginValidation, LoadAccount, AnswerAccount, AnswerTenant, TypeOK
<1>2. ASSUME NEW s \in SessionIds, SessionStep(s) PROVE validating' = validating
  BY <1>2 DEF SessionStep, Start, Revoke, TenantAccess, SwitchTenant, Invalidate, Evict
<1>3. ASSUME NEW m \in Members, MemberStep(m) PROVE validating' = validating
  BY <1>3 DEF MemberStep, ActivateMember, ChangeMember
<1>4. ASSUME NEW r \in Refreshes, RefreshStep(r) PROVE validating' = validating
  BY <1>4 DEF RefreshStep, BeginRefresh, LockRefresh, RefreshReplayed, RefreshRefused, Rotate, Abort
<1>5. Tick \/ UNCHANGED vars => validating' = validating
  BY DEF Tick, vars
<1> QED BY <1>1, <1>2, <1>3, <1>4, <1>5 DEF Next, ValidationStep

\* Access tokens are issued by four actions and never forgotten.
LEMMA ClaimSteps ==
    ASSUME [Next]_vars, NEW c \in claims'
    PROVE  \/ c \in claims
           \/ \E s \in SessionIds, t \in Tokens : Start(s, t) /\ c = Claim(s, NoMember, 0)
           \/ \E r \in Refreshes, u \in Tokens : Rotate(r, u) /\
                c = Claim(refreshing[r].read.session, refreshing[r].sees.session.member,
                          IF refreshing[r].sees.session.member = NoMember THEN 0
                          ELSE refreshing[r].sees.member.authz)
           \/ \E s \in SessionIds, m \in Members :
                TenantAccess(s, m) /\ c = Claim(s, m, member[m].authz)
           \/ \E s, s2 \in SessionIds, m \in Members, t \in Tokens :
                SwitchTenant(s, m, s2, t) /\ c = Claim(s2, m, member[m].authz)
<1> USE DEF database
<1>1. ASSUME NEW r \in Refreshes, RefreshStep(r)
      PROVE  \/ claims' = claims
             \/ \E u \in Tokens : Rotate(r, u) /\ claims' = claims \cup
                  {Claim(refreshing[r].read.session, refreshing[r].sees.session.member,
                         IF refreshing[r].sees.session.member = NoMember THEN 0
                         ELSE refreshing[r].sees.member.authz)}
  BY <1>1 DEF RefreshStep, BeginRefresh, LockRefresh, RefreshReplayed, RefreshRefused, Rotate, Abort
<1>2. ASSUME NEW s \in SessionIds, SessionStep(s)
      PROVE  \/ claims' = claims
             \/ \E t \in Tokens : Start(s, t) /\ claims' = claims \cup {Claim(s, NoMember, 0)}
             \/ \E m \in Members :
                  TenantAccess(s, m) /\ claims' = claims \cup {Claim(s, m, member[m].authz)}
             \/ \E m \in Members, s2 \in SessionIds, t \in Tokens :
                  SwitchTenant(s, m, s2, t) /\ claims' = claims \cup {Claim(s2, m, member[m].authz)}
  BY <1>2 DEF SessionStep, Start, Revoke, TenantAccess, SwitchTenant, Invalidate, Evict
<1>3. ASSUME NEW m \in Members, MemberStep(m) PROVE claims' = claims
  BY <1>3 DEF MemberStep, ActivateMember, ChangeMember
<1>4. ASSUME NEW v \in Validations, ValidationStep(v) PROVE claims' = claims
  BY <1>4 DEF ValidationStep, BeginValidation, LoadAccount, AnswerAccount, AnswerTenant
<1>5. Tick \/ UNCHANGED vars => claims' = claims
  BY DEF Tick, vars
<1>6. CASE \E r \in Refreshes : RefreshStep(r)
  BY <1>1, <1>6
<1>7. CASE \E s \in SessionIds : SessionStep(s)
  BY <1>2, <1>7
<1> QED BY <1>3, <1>4, <1>5, <1>6, <1>7 DEF Next

\* No step takes an access token back: until it expires it can be presented.
LEMMA ClaimsStay == [Next]_vars => claims \subseteq claims'
<1> SUFFICES ASSUME [Next]_vars PROVE claims \subseteq claims'
  OBVIOUS
<1>1. ASSUME NEW r \in Refreshes, RefreshStep(r) PROVE claims \subseteq claims'
  BY <1>1 DEF RefreshStep, BeginRefresh, LockRefresh, RefreshReplayed, RefreshRefused, Rotate, Abort
<1>2. ASSUME NEW s \in SessionIds, SessionStep(s) PROVE claims \subseteq claims'
  BY <1>2 DEF SessionStep, Start, Revoke, TenantAccess, SwitchTenant, Invalidate, Evict
<1>3. ASSUME NEW m \in Members, MemberStep(m) PROVE claims \subseteq claims'
  BY <1>3 DEF MemberStep, ActivateMember, ChangeMember
<1>4. ASSUME NEW v \in Validations, ValidationStep(v) PROVE claims \subseteq claims'
  BY <1>4 DEF ValidationStep, BeginValidation, LoadAccount, AnswerAccount, AnswerTenant
<1>5. Tick \/ UNCHANGED vars => claims \subseteq claims'
  BY DEF Tick, vars
<1> QED BY <1>1, <1>2, <1>3, <1>4, <1>5 DEF Next

-----------------------------------------------------------------------------
\* A token that appears belongs to a session that exists.
LEMMA NewTokens ==
    ASSUME TypeOK, ReferenceInv, LockInv, [Next]_vars, NEW t \in Tokens, ~Issued(t), Issued(t)'
    PROVE  token'[t].session \in SessionIds /\ session'[token'[t].session] # NoRow
<1>a. ASSUME NEW t2 \in Tokens, SamePlace(t2) PROVE t2 # t
  BY <1>a DEF SamePlace
<1>1. ~UNCHANGED database
  BY DEF database, Issued
<1>2. ASSUME NEW S \in SUBSET SessionIds, NEW s \in SessionIds, NEW t2 \in Tokens,
             NEW m \in Members \cup {NoMember}, NEW a \in 0 .. MaxAuthz, Create(S, s, t2, m, a)
      PROVE  token'[t].session \in SessionIds /\ session'[token'[t].session] # NoRow
  <2>1. t = t2 /\ token'[t2] = TokenRow(s, now) /\ Born(s)'
    BY <1>2, <1>a, CreatedRows
  <2> QED BY <2>1 DEF TokenRow, Born
<1>3. ASSUME NEW r \in Refreshes, NEW s \in SessionIds, NEW t2 \in Tokens, NEW u \in Tokens,
             NEW at \in Times, Exchange(r, s, t2, u, at)
      PROVE  token'[t].session \in SessionIds /\ session'[token'[t].session] # NoRow
  <2>1. /\ \A t3 \in Tokens \ {t2, u} : SamePlace(t3)
        /\ token'[u] = TokenRow(s, at) /\ SameContext(s)
    BY <1>3, ExchangedRows
  <2>2. t2 # t /\ Born(s)
    BY <1>3 DEF Exchange
  <2>3. t = u
    BY <1>a, <2>1, <2>2
  <2> QED BY <2>1, <2>2, <2>3 DEF TokenRow, SameContext, Born
<1>4. ASSUME NEW S \in SUBSET SessionIds, Kill(S) PROVE FALSE
  BY <1>4, <1>a, KilledRows DEF Kill
<1>5. ASSUME NEW m \in Members, NEW status \in {"active", "suspended", "revoked"},
             Outdate(m, status)
      PROVE  FALSE
  BY <1>4, <1>5 DEF Outdate, SessionsOf
<1>6. ASSUME NEW m \in Members, ActivateMember(m) PROVE FALSE
  BY <1>6 DEF ActivateMember, Issued
<1> QED BY <1>1, <1>2, <1>3, <1>4, <1>5, <1>6, Transactions

\* Nobody changes the token of a refresh that holds its locks and keeps them.
LEMMA LockedRowStays ==
    ASSUME TypeOK, ReferenceInv, LockInv, [Next]_vars, NEW r \in Refreshes,
           refreshing[r].pc = "locked", refreshing'[r] = refreshing[r]
    PROVE  token'[refreshing[r].token] = token[refreshing[r].token]
<1>1. PICK t \in Tokens : t = refreshing[r].token
  BY RequestFields
<1>2. Issued(t) /\ token[t] \in TokenRows
  BY <1>1, RowTypes DEF ReferenceInv
<1>3. ASSUME NEW S \in SUBSET SessionIds, Unheld(S) PROVE RevokedTokens(S)[t] = token[t]
  <2>1. token[t].session \notin S
    BY <1>1, <1>3 DEF Unheld
  <2> QED BY <2>1, RevokedRows
<1>4. ASSUME NEW S \in SUBSET SessionIds, NEW s \in SessionIds, NEW t2 \in Tokens,
             NEW m \in Members \cup {NoMember}, NEW a \in 0 .. MaxAuthz, Create(S, s, t2, m, a)
      PROVE  token'[t] = token[t]
  BY <1>2, <1>3, <1>4, RevokedRows DEF Create
<1>5. ASSUME NEW r2 \in Refreshes, NEW s \in SessionIds, NEW t2 \in Tokens, NEW u \in Tokens,
             NEW at \in Times, Exchange(r2, s, t2, u, at)
      PROVE  token'[t] = token[t]
  <2>1. r2 # r /\ t2 # t /\ u # t
    BY <1>1, <1>2, <1>5 DEF Exchange, LockInv
  <2> QED BY <1>5, <2>1 DEF Exchange, TypeOK
<1>6. ASSUME NEW S \in SUBSET SessionIds, Kill(S) PROVE token'[t] = token[t]
  BY <1>3, <1>6 DEF Kill
<1>7. ASSUME NEW m \in Members, NEW status \in {"active", "suspended", "revoked"},
             Outdate(m, status)
      PROVE  token'[t] = token[t]
  BY <1>6, <1>7 DEF Outdate, SessionsOf
<1>8. ASSUME NEW m \in Members, ActivateMember(m) PROVE token'[t] = token[t]
  BY <1>8 DEF ActivateMember
<1>9. UNCHANGED database => token'[t] = token[t]
  BY DEF database
<1> QED BY <1>1, <1>4, <1>5, <1>6, <1>7, <1>8, <1>9, Transactions

\* The locks of lock_refresh exclude every other writer of the family: what a
\* refresh has read of its token stays so, and no second refresh of the session
\* gets its locks.
LEMMA LockStep == TypeOK /\ ReferenceInv /\ LockInv /\ [Next]_vars => LockInv'
<1> SUFFICES ASSUME TypeOK, ReferenceInv, LockInv, [Next]_vars PROVE LockInv'
  OBVIOUS
<1>1. ASSUME NEW r \in Refreshes, refreshing'[r].pc = "locked", ~LockRefresh(r)
      PROVE  refreshing[r].pc = "locked" /\ refreshing'[r] = refreshing[r]
  <2>1. ASSUME NEW t \in Tokens, BeginRefresh(r, t) PROVE FALSE
    BY <1>1, <2>1 DEF BeginRefresh, TypeOK
  <2>2. ~Abort(r)
    BY <1>1 DEF Abort, TypeOK, Idle
  <2>3. ~RefreshReplayed(r) /\ ~RefreshRefused(r)
    <3>1. ASSUME RefreshReplayed(r) \/ RefreshRefused(r) PROVE FALSE
      <4>1. refreshing[r].pc = "locked" /\ refreshing[r] \in RefreshStates \ {Idle}
        BY <3>1, RequestFields DEF RefreshReplayed, RefreshRefused
      <4>2. PICK pc \in {"replay", "invalid"} :
                refreshing'[r] = [refreshing[r] EXCEPT !.pc = pc]
        BY <3>1, RefreshResults
      <4>3. [refreshing[r] EXCEPT !.pc = pc].pc = pc
        BY <4>1, RefreshFields
      <4> QED BY <1>1, <4>2, <4>3
    <3> QED BY <3>1
  <2>4. ASSUME NEW u \in Tokens, Rotate(r, u) PROVE FALSE
    <3>1. refreshing'[r] = [refreshing[r] EXCEPT !.pc = "rotated"]
          /\ refreshing[r] \in RefreshStates \ {Idle}
      BY <2>4, RefreshResults, RequestFields DEF Rotate
    <3> QED BY <1>1, <3>1, RefreshFields
  <2> QED BY <1>1, <2>1, <2>2, <2>3, <2>4, RefreshSteps
<1>2. ASSUME NEW r \in Refreshes, LockRefresh(r)
      PROVE  /\ UNCHANGED token
             /\ refreshing'[r].read = token[refreshing[r].token]
             /\ refreshing'[r].token = refreshing[r].token
             /\ \A r2 \in Refreshes : refreshing[r2].pc = "locked" =>
                  token[refreshing[r2].token].session # token[refreshing[r].token].session
             /\ \A r2 \in Refreshes : r2 # r => refreshing'[r2] = refreshing[r2]
  <2>1. refreshing[r] \in RefreshStates \ {Idle} /\ refreshing[r].token \in Tokens
        /\ Issued(refreshing[r].token)
    BY <1>2, RequestFields DEF LockRefresh, ReferenceInv
  <2>2. LockedToken(r) \in TokenRows
    BY <2>1, RowTypes DEF LockedToken
  <2>3. refreshing'[r] = [refreshing[r] EXCEPT !.pc = "locked", !.read = LockedToken(r)]
    BY <1>2, RefreshResults
  <2>4. refreshing'[r].read = LockedToken(r) /\ refreshing'[r].token = refreshing[r].token
    BY <2>1, <2>2, <2>3, RefreshFields
  <2>5. \A r2 \in Refreshes : r2 # r => refreshing'[r2] = refreshing[r2]
    BY <1>2 DEF LockRefresh, TypeOK
  <2>6. \A r2 \in Refreshes : ~Holds(r2, token[refreshing[r].token].session)
    BY <1>2 DEF LockRefresh, Lockable
  <2> QED BY <1>2, <2>4, <2>5, <2>6 DEF LockRefresh, database, LockedToken, Holds
<1>3. ASSUME NEW r \in Refreshes, refreshing'[r].pc = "locked"
      PROVE  refreshing'[r].read = token'[refreshing'[r].token]
  <2>1. CASE LockRefresh(r)
    BY <1>2, <2>1
  <2>2. CASE ~LockRefresh(r)
    BY <1>1, <1>3, <2>2, LockedRowStays DEF LockInv
  <2> QED BY <2>1, <2>2
<1>4. ASSUME NEW r \in Refreshes, NEW r2 \in Refreshes, r # r2,
             refreshing'[r].pc = "locked", refreshing'[r2].pc = "locked"
      PROVE  token'[refreshing'[r].token].session # token'[refreshing'[r2].token].session
  <2>1. CASE LockRefresh(r) \/ LockRefresh(r2)
    BY <1>2, <1>4, <2>1
  <2>2. CASE ~LockRefresh(r) /\ ~LockRefresh(r2)
    BY <1>1, <1>4, <2>2, LockedRowStays DEF LockInv
  <2> QED BY <2>1, <2>2
<1> QED BY <1>3, <1>4 DEF LockInv

\* No step leaves a token, a claim or a request without what it names.
LEMMA ReferenceStep == TypeOK /\ ReferenceInv /\ LockInv /\ [Next]_vars => ReferenceInv'
<1> SUFFICES ASSUME TypeOK, ReferenceInv, LockInv, [Next]_vars PROVE ReferenceInv'
  OBVIOUS
<1>a. TypeOK'
  BY TypeStep
<1>b. \A s \in SessionIds : Born(s) => Born(s)'
  BY RowsEvolve DEF SessionEvolves
<1>c. ASSUME NEW t \in Tokens, Issued(t)
      PROVE  Issued(t)' /\ token'[t].session = token[t].session /\ token[t].session \in SessionIds
  BY <1>c, RowsEvolve, RowTypes DEF TokenEvolves, TokenRows
<1>1. ASSUME NEW t \in Tokens, Issued(t)' PROVE session'[token'[t].session] # NoRow
  BY <1>1, <1>b, <1>c, NewTokens DEF ReferenceInv, Born
<1>2. ASSUME NEW c \in claims' PROVE Born(c.session)'
  <2>1. CASE c \in claims
    BY <1>b, <2>1 DEF ReferenceInv, TypeOK, Claims
  <2>2. ASSUME NEW s \in SessionIds, NEW t \in Tokens, Start(s, t), c = Claim(s, NoMember, 0)
        PROVE  Born(c.session)'
    <3>1. session'[s] = SessionRow(NoMember, 0, now) /\ c.session = s
      BY <2>2 DEF Start, TypeOK, Claim
    <3> QED BY <3>1 DEF SessionRow, Born, NoRow
  <2>3. ASSUME NEW r \in Refreshes, NEW u \in Tokens, Rotate(r, u),
               c.session = refreshing[r].read.session
        PROVE  Born(c.session)'
    BY <1>b, <1>c, <2>3, RequestFields DEF Rotate, ReferenceInv
  <2>4. ASSUME NEW s \in SessionIds, NEW m \in Members, TenantAccess(s, m), c.session = s
        PROVE  Born(c.session)'
    BY <1>b, <2>4 DEF TenantAccess, TenantContextAllowed, Account
  <2>5. ASSUME NEW s \in SessionIds, NEW s2 \in SessionIds, NEW m \in Members, NEW t \in Tokens,
               SwitchTenant(s, m, s2, t), c.session = s2
        PROVE  Born(c.session)'
    <3>1. PICK S \in SUBSET SessionIds : S = {s}
      OBVIOUS
    <3>2. session'[s2] = SessionRow(m, member[m].authz, now)
      BY <2>5, <3>1, RevokedRows DEF SwitchTenant
    <3> QED BY <2>5, <3>2 DEF SessionRow, Born, NoRow
  <2>6. \A s, m, a : Claim(s, m, a).session = s
    BY DEF Claim
  <2> QED BY <2>1, <2>2, <2>3, <2>4, <2>5, <2>6, ClaimSteps
<1>3. ASSUME NEW r \in Refreshes, refreshing'[r].pc # "idle"
      PROVE  /\ token'[refreshing'[r].token] # NoRow
             /\ refreshing'[r].read.session = token'[refreshing'[r].token].session
  <2>1. CASE refreshing'[r] = refreshing[r]
    BY <1>3, <1>c, <2>1, RequestFields DEF ReferenceInv, Issued
  <2>2. ASSUME NEW t \in Tokens, BeginRefresh(r, t)
        PROVE  /\ token'[refreshing'[r].token] # NoRow
               /\ refreshing'[r].read.session = token'[refreshing'[r].token].session
    <3>1. refreshing'[r].token = t /\ refreshing'[r].read = token[t] /\ Issued(t)
      BY <2>2 DEF BeginRefresh, TypeOK
    <3> QED BY <3>1, <1>c DEF Issued
  <2>3. ASSUME refreshing[r].pc # "idle", refreshing'[r].token = refreshing[r].token,
               refreshing'[r].read.session = refreshing[r].read.session
        PROVE  /\ token'[refreshing'[r].token] # NoRow
               /\ refreshing'[r].read.session = token'[refreshing'[r].token].session
    BY <2>3, <1>c, RequestFields DEF ReferenceInv, Issued
  <2>4. CASE LockRefresh(r)
    <3>1. refreshing[r] \in RefreshStates \ {Idle} /\ refreshing[r].token \in Tokens
          /\ Issued(refreshing[r].token)
      BY <2>4, RequestFields DEF LockRefresh, ReferenceInv
    <3>2. LockedToken(r) \in TokenRows
      BY <3>1, RowTypes DEF LockedToken
    <3>3. refreshing'[r] = [refreshing[r] EXCEPT !.pc = "locked", !.read = LockedToken(r)]
      BY <2>4, RefreshResults
    <3>4. refreshing'[r].read = LockedToken(r) /\ refreshing'[r].token = refreshing[r].token
      BY <3>1, <3>2, <3>3, RefreshFields
    <3> QED BY <3>1, <3>4, <1>c DEF LockedToken, Issued
  <2>5. ASSUME NEW pc \in {"rotated", "replay", "invalid"}, refreshing[r].pc = "locked",
               refreshing'[r] = [refreshing[r] EXCEPT !.pc = pc]
        PROVE  /\ token'[refreshing'[r].token] # NoRow
               /\ refreshing'[r].read.session = token'[refreshing'[r].token].session
    <3>1. refreshing[r] \in RefreshStates \ {Idle}
      BY <2>5, RequestFields
    <3>2. refreshing'[r].read = refreshing[r].read /\ refreshing'[r].token = refreshing[r].token
      BY <2>5, <3>1, RefreshFields
    <3> QED BY <2>3, <2>5, <3>2
  <2>6. ~Abort(r)
    BY <1>3 DEF Abort, TypeOK, Idle
  <2>7. RefreshReplayed(r) => refreshing[r].pc = "locked"
                              /\ refreshing'[r] = [refreshing[r] EXCEPT !.pc = "replay"]
    BY RefreshResults DEF RefreshReplayed
  <2>8. RefreshRefused(r) => refreshing[r].pc = "locked"
                             /\ refreshing'[r] = [refreshing[r] EXCEPT !.pc = "invalid"]
    BY RefreshResults DEF RefreshRefused
  <2>9. \A u \in Tokens : Rotate(r, u) =>
           refreshing[r].pc = "locked" /\ refreshing'[r] = [refreshing[r] EXCEPT !.pc = "rotated"]
    BY RefreshResults DEF Rotate
  <2> QED BY <2>1, <2>2, <2>4, <2>5, <2>6, <2>7, <2>8, <2>9, RefreshSteps
<1>4. ASSUME NEW v \in Validations
      PROVE  /\ validating'[v].pc # "idle" => validating'[v].claim \in claims'
             /\ validating'[v].pc = "storing" => validating'[v].state \in ValidationStates
  <2>1. CASE validating'[v] = validating[v]
    BY <2>1, ClaimsStay DEF ReferenceInv
  <2>2. ASSUME NEW c \in claims, BeginValidation(v, c)
        PROVE  validating'[v].pc # "storing" /\ validating'[v].claim \in claims'
    <3>1. validating'[v].claim = c /\ validating'[v].pc \in {"refused", "loading"}
      BY <2>2 DEF BeginValidation, TypeOK
    <3> QED BY <3>1, ClaimsStay
  <2>3. CASE LoadAccount(v)
    <3>1. validating[v] \in ValidatingStates \ {Idle} /\ validating[v].claim \in claims
      BY <2>3, RequestFields DEF LoadAccount, ReferenceInv
    <3>2. Loaded(validating[v].claim.session) \in ValidationStates
      BY <3>1, StateType DEF Loaded, ReferenceInv, TypeOK, Claims
    <3>3. validating'[v] = [validating[v] EXCEPT !.pc = "storing",
                                                 !.state = Loaded(validating[v].claim.session)]
      BY <2>3 DEF LoadAccount, TypeOK
    <3>4. validating'[v].state = Loaded(validating[v].claim.session)
          /\ validating'[v].claim = validating[v].claim
      BY <3>1, <3>3 DEF ValidatingStates, Idle
    <3> QED BY <3>1, <3>2, <3>4, ClaimsStay
  <2>4. CASE AnswerAccount(v) \/ AnswerTenant(v)
    <3>1. validating[v] \in ValidatingStates \ {Idle} /\ validating[v].claim \in claims
      BY <2>4, RequestFields DEF AnswerAccount, AnswerTenant, ReferenceInv
    <3>2. \E pc \in {"valid", "refused"} : validating'[v] = [validating[v] EXCEPT !.pc = pc]
      BY <2>4 DEF AnswerAccount, AnswerTenant, Verdict, DerivedVerdict, TypeOK
    <3>3. validating'[v].claim = validating[v].claim /\ validating'[v].pc # "storing"
      BY <3>1, <3>2 DEF ValidatingStates, Idle
    <3> QED BY <3>1, <3>3, ClaimsStay
  <2> QED BY <2>1, <2>2, <2>3, <2>4, ValidationSteps
<1> QED BY <1>1, <1>2, <1>3, <1>4 DEF ReferenceInv, Issued, Born

----------------------------------------------------------------------------
\* Token families

\* The sessions S are revoked with their tokens, and nothing else happens to a row.
OnlyRevoked(S) ==
    /\ \A t \in Tokens : SamePlace(t) /\ TokenRevoked(t, S)
    /\ \A s \in SessionIds : SameContext(s) /\ SessionRevoked(s, S)

\* A step revokes some sessions, or also creates one, or exchanges a token.
LEMMA TableSteps ==
    ASSUME TypeOK, ReferenceInv, LockInv, [Next]_vars
    PROVE  \/ \E S \in SUBSET SessionIds : OnlyRevoked(S)
           \/ \E S \in SUBSET SessionIds, s \in SessionIds, t \in Tokens,
                 m \in Members \cup {NoMember}, a \in 0 .. MaxAuthz : Create(S, s, t, m, a)
           \/ \E r \in Refreshes, s \in SessionIds, t, u \in Tokens, at \in Times :
                 Exchange(r, s, t, u, at)
<1>1. ASSUME UNCHANGED <<session, token>> PROVE \E S \in SUBSET SessionIds : OnlyRevoked(S)
  <2>1. PICK S \in SUBSET SessionIds : S = {}
    OBVIOUS
  <2>2. RevokedTokens(S) = token /\ RevokedSessions(S) = session
    BY <2>1 DEF RevokedTokens, RevokedSessions, TypeOK
  <2> QED BY <1>1, <2>2, KilledRows DEF OnlyRevoked
<1>2. ASSUME NEW S \in SUBSET SessionIds, Kill(S) PROVE OnlyRevoked(S)
  BY <1>2, KilledRows DEF Kill, OnlyRevoked
<1>3. ASSUME NEW m \in Members, NEW status \in {"active", "suspended", "revoked"},
             Outdate(m, status)
      PROVE  \E S \in SUBSET SessionIds : OnlyRevoked(S)
  <2>1. PICK S \in SUBSET SessionIds : S = SessionsOf(m)
    BY DEF SessionsOf
  <2> QED BY <1>2, <1>3, <2>1 DEF Outdate
<1>4. ASSUME NEW m \in Members, ActivateMember(m) PROVE UNCHANGED <<session, token>>
  BY <1>4 DEF ActivateMember
<1>5. UNCHANGED database => UNCHANGED <<session, token>>
  BY DEF database
<1> QED BY <1>1, <1>2, <1>3, <1>4, <1>5, Transactions

-----------------------------------------------------------------------------
\* revoke_family and revoke_session go together in every transaction, and a new
\* row is not revoked.
LEMMA FamilyStep ==
    TypeOK /\ ReferenceInv /\ LockInv /\ FamilyDiesWhole /\ [Next]_vars => FamilyDiesWhole'
<1> SUFFICES ASSUME TypeOK, ReferenceInv, LockInv, FamilyDiesWhole, [Next]_vars,
                    NEW t \in Tokens, token'[t] # NoRow
             PROVE  token'[t].revoked = session'[token'[t].session].revoked
  BY DEF FamilyDiesWhole, Issued
<1>1. ASSUME NEW S \in SUBSET SessionIds, NEW t2 \in Tokens, Issued(t2),
             SamePlace(t2), TokenRevoked(t2, S),
             SameContext(token[t2].session), SessionRevoked(token[t2].session, S)
      PROVE  token'[t2].revoked = session'[token'[t2].session].revoked
  BY <1>1 DEF SamePlace, TokenRevoked, SameContext, SessionRevoked, FamilyDiesWhole, ReferenceInv
<1>2. ASSUME NEW t2 \in Tokens, Issued(t2)
      PROVE  token[t2].session \in SessionIds /\ Born(token[t2].session)
  BY <1>2, RowTypes DEF ReferenceInv, TokenRows
<1>3. ASSUME NEW S \in SUBSET SessionIds, OnlyRevoked(S)
      PROVE  token'[t].revoked = session'[token'[t].session].revoked
  <2>1. Issued(t)
    BY <1>3 DEF OnlyRevoked, SamePlace, Issued
  <2> QED BY <1>1, <1>2, <1>3, <2>1 DEF OnlyRevoked
<1>4. ASSUME NEW S \in SUBSET SessionIds, NEW s \in SessionIds, NEW t2 \in Tokens,
             NEW m \in Members \cup {NoMember}, NEW a \in 0 .. MaxAuthz, Create(S, s, t2, m, a)
      PROVE  token'[t].revoked = session'[token'[t].session].revoked
  <2>1. CASE t = t2
    <3>1. token'[t] = TokenRow(s, now) /\ session'[s] = SessionRow(m, a, now)
      BY <1>4, <2>1, CreatedRows
    <3>2. token'[t].session = s /\ token'[t].revoked = FALSE
      BY <3>1 DEF TokenRow
    <3>3. session'[s].revoked = FALSE
      BY <3>1 DEF SessionRow
    <3> QED BY <3>2, <3>3
  <2>2. CASE t # t2
    <3>1. SamePlace(t) /\ TokenRevoked(t, S)
      BY <1>4, <2>2, CreatedRows
    <3>2. Issued(t)
      BY <3>1 DEF SamePlace, Issued
    <3>3. token[t].session # s
      BY <1>2, <1>4, <3>2 DEF Create
    <3>4. SameContext(token[t].session) /\ SessionRevoked(token[t].session, S)
      BY <1>2, <1>4, <3>2, <3>3, CreatedRows
    <3> QED BY <1>1, <3>1, <3>2, <3>4
  <2> QED BY <2>1, <2>2
<1>5. ASSUME NEW r \in Refreshes, NEW s \in SessionIds, NEW t2 \in Tokens, NEW u \in Tokens,
             NEW at \in Times, Exchange(r, s, t2, u, at)
      PROVE  token'[t].revoked = session'[token'[t].session].revoked
  <2>1. session'[s].revoked = FALSE
    <3>1. session[s].revoked = FALSE /\ Born(s)
      BY <1>5, RowTypes DEF Exchange, FamilyDiesWhole, TokenRows
    <3>2. SessionRevoked(s, {})
      BY <1>5, ExchangedRows
    <3> QED BY <3>1, <3>2 DEF SessionRevoked
  <2>2. CASE t = t2
    <3>1. token'[t] = Spent(token[t], u)
      BY <1>5, <2>2, ExchangedRows
    <3>2. token[t] \in TokenRows /\ ~token[t].revoked /\ token[t].session = s
      BY <1>5, <2>2, RowTypes DEF Exchange
    <3>3. token'[t].revoked = token[t].revoked /\ token'[t].session = s
      BY <3>1, <3>2 DEF Spent, TokenRows
    <3>4. token[t].revoked = FALSE
      BY <3>2 DEF TokenRows
    <3> QED BY <2>1, <3>3, <3>4
  <2>3. CASE t = u
    <3>1. token'[t] = TokenRow(s, at)
      BY <1>5, <2>3, ExchangedRows
    <3>2. token'[t].session = s /\ token'[t].revoked = FALSE
      BY <3>1 DEF TokenRow
    <3> QED BY <2>1, <3>2
  <2>4. CASE t # t2 /\ t # u
    <3>1. SamePlace(t) /\ token'[t] = token[t]
      BY <1>5, <2>4, ExchangedRows
    <3>2. Issued(t)
      BY <3>1 DEF Issued
    <3>3. SessionRevoked(token[t].session, {}) /\ session[token[t].session].revoked \in BOOLEAN
      BY <1>2, <1>5, <3>2, ExchangedRows, RowTypes DEF SessionRows
    <3> QED BY <1>2, <3>1, <3>2, <3>3 DEF SessionRevoked, FamilyDiesWhole
  <2> QED BY <2>2, <2>3, <2>4
<1> QED BY <1>3, <1>4, <1>5, TableSteps

-----------------------------------------------------------------------------
\* A membership never changes under a live tenant session: update_locked revokes
\* the sessions of the member in the same transaction.
LEMMA AuthorityStep ==
    TypeOK /\ ReferenceInv /\ LockInv /\ LiveSessionIsAuthorized /\ [Next]_vars
        => LiveSessionIsAuthorized'
<1> SUFFICES ASSUME TypeOK, ReferenceInv, LockInv, LiveSessionIsAuthorized, [Next]_vars,
                    NEW s \in SessionIds, session'[s] # NoRow, ~session'[s].revoked,
                    session'[s].member # NoMember
             PROVE  /\ member'[session'[s].member].status = "active"
                    /\ member'[session'[s].member].authz = session'[s].authz
  BY DEF LiveSessionIsAuthorized, Account, Born
<1> DEFINE Authorized == /\ member'[session'[s].member].status = "active"
                         /\ member'[session'[s].member].authz = session'[s].authz
<1>1. ASSUME NEW S \in SUBSET SessionIds, SameContext(s), SessionRevoked(s, S)
      PROVE  /\ Born(s) /\ s \notin S
             /\ session'[s].member = session[s].member /\ session[s].member \in Members
             /\ session'[s].authz = session[s].authz
             /\ member[session[s].member].status = "active"
             /\ member[session[s].member].authz = session[s].authz
  <2>1. Born(s)
    BY <1>1 DEF SameContext, Born
  <2>2. session[s] \in SessionRows /\ ~session[s].revoked /\ s \notin S
    BY <1>1, <2>1, RowTypes DEF SessionRevoked
  <2>3. session'[s].member = session[s].member /\ session'[s].authz = session[s].authz
    BY <1>1, <2>1 DEF SameContext
  <2> QED BY <2>1, <2>2, <2>3 DEF LiveSessionIsAuthorized, Account, SessionRows
<1>2. ASSUME NEW S \in SUBSET SessionIds, Kill(S)
      PROVE  SameContext(s) /\ SessionRevoked(s, S)
  BY <1>2, KilledRows DEF Kill
<1>3. ASSUME UNCHANGED <<session, token>>
      PROVE  Born(s) /\ session[s].member \in Members
  BY <1>3, RowTypes DEF SessionRows, Born
<1>4. UNCHANGED database => Authorized
  BY <1>3 DEF database, LiveSessionIsAuthorized, Account
<1>5. ASSUME NEW S \in SUBSET SessionIds, NEW s2 \in SessionIds, NEW t \in Tokens,
             NEW m \in Members \cup {NoMember}, NEW a \in 0 .. MaxAuthz, Create(S, s2, t, m, a)
      PROVE  Authorized
  <2>1. CASE s = s2
    <3>1. session'[s] = SessionRow(m, a, now)
      BY <1>5, <2>1, CreatedRows
    <3>2. session'[s].member = m /\ session'[s].authz = a
      BY <3>1 DEF SessionRow
    <3> QED BY <1>5, <3>2 DEF Create
  <2>2. CASE s # s2
    <3>1. SameContext(s) /\ SessionRevoked(s, S) /\ UNCHANGED member
      BY <1>5, <2>2, CreatedRows DEF Create
    <3> QED BY <1>1, <3>1
  <2> QED BY <2>1, <2>2
<1>6. ASSUME NEW r \in Refreshes, NEW s2 \in SessionIds, NEW t \in Tokens, NEW u \in Tokens,
             NEW at \in Times, Exchange(r, s2, t, u, at)
      PROVE  Authorized
  <2>1. PICK S \in SUBSET SessionIds : S = {}
    OBVIOUS
  <2>2. SameContext(s) /\ SessionRevoked(s, S) /\ UNCHANGED member
    BY <1>6, <2>1, ExchangedRows DEF Exchange
  <2> QED BY <1>1, <2>2
<1>7. ASSUME NEW S \in SUBSET SessionIds, Kill(S), UNCHANGED member PROVE Authorized
  BY <1>1, <1>2, <1>7
<1>8. ASSUME NEW m \in Members, NEW status \in {"active", "suspended", "revoked"},
             Outdate(m, status)
      PROVE  Authorized
  <2>1. PICK S \in SUBSET SessionIds : S = SessionsOf(m)
    BY DEF SessionsOf
  <2>2. SameContext(s) /\ SessionRevoked(s, S)
    BY <1>2, <1>8, <2>1 DEF Outdate
  <2>3. session[s].member # m
    BY <1>1, <2>1, <2>2 DEF SessionsOf
  <2>4. member'[session[s].member] = member[session[s].member]
    BY <1>1, <1>8, <2>2, <2>3 DEF Outdate, TypeOK
  <2> QED BY <1>1, <2>2, <2>4
<1>9. ASSUME NEW m \in Members, ActivateMember(m) PROVE Authorized
  <2>1. UNCHANGED <<session, token>> /\ member[m].status = "invited"
    BY <1>9 DEF ActivateMember
  <2>2. /\ member[session[s].member].status = "active"
        /\ member[session[s].member].authz = session[s].authz
        /\ session[s].member \in Members
    BY <1>3, <2>1 DEF LiveSessionIsAuthorized, Account
  <2>3. member'[session[s].member] = member[session[s].member]
    BY <1>9, <2>1, <2>2 DEF ActivateMember, TypeOK
  <2> QED BY <2>1, <2>2, <2>3
<1> HIDE DEF Authorized
<1>10. Authorized
  BY <1>4, <1>5, <1>6, <1>7, <1>8, <1>9, Transactions
<1> QED BY <1>10 DEF Authorized

-----------------------------------------------------------------------------
\* The parts of ChainUnbroken: one token to spend, links that hold, links that
\* do not meet.
OneSpendable ==
    \A s \in SessionIds : Born(s) =>
        /\ \E t \in Tokens : Spendable(t, s)
        /\ \A t, u \in Tokens : Spendable(t, s) /\ Spendable(u, s) => t = u
LinksHold ==
    \A t \in Tokens : Issued(t) =>
        /\ Born(token[t].session)
        /\ token[t].used <=> token[t].next # NoRow
        /\ token[t].used => /\ Issued(token[t].next)
                            /\ token[token[t].next].session = token[t].session
LinksApart ==
    \A t, u \in Tokens :
        Issued(t) /\ Issued(u) /\ token[t].used /\ token[t].next = token[u].next => t = u

\* The three parts are the whole.
LEMMA ChainParts == ChainUnbroken <=> OneSpendable /\ LinksHold /\ LinksApart
BY DEF ChainUnbroken, OneSpendable, LinksHold, LinksApart

\* A token that keeps its place can be spent for a session as before.
LEMMA SpendableSame ==
    ASSUME NEW t \in Tokens, SamePlace(t), NEW s \in SessionIds
    PROVE  Spendable(t, s)' <=> Spendable(t, s)
BY DEF SamePlace, Spendable, Issued

\* An exchange spends the only token of its session and adds one.
LEMMA OneSpendableStep ==
    TypeOK /\ ReferenceInv /\ LockInv /\ OneSpendable /\ [Next]_vars => OneSpendable'
<1> SUFFICES ASSUME TypeOK, ReferenceInv, LockInv, OneSpendable, [Next]_vars,
                    NEW s \in SessionIds, Born(s)'
             PROVE  /\ \E t \in Tokens : Spendable(t, s)'
                    /\ \A t, u \in Tokens : Spendable(t, s)' /\ Spendable(u, s)' => t = u
  BY DEF OneSpendable
<1> DEFINE One == /\ \E t \in Tokens : Spendable(t, s)'
                  /\ \A t, u \in Tokens : Spendable(t, s)' /\ Spendable(u, s)' => t = u
<1>1. ASSUME NEW S \in SUBSET SessionIds, OnlyRevoked(S) PROVE One
  <2>1. \A t \in Tokens : Spendable(t, s)' <=> Spendable(t, s)
    BY <1>1, SpendableSame DEF OnlyRevoked
  <2>2. Born(s)
    BY <1>1 DEF OnlyRevoked, SameContext
  <2> QED BY <2>1, <2>2 DEF OneSpendable
<1>2. ASSUME NEW S \in SUBSET SessionIds, NEW s2 \in SessionIds, NEW t2 \in Tokens,
             NEW m \in Members \cup {NoMember}, NEW a \in 0 .. MaxAuthz, Create(S, s2, t2, m, a)
      PROVE  One
  <2>1. token'[t2] = TokenRow(s2, now) /\ token'[t2] # NoRow
    BY <1>2, CreatedRows DEF Issued
  <2>2. token'[t2].session = s2 /\ ~token'[t2].used
    BY <2>1 DEF TokenRow
  <2>3. \A t \in Tokens \ {t2} : Spendable(t, s)' <=> Spendable(t, s)
    BY <1>2, CreatedRows, SpendableSame
  <2>4. ~Born(s2) /\ ~Issued(t2)
    BY <1>2 DEF Create
  <2>5. CASE s = s2
    <3>1. Spendable(t2, s)'
      BY <2>1, <2>2, <2>5 DEF Spendable, Issued
    <3>2. \A t \in Tokens : ~Spendable(t, s)
      BY <2>4, <2>5 DEF Spendable, ReferenceInv
    <3> QED BY <2>3, <3>1, <3>2
  <2>6. CASE s # s2
    <3>1. Spendable(t2, s)' <=> Spendable(t2, s)
      BY <2>2, <2>4, <2>6 DEF Spendable
    <3>2. Born(s)
      <4>1. SameContext(s)
        BY <1>2, <2>6, CreatedRows
      <4> QED BY <4>1 DEF SameContext
    <3> QED BY <2>3, <3>1, <3>2 DEF OneSpendable
  <2> QED BY <2>5, <2>6
<1>3. ASSUME NEW r \in Refreshes, NEW s2 \in SessionIds, NEW t2 \in Tokens, NEW u2 \in Tokens,
             NEW at \in Times, Exchange(r, s2, t2, u2, at)
      PROVE  One
  <2>1. Spendable(t2, s2) /\ ~Issued(u2) /\ token[t2] \in TokenRows
    BY <1>3, RowTypes DEF Exchange, Spendable
  <2>2. token'[t2] = Spent(token[t2], u2) /\ token'[u2] = TokenRow(s2, at) /\ token'[u2] # NoRow
    BY <1>3, ExchangedRows DEF Issued
  <2>3. token'[t2].used /\ token'[u2].session = s2 /\ ~token'[u2].used
    BY <2>1, <2>2 DEF Spent, TokenRow, TokenRows
  <2>4. \A t \in Tokens \ {t2, u2} : Spendable(t, s)' <=> Spendable(t, s)
    BY <1>3, ExchangedRows, SpendableSame
  <2>5. Born(s)
    <3>1. SameContext(s)
      BY <1>3, ExchangedRows
    <3> QED BY <3>1 DEF SameContext
  <2>6. ~Spendable(t2, s)'
    BY <2>3 DEF Spendable
  <2>7. CASE s = s2
    <3>1. Spendable(u2, s)'
      BY <2>2, <2>3, <2>7 DEF Spendable, Issued
    <3>2. \A t \in Tokens : Spendable(t, s) => t = t2
      BY <2>1, <2>5, <2>7 DEF OneSpendable
    <3> QED BY <2>4, <2>6, <3>1, <3>2
  <2>8. CASE s # s2
    <3>1. ~Spendable(t2, s) /\ ~Spendable(u2, s)
      BY <2>1, <2>8 DEF Spendable
    <3>2. ~Spendable(u2, s)'
      BY <2>3, <2>8 DEF Spendable
    <3> QED BY <2>4, <2>5, <2>6, <3>1, <3>2 DEF OneSpendable
  <2> QED BY <2>7, <2>8
<1> HIDE DEF One
<1>4. One
  BY <1>1, <1>2, <1>3, TableSteps
<1> QED BY <1>4 DEF One

\* link_refresh_replacement names the token that is inserted with it.
LEMMA LinksHoldStep ==
    TypeOK /\ ReferenceInv /\ LockInv /\ LinksHold /\ [Next]_vars => LinksHold'
<1> SUFFICES ASSUME TypeOK, ReferenceInv, LockInv, LinksHold, [Next]_vars,
                    NEW t \in Tokens, token'[t] # NoRow
             PROVE  /\ session'[token'[t].session] # NoRow
                    /\ token'[t].used <=> token'[t].next # NoRow
                    /\ token'[t].used => /\ token'[token'[t].next] # NoRow
                                         /\ token'[token'[t].next].session = token'[t].session
  BY DEF LinksHold, Issued, Born
<1> DEFINE Linked == /\ token'[t].used <=> token'[t].next # NoRow
                     /\ token'[t].used =>
                          /\ token'[token'[t].next] # NoRow
                          /\ token'[token'[t].next].session = token'[t].session
<1>1. session'[token'[t].session] # NoRow
  BY ReferenceStep DEF ReferenceInv, Issued, Born
<1>2. ASSUME NEW t2 \in Tokens, Issued(t2), token[t2].used
      PROVE  /\ token[t2].next \in Tokens /\ Issued(token[t2].next)
             /\ token[token[t2].next].session = token[t2].session
             /\ token'[token[t2].next] # NoRow
             /\ token'[token[t2].next].session = token[t2].session
  <2>1. token[t2].next \in Tokens /\ Issued(token[t2].next)
        /\ token[token[t2].next].session = token[t2].session
    BY <1>2, RowTypes DEF LinksHold, TokenRows
  <2>2. PICK n \in Tokens : n = token[t2].next
    BY <2>1
  <2>3. token'[n] # NoRow /\ token'[n].session = token[n].session
    BY <2>1, <2>2, RowsEvolve DEF TokenEvolves, Issued
  <2> QED BY <2>1, <2>2, <2>3
<1>3. SamePlace(t) => Linked
  <2> SUFFICES ASSUME SamePlace(t) PROVE Linked
    OBVIOUS
  <2>1. Issued(t) /\ token'[t].session = token[t].session /\ token'[t].used = token[t].used
        /\ token'[t].next = token[t].next
    BY DEF SamePlace, Issued
  <2> QED BY <1>2, <2>1 DEF LinksHold
<1>4. ASSUME NEW S \in SUBSET SessionIds, OnlyRevoked(S) PROVE Linked
  BY <1>3, <1>4 DEF OnlyRevoked
<1>5. ASSUME NEW S \in SUBSET SessionIds, NEW s2 \in SessionIds, NEW t2 \in Tokens,
             NEW m \in Members \cup {NoMember}, NEW a \in 0 .. MaxAuthz, Create(S, s2, t2, m, a)
      PROVE  Linked
  <2>1. CASE t = t2
    <3>1. token'[t] = TokenRow(s2, now)
      BY <1>5, <2>1, CreatedRows
    <3>2. ~token'[t].used /\ token'[t].next = NoRow
      BY <3>1 DEF TokenRow
    <3> QED BY <3>2
  <2>2. CASE t # t2
    BY <1>3, <1>5, <2>2, CreatedRows
  <2> QED BY <2>1, <2>2
<1>6. ASSUME NEW r \in Refreshes, NEW s2 \in SessionIds, NEW t2 \in Tokens, NEW u2 \in Tokens,
             NEW at \in Times, Exchange(r, s2, t2, u2, at)
      PROVE  Linked
  <2>1. token'[t2] = Spent(token[t2], u2) /\ token'[u2] = TokenRow(s2, at) /\ token'[u2] # NoRow
    BY <1>6, ExchangedRows DEF Issued
  <2>2. token[t2] \in TokenRows /\ token[t2].session = s2
    BY <1>6, RowTypes DEF Exchange
  <2>3. CASE t = t2
    <3>1. token'[t].used /\ token'[t].next = u2 /\ token'[t].session = s2
      BY <2>1, <2>2, <2>3 DEF Spent, TokenRows
    <3>2. token'[u2].session = s2
      BY <2>1 DEF TokenRow
    <3>3. u2 # NoRow
      BY NamesAssumption DEF NamesAssumption
    <3> QED BY <2>1, <3>1, <3>2, <3>3
  <2>4. CASE t = u2
    <3>1. ~token'[t].used /\ token'[t].next = NoRow
      BY <2>1, <2>4 DEF TokenRow
    <3> QED BY <3>1
  <2>5. CASE t # t2 /\ t # u2
    BY <1>3, <1>6, <2>5, ExchangedRows
  <2> QED BY <2>3, <2>4, <2>5
<1> HIDE DEF Linked
<1>7. Linked
  BY <1>4, <1>5, <1>6, TableSteps
<1> QED BY <1>1, <1>7 DEF Linked

\* The successor of a token was never issued before.
LEMMA LinksApartStep ==
    TypeOK /\ ReferenceInv /\ LockInv /\ LinksHold /\ LinksApart /\ [Next]_vars => LinksApart'
<1> SUFFICES ASSUME TypeOK, ReferenceInv, LockInv, LinksHold, LinksApart, [Next]_vars,
                    NEW t \in Tokens, NEW u \in Tokens, token'[t] # NoRow, token'[u] # NoRow,
                    token'[t].used, token'[t].next = token'[u].next
             PROVE  t = u
  BY DEF LinksApart, Issued
<1>1. LinksHold'
  BY LinksHoldStep
<1>2. token'[u].used
  BY <1>1 DEF LinksHold, Issued
<1>3. ASSUME SamePlace(t), SamePlace(u) PROVE t = u
  <2>1. Issued(t) /\ token'[t].used = token[t].used /\ token'[t].next = token[t].next
    BY <1>3 DEF SamePlace, Issued
  <2>2. Issued(u) /\ token'[u].next = token[u].next
    BY <1>3 DEF SamePlace, Issued
  <2> QED BY <2>1, <2>2 DEF LinksApart
<1>4. ASSUME NEW S \in SUBSET SessionIds, OnlyRevoked(S) PROVE t = u
  BY <1>3, <1>4 DEF OnlyRevoked
<1>5. ASSUME NEW S \in SUBSET SessionIds, NEW s2 \in SessionIds, NEW t2 \in Tokens,
             NEW m \in Members \cup {NoMember}, NEW a \in 0 .. MaxAuthz, Create(S, s2, t2, m, a)
      PROVE  t = u
  <2>1. token'[t2] = TokenRow(s2, now)
    BY <1>5, CreatedRows
  <2>2. ~token'[t2].used
    BY <2>1 DEF TokenRow
  <2>3. t # t2 /\ u # t2
    BY <1>2, <2>2
  <2>4. \A t3 \in Tokens \ {t2} : SamePlace(t3)
    BY <1>5, CreatedRows
  <2> QED BY <1>3, <2>3, <2>4
<1>6. ASSUME NEW r \in Refreshes, NEW s2 \in SessionIds, NEW t2 \in Tokens, NEW u2 \in Tokens,
             NEW at \in Times, Exchange(r, s2, t2, u2, at)
      PROVE  t = u
  <2>1. token'[t2] = Spent(token[t2], u2) /\ token'[u2] = TokenRow(s2, at)
    BY <1>6, ExchangedRows
  <2>2. token[t2] \in TokenRows /\ ~Issued(u2)
    BY <1>6, RowTypes DEF Exchange
  <2>3. ~token'[u2].used
    BY <2>1 DEF TokenRow
  <2>4. token'[t2].next = u2
    BY <2>1, <2>2 DEF Spent, TokenRows
  <2>5. t # u2 /\ u # u2
    BY <1>2, <2>3
  <2>6. ASSUME NEW t3 \in Tokens, t3 # t2, t3 # u2, token'[t3] # NoRow, token'[t3].used
        PROVE  SamePlace(t3) /\ token'[t3].next # u2
    <3>1. SamePlace(t3) /\ token'[t3] = token[t3]
      BY <1>6, <2>6, ExchangedRows
    <3>2. Issued(t3) /\ token[t3].used
      BY <2>6, <3>1 DEF Issued
    <3>3. Issued(token[t3].next)
      BY <3>2 DEF LinksHold
    <3> QED BY <2>2, <3>1, <3>3
  <2> QED BY <1>2, <1>3, <2>4, <2>5, <2>6
<1> QED BY <1>4, <1>5, <1>6, TableSteps

\* Every transaction leaves the chains of tokens unbroken.
LEMMA ChainStep ==
    TypeOK /\ ReferenceInv /\ LockInv /\ ChainUnbroken /\ [Next]_vars => ChainUnbroken'
<1>1. ChainUnbroken' <=> OneSpendable' /\ LinksHold' /\ LinksApart'
  BY ChainParts DEF ChainUnbroken, OneSpendable, LinksHold, LinksApart
<1> QED BY <1>1, ChainParts, OneSpendableStep, LinksHoldStep, LinksApartStep

-----------------------------------------------------------------------------
\* A change of a membership raises its authz_version.
LEMMA MembersEvolve ==
    ASSUME TypeOK, [Next]_vars, NEW m \in Members
    PROVE  member'[m] = member[m] \/ member'[m].authz = member[m].authz + 1
<1>1. ASSUME NEW r \in Refreshes, RefreshStep(r) PROVE member' = member
  BY <1>1 DEF RefreshStep, BeginRefresh, LockRefresh, RefreshReplayed, RefreshRefused, Rotate,
              Abort, database
<1>2. ASSUME NEW s \in SessionIds, SessionStep(s) PROVE member' = member
  BY <1>2 DEF SessionStep, Start, Revoke, TenantAccess, SwitchTenant, Invalidate, Evict, database
<1>3. ASSUME NEW m2 \in Members, MemberStep(m2)
      PROVE  member'[m] = member[m] \/ member'[m].authz = member[m].authz + 1
  <2>1. PICK status : member' = [member EXCEPT ![m2] = [status |-> status,
                                                        authz |-> member[m2].authz + 1]]
    BY <1>3 DEF MemberStep, ActivateMember, ChangeMember
  <2> QED BY <2>1 DEF TypeOK
<1>4. ASSUME NEW v \in Validations, ValidationStep(v) PROVE member' = member
  BY <1>4 DEF ValidationStep, BeginValidation, LoadAccount, AnswerAccount, AnswerTenant, database
<1>5. Tick \/ UNCHANGED vars => member' = member
  BY DEF Tick, vars, database
<1> QED BY <1>1, <1>2, <1>3, <1>4, <1>5 DEF Next

\* While a token can be exchanged, nobody changes what refresh decides on.
LEMMA StateStays ==
    ASSUME TypeOK, ReferenceInv, LockInv, ChainUnbroken, FamilyDiesWhole,
           LiveSessionIsAuthorized, [Next]_vars,
           NEW t \in Tokens, Issued(t), ~token'[t].used, ~token'[t].revoked
    PROVE  ValidationState(token[t].session)' = ValidationState(token[t].session)
<1>1. PICK s \in SessionIds : s = token[t].session
  BY RowTypes DEF TokenRows
<1>2. Born(s) /\ session[s] \in SessionRows /\ ~token[t].used /\ ~token[t].revoked
  BY <1>1, RowTypes, RowsEvolve DEF ReferenceInv, TokenEvolves
<1>3. ~session[s].revoked
  BY <1>1, <1>2 DEF FamilyDiesWhole
<1>4. token'[t].session = s
  BY <1>1, RowsEvolve DEF TokenEvolves
<1> DEFINE Stays == /\ session'[s] = session[s]
                    /\ session[s].member \in Members =>
                         member'[session[s].member] = member[session[s].member]
<1>5. ASSUME NEW S \in SUBSET SessionIds, TokenRevoked(t, S)
      PROVE  s \notin S /\ RevokedSessions(S)[s] = session[s]
  <2>1. s \notin S
    BY <1>1, <1>5 DEF TokenRevoked
  <2> QED BY <2>1, RevokedRows
<1>6. UNCHANGED database => Stays
  BY DEF database
<1>7. ASSUME NEW S \in SUBSET SessionIds, NEW s2 \in SessionIds, NEW t2 \in Tokens,
             NEW m \in Members \cup {NoMember}, NEW a \in 0 .. MaxAuthz, Create(S, s2, t2, m, a)
      PROVE  Stays
  <2>1. t # t2 /\ s # s2 /\ UNCHANGED member
    BY <1>2, <1>7 DEF Create
  <2>2. TokenRevoked(t, S)
    BY <1>7, <2>1, CreatedRows
  <2>3. session'[s] = RevokedSessions(S)[s]
    BY <1>7, <2>1, RevokedRows DEF Create
  <2> QED BY <1>5, <2>1, <2>2, <2>3
<1>8. ASSUME NEW r \in Refreshes, NEW s2 \in SessionIds, NEW t2 \in Tokens, NEW u \in Tokens,
             NEW at \in Times, Exchange(r, s2, t2, u, at)
      PROVE  Stays
  <2>1. t # t2
    <3>1. token'[t2] = Spent(token[t2], u)
      BY <1>8, ExchangedRows
    <3>2. token[t2] \in TokenRows
      BY <1>8, RowTypes DEF Exchange
    <3>3. token'[t2].used
      BY <3>1, <3>2 DEF Spent, TokenRows
    <3> QED BY <3>3
  <2>2. Spendable(t, s) /\ Spendable(t2, s2)
    BY <1>1, <1>2, <1>8 DEF Spendable, Exchange
  <2>3. s # s2
    BY <1>2, <2>1, <2>2 DEF ChainUnbroken
  <2>4. session'[s] = session[s] /\ UNCHANGED member
    BY <1>8, <2>3, ExchangedRows DEF Exchange
  <2> QED BY <2>4
<1>9. ASSUME NEW S \in SUBSET SessionIds, Kill(S) PROVE s \notin S /\ session'[s] = session[s]
  <2>1. TokenRevoked(t, S)
    BY <1>9, KilledRows DEF Kill
  <2> QED BY <1>5, <1>9, <2>1 DEF Kill
<1>10. ASSUME NEW m \in Members, NEW status \in {"active", "suspended", "revoked"},
              Outdate(m, status)
       PROVE  Stays
  <2>1. PICK S \in SUBSET SessionIds : S = SessionsOf(m)
    BY DEF SessionsOf
  <2>2. s \notin S /\ session'[s] = session[s]
    BY <1>9, <1>10, <2>1 DEF Outdate
  <2>3. session[s].member # m
    BY <1>2, <2>1, <2>2 DEF SessionsOf
  <2> QED BY <1>10, <2>2, <2>3 DEF Outdate, TypeOK
<1>11. ASSUME NEW m \in Members, ActivateMember(m) PROVE Stays
  <2>1. session[s].member # m
    BY <1>2, <1>3, <1>11, NoMemberAssumption
    DEF ActivateMember, LiveSessionIsAuthorized, Account, NoMemberAssumption
  <2> QED BY <1>11, <2>1 DEF ActivateMember, TypeOK
<1> HIDE DEF Stays
<1>12. Stays
  BY <1>6, <1>7, <1>9, <1>8, <1>10, <1>11, Transactions DEF Stays
<1>13. session[s].member \in Members \cup {NoMember}
  BY <1>2 DEF SessionRows
<1> QED BY <1>1, <1>4, <1>12, <1>13 DEF Stays, ValidationState

\* Where a refresh that is located or locked after a step comes from.
LEMMA PendingRefresh ==
    ASSUME TypeOK, ReferenceInv, [Next]_vars, NEW r \in Refreshes,
           refreshing'[r].pc \in {"located", "locked"}
    PROVE  \/ /\ refreshing[r].pc \in {"located", "locked"}
              /\ refreshing'[r].token = refreshing[r].token
              /\ refreshing'[r].sees = refreshing[r].sees
              /\ refreshing'[r].live = refreshing[r].live
           \/ \E t \in Tokens :
                /\ BeginRefresh(r, t)
                /\ refreshing'[r].token = t
                /\ refreshing'[r].sees = ValidationState(token[t].session)
                /\ refreshing'[r].live = Exchangeable(t)
<1>1. ASSUME NEW t \in Tokens, BeginRefresh(r, t)
      PROVE  /\ refreshing'[r].token = t
             /\ refreshing'[r].sees = ValidationState(token[t].session)
             /\ refreshing'[r].live = Exchangeable(t)
  BY <1>1 DEF BeginRefresh, TypeOK
<1>2. CASE LockRefresh(r)
  <2>1. refreshing[r] \in RefreshStates \ {Idle} /\ refreshing[r].token \in Tokens
        /\ Issued(refreshing[r].token) /\ refreshing[r].pc = "located"
    BY <1>2, RequestFields DEF LockRefresh, ReferenceInv
  <2>2. LockedToken(r) \in TokenRows
    BY <2>1, RowTypes DEF LockedToken
  <2>3. refreshing'[r] = [refreshing[r] EXCEPT !.pc = "locked", !.read = LockedToken(r)]
    BY <1>2, RefreshResults
  <2>4. /\ refreshing'[r].token = refreshing[r].token
        /\ refreshing'[r].sees = refreshing[r].sees
        /\ refreshing'[r].live = refreshing[r].live
    BY <2>1, <2>2, <2>3, RefreshFields
  <2> QED BY <2>1, <2>4
<1>3. ~Abort(r)
  BY DEF Abort, TypeOK, Idle
<1>4. ASSUME NEW pc \in {"rotated", "replay", "invalid"}, refreshing[r].pc = "locked",
             refreshing'[r] = [refreshing[r] EXCEPT !.pc = pc]
      PROVE  FALSE
  <2>1. [refreshing[r] EXCEPT !.pc = pc].pc = pc
    BY <1>4, RequestFields, RefreshFields
  <2> QED BY <1>4, <2>1
<1>5. ~RefreshReplayed(r)
  BY <1>4, RefreshResults DEF RefreshReplayed
<1>6. ~RefreshRefused(r)
  BY <1>4, RefreshResults DEF RefreshRefused
<1>7. \A u \in Tokens : ~Rotate(r, u)
  BY <1>4, RefreshResults DEF Rotate
<1> QED BY <1>1, <1>2, <1>3, <1>5, <1>6, <1>7, RefreshSteps

\* The snapshot of a refresh stays right for as long as its token can be exchanged.
LEMMA StaleReadStep ==
    TypeOK /\ ReferenceInv /\ LockInv /\ ChainUnbroken /\ FamilyDiesWhole
    /\ LiveSessionIsAuthorized /\ StaleReadIsHarmless /\ [Next]_vars => StaleReadIsHarmless'
<1> SUFFICES ASSUME TypeOK, ReferenceInv, LockInv, ChainUnbroken, FamilyDiesWhole,
                    LiveSessionIsAuthorized, StaleReadIsHarmless, [Next]_vars,
                    NEW r \in Refreshes, refreshing'[r].pc \in {"located", "locked"},
                    NEW t, t = refreshing'[r].token, ~token'[t].used, ~token'[t].revoked
             PROVE  refreshing'[r].sees = ValidationState(token[t].session)'
  BY DEF StaleReadIsHarmless
<1>1. CASE /\ refreshing[r].pc \in {"located", "locked"}
           /\ refreshing'[r].token = refreshing[r].token
           /\ refreshing'[r].sees = refreshing[r].sees
  <2>1. t = refreshing[r].token /\ t \in Tokens /\ Issued(t)
    BY <1>1, RequestFields DEF ReferenceInv
  <2>2. ~token[t].used /\ ~token[t].revoked
    BY <2>1, RowsEvolve DEF TokenEvolves
  <2>3. refreshing[r].sees = ValidationState(token[t].session)
    BY <1>1, <2>1, <2>2 DEF StaleReadIsHarmless
  <2> QED BY <1>1, <2>1, <2>3, StateStays
<1>2. ASSUME NEW t2 \in Tokens, BeginRefresh(r, t2), refreshing'[r].token = t2,
             refreshing'[r].sees = ValidationState(token[t2].session)
      PROVE  refreshing'[r].sees = ValidationState(token[t].session)'
  BY <1>2 DEF BeginRefresh, database, ValidationState
<1> QED BY <1>1, <1>2, PendingRefresh

-----------------------------------------------------------------------------
\* What the answers of refresh say about its token.
RefreshInv ==
    /\ \A r \in Refreshes :
         LET t == refreshing[r].token
         IN  /\ refreshing[r].pc \in {"located", "locked"} /\ ~token[t].used /\ ~token[t].revoked =>
                  refreshing[r].live
             /\ refreshing[r].pc = "rotated" => refreshing[r].live /\ token[t].used
             /\ refreshing[r].pc \in {"replay", "invalid"} => session[token[t].session].revoked
    /\ \A r, r2 \in Refreshes :
         /\ refreshing[r].pc = "rotated" /\ refreshing[r2].pc = "rotated"
         /\ refreshing[r].token = refreshing[r2].token
         => r = r2

\* What a validation under way still has to decide.
ValidationInv ==
    /\ \A c \in claims : c.member # NoMember => c.authz \leq member[c.member].authz
    /\ \A v \in Validations :
         /\ validating[v].pc = "loading" /\ Good(validating[v].claim) => validating[v].live
         /\ validating[v].pc = "storing" =>
              /\ validating[v].claim.member = NoMember
              /\ ~validating[v].state.session.revoked => validating[v].live
         /\ validating[v].pc = "valid" => validating[v].live

\* Where an answered refresh comes from.
LEMMA AnsweredRefresh ==
    ASSUME TypeOK, [Next]_vars, NEW r \in Refreshes,
           refreshing'[r].pc \in {"rotated", "replay", "invalid"}
    PROVE  \/ refreshing'[r] = refreshing[r]
           \/ /\ refreshing[r].pc = "locked"
              /\ refreshing'[r].token = refreshing[r].token
              /\ refreshing'[r].live = refreshing[r].live
              /\ \/ refreshing'[r].pc = "rotated" /\ \E u \in Tokens : Rotate(r, u)
                 \/ RefreshReplayed(r) /\ refreshing'[r].pc = "replay"
                 \/ RefreshRefused(r) /\ refreshing'[r].pc = "invalid"
<1>1. ASSUME NEW t \in Tokens, BeginRefresh(r, t) PROVE FALSE
  BY <1>1 DEF BeginRefresh, TypeOK
<1>2. ~Abort(r)
  BY DEF Abort, TypeOK, Idle
<1>3. ~LockRefresh(r)
  <2> SUFFICES ASSUME LockRefresh(r) PROVE FALSE
    OBVIOUS
  <2>1. refreshing[r] \in RefreshStates \ {Idle}
    BY RequestFields DEF LockRefresh
  <2>2. refreshing'[r] = [refreshing[r] EXCEPT !.pc = "locked", !.read = LockedToken(r)]
    BY RefreshResults
  <2>3. refreshing'[r].pc = "locked"
    BY <2>1, <2>2 DEF RefreshStates, Idle
  <2> QED BY <2>3
<1>4. ASSUME NEW pc \in {"rotated", "replay", "invalid"}, refreshing[r].pc = "locked",
             refreshing'[r] = [refreshing[r] EXCEPT !.pc = pc]
      PROVE  /\ refreshing'[r].pc = pc
             /\ refreshing'[r].token = refreshing[r].token
             /\ refreshing'[r].live = refreshing[r].live
  <2>1. LET g == [refreshing[r] EXCEPT !.pc = pc]
        IN  g.pc = pc /\ g.token = refreshing[r].token /\ g.live = refreshing[r].live
    BY <1>4, RequestFields, RefreshFields
  <2> QED BY <1>4, <2>1
<1>5. RefreshReplayed(r) => refreshing[r].pc = "locked"
                            /\ refreshing'[r] = [refreshing[r] EXCEPT !.pc = "replay"]
  BY RefreshResults DEF RefreshReplayed
<1>6. RefreshRefused(r) => refreshing[r].pc = "locked"
                           /\ refreshing'[r] = [refreshing[r] EXCEPT !.pc = "invalid"]
  BY RefreshResults DEF RefreshRefused
<1>7. \A u \in Tokens : Rotate(r, u) =>
         refreshing[r].pc = "locked" /\ refreshing'[r] = [refreshing[r] EXCEPT !.pc = "rotated"]
  BY RefreshResults DEF Rotate
<1> QED BY <1>1, <1>2, <1>3, <1>4, <1>5, <1>6, <1>7, RefreshSteps

-----------------------------------------------------------------------------
\* A refresh succeeds only with a token that could be exchanged when it began, at
\* most once for each token, and any other answer revokes the session.
LEMMA RefreshInvStep ==
    ASSUME TypeOK, ReferenceInv, LockInv, ChainUnbroken, FamilyDiesWhole,
           LiveSessionIsAuthorized, RefreshInv, [Next]_vars
    PROVE  RefreshInv'
<1>1. ASSUME NEW r \in Refreshes, refreshing'[r].pc \in {"located", "locked"},
             NEW t, t = refreshing'[r].token, ~token'[t].used, ~token'[t].revoked
      PROVE  refreshing'[r].live
  <2>1. CASE /\ refreshing[r].pc \in {"located", "locked"}
             /\ refreshing'[r].token = refreshing[r].token
             /\ refreshing'[r].live = refreshing[r].live
    <3>1. t = refreshing[r].token /\ t \in Tokens /\ Issued(t)
      BY <1>1, <2>1, RequestFields DEF ReferenceInv
    <3>2. ~token[t].used /\ ~token[t].revoked
      BY <1>1, <3>1, RowsEvolve DEF TokenEvolves
    <3> QED BY <2>1, <3>1, <3>2 DEF RefreshInv
  <2>2. ASSUME NEW t2 \in Tokens, BeginRefresh(r, t2), refreshing'[r].token = t2,
               refreshing'[r].live = Exchangeable(t2)
        PROVE  refreshing'[r].live
    <3>1. t = t2 /\ Issued(t) /\ ~token[t].used /\ ~token[t].revoked
      BY <1>1, <2>2 DEF BeginRefresh, database
    <3>2. PICK s \in SessionIds : s = token[t].session
      BY <2>2, <3>1, RowTypes DEF TokenRows
    <3>3. Born(s) /\ ~session[s].revoked
      BY <2>2, <3>1, <3>2 DEF ReferenceInv, FamilyDiesWhole
    <3>4. session[s].member # NoMember =>
             /\ member[session[s].member].status = "active"
             /\ member[session[s].member].authz = session[s].authz
      BY <3>3 DEF LiveSessionIsAuthorized, Account
    <3>5. Exchangeable(t)
      BY <3>1, <3>2, <3>3, <3>4 DEF Exchangeable, ValidationState
    <3> QED BY <2>2, <3>1, <3>5
  <2> QED BY <1>1, <2>1, <2>2, PendingRefresh
<1>2. ASSUME NEW r \in Refreshes, NEW u \in Tokens, Rotate(r, u)
      PROVE  /\ refreshing[r].live /\ ~token[refreshing[r].token].used
             /\ token'[refreshing[r].token].used
             /\ refreshing[r].token \in Tokens
             /\ \A r2 \in Refreshes : r2 # r => refreshing'[r2] = refreshing[r2]
  <2>1. PICK t \in Tokens : t = refreshing[r].token
    BY <1>2, RequestFields DEF Rotate
  <2>2. Issued(t) /\ refreshing[r].read = token[t] /\ token[t] \in TokenRows
    BY <1>2, <2>1, RowTypes DEF Rotate, ReferenceInv, LockInv
  <2>3. ~token[t].used /\ ~token[t].revoked
    BY <1>2, <2>2 DEF Rotate, Current
  <2>4. refreshing[r].live
    BY <1>2, <2>1, <2>3 DEF Rotate, RefreshInv
  <2>5. token'[t].used
    <3>1. token' = [token EXCEPT ![t] = Spent(token[t], u),
                                 ![u] = TokenRow(refreshing[r].read.session, refreshing[r].began)]
          /\ u # t
      BY <1>2, <2>1, <2>2 DEF Rotate
    <3>2. token'[t] = Spent(token[t], u)
      BY <3>1 DEF TypeOK
    <3> QED BY <2>2, <3>2 DEF Spent, TokenRows
  <2>6. \A r2 \in Refreshes : r2 # r => refreshing'[r2] = refreshing[r2]
    BY <1>2 DEF Rotate, TypeOK
  <2> QED BY <2>1, <2>3, <2>4, <2>5, <2>6
<1>3. ASSUME NEW r \in Refreshes, refreshing[r].pc # "idle"
      PROVE  /\ refreshing[r].token \in Tokens /\ Issued(refreshing[r].token)
             /\ token[refreshing[r].token].used => token'[refreshing[r].token].used
             /\ session[token[refreshing[r].token].session].revoked =>
                  session'[token'[refreshing[r].token].session].revoked
  <2>1. PICK t \in Tokens : t = refreshing[r].token
    BY <1>3, RequestFields
  <2>2. Issued(t)
    BY <1>3, <2>1 DEF ReferenceInv
  <2>3. PICK s \in SessionIds : s = token[t].session
    BY <2>2, RowTypes DEF TokenRows
  <2>4. Born(s) /\ token'[t].session = s
    BY <2>2, <2>3, RowsEvolve DEF ReferenceInv, TokenEvolves
  <2>5. /\ token[t].used => token'[t].used
        /\ session[s].revoked => session'[s].revoked
    BY <2>2, <2>4, RowsEvolve DEF TokenEvolves, SessionEvolves
  <2> QED BY <2>1, <2>2, <2>3, <2>4, <2>5
<1>4. ASSUME NEW r \in Refreshes, refreshing'[r].pc = "rotated"
      PROVE  refreshing'[r].live /\ token'[refreshing'[r].token].used
  <2>1. CASE refreshing'[r] = refreshing[r]
    BY <1>3, <1>4, <2>1 DEF RefreshInv
  <2>2. ASSUME NEW u \in Tokens, Rotate(r, u), refreshing'[r].token = refreshing[r].token,
               refreshing'[r].live = refreshing[r].live
        PROVE  refreshing'[r].live /\ token'[refreshing'[r].token].used
    BY <1>2, <2>2
  <2> QED BY <1>4, <2>1, <2>2, AnsweredRefresh
<1>5. ASSUME NEW r \in Refreshes, refreshing'[r].pc \in {"replay", "invalid"}
      PROVE  session'[token'[refreshing'[r].token].session].revoked
  <2>1. CASE refreshing'[r] = refreshing[r]
    BY <1>3, <1>5, <2>1 DEF RefreshInv
  <2>2. ASSUME RefreshReplayed(r) \/ RefreshRefused(r), refreshing[r].pc = "locked",
               refreshing'[r].token = refreshing[r].token
        PROVE  session'[token'[refreshing'[r].token].session].revoked
    <3>1. PICK t \in Tokens : t = refreshing[r].token
      BY <2>2, RequestFields
    <3>2. Issued(t) /\ refreshing[r].read.session = token[t].session
      BY <2>2, <3>1 DEF ReferenceInv
    <3>3. PICK s \in SessionIds : s = token[t].session
      BY <3>2, RowTypes DEF TokenRows
    <3>4. Born(s) /\ token'[t].session = s
      BY <3>2, <3>3, RowsEvolve DEF ReferenceInv, TokenEvolves
    <3>5. session' = RevokedSessions({s})
      BY <2>2, <3>2, <3>3 DEF RefreshReplayed, RefreshRefused
    <3>6. session'[s].revoked
      <4>1. PICK S \in SUBSET SessionIds : S = {s}
        OBVIOUS
      <4>2. RevokedSessions(S)[s].revoked = (session[s].revoked \/ s \in S)
        BY <3>4, KilledSession
      <4> QED BY <3>5, <4>1, <4>2
    <3> QED BY <2>2, <3>1, <3>4, <3>6
  <2> QED BY <1>5, <2>1, <2>2, AnsweredRefresh
<1>6. ASSUME NEW r \in Refreshes, NEW r2 \in Refreshes, r # r2,
             refreshing'[r].pc = "rotated", refreshing'[r2].pc = "rotated"
      PROVE  refreshing'[r].token # refreshing'[r2].token
  <2>1. ASSUME NEW p \in Refreshes, NEW q \in Refreshes, p # q, NEW u \in Tokens, Rotate(p, u),
               refreshing'[p].token = refreshing[p].token, refreshing'[q].pc = "rotated"
        PROVE  refreshing'[p].token # refreshing'[q].token
    <3>1. refreshing'[q] = refreshing[q] /\ ~token[refreshing[p].token].used
      BY <1>2, <2>1
    <3>2. token[refreshing[q].token].used
      BY <2>1, <3>1 DEF RefreshInv
    <3> QED BY <2>1, <3>1, <3>2
  <2>2. CASE refreshing'[r] = refreshing[r] /\ refreshing'[r2] = refreshing[r2]
    BY <1>6, <2>2 DEF RefreshInv
  <2>3. refreshing'[r] = refreshing[r] \/ \E u \in Tokens :
            Rotate(r, u) /\ refreshing'[r].token = refreshing[r].token
    BY <1>6, AnsweredRefresh
  <2>4. refreshing'[r2] = refreshing[r2] \/ \E u \in Tokens :
            Rotate(r2, u) /\ refreshing'[r2].token = refreshing[r2].token
    BY <1>6, AnsweredRefresh
  <2> QED BY <1>6, <2>1, <2>2, <2>3, <2>4
<1> QED BY <1>1, <1>4, <1>5, <1>6 DEF RefreshInv

-----------------------------------------------------------------------------
\* A credential that is dead stays dead.
LEMMA GoodAntitone ==
    ASSUME TypeOK, ReferenceInv, LockInv, ValidationInv, [Next]_vars,
           NEW c \in claims, Good(c)'
    PROVE  Good(c)
<1>1. c \in Claims /\ Born(c.session)
  BY DEF TypeOK, ReferenceInv
<1>2. PICK s \in SessionIds, m \in Members \cup {NoMember} : s = c.session /\ m = c.member
  BY <1>1 DEF Claims
<1>3. ~session[s].revoked
  BY <1>1, <1>2, RowsEvolve DEF SessionEvolves, Good
<1>4. ASSUME m # NoMember PROVE member[m].status = "active" /\ member[m].authz = c.authz
  <2>1. member'[m].status = "active" /\ member'[m].authz = c.authz
    BY <1>2, <1>4 DEF Good
  <2>2. c.authz \leq member[m].authz /\ c.authz \in Nat /\ member[m].authz \in Nat
    BY <1>1, <1>2, <1>4, RowTypes, BoundsAssumption
    DEF ValidationInv, Claims, MemberRows, BoundsAssumption
  <2>3. member'[m] = member[m] \/ member'[m].authz = member[m].authz + 1
    BY <1>2, <1>4, MembersEvolve
  <2> QED BY <2>1, <2>2, <2>3
<1> QED BY <1>2, <1>3, <1>4 DEF Good

\* An access token carries the authz_version of its membership at the time it was
\* issued, also when a refresh took it from its snapshot.
LEMMA ClaimsBounded ==
    ASSUME TypeOK, ReferenceInv, LockInv, StaleReadIsHarmless, ValidationInv, [Next]_vars,
           NEW c \in claims', c.member # NoMember
    PROVE  c.authz \leq member'[c.member].authz
<1>1. c \in Claims
  BY TypeStep DEF TypeOK
<1>2. PICK m \in Members : m = c.member
  BY <1>1 DEF Claims
<1>3. member[m].authz \in Nat /\ member[m].authz \leq member'[m].authz
  <2>1. member[m].authz \in Nat
    BY RowTypes, BoundsAssumption DEF MemberRows, BoundsAssumption
  <2> QED BY <2>1, MembersEvolve
<1>4. c \in claims => c.authz \leq member[m].authz /\ c.authz \in Nat
  BY <1>1, <1>2, BoundsAssumption DEF ValidationInv, Claims, BoundsAssumption
<1>5. ASSUME NEW s, c = Claim(s, NoMember, 0) PROVE FALSE
  BY <1>5 DEF Claim
<1>6. ASSUME NEW s, NEW m2, c = Claim(s, m2, member[m2].authz)
      PROVE  c.authz = member[m].authz
  BY <1>2, <1>6 DEF Claim
<1>7. ASSUME NEW r \in Refreshes, NEW u \in Tokens, Rotate(r, u),
             c = Claim(refreshing[r].read.session, refreshing[r].sees.session.member,
                       IF refreshing[r].sees.session.member = NoMember THEN 0
                       ELSE refreshing[r].sees.member.authz)
      PROVE  c.authz = member[m].authz
  <2>1. PICK t \in Tokens : t = refreshing[r].token
    BY <1>7, RequestFields DEF Rotate
  <2>2. refreshing[r].read = token[t]
    BY <1>7, <2>1 DEF Rotate, LockInv
  <2>3. refreshing[r].sees = ValidationState(token[t].session)
    BY <1>7, <2>1, <2>2 DEF Rotate, Current, StaleReadIsHarmless
  <2>4. c.member = refreshing[r].sees.session.member
        /\ (c.member # NoMember => c.authz = refreshing[r].sees.member.authz)
    BY <1>7 DEF Claim
  <2>5. /\ refreshing[r].sees.session.member = session[token[t].session].member
        /\ session[token[t].session].member # NoMember =>
             refreshing[r].sees.member = member[session[token[t].session].member]
    BY <2>3 DEF ValidationState
  <2> QED BY <1>2, <2>4, <2>5
<1>8. c.authz = member[m].authz => c.authz \leq member'[m].authz
  BY <1>3
<1>9. c \in claims => c.authz \leq member'[m].authz
  <2>1. member'[m].authz \in Nat
    BY <1>3, MembersEvolve
  <2> QED BY <1>3, <1>4, <2>1
<1>10. c \in claims \/ c.authz = member[m].authz
  BY <1>5, <1>6, <1>7, ClaimSteps
<1> QED BY <1>2, <1>8, <1>9, <1>10

\* What a validation has loaded, and what it answers, was so when it began or later.
LEMMA ValidationInvStep ==
    ASSUME TypeOK, ReferenceInv, LockInv, StaleReadIsHarmless, ValidationInv, [Next]_vars
    PROVE  ValidationInv'
<1>1. ASSUME NEW v \in Validations
      PROVE  /\ validating'[v].pc = "loading" /\ Good(validating[v].claim)' => validating'[v].live
             /\ validating'[v].pc = "storing" =>
                  /\ validating'[v].claim.member = NoMember
                  /\ ~validating'[v].state.session.revoked => validating'[v].live
             /\ validating'[v].pc = "valid" => validating'[v].live
  <2> DEFINE Kept ==
        /\ validating'[v].pc = "loading" /\ Good(validating[v].claim)' => validating'[v].live
        /\ validating'[v].pc = "storing" =>
             /\ validating'[v].claim.member = NoMember
             /\ ~validating'[v].state.session.revoked => validating'[v].live
        /\ validating'[v].pc = "valid" => validating'[v].live
  <2>1. CASE validating'[v] = validating[v]
    <3>1. CASE validating[v].pc = "loading"
      <4>1. PICK c \in claims : c = validating[v].claim
        BY <3>1 DEF ReferenceInv
      <4>2. Good(validating[v].claim)' => Good(c)'
        BY <2>1, <4>1 DEF Good
      <4>3. Good(c) => validating[v].live
        BY <3>1, <4>1 DEF ValidationInv
      <4> QED BY <2>1, <3>1, <4>2, <4>3, GoodAntitone
    <3>2. CASE validating[v].pc # "loading"
      BY <2>1, <3>2 DEF ValidationInv
    <3> QED BY <3>1, <3>2
  <2>2. ASSUME NEW c \in claims, BeginValidation(v, c) PROVE Kept
    <3>1. /\ validating'[v].pc \in {"refused", "loading"}
          /\ validating'[v].claim = c /\ validating'[v].live = Good(c)
      BY <2>2 DEF BeginValidation, TypeOK
    <3>2. Good(validating[v].claim)' => Good(c)
      BY <2>2, <3>1 DEF Good, BeginValidation, database
    <3> QED BY <3>1, <3>2
  <2>3. CASE LoadAccount(v)
    <3>1. /\ validating[v] \in ValidatingStates \ {Idle}
          /\ validating[v].pc = "loading"
          /\ validating[v].claim.member = NoMember
      BY <2>3, RequestFields DEF LoadAccount
    <3>2. validating'[v] = [validating[v] EXCEPT !.pc = "storing",
                                                 !.state = Loaded(validating[v].claim.session)]
      BY <2>3 DEF LoadAccount, TypeOK
    <3>3. /\ validating'[v].pc = "storing" /\ validating'[v].claim = validating[v].claim
          /\ validating'[v].state = Loaded(validating[v].claim.session)
          /\ validating'[v].live = validating[v].live
      BY <3>1, <3>2 DEF ValidatingStates, Idle
    <3>4. ~session[validating[v].claim.session].revoked => validating[v].live
      BY <3>1 DEF Good, ValidationInv
    <3>5. validating'[v].state.session = session[validating[v].claim.session]
      BY <3>3 DEF Loaded, ValidationState
    <3> QED BY <3>1, <3>3, <3>4, <3>5
  <2>4. CASE AnswerAccount(v) \/ AnswerTenant(v)
    <3>1. validating[v] \in ValidatingStates \ {Idle}
      BY <2>4, RequestFields DEF AnswerAccount, AnswerTenant
    <3>2. ASSUME NEW pc \in {"valid", "refused"}, validating'[v] = [validating[v] EXCEPT !.pc = pc]
          PROVE  validating'[v].pc = pc /\ validating'[v].live = validating[v].live
      BY <3>1, <3>2 DEF ValidatingStates, Idle
    <3>3. CASE AnswerAccount(v)
      <4>1. PICK pc \in {"valid", "refused"} :
                /\ pc = Verdict(validating[v].claim, validating[v].state, validating[v].began)
                /\ validating'[v] = [validating[v] EXCEPT !.pc = pc]
        BY <3>3 DEF AnswerAccount, Verdict, TypeOK
      <4>2. pc = "valid" => ~validating[v].state.session.revoked
        BY <4>1 DEF Verdict, Authoritative
      <4>3. pc = "valid" => validating[v].live
        BY <3>3, <4>2 DEF AnswerAccount, ValidationInv
      <4> QED BY <3>2, <4>1, <4>3
    <3>4. CASE AnswerTenant(v)
      <4>1. PICK c \in claims : c = validating[v].claim /\ c.member # NoMember
        BY <3>4 DEF AnswerTenant, ReferenceInv
      <4>2. PICK pc \in {"valid", "refused"} :
                /\ \/ pc = DerivedVerdict(c, ValidationState(c.session), validating[v].began)
                   \/ pc = Verdict(c, ValidationState(c.session), validating[v].began)
                /\ validating'[v] = [validating[v] EXCEPT !.pc = pc]
        BY <3>4, <4>1 DEF AnswerTenant, Verdict, DerivedVerdict, TypeOK
      <4>3. DerivedVerdict(c, ValidationState(c.session), validating[v].began) = "valid" => Good(c)
        BY DEF DerivedVerdict, Authoritative, ValidationState, Good
      <4>4. Verdict(c, ValidationState(c.session), validating[v].began) = "valid" => Good(c)
        BY <4>1 DEF Verdict, Authoritative, ValidationState, Good
      <4>5. pc = "valid" => validating[v].live
        BY <3>4, <4>1, <4>2, <4>3, <4>4 DEF AnswerTenant, ValidationInv
      <4> QED BY <3>2, <4>2, <4>5
    <3> QED BY <2>4, <3>3, <3>4
  <2> QED BY <2>1, <2>2, <2>3, <2>4, ValidationSteps
<1> QED BY <1>1, ClaimsBounded DEF ValidationInv

-----------------------------------------------------------------------------
\* The inductive invariant.
SessionInv ==
    /\ TypeOK /\ ReferenceInv /\ LockInv
    /\ ChainUnbroken /\ FamilyDiesWhole /\ LiveSessionIsAuthorized
    /\ StaleReadIsHarmless
    /\ RefreshInv /\ ValidationInv

\* The empty database satisfies the invariant.
LEMMA SessionInvInit == Init => SessionInv
<1> SUFFICES ASSUME Init PROVE SessionInv
  OBVIOUS
<1>1. TypeOK
  BY InitType
<1>2. /\ \A s \in SessionIds : ~Born(s)
      /\ \A t \in Tokens : ~Issued(t)
      /\ claims = {}
      /\ \A r \in Refreshes : refreshing[r].pc = "idle"
      /\ \A v \in Validations : validating[v].pc = "idle"
  BY DEF Init, Born, Issued, Idle
<1>3. ReferenceInv /\ LockInv
  BY <1>2 DEF ReferenceInv, LockInv
<1>4. ChainUnbroken /\ FamilyDiesWhole /\ LiveSessionIsAuthorized /\ StaleReadIsHarmless
  BY <1>2 DEF ChainUnbroken, FamilyDiesWhole, LiveSessionIsAuthorized, StaleReadIsHarmless
<1>5. RefreshInv /\ ValidationInv
  BY <1>2 DEF RefreshInv, ValidationInv
<1> QED BY <1>1, <1>3, <1>4, <1>5 DEF SessionInv

\* Every step keeps it.
LEMMA SessionInvStep == SessionInv /\ [Next]_vars => SessionInv'
<1> SUFFICES ASSUME SessionInv, [Next]_vars PROVE SessionInv'
  OBVIOUS
<1>1. /\ TypeOK /\ ReferenceInv /\ LockInv
      /\ ChainUnbroken /\ FamilyDiesWhole /\ LiveSessionIsAuthorized
      /\ StaleReadIsHarmless /\ RefreshInv /\ ValidationInv
  BY DEF SessionInv
<1>2. TypeOK' /\ ReferenceInv' /\ LockInv'
  BY <1>1, TypeStep, ReferenceStep, LockStep
<1>3. ChainUnbroken' /\ FamilyDiesWhole' /\ LiveSessionIsAuthorized'
  BY <1>1, ChainStep, FamilyStep, AuthorityStep
<1>4. StaleReadIsHarmless'
  BY <1>1, StaleReadStep
<1>5. RefreshInv'
  BY <1>1, RefreshInvStep
<1>6. ValidationInv'
  BY <1>1, ValidationInvStep
<1> QED BY <1>2, <1>3, <1>4, <1>5, <1>6 DEF SessionInv

\* Device logins satisfy their inductive invariant for any number of sessions,
\* tokens, memberships and concurrent requests.
THEOREM SessionsCorrect == Spec => []SessionInv
BY SessionInvInit, SessionInvStep, PTL DEF Spec

\* Every row, claim and request keeps the type of its table.
THEOREM SessionsTyped == Spec => []TypeOK
<1>1. SessionInv => TypeOK
  BY DEF SessionInv
<1> QED BY <1>1, SessionsCorrect, PTL

\* However refreshes interleave, a login has one token that was not exchanged, and
\* the others form one chain up to it.
THEOREM ChainNeverBreaks == Spec => []ChainUnbroken
<1>1. SessionInv => ChainUnbroken
  BY DEF SessionInv
<1> QED BY <1>1, SessionsCorrect, PTL

\* Logout, reuse detection, tenant switch and membership changes revoke a session
\* and every token of its family together.
THEOREM FamiliesDieWhole == Spec => []FamilyDiesWhole
<1>1. SessionInv => FamilyDiesWhole
  BY DEF SessionInv
<1> QED BY <1>1, SessionsCorrect, PTL

\* A tenant session that is not revoked was issued for the membership as it is.
THEOREM LiveSessionsAreAuthorized == Spec => []LiveSessionIsAuthorized
<1>1. SessionInv => LiveSessionIsAuthorized
  BY DEF SessionInv
<1> QED BY <1>1, SessionsCorrect, PTL

\* refresh may decide on the session and the membership it read before it waited
\* for its locks.
THEOREM StaleReadsAreHarmless == Spec => []StaleReadIsHarmless
<1>1. SessionInv => StaleReadIsHarmless
  BY DEF SessionInv
<1> QED BY <1>1, SessionsCorrect, PTL

\* A request that began with a dead credential is never answered with success.
THEOREM DeadCredentialsAreRefused == Spec => []DeadCredentialRefused
<1>1. SessionInv => DeadCredentialRefused
  BY DEF SessionInv, RefreshInv, ValidationInv, DeadCredentialRefused
<1> QED BY <1>1, SessionsCorrect, PTL

\* When two refreshes of one token are both answered, the login dies.
THEOREM DoublePresentationsKill == Spec => []DoublePresentationKills
<1>1. SessionInv => DoublePresentationKills
  BY DEF SessionInv, RefreshInv, DoublePresentationKills
<1> QED BY <1>1, SessionsCorrect, PTL

-----------------------------------------------------------------------------
(* The refinement of SessionFamily. *)

\* Who holds a session.
HolderInv ==
    \A s \in SessionIds :
        /\ ~Born(s) => HolderOf(s) = Unborn
        /\ Born(s) /\ session[s].revoked => HolderOf(s) = Dead
        /\ Born(s) /\ ~session[s].revoked =>
             /\ HolderOf(s) \in Tokens /\ Spendable(HolderOf(s), s)
             /\ \A t \in Tokens : Spendable(t, s) => t = HolderOf(s)

\* An unbroken chain has one holder for a live session.
LEMMA Holder == ChainUnbroken => HolderInv
BY Zenon DEF ChainUnbroken, HolderOf, HolderInv

\* The same after a step.
LEMMA HolderNext == ChainUnbroken' => HolderInv'
BY Holder, PTL

\* A step on the tables, seen from the family.
LEMMA HolderSteps ==
    ASSUME SessionInv, SessionInv', [Next]_vars
    PROVE  [Family!Next]_(Family!vars)
<1> DEFINE holder == [s \in SessionIds |-> HolderOf(s)]
           issued == {t \in Tokens : Issued(t)}
<1>1. /\ TypeOK /\ ReferenceInv /\ LockInv /\ ChainUnbroken /\ FamilyDiesWhole
      /\ HolderInv /\ HolderInv'
  BY Holder, HolderNext DEF SessionInv
<1>2. ASSUME NEW S \in SUBSET SessionIds, NEW s \in SessionIds,
             SameContext(s), SessionRevoked(s, S),
             \A t \in Tokens : Spendable(t, s)' <=> Spendable(t, s)
      PROVE  HolderOf(s)' = IF Born(s) /\ s \in S THEN Dead ELSE HolderOf(s)
  <2>1. CASE ~Born(s)
    BY <1>1, <1>2, <2>1 DEF SameContext, HolderInv
  <2>2. CASE Born(s)
    <3>1. Born(s)' /\ session'[s].revoked = (session[s].revoked \/ s \in S)
      BY <1>2, <2>2 DEF SameContext, SessionRevoked
    <3>2. CASE session[s].revoked \/ s \in S
      <4>1. HolderOf(s)' = Dead
        BY <1>1, <3>1, <3>2 DEF HolderInv
      <4>2. s \notin S => HolderOf(s) = Dead
        BY <1>1, <2>2, <3>2 DEF HolderInv
      <4> QED BY <2>2, <4>1, <4>2
    <3>3. CASE ~session[s].revoked /\ s \notin S
      <4>1. HolderOf(s) \in Tokens /\ Spendable(HolderOf(s), s)
        BY <1>1, <2>2, <3>3 DEF HolderInv
      <4>2. \A t \in Tokens : Spendable(t, s)' => t = HolderOf(s)'
        BY <1>1, <3>1, <3>3 DEF HolderInv
      <4>3. PICK t \in Tokens : t = HolderOf(s)
        BY <4>1
      <4>4. t = HolderOf(s)'
        BY <1>2, <4>1, <4>2, <4>3
      <4> QED BY <3>3, <4>3, <4>4
    <3> QED BY <3>2, <3>3
  <2> QED BY <2>1, <2>2
<1>3. ASSUME NEW S \in SUBSET SessionIds, OnlyRevoked(S) PROVE Family!Next
  <2>1. PICK D \in SUBSET SessionIds : D = {s \in S : Born(s)}
    OBVIOUS
  <2>2. issued' = issued
    BY <1>3 DEF OnlyRevoked, SamePlace
  <2>3. \A s \in SessionIds : HolderOf(s)' = IF s \in D THEN Dead ELSE HolderOf(s)
    BY <1>2, <1>3, <2>1, SpendableSame DEF OnlyRevoked
  <2>4. holder' = [s \in SessionIds |-> IF s \in D THEN Dead ELSE holder[s]]
    BY <2>3
  <2>5. \A s \in D : holder[s] # Unborn
    BY <1>1, <2>1, NamesAssumption DEF HolderInv, Unborn, Dead
  <2>6. Family!Death(D)
    BY <2>2, <2>4, <2>5, Zenon DEF Family!Death
  <2> QED BY <2>6 DEF Family!Next
<1>4. ASSUME NEW S \in SUBSET SessionIds, NEW s2 \in SessionIds, NEW t2 \in Tokens,
             NEW m \in Members \cup {NoMember}, NEW a \in 0 .. MaxAuthz, Create(S, s2, t2, m, a)
      PROVE  Family!Next
  <2>1. token'[t2] = TokenRow(s2, now) /\ Issued(t2)' /\ session'[s2] = SessionRow(m, a, now)
        /\ Born(s2)'
    BY <1>1, <1>4, CreatedRows
  <2>2. ~Born(s2) /\ ~Issued(t2)
    BY <1>4 DEF Create
  <2>3. \A t \in Tokens : Issued(t)' <=> Issued(t) \/ t = t2
    BY <1>1, <1>4, <2>1, CreatedRows DEF SamePlace
  <2>4. issued' = issued \cup {t2} /\ t2 \in Tokens \ issued
    BY <2>2, <2>3
  <2>5. Family!Issue(t2)
    BY <2>4, Zenon DEF Family!Issue
  <2>6. HolderOf(s2)' = t2
    <3>1. Spendable(t2, s2)' /\ ~session'[s2].revoked
      BY <2>1 DEF Spendable, TokenRow, SessionRow
    <3> QED BY <1>1, <2>1, <3>1 DEF HolderInv
  <2>7. \A s \in SessionIds \ {s2} :
           HolderOf(s)' = IF Born(s) /\ s \in S THEN Dead ELSE HolderOf(s)
    <3> SUFFICES ASSUME NEW s \in SessionIds \ {s2}
                 PROVE  HolderOf(s)' = IF Born(s) /\ s \in S THEN Dead ELSE HolderOf(s)
      OBVIOUS
    <3>1. SameContext(s) /\ SessionRevoked(s, S)
      BY <1>1, <1>4, CreatedRows
    <3>2. ASSUME NEW t \in Tokens PROVE Spendable(t, s)' <=> Spendable(t, s)
      <4>1. CASE t = t2
        <5>1. ~Spendable(t2, s)
          BY <2>2 DEF Spendable
        <5>2. ~Spendable(t2, s)'
          BY <2>1 DEF Spendable, TokenRow
        <5> QED BY <4>1, <5>1, <5>2
      <4>2. CASE t # t2
        BY <1>1, <1>4, <4>2, CreatedRows, SpendableSame
      <4> QED BY <4>1, <4>2
    <3> QED BY <1>2, <3>1, <3>2
  <2>8. holder[s2] = Unborn
    BY <1>1, <2>2 DEF HolderInv
  <2>9. CASE S = {}
    <3>1. holder' = [holder EXCEPT ![s2] = t2]
      BY <2>6, <2>7, <2>9
    <3>2. Family!Birth(s2, t2)
      BY <2>5, <2>8, <3>1, Zenon DEF Family!Birth
    <3> QED BY <3>2 DEF Family!Next
  <2>10. ASSUME NEW s1 \in SessionIds, S = {s1}, Born(s1), ~session[s1].revoked
         PROVE  Family!Next
    <3>1. s1 # s2
      BY <2>2, <2>10
    <3>2. holder' = [holder EXCEPT ![s1] = Dead, ![s2] = t2]
      BY <2>6, <2>7, <2>10, <3>1
    <3>3. holder[s1] \in Tokens
      BY <1>1, <2>10 DEF HolderInv
    <3>4. Family!Live(s1)
      BY <3>3, Zenon DEF Family!Live
    <3>5. Family!Switch(s1, s2, t2)
      BY <2>5, <2>8, <3>2, <3>4, Zenon DEF Family!Switch
    <3> QED BY <3>5 DEF Family!Next
  <2> QED BY <1>4, <2>9, <2>10 DEF Create
<1>5. ASSUME NEW r \in Refreshes, NEW s2 \in SessionIds, NEW t2 \in Tokens, NEW u2 \in Tokens,
             NEW at \in Times, Exchange(r, s2, t2, u2, at)
      PROVE  Family!Next
  <2>1. /\ token'[t2] = Spent(token[t2], u2) /\ token'[u2] = TokenRow(s2, at)
        /\ Issued(t2)' /\ Issued(u2)' /\ t2 # u2
    BY <1>1, <1>5, ExchangedRows
  <2>2. token[t2] \in TokenRows /\ Issued(t2) /\ ~Issued(u2) /\ ~token[t2].used
        /\ token[t2].session = s2 /\ Born(s2)
    BY <1>1, <1>5, RowTypes DEF Exchange
  <2>3. ~session[s2].revoked
    BY <1>1, <1>5 DEF Exchange, FamilyDiesWhole
  <2>4. \A t \in Tokens : Issued(t)' <=> Issued(t) \/ t = u2
    BY <1>1, <1>5, <2>1, <2>2, ExchangedRows DEF SamePlace
  <2>5. issued' = issued \cup {u2} /\ u2 \in Tokens \ issued
    BY <2>2, <2>4
  <2>6. Family!Issue(u2)
    BY <2>5, Zenon DEF Family!Issue
  <2>7. HolderOf(s2)' = u2
    <3>1. Spendable(u2, s2)'
      BY <2>1 DEF Spendable, TokenRow
    <3>2. SameContext(s2) /\ SessionRevoked(s2, {})
      BY <1>1, <1>5, ExchangedRows
    <3>3. Born(s2)' /\ ~session'[s2].revoked
      BY <2>2, <2>3, <3>2 DEF SameContext, SessionRevoked
    <3> QED BY <1>1, <3>1, <3>3 DEF HolderInv
  <2>8. \A s \in SessionIds \ {s2} : HolderOf(s)' = HolderOf(s)
    <3> SUFFICES ASSUME NEW s \in SessionIds \ {s2} PROVE HolderOf(s)' = HolderOf(s)
      OBVIOUS
    <3>1. PICK S \in SUBSET SessionIds : S = {}
      OBVIOUS
    <3>2. SameContext(s) /\ SessionRevoked(s, S)
      BY <1>1, <1>5, <3>1, ExchangedRows
    <3>3. ASSUME NEW t \in Tokens PROVE Spendable(t, s)' <=> Spendable(t, s)
      <4>1. ~Spendable(t2, s) /\ ~Spendable(u2, s)
        BY <2>2 DEF Spendable
      <4>2. ~Spendable(t2, s)'
        BY <2>1, <2>2 DEF Spendable, Spent, TokenRows
      <4>3. ~Spendable(u2, s)'
        BY <2>1 DEF Spendable, TokenRow
      <4>4. t # t2 /\ t # u2 => SamePlace(t)
        BY <1>1, <1>5, ExchangedRows
      <4> QED BY <4>1, <4>2, <4>3, <4>4, SpendableSame
    <3> QED BY <1>2, <3>1, <3>2, <3>3
  <2>9. holder' = [holder EXCEPT ![s2] = u2]
    BY <2>7, <2>8
  <2>10. holder[s2] \in Tokens
    BY <1>1, <2>2, <2>3 DEF HolderInv
  <2>11. Family!Live(s2)
    BY <2>10, Zenon DEF Family!Live
  <2>12. Family!Pass(s2, u2)
    BY <2>6, <2>9, <2>11, Zenon DEF Family!Pass
  <2> QED BY <2>12 DEF Family!Next
<1> QED BY <1>1, <1>3, <1>4, <1>5, TableSteps

\* Locks, snapshots and caches implement one capability for each login, which
\* passes from token to token until it dies.
THEOREM SessionsImplementFamily == Spec => FamilySpec
<1>1. Init => Family!Init
  <2> SUFFICES ASSUME Init PROVE Family!Init
    OBVIOUS
  <2>1. [s \in SessionIds |-> HolderOf(s)] = [s \in SessionIds |-> Unborn]
    BY DEF Init, Born, HolderOf
  <2>2. {t \in Tokens : Issued(t)} = {}
    BY DEF Init, Issued
  <2> QED BY <2>1, <2>2 DEF Family!Init
<1>2. SessionInv /\ SessionInv' /\ [Next]_vars => [Family!Next]_(Family!vars)
  BY HolderSteps
<1> QED BY <1>1, <1>2, SessionsCorrect, PTL DEF Spec, FamilySpec, Family!Spec
=============================================================================

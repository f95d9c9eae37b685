-------------------------- MODULE IdentityAccounts --------------------------
(***************************************************************************)
(* Registration and login while the blind-index key is rotated.  The table *)
(* auth_identities does not hold a name but its digest under one version   *)
(* of the key, and its unique key holds within one version only: that a    *)
(* name has one account across versions rests on advisory locks of MySQL,  *)
(* one for each digest of the name under the ring of the process, taken    *)
(* one after the other on a connection of their own, and released after    *)
(* the commit.                                                             *)
(*                                                                         *)
(* Writers of the release before the locks existed know the legacy version *)
(* alone, and only the unique key stops them.  The gap locks of InnoDB,    *)
(* which would stop them earlier, are left out.  A password, where it is   *)
(* given, is right; rate limits, audit and the ciphertext are left out.    *)
(***************************************************************************)
EXTENDS Naturals, FiniteSets

CONSTANTS Name,          \* normalized identifiers
          Registration,  \* requests that register a name
          OldWriter,     \* registrations by the previous release
          Login,         \* requests that authenticate with a name
          Legacy,        \* the legacy version of the blind-index key
          Config,        \* rings of key versions, with the active one
          NoRequest      \* a lock that is free

Request == Registration \cup OldWriter \cup Login
KeyVersion == UNION {c.ring : c \in Config}

ASSUME ConfigAssumption ==
    /\ Registration \cap OldWriter = {}
    /\ Login \cap (Registration \cup OldWriter) = {}
    /\ NoRequest \notin Request
    /\ Config # {}
    /\ \A c \in Config : /\ c = [ring |-> c.ring, active |-> c.active]
                         /\ c.ring \subseteq Nat \ {0}
                         \* BlindIndexService and BlindIndexRolloutPolicy.validate
                         /\ Legacy \in c.ring
                         /\ c.active \in c.ring

VARIABLES
    config,   \* the ring of the process that serves each request with locks
    name,     \* the name each request is for
    step,     \* how far each request is
    answer,   \* what it was answered
    account,  \* the version of the account a writer committed, 0 if none
    lock,     \* the request that holds each advisory lock
    drained,  \* no writer of the previous release is left
    found     \* history: the account each login could find when it began

vars == <<config, name, step, answer, account, lock, drained, found>>

Writer == Registration \cup OldWriter

Step == {"idle", "locking", "check", "find", "insert", "commit", "release", "ended"}
Answer == {"none", "registered", "conflict", "unavailable", "authenticated", "refused"}

TypeOK ==
    /\ config \in [Registration \cup Login -> Config]
    /\ name \in [Request -> Name]
    /\ step \in [Request -> Step]
    /\ answer \in [Request -> Answer]
    /\ account \in [Writer -> KeyVersion \cup {0}]
    /\ lock \in [Name \X KeyVersion -> Request \cup {NoRequest}]
    /\ drained \in BOOLEAN
    /\ found \in [Login -> BOOLEAN]

Init ==
    /\ config \in [Registration \cup Login -> Config]
    /\ name \in [Request -> Name]
    /\ step = [r \in Request |-> "idle"]
    /\ answer = [r \in Request |-> "none"]
    /\ account = [w \in Writer |-> 0]
    /\ lock = [l \in Name \X KeyVersion |-> NoRequest]
    /\ drained = FALSE
    /\ found = [l \in Login |-> FALSE]

----------------------------------------------------------------------------
Ring(r) == config[r].ring

\* The version a request writes: an old writer knows only the legacy one.
Active(r) == IF r \in OldWriter THEN Legacy ELSE config[r].active

\* A process whose active version is not the legacy one is rotation-ready,
\* which it may be only once the old writers are acknowledged as drained.
MayServe(r) == Active(r) # Legacy => drained

Goes(r, to) == step' = [step EXCEPT ![r] = to]

Answers(r, what) == answer' = [answer EXCEPT ![r] = what]

Accounts(n) == {w \in Writer : name[w] = n /\ account[w] # 0}

\* find_by_blind_indexes: the digests under the versions of the ring.
Findable(r) == {w \in Accounts(name[r]) : account[w] \in Ring(r)}

\* has_unsupported_blind_index_versions, of any name.
Unsupported(r) == \E w \in Writer : account[w] # 0 /\ account[w] \notin Ring(r)

Held(r) == {v \in KeyVersion : lock[<<name[r], v>>] = r}

\* Requests of the same name with a write that is not committed.
Pending(r) == {q \in Request \ {r} : name[q] = name[r] /\ step[q] = "commit"}

----------------------------------------------------------------------------
\* The previous release goes

Drain ==
    /\ ~drained
    /\ \A w \in OldWriter : step[w] \in {"idle", "ended"}
    /\ drained' = TRUE
    /\ UNCHANGED <<config, name, step, answer, account, lock, found>>

\* It inserts without a lock or a look.
BeginOldWriter(w) ==
    /\ step[w] = "idle"
    /\ ~drained
    /\ Goes(w, "insert")
    /\ UNCHANGED <<config, name, answer, account, lock, drained, found>>

----------------------------------------------------------------------------
\* The advisory locks

\* Fault: the digests in no order.
AcquireAnyOrder(r) ==
    /\ step[r] = "locking"
    /\ \E v \in Ring(r) \ Held(r) :
          /\ lock[<<name[r], v>>] = NoRequest
          /\ lock' = [lock EXCEPT ![<<name[r], v>>] = r]
          /\ Goes(r, IF Ring(r) # Held(r) \cup {v} THEN "locking"
                     ELSE IF r \in Login THEN "find" ELSE "check")
    /\ UNCHANGED <<config, name, answer, account, drained, found>>

\* Fault: only the digest that is written is locked.
AcquireActiveOnly(r) ==
    /\ step[r] = "locking"
    /\ lock[<<name[r], Active(r)>>] = NoRequest
    /\ lock' = [lock EXCEPT ![<<name[r], Active(r)>>] = r]
    /\ Goes(r, IF r \in Login THEN "find" ELSE "check")
    /\ UNCHANGED <<config, name, answer, account, drained, found>>

\* _lock_identity_indexes: the lowest version that is missing; with the last
\* one the transaction goes on.
Acquire(r) ==
    /\ step[r] = "locking"
    /\ \E v \in Ring(r) \ Held(r) :
          /\ \A u \in Ring(r) \ Held(r) : v <= u
          /\ lock[<<name[r], v>>] = NoRequest
          /\ lock' = [lock EXCEPT ![<<name[r], v>>] = r]
          /\ Goes(r, IF Ring(r) # Held(r) \cup {v} THEN "locking"
                     ELSE IF r \in Login THEN "find" ELSE "check")
    /\ UNCHANGED <<config, name, answer, account, drained, found>>

\* The unit of work closes, with or without a commit: the locks go in the
\* reverse order, and with the last one the request is over.
Release(r) ==
    /\ step[r] = "release"
    /\ IF Held(r) = {}
       THEN UNCHANGED lock
       ELSE \E v \in Held(r) :
               /\ \A u \in Held(r) : u <= v
               /\ lock' = [lock EXCEPT ![<<name[r], v>>] = NoRequest]
    /\ Goes(r, IF Cardinality(Held(r)) > 1 THEN "release" ELSE "ended")
    /\ UNCHANGED <<config, name, answer, account, drained, found>>

----------------------------------------------------------------------------
\* register

BeginRegistration(r) ==
    /\ step[r] = "idle"
    /\ MayServe(r)
    /\ Goes(r, "locking")
    /\ UNCHANGED <<config, name, answer, account, lock, drained, found>>

CheckVersions(r) ==
    /\ step[r] = "check"
    /\ IF Unsupported(r) THEN Goes(r, "release") /\ Answers(r, "unavailable")
                         ELSE Goes(r, "find") /\ UNCHANGED answer
    /\ UNCHANGED <<config, name, account, lock, drained, found>>

\* A locking read: it waits for writes of others to what it looks for.
AwaitWriters(r) ==
    \A q \in Pending(r) : Active(q) \notin Ring(r) /\ (q \in Login => Findable(r) = {})

FindTaken(r) ==
    /\ step[r] = "find"
    /\ AwaitWriters(r)
    /\ IF Findable(r) # {} THEN Goes(r, "release") /\ Answers(r, "conflict")
                           ELSE Goes(r, "insert") /\ UNCHANGED answer
    /\ UNCHANGED <<config, name, account, lock, drained, found>>

\* The unique key of (kind, issuer, digest) waits for an uncommitted row.
Insert(w) ==
    /\ step[w] = "insert"
    /\ \A q \in Pending(w) : Active(q) # Active(w)
    /\ IF \E o \in Accounts(name[w]) : account[o] = Active(w)
       THEN Goes(w, "release") /\ Answers(w, "conflict")
       ELSE Goes(w, "commit") /\ UNCHANGED answer
    /\ UNCHANGED <<config, name, account, lock, drained, found>>

CommitAccount(w) ==
    /\ step[w] = "commit"
    /\ account' = [account EXCEPT ![w] = Active(w)]
    /\ Answers(w, "registered")
    /\ Goes(w, "release")
    /\ UNCHANGED <<config, name, lock, drained, found>>

----------------------------------------------------------------------------
\* authenticate

\* One snapshot: the check of the versions and the account.
BeginLogin(l) ==
    /\ step[l] = "idle"
    /\ MayServe(l)
    /\ found' = [found EXCEPT ![l] = Accounts(name[l]) # {}]
    /\ \/ /\ Unsupported(l)
          /\ Goes(l, "release") /\ Answers(l, "unavailable")
       \/ /\ ~Unsupported(l) /\ Findable(l) = {}
          /\ Goes(l, "release") /\ Answers(l, "refused")
       \/ /\ ~Unsupported(l)
          /\ \E w \in Findable(l) : account[w] = Active(l)
          /\ Goes(l, "release") /\ Answers(l, "authenticated")
       \/ /\ ~Unsupported(l)
          /\ \E w \in Findable(l) : account[w] # Active(l)
          /\ Goes(l, "locking") /\ UNCHANGED answer
    /\ UNCHANGED <<config, name, account, lock, drained>>

\* Fault: behind the locks, the digest of the version read before is looked up
\* once more, which a concurrent login may have replaced.
FindAccountAsSeen(l) ==
    /\ step[l] = "find"
    /\ AwaitWriters(l)
    /\ IF \E w \in Findable(l) : account[w] # Active(l)
       THEN Goes(l, "commit") /\ UNCHANGED answer
       ELSE Goes(l, "release") /\ Answers(l, "refused")
    /\ UNCHANGED <<config, name, account, lock, drained, found>>

\* Behind the locks the account is read again, and for update.
FindAccount(l) ==
    /\ step[l] = "find"
    /\ AwaitWriters(l)
    /\ \/ /\ Findable(l) = {}
          /\ Goes(l, "release") /\ Answers(l, "refused")
       \/ /\ \E w \in Findable(l) : account[w] = Active(l)
          /\ Goes(l, "release") /\ Answers(l, "authenticated")
       \/ /\ \E w \in Findable(l) : account[w] # Active(l)
          /\ Goes(l, "commit") /\ UNCHANGED answer
    /\ UNCHANGED <<config, name, account, lock, drained, found>>

\* update_blind_index: the digest moves to the active version.
CommitReindex(l) ==
    /\ step[l] = "commit"
    /\ \E w \in Findable(l) : account' = [account EXCEPT ![w] = Active(l)]
    /\ Answers(l, "authenticated")
    /\ Goes(l, "release")
    /\ UNCHANGED <<config, name, lock, drained, found>>

----------------------------------------------------------------------------
\* The lock times out, the database fails or the request is cancelled before
\* its commit: the transaction is rolled back and the locks are released.
Abandon(r) ==
    /\ step[r] \in {"locking", "check", "find", "insert", "commit"}
    /\ Goes(r, "release")
    /\ UNCHANGED <<config, name, answer, account, lock, drained, found>>

Proceed(r) ==
    \/ r \in OldWriter /\ BeginOldWriter(r)
    \/ r \in Registration /\ (BeginRegistration(r) \/ CheckVersions(r) \/ FindTaken(r))
    \/ r \in Writer /\ (Insert(r) \/ CommitAccount(r))
    \/ r \in Login /\ (BeginLogin(r) \/ FindAccount(r) \/ CommitReindex(r))
    \/ r \notin OldWriter /\ Acquire(r)
    \/ Release(r)

Next ==
    \/ Drain
    \/ \E r \in Request : Proceed(r) \/ Abandon(r)

Spec == Init /\ [][Next]_vars

\* A process that serves a request runs it to its end.
Fairness == \A r \in Request : WF_vars(step[r] # "idle" /\ Proceed(r))

FairSpec == Spec /\ Fairness

----------------------------------------------------------------------------
\* Properties

\* A name has one account, under whatever version of the key, though processes
\* with different rings and active versions, and writers without locks,
\* register it at the same time and logins move it to another version.
OneAccountPerName ==
    \A v, w \in Writer :
        account[v] # 0 /\ account[w] # 0 /\ name[v] = name[w] => v = w

\* A login is not refused because it raced with another login that moves the
\* account: if the account was there when it began, it is refused only when the
\* account is by then under a version its process has no key for.
AccountIsFound ==
    [][\A l \in Login : answer[l] = "none" /\ answer'[l] = "refused" /\ found'[l] =>
          \E w \in Accounts(name[l]) : account[w] \notin Ring(l)]_vars

\* Nobody waits for ever: no lock is left behind by whoever gave up, and the
\* stable order of the locks needs no timeout to break a circle.
EveryRequestEnds ==
    \A r \in Request : step[r] = "locking" ~> step[r] = "ended"
=============================================================================

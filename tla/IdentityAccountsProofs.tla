----------------------- MODULE IdentityAccountsProofs -----------------------
(***************************************************************************)
(* A name has one account, for any number of requests and names and any    *)
(* rings of key versions that keep the legacy one.  All rings share the    *)
(* legacy version, so its lock makes whoever works on a name alone, but    *)
(* for writers of the previous release; those write the legacy version,    *)
(* and are gone before any other version is written.                       *)
(***************************************************************************)
EXTENDS IdentityAccounts, TLAPS

Locker == Registration \cup Login

Working == {"check", "find", "insert", "commit"}

\* Who works on a name behind the locks holds the one of the legacy version.
LockInv ==
    \A r \in Locker : step[r] \in Working => lock[<<name[r], Legacy>>] = r

\* Before the old writers are drained there is no version but the legacy one,
\* and nobody serves who would write another; afterwards none of them writes.
DrainInv ==
    /\ \A r \in Locker : step[r] # "idle" => MayServe(r)
    /\ \A w \in OldWriter : drained => step[w] \in {"idle", "ended"}
    /\ \A w \in Writer : account[w] \in {0, Legacy} \/ drained

\* What a registration knows of the accounts of its name: after the check, they
\* have versions of its ring; after the look, there are none but those an old
\* writer committed since; before the commit, there are none at all.
InRing(r) == \A w \in Accounts(name[r]) : account[w] \in Ring(r)
OldOnly(r) == \A w \in Accounts(name[r]) : account[w] = Legacy /\ Active(r) = Legacy
NoAccount(r) == Accounts(name[r]) = {}
AbsenceInv ==
    /\ \A r \in Registration : step[r] = "find" => InRing(r)
    /\ \A r \in Registration : step[r] = "insert" => OldOnly(r)
    /\ \A w \in Writer : step[w] = "commit" => NoAccount(w)

\* One of the inserts of a name waits for the other.
InsertInv ==
    \A v, w \in Writer :
        step[v] = "commit" /\ step[w] = "commit" /\ name[v] = name[w] => v = w

\* The steps of the two kinds of writers and of the logins.
StepInv ==
    /\ \A w \in OldWriter : step[w] \notin {"locking", "check", "find"}
    /\ \A l \in Login : step[l] \notin {"check", "insert"}

AccountInv ==
    TypeOK /\ LockInv /\ DrainInv /\ AbsenceInv /\ InsertInv /\ StepInv /\ OneAccountPerName

----------------------------------------------------------------------------
\* Type correctness

\* Sets of requests and versions that the steps rely on.
LEMMA Kinds ==
    /\ Legacy \in KeyVersion /\ Legacy # 0
    /\ \A r \in Locker : r \in Request /\ r \notin OldWriter
    /\ Writer \subseteq Request /\ Login \subseteq Request
    /\ Writer \cap Login = {}
<1>1. Legacy \in KeyVersion /\ Legacy # 0
  <2> PICK c \in Config : TRUE  BY ConfigAssumption
  <2>1. Legacy \in c.ring /\ c.ring \subseteq Nat \ {0}  BY ConfigAssumption
  <2> QED  BY <2>1 DEF KeyVersion
<1> QED  BY <1>1, ConfigAssumption DEF Locker, Request, Writer

\* A process keeps the legacy version and writes one of its ring.
LEMMA Rings ==
    ASSUME TypeOK, NEW r \in Locker
    PROVE  /\ Legacy \in Ring(r) /\ Active(r) \in Ring(r)
           /\ Ring(r) \subseteq KeyVersion
           /\ Ring(r) \subseteq Nat \ {0}
<1>1. PICK c \in Config : c = config[r]  BY DEF TypeOK, Locker
<1>2. Legacy \in c.ring /\ c.active \in c.ring /\ c.ring \subseteq Nat \ {0}
  BY ConfigAssumption
<1>3. r \notin OldWriter  BY Kinds
<1> QED  BY <1>1, <1>2, <1>3 DEF Ring, Active, KeyVersion

\* Before it has run, a request is nowhere; the tables are empty.
LEMMA InitType == Init => TypeOK
<1> QED  BY DEF Init, TypeOK, Step, Answer

\* What a request writes is a version of the key.
LEMMA ActiveIsVersion ==
    ASSUME TypeOK, NEW r \in Request
    PROVE  Active(r) \in KeyVersion /\ Active(r) # 0
<1>1. CASE r \in OldWriter  BY <1>1, Kinds DEF Active
<1>2. CASE r \notin OldWriter
  <2>1. r \in Locker  BY <1>2 DEF Request, Locker
  <2> QED  BY <2>1, Rings
<1> QED  BY <1>1, <1>2

\* A request that goes somewhere leaves the others where they are.
LEMMA StepOf ==
    ASSUME TypeOK, NEW r \in Request, NEW to \in Step, Goes(r, to)
    PROVE  /\ step' \in [Request -> Step]
           /\ step'[r] = to
           /\ \A q \in Request : q # r => step'[q] = step[q]
<1> QED  BY DEF TypeOK, Goes

LEMMA AnswerOf ==
    ASSUME TypeOK, NEW r \in Request, NEW what \in Answer, Answers(r, what)
    PROVE  answer' \in [Request -> Answer]
<1> QED  BY DEF TypeOK, Answers

\* Every step of a request keeps the tables well-formed.
LEMMA TypeStep ==
    ASSUME TypeOK, [Next]_vars
    PROVE  TypeOK'
<1> USE DEF Step, Answer
<1>1. CASE UNCHANGED vars  BY <1>1 DEF TypeOK, vars
<1>2. CASE Drain  BY <1>2 DEF TypeOK, Drain
<1>3. ASSUME NEW r \in Request, Abandon(r)  PROVE TypeOK'
  BY <1>3, StepOf DEF TypeOK, Abandon
<1>4. ASSUME NEW r \in OldWriter, BeginOldWriter(r)  PROVE TypeOK'
  BY <1>4, StepOf DEF TypeOK, BeginOldWriter, Request
<1>5. ASSUME NEW r \in Registration, BeginRegistration(r)  PROVE TypeOK'
  BY <1>5, StepOf DEF TypeOK, BeginRegistration, Request
<1>6. ASSUME NEW r \in Registration, CheckVersions(r)  PROVE TypeOK'
  BY <1>6, StepOf, AnswerOf DEF TypeOK, CheckVersions, Request
<1>7. ASSUME NEW r \in Registration, FindTaken(r)  PROVE TypeOK'
  BY <1>7, StepOf, AnswerOf DEF TypeOK, FindTaken, Request
<1>8. ASSUME NEW r \in Writer, Insert(r)  PROVE TypeOK'
  BY <1>8, StepOf, AnswerOf DEF TypeOK, Insert, Request, Writer
<1>9. ASSUME NEW r \in Writer, CommitAccount(r)  PROVE TypeOK'
  <2>1. r \in Request  BY Kinds
  <2>2. account' \in [Writer -> KeyVersion \cup {0}]
    BY <1>9, <2>1, ActiveIsVersion DEF TypeOK, CommitAccount
  <2> QED  BY <1>9, <2>1, <2>2, StepOf, AnswerOf DEF TypeOK, CommitAccount
<1>10. ASSUME NEW r \in Login, BeginLogin(r)  PROVE TypeOK'
  <2>1. r \in Request  BY Kinds
  <2>2. found' \in [Login -> BOOLEAN]  BY <1>10 DEF TypeOK, BeginLogin
  <2> QED  BY <1>10, <2>1, <2>2, StepOf, AnswerOf DEF TypeOK, BeginLogin
<1>11. ASSUME NEW r \in Login, FindAccount(r)  PROVE TypeOK'
  BY <1>11, StepOf, AnswerOf DEF TypeOK, FindAccount, Request
<1>12. ASSUME NEW r \in Login, CommitReindex(r)  PROVE TypeOK'
  <2>1. r \in Request  BY Kinds
  <2>2. account' \in [Writer -> KeyVersion \cup {0}]
    BY <1>12, <2>1, ActiveIsVersion DEF TypeOK, CommitReindex, Findable, Accounts
  <2> QED  BY <1>12, <2>1, <2>2, StepOf, AnswerOf DEF TypeOK, CommitReindex
<1>13. ASSUME NEW r \in Request, r \notin OldWriter, Acquire(r)  PROVE TypeOK'
  <2>1. r \in Locker  BY <1>13 DEF Request, Locker
  <2>2. PICK v \in Ring(r) : lock' = [lock EXCEPT ![<<name[r], v>>] = r]
    BY <1>13 DEF Acquire
  <2>3. v \in KeyVersion  BY <2>1, <2>2, Rings
  <2>4. lock' \in [Name \X KeyVersion -> Request \cup {NoRequest}]
    BY <2>2, <2>3 DEF TypeOK
  <2> QED  BY <1>13, <2>4, StepOf DEF TypeOK, Acquire
<1>14. ASSUME NEW r \in Request, Release(r)  PROVE TypeOK'
  <2>1. lock' \in [Name \X KeyVersion -> Request \cup {NoRequest}]
    BY <1>14 DEF TypeOK, Release
  <2> QED  BY <1>14, <2>1, StepOf DEF TypeOK, Release
<1> QED
  BY <1>1, <1>2, <1>3, <1>4, <1>5, <1>6, <1>7, <1>8, <1>9, <1>10, <1>11, <1>12,
     <1>13, <1>14 DEF Next, Proceed

----------------------------------------------------------------------------
\* Steps that write no account

\* What a request must know to be at a step.
Knows(r, to) ==
    /\ r \in Locker /\ to # "idle" => MayServe(r)
    /\ r \in OldWriter => to \notin {"locking", "check", "find"}
    /\ r \in OldWriter /\ drained => to \in {"idle", "ended"}
    /\ r \in Login => to \notin {"check", "insert"}
    /\ r \in Registration /\ to = "find" => InRing(r)
    /\ r \in Registration /\ to = "insert" => OldOnly(r)
    /\ r \in Writer /\ to = "commit" =>
         /\ NoAccount(r)
         /\ \A w \in Writer \ {r} : step[w] = "commit" => name[w] # name[r]

\* The legacy locks that are relied on stay where they are.
LocksStay(r, to) ==
    /\ \A q \in Locker \ {r} :
         step[q] \in Working /\ lock[<<name[q], Legacy>>] = q
           => lock'[<<name[q], Legacy>>] = q
    /\ r \in Locker /\ to \in Working => lock'[<<name[r], Legacy>>] = r

LEMMA QuietStep ==
    ASSUME AccountInv, TypeOK', NEW r \in Request, NEW to \in Step, Goes(r, to),
           UNCHANGED <<config, name, account, drained>>,
           Knows(r, to), LocksStay(r, to)
    PROVE  AccountInv'
<1>1. /\ step'[r] = to
      /\ \A q \in Request : q # r => step'[q] = step[q]
  BY StepOf DEF AccountInv
<1>2. /\ \A q \in Request : Ring(q)' = Ring(q) /\ Active(q)' = Active(q)
      /\ \A q \in Request : MayServe(q)' <=> MayServe(q)
      /\ \A q \in Request : /\ InRing(q)' <=> InRing(q)
                            /\ OldOnly(q)' <=> OldOnly(q)
                            /\ NoAccount(q)' <=> NoAccount(q)
  BY DEF Ring, Active, MayServe, Accounts, InRing, OldOnly, NoAccount
<1>3. \A q \in Locker : q \in Request  BY Kinds
<1>4. LockInv'
  BY <1>1, <1>3 DEF AccountInv, LockInv, LocksStay
<1>5. DrainInv'
  BY <1>1, <1>2, <1>3, Kinds DEF AccountInv, DrainInv, Knows, Request
<1>6. AbsenceInv'
  BY <1>1, <1>2, Kinds DEF AccountInv, AbsenceInv, Knows, Request
<1>7. InsertInv'
  BY <1>1, Kinds DEF AccountInv, InsertInv, Knows
<1>8. StepInv'
  BY <1>1 DEF AccountInv, StepInv, Knows, Request
<1>9. OneAccountPerName'
  BY DEF AccountInv, OneAccountPerName
<1> QED  BY <1>4, <1>5, <1>6, <1>7, <1>8, <1>9 DEF AccountInv

\* A request that leaves the locks alone must hold what its next step needs.
LEMMA SameLocks ==
    ASSUME AccountInv, NEW r \in Request, NEW to \in Step, UNCHANGED lock,
           r \in Locker /\ to \in Working => step[r] \in Working
    PROVE  LocksStay(r, to)
<1> QED  BY DEF AccountInv, LockInv, LocksStay

\* Whoever works on a name with locks is alone with it.
LEMMA AloneWithName ==
    ASSUME LockInv, NEW q \in Locker, NEW r \in Locker,
           step[q] \in Working, step[r] \in Working, name[q] = name[r]
    PROVE  q = r
<1> QED  BY DEF LockInv

\* Where no other version was seen, an account has one of the ring.
LEMMA SupportedAreInRing ==
    ASSUME TypeOK, NEW r \in Request, ~Unsupported(r)
    PROVE  InRing(r)
<1> QED  BY DEF Unsupported, Accounts, InRing

\* The steps of requests that take or release locks, look, or give up.
LEMMA LockSteps ==
    ASSUME AccountInv, TypeOK', NEW r \in Request
    PROVE  /\ r \notin OldWriter /\ Acquire(r) => AccountInv'
           /\ Release(r) => AccountInv'
<1> USE DEF Step
<1>1. ASSUME r \notin OldWriter, Acquire(r)  PROVE AccountInv'
  <2>1. r \in Locker /\ step[r] = "locking"  BY <1>1 DEF Request, Locker, Acquire
  <2>2. PICK v \in Ring(r) \ Held(r) :
          /\ lock[<<name[r], v>>] = NoRequest
          /\ lock' = [lock EXCEPT ![<<name[r], v>>] = r]
          /\ Goes(r, IF Ring(r) # Held(r) \cup {v} THEN "locking"
                     ELSE IF r \in Login THEN "find" ELSE "check")
    BY <1>1 DEF Acquire
  <2>3. PICK to \in {"locking", "find", "check"} :
          /\ Goes(r, to)
          /\ to # "locking" => Ring(r) = Held(r) \cup {v}
          /\ to = "find" <=> to # "locking" /\ r \in Login
    BY <2>2
  <2>4. r \in Registration \/ r \in Login  BY <2>1 DEF Locker
  <2>5. Legacy \in Ring(r) /\ v \in KeyVersion /\ Legacy \in KeyVersion
    BY <2>1, <2>2, Rings, Kinds DEF AccountInv
  <2>6. <<name[r], v>> \in Name \X KeyVersion  BY <2>5 DEF AccountInv, TypeOK
  <2>7. LocksStay(r, to)
    <3>1. ASSUME NEW q \in Locker \ {r}, lock[<<name[q], Legacy>>] = q
          PROVE  lock'[<<name[q], Legacy>>] = q
      <4>1. q # NoRequest  BY Kinds, ConfigAssumption
      <4>2. <<name[q], Legacy>> # <<name[r], v>>  BY <2>2, <3>1, <4>1
      <4>3. <<name[q], Legacy>> \in Name \X KeyVersion
        BY <2>5, Kinds DEF AccountInv, TypeOK
      <4> QED  BY <2>2, <3>1, <4>2, <4>3 DEF AccountInv, TypeOK
    <3>2. ASSUME to \in Working  PROVE lock'[<<name[r], Legacy>>] = r
      <4>1. Legacy \in Held(r) \/ Legacy = v  BY <2>3, <2>5, <3>2 DEF Working
      <4>2. CASE Legacy = v  BY <2>2, <2>6, <4>2 DEF AccountInv, TypeOK
      <4>3. CASE Legacy \in Held(r) /\ Legacy # v
        <5>1. lock[<<name[r], Legacy>>] = r  BY <4>3 DEF Held
        <5>2. <<name[r], Legacy>> # <<name[r], v>>  BY <4>3
        <5> QED  BY <2>2, <2>5, <5>1, <5>2 DEF AccountInv, TypeOK
      <4> QED  BY <4>1, <4>2, <4>3
    <3> QED  BY <3>1, <3>2 DEF LocksStay
  <2>8. Knows(r, to)
    <3>1. MayServe(r)  BY <2>1 DEF AccountInv, DrainInv
    <3>2. r \notin OldWriter /\ (r \in Login => r \notin Registration)
      BY <1>1, ConfigAssumption
    <3> QED  BY <2>3, <2>4, <3>1, <3>2 DEF Knows
  <2>9. UNCHANGED <<config, name, account, drained>>  BY <1>1 DEF Acquire
  <2> QED  BY <2>3, <2>7, <2>8, <2>9, QuietStep
<1>2. ASSUME Release(r)  PROVE AccountInv'
  <2>1. step[r] = "release" /\ UNCHANGED <<config, name, account, drained>>
    BY <1>2 DEF Release
  <2>2. PICK to \in {"release", "ended"} : Goes(r, to)  BY <1>2 DEF Release
  <2>3. LocksStay(r, to)
    <3>1. ASSUME NEW q \in Locker \ {r}, lock[<<name[q], Legacy>>] = q
          PROVE  lock'[<<name[q], Legacy>>] = q
      <4>1. CASE UNCHANGED lock  BY <3>1, <4>1
      <4>2. CASE ~ UNCHANGED lock
        <5>1. PICK v \in Held(r) : lock' = [lock EXCEPT ![<<name[r], v>>] = NoRequest]
          BY <1>2, <4>2 DEF Release
        <5>2. lock[<<name[r], v>>] = r  BY <5>1 DEF Held
        <5>3. <<name[q], Legacy>> # <<name[r], v>>  BY <3>1, <5>2
        <5>4. <<name[q], Legacy>> \in Name \X KeyVersion
          BY Kinds DEF AccountInv, TypeOK
        <5> QED  BY <3>1, <5>1, <5>3, <5>4 DEF AccountInv, TypeOK
      <4> QED  BY <4>1, <4>2
    <3> QED  BY <3>1 DEF LocksStay, Working
  <2>4. Knows(r, to)
    <3>1. r \in Locker => MayServe(r)  BY <2>1 DEF AccountInv, DrainInv
    <3>2. r \in OldWriter => ~drained  BY <2>1 DEF AccountInv, DrainInv
    <3> QED  BY <3>1, <3>2 DEF Knows
  <2> QED  BY <2>1, <2>2, <2>3, <2>4, QuietStep
<1> QED  BY <1>1, <1>2

LEMMA WaitingSteps ==
    ASSUME AccountInv, TypeOK', NEW r \in Request
    PROVE  /\ Abandon(r) => AccountInv'
           /\ r \in OldWriter /\ BeginOldWriter(r) => AccountInv'
           /\ r \in Registration /\ BeginRegistration(r) => AccountInv'
<1> USE DEF Step, Working
<1>1. ASSUME Abandon(r)  PROVE AccountInv'
  <2>1. /\ step[r] # "idle" /\ step[r] # "ended" /\ Goes(r, "release")
        /\ UNCHANGED <<config, name, account, lock, drained>>
    BY <1>1 DEF Abandon
  <2>2. Knows(r, "release")  BY <2>1 DEF Knows, AccountInv, DrainInv
  <2> QED  BY <2>1, <2>2, SameLocks, QuietStep
<1>2. ASSUME r \in OldWriter, BeginOldWriter(r)  PROVE AccountInv'
  <2>1. /\ ~drained /\ Goes(r, "insert")
        /\ UNCHANGED <<config, name, account, lock, drained>>
    BY <1>2 DEF BeginOldWriter
  <2>2. r \notin Locker /\ r \notin Registration /\ r \notin Login
    BY <1>2, ConfigAssumption DEF Locker
  <2>3. Knows(r, "insert")  BY <2>1, <2>2 DEF Knows
  <2> QED  BY <2>1, <2>2, <2>3, SameLocks, QuietStep
<1>3. ASSUME r \in Registration, BeginRegistration(r)  PROVE AccountInv'
  <2>1. /\ MayServe(r) /\ Goes(r, "locking")
        /\ UNCHANGED <<config, name, account, lock, drained>>
    BY <1>3 DEF BeginRegistration
  <2>2. r \notin OldWriter  BY <1>3, ConfigAssumption
  <2>3. Knows(r, "locking")  BY <2>1, <2>2 DEF Knows
  <2> QED  BY <2>1, <2>3, SameLocks, QuietStep
<1> QED  BY <1>1, <1>2, <1>3

\* The account that a registration did not find is not there: every version was
\* checked, or is the legacy one.
LEMMA LookSteps ==
    ASSUME AccountInv, TypeOK', NEW r \in Registration
    PROVE  /\ CheckVersions(r) => AccountInv'
           /\ FindTaken(r) => AccountInv'
<1> USE DEF Step, Working
<1> r \in Request /\ r \in Locker /\ r \notin OldWriter /\ r \notin Login
  BY ConfigAssumption DEF Request, Locker
<1>1. ASSUME CheckVersions(r)  PROVE AccountInv'
  <2>1. /\ step[r] = "check"
        /\ UNCHANGED <<config, name, account, lock, drained>>
    BY <1>1 DEF CheckVersions
  <2>2. PICK to \in {"release", "find"} : Goes(r, to) /\ (to = "find" => ~Unsupported(r))
    BY <1>1 DEF CheckVersions
  <2>3. to = "find" => InRing(r)  BY <2>2, SupportedAreInRing DEF AccountInv
  <2>4. MayServe(r)  BY <2>1 DEF AccountInv, DrainInv
  <2>5. Knows(r, to)  BY <2>3, <2>4 DEF Knows
  <2> QED  BY <2>1, <2>2, <2>5, SameLocks, QuietStep
<1>2. ASSUME FindTaken(r)  PROVE AccountInv'
  <2>1. /\ step[r] = "find"
        /\ UNCHANGED <<config, name, account, lock, drained>>
    BY <1>2 DEF FindTaken
  <2>2. PICK to \in {"release", "insert"} : Goes(r, to) /\ (to = "insert" => Findable(r) = {})
    BY <1>2 DEF FindTaken
  <2>3. InRing(r) /\ MayServe(r)
    BY <2>1 DEF AccountInv, AbsenceInv, DrainInv
  <2>4. to = "insert" => OldOnly(r)  BY <2>2, <2>3 DEF InRing, Findable, OldOnly
  <2>5. Knows(r, to)  BY <2>3, <2>4 DEF Knows
  <2> QED  BY <2>1, <2>2, <2>5, SameLocks, QuietStep
<1> QED  BY <1>1, <1>2

\* Who may insert finds no account of the name, under whatever version, and is
\* alone with its uncommitted row.
LEMMA InsertStep ==
    ASSUME AccountInv, TypeOK', NEW r \in Writer, Insert(r)
    PROVE  AccountInv'
<1> USE DEF Step, Working
<1>1. /\ r \in Request /\ r \notin Login  BY Kinds
<1>2. /\ step[r] = "insert"
      /\ UNCHANGED <<config, name, account, lock, drained>>
      /\ \A q \in Pending(r) : Active(q) # Active(r)
  BY DEF Insert
<1>3. PICK to \in {"release", "commit"} :
        /\ Goes(r, to)
        /\ to = "commit" => ~\E o \in Accounts(name[r]) : account[o] = Active(r)
  BY DEF Insert
<1>4. r \in OldWriter => ~drained /\ Active(r) = Legacy
  BY <1>2 DEF AccountInv, DrainInv, Active
<1>5. r \in Locker => MayServe(r)  BY <1>2 DEF AccountInv, DrainInv
<1>6. to = "commit" => NoAccount(r)
  <2>1. CASE r \in OldWriter
    <3>1. \A w \in Accounts(name[r]) : account[w] = Legacy
      BY <1>4, <2>1 DEF AccountInv, DrainInv, Accounts
    <3> QED  BY <1>3, <1>4, <2>1, <3>1 DEF NoAccount
  <2>2. CASE r \in Registration
    <3>1. OldOnly(r)  BY <1>2, <2>2 DEF AccountInv, AbsenceInv
    <3> QED  BY <1>3, <3>1 DEF OldOnly, NoAccount
  <2> QED  BY <2>1, <2>2 DEF Writer
<1>7. \A w \in Writer \ {r} : step[w] = "commit" => name[w] # name[r]
  <2> SUFFICES ASSUME NEW w \in Writer, w # r, step[w] = "commit", name[w] = name[r]
               PROVE FALSE
    OBVIOUS
  <2>1. w \in Request  BY Kinds
  <2>2. Active(w) # Active(r)  BY <1>2, <2>1 DEF Pending
  <2>3. w \in OldWriter => ~drained /\ Active(w) = Legacy
    BY DEF AccountInv, DrainInv, Active
  <2>4. w \in Locker => MayServe(w)  BY DEF AccountInv, DrainInv
  <2>5. w \in Locker /\ r \in Locker => FALSE
    BY <1>2, AloneWithName DEF AccountInv
  <2>6. /\ w \in OldWriter \/ w \in Locker
        /\ r \in OldWriter \/ r \in Locker
    BY DEF Writer, Locker
  <2> QED  BY <1>4, <1>5, <2>2, <2>3, <2>4, <2>5, <2>6 DEF MayServe
<1>8. Knows(r, to)
  BY <1>1, <1>3, <1>4, <1>5, <1>6, <1>7 DEF Knows
<1> QED  BY <1>1, <1>2, <1>3, <1>8, SameLocks, QuietStep

LEMMA LoginSteps ==
    ASSUME AccountInv, TypeOK', NEW r \in Login
    PROVE  /\ BeginLogin(r) => AccountInv'
           /\ FindAccount(r) => AccountInv'
<1> USE DEF Step, Working
<1> /\ r \in Request /\ r \in Locker
    /\ r \notin OldWriter /\ r \notin Registration /\ r \notin Writer
  BY ConfigAssumption DEF Request, Locker, Writer
<1>1. ASSUME BeginLogin(r)  PROVE AccountInv'
  <2>1. MayServe(r) /\ UNCHANGED <<config, name, account, lock, drained>>
    BY <1>1 DEF BeginLogin
  <2>2. PICK to \in {"release", "locking"} : Goes(r, to)  BY <1>1 DEF BeginLogin
  <2>3. Knows(r, to)  BY <2>1 DEF Knows
  <2> QED  BY <2>1, <2>2, <2>3, SameLocks, QuietStep
<1>2. ASSUME FindAccount(r)  PROVE AccountInv'
  <2>1. step[r] = "find" /\ UNCHANGED <<config, name, account, lock, drained>>
    BY <1>2 DEF FindAccount
  <2>2. PICK to \in {"release", "commit"} : Goes(r, to)  BY <1>2 DEF FindAccount
  <2>3. MayServe(r)  BY <2>1 DEF AccountInv, DrainInv
  <2>4. Knows(r, to)  BY <2>3 DEF Knows
  <2> QED  BY <2>1, <2>2, <2>4, SameLocks, QuietStep
<1> QED  BY <1>1, <1>2

----------------------------------------------------------------------------
\* Steps that write an account, and the end of the old writers

\* The step to "release" asks nothing of the one who takes it.
LEMMA AfterCommit ==
    ASSUME AccountInv, TypeOK', NEW r \in Request, step[r] = "commit",
           Goes(r, "release"), UNCHANGED <<config, name, lock, drained>>,
           r \in OldWriter \/ MayServe(r)
    PROVE  /\ LockInv' /\ InsertInv' /\ StepInv'
           /\ \A q \in Locker : step'[q] # "idle" => MayServe(q)'
           /\ \A w \in OldWriter : drained' => step'[w] \in {"idle", "ended"}
           /\ \A q \in Request : step'[q] \in Working => q # r /\ step'[q] = step[q]
<1>1. /\ step'[r] = "release"
      /\ \A q \in Request : q # r => step'[q] = step[q]
  BY StepOf DEF AccountInv, Step
<1>2. \A q \in Request : step'[q] \in Working => q # r /\ step'[q] = step[q]
  BY <1>1 DEF Working
<1>3. \A q \in Request : MayServe(q)' <=> MayServe(q)  BY DEF MayServe, Active
<1>4. r \in OldWriter => ~drained  BY DEF AccountInv, DrainInv
<1>5. LockInv'  BY <1>2, Kinds DEF AccountInv, LockInv
<1>6. InsertInv'
  <2>1. \A w \in Writer : step'[w] = "commit" => step[w] = "commit"
    BY <1>2, Kinds DEF Working
  <2> QED  BY <2>1 DEF AccountInv, InsertInv
<1>7. StepInv'  BY <1>1 DEF AccountInv, StepInv, Request
<1>8. \A q \in Locker : step'[q] # "idle" => MayServe(q)'
  BY <1>1, <1>3, Kinds DEF AccountInv, DrainInv
<1>9. \A w \in OldWriter : drained' => step'[w] \in {"idle", "ended"}
  BY <1>1, <1>4 DEF AccountInv, DrainInv, Request
<1> QED  BY <1>2, <1>5, <1>6, <1>7, <1>8, <1>9

\* Nobody else works on the name of a request that commits, but for old writers
\* and registrations that wait to insert the legacy version.
LEMMA CommitAlone ==
    ASSUME AccountInv, NEW r \in Request, step[r] = "commit",
           NEW q \in Request, q # r, step[q] \in Working, name[q] = name[r]
    PROVE  q \in OldWriter \/ r \in OldWriter
<1> QED  BY AloneWithName DEF AccountInv, Working, Request, Locker

LEMMA CommitAccountStep ==
    ASSUME AccountInv, TypeOK', NEW r \in Writer, CommitAccount(r)
    PROVE  AccountInv'
<1>1. /\ step[r] = "commit" /\ Goes(r, "release")
      /\ account' = [account EXCEPT ![r] = Active(r)]
      /\ UNCHANGED <<config, name, lock, drained>>
  BY DEF CommitAccount
<1>2. r \in Request  BY Kinds
<1>3. PICK a \in KeyVersion \ {0} : a = Active(r)  BY <1>2, ActiveIsVersion DEF AccountInv
<1>4. /\ account'[r] = a
      /\ \A w \in Writer : w # r => account'[w] = account[w]
  BY <1>1, <1>3 DEF AccountInv, TypeOK
<1>5. r \in OldWriter => ~drained /\ a = Legacy
  BY <1>1, <1>3 DEF AccountInv, DrainInv, Active
<1>6. r \notin OldWriter => MayServe(r) /\ r \in Locker
  BY <1>1 DEF AccountInv, DrainInv, Writer, Locker
<1>7. NoAccount(r)  BY <1>1 DEF AccountInv, AbsenceInv
<1>8. /\ LockInv' /\ InsertInv' /\ StepInv'
      /\ \A q \in Locker : step'[q] # "idle" => MayServe(q)'
      /\ \A w \in OldWriter : drained' => step'[w] \in {"idle", "ended"}
      /\ \A q \in Request : step'[q] \in Working => q # r /\ step'[q] = step[q]
  BY <1>1, <1>2, <1>6, AfterCommit
<1>9. DrainInv'
  <2>1. a = Legacy \/ drained  BY <1>3, <1>5, <1>6 DEF MayServe
  <2>2. \A w \in Writer : account'[w] \in {0, Legacy} \/ drained'
    BY <1>1, <1>4, <2>1 DEF AccountInv, DrainInv
  <2> QED  BY <1>8, <2>2 DEF DrainInv
<1>10. \A q \in Request :
          Accounts(name[q])' = Accounts(name[q]) \cup (IF name[q] = name[r] THEN {r} ELSE {})
  BY <1>1, <1>3, <1>4 DEF Accounts
<1>11. AbsenceInv'
  <2>1. ASSUME NEW q \in Registration, step'[q] = "find"  PROVE InRing(q)'
    <3>1. q \in Request /\ q \in Locker /\ q # r /\ step[q] = "find"
      BY <1>8, <2>1 DEF Request, Locker, Working
    <3>2. InRing(q)  BY <2>1, <3>1 DEF AccountInv, AbsenceInv
    <3>3. name[q] = name[r] => a \in Ring(q)
      BY <1>1, <1>2, <1>5, <3>1, CommitAlone, Rings, Kinds DEF AccountInv, Working
    <3>4. \A w \in Accounts(name[q])' : account'[w] \in Ring(q)
      BY <1>4, <1>10, <3>1, <3>2, <3>3 DEF InRing, Accounts
    <3> QED  BY <1>1, <3>4 DEF InRing, Ring, Accounts
  <2>2. ASSUME NEW q \in Registration, step'[q] = "insert"  PROVE OldOnly(q)'
    <3>1. q \in Request /\ q \in Locker /\ q # r /\ step[q] = "insert"
      BY <1>8, <2>2 DEF Request, Locker, Working
    <3>2. OldOnly(q) /\ MayServe(q)
      BY <2>2, <3>1 DEF AccountInv, AbsenceInv, DrainInv
    <3>3. name[q] = name[r] => a = Legacy /\ Active(q) = Legacy
      BY <1>1, <1>2, <1>5, <3>1, <3>2, CommitAlone, Kinds DEF Working, MayServe
    <3>4. \A w \in Accounts(name[q])' : account'[w] = Legacy /\ Active(q) = Legacy
      BY <1>4, <1>10, <3>1, <3>2, <3>3 DEF OldOnly, Accounts
    <3> QED  BY <1>1, <3>4 DEF OldOnly, Active, Accounts
  <2>3. ASSUME NEW w \in Writer, step'[w] = "commit"  PROVE NoAccount(w)'
    <3>1. w \in Request /\ w # r /\ step[w] = "commit"
      BY <1>8, <2>3, Kinds DEF Working
    <3>2. NoAccount(w) /\ name[w] # name[r]
      BY <1>1, <3>1 DEF AccountInv, AbsenceInv, InsertInv
    <3>3. Accounts(name[w])' = {}  BY <1>10, <3>1, <3>2 DEF NoAccount
    <3> QED  BY <1>1, <3>3 DEF NoAccount, Accounts
  <2> QED  BY <2>1, <2>2, <2>3 DEF AbsenceInv
<1>12. OneAccountPerName'
  BY <1>1, <1>4, <1>7 DEF AccountInv, OneAccountPerName, NoAccount, Accounts
<1> QED  BY <1>8, <1>9, <1>11, <1>12 DEF AccountInv

LEMMA CommitReindexStep ==
    ASSUME AccountInv, TypeOK', NEW r \in Login, CommitReindex(r)
    PROVE  AccountInv'
<1>1. /\ step[r] = "commit" /\ Goes(r, "release")
      /\ UNCHANGED <<config, name, lock, drained>>
  BY DEF CommitReindex
<1>2. r \in Request /\ r \in Locker /\ r \notin OldWriter
  BY ConfigAssumption DEF Request, Locker
<1>3. PICK a \in KeyVersion \ {0} : a = Active(r)  BY <1>2, ActiveIsVersion DEF AccountInv
<1>4. PICK o \in Findable(r) : account' = [account EXCEPT ![o] = a]
  BY <1>3 DEF CommitReindex
<1>5. o \in Writer /\ name[o] = name[r] /\ account[o] # 0
  BY <1>4 DEF Findable, Accounts
<1>6. /\ account'[o] = a
      /\ \A w \in Writer : w # o => account'[w] = account[w]
  BY <1>4, <1>5 DEF AccountInv, TypeOK
<1>7. MayServe(r)  BY <1>1, <1>2 DEF AccountInv, DrainInv
<1>8. /\ LockInv' /\ InsertInv' /\ StepInv'
      /\ \A q \in Locker : step'[q] # "idle" => MayServe(q)'
      /\ \A w \in OldWriter : drained' => step'[w] \in {"idle", "ended"}
      /\ \A q \in Request : step'[q] \in Working => q # r /\ step'[q] = step[q]
  BY <1>1, <1>2, <1>7, AfterCommit
<1>9. DrainInv'
  <2>1. a = Legacy \/ drained  BY <1>3, <1>7 DEF MayServe
  <2>2. \A w \in Writer : account'[w] \in {0, Legacy} \/ drained'
    BY <1>1, <1>6, <2>1 DEF AccountInv, DrainInv
  <2> QED  BY <1>8, <2>2 DEF DrainInv
<1>10. \A q \in Request : Accounts(name[q])' = Accounts(name[q])
  BY <1>1, <1>3, <1>5, <1>6 DEF Accounts
<1>11. ASSUME NEW q \in Request, step'[q] \in Working, q \in Locker
       PROVE  name[q] # name[r]
  BY <1>1, <1>2, <1>8, <1>11, CommitAlone, Kinds DEF Working
<1>12. ASSUME NEW q \in Request, name[q] # name[r], NEW w \in Accounts(name[q])
       PROVE  account'[w] = account[w]
  BY <1>5, <1>6, <1>12 DEF Accounts
<1>13. AbsenceInv'
  <2>1. ASSUME NEW q \in Registration, step'[q] = "find"  PROVE InRing(q)'
    <3>1. q \in Request /\ q \in Locker /\ step[q] = "find" /\ name[q] # name[r]
      BY <1>8, <1>11, <2>1 DEF Request, Locker, Working
    <3>2. InRing(q)  BY <2>1, <3>1 DEF AccountInv, AbsenceInv
    <3>3. \A w \in Accounts(name[q])' : account'[w] \in Ring(q)
      BY <1>10, <1>12, <3>1, <3>2 DEF InRing
    <3> QED  BY <1>1, <3>3 DEF InRing, Ring, Accounts
  <2>2. ASSUME NEW q \in Registration, step'[q] = "insert"  PROVE OldOnly(q)'
    <3>1. q \in Request /\ q \in Locker /\ step[q] = "insert" /\ name[q] # name[r]
      BY <1>8, <1>11, <2>2 DEF Request, Locker, Working
    <3>2. OldOnly(q)  BY <2>2, <3>1 DEF AccountInv, AbsenceInv
    <3>3. \A w \in Accounts(name[q])' : account'[w] = Legacy /\ Active(q) = Legacy
      BY <1>10, <1>12, <3>1, <3>2 DEF OldOnly
    <3> QED  BY <1>1, <3>3 DEF OldOnly, Active, Accounts
  <2>3. ASSUME NEW w \in Writer, step'[w] = "commit"  PROVE NoAccount(w)'
    <3>1. w \in Request /\ step[w] = "commit"  BY <1>8, <2>3, Kinds DEF Working
    <3>2. NoAccount(w)  BY <3>1 DEF AccountInv, AbsenceInv
    <3>3. Accounts(name[w])' = {}  BY <1>10, <3>1, <3>2 DEF NoAccount
    <3> QED  BY <1>1, <3>3 DEF NoAccount, Accounts
  <2> QED  BY <2>1, <2>2, <2>3 DEF AbsenceInv
<1>14. OneAccountPerName'
  BY <1>1, <1>5, <1>6 DEF AccountInv, OneAccountPerName
<1> QED  BY <1>8, <1>9, <1>13, <1>14 DEF AccountInv

LEMMA DrainStep ==
    ASSUME AccountInv, TypeOK', Drain
    PROVE  AccountInv'
<1>1. /\ drained' = TRUE /\ UNCHANGED <<config, name, step, answer, account, lock, found>>
      /\ \A w \in OldWriter : step[w] \in {"idle", "ended"}
  BY DEF Drain
<1>2. LockInv'  BY <1>1 DEF AccountInv, LockInv
<1>3. DrainInv'  BY <1>1 DEF DrainInv, MayServe
<1>4. AbsenceInv'
  BY <1>1 DEF AccountInv, AbsenceInv, InRing, OldOnly, NoAccount, Accounts, Ring, Active
<1>5. InsertInv' /\ StepInv' /\ OneAccountPerName'
  BY <1>1 DEF AccountInv, InsertInv, StepInv, OneAccountPerName
<1> QED  BY <1>2, <1>3, <1>4, <1>5 DEF AccountInv

----------------------------------------------------------------------------
\* The invariant and the property

LEMMA InitAccounts == Init => AccountInv
<1> SUFFICES ASSUME Init PROVE AccountInv  OBVIOUS
<1>1. TypeOK  BY InitType
<1>2. \A r \in Request : step[r] = "idle"  BY DEF Init
<1>3. \A w \in Writer : account[w] = 0  BY DEF Init
<1>4. LockInv /\ InsertInv /\ StepInv
  BY <1>2, Kinds DEF LockInv, InsertInv, StepInv, Working, Request
<1>5. DrainInv  BY <1>2, <1>3, Kinds DEF DrainInv, Request
<1>6. AbsenceInv  BY <1>2, Kinds DEF AbsenceInv, Request
<1>7. OneAccountPerName  BY <1>3 DEF OneAccountPerName
<1> QED  BY <1>1, <1>4, <1>5, <1>6, <1>7 DEF AccountInv

LEMMA AccountStep ==
    ASSUME AccountInv, [Next]_vars
    PROVE  AccountInv'
<1>1. TypeOK'  BY TypeStep DEF AccountInv
<1>2. CASE UNCHANGED vars
  <2>1. UNCHANGED <<config, name, step, account, lock, drained>>  BY <1>2 DEF vars
  <2> QED
    BY <1>1, <2>1 DEF AccountInv, LockInv, DrainInv, AbsenceInv, InsertInv, StepInv,
       OneAccountPerName, InRing, OldOnly, NoAccount, Accounts, Ring, Active, MayServe
<1>3. CASE Drain  BY <1>1, <1>3, DrainStep
<1>4. ASSUME NEW r \in Request, Proceed(r) \/ Abandon(r)  PROVE AccountInv'
  BY <1>1, <1>4, LockSteps, WaitingSteps, LookSteps, InsertStep, LoginSteps,
     CommitAccountStep, CommitReindexStep DEF Proceed
<1> QED  BY <1>2, <1>3, <1>4 DEF Next

\* Locks, the drain of the old writers and what a registration has seen keep
\* fitting together, whoever waits, gives up or is overtaken.
THEOREM AccountsCorrect == Spec => []AccountInv
<1> QED  BY InitAccounts, AccountStep, PTL DEF Spec

\* A name has one account, for any rings that share the legacy version.
THEOREM NamesAreUnique == Spec => []OneAccountPerName
<1>1. AccountInv => OneAccountPerName  BY DEF AccountInv
<1> QED  BY <1>1, AccountsCorrect, PTL

----------------------------------------------------------------------------
\* What a login is told

\* An account that was there is there, under whatever version.
FoundInv == TypeOK /\ \A l \in Login : found[l] => Accounts(name[l]) # {}

\* No step takes an account away or a name from its request.
LEMMA AccountsStay ==
    ASSUME TypeOK, Next
    PROVE  /\ name' = name
           /\ \A l \in Login : Accounts(name[l]) \subseteq Accounts(name[l])'
<1>1. CASE Drain  BY <1>1 DEF Drain, Accounts
<1>2. ASSUME NEW r \in Request, Proceed(r) \/ Abandon(r)
      PROVE  name' = name /\ \A w \in Writer : account[w] # 0 => account'[w] # 0
  <2>1. CASE UNCHANGED <<name, account>>  BY <2>1
  <2>2. ASSUME r \in Writer, CommitAccount(r)
        PROVE  name' = name /\ \A w \in Writer : account[w] # 0 => account'[w] # 0
    <3>1. PICK a \in KeyVersion : a = Active(r) /\ a # 0  BY ActiveIsVersion
    <3> QED  BY <2>2, <3>1 DEF TypeOK, CommitAccount
  <2>3. ASSUME r \in Login, CommitReindex(r)
        PROVE  name' = name /\ \A w \in Writer : account[w] # 0 => account'[w] # 0
    <3>1. PICK a \in KeyVersion : a = Active(r) /\ a # 0  BY ActiveIsVersion
    <3>2. PICK o \in Findable(r) : account' = [account EXCEPT ![o] = a]
      BY <2>3, <3>1 DEF CommitReindex
    <3> QED  BY <2>3, <3>1, <3>2 DEF TypeOK, CommitReindex
  <2> QED
    BY <1>2, <2>1, <2>2, <2>3 DEF Proceed, Abandon, BeginOldWriter, BeginRegistration,
       CheckVersions, FindTaken, Insert, BeginLogin, FindAccount, Acquire, Release
<1> QED  BY <1>1, <1>2 DEF Next, Accounts

LEMMA FoundStep ==
    ASSUME FoundInv, [Next]_vars
    PROVE  FoundInv'
<1>1. TypeOK'  BY TypeStep DEF FoundInv
<1>2. CASE UNCHANGED vars  BY <1>1, <1>2 DEF vars, FoundInv, Accounts
<1>3. CASE Next
  <2>1. /\ name' = name
        /\ \A l \in Login : Accounts(name[l]) \subseteq Accounts(name[l])'
    BY <1>3, AccountsStay DEF FoundInv
  <2>2. \A l \in Login : found'[l] => found[l] \/ Accounts(name[l]) # {}
    <3>1. CASE UNCHANGED found  BY <3>1
    <3>2. ASSUME NEW r \in Login, BeginLogin(r)
          PROVE  \A l \in Login : found'[l] => found[l] \/ Accounts(name[l]) # {}
      BY <3>2 DEF FoundInv, TypeOK, BeginLogin
    <3> QED
      BY <1>3, <3>1, <3>2 DEF Next, Proceed, Drain, Abandon, BeginOldWriter,
         BeginRegistration, CheckVersions, FindTaken, Insert, CommitAccount, FindAccount,
         CommitReindex, Acquire, Release
  <2>3. \A l \in Login : found'[l] => Accounts(name[l])' # {}
    BY <2>1, <2>2 DEF FoundInv
  <2> QED  BY <1>1, <2>3 DEF FoundInv
<1> QED  BY <1>2, <1>3

\* Only a login that looked answers itself, and it is refused over an account
\* that was there only where its process lacks the version.
LEMMA RefusalStep ==
    ASSUME FoundInv, Next, NEW l \in Login,
           answer[l] = "none", answer'[l] = "refused", found'[l]
    PROVE  \E w \in Accounts(name[l]) : account[w] \notin Ring(l)
<1> DEFINE Goal == \E w \in Accounts(name[l]) : account[w] \notin Ring(l)
<1>1. answer' # answer  OBVIOUS
<1>2. ASSUME NEW r \in Request, NEW what \in Answer, Answers(r, what),
             r = l => what # "refused"
      PROVE  FALSE
  BY <1>2, Kinds DEF FoundInv, TypeOK, Answers
<1> ~Answers(l, "unavailable") /\ ~Answers(l, "authenticated")
  BY Kinds DEF FoundInv, TypeOK, Answers
<1>3. ASSUME NEW r \in Login, BeginLogin(r)  PROVE Goal
  <2>1. CASE r = l
    <3>1. Accounts(name[l]) # {}  BY <1>3, <2>1 DEF FoundInv, TypeOK, BeginLogin
    <3>2. Answers(l, "unavailable") \/ Answers(l, "authenticated") \/ UNCHANGED answer
          \/ (~Unsupported(l) /\ Findable(l) = {})
      BY <1>3, <2>1 DEF BeginLogin
    <3>3. ~Unsupported(l) /\ Findable(l) = {}
      BY <1>1, <3>2, Zenon
    <3> QED  BY <3>1, <3>3 DEF Findable
  <2>2. CASE r # l
    <3>1. PICK what \in Answer : Answers(r, what)
      BY <1>1, <1>3, Zenon DEF BeginLogin, Answer
    <3> QED  BY <1>2, <2>2, <3>1, Kinds
  <2> QED  BY <2>1, <2>2
<1>4. ASSUME NEW r \in Login, FindAccount(r)  PROVE Goal
  <2>1. CASE r = l
    <3>1. Accounts(name[l]) # {}  BY <1>4 DEF FoundInv, FindAccount
    <3>2. Answers(l, "authenticated") \/ UNCHANGED answer \/ Findable(l) = {}
      BY <1>4, <2>1 DEF FindAccount
    <3>3. Findable(l) = {}  BY <1>1, <3>2, Zenon
    <3> QED  BY <3>1, <3>3 DEF Findable
  <2>2. CASE r # l
    <3>1. PICK what \in Answer : Answers(r, what)
      BY <1>1, <1>4, Zenon DEF FindAccount, Answer
    <3> QED  BY <1>2, <2>2, <3>1, Kinds
  <2> QED  BY <2>1, <2>2
<1>5. ASSUME NEW r \in Login, CommitReindex(r)  PROVE Goal
  BY <1>2, <1>5, Kinds DEF CommitReindex, Answer
<1>6. ASSUME NEW r \in Writer,
             CheckVersions(r) \/ FindTaken(r) \/ Insert(r) \/ CommitAccount(r)
      PROVE  Goal
  <2>1. UNCHANGED answer \/ \E what \in Answer : Answers(r, what)
    BY <1>6 DEF CheckVersions, FindTaken, Insert, CommitAccount, Answer
  <2> QED  BY <1>1, <1>2, <2>1, Kinds
<1> QED
  BY <1>1, <1>3, <1>4, <1>5, <1>6 DEF Next, Proceed, Drain, Abandon, BeginOldWriter,
     BeginRegistration, Acquire, Release, Writer

\* A login is refused over an account that was there only for want of a key.
THEOREM AccountsAreFound == Spec => AccountIsFound
<1>1. Init => FoundInv  BY InitType DEF Init, FoundInv
<1>2. FoundInv /\ [Next]_vars =>
        [\A l \in Login : answer[l] = "none" /\ answer'[l] = "refused" /\ found'[l] =>
            \E w \in Accounts(name[l]) : account[w] \notin Ring(l)]_vars
  BY RefusalStep
<1> QED  BY <1>1, <1>2, FoundStep, PTL DEF Spec, AccountIsFound
=============================================================================

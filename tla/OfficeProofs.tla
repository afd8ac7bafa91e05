---------------------------- MODULE OfficeProofs ----------------------------
(***************************************************************************)
(* Proofs about the smaller parts of the server: sign-in (the lock-out     *)
(* against guessing), permissions (how soon one that was taken away is     *)
(* refused), reminders, imports and document numbers; and the types of all *)
(* parts.                                                                  *)
(***************************************************************************)
EXTENDS FileStoreProofs, CreditProofs, FiniteSetTheorems

(* -------------------------------- sign-in ------------------------------- *)

\* A step of the server moves sign-in by one of its own steps or not at all.
LEMMA SignInRuns == [OfficeNext]_officeVars => [SignInNext]_signInVars
  BY DEF OfficeNext, officeVars, OfSignIn, OfAccess, OfCredit, OfImports, OfFiles, OfReminders,
         OfNumbers

\* Sign-ins of user u that have counted a failure too many and are about to lock.
Locking(u) == {p \in Logins : login[p].at = "lock" /\ login[p].user = u}

\* The counter of an account is the number of wrong passwords since it was last cleared.  Past
\* the limit each of them left a sign-in that will lock the account, or was lost on the way
\* to it.  A password that is being compared was admitted when no lock was in force.
SignInInv ==
  /\ SignInTypeOK
  /\ clock \in Nat /\ crashes \in Nat
  /\ guesses = [u \in Users |-> accounts[u].failed]
  /\ \A u \in Users :
       /\ accounts[u].failed < MaxFailed + Cardinality(Locking(u)) + crashes
       /\ accounts[u].lockedUntil <= clock + LockTicks
  /\ \A p \in Logins :
       /\ login[p].at # "idle" => login[p].user \in Users
       /\ login[p].at = "compare" => login[p].lockedUntil <= clock

LEMMA LockingFinite ==
  ASSUME NEW u
  PROVE  IsFiniteSet(Locking(u)) /\ Cardinality(Locking(u)) \in Nat
         /\ Cardinality(Locking(u)) <= Cardinality(Logins) /\ Cardinality(Logins) \in Nat
<1>1. Locking(u) \subseteq Logins
  BY DEF Locking
<1> QED
  BY <1>1, FS_Subset, FS_CardinalityType, SignInAssumption

LEMMA SignInStarts == SignInInit => SignInInv
<1> SUFFICES ASSUME SignInInit PROVE SignInInv
  OBVIOUS
<1>1. SignInTypeOK /\ clock \in Nat /\ crashes \in Nat
  BY DEF SignInInit, SignInTypeOK, NoLogin
<1>2. guesses = [u \in Users |-> accounts[u].failed]
  BY DEF SignInInit
<1>3. ASSUME NEW u \in Users
      PROVE  /\ accounts[u].failed < MaxFailed + Cardinality(Locking(u)) + crashes
             /\ accounts[u].lockedUntil <= clock + LockTicks
  BY LockingFinite, SignInAssumption DEF SignInInit
<1>4. ASSUME NEW p \in Logins
      PROVE  login[p].at = "idle"
  BY DEF SignInInit, NoLogin
<1> QED
  BY <1>1, <1>2, <1>3, <1>4 DEF SignInInv

\* How many sign-ins of user u are about to lock after sign-in p has moved to r.
LEMMA LockingMoves ==
  ASSUME SignInTypeOK, NEW p \in Logins, NEW r, login' = [login EXCEPT ![p] = r], NEW u
  PROVE  LET falls == r.at = "lock" /\ r.user = u
         IN /\ falls /\ p \notin Locking(u) =>
                 Cardinality(Locking(u)') = Cardinality(Locking(u)) + 1
            /\ ~falls /\ p \in Locking(u) =>
                 Cardinality(Locking(u)') = Cardinality(Locking(u)) - 1
            /\ ~falls /\ p \notin Locking(u) => Locking(u)' = Locking(u)
<1> DEFINE falls == r.at = "lock" /\ r.user = u
<1>1. login'[p] = r /\ \A q \in Logins \ {p} : login'[q] = login[q]
  BY DEF SignInTypeOK
<1>2. CASE falls /\ p \notin Locking(u)
  <2>1. Locking(u)' = Locking(u) \union {p}
    BY <1>1, <1>2 DEF Locking
  <2> QED
    BY <2>1, <1>2, LockingFinite, FS_AddElement
<1>3. CASE ~falls /\ p \in Locking(u)
  <2>1. Locking(u)' = Locking(u) \ {p}
    BY <1>1, <1>3 DEF Locking
  <2> QED
    BY <2>1, <1>3, LockingFinite, FS_RemoveElement
<1>4. CASE ~falls /\ p \notin Locking(u)
  BY <1>1, <1>4 DEF Locking
<1> QED
  BY <1>2, <1>3, <1>4

\* A sign-in that begins or ends without touching its account leaves the rest as it was.
LEMMA BeginLoginStep ==
  ASSUME SignInInv, NEW p \in Logins, BeginLogin(p)
  PROVE  SignInInv'
<1>1. PICK u \in Users :
        /\ ~Locked(u)
        /\ login' = [login EXCEPT ![p] = [at |-> "compare", user |-> u,
                                           failed |-> accounts[u].failed,
                                           lockedUntil |-> accounts[u].lockedUntil]]
  BY DEF BeginLogin
<1>2. UNCHANGED <<accounts, clock, guesses, crashes>> /\ login[p].at = "idle"
  BY DEF BeginLogin
<1>3. \A q \in Logins : q # p => login'[q] = login[q]
  BY <1>1 DEF SignInInv, SignInTypeOK
<1>4. login'[p] = [at |-> "compare", user |-> u, failed |-> accounts[u].failed,
                   lockedUntil |-> accounts[u].lockedUntil]
  BY <1>1 DEF SignInInv, SignInTypeOK
<1>5. accounts[u].failed \in Nat /\ accounts[u].lockedUntil \in Nat /\ accounts[u].lockedUntil <= clock
  BY <1>1 DEF SignInInv, SignInTypeOK, Locked
<1>6. SignInTypeOK'
  BY <1>1, <1>2, <1>5 DEF SignInInv, SignInTypeOK
<1>7. \A v : Locking(v)' = Locking(v)
  BY <1>2, <1>3, <1>4 DEF Locking
<1> QED
  BY <1>2, <1>3, <1>4, <1>5, <1>6, <1>7 DEF SignInInv

LEMMA LoginAbortStep ==
  ASSUME SignInInv, NEW p \in Logins, LoginAbort(p)
  PROVE  SignInInv'
<1>1. /\ login' = [login EXCEPT ![p] = NoLogin] /\ UNCHANGED <<accounts, clock, guesses>>
      /\ crashes' = IF login[p].at = "lock" THEN crashes + 1 ELSE crashes
  BY DEF LoginAbort
<1>2. crashes' \in Nat /\ crashes' >= crashes
  BY <1>1 DEF SignInInv
<1>3. login'[p] = NoLogin /\ \A q \in Logins : q # p => login'[q] = login[q]
  BY <1>1 DEF SignInInv, SignInTypeOK
<1>4. SignInTypeOK'
  BY <1>1 DEF SignInInv, SignInTypeOK, NoLogin
<1>5. ASSUME NEW u \in Users
      PROVE  accounts'[u].failed < MaxFailed + Cardinality(Locking(u)') + crashes'
  <2>1. /\ p \in Locking(u) => Cardinality(Locking(u)') = Cardinality(Locking(u)) - 1
        /\ p \notin Locking(u) => Locking(u)' = Locking(u)
    <3>1. NoLogin.at # "lock" /\ SignInTypeOK
      BY DEF NoLogin, SignInInv
    <3> QED
      BY <1>1, <3>1, LockingMoves
  <2>2. accounts[u].failed \in Nat /\ accounts[u].failed < MaxFailed + Cardinality(Locking(u)) + crashes
    BY DEF SignInInv, SignInTypeOK
  <2>3. p \in Locking(u) => crashes' = crashes + 1
    BY <1>1 DEF Locking
  <2> QED
    BY <2>1, <2>2, <2>3, <1>1, <1>2, LockingFinite, SignInAssumption DEF SignInInv
<1> QED
  BY <1>1, <1>2, <1>3, <1>4, <1>5 DEF SignInInv, NoLogin

\* A wrong password past the limit sends its sign-in to lock the account.
LEMMA WrongPasswordStep ==
  ASSUME SignInInv, NEW p \in Logins, WrongPassword(p)
  PROVE  SignInInv'
<1> DEFINE u == login[p].user
           n == accounts[u].failed + 1
           r == IF n >= MaxFailed THEN [login[p] EXCEPT !.at = "lock"] ELSE NoLogin
<1>1. /\ login[p].at = "compare" /\ accounts' = [accounts EXCEPT ![u].failed = n]
      /\ guesses' = [guesses EXCEPT ![u] = @ + 1] /\ login' = [login EXCEPT ![p] = r]
      /\ UNCHANGED <<clock, crashes>>
  BY DEF WrongPassword, CountFailure
<1>2. u \in Users /\ n \in Nat /\ accounts[u].failed \in Nat
  BY <1>1 DEF SignInInv, SignInTypeOK
<1>3. /\ n >= MaxFailed => r.at = "lock" /\ r.user = u
      /\ n < MaxFailed => r = NoLogin
      /\ r \in [at : {"idle", "compare", "lock"}, user : Users \union {None}, failed : Nat,
                lockedUntil : Nat]
      /\ r.at # "compare" /\ (r.at # "idle" => r.user = u)
  BY <1>2, SignInAssumption DEF SignInInv, SignInTypeOK, NoLogin
<1>4. login'[p] = r /\ \A q \in Logins : q # p => login'[q] = login[q]
  BY <1>1 DEF SignInInv, SignInTypeOK
<1>5. /\ accounts'[u].failed = n /\ accounts'[u].lockedUntil = accounts[u].lockedUntil
      /\ \A v \in Users : v # u => accounts'[v] = accounts[v]
      /\ accounts' \in [Users -> [active : BOOLEAN, failed : Nat, lockedUntil : Nat]]
  BY <1>1, <1>2 DEF SignInInv, SignInTypeOK
<1> HIDE DEF r
<1>6. SignInTypeOK'
  BY <1>1, <1>3, <1>5 DEF SignInInv, SignInTypeOK
<1>7. guesses' = [v \in Users |-> accounts'[v].failed]
  BY <1>1, <1>2, <1>5 DEF SignInInv
<1>8. ASSUME NEW v \in Users
      PROVE  accounts'[v].failed < MaxFailed + Cardinality(Locking(v)') + crashes'
  <2>1. p \notin Locking(v)
    BY <1>1 DEF Locking
  <2>2. /\ r.at = "lock" /\ r.user = v => Cardinality(Locking(v)') = Cardinality(Locking(v)) + 1
        /\ ~(r.at = "lock" /\ r.user = v) => Locking(v)' = Locking(v)
    BY <1>1, <2>1, LockingMoves DEF SignInInv
  <2>3. accounts[v].failed \in Nat /\ accounts[v].failed < MaxFailed + Cardinality(Locking(v)) + crashes
    BY DEF SignInInv, SignInTypeOK
  <2>4. CASE v = u /\ n >= MaxFailed
    BY <2>2, <2>3, <2>4, <1>1, <1>3, <1>5, LockingFinite, SignInAssumption DEF SignInInv
  <2>5. CASE v = u /\ n < MaxFailed
    <3>1. Locking(v)' = Locking(v)
      BY <2>2, <2>5, <1>3 DEF NoLogin
    <3> QED
      BY <3>1, <2>5, <1>1, <1>2, <1>5, LockingFinite, SignInAssumption DEF SignInInv
  <2>6. CASE v # u
    <3>1. Locking(v)' = Locking(v)
      BY <2>2, <2>6, <1>3 DEF NoLogin
    <3> QED
      BY <3>1, <2>3, <2>6, <1>1, <1>5
  <2> QED
    BY <2>4, <2>5, <2>6, <1>2, SignInAssumption
<1>9. \A v \in Users : accounts'[v].lockedUntil <= clock' + LockTicks
  BY <1>1, <1>5 DEF SignInInv
<1> QED
  BY <1>1, <1>2, <1>3, <1>4, <1>6, <1>7, <1>8, <1>9 DEF SignInInv

\* Clearing the counter of an account, by the lock or by a right password, clears the guesses
\* with it; the sign-ins that are still about to lock are counted for nothing.
LEMMA ClearedStep ==
  ASSUME SignInInv, NEW p \in Logins, login[p].user \in Users, NEW until \in Nat,
         accounts' = [accounts EXCEPT ![login[p].user].failed = 0,
                                      ![login[p].user].lockedUntil = until],
         guesses' = [guesses EXCEPT ![login[p].user] = 0],
         login' = [login EXCEPT ![p] = NoLogin],
         UNCHANGED <<clock, crashes>>,
         until <= clock + LockTicks,
         \A v \in Users : v # login[p].user => p \notin Locking(v)
  PROVE  SignInInv'
<1> DEFINE u == login[p].user
<1>1. /\ accounts' \in [Users -> [active : BOOLEAN, failed : Nat, lockedUntil : Nat]]
      /\ accounts'[u].failed = 0 /\ accounts'[u].lockedUntil = until
      /\ \A v \in Users : v # u => accounts'[v] = accounts[v]
  BY DEF SignInInv, SignInTypeOK
<1>2. login'[p] = NoLogin /\ \A q \in Logins : q # p => login'[q] = login[q]
  BY DEF SignInInv, SignInTypeOK
<1>3. SignInTypeOK'
  BY <1>1 DEF SignInInv, SignInTypeOK, NoLogin
<1>4. guesses' = [v \in Users |-> accounts'[v].failed]
  BY <1>1 DEF SignInInv
<1>5. ASSUME NEW v \in Users
      PROVE  accounts'[v].failed < MaxFailed + Cardinality(Locking(v)') + crashes'
  <2>1. NoLogin.at # "lock" /\ SignInTypeOK
    BY DEF NoLogin, SignInInv
  <2>2. /\ p \in Locking(v) => Cardinality(Locking(v)') = Cardinality(Locking(v)) - 1
        /\ p \notin Locking(v) => Locking(v)' = Locking(v)
    BY <2>1, LockingMoves
  <2>3. CASE v = u
    <3>1. p \in Locking(v) => Cardinality(Locking(v)) > 0
      BY LockingFinite, FS_EmptySet
    <3> QED
      BY <2>2, <2>3, <3>1, <1>1, LockingFinite, SignInAssumption DEF SignInInv
  <2>4. CASE v # u
    BY <2>2, <2>4, <1>1 DEF SignInInv
  <2> QED
    BY <2>3, <2>4
<1>6. \A v \in Users : accounts'[v].lockedUntil <= clock' + LockTicks
  BY <1>1 DEF SignInInv
<1>7. \A q \in Logins :
        /\ login'[q].at # "idle" => login'[q].user \in Users
        /\ login'[q].at = "compare" => login'[q].lockedUntil <= clock'
  BY <1>2 DEF SignInInv, NoLogin
<1> QED
  BY <1>3, <1>4, <1>5, <1>6, <1>7 DEF SignInInv

LEMMA LockAccountStep ==
  ASSUME SignInInv, NEW p \in Logins, LockAccount(p)
  PROVE  SignInInv'
<1>1. login[p].at = "lock" /\ login[p].user \in Users
  BY DEF LockAccount, SignInInv
<1>2. clock + LockTicks \in Nat
  BY SignInAssumption DEF SignInInv
<1>3. \A v \in Users : v # login[p].user => p \notin Locking(v)
  BY DEF Locking
<1>4. /\ accounts' = [accounts EXCEPT ![login[p].user].failed = 0,
                                       ![login[p].user].lockedUntil = clock + LockTicks]
      /\ guesses' = [guesses EXCEPT ![login[p].user] = 0]
      /\ login' = [login EXCEPT ![p] = NoLogin]
      /\ UNCHANGED <<clock, crashes>>
  BY DEF LockAccount
<1>5. clock + LockTicks <= clock + LockTicks
  BY <1>2
<1> QED
  BY <1>1, <1>2, <1>3, <1>4, <1>5, ClearedStep

LEMMA RightPasswordStep ==
  ASSUME SignInInv, NEW p \in Logins, RightPassword(p)
  PROVE  SignInInv'
<1>1. login[p].at = "compare" /\ login[p].user \in Users
  BY DEF RightPassword, SignInInv
<1>2. \A v \in Users : p \notin Locking(v)
  BY <1>1 DEF Locking
<1>3. CASE login[p].failed > 0 \/ login[p].lockedUntil # 0
  <2>1. 0 <= clock + LockTicks
    BY SignInAssumption DEF SignInInv
  <2>2. /\ accounts' = [accounts EXCEPT ![login[p].user].failed = 0,
                                        ![login[p].user].lockedUntil = 0]
        /\ guesses' = [guesses EXCEPT ![login[p].user] = 0]
        /\ login' = [login EXCEPT ![p] = NoLogin]
        /\ UNCHANGED <<clock, crashes>>
    BY <1>3 DEF RightPassword
  <2> QED
    BY <1>1, <1>2, <2>1, <2>2, ClearedStep
<1>4. CASE ~(login[p].failed > 0 \/ login[p].lockedUntil # 0)
  <2>1. login' = [login EXCEPT ![p] = NoLogin] /\ UNCHANGED <<accounts, guesses, clock, crashes>>
    BY <1>4 DEF RightPassword
  <2>2. login'[p] = NoLogin /\ \A q \in Logins : q # p => login'[q] = login[q]
    BY <2>1 DEF SignInInv, SignInTypeOK
  <2>3. SignInTypeOK'
    BY <2>1 DEF SignInInv, SignInTypeOK, NoLogin
  <2>4. \A v \in Users : Locking(v)' = Locking(v)
    BY <1>1, <2>2 DEF Locking, NoLogin
  <2> QED
    BY <2>1, <2>2, <2>3, <2>4 DEF SignInInv, NoLogin
<1> QED
  BY <1>3, <1>4

LEMMA SignInSteps == SignInInv /\ [SignInNext]_signInVars => SignInInv'
<1> SUFFICES ASSUME SignInInv, [SignInNext]_signInVars PROVE SignInInv'
  OBVIOUS
<1>1. ASSUME NEW u \in Users, SetActive(u) PROVE SignInInv'
  <2>1. /\ UNCHANGED <<login, clock, guesses, crashes>>
        /\ \A v \in Users : /\ accounts'[v].failed = accounts[v].failed
                            /\ accounts'[v].lockedUntil = accounts[v].lockedUntil
        /\ accounts' \in [Users -> [active : BOOLEAN, failed : Nat, lockedUntil : Nat]]
    BY <1>1 DEF SetActive, SignInInv, SignInTypeOK
  <2> QED
    BY <2>1 DEF SignInInv, SignInTypeOK, Locking
<1>2. CASE LockTick
  <2>1. clock' = clock + 1 /\ UNCHANGED <<accounts, login, guesses, crashes>>
    BY <1>2 DEF LockTick
  <2>2. \A u \in Users : Locking(u)' = Locking(u)
    BY <2>1 DEF Locking
  <2>3. SignInTypeOK' /\ clock' \in Nat
    BY <2>1 DEF SignInInv, SignInTypeOK
  <2>4. \A u \in Users : accounts'[u].lockedUntil <= clock' + LockTicks
    BY <2>1, SignInAssumption DEF SignInInv, SignInTypeOK
  <2>5. \A p \in Logins : login'[p].at = "compare" => login'[p].lockedUntil <= clock'
    BY <2>1 DEF SignInInv, SignInTypeOK
  <2> QED
    BY <2>1, <2>2, <2>3, <2>4, <2>5 DEF SignInInv
<1>3. CASE UNCHANGED signInVars
  BY <1>3 DEF SignInInv, SignInTypeOK, Locking, signInVars
<1> QED
  BY <1>1, <1>2, <1>3, BeginLoginStep, WrongPasswordStep, LockAccountStep, RightPasswordStep,
     LoginAbortStep DEF SignInNext

\* No account sees more guesses than its counter allows and requests in flight can add.
LEMMA BoundedGuesses == SignInInv => GuessesBounded
  BY LockingFinite, SignInAssumption DEF SignInInv, SignInTypeOK, GuessesBounded

\* What the invariant says of each step: the guesses against an account are bounded, and a lock
\* in force is lifted only by a password compared since before it fell.
LEMMA LockoutSteps ==
  ASSUME SignInInv, SignInInv', [SignInNext]_signInVars
  PROVE  /\ GuessesBounded'
         /\ \A u \in Users : Locked(u) /\ accounts'[u].lockedUntil < accounts[u].lockedUntil =>
              \E p \in Logins : /\ login[p].at = "compare" /\ login[p].user = u
                                /\ login[p].lockedUntil < accounts[u].lockedUntil
<1>1. GuessesBounded'
  BY BoundedGuesses, PTL
<1>2. ASSUME NEW u \in Users, Locked(u), accounts'[u].lockedUntil < accounts[u].lockedUntil
      PROVE  \E p \in Logins : /\ login[p].at = "compare" /\ login[p].user = u
                               /\ login[p].lockedUntil < accounts[u].lockedUntil
  <2>1. ASSUME NEW p \in Logins, RightPassword(p)
        PROVE  login[p].at = "compare" /\ login[p].user = u
    BY <2>1, <1>2 DEF RightPassword, SignInInv, SignInTypeOK
  <2>2. ASSUME NEW p \in Logins, RightPassword(p)
        PROVE  login[p].lockedUntil < accounts[u].lockedUntil
    BY <2>1, <2>2, <1>2 DEF SignInInv, SignInTypeOK, Locked
  <2>3. ASSUME NEW p \in Logins, LockAccount(p)
        PROVE  FALSE
    <3>1. accounts'[u].lockedUntil = accounts[u].lockedUntil
          \/ accounts'[u].lockedUntil = clock + LockTicks
      BY <2>3 DEF LockAccount, SignInInv, SignInTypeOK
    <3> QED
      BY <3>1, <1>2, SignInAssumption DEF SignInInv, SignInTypeOK
  <2>4. ASSUME NEW p \in Logins, BeginLogin(p) \/ WrongPassword(p) \/ LoginAbort(p)
        PROVE  FALSE
    <3>1. accounts'[u].lockedUntil = accounts[u].lockedUntil
      BY <2>4 DEF BeginLogin, WrongPassword, LoginAbort, SignInInv, SignInTypeOK
    <3> QED
      BY <3>1, <1>2 DEF SignInInv, SignInTypeOK
  <2>5. ASSUME (\E v \in Users : SetActive(v)) \/ LockTick \/ UNCHANGED signInVars
        PROVE  FALSE
    <3>1. accounts'[u].lockedUntil = accounts[u].lockedUntil
      BY <2>5 DEF SetActive, LockTick, signInVars, SignInInv, SignInTypeOK
    <3> QED
      BY <3>1, <1>2 DEF SignInInv, SignInTypeOK
  <2> QED
    BY <2>1, <2>2, <2>3, <2>4, <2>5 DEF SignInNext
<1> QED
  BY <1>1, <1>2

\* Sign-in, beside whatever else the server does, keeps its invariant.
THEOREM SignInInvariant == OfficeSpec => []SignInInv
<1>1. OfficeInit => SignInInv
  BY SignInStarts DEF OfficeInit
<1>2. SignInInv /\ [OfficeNext]_officeVars => SignInInv'
  BY SignInRuns, SignInSteps
<1> QED
  BY <1>1, <1>2, PTL DEF OfficeSpec

\* The lock-out against guessing, for any number of sign-ins, users, failures and crashes.
THEOREM LockoutCorrect == OfficeSpec => LockoutHolds
<1>1. SignInInv /\ SignInInv' /\ [OfficeNext]_officeVars =>
        [/\ GuessesBounded'
         /\ \A u \in Users : Locked(u) /\ accounts'[u].lockedUntil < accounts[u].lockedUntil =>
              \E p \in Logins : /\ login[p].at = "compare" /\ login[p].user = u
                                /\ login[p].lockedUntil < accounts[u].lockedUntil]_signInVars
  BY SignInRuns, LockoutSteps
<1> QED
  BY <1>1, SignInInvariant, PTL DEF OfficeSpec, LockoutHolds

(* ------------------------------ permissions ----------------------------- *)

\* A step of the server moves the permissions by one of their own steps or not at all.
LEMMA AccessRuns == [OfficeNext]_officeVars => [AccessNext]_accessVars
  BY DEF OfficeNext, officeVars, OfSignIn, OfAccess, OfCredit, OfImports, OfFiles, OfReminders,
         OfNumbers

\* Every route that changes business data asks for a permission to write.
DataRoutesGuarded(routes) ==
  \A route \in routes : route.changes = "data" => route.right \in WriteRights

LEMMA ReadsGuarded ==
  ASSUME NEW right, NEW handlers
  PROVE  DataRoutesGuarded(Reads(right, handlers))
  BY DEF DataRoutesGuarded, Reads, RoutesOf

LEMMA WritesGuarded ==
  ASSUME NEW right \in WriteRights, NEW handlers
  PROVE  DataRoutesGuarded(Writes(right, handlers))
  BY DEF DataRoutesGuarded, Writes, RoutesOf

LEMMA UnionGuarded ==
  ASSUME NEW A, NEW B, DataRoutesGuarded(A), DataRoutesGuarded(B)
  PROVE  DataRoutesGuarded(A \union B)
  BY DEF DataRoutesGuarded

LEMMA RoutesGuarded == DataRoutesGuarded(AllRoutes)
<1>1. /\ DataRoutesGuarded(CustomerRoutes) /\ DataRoutesGuarded(VendorRoutes)
      /\ DataRoutesGuarded(ServiceRoutes) /\ DataRoutesGuarded(RatingRoutes)
  BY ReadsGuarded, WritesGuarded, UnionGuarded
     DEF CustomerRoutes, VendorRoutes, ServiceRoutes, RatingRoutes, WriteRights
<1>2. /\ DataRoutesGuarded(RateRoutes) /\ DataRoutesGuarded(ImportRoutes)
      /\ DataRoutesGuarded(QuotationRoutes) /\ DataRoutesGuarded(BookingRoutes)
  BY ReadsGuarded, WritesGuarded, UnionGuarded
     DEF RateRoutes, ImportRoutes, QuotationRoutes, BookingRoutes, WriteRights
<1>3. /\ DataRoutesGuarded(JobRoutes) /\ DataRoutesGuarded(DocumentRoutes)
      /\ DataRoutesGuarded(CustomerAttachmentRoutes) /\ DataRoutesGuarded(VendorAttachmentRoutes)
  BY ReadsGuarded, WritesGuarded, UnionGuarded
     DEF JobRoutes, DocumentRoutes, CustomerAttachmentRoutes, VendorAttachmentRoutes, WriteRights
<1>4. /\ DataRoutesGuarded(InvoiceRoutes) /\ DataRoutesGuarded(NoteRoutes)
      /\ DataRoutesGuarded(PayableRoutes) /\ DataRoutesGuarded(RecycleRoutes)
  BY ReadsGuarded, WritesGuarded, UnionGuarded
     DEF InvoiceRoutes, NoteRoutes, PayableRoutes, RecycleRoutes, WriteRights
<1>5. /\ DataRoutesGuarded(UserRoutes) /\ DataRoutesGuarded(RoleRoutes)
      /\ DataRoutesGuarded(SettingRoutes) /\ DataRoutesGuarded(FxRoutes)
  BY ReadsGuarded, WritesGuarded, UnionGuarded
     DEF UserRoutes, RoleRoutes, SettingRoutes, FxRoutes, WriteRights
<1>6. /\ DataRoutesGuarded(ReportRoutes) /\ DataRoutesGuarded(DashboardRoutes)
      /\ DataRoutesGuarded(AuthRoutes)
  BY ReadsGuarded DEF ReportRoutes, DashboardRoutes, AuthRoutes
<1>7. DataRoutesGuarded(NotificationRoutes)
  BY DEF NotificationRoutes, DataRoutesGuarded, Reads, RoutesOf
<1> QED
  BY <1>1, <1>2, <1>3, <1>4, <1>5, <1>6, <1>7 DEF AllRoutes, DataRoutesGuarded

\* The permissions that occur.
Codes == UNION (Grants \union {RoleMatrix[r] : r \in Roles} \union {AllRights})

AccessTyped ==
  /\ members \in [Members -> [role : Roles, active : BOOLEAN]]
  /\ granted \in [Roles -> SUBSET Codes]
  /\ cache \in [Servers -> [Roles -> [codes : SUBSET Codes, expires : Nat]]]
  /\ visit \in [Visits -> [at : {"idle", "guard", "fill", "act"}, user : Members \union {None},
                            role : Roles \union {None}, server : Servers \union {None},
                            codes : SUBSET Codes]]
  /\ now \in Nat
  /\ recent \in [Roles -> SUBSET [codes : SUBSET Codes, until : Nat]]

\* Role r has each of these permissions, or had it until TTL before t.
HeldUntil(r, codes, t) ==
  \A right \in codes :
    \/ right \in granted[r]
    \/ \E old \in recent[r] : right \in old.codes /\ old.until + TTL >= t

\* What is cached was held when it was read, TTL before it expires, or later; what a request is
\* about to cache was held in this tick.
AccessInv ==
  /\ AccessTyped
  /\ \A s \in Servers, r \in Roles :
       /\ cache[s][r].expires <= now + TTL
       /\ HeldUntil(r, cache[s][r].codes, cache[s][r].expires)
  /\ \A v \in Visits :
       /\ visit[v].at # "idle" => visit[v].role \in Roles /\ visit[v].server \in Servers
       /\ visit[v].at = "fill" => HeldUntil(visit[v].role, visit[v].codes, now + TTL)

LEMMA AccessStarts == AccessInit => AccessInv
<1> SUFFICES ASSUME AccessInit PROVE AccessInv
  OBVIOUS
<1>1. {} \in SUBSET Codes /\ \A r \in Roles : RoleMatrix[r] \in SUBSET Codes
  BY DEF Codes
<1>2. /\ members \in [Members -> [role : Roles, active : BOOLEAN]]
      /\ granted \in [Roles -> SUBSET Codes]
      /\ now \in Nat
      /\ recent \in [Roles -> SUBSET [codes : SUBSET Codes, until : Nat]]
  BY <1>1 DEF AccessInit
<1>3. cache \in [Servers -> [Roles -> [codes : SUBSET Codes, expires : Nat]]]
  BY <1>1 DEF AccessInit
<1>4. visit \in [Visits -> [at : {"idle", "guard", "fill", "act"}, user : Members \union {None},
                            role : Roles \union {None}, server : Servers \union {None},
                            codes : SUBSET Codes]]
  BY <1>1 DEF AccessInit, NoVisit
<1>5. \A s \in Servers, r \in Roles : cache[s][r] = [codes |-> {}, expires |-> 0]
  BY DEF AccessInit
<1>6. \A v \in Visits : visit[v].at = "idle"
  BY DEF AccessInit, NoVisit
<1> QED
  BY <1>2, <1>3, <1>4, <1>5, <1>6, AccessAssumption DEF AccessInv, AccessTyped, HeldUntil

VisitState == [at : {"idle", "guard", "fill", "act"}, user : Members \union {None},
               role : Roles \union {None}, server : Servers \union {None}, codes : SUBSET Codes]

\* A request moves; what is granted and cached stays.
LEMMA VisitMoves ==
  ASSUME AccessInv, NEW v \in Visits, NEW r \in VisitState,
         visit' = [visit EXCEPT ![v] = r],
         UNCHANGED <<members, granted, cache, now, recent>>,
         r.at # "idle" => r.role \in Roles /\ r.server \in Servers,
         r.at = "fill" => HeldUntil(r.role, r.codes, now + TTL)
  PROVE  AccessInv'
<1>1. visit'[v] = r /\ \A w \in Visits : w # v => visit'[w] = visit[w]
  BY DEF AccessInv, AccessTyped
<1>2. AccessTyped'
  BY DEF AccessInv, AccessTyped, VisitState
<1>3. \A s \in Servers, x \in Roles :
        /\ cache'[s][x].expires <= now' + TTL
        /\ HeldUntil(x, cache[s][x].codes, cache[s][x].expires)'
  BY DEF AccessInv, HeldUntil
<1>4. \A w \in Visits :
        /\ visit'[w].at # "idle" => visit'[w].role \in Roles /\ visit'[w].server \in Servers
        /\ visit'[w].at = "fill" => HeldUntil(visit[w].role, visit[w].codes, now + TTL)'
  BY <1>1 DEF AccessInv, HeldUntil
<1> QED
  BY <1>2, <1>3, <1>4 DEF AccessInv

LEMMA PassStep ==
  ASSUME AccessInv, NEW v \in Visits, visit[v].at # "idle", NEW codes \in SUBSET Codes,
         PassWith(v, codes), UNCHANGED cache
  PROVE  AccessInv'
<1> DEFINE r == [visit[v] EXCEPT !.at = "act", !.codes = codes]
<1>1. visit' = [visit EXCEPT ![v] = r] /\ UNCHANGED <<members, granted, cache, now, recent>>
  BY DEF PassWith
<1>2. visit[v].role \in Roles /\ visit[v].server \in Servers
  BY DEF AccessInv
<1>3. r \in VisitState /\ r.at = "act" /\ r.role \in Roles /\ r.server \in Servers
  BY <1>2 DEF AccessInv, AccessTyped, VisitState
<1> HIDE DEF r
<1> QED
  BY <1>1, <1>3, VisitMoves

LEMMA BeginRequestStep ==
  ASSUME AccessInv, NEW v \in Visits, BeginRequest(v)
  PROVE  AccessInv'
<1>1. PICK u \in Members, s \in Servers :
        visit' = [visit EXCEPT ![v] = [NoVisit EXCEPT !.at = "guard", !.user = u, !.server = s,
                                                      !.role = members[u].role]]
  BY DEF BeginRequest
<1> DEFINE r == [NoVisit EXCEPT !.at = "guard", !.user = u, !.server = s,
                                !.role = members[u].role]
<1>2. members[u].role \in Roles
  BY DEF AccessInv, AccessTyped
<1>3. r \in VisitState /\ r.at = "guard" /\ r.role \in Roles /\ r.server \in Servers
  BY <1>2 DEF VisitState, NoVisit
<1> QED
  BY <1>1, <1>3, VisitMoves DEF BeginRequest

LEMMA PassUnaskedStep ==
  ASSUME AccessInv, NEW v \in Visits, PassUnasked(v)
  PROVE  AccessInv'
<1> DEFINE codes == IF visit[v].role = "Administrator" THEN AllRights ELSE {}
<1>1. codes \in SUBSET Codes
  BY DEF Codes
<1>2. visit[v].at # "idle" /\ PassWith(v, codes) /\ UNCHANGED cache
  BY DEF PassUnasked
<1> QED
  BY <1>1, <1>2, PassStep

LEMMA PassCachedStep ==
  ASSUME AccessInv, NEW v \in Visits, PassCached(v)
  PROVE  AccessInv'
<1> DEFINE codes == cache[visit[v].server][visit[v].role].codes
<1>1. visit[v].at # "idle" /\ PassWith(v, codes) /\ UNCHANGED cache
  BY DEF PassCached
<1>2. codes \in SUBSET Codes
  BY <1>1 DEF AccessInv, AccessTyped
<1> QED
  BY <1>1, <1>2, PassStep

LEMMA ReadCodesStep ==
  ASSUME AccessInv, NEW v \in Visits, ReadCodes(v)
  PROVE  AccessInv'
<1> DEFINE codes == granted[visit[v].role]
           r == [visit[v] EXCEPT !.at = "fill", !.codes = codes]
<1>1. /\ visit[v].at = "guard" /\ UNCHANGED <<members, granted, cache, now, recent>>
      /\ visit' = [visit EXCEPT ![v] = r]
  BY DEF ReadCodes
<1>2. visit[v].role \in Roles /\ visit[v].server \in Servers
  BY <1>1 DEF AccessInv
<1>3. codes \in SUBSET Codes /\ HeldUntil(visit[v].role, codes, now + TTL)
  BY <1>2 DEF AccessInv, AccessTyped, HeldUntil
<1>4. r \in VisitState /\ r.at = "fill" /\ r.codes = codes /\ r.role = visit[v].role
      /\ r.server = visit[v].server
  BY <1>3 DEF AccessInv, AccessTyped, VisitState
<1> HIDE DEF r
<1> QED
  BY <1>1, <1>2, <1>3, <1>4, VisitMoves

LEMMA FillCacheStep ==
  ASSUME AccessInv, NEW v \in Visits, FillCache(v)
  PROVE  AccessInv'
<1> DEFINE s == visit[v].server
           x == visit[v].role
           codes == visit[v].codes
           r == [visit[v] EXCEPT !.at = "act", !.codes = codes]
<1>1. /\ visit[v].at = "fill" /\ UNCHANGED <<members, granted, now, recent>>
      /\ visit' = [visit EXCEPT ![v] = r]
      /\ cache' = [cache EXCEPT ![s][x] = [codes |-> codes, expires |-> now + TTL]]
  BY DEF FillCache, PassWith
<1>2. s \in Servers /\ x \in Roles /\ HeldUntil(x, codes, now + TTL)
  BY <1>1 DEF AccessInv
<1>3. codes \in SUBSET Codes /\ now + TTL \in Nat
  BY AccessAssumption DEF AccessInv, AccessTyped
<1>4. visit'[v].at = "act" /\ visit'[v].role = x /\ visit'[v].server = s
      /\ (\A w \in Visits : w # v => visit'[w] = visit[w])
      /\ visit' \in [Visits -> VisitState]
  <2>1. r \in VisitState /\ r.at = "act" /\ r.role = x /\ r.server = s
    BY <1>3 DEF AccessInv, AccessTyped, VisitState
  <2>2. visit \in [Visits -> VisitState]
    BY DEF AccessInv, AccessTyped, VisitState
  <2> HIDE DEF r
  <2> QED
    BY <1>1, <2>1, <2>2
<1>5. /\ cache' \in [Servers -> [Roles -> [codes : SUBSET Codes, expires : Nat]]]
      /\ \A t \in Servers, y \in Roles :
           cache'[t][y] = IF t = s /\ y = x THEN [codes |-> codes, expires |-> now + TTL]
                                            ELSE cache[t][y]
  BY <1>1, <1>2, <1>3 DEF AccessInv, AccessTyped
<1>6. AccessTyped'
  BY <1>1, <1>4, <1>5 DEF AccessInv, AccessTyped, VisitState
<1>7. \A t \in Servers, y \in Roles :
        /\ cache'[t][y].expires <= now' + TTL
        /\ HeldUntil(y, cache[t][y].codes, cache[t][y].expires)'
  <2> SUFFICES ASSUME NEW t \in Servers, NEW y \in Roles
               PROVE  /\ cache'[t][y].expires <= now' + TTL
                      /\ HeldUntil(y, cache[t][y].codes, cache[t][y].expires)'
    OBVIOUS
  <2>1. CASE t = s /\ y = x
    <3>1. cache'[t][y].codes = codes /\ cache'[t][y].expires = now + TTL
      BY <2>1, <1>5
    <3> QED
      BY <3>1, <2>1, <1>1, <1>2, <1>3 DEF HeldUntil
  <2>2. CASE ~(t = s /\ y = x)
    <3>1. cache'[t][y] = cache[t][y]
      BY <2>2, <1>5
    <3> QED
      BY <3>1, <1>1 DEF AccessInv, HeldUntil
  <2> QED
    BY <2>1, <2>2
<1>8. \A w \in Visits :
        /\ visit'[w].at # "idle" => visit'[w].role \in Roles /\ visit'[w].server \in Servers
        /\ visit'[w].at = "fill" => HeldUntil(visit[w].role, visit[w].codes, now + TTL)'
  BY <1>1, <1>2, <1>4 DEF AccessInv, HeldUntil
<1> QED
  BY <1>6, <1>7, <1>8 DEF AccessInv

\* A permission that is taken away is remembered with the tick it was taken in, so it was held
\* recently enough for every cache.
LEMMA SetPermissionsStep ==
  ASSUME AccessInv, NEW x \in Roles, SetPermissions(x)
  PROVE  AccessInv'
<1>1. PICK codes \in Grants :
        /\ granted' = [granted EXCEPT ![x] = codes]
        /\ recent' = [recent EXCEPT ![x] = @ \union {[codes |-> granted[x], until |-> now]}]
        /\ UNCHANGED <<members, cache, visit, now>>
  BY DEF SetPermissions
<1>2. codes \in SUBSET Codes
  BY DEF Codes
<1>3. AccessTyped'
  <2>1. granted' \in [Roles -> SUBSET Codes]
    BY <1>1, <1>2 DEF AccessInv, AccessTyped
  <2>2. [codes |-> granted[x], until |-> now] \in [codes : SUBSET Codes, until : Nat]
    BY DEF AccessInv, AccessTyped
  <2>3. recent' \in [Roles -> SUBSET [codes : SUBSET Codes, until : Nat]]
    BY <1>1, <2>2 DEF AccessInv, AccessTyped
  <2> QED
    BY <1>1, <2>1, <2>3 DEF AccessInv, AccessTyped
<1>4. ASSUME NEW r \in Roles, NEW held, NEW t, HeldUntil(r, held, t), t <= now + TTL
      PROVE  HeldUntil(r, held, t)'
  <2>1. CASE r # x
    BY <1>1, <1>4, <2>1 DEF AccessInv, AccessTyped, HeldUntil
  <2>2. CASE r = x
    <3>1. recent'[x] = recent[x] \union {[codes |-> granted[x], until |-> now]}
      BY <1>1 DEF AccessInv, AccessTyped
    <3>2. ASSUME NEW right \in held
          PROVE  \E old \in recent'[x] : right \in old.codes /\ old.until + TTL >= t
      <4>1. CASE right \in granted[x]
        <5>1. [codes |-> granted[x], until |-> now] \in recent'[x]
          BY <3>1
        <5> QED
          BY <5>1, <1>4, <4>1, AccessAssumption DEF AccessInv, AccessTyped
      <4>2. CASE right \notin granted[x]
        BY <1>4, <2>2, <3>1, <3>2, <4>2 DEF HeldUntil
      <4> QED
        BY <4>1, <4>2
    <3> QED
      BY <2>2, <3>2 DEF HeldUntil
  <2> QED
    BY <2>1, <2>2
<1>5. \A s \in Servers, r \in Roles :
        /\ cache'[s][r].expires <= now' + TTL
        /\ HeldUntil(r, cache[s][r].codes, cache[s][r].expires)'
  BY <1>1, <1>4 DEF AccessInv, HeldUntil
<1>6. \A w \in Visits :
        /\ visit'[w].at # "idle" => visit'[w].role \in Roles /\ visit'[w].server \in Servers
        /\ visit'[w].at = "fill" => HeldUntil(visit[w].role, visit[w].codes, now + TTL)'
  <2>1. now + TTL <= now + TTL
    BY AccessAssumption DEF AccessInv, AccessTyped
  <2> QED
    BY <1>1, <1>4, <2>1 DEF AccessInv, HeldUntil
<1> QED
  BY <1>3, <1>5, <1>6 DEF AccessInv

LEMMA AccessSteps == AccessInv /\ [AccessNext]_accessVars => AccessInv'
<1> SUFFICES ASSUME AccessInv, [AccessNext]_accessVars PROVE AccessInv'
  OBVIOUS
<1>1. ASSUME NEW v \in Visits, Act(v) \/ VisitAbort(v) PROVE AccessInv'
  <2>1. NoVisit \in VisitState /\ NoVisit.at = "idle"
    BY DEF VisitState, NoVisit
  <2>2. visit' = [visit EXCEPT ![v] = NoVisit] /\ UNCHANGED <<members, granted, cache, now, recent>>
    BY <1>1 DEF Act, VisitAbort
  <2> QED
    BY <2>1, <2>2, VisitMoves
<1>2. ASSUME NEW u \in Members, UpdateUser(u) PROVE AccessInv'
  <2>1. PICK r \in Roles, active \in BOOLEAN :
          members' = [members EXCEPT ![u].role = r, ![u].active = active]
    BY <1>2 DEF UpdateUser
  <2>2. members' \in [Members -> [role : Roles, active : BOOLEAN]]
    BY <2>1 DEF AccessInv, AccessTyped
  <2>3. UNCHANGED <<granted, cache, visit, now, recent>>
    BY <1>2 DEF UpdateUser
  <2> QED
    BY <2>2, <2>3 DEF AccessInv, AccessTyped, HeldUntil
<1>3. CASE Tick
  <2>1. now' = now + 1 /\ UNCHANGED <<members, granted, cache, visit, recent>>
        /\ \A v \in Visits : visit[v].at # "fill"
    BY <1>3 DEF Tick
  <2>2. now' \in Nat /\ \A s \in Servers, r \in Roles : cache'[s][r].expires <= now' + TTL
    BY <2>1, AccessAssumption DEF AccessInv, AccessTyped
  <2> QED
    BY <2>1, <2>2 DEF AccessInv, AccessTyped, HeldUntil
<1>4. CASE UNCHANGED accessVars
  BY <1>4 DEF AccessInv, AccessTyped, HeldUntil, accessVars
<1> QED
  BY <1>1, <1>2, <1>3, <1>4, BeginRequestStep, PassUnaskedStep, PassCachedStep, ReadCodesStep,
     FillCacheStep, SetPermissionsStep DEF AccessNext

\* Whoever passes the guard in a step holds the permissions it passes with, or lost them within TTL.
LEMMA PassersHold ==
  ASSUME AccessInv, [AccessNext]_accessVars, NEW v \in Visits, Passes(v),
         NEW right \in visit'[v].codes
  PROVE  HeldWithin(visit[v].role, right, TTL)
<1> DEFINE x == visit[v].role
<1>1. ASSUME NEW w \in Visits, NEW codes \in SUBSET Codes, PassWith(w, codes)
      PROVE  w = v /\ visit'[v].codes = codes
  BY <1>1 DEF PassWith, Passes, AccessInv, AccessTyped
<1>2. ASSUME NEW w \in Visits, PassUnasked(w) PROVE FALSE
  <2>1. {} \in SUBSET Codes /\ AllRights \in SUBSET Codes
    BY DEF Codes
  <2>2. w = v
    BY <1>1, <1>2, <2>1 DEF PassUnasked
  <2> QED
    BY <1>1, <1>2, <2>1, <2>2 DEF PassUnasked, Passes
<1>3. ASSUME NEW w \in Visits, PassCached(w) PROVE HeldWithin(x, right, TTL)
  <2> DEFINE entry == cache[visit[w].server][visit[w].role]
  <2>1. visit[w].role \in Roles /\ visit[w].server \in Servers /\ entry.expires > now
    BY <1>3 DEF PassCached, CacheLive, AccessInv
  <2>2. entry.codes \in SUBSET Codes /\ entry.expires \in Nat
    BY <2>1 DEF AccessInv, AccessTyped
  <2>3. w = v /\ visit'[v].codes = entry.codes
    BY <1>1, <1>3, <2>2 DEF PassCached
  <2>4. HeldUntil(x, entry.codes, entry.expires) /\ x \in Roles
    BY <2>1, <2>3 DEF AccessInv
  <2>5. ASSUME right \notin granted[x] PROVE \E old \in recent[x] : right \in old.codes /\ old.until + TTL >= now
    <3>1. PICK old \in recent[x] : right \in old.codes /\ old.until + TTL >= entry.expires
      BY <2>3, <2>4, <2>5 DEF HeldUntil
    <3>2. old.until \in Nat
      BY <2>4 DEF AccessInv, AccessTyped
    <3> QED
      BY <3>1, <3>2, <2>1, <2>2, AccessAssumption DEF AccessInv, AccessTyped
  <2> QED
    BY <2>5 DEF HeldWithin
<1>4. ASSUME NEW w \in Visits, FillCache(w) PROVE HeldWithin(x, right, TTL)
  <2>1. visit[w].codes \in SUBSET Codes
    BY DEF AccessInv, AccessTyped
  <2>2. w = v /\ visit'[v].codes = visit[w].codes /\ visit[w].at = "fill"
    BY <1>1, <1>4, <2>1 DEF FillCache
  <2>3. HeldUntil(x, visit[v].codes, now + TTL) /\ x \in Roles
    BY <2>2 DEF AccessInv
  <2>4. ASSUME right \notin granted[x] PROVE \E old \in recent[x] : right \in old.codes /\ old.until + TTL >= now
    <3>1. PICK old \in recent[x] : right \in old.codes /\ old.until + TTL >= now + TTL
      BY <2>2, <2>3, <2>4 DEF HeldUntil
    <3>2. old.until \in Nat
      BY <2>3 DEF AccessInv, AccessTyped
    <3> QED
      BY <3>1, <3>2, AccessAssumption DEF AccessInv, AccessTyped
  <2> QED
    BY <2>4 DEF HeldWithin
<1>5. ASSUME NEW w \in Visits, BeginRequest(w) \/ ReadCodes(w) \/ Act(w) \/ VisitAbort(w) PROVE FALSE
  <2>1. CASE BeginRequest(w)
    <3>1. visit'[v] = visit[v] \/ visit'[v].at = "guard"
      BY <2>1 DEF BeginRequest, NoVisit, AccessInv, AccessTyped
    <3> QED
      BY <3>1 DEF Passes
  <2>2. CASE ReadCodes(w)
    <3>1. visit'[v] = visit[v] \/ visit'[v].at = "fill"
      BY <2>2 DEF ReadCodes, AccessInv, AccessTyped
    <3> QED
      BY <3>1 DEF Passes
  <2>3. CASE Act(w) \/ VisitAbort(w)
    <3>1. visit'[v] = visit[v] \/ visit'[v].at = "idle"
      BY <2>3 DEF Act, VisitAbort, NoVisit, AccessInv, AccessTyped
    <3> QED
      BY <3>1 DEF Passes
  <2> QED
    BY <1>5, <2>1, <2>2, <2>3
<1>6. visit' # visit
  BY DEF Passes
<1> QED
  BY <1>2, <1>3, <1>4, <1>5, <1>6 DEF AccessNext, UpdateUser, SetPermissions, Tick, accessVars

\* The guard, its caches and the maintenance of roles keep their invariant.
THEOREM AccessInvariant == OfficeSpec => []AccessInv
<1>1. OfficeInit => AccessInv
  BY AccessStarts DEF OfficeInit
<1>2. AccessInv /\ [OfficeNext]_officeVars => AccessInv'
  BY AccessRuns, AccessSteps
<1> QED
  BY <1>1, <1>2, PTL DEF OfficeSpec

\* A permission that was taken away is refused everywhere after TTL, and no handler that changes
\* business data is reached without one to write: for any number of requests, servers and roles,
\* any permissions roles are given, and all routes.
THEOREM RevocationCorrect == OfficeSpec => RevocationTakesHold
<1>1. ASSUME AccessInv, [AccessNext]_accessVars
      PROVE  [\A v \in Visits : Passes(v) =>
                /\ \A right \in visit'[v].codes : HeldWithin(visit[v].role, right, TTL)
                /\ (\E route \in Permitted(v)' : route.changes = "data") =>
                     \E right \in WriteRights : HeldWithin(visit[v].role, right, TTL)]_accessVars
  <2> SUFFICES ASSUME NEW v \in Visits, Passes(v)
               PROVE  /\ \A right \in visit'[v].codes : HeldWithin(visit[v].role, right, TTL)
                      /\ (\E route \in Permitted(v)' : route.changes = "data") =>
                           \E right \in WriteRights : HeldWithin(visit[v].role, right, TTL)
    OBVIOUS
  <2>1. \A right \in visit'[v].codes : HeldWithin(visit[v].role, right, TTL)
    BY <1>1, PassersHold
  <2>2. ASSUME NEW route \in Permitted(v)', route.changes = "data"
        PROVE  route.right \in WriteRights /\ route.right \in visit'[v].codes
    <3>1. route \in AllRoutes /\ route.right \in visit'[v].codes \union {Anyone}
      BY DEF Permitted
    <3>2. route.right \in WriteRights /\ Anyone \notin WriteRights
      BY <2>2, <3>1, RoutesGuarded DEF DataRoutesGuarded, Anyone, WriteRights
    <3> QED
      BY <3>1, <3>2
  <2> QED
    BY <2>1, <2>2
<1>2. AccessInv /\ [OfficeNext]_officeVars =>
        [\A v \in Visits : Passes(v) =>
           /\ \A right \in visit'[v].codes : HeldWithin(visit[v].role, right, TTL)
           /\ (\E route \in Permitted(v)' : route.changes = "data") =>
                \E right \in WriteRights : HeldWithin(visit[v].role, right, TTL)]_accessVars
  BY <1>1, AccessRuns
<1> QED
  BY <1>2, AccessInvariant, PTL DEF OfficeSpec, RevocationTakesHold

(* ------------------------------- reminders ------------------------------ *)

\* A step of the server moves the scans by one of their own steps or not at all.
LEMMA ScansRun == [OfficeNext]_officeVars => [RemindersNext]_reminderVars
  BY DEF OfficeNext, officeVars, OfSignIn, OfAccess, OfCredit, OfImports, OfFiles, OfReminders,
         OfNumbers

Alerted == Debtors \union Sailings \union Quotes

Reminder == [invoice : Debtors, last : Nat \union {None}]

ScanState ==
  [at : {"idle", "overdue", "row", "mail", "record", "cutoff"}, now : Nat,
   list : SUBSET (Reminder \union Sailings), row : Debtors \union {None},
   others : SUBSET (Debtors \union Sailings)]

Mailing == {"row", "mail", "record"}

ScansTyped ==
  /\ day \in 1 .. Horizon
  /\ alerts \in [Alerted -> SUBSET (0 .. day)]
  /\ reminded \in [Debtors -> (1 .. day) \union {None}]
  /\ mailed \in [Debtors -> (1 .. day) \union {None}]
  /\ nagged \in [Sailings -> (1 .. day) \union {None}]
  /\ scan \in [Scans -> ScanState]
  /\ doubtful \in SUBSET Debtors
  /\ halts \in Nat

\* What scan k has yet to do rests on reminders that are the latest ones, unless it knows of a
\* scan that mailed the invoice too, or the invoice is doubtful.
OnTime(k) ==
  /\ k.now <= day /\ (k.at # "idle" => k.now >= 1)
  /\ k.at \in Mailing =>
       /\ k.list \subseteq Reminder
       /\ \A r1, r2 \in k.list : r1.invoice = r2.invoice => r1 = r2
       /\ \A r \in k.list :
            mailed[r.invoice] = r.last \/ r.invoice \in k.others \/ r.invoice \in doubtful
  /\ k.at \in {"mail", "record"} => k.row \in Debtors /\ \A r \in k.list : r.invoice # k.row
  /\ k.at = "mail" =>
       \/ mailed[k.row] = None \/ k.now - mailed[k.row] > Gap
       \/ k.row \in k.others \/ k.row \in doubtful
  /\ k.at = "record" => mailed[k.row] = k.now \/ k.row \in doubtful
  /\ k.at = "cutoff" =>
       /\ k.list \subseteq Sailings /\ k.others \subseteq Sailings
       /\ \A b \in k.others : nagged[b] # None /\ nagged[b] >= k.now

\* A mail that went out is recorded, is being recorded, or may have been forgotten.
MailsRecorded ==
  \A i \in Debtors :
    \/ mailed[i] = reminded[i] \/ i \in doubtful
    \/ \E s \in Scans : scan[s].at = "record" /\ scan[s].row = i

\* A scan that works on reminders knows of those that others are recording.
OthersKnown ==
  \A s, t \in Scans :
    s # t /\ scan[s].at = "record" /\ scan[t].at \in Mailing => scan[s].row \in scan[t].others

\* The latest alert of a cut-off is no older than the periods it has alerts for.
AlertsDated ==
  \A b \in Sailings : \A d \in alerts[b] : nagged[b] # None /\ nagged[b] >= d

RemindersInv ==
  /\ ScansTyped
  /\ \A s \in Scans : OnTime(scan[s])
  /\ MailsRecorded /\ OthersKnown /\ AlertsDated

LEMMA RestingState ==
  /\ Resting \in ScanState /\ Resting.at = "idle" /\ Resting.now = 0 /\ Resting.others = {}
  /\ Resting.list = {} /\ Resting.row = None
  BY DEF Resting, ScanState

LEMMA RemindersStart == RemindersInit => RemindersInv
<1> SUFFICES ASSUME RemindersInit PROVE RemindersInv
  OBVIOUS
<1>1. scan \in [Scans -> ScanState] /\ \A s \in Scans : scan[s] = Resting
  BY RestingState DEF RemindersInit
<1>2. ScansTyped
  BY <1>1, RemindersAssumption DEF RemindersInit, ScansTyped, Alerted
<1>3. \A s \in Scans : OnTime(scan[s])
  BY <1>1, RestingState DEF OnTime, Mailing, RemindersInit
<1> QED
  BY <1>1, <1>2, <1>3, RestingState
     DEF RemindersInit, RemindersInv, MailsRecorded, OthersKnown, AlertsDated

\* A scan that moves to k knows of the scans that are recording.
Informed(s, k) ==
  \/ k.at \notin Mailing
  \/ scan[s].at \in Mailing /\ scan[s].others \subseteq k.others
  \/ \A t \in Scans : scan[t].at = "record" => scan[t].row \in k.others

\* It starts recording by a mail only.
MailsNothing(s, k) == k.at = "record" => scan[s].at = "record" /\ k.row = scan[s].row

\* One scan moves, and mails and alerts stay.
LEMMA ScanMoves ==
  ASSUME RemindersInv, NEW s \in Scans, NEW k \in ScanState, scan' = [scan EXCEPT ![s] = k],
         UNCHANGED <<day, mailed, nagged, doubtful, halts>>,
         OnTime(k), Informed(s, k), MailsNothing(s, k)
  PROVE  /\ scan' \in [Scans -> ScanState]
         /\ (\A t \in Scans : OnTime(scan[t]))' /\ OthersKnown'
         /\ scan'[s] = k /\ \A t \in Scans : t # s => scan'[t] = scan[t]
<1>1. scan'[s] = k /\ \A t \in Scans : t # s => scan'[t] = scan[t]
  BY DEF RemindersInv, ScansTyped
<1>2. scan' \in [Scans -> ScanState]
  BY DEF RemindersInv, ScansTyped
<1>3. ASSUME NEW t \in Scans PROVE OnTime(scan[t])'
  <2> PICK m : m = IF t = s THEN k ELSE scan[t]
    OBVIOUS
  <2>1. OnTime(m) /\ scan'[t] = m
    BY <1>1 DEF RemindersInv
  <2> QED
    BY <2>1 DEF OnTime
<1>4. OthersKnown'
  BY <1>1 DEF RemindersInv, OthersKnown, Informed, MailsNothing
<1> QED
  BY <1>1, <1>2, <1>3, <1>4

\* Alerts of debtors and quotations say nothing of the cut-offs.
LEMMA AlertsElsewhere ==
  ASSUME RemindersInv, UNCHANGED nagged, \A b \in Sailings : alerts'[b] = alerts[b]
  PROVE  AlertsDated'
  BY DEF RemindersInv, AlertsDated

LEMMA PeriodTyped ==
  ASSUME NEW d \in Nat, NEW kind
  PROVE  Period(kind, d) \in 0 .. d
  BY DEF Period

LEMMA StartScanStep ==
  ASSUME RemindersInv, NEW s \in Scans, StartScan(s)
  PROVE  RemindersInv'
<1> PICK k : k = [Resting EXCEPT !.at = "overdue", !.now = day]
  OBVIOUS
<1>1. /\ scan[s].at = "idle" /\ scan' = [scan EXCEPT ![s] = k]
      /\ UNCHANGED <<day, open, reminded, nagged, mailed, doubtful, halts>>
  BY DEF StartScan
<1>0. day \in Nat
  BY RemindersAssumption DEF RemindersInv, ScansTyped
<1>2. k \in ScanState /\ k.at = "overdue" /\ k.now = day
  BY <1>0 DEF Resting, ScanState
<1>3. OnTime(k) /\ Informed(s, k) /\ MailsNothing(s, k)
  BY <1>2, RemindersAssumption
     DEF OnTime, Mailing, RemindersInv, ScansTyped, Informed, MailsNothing
<1>4. /\ scan' \in [Scans -> ScanState]
      /\ (\A t \in Scans : OnTime(scan[t]))' /\ OthersKnown'
      /\ scan'[s] = k /\ \A t \in Scans : t # s => scan'[t] = scan[t]
  BY <1>1, <1>2, <1>3, ScanMoves
<1>5. alerts' \in [Alerted -> SUBSET (0 .. day)] /\ \A b \in Sailings : alerts'[b] = alerts[b]
  <2>1. day \in Nat /\ alerts \in [Alerted -> SUBSET (0 .. day)]
    BY RemindersAssumption DEF RemindersInv, ScansTyped
  <2>2. Period("once", day) \in 0 .. day
    BY <2>1, PeriodTyped
  <2>3. \A b \in Sailings : b \notin Quotes /\ b \in Alerted
    BY RemindersAssumption DEF Alerted
  <2>4. alerts' = [x \in DOMAIN alerts |->
                     IF x \in Quotes /\ Deadline[x] \in day .. day + Ahead
                     THEN alerts[x] \union {Period("once", day)} ELSE alerts[x]]
    BY DEF StartScan
  <2> QED
    BY <2>1, <2>2, <2>3, <2>4
<1>6. AlertsDated'
  BY <1>1, <1>5, AlertsElsewhere
<1>7. MailsRecorded'
  BY <1>1, <1>2, <1>4 DEF RemindersInv, MailsRecorded
<1> QED
  BY <1>1, <1>4, <1>5, <1>6, <1>7 DEF RemindersInv, ScansTyped

LEMMA ReadOverdueStep ==
  ASSUME RemindersInv, NEW s \in Scans, ReadOverdue(s)
  PROVE  RemindersInv'
<1> PICK list : list = {[invoice |-> i, last |-> reminded[i]] : i \in {j \in Debtors : open[j]}}
  OBVIOUS
<1> PICK k : k = [scan[s] EXCEPT !.at = "row", !.others = BeingRecorded, !.list = list]
  OBVIOUS
<1>1. /\ scan[s].at = "overdue" /\ scan' = [scan EXCEPT ![s] = k]
      /\ UNCHANGED <<day, alerts, open, reminded, nagged, mailed, doubtful, halts>>
  BY DEF ReadOverdue
<1>2. scan[s] \in ScanState /\ OnTime(scan[s])
  BY DEF RemindersInv, ScansTyped
<1>3. BeingRecorded \subseteq Debtors
      /\ \A t \in Scans : scan[t].at = "record" => scan[t].row \in BeingRecorded
  BY DEF BeingRecorded, RemindersInv, OnTime
<1>4. list \subseteq Reminder /\ \A r1, r2 \in list : r1.invoice = r2.invoice => r1 = r2
  <2>1. \A i \in Debtors : reminded[i] \in Nat \union {None}
    BY DEF RemindersInv, ScansTyped
  <2> QED
    BY <2>1 DEF Reminder
<1>5. k \in ScanState /\ k.at = "row" /\ k.others = BeingRecorded /\ k.list = list
      /\ k.now = scan[s].now /\ k.row = scan[s].row
  BY <1>2, <1>3, <1>4 DEF ScanState
<1>6. \A r \in list :
        mailed[r.invoice] = r.last \/ r.invoice \in BeingRecorded \/ r.invoice \in doubtful
  BY <1>3 DEF RemindersInv, MailsRecorded
<1>7. OnTime(k) /\ Informed(s, k) /\ MailsNothing(s, k)
  BY <1>1, <1>2, <1>3, <1>4, <1>5, <1>6 DEF OnTime, Mailing, Informed, MailsNothing
<1>8. /\ scan' \in [Scans -> ScanState]
      /\ (\A t \in Scans : OnTime(scan[t]))' /\ OthersKnown'
      /\ scan'[s] = k /\ \A t \in Scans : t # s => scan'[t] = scan[t]
  BY <1>1, <1>5, <1>7, ScanMoves
<1>9. MailsRecorded'
  BY <1>1, <1>5, <1>8 DEF RemindersInv, MailsRecorded
<1> QED
  BY <1>1, <1>8, <1>9 DEF RemindersInv, ScansTyped, AlertsDated

LEMMA TakeRowStep ==
  ASSUME RemindersInv, NEW s \in Scans, TakeRow(s)
  PROVE  RemindersInv'
<1> PICK old : old = scan[s]
  OBVIOUS
<1>1. old \in ScanState /\ OnTime(old) /\ old.at = "row" /\ old.list \subseteq Reminder
  BY DEF RemindersInv, ScansTyped, OnTime, TakeRow, Mailing
<1>2. PICK r \in old.list :
        /\ Push(r.invoice, "weekly", s)
        /\ scan' = [scan EXCEPT ![s].list = @ \ {r},
                      ![s].row = IF ReminderStale(r.last, scan[s].now) THEN r.invoice ELSE None,
                      ![s].at = IF ReminderStale(r.last, scan[s].now) THEN "mail" ELSE "row"]
  BY DEF TakeRow
<1> PICK k : k = [old EXCEPT !.list = @ \ {r},
                    !.row = IF ReminderStale(r.last, old.now) THEN r.invoice ELSE None,
                    !.at = IF ReminderStale(r.last, old.now) THEN "mail" ELSE "row"]
  OBVIOUS
<1>3. /\ scan' = [scan EXCEPT ![s] = k]
      /\ UNCHANGED <<day, open, reminded, nagged, mailed, doubtful, halts>>
  BY <1>2 DEF TakeRow
<1>4. r \in Reminder /\ r.invoice \in Debtors /\ r.last \in Nat \union {None}
  BY <1>1, <1>2 DEF Reminder
<1>5. /\ k \in ScanState /\ k.list = old.list \ {r} /\ k.now = old.now /\ k.others = old.others
      /\ \/ k.at = "mail" /\ k.row = r.invoice /\ ReminderStale(r.last, old.now)
         \/ k.at = "row" /\ k.row = None
  BY <1>1, <1>4 DEF ScanState
<1>6. OnTime(k) /\ Informed(s, k) /\ MailsNothing(s, k)
  <2>1. k.at = "mail" =>
          \/ mailed[k.row] = None \/ k.now - mailed[k.row] > Gap
          \/ k.row \in k.others \/ k.row \in doubtful
    BY <1>1, <1>2, <1>5 DEF OnTime, Mailing, ReminderStale
  <2>2. k.at = "mail" => k.row \in Debtors /\ \A r1 \in k.list : r1.invoice # k.row
    BY <1>1, <1>2, <1>4, <1>5 DEF OnTime, Mailing
  <2> QED
    BY <1>1, <1>5, <2>1, <2>2 DEF OnTime, Mailing, Informed, MailsNothing
<1>7. /\ scan' \in [Scans -> ScanState]
      /\ (\A t \in Scans : OnTime(scan[t]))' /\ OthersKnown'
      /\ scan'[s] = k /\ \A t \in Scans : t # s => scan'[t] = scan[t]
  BY <1>1, <1>3, <1>5, <1>6, ScanMoves
<1>8. alerts' \in [Alerted -> SUBSET (0 .. day)] /\ \A b \in Sailings : alerts'[b] = alerts[b]
  <2>1. old.now \in Nat /\ old.now <= day /\ day \in Nat /\ alerts \in [Alerted -> SUBSET (0 .. day)]
    BY <1>1, RemindersAssumption DEF RemindersInv, ScansTyped, OnTime, ScanState
  <2>2. Period("weekly", old.now) \in 0 .. day
    BY <2>1, PeriodTyped
  <2>3. r.invoice \in Alerted /\ \A b \in Sailings : b # r.invoice /\ b \in Alerted
    BY <1>4, RemindersAssumption DEF Alerted
  <2>4. alerts' = [alerts EXCEPT ![r.invoice] = @ \union {Period("weekly", old.now)}]
    BY <1>2 DEF Push
  <2> QED
    BY <2>1, <2>2, <2>3, <2>4
<1>9. AlertsDated'
  BY <1>3, <1>8, AlertsElsewhere
<1>10. MailsRecorded'
  BY <1>1, <1>3, <1>5, <1>7 DEF RemindersInv, MailsRecorded
<1> QED
  BY <1>3, <1>7, <1>8, <1>9, <1>10 DEF RemindersInv, ScansTyped

\* A refused mail, the end of the reminders, the end of a scan.
LEMMA GoOnStep ==
  ASSUME RemindersInv, NEW s \in Scans, MailFails(s) \/ ReadCutoffs(s) \/ EndScan(s)
  PROVE  RemindersInv'
<1> PICK old : old = scan[s]
  OBVIOUS
<1>1. old \in ScanState /\ OnTime(old) /\ old.at # "record"
      /\ UNCHANGED <<day, alerts, open, reminded, nagged, mailed, doubtful, halts>>
  BY DEF RemindersInv, ScansTyped, MailFails, ReadCutoffs, EndScan
<1>2. \E k \in ScanState : /\ scan' = [scan EXCEPT ![s] = k] /\ k.at # "record"
                           /\ OnTime(k) /\ Informed(s, k) /\ MailsNothing(s, k)
  <2>1. CASE MailFails(s)
    <3> PICK k : k = [old EXCEPT !.at = "row", !.row = None]
      OBVIOUS
    <3>1. scan' = [scan EXCEPT ![s] = k] /\ old.at = "mail"
      BY <2>1 DEF MailFails
    <3>2. k \in ScanState /\ k.at = "row" /\ k.now = old.now /\ k.list = old.list
          /\ k.others = old.others
      BY <1>1 DEF ScanState
    <3>3. OnTime(k) /\ Informed(s, k) /\ MailsNothing(s, k)
      BY <1>1, <3>1, <3>2 DEF OnTime, Mailing, Informed, MailsNothing
    <3> QED
      BY <3>1, <3>2, <3>3
  <2>2. CASE ReadCutoffs(s)
    <3> PICK list : list = {b \in Sailings : InWindow(b, old.now)}
      OBVIOUS
    <3> PICK k : k = [old EXCEPT !.at = "cutoff", !.row = None, !.others = {}, !.list = list]
      OBVIOUS
    <3>1. scan' = [scan EXCEPT ![s] = k] /\ old.at = "row"
      BY <2>2 DEF ReadCutoffs
    <3>2. k \in ScanState /\ k.at = "cutoff" /\ k.now = old.now /\ k.list \subseteq Sailings
          /\ k.others = {}
      BY <1>1 DEF ScanState
    <3>3. OnTime(k) /\ Informed(s, k) /\ MailsNothing(s, k)
      BY <1>1, <3>1, <3>2 DEF OnTime, Mailing, Informed, MailsNothing
    <3> QED
      BY <3>1, <3>2, <3>3
  <2>3. CASE EndScan(s)
    <3>1. scan' = [scan EXCEPT ![s] = Resting]
      BY <2>3 DEF EndScan
    <3>2. OnTime(Resting) /\ Informed(s, Resting) /\ MailsNothing(s, Resting)
      BY RestingState, RemindersAssumption
         DEF RemindersInv, ScansTyped, OnTime, Mailing, Informed, MailsNothing
    <3> QED
      BY <3>1, <3>2, RestingState
  <2> QED
    BY <2>1, <2>2, <2>3
<1>3. PICK k \in ScanState : /\ scan' = [scan EXCEPT ![s] = k] /\ k.at # "record"
                             /\ OnTime(k) /\ Informed(s, k) /\ MailsNothing(s, k)
  BY <1>2
<1>4. /\ scan' \in [Scans -> ScanState]
      /\ (\A t \in Scans : OnTime(scan[t]))' /\ OthersKnown'
      /\ scan'[s] = k /\ \A t \in Scans : t # s => scan'[t] = scan[t]
  BY <1>1, <1>3, ScanMoves
<1>5. MailsRecorded'
  BY <1>1, <1>4 DEF RemindersInv, MailsRecorded
<1> QED
  BY <1>1, <1>4, <1>5 DEF RemindersInv, ScansTyped, AlertsDated

LEMMA RecordReminderStep ==
  ASSUME RemindersInv, NEW s \in Scans, RecordReminder(s)
  PROVE  RemindersInv'
<1> PICK old : old = scan[s]
  OBVIOUS
<1> PICK k : k = [old EXCEPT !.at = "row", !.row = None]
  OBVIOUS
<1>1. /\ old.at = "record" /\ scan' = [scan EXCEPT ![s] = k]
      /\ UNCHANGED <<day, alerts, open, nagged, mailed, doubtful, halts>>
  BY DEF RecordReminder
<1>2. reminded' = [reminded EXCEPT ![old.row] = old.now]
  BY DEF RecordReminder
<1>3. old \in ScanState /\ OnTime(old)
  BY DEF RemindersInv, ScansTyped
<1>4. k \in ScanState /\ k.at = "row" /\ k.now = old.now /\ k.list = old.list
      /\ k.others = old.others
  BY <1>3 DEF ScanState
<1>5. OnTime(k) /\ Informed(s, k) /\ MailsNothing(s, k)
  BY <1>1, <1>3, <1>4 DEF OnTime, Mailing, Informed, MailsNothing
<1>6. /\ scan' \in [Scans -> ScanState]
      /\ (\A t \in Scans : OnTime(scan[t]))' /\ OthersKnown'
      /\ scan'[s] = k /\ \A t \in Scans : t # s => scan'[t] = scan[t]
  BY <1>1, <1>4, <1>5, ScanMoves
<1>7. old.row \in Debtors /\ old.now \in 1 .. day
      /\ (mailed[old.row] = old.now \/ old.row \in doubtful)
  BY <1>1, <1>3, RemindersAssumption DEF OnTime, ScanState, RemindersInv, ScansTyped
<1>8. reminded' \in [Debtors -> (1 .. day) \union {None}] /\ reminded'[old.row] = old.now
      /\ \A i \in Debtors : i # old.row => reminded'[i] = reminded[i]
  BY <1>2, <1>7 DEF RemindersInv, ScansTyped
<1>9. MailsRecorded'
  BY <1>1, <1>6, <1>7, <1>8 DEF RemindersInv, MailsRecorded
<1> QED
  BY <1>1, <1>6, <1>8, <1>9 DEF RemindersInv, ScansTyped, AlertsDated

\* A mail is known from now on to every other scan that works on reminders.
LEMMA SendMailStep ==
  ASSUME RemindersInv, NEW s \in Scans, SendMail(s)
  PROVE  RemindersInv'
<1> PICK old : old = scan[s]
  OBVIOUS
<1> PICK i : i = old.row
  OBVIOUS
<1>1. /\ old.at = "mail" /\ UNCHANGED <<day, alerts, open, reminded, nagged, halts>>
      /\ mailed' = [mailed EXCEPT ![i] = old.now]
      /\ doubtful' = IF i \in old.others THEN doubtful \union {i} ELSE doubtful
  BY DEF SendMail
<1>2. scan' = [t \in Scans |-> IF t = s THEN [scan[t] EXCEPT !.at = "record"]
                               ELSE IF scan[t].at \in {"row", "mail", "record"}
                                    THEN [scan[t] EXCEPT !.others = @ \union {i}] ELSE scan[t]]
  BY DEF SendMail
<1>3. old \in ScanState /\ OnTime(old) /\ i \in Debtors /\ old.now \in 1 .. day
  BY <1>1, RemindersAssumption DEF RemindersInv, ScansTyped, OnTime, ScanState
<1>4. /\ mailed' \in [Debtors -> (1 .. day) \union {None}] /\ mailed'[i] = old.now
      /\ \A j \in Debtors : j # i => mailed'[j] = mailed[j]
      /\ doubtful' \in SUBSET Debtors /\ doubtful \subseteq doubtful'
      /\ i \in old.others => i \in doubtful'
  BY <1>1, <1>3 DEF RemindersInv, ScansTyped
<1>5. /\ scan'[s] \in ScanState /\ scan'[s].at = "record" /\ scan'[s].row = i
      /\ scan'[s].now = old.now /\ scan'[s].list = old.list /\ scan'[s].others = old.others
  BY <1>2, <1>3 DEF ScanState
<1>6. ASSUME NEW t \in Scans, t # s
      PROVE  /\ scan'[t] \in ScanState /\ scan'[t].at = scan[t].at /\ scan'[t].row = scan[t].row
             /\ scan'[t].now = scan[t].now /\ scan'[t].list = scan[t].list
             /\ scan[t].others \subseteq scan'[t].others
             /\ scan[t].at \in Mailing => i \in scan'[t].others
             /\ scan[t].at \notin Mailing => scan'[t] = scan[t]
  <2> PICK m : m = scan[t]
    OBVIOUS
  <2>1. m \in ScanState /\ scan'[t] = IF m.at \in {"row", "mail", "record"}
                                      THEN [m EXCEPT !.others = @ \union {i}] ELSE m
    BY <1>2, <1>6 DEF RemindersInv, ScansTyped
  <2>2. CASE m.at \in {"row", "mail", "record"}
    <3>1. scan'[t] = [m EXCEPT !.others = @ \union {i}]
      BY <2>1, <2>2
    <3> QED
      BY <1>3, <2>1, <2>2, <3>1 DEF ScanState, Mailing
  <2>3. CASE m.at \notin {"row", "mail", "record"}
    BY <2>1, <2>3 DEF Mailing
  <2> QED
    BY <2>2, <2>3
<1>7. scan' \in [Scans -> ScanState]
  <2>1. \A t \in Scans : scan'[t] \in ScanState
    BY <1>5, <1>6
  <2> QED
    BY <1>2, <2>1
<1>8. OnTime(scan[s])'
  <2>1. old.list \subseteq Reminder /\ (\A r \in old.list : r.invoice # i /\ r.invoice \in Debtors)
        /\ (\A r1, r2 \in old.list : r1.invoice = r2.invoice => r1 = r2)
        /\ \A r \in old.list :
             mailed[r.invoice] = r.last \/ r.invoice \in old.others \/ r.invoice \in doubtful
    BY <1>1, <1>3 DEF OnTime, Mailing, Reminder
  <2> QED
    BY <1>1, <1>3, <1>4, <1>5, <2>1 DEF OnTime
<1>9. ASSUME NEW t \in Scans, t # s PROVE OnTime(scan[t])'
  <2> PICK m : m = scan[t]
    OBVIOUS
  <2> PICK n : n = scan'[t]
    OBVIOUS
  <2>1. OnTime(m) /\ m \in ScanState
    BY DEF RemindersInv, ScansTyped
  <2>2. /\ n.at = m.at /\ n.row = m.row /\ n.now = m.now /\ n.list = m.list
        /\ m.others \subseteq n.others /\ (m.at \in Mailing => i \in n.others)
        /\ (m.at \notin Mailing => n = m)
    BY <1>6, <1>9
  <2>3. m.at = "record" /\ m.row = i => i \in doubtful'
    BY <1>1, <1>4, <1>9 DEF RemindersInv, OthersKnown, Mailing
  <2>4. n.at \in Mailing =>
          \A r \in n.list :
            mailed'[r.invoice] = r.last \/ r.invoice \in n.others \/ r.invoice \in doubtful'
    BY <1>4, <2>1, <2>2 DEF OnTime, Reminder
  <2>5. n.at = "mail" =>
          \/ mailed'[n.row] = None \/ n.now - mailed'[n.row] > Gap
          \/ n.row \in n.others \/ n.row \in doubtful'
    BY <1>4, <2>1, <2>2 DEF OnTime, Mailing
  <2>6. n.at = "record" => mailed'[n.row] = n.now \/ n.row \in doubtful'
    BY <1>4, <2>1, <2>2, <2>3 DEF OnTime
  <2>7. OnTime(n)'
    BY <1>1, <2>1, <2>2, <2>4, <2>5, <2>6 DEF OnTime, Mailing
  <2> QED
    BY <2>7 DEF OnTime
<1>10. \A t \in Scans : OnTime(scan[t])'
  BY <1>8, <1>9
<1>11. MailsRecorded'
  <2>1. ASSUME NEW j \in Debtors, j # i
        PROVE  (\/ mailed[j] = reminded[j] \/ j \in doubtful
                \/ \E t \in Scans : scan[t].at = "record" /\ scan[t].row = j)'
    <3>1. CASE mailed[j] = reminded[j] \/ j \in doubtful
      BY <1>1, <1>4, <2>1, <3>1
    <3>2. ASSUME NEW t \in Scans, scan[t].at = "record", scan[t].row = j
          PROVE  scan'[t].at = "record" /\ scan'[t].row = j
      BY <1>1, <1>6, <3>2
    <3> QED
      BY <3>1, <3>2 DEF RemindersInv, MailsRecorded
  <2> QED
    BY <1>5, <2>1 DEF MailsRecorded
<1>12. OthersKnown'
  <2> SUFFICES ASSUME NEW t \in Scans, NEW u \in Scans, t # u, scan'[t].at = "record",
                      scan'[u].at \in Mailing
               PROVE  scan'[t].row \in scan'[u].others
    BY DEF OthersKnown
  <2>1. CASE t = s
    BY <2>1, <1>5, <1>6
  <2>2. CASE t # s /\ u = s
    BY <2>2, <1>1, <1>5, <1>6 DEF RemindersInv, OthersKnown, Mailing
  <2>3. CASE t # s /\ u # s
    <3>1. scan[t].row \in scan[u].others
      BY <2>3, <1>6 DEF RemindersInv, OthersKnown
    <3> QED
      BY <2>3, <3>1, <1>6
  <2> QED
    BY <2>1, <2>2, <2>3
<1> QED
  BY <1>1, <1>4, <1>7, <1>10, <1>11, <1>12 DEF RemindersInv, ScansTyped, AlertsDated

\* A cut-off has its alert of the day, or gets it.
LEMMA TakeCutoffStep ==
  ASSUME RemindersInv, NEW s \in Scans, TakeCutoff(s)
  PROVE  RemindersInv'
<1> PICK old : old = scan[s]
  OBVIOUS
<1>1. PICK b \in old.list :
        /\ Push(b, "daily", s)
        /\ nagged' = IF alerts' = alerts THEN nagged ELSE [nagged EXCEPT ![b] = day]
        /\ scan' = [scan EXCEPT ![s].list = @ \ {b}, ![s].others = @ \union {b}]
  BY DEF TakeCutoff
<1> PICK k : k = [old EXCEPT !.list = @ \ {b}, !.others = @ \union {b}]
  OBVIOUS
<1>2. /\ old.at = "cutoff" /\ scan' = [scan EXCEPT ![s] = k]
      /\ UNCHANGED <<day, open, reminded, mailed, doubtful, halts>>
  BY <1>1 DEF TakeCutoff
<1>3. alerts' = [alerts EXCEPT ![b] = @ \union {old.now}]
  BY <1>1 DEF Push, Period
<1>4. /\ old \in ScanState /\ OnTime(old) /\ old.list \subseteq Sailings /\ old.others \subseteq Sailings
      /\ b \in Sailings /\ day \in Nat \ {0} /\ old.now \in 1 .. day
      /\ day # None
  BY <1>1, <1>2, RemindersAssumption DEF RemindersInv, ScansTyped, OnTime, ScanState
<1>5. k \in ScanState /\ k.at = "cutoff" /\ k.now = old.now /\ k.list = old.list \ {b}
      /\ k.others = old.others \union {b}
  BY <1>2, <1>4 DEF ScanState
<1>6. /\ alerts' \in [Alerted -> SUBSET (0 .. day)] /\ alerts'[b] = alerts[b] \union {old.now}
      /\ \A c \in Sailings : c # b => alerts'[c] = alerts[c]
      /\ alerts' = alerts => old.now \in alerts[b]
  <2>1. b \in Alerted /\ \A c \in Sailings : c \in Alerted
    BY <1>4 DEF Alerted
  <2> QED
    BY <1>3, <1>4, <2>1 DEF RemindersInv, ScansTyped
<1>7. /\ nagged' \in [Sailings -> (1 .. day) \union {None}]
      /\ nagged'[b] # None /\ nagged'[b] >= old.now
      /\ \A c \in Sailings : nagged[c] # None => nagged'[c] # None /\ nagged'[c] >= nagged[c]
  <2>0. nagged \in [Sailings -> (1 .. day) \union {None}]
    BY DEF RemindersInv, ScansTyped
  <2>1. CASE alerts' = alerts
    <3>1. nagged' = nagged /\ old.now \in alerts[b]
      BY <1>1, <1>6, <2>1
    <3> QED
      BY <1>4, <2>0, <3>1 DEF RemindersInv, AlertsDated
  <2>2. CASE alerts' # alerts
    <3>1. nagged' = [nagged EXCEPT ![b] = day]
      BY <1>1, <2>2
    <3> QED
      BY <1>4, <2>0, <3>1
  <2> QED
    BY <2>1, <2>2
<1>8. \A c \in Sailings : nagged[c] # None => nagged[c] \in Nat /\ nagged'[c] \in Nat
  BY <1>4, <1>7 DEF RemindersInv, ScansTyped
<1>9. AlertsDated'
  <2> SUFFICES ASSUME NEW c \in Sailings, NEW d \in alerts'[c]
               PROVE  nagged'[c] # None /\ nagged'[c] >= d
    BY DEF AlertsDated
  <2>1. d \in alerts[c] \/ (c = b /\ d = old.now)
    BY <1>6
  <2>2. d \in Nat
    BY <1>4, <1>6 DEF Alerted
  <2>3. CASE d \in alerts[c]
    <3>1. nagged[c] # None /\ nagged[c] >= d
      BY <2>3 DEF RemindersInv, AlertsDated
    <3> QED
      BY <1>7, <1>8, <2>2, <3>1
  <2> QED
    BY <1>7, <2>1, <2>3
<1>10. /\ scan' \in [Scans -> ScanState]
       /\ scan'[s] = k /\ \A t \in Scans : t # s => scan'[t] = scan[t]
  BY <1>2, <1>5 DEF RemindersInv, ScansTyped
<1>11. ASSUME NEW t \in Scans, NEW m, OnTime(m), m \in ScanState PROVE OnTime(m)'
  <2>1. m.now \in Nat
    BY <1>11 DEF ScanState
  <2>2. m.at = "cutoff" => \A c \in m.others : nagged'[c] # None /\ nagged'[c] >= m.now
    <3> SUFFICES ASSUME m.at = "cutoff", NEW c \in m.others
                 PROVE  nagged'[c] # None /\ nagged'[c] >= m.now
      OBVIOUS
    <3>1. c \in Sailings /\ nagged[c] # None /\ nagged[c] >= m.now
      BY <1>11 DEF OnTime
    <3> QED
      BY <1>7, <1>8, <2>1, <3>1
  <2> QED
    BY <1>2, <1>11, <2>2 DEF OnTime
<1>12. OnTime(k)'
  <2>1. \A c \in k.others : nagged'[c] # None /\ nagged'[c] >= k.now
    <3> SUFFICES ASSUME NEW c \in old.others
                 PROVE  nagged'[c] # None /\ nagged'[c] >= old.now
      BY <1>5, <1>7
    <3>1. c \in Sailings /\ nagged[c] # None /\ nagged[c] >= old.now
      BY <1>2, <1>4 DEF OnTime
    <3> QED
      BY <1>4, <1>7, <1>8, <3>1
  <2> QED
    BY <1>2, <1>4, <1>5, <2>1 DEF OnTime, Mailing
<1>13. \A t \in Scans : OnTime(scan[t])'
  <2>1. ASSUME NEW t \in Scans, t # s PROVE OnTime(scan[t])'
    <3> PICK m : m = scan[t]
      OBVIOUS
    <3>1. OnTime(m) /\ m \in ScanState
      BY DEF RemindersInv, ScansTyped
    <3>2. OnTime(m)' /\ scan'[t] = m
      BY <1>10, <1>11, <2>1, <3>1
    <3> QED
      BY <3>2 DEF OnTime
  <2>2. OnTime(scan[s])'
    BY <1>10, <1>12 DEF OnTime
  <2> QED
    BY <2>1, <2>2
<1>14. MailsRecorded' /\ OthersKnown'
  BY <1>2, <1>5, <1>10 DEF RemindersInv, MailsRecorded, OthersKnown, Mailing
<1> QED
  BY <1>2, <1>6, <1>7, <1>9, <1>10, <1>13, <1>14 DEF RemindersInv, ScansTyped

LEMMA NextDayStep ==
  ASSUME RemindersInv, NextDay
  PROVE  RemindersInv'
<1>1. /\ day < Horizon /\ day' = day + 1 /\ day \in Nat \ {0} /\ day' \in 1 .. Horizon
      /\ UNCHANGED <<alerts, open, reminded, scan, nagged, mailed, doubtful, halts>>
  BY RemindersAssumption DEF NextDay, RemindersInv, ScansTyped
<1>2. 0 .. day \subseteq 0 .. day' /\ 1 .. day \subseteq 1 .. day'
  BY <1>1
<1>3. ScansTyped'
  BY <1>1, <1>2 DEF RemindersInv, ScansTyped
<1>4. ASSUME NEW s \in Scans PROVE OnTime(scan[s])'
  <2> PICK m : m = scan[s]
    OBVIOUS
  <2>1. OnTime(m) /\ m.now \in Nat /\ scan'[s] = m
    BY <1>1 DEF RemindersInv, ScansTyped, ScanState
  <2>2. OnTime(m)'
    BY <1>1, <2>1 DEF OnTime
  <2> QED
    BY <2>1, <2>2 DEF OnTime
<1> QED
  BY <1>1, <1>3, <1>4 DEF RemindersInv, MailsRecorded, OthersKnown, AlertsDated

LEMMA HaltStep ==
  ASSUME RemindersInv, Halt
  PROVE  RemindersInv'
<1>1. /\ halts' = halts + 1 /\ scan' = [s \in Scans |-> Resting]
      /\ doubtful' = doubtful \union BeingRecorded
      /\ UNCHANGED <<day, alerts, open, reminded, nagged, mailed>>
  BY DEF Halt
<1>2. BeingRecorded \subseteq Debtors
      /\ \A t \in Scans : scan[t].at = "record" => scan[t].row \in BeingRecorded
  BY DEF BeingRecorded, RemindersInv, OnTime
<1>3. scan' \in [Scans -> ScanState] /\ \A s \in Scans : scan'[s] = Resting
  BY <1>1, RestingState
<1>4. ScansTyped'
  BY <1>1, <1>2, <1>3 DEF RemindersInv, ScansTyped
<1>5. \A s \in Scans : OnTime(scan[s])'
  BY <1>1, <1>3, RestingState, RemindersAssumption DEF RemindersInv, ScansTyped, OnTime, Mailing
<1>6. MailsRecorded'
  BY <1>1, <1>2 DEF RemindersInv, MailsRecorded
<1> QED
  BY <1>1, <1>3, <1>4, <1>5, <1>6, RestingState DEF RemindersInv, OthersKnown, AlertsDated

LEMMA SameScans ==
  ASSUME RemindersInv, UNCHANGED <<day, alerts, reminded, scan, nagged, mailed, doubtful, halts>>
  PROVE  RemindersInv'
<1>1. \A s \in Scans : OnTime(scan[s])'
  BY DEF RemindersInv, OnTime
<1> QED
  BY <1>1 DEF RemindersInv, ScansTyped, MailsRecorded, OthersKnown, AlertsDated

LEMMA RemindersSteps == RemindersInv /\ [OfficeNext]_officeVars => RemindersInv'
<1> SUFFICES ASSUME RemindersInv, [RemindersNext]_reminderVars PROVE RemindersInv'
  BY ScansRun
<1>1. CASE UNCHANGED reminderVars
  BY <1>1, SameScans DEF reminderVars
<1>2. ASSUME NEW i \in Debtors, Settle(i) PROVE RemindersInv'
  BY <1>2, SameScans DEF Settle
<1>3. ASSUME NEW s \in Scans, ScanStep(s) PROVE RemindersInv'
  BY <1>3, StartScanStep, ReadOverdueStep, TakeRowStep, SendMailStep, GoOnStep,
     RecordReminderStep, TakeCutoffStep DEF ScanStep
<1> QED
  BY <1>1, <1>2, <1>3, NextDayStep, HaltStep DEF RemindersNext

\* The scans keep their invariant, beside whatever else the server does.
THEOREM RemindersInvariant == OfficeSpec => []RemindersInv
<1>1. OfficeInit => RemindersInv
  BY RemindersStart DEF OfficeInit
<1> QED
  BY <1>1, RemindersSteps, PTL DEF OfficeSpec

LEMMA OnlyMailsRemind ==
  ASSUME RemindersInv, [RemindersNext]_reminderVars, NEW i \in Debtors,
         mailed'[i] # mailed[i], mailed[i] # None
  PROVE  i \in doubtful' \/ mailed'[i] - mailed[i] > Gap
<1>1. PICK s \in Scans : SendMail(s)
  BY DEF RemindersNext, ScanStep, reminderVars, StartScan, ReadOverdue, TakeRow, MailFails,
     RecordReminder, ReadCutoffs, TakeCutoff, EndScan, Settle, NextDay, Halt
<1> PICK old : old = scan[s]
  OBVIOUS
<1>2. /\ old.at = "mail" /\ mailed' = [mailed EXCEPT ![old.row] = old.now]
      /\ doubtful' = IF old.row \in old.others THEN doubtful \union {old.row} ELSE doubtful
  BY <1>1 DEF SendMail
<1>3. OnTime(old) /\ old.row = i /\ mailed'[i] = old.now
  BY <1>2 DEF RemindersInv, ScansTyped
<1> QED
  BY <1>2, <1>3 DEF OnTime

LEMMA CutoffsAnnounced ==
  ASSUME RemindersInv, NEW s \in Scans, scan[s].at = "cutoff"
  PROVE  \A b \in scan[s].others : nagged[b] # None /\ nagged[b] >= scan[s].now
  BY DEF RemindersInv, OnTime

\* Debtors are not pestered and cut-offs are announced, for any number of scans, invoices and
\* sailings, and any gap between reminders.
THEOREM RemindersCorrect == OfficeSpec => ScansKeepPace
<1>1. RemindersInv /\ [OfficeNext]_officeVars =>
        [/\ \A i \in Debtors : RemindersSpaced(i)
         /\ \A s \in Scans : CutoffsNagDaily(s)]_reminderVars
  BY ScansRun, OnlyMailsRemind, CutoffsAnnounced DEF RemindersSpaced, CutoffsNagDaily
<1> QED
  BY <1>1, RemindersInvariant, PTL DEF OfficeSpec, ScansKeepPace

(* -------------------------------- imports ------------------------------- *)

\* A step of the server moves the imports by one of their own steps or not at all.
LEMMA ImportsRun == [OfficeNext]_officeVars => [ImportsNext]_importVars
  BY DEF OfficeNext, officeVars, OfSignIn, OfAccess, OfCredit, OfImports, OfFiles, OfReminders,
         OfNumbers

Master == [name : Names, live : BOOLEAN]
Offer == [lane : Lanes, date : Dates]

Sheets == Seq(Names) \union Seq(Lanes)

UploadState ==
  [at : {"idle", "row", "write"}, kind : {"masters", "rates", "tariff", None},
   sheet : Sheets, done : Nat, date : Dates \union {None},
   seen : SUBSET (Names \union Lanes), before : SUBSET (Names \union Lanes),
   match : Nat \union {None}]

TablesTyped ==
  /\ masters \in Seq(Master) /\ Len(masters) <= MaxRows
  /\ rates \in Seq(Offer \union {Gone}) /\ Len(rates) <= MaxRows

\* Two rows for one customer, or one lane, have an explanation.
NoDoubles ==
  /\ \A i, j \in 1 .. Len(masters) :
       /\ i # j /\ masters[i].live /\ masters[j].live /\ masters[i].name = masters[j].name
       => masters[i].name \in doubled
  /\ \A i, j \in 1 .. Len(rates) :
       i # j /\ rates[i].lane \in Lanes /\ rates[i].lane = rates[j].lane => rates[i].lane \in doubled

Stored(l, date) == {i \in 1 .. Len(rates) : rates[i].lane = l /\ rates[i].date = date}
Listed(sheet, l, n) == {x \in 1 .. n : sheet[x] = l}
RowOf(k) == k.sheet[k.done + 1]

\* Import k goes on from what it read: it has seen each customer that is there, unless a double
\* of it is explained; the rate it found is on the lane, and where it found none there is none;
\* of a lane without offers before, what the sheet has so far is stored.
Fits(k) ==
  k.at # "idle" =>
    /\ k.kind \in {"masters", "rates", "tariff"}
    /\ k.sheet \in Seq(IF k.kind = "masters" THEN Names ELSE Lanes)
    /\ k.kind # "masters" => k.date \in Dates
    /\ k.done <= Len(k.sheet)
    /\ k.at = "write" => k.kind = "tariff" /\ k.done < Len(k.sheet)
    /\ k.kind = "masters" =>
         \A i \in 1 .. Len(masters) :
           masters[i].live => masters[i].name \in k.seen \/ masters[i].name \in doubled
    /\ k.at = "write" =>
         IF k.match = None
         THEN \A i \in 1 .. Len(rates) : rates[i].lane # RowOf(k) \/ RowOf(k) \in doubled
         ELSE k.match \in 1 .. Len(rates) /\ rates[k.match].lane \in {RowOf(k), None}
    /\ k.kind = "rates" =>
         /\ k.seen = k.before
         /\ \A l \in Lanes \ (k.before \union disturbed) :
              Cardinality(Stored(l, k.date)) >= Cardinality(Listed(k.sheet, l, k.done))

ImportsInv ==
  /\ TablesTyped /\ NoDoubles
  /\ upload \in [Uploads -> UploadState]
  /\ \A u \in Uploads : Fits(upload[u])

LEMMA TablesDomains ==
  ASSUME TablesTyped
  PROVE  /\ DOMAIN masters = 1 .. Len(masters) /\ Len(masters) \in Nat
         /\ \A i \in 1 .. Len(masters) : masters[i] \in Master
         /\ DOMAIN rates = 1 .. Len(rates) /\ Len(rates) \in Nat
         /\ \A i \in 1 .. Len(rates) : rates[i] \in Offer \union {Gone}
  BY DEF TablesTyped

LEMMA GoneRate ==
  /\ Gone.lane = None /\ Gone.date = None
  /\ \A r \in Offer \union {Gone} : r.lane \in Lanes \union {None} /\ (r # Gone => r.lane \in Lanes)
  /\ \A r \in Offer \union {Gone} : r.lane \in Lanes => r \in Offer
  BY ImportsAssumption DEF Gone, Offer

LEMMA NoUploadFits == NoUpload \in UploadState /\ NoUpload.at = "idle"
<1>1. << >> \in Seq(Names)
  OBVIOUS
<1> QED
  BY <1>1 DEF NoUpload, UploadState, Sheets

LEMMA ImportsStart == ImportsInit => ImportsInv
<1> SUFFICES ASSUME ImportsInit PROVE ImportsInv
  OBVIOUS
<1>1. masters = << >> /\ rates = << >> /\ Len(masters) = 0 /\ Len(rates) = 0
  BY DEF ImportsInit
<1>2. TablesTyped /\ NoDoubles
  BY <1>1, ImportsAssumption DEF TablesTyped, NoDoubles
<1>3. upload \in [Uploads -> UploadState] /\ \A u \in Uploads : upload[u] = NoUpload
  BY NoUploadFits DEF ImportsInit
<1>4. \A u \in Uploads : Fits(upload[u])
  BY <1>3, NoUploadFits DEF Fits
<1> QED
  BY <1>2, <1>3, <1>4 DEF ImportsInv

\* An import moves, the tables stay.
LEMMA UploadMoves ==
  ASSUME ImportsInv, NEW u \in Uploads, NEW k \in UploadState, Fits(k),
         upload' = [upload EXCEPT ![u] = k], UNCHANGED <<masters, rates, doubled, disturbed>>
  PROVE  ImportsInv'
<1>1. \A m : Fits(m) => Fits(m)'
  BY DEF Fits, Stored
<1>2. \A v \in Uploads : Fits(upload[v])'
  <2> SUFFICES ASSUME NEW v \in Uploads PROVE Fits(upload[v])'
    OBVIOUS
  <2> PICK m : m = IF v = u THEN k ELSE upload[v]
    OBVIOUS
  <2>1. Fits(m) /\ upload'[v] = m
    BY DEF ImportsInv
  <2>2. Fits(m)'
    BY <1>1, <2>1
  <2> QED
    BY <2>1, <2>2 DEF Fits
<1> QED
  BY <1>2 DEF ImportsInv, TablesTyped, NoDoubles

\* The offers of a lane that nobody disturbs stay.
LEMMA OffersStay ==
  ASSUME TablesTyped, TablesTyped', disturbed \subseteq disturbed', Len(rates) <= Len(rates'),
         \A i \in 1 .. Len(rates) : rates'[i] = rates[i] \/ rates[i].lane \in disturbed',
         NEW l \in Lanes \ disturbed', NEW date
  PROVE  /\ Stored(l, date) \subseteq Stored(l, date)'
         /\ IsFiniteSet(Stored(l, date)) /\ IsFiniteSet(Stored(l, date)')
         /\ Cardinality(Stored(l, date)) \in Nat /\ Cardinality(Stored(l, date)') \in Nat
         /\ Cardinality(Stored(l, date)') >= Cardinality(Stored(l, date))
<1>1. Len(rates) \in Nat /\ Len(rates') \in Nat
  BY DEF TablesTyped
<1>2. Stored(l, date) \subseteq Stored(l, date)'
  BY <1>1 DEF Stored
<1>3. IsFiniteSet(1 .. Len(rates')) /\ Stored(l, date)' \in SUBSET (1 .. Len(rates'))
  BY <1>1, FS_Interval DEF Stored
<1>4. IsFiniteSet(Stored(l, date)')
  BY <1>3, FS_Subset
<1>5. IsFiniteSet(Stored(l, date)) /\ Cardinality(Stored(l, date)) <= Cardinality(Stored(l, date)')
  BY <1>2, <1>4, FS_Subset
<1>6. Cardinality(Stored(l, date)) \in Nat /\ Cardinality(Stored(l, date)') \in Nat
  BY <1>4, <1>5, FS_CardinalityType
<1> QED
  BY <1>2, <1>4, <1>5, <1>6


\* What a step on the tables owes to import m: new customers are doubled unless there before,
\* offers stay, are disturbed or lose their lane, and new ones are doubled for a tariff.
MastersFor(m) ==
  m.kind = "masters" =>
    \A i \in 1 .. Len(masters') :
      masters'[i].live =>
        \/ masters'[i].name \in doubled'
        \/ i \in 1 .. Len(masters) /\ masters[i].live /\ masters[i].name = masters'[i].name

OffersChange ==
  /\ Len(rates) <= Len(rates')
  /\ \A i \in 1 .. Len(rates) :
       \/ rates'[i] = rates[i]
       \/ rates[i].lane \in disturbed' /\ rates'[i].lane \in {rates[i].lane, None}

OffersFor(m) ==
  m.kind = "tariff" =>
    \A i \in 1 .. Len(rates') : i > Len(rates) => rates'[i].lane \in doubled'

RowsMove ==
  /\ doubled \subseteq doubled' /\ disturbed \subseteq disturbed'
  /\ OffersChange

LEMMA FitsOn ==
  ASSUME TablesTyped, TablesTyped', RowsMove, NEW m \in UploadState, Fits(m),
         MastersFor(m), OffersFor(m)
  PROVE  Fits(m)'
<1> SUFFICES ASSUME m.at # "idle" PROVE Fits(m)'
  BY DEF Fits
<1>1. /\ doubled \subseteq doubled' /\ disturbed \subseteq disturbed'
      /\ Len(rates) \in Nat /\ Len(rates') \in Nat /\ Len(rates) <= Len(rates')
      /\ Len(masters) \in Nat /\ Len(masters') \in Nat
  BY DEF RowsMove, OffersChange, TablesTyped
<1>2. m.kind = "masters" => (\A i \in 1 .. Len(masters) :
        masters[i].live => masters[i].name \in m.seen \/ masters[i].name \in doubled)'
  BY <1>1 DEF Fits, MastersFor
<1>3. m.at = "write" => (IF m.match = None
         THEN \A i \in 1 .. Len(rates) : rates[i].lane # RowOf(m) \/ RowOf(m) \in doubled
         ELSE m.match \in 1 .. Len(rates) /\ rates[m.match].lane \in {RowOf(m), None})'
  <2> SUFFICES ASSUME m.at = "write"
               PROVE (IF m.match = None
                  THEN \A i \in 1 .. Len(rates) : rates[i].lane # RowOf(m) \/ RowOf(m) \in doubled
                  ELSE m.match \in 1 .. Len(rates) /\ rates[m.match].lane \in {RowOf(m), None})'
    OBVIOUS
  <2> PICK row : row = RowOf(m)
    OBVIOUS
  <2>0. RowOf(m)' = row
    BY DEF RowOf
  <2>t. m.kind = "tariff" /\ m.done < Len(m.sheet) /\ m.done \in Nat /\ Len(m.sheet) \in Nat
    BY DEF Fits, UploadState
  <2>n. row \in Lanes /\ row # None
    BY <2>t, ImportsAssumption DEF Fits, RowOf
  <2>1. CASE m.match = None
    <3>1. \A i \in 1 .. Len(rates) : rates[i].lane # row \/ row \in doubled
      BY <2>1 DEF Fits
    <3>2. \A i \in 1 .. Len(rates') : i \in 1 .. Len(rates) \/ i > Len(rates)
      BY <1>1
    <3>3. \A i \in 1 .. Len(rates) : rates'[i].lane \in {rates[i].lane, None}
      BY DEF RowsMove, OffersChange
    <3>4. \A i \in 1 .. Len(rates') : i > Len(rates) => rates'[i].lane \in doubled'
      BY <2>t DEF OffersFor
    <3>5. \A i \in 1 .. Len(rates') : rates'[i].lane # row \/ row \in doubled'
      BY <1>1, <2>n, <3>1, <3>2, <3>3, <3>4
    <3> QED
      BY <2>0, <2>1, <3>5
  <2>2. CASE m.match # None
    <3>1. m.match \in 1 .. Len(rates) /\ rates[m.match].lane \in {row, None}
      BY <2>2 DEF Fits
    <3>2. rates'[m.match].lane \in {row, None}
      BY <3>1 DEF RowsMove, OffersChange
    <3>3. m.match \in 1 .. Len(rates')
      BY <1>1, <3>1
    <3> QED
      BY <2>0, <2>2, <3>2, <3>3
  <2> QED
    BY <2>1, <2>2
<1>4. m.kind = "rates" =>
        /\ m.seen = m.before
        /\ \A l \in Lanes \ (m.before \union disturbed') :
             Cardinality(Stored(l, m.date)') >= Cardinality(Listed(m.sheet, l, m.done))
  <2> SUFFICES ASSUME m.kind = "rates", NEW l \in Lanes \ (m.before \union disturbed')
               PROVE  Cardinality(Stored(l, m.date)') >= Cardinality(Listed(m.sheet, l, m.done))
    BY DEF Fits
  <2>1. Cardinality(Stored(l, m.date)) >= Cardinality(Listed(m.sheet, l, m.done))
    BY <1>1 DEF Fits
  <2>2. /\ Cardinality(Stored(l, m.date)') >= Cardinality(Stored(l, m.date))
        /\ Cardinality(Stored(l, m.date)) \in Nat /\ Cardinality(Stored(l, m.date)') \in Nat
    <3>1. \A i \in 1 .. Len(rates) : rates'[i] = rates[i] \/ rates[i].lane \in disturbed'
      BY DEF RowsMove, OffersChange
    <3> QED
      BY <1>1, <3>1, OffersStay
  <2>3. Cardinality(Listed(m.sheet, l, m.done)) \in Nat
    <3>1. m.done \in Nat /\ IsFiniteSet(1 .. m.done) /\ Listed(m.sheet, l, m.done) \in SUBSET (1 .. m.done)
      BY FS_Interval DEF UploadState, Listed
    <3> QED
      BY <3>1, FS_Subset, FS_CardinalityType
  <2> QED
    BY <2>1, <2>2, <2>3
<1> QED
  BY <1>2, <1>3, <1>4 DEF Fits, Listed

\* An import that touches the tables keeps what the invariant says of the others.
LEMMA OthersFit ==
  ASSUME ImportsInv, TablesTyped', NoDoubles', RowsMove,
         NEW u \in Uploads, NEW k \in UploadState, Fits(k)',
         upload' = [upload EXCEPT ![u] = k],
         \A v \in Uploads \ {u} : MastersFor(upload[v]) /\ OffersFor(upload[v])
  PROVE  ImportsInv'
<1>1. \A v \in Uploads : Fits(upload[v])'
  <2> SUFFICES ASSUME NEW v \in Uploads PROVE Fits(upload[v])'
    OBVIOUS
  <2>1. CASE v = u
    <3>1. upload'[v] = k
      BY <2>1 DEF ImportsInv
    <3> QED
      BY <3>1 DEF Fits, RowOf
  <2>2. CASE v # u
    <3> PICK m : m = upload[v]
      OBVIOUS
    <3>1. upload'[v] = m /\ m \in UploadState /\ Fits(m) /\ MastersFor(m) /\ OffersFor(m) /\ TablesTyped
      BY <2>2 DEF ImportsInv
    <3>2. Fits(m)'
      BY <3>1, FitsOn
    <3> QED
      BY <3>1, <3>2 DEF Fits, RowOf
  <2> QED
    BY <2>1, <2>2
<1> QED
  BY <1>1 DEF ImportsInv

LEMMA AllFit ==
  ASSUME ImportsInv, TablesTyped', NoDoubles', RowsMove, UNCHANGED upload,
         \A v \in Uploads : MastersFor(upload[v]) /\ OffersFor(upload[v])
  PROVE  ImportsInv'
<1>1. \A v \in Uploads : Fits(upload[v])'
  <2> SUFFICES ASSUME NEW v \in Uploads PROVE Fits(upload[v])'
    OBVIOUS
  <2> PICK m : m = upload[v]
    OBVIOUS
  <2>1. upload'[v] = m /\ m \in UploadState /\ Fits(m) /\ MastersFor(m) /\ OffersFor(m) /\ TablesTyped
    BY DEF ImportsInv
  <2>2. Fits(m)'
    BY <2>1, FitsOn
  <2> QED
    BY <2>1, <2>2 DEF Fits, RowOf
<1> QED
  BY <1>1 DEF ImportsInv


(* --------------------------- each step of an import --------------------------- *)

LEMMA SheetRow ==
  ASSUME NEW k \in UploadState, Fits(k), k.at # "idle", k.done < Len(k.sheet)
  PROVE  /\ k.done \in Nat /\ Len(k.sheet) \in Nat /\ k.done + 1 \in 1 .. Len(k.sheet)
         /\ RowOf(k) \in IF k.kind = "masters" THEN Names ELSE Lanes
<1>1. k.sheet \in Seq(IF k.kind = "masters" THEN Names ELSE Lanes) /\ k.done \in Nat
  BY DEF Fits, UploadState
<1> QED
  BY <1>1 DEF RowOf

NextOf(k) == [k EXCEPT !.at = "row", !.done = @ + 1, !.match = None]

LEMMA NextOfState ==
  ASSUME NEW k \in UploadState
  PROVE  /\ NextOf(k) \in UploadState /\ NextOf(k).at = "row" /\ NextOf(k).done = k.done + 1
         /\ NextOf(k).kind = k.kind /\ NextOf(k).sheet = k.sheet /\ NextOf(k).date = k.date
         /\ NextOf(k).seen = k.seen /\ NextOf(k).before = k.before
<1>1. k.done \in Nat /\ k.done + 1 \in Nat
  BY DEF UploadState
<1>2. \A at \in {"row"}, n \in Nat, i \in {None} :
        [k EXCEPT !.at = at, !.done = n, !.match = i] \in UploadState
  BY DEF UploadState
<1>3. NextOf(k) \in UploadState
  BY <1>1, <1>2 DEF NextOf
<1>4. /\ NextOf(k).at = "row" /\ NextOf(k).done = k.done + 1
      /\ NextOf(k).kind = k.kind /\ NextOf(k).sheet = k.sheet /\ NextOf(k).date = k.date
      /\ NextOf(k).seen = k.seen /\ NextOf(k).before = k.before
  BY DEF NextOf, UploadState
<1> QED
  BY <1>3, <1>4

\* One more row of the sheet is one more row listed of its lane, and none of the others.
LEMMA ListedNext ==
  ASSUME NEW sheet, NEW n \in Nat, NEW l
  PROVE  /\ Cardinality(Listed(sheet, l, n)) \in Nat
         /\ Cardinality(Listed(sheet, l, n + 1)) \in Nat
         /\ sheet[n + 1] # l => Listed(sheet, l, n + 1) = Listed(sheet, l, n)
         /\ Cardinality(Listed(sheet, l, n + 1)) <= Cardinality(Listed(sheet, l, n)) + 1
<1>1. IsFiniteSet(1 .. n) /\ Listed(sheet, l, n) \in SUBSET (1 .. n)
  BY FS_Interval DEF Listed
<1>2. IsFiniteSet(Listed(sheet, l, n)) /\ Cardinality(Listed(sheet, l, n)) \in Nat
  BY <1>1, FS_Subset, FS_CardinalityType
<1>3. sheet[n + 1] # l => Listed(sheet, l, n + 1) = Listed(sheet, l, n)
  BY DEF Listed
<1>4. sheet[n + 1] = l => Listed(sheet, l, n + 1) = Listed(sheet, l, n) \union {n + 1}
  BY DEF Listed
<1>5. Cardinality(Listed(sheet, l, n) \union {n + 1}) <= Cardinality(Listed(sheet, l, n)) + 1
  BY <1>2, FS_AddElement
<1>6. Cardinality(Listed(sheet, l, n) \union {n + 1}) \in Nat
  BY <1>2, FS_AddElement, FS_CardinalityType
<1> QED
  BY <1>2, <1>3, <1>4, <1>5, <1>6

LEMMA StoredNumber ==
  ASSUME TablesTyped, NEW date
  PROVE  \A l \in Lanes : IsFiniteSet(Stored(l, date)) /\ Cardinality(Stored(l, date)) \in Nat
<1> SUFFICES ASSUME NEW l \in Lanes
             PROVE  IsFiniteSet(Stored(l, date)) /\ Cardinality(Stored(l, date)) \in Nat
  OBVIOUS
<1>1. Len(rates) \in Nat
  BY DEF TablesTyped
<1>2. IsFiniteSet(1 .. Len(rates)) /\ Stored(l, date) \in SUBSET (1 .. Len(rates))
  BY <1>1, FS_Interval DEF Stored
<1> QED
  BY <1>2, FS_Subset, FS_CardinalityType

LEMMA BeginKeeps ==
  ASSUME ImportsInv, NEW u \in Uploads,
         NEW kind \in {"masters", "rates", "tariff"},
         NEW sheet \in Seq(IF kind = "masters" THEN Names ELSE Lanes),
         NEW date \in Dates \union {None}, kind # "masters" => date \in Dates,
         BeginImport(u, kind, sheet, date)
  PROVE  ImportsInv'
<1> PICK there : there = CASE kind = "masters" -> {n \in Names : Copies(n) # {}}
                           [] kind = "rates" -> {l \in Lanes : RatesFrom(l, date) # {}}
                           [] OTHER -> {}
  OBVIOUS
<1> PICK k : k = [NoUpload EXCEPT !.at = "row", !.kind = kind, !.sheet = sheet, !.date = date,
                                  !.seen = there, !.before = there]
  OBVIOUS
<1>1. there \in SUBSET (Names \union Lanes)
  OBVIOUS
<1>s. sheet \in Sheets
  BY DEF Sheets
<1>2. /\ k \in UploadState /\ k.at = "row" /\ k.kind = kind /\ k.sheet = sheet /\ k.date = date
      /\ k.seen = there /\ k.before = there /\ k.done = 0 /\ k.match = None
  BY <1>1, <1>s, NoUploadFits DEF UploadState, NoUpload
<1>3. kind = "masters" => \A i \in 1 .. Len(masters) :
        masters[i].live => masters[i].name \in there
  <2> SUFFICES ASSUME kind = "masters", NEW i \in 1 .. Len(masters), masters[i].live
               PROVE  masters[i].name \in there
    OBVIOUS
  <2>1. DOMAIN masters = 1 .. Len(masters) /\ masters[i] \in Master
    BY TablesDomains DEF ImportsInv
  <2>2. i \in Copies(masters[i].name) /\ masters[i].name \in Names
    BY <2>1 DEF Copies, Master
  <2> QED
    BY <2>2
<1>4. \A l \in Lanes : Cardinality(Listed(sheet, l, 0)) = 0
  <2>1. \A l \in Lanes : Listed(sheet, l, 0) = {}
    BY DEF Listed
  <2> QED
    BY <2>1, FS_EmptySet
<1>5. \A l \in Lanes : Cardinality(Stored(l, date)) \in Nat
  BY StoredNumber DEF ImportsInv
<1>l. Len(sheet) \in Nat
  OBVIOUS
<1>6. Fits(k)
  <2>1. k.kind = "rates" => \A l \in Lanes :
          Cardinality(Stored(l, k.date)) >= Cardinality(Listed(k.sheet, l, k.done))
    BY <1>2, <1>4, <1>5
  <2>2. k.kind = "masters" => \A i \in 1 .. Len(masters) :
          masters[i].live => masters[i].name \in k.seen
    BY <1>2, <1>3
  <2>3. k.sheet \in Seq(IF k.kind = "masters" THEN Names ELSE Lanes) /\ k.done <= Len(k.sheet)
    BY <1>2, <1>l
  <2>4. k.kind # "masters" => k.date \in Dates
    BY <1>2
  <2> QED
    BY <1>2, <2>1, <2>2, <2>3, <2>4 DEF Fits
<1>7. upload' = [upload EXCEPT ![u] = k] /\ UNCHANGED <<masters, rates, doubled, disturbed>>
  BY DEF BeginImport
<1> QED
  BY <1>2, <1>6, <1>7, UploadMoves

LEMMA SkipKeeps ==
  ASSUME ImportsInv, NEW u \in Uploads, NEW kind \in {"masters", "rates"}, SkipRow(u, kind)
  PROVE  ImportsInv'
<1> PICK k : k = upload[u]
  OBVIOUS
<1>1. k \in UploadState /\ Fits(k)
  BY DEF ImportsInv
<1>2. k.at = "row" /\ k.kind = kind /\ k.done < Len(k.sheet) /\ RowOf(k) \in k.seen
  BY DEF SkipRow, AtRow, Row, RowOf
<1>3. /\ upload' = [upload EXCEPT ![u] = NextOf(k)]
      /\ UNCHANGED <<masters, rates, doubled, disturbed>>
  BY DEF SkipRow, NextRow, NextOf
<1>4. k.done \in Nat /\ Len(k.sheet) \in Nat
  BY <1>1, <1>2, SheetRow
<1>5. kind = "rates" => \A l \in Lanes \ (k.before \union disturbed) :
        Cardinality(Stored(l, k.date)) >= Cardinality(Listed(k.sheet, l, k.done + 1))
  <2> SUFFICES ASSUME kind = "rates", NEW l \in Lanes \ (k.before \union disturbed)
               PROVE  Cardinality(Stored(l, k.date)) >= Cardinality(Listed(k.sheet, l, k.done + 1))
    OBVIOUS
  <2>1. k.seen = k.before /\ Cardinality(Stored(l, k.date)) >= Cardinality(Listed(k.sheet, l, k.done))
    BY <1>1, <1>2 DEF Fits
  <2>2. k.sheet[k.done + 1] # l
    BY <1>2, <2>1 DEF RowOf
  <2> QED
    BY <1>4, <2>1, <2>2, ListedNext
<1>6. Fits(NextOf(k)) /\ NextOf(k) \in UploadState
  BY <1>1, <1>2, <1>4, <1>5, NextOfState DEF Fits
<1> QED
  BY <1>3, <1>6, UploadMoves

LEMMA FindKeeps ==
  ASSUME ImportsInv, NEW u \in Uploads, FindRate(u)
  PROVE  ImportsInv'
<1> PICK k : k = upload[u]
  OBVIOUS
<1>1. k \in UploadState /\ Fits(k) /\ upload \in [Uploads -> UploadState]
  BY DEF ImportsInv
<1>2. k.at = "row" /\ k.kind = "tariff" /\ k.done < Len(k.sheet)
  BY DEF FindRate, AtRow
<1>3. PICK i \in IF RatesOn(RowOf(k)) = {} THEN {None} ELSE RatesOn(RowOf(k)) :
        upload' = [upload EXCEPT ![u].at = "write", ![u].match = i]
  BY DEF FindRate, Row, RowOf
<1> PICK m : m = [k EXCEPT !.at = "write", !.match = i]
  OBVIOUS
<1>4. upload' = [upload EXCEPT ![u] = m] /\ UNCHANGED <<masters, rates, doubled, disturbed>>
  BY <1>1, <1>3 DEF FindRate, UploadState
<1>5. DOMAIN rates = 1 .. Len(rates) /\ Len(rates) \in Nat
  BY TablesDomains DEF ImportsInv
<1>6. IF i = None THEN \A j \in 1 .. Len(rates) : rates[j].lane # RowOf(k)
      ELSE i \in 1 .. Len(rates) /\ rates[i].lane = RowOf(k)
  BY <1>3, <1>5, ImportsAssumption DEF RatesOn
<1>i. i \in Nat \union {None}
  BY <1>5, <1>6
<1>7. /\ m \in UploadState /\ m.at = "write" /\ m.match = i /\ m.kind = "tariff"
      /\ m.sheet = k.sheet /\ m.done = k.done /\ m.date = k.date /\ RowOf(m) = RowOf(k)
  BY <1>1, <1>2, <1>i DEF UploadState, RowOf
<1>8. Fits(m)
  BY <1>1, <1>2, <1>6, <1>7 DEF Fits
<1> QED
  BY <1>4, <1>7, <1>8, UploadMoves

LEMMA ReportKeeps ==
  ASSUME ImportsInv, NEW u \in Uploads, ReportRate(u)
  PROVE  ImportsInv'
<1> PICK k : k = upload[u]
  OBVIOUS
<1>1. k \in UploadState /\ Fits(k) /\ k.at = "write"
  BY DEF ImportsInv, ReportRate
<1>2. k.kind = "tariff" /\ k.done < Len(k.sheet)
  BY <1>1 DEF Fits
<1>3. k.done \in Nat /\ Len(k.sheet) \in Nat
  BY <1>1, <1>2, SheetRow
<1>4. /\ upload' = [upload EXCEPT ![u] = NextOf(k)]
      /\ UNCHANGED <<masters, rates, doubled, disturbed>>
  BY DEF ReportRate, NextRow, NextOf
<1>5. Fits(NextOf(k)) /\ NextOf(k) \in UploadState
  BY <1>1, <1>2, <1>3, NextOfState DEF Fits
<1> QED
  BY <1>4, <1>5, UploadMoves

LEMMA EndKeeps ==
  ASSUME ImportsInv, NEW u \in Uploads, EndImport(u) \/ BreakImport(u)
  PROVE  ImportsInv'
<1>1. upload' = [upload EXCEPT ![u] = NoUpload] /\ UNCHANGED <<masters, rates, doubled, disturbed>>
  BY DEF EndImport, BreakImport
<1>2. Fits(NoUpload) /\ NoUpload \in UploadState
  BY NoUploadFits DEF Fits
<1> QED
  BY <1>1, <1>2, UploadMoves


(* --------------------------- each step on the tables --------------------------- *)

\* A row of a customer is appended.
LEMMA MasterAdded ==
  ASSUME TablesTyped, NoDoubles, NEW n \in Names, Len(masters) < MaxRows,
         masters' = Append(masters, [name |-> n, live |-> TRUE]), UNCHANGED <<rates, disturbed>>,
         doubled \subseteq doubled',
         n \in doubled' \/ \A i \in 1 .. Len(masters) : masters[i].live => masters[i].name # n
  PROVE  /\ TablesTyped' /\ NoDoubles' /\ RowsMove
         /\ \A i \in 1 .. Len(masters') :
              \/ masters'[i].name = n
              \/ i \in 1 .. Len(masters) /\ masters'[i] = masters[i]
         /\ Len(rates') = Len(rates) /\ Len(rates) \in Nat
<1> PICK row : row = [name |-> n, live |-> TRUE]
  OBVIOUS
<1>1. row \in Master /\ row.name = n
  BY DEF Master
<1>a. masters' = Append(masters, row) /\ masters \in Seq(Master)
  BY DEF TablesTyped
<1>2. /\ Len(masters) \in Nat /\ Len(masters') = Len(masters) + 1 /\ masters' \in Seq(Master)
      /\ \A i \in 1 .. Len(masters) : masters'[i] = masters[i]
      /\ masters'[Len(masters) + 1] = row
  BY <1>1, <1>a
<1>3. TablesTyped'
  BY <1>2, ImportsAssumption DEF TablesTyped
<1>4. \A i \in 1 .. Len(masters') :
        \/ i = Len(masters) + 1 /\ masters'[i].name = n
        \/ i \in 1 .. Len(masters) /\ masters'[i] = masters[i]
  BY <1>1, <1>2
<1>5. NoDoubles'
  <2>1. (\A i, j \in 1 .. Len(masters) :
          /\ i # j /\ masters[i].live /\ masters[j].live /\ masters[i].name = masters[j].name
          => masters[i].name \in doubled)'
    <3> SUFFICES ASSUME NEW i \in 1 .. Len(masters'), NEW j \in 1 .. Len(masters'), i # j,
                        masters'[i].live, masters'[j].live, masters'[i].name = masters'[j].name
                 PROVE  masters'[i].name \in doubled'
      OBVIOUS
    <3>1. CASE i \in 1 .. Len(masters) /\ j \in 1 .. Len(masters)
      BY <1>2, <3>1 DEF NoDoubles
    <3>2. CASE i = Len(masters) + 1 /\ masters'[i].name = n
      <4>1. j \in 1 .. Len(masters) /\ masters'[j] = masters[j]
        BY <1>4, <3>2
      <4> QED
        BY <3>2, <4>1
    <3>3. CASE j = Len(masters) + 1 /\ masters'[j].name = n
      <4>1. i \in 1 .. Len(masters) /\ masters'[i] = masters[i]
        BY <1>4, <3>3
      <4> QED
        BY <3>3, <4>1
    <3> QED
      BY <1>4, <3>1, <3>2, <3>3
  <2>2. (\A i, j \in 1 .. Len(rates) :
          i # j /\ rates[i].lane \in Lanes /\ rates[i].lane = rates[j].lane => rates[i].lane \in doubled)'
    BY DEF NoDoubles
  <2> QED
    BY <2>1, <2>2 DEF NoDoubles
<1>6. RowsMove /\ Len(rates) \in Nat
  BY DEF RowsMove, OffersChange, TablesTyped
<1> QED
  BY <1>3, <1>4, <1>5, <1>6

\* A rate is appended.
LEMMA RateAdded ==
  ASSUME TablesTyped, NoDoubles, NEW r \in Offer, Len(rates) < MaxRows,
         rates' = Append(rates, r), UNCHANGED <<masters, disturbed>>,
         doubled \subseteq doubled',
         r.lane \in doubled' \/ \A i \in 1 .. Len(rates) : rates[i].lane # r.lane
  PROVE  /\ TablesTyped' /\ NoDoubles' /\ RowsMove
         /\ Len(rates) \in Nat /\ Len(rates') = Len(rates) + 1
         /\ \A i \in 1 .. Len(rates) : rates'[i] = rates[i]
         /\ rates'[Len(rates) + 1] = r
         /\ \A i \in 1 .. Len(rates') : i > Len(rates) => rates'[i] = r
<1>1. /\ Len(rates) \in Nat /\ Len(rates') = Len(rates) + 1 /\ rates' \in Seq(Offer \union {Gone})
      /\ \A i \in 1 .. Len(rates) : rates'[i] = rates[i]
      /\ rates'[Len(rates) + 1] = r
  BY DEF TablesTyped
<1>2. TablesTyped'
  BY <1>1, ImportsAssumption DEF TablesTyped
<1>3. \A i \in 1 .. Len(rates') : i > Len(rates) => rates'[i] = r
  BY <1>1
<1>4. RowsMove
  BY <1>1 DEF RowsMove, OffersChange
<1>5. NoDoubles'
  <2>1. (\A i, j \in 1 .. Len(masters) :
          /\ i # j /\ masters[i].live /\ masters[j].live /\ masters[i].name = masters[j].name
          => masters[i].name \in doubled)'
    BY DEF NoDoubles
  <2>2. (\A i, j \in 1 .. Len(rates) :
          i # j /\ rates[i].lane \in Lanes /\ rates[i].lane = rates[j].lane => rates[i].lane \in doubled)'
    <3> SUFFICES ASSUME NEW i \in 1 .. Len(rates'), NEW j \in 1 .. Len(rates'), i # j,
                        rates'[i].lane \in Lanes, rates'[i].lane = rates'[j].lane
                 PROVE  rates'[i].lane \in doubled'
      OBVIOUS
    <3>1. CASE i \in 1 .. Len(rates) /\ j \in 1 .. Len(rates)
      BY <1>1, <3>1 DEF NoDoubles
    <3>2. CASE i = Len(rates) + 1
      <4>1. j \in 1 .. Len(rates)
        BY <1>1, <3>2
      <4> QED
        BY <1>1, <3>2, <4>1
    <3>3. CASE j = Len(rates) + 1
      <4>1. i \in 1 .. Len(rates)
        BY <1>1, <3>3
      <4> QED
        BY <1>1, <3>3, <4>1
    <3> QED
      BY <1>1, <3>1, <3>2, <3>3
  <2> QED
    BY <2>1, <2>2 DEF NoDoubles
<1> QED
  BY <1>1, <1>2, <1>3, <1>4, <1>5

\* A rate is written over by another of its lane, or deleted.
LEMMA RateChanged ==
  ASSUME TablesTyped, NoDoubles, NEW i \in 1 .. Len(rates), NEW r \in Offer \union {Gone},
         r.lane \in {rates[i].lane, None},
         rates' = [rates EXCEPT ![i] = r], UNCHANGED <<masters, doubled>>,
         disturbed \subseteq disturbed', rates[i].lane \in disturbed'
  PROVE  TablesTyped' /\ NoDoubles' /\ RowsMove /\ Len(rates') = Len(rates) /\ Len(rates) \in Nat
<1>1. /\ Len(rates) \in Nat /\ Len(rates') = Len(rates) /\ rates' \in Seq(Offer \union {Gone})
      /\ \A j \in 1 .. Len(rates) : rates'[j] = IF j = i THEN r ELSE rates[j]
  BY DEF TablesTyped
<1>2. TablesTyped'
  BY <1>1 DEF TablesTyped
<1>3. \A j \in 1 .. Len(rates) : rates'[j].lane \in Lanes => rates'[j].lane = rates[j].lane
  BY <1>1, ImportsAssumption
<1>4. NoDoubles'
  BY <1>1, <1>3 DEF NoDoubles
<1>5. RowsMove
  BY <1>1 DEF RowsMove, OffersChange
<1> QED
  BY <1>1, <1>2, <1>4, <1>5


\* What is left to show of an import that has dealt with a row: its table.
LEMMA NextFits ==
  ASSUME NEW k \in UploadState, Fits(k), k.at # "idle", k.done < Len(k.sheet),
         k.kind # "masters"
  PROVE  /\ k.kind = "tariff" => Fits(NextOf(k))'
         /\ (k.kind = "rates" => \A l \in Lanes \ (k.before \union disturbed') :
               Cardinality(Stored(l, k.date)') >= Cardinality(Listed(k.sheet, l, k.done + 1)))
            => Fits(NextOf(k))'
<1>1. k.done \in Nat /\ Len(k.sheet) \in Nat
  BY SheetRow
<1>2. NextOf(k)' = NextOf(k)
  BY DEF NextOf
<1> QED
  BY <1>1, <1>2, NextOfState DEF Fits, Stored, Listed

LEMMA ImportMasterKeeps ==
  ASSUME ImportsInv, NEW u \in Uploads, ImportMaster(u)
  PROVE  ImportsInv'
<1> PICK k : k = upload[u]
  OBVIOUS
<1> PICK row : row = RowOf(k)
  OBVIOUS
<1> PICK m : m = [NextOf(k) EXCEPT !.seen = @ \union {row}]
  OBVIOUS
<1>1. /\ k \in UploadState /\ Fits(k) /\ upload \in [Uploads -> UploadState]
      /\ TablesTyped /\ NoDoubles
  BY DEF ImportsInv
<1>2. k.at = "row" /\ k.kind = "masters" /\ k.done < Len(k.sheet) /\ row \notin k.seen
  BY DEF ImportMaster, AtRow, Row, RowOf
<1>3. k.done \in Nat /\ Len(k.sheet) \in Nat /\ row \in Names
  BY <1>1, <1>2, SheetRow
<1>4. /\ upload' = [upload EXCEPT ![u] = m]
      /\ masters' = Append(masters, [name |-> row, live |-> TRUE]) /\ Len(masters) < MaxRows
      /\ UNCHANGED <<rates, disturbed>>
      /\ doubled' = IF Others(u) THEN doubled \union {row} ELSE doubled
  BY DEF ImportMaster, SeenToo, NextRow, NextOf, Row, RowOf
<1>5. row \in doubled' \/ \A i \in 1 .. Len(masters) : masters[i].live => masters[i].name # row
  BY <1>1, <1>2, <1>4 DEF Fits
<1>6. /\ TablesTyped' /\ NoDoubles' /\ RowsMove
      /\ \A i \in 1 .. Len(masters') :
           \/ masters'[i].name = row
           \/ i \in 1 .. Len(masters) /\ masters'[i] = masters[i]
      /\ Len(rates') = Len(rates) /\ Len(rates) \in Nat
  <2>1. doubled \subseteq doubled'
    BY <1>4
  <2> QED
    BY <1>1, <1>3, <1>4, <1>5, <2>1, MasterAdded
<1>7. /\ m \in UploadState /\ m.at = "row" /\ m.kind = "masters" /\ m.sheet = k.sheet
      /\ m.done = k.done + 1 /\ m.seen = k.seen \union {row}
  <2>1. NextOf(k) \in UploadState /\ k.seen \union {row} \in SUBSET (Names \union Lanes)
    BY <1>1, <1>3, NextOfState DEF UploadState
  <2>2. m \in UploadState /\ m.seen = NextOf(k).seen \union {row} /\ m.at = NextOf(k).at
        /\ m.kind = NextOf(k).kind /\ m.sheet = NextOf(k).sheet /\ m.done = NextOf(k).done
    BY <1>1, <2>1, NextOfState DEF UploadState
  <2> QED
    BY <1>1, <1>2, <2>2, NextOfState
<1>8. Fits(m)'
  <2>1. (\A i \in 1 .. Len(masters) :
           masters[i].live => masters[i].name \in m.seen \/ masters[i].name \in doubled)'
    BY <1>1, <1>2, <1>4, <1>6, <1>7 DEF Fits
  <2> QED
    BY <1>1, <1>2, <1>3, <1>7, <2>1 DEF Fits
<1>9. \A v \in Uploads \ {u} : MastersFor(upload[v]) /\ OffersFor(upload[v])
  <2> SUFFICES ASSUME NEW v \in Uploads \ {u} PROVE MastersFor(upload[v]) /\ OffersFor(upload[v])
    OBVIOUS
  <2>1. upload[v].kind = "masters" => row \in doubled'
    BY <1>2, <1>4 DEF Others
  <2> QED
    BY <1>6, <2>1 DEF MastersFor, OffersFor
<1> QED
  BY <1>4, <1>6, <1>7, <1>8, <1>9, OthersFit

LEMMA ImportRateKeeps ==
  ASSUME ImportsInv, NEW u \in Uploads, ImportRate(u)
  PROVE  ImportsInv'
<1> PICK k : k = upload[u]
  OBVIOUS
<1> PICK row : row = RowOf(k)
  OBVIOUS
<1> PICK r : r = [lane |-> row, date |-> k.date]
  OBVIOUS
<1>1. /\ k \in UploadState /\ Fits(k) /\ upload \in [Uploads -> UploadState]
      /\ TablesTyped /\ NoDoubles
  BY DEF ImportsInv
<1>2. k.at = "row" /\ k.kind = "rates" /\ k.done < Len(k.sheet) /\ row \notin k.seen
  BY DEF ImportRate, AtRow, Row, RowOf
<1>3. k.done \in Nat /\ Len(k.sheet) \in Nat /\ row \in Lanes /\ k.date \in Dates
  BY <1>1, <1>2, SheetRow DEF Fits
<1>4. /\ upload' = [upload EXCEPT ![u] = NextOf(k)]
      /\ rates' = Append(rates, r) /\ Len(rates) < MaxRows
      /\ UNCHANGED <<masters, disturbed>>
      /\ doubled' = doubled \union {row}
  BY DEF ImportRate, NextRow, NextOf, Row, RowOf
<1>5. r \in Offer /\ r.lane = row /\ r.date = k.date
  BY <1>3 DEF Offer
<1>6. /\ TablesTyped' /\ NoDoubles' /\ RowsMove
      /\ Len(rates) \in Nat /\ Len(rates') = Len(rates) + 1
      /\ \A i \in 1 .. Len(rates) : rates'[i] = rates[i]
      /\ rates'[Len(rates) + 1] = r
      /\ \A i \in 1 .. Len(rates') : i > Len(rates) => rates'[i] = r
  <2>1. doubled \subseteq doubled' /\ r.lane \in doubled'
    BY <1>4, <1>5
  <2> QED
    BY <1>1, <1>4, <1>5, <2>1, RateAdded
<1>7. \A l \in Lanes \ (k.before \union disturbed') :
        Cardinality(Stored(l, k.date)') >= Cardinality(Listed(k.sheet, l, k.done + 1))
  <2> SUFFICES ASSUME NEW l \in Lanes \ (k.before \union disturbed')
               PROVE  Cardinality(Stored(l, k.date)') >= Cardinality(Listed(k.sheet, l, k.done + 1))
    OBVIOUS
  <2> PICK date : date = k.date
    OBVIOUS
  <2>0. Stored(l, k.date)' = Stored(l, date)'
    BY DEF Stored
  <2>1. Cardinality(Stored(l, date)) >= Cardinality(Listed(k.sheet, l, k.done))
    BY <1>1, <1>2, <1>4 DEF Fits
  <2>2. /\ Cardinality(Listed(k.sheet, l, k.done)) \in Nat
        /\ row # l => Listed(k.sheet, l, k.done + 1) = Listed(k.sheet, l, k.done)
        /\ Cardinality(Listed(k.sheet, l, k.done + 1)) <= Cardinality(Listed(k.sheet, l, k.done)) + 1
    BY <1>3, ListedNext DEF RowOf
  <2>2a. Cardinality(Listed(k.sheet, l, k.done + 1)) \in Nat
    BY <1>3, ListedNext
  <2>3. IsFiniteSet(Stored(l, date)) /\ Cardinality(Stored(l, date)) \in Nat
    BY <1>1, StoredNumber
  <2>4. CASE row # l
    <3>1. Stored(l, date)' = Stored(l, date)
      BY <1>5, <1>6, <2>4 DEF Stored
    <3> QED
      BY <2>0, <2>1, <2>2, <2>4, <3>1
  <2>5. CASE row = l
    <3>1. Stored(l, date)' = Stored(l, date) \union {Len(rates) + 1}
      BY <1>5, <1>6, <2>5 DEF Stored
    <3>2. Len(rates) + 1 \notin Stored(l, date)
      BY <1>6 DEF Stored
    <3>3. Cardinality(Stored(l, date) \union {Len(rates) + 1}) = Cardinality(Stored(l, date)) + 1
      BY <2>3, <3>2, FS_AddElement
    <3> QED
      BY <2>0, <2>1, <2>2, <2>2a, <2>3, <3>1, <3>3
  <2> QED
    BY <2>4, <2>5
<1>8. Fits(NextOf(k))' /\ NextOf(k) \in UploadState
  BY <1>1, <1>2, <1>7, NextFits, NextOfState
<1>9. \A v \in Uploads \ {u} : MastersFor(upload[v]) /\ OffersFor(upload[v])
  BY <1>4, <1>5, <1>6 DEF MastersFor, OffersFor
<1>10. NextOf(k)' = NextOf(k)
  BY DEF NextOf
<1> QED
  BY <1>4, <1>6, <1>8, <1>9, <1>10, OthersFit

LEMMA WriteKeeps ==
  ASSUME ImportsInv, NEW u \in Uploads, WriteRate(u)
  PROVE  ImportsInv'
<1> PICK k : k = upload[u]
  OBVIOUS
<1> PICK row : row = RowOf(k)
  OBVIOUS
<1> PICK r : r = [lane |-> row, date |-> k.date]
  OBVIOUS
<1>1. /\ k \in UploadState /\ Fits(k) /\ upload \in [Uploads -> UploadState]
      /\ TablesTyped /\ NoDoubles
  BY DEF ImportsInv
<1>2. k.at = "write" /\ k.kind = "tariff" /\ k.done < Len(k.sheet)
  BY <1>1 DEF WriteRate, Fits
<1>3. k.done \in Nat /\ Len(k.sheet) \in Nat /\ row \in Lanes /\ k.date \in Dates
  BY <1>1, <1>2, SheetRow DEF Fits
<1>4. r \in Offer /\ r.lane = row
  BY <1>3 DEF Offer
<1>5. upload' = [upload EXCEPT ![u] = NextOf(k)] /\ UNCHANGED masters
  BY DEF WriteRate, NextRow, NextOf
<1>6. Fits(NextOf(k))' /\ NextOf(k) \in UploadState
  BY <1>1, <1>2, NextFits, NextOfState
<1>7. CASE k.match = None
  <2>1. /\ rates' = Append(rates, r) /\ Len(rates) < MaxRows /\ UNCHANGED disturbed
        /\ doubled' = IF Others(u) THEN doubled \union {row} ELSE doubled
    BY <1>7 DEF WriteRate, Row, RowOf
  <2>2. r.lane \in doubled' \/ \A i \in 1 .. Len(rates) : rates[i].lane # r.lane
    BY <1>1, <1>2, <1>4, <1>7, <2>1 DEF Fits
  <2>3. doubled \subseteq doubled'
    BY <2>1
  <2>4. /\ TablesTyped' /\ NoDoubles' /\ RowsMove
        /\ \A i \in 1 .. Len(rates') : i > Len(rates) => rates'[i] = r
    BY <1>1, <1>4, <1>5, <2>1, <2>2, <2>3, RateAdded
  <2>5. \A v \in Uploads \ {u} : MastersFor(upload[v]) /\ OffersFor(upload[v])
    <3> SUFFICES ASSUME NEW v \in Uploads \ {u} PROVE MastersFor(upload[v]) /\ OffersFor(upload[v])
      OBVIOUS
    <3>1. upload[v].kind = "tariff" => row \in doubled'
      BY <1>2, <2>1 DEF Others
    <3> QED
      BY <1>4, <1>5, <2>4, <3>1 DEF MastersFor, OffersFor
  <2> QED
    BY <1>5, <1>6, <2>4, <2>5, OthersFit
<1>8. CASE k.match # None
  <2>1. /\ rates[k.match] # Gone /\ rates' = [rates EXCEPT ![k.match] = r]
        /\ disturbed' = disturbed \union {row} /\ UNCHANGED doubled
    BY <1>8 DEF WriteRate, Row, RowOf
  <2>2. k.match \in 1 .. Len(rates) /\ rates[k.match].lane \in {row, None}
    BY <1>1, <1>2, <1>8 DEF Fits
  <2>3. rates[k.match].lane = row
    <3>1. rates[k.match] \in Offer \union {Gone}
      BY <1>1, <2>2, TablesDomains
    <3>2. rates[k.match].lane \in Lanes
      BY <2>1, <3>1, GoneRate
    <3> QED
      BY <2>2, <3>2, ImportsAssumption
  <2>4. disturbed \subseteq disturbed' /\ row \in disturbed'
    BY <2>1
  <2>5. TablesTyped' /\ NoDoubles' /\ RowsMove /\ Len(rates') = Len(rates) /\ Len(rates) \in Nat
    BY <1>1, <1>4, <1>5, <2>1, <2>2, <2>3, <2>4, RateChanged
  <2>6. \A v \in Uploads \ {u} : MastersFor(upload[v]) /\ OffersFor(upload[v])
    BY <1>5, <2>5 DEF MastersFor, OffersFor
  <2> QED
    BY <1>5, <1>6, <2>5, <2>6, OthersFit
<1> QED
  BY <1>7, <1>8

(* ---------------------------------- by hand ---------------------------------- *)

LEMMA AddMasterKeeps ==
  ASSUME ImportsInv, NEW n \in Names, AddMaster(n)
  PROVE  ImportsInv'
<1>1. TablesTyped /\ NoDoubles
  BY DEF ImportsInv
<1>2. /\ Len(masters) < MaxRows /\ masters' = Append(masters, [name |-> n, live |-> TRUE])
      /\ UNCHANGED <<rates, disturbed>> /\ doubled \subseteq doubled' /\ n \in doubled'
      /\ UNCHANGED upload
  BY DEF AddMaster
<1>3. /\ TablesTyped' /\ NoDoubles' /\ RowsMove
      /\ \A i \in 1 .. Len(masters') :
           \/ masters'[i].name = n
           \/ i \in 1 .. Len(masters) /\ masters'[i] = masters[i]
      /\ Len(rates') = Len(rates) /\ Len(rates) \in Nat
  BY <1>1, <1>2, MasterAdded
<1>4. \A v \in Uploads : MastersFor(upload[v]) /\ OffersFor(upload[v])
  BY <1>2, <1>3 DEF MastersFor, OffersFor
<1> QED
  BY <1>2, <1>3, <1>4, AllFit

LEMMA BinKeeps ==
  ASSUME ImportsInv, NEW i \in DOMAIN masters, BinMaster(i)
  PROVE  ImportsInv'
<1>1. /\ TablesTyped /\ NoDoubles /\ i \in 1 .. Len(masters) /\ Len(masters) \in Nat
      /\ masters \in Seq(Master) /\ \A j \in 1 .. Len(masters) : masters[j] \in Master
  BY TablesDomains DEF ImportsInv, TablesTyped
<1> PICK row : row = [masters[i] EXCEPT !.live = ~@]
  OBVIOUS
<1>2. row \in Master /\ row.name = masters[i].name /\ row.live = ~masters[i].live
  BY <1>1 DEF Master
<1>3. /\ masters' = [masters EXCEPT ![i] = row] /\ UNCHANGED <<rates, upload, disturbed>>
      /\ doubled \subseteq doubled' /\ (row.live => row.name \in doubled')
  BY <1>1, <1>2 DEF BinMaster, Master
<1>4. /\ masters' \in Seq(Master) /\ Len(masters') = Len(masters)
      /\ \A j \in 1 .. Len(masters) : masters'[j] = IF j = i THEN row ELSE masters[j]
  BY <1>1, <1>2, <1>3
<1>5. TablesTyped'
  BY <1>1, <1>3, <1>4 DEF TablesTyped
<1>6. NoDoubles'
  <2>1. (\A x, y \in 1 .. Len(masters) :
          /\ x # y /\ masters[x].live /\ masters[y].live /\ masters[x].name = masters[y].name
          => masters[x].name \in doubled)'
    BY <1>1, <1>2, <1>3, <1>4 DEF NoDoubles
  <2>2. (\A x, y \in 1 .. Len(rates) :
          x # y /\ rates[x].lane \in Lanes /\ rates[x].lane = rates[y].lane => rates[x].lane \in doubled)'
    BY <1>1, <1>3 DEF NoDoubles
  <2> QED
    BY <2>1, <2>2 DEF NoDoubles
<1>7. RowsMove /\ Len(rates) \in Nat
  BY <1>1, <1>3 DEF RowsMove, OffersChange, TablesTyped
<1>8. \A v \in Uploads : MastersFor(upload[v]) /\ OffersFor(upload[v])
  <2>1. \A j \in 1 .. Len(masters') : masters'[j].live =>
          \/ masters'[j].name \in doubled'
          \/ j \in 1 .. Len(masters) /\ masters[j].live /\ masters[j].name = masters'[j].name
    BY <1>2, <1>3, <1>4
  <2> QED
    BY <1>3, <1>7, <2>1 DEF MastersFor, OffersFor
<1> QED
  BY <1>3, <1>5, <1>6, <1>7, <1>8, AllFit

LEMMA AddRateKeeps ==
  ASSUME ImportsInv, NEW lane \in Lanes, NEW date \in Dates, AddRate(lane, date)
  PROVE  ImportsInv'
<1> PICK r : r = [lane |-> lane, date |-> date]
  OBVIOUS
<1>1. TablesTyped /\ NoDoubles /\ r \in Offer /\ r.lane = lane
  BY DEF ImportsInv, Offer
<1>2. /\ Len(rates) < MaxRows /\ rates' = Append(rates, r)
      /\ UNCHANGED <<masters, disturbed>> /\ doubled \subseteq doubled' /\ r.lane \in doubled'
      /\ UNCHANGED upload
  BY <1>1 DEF AddRate
<1>3. /\ TablesTyped' /\ NoDoubles' /\ RowsMove
      /\ \A i \in 1 .. Len(rates') : i > Len(rates) => rates'[i] = r
  BY <1>1, <1>2, RateAdded
<1>4. \A v \in Uploads : MastersFor(upload[v]) /\ OffersFor(upload[v])
  BY <1>2, <1>3 DEF MastersFor, OffersFor
<1> QED
  BY <1>2, <1>3, <1>4, AllFit

LEMMA ChangeKeeps ==
  ASSUME ImportsInv, NEW i \in DOMAIN rates, ChangeOffer(i)
  PROVE  ImportsInv'
<1>1. /\ TablesTyped /\ NoDoubles /\ i \in 1 .. Len(rates) /\ rates[i] \in Offer \union {Gone}
      /\ rates[i] # Gone
  BY TablesDomains DEF ImportsInv, ChangeOffer
<1>2. PICK r \in {Gone} \union {[rates[i] EXCEPT !.date = d] : d \in Dates} :
        rates' = [rates EXCEPT ![i] = r]
  BY DEF ChangeOffer
<1>3. r \in Offer \union {Gone} /\ r.lane \in {rates[i].lane, None}
  BY <1>1 DEF Offer, Gone
<1>4. /\ UNCHANGED <<masters, doubled>> /\ UNCHANGED upload
      /\ disturbed \subseteq disturbed' /\ rates[i].lane \in disturbed'
  BY DEF ChangeOffer
<1>5. TablesTyped' /\ NoDoubles' /\ RowsMove /\ Len(rates') = Len(rates) /\ Len(rates) \in Nat
  BY <1>1, <1>2, <1>3, <1>4, RateChanged
<1>6. \A v \in Uploads : MastersFor(upload[v]) /\ OffersFor(upload[v])
  BY <1>4, <1>5 DEF MastersFor, OffersFor
<1> QED
  BY <1>4, <1>5, <1>6, AllFit


(* ----------------------------------- steps ----------------------------------- *)

LEMMA SheetsTyped ==
  ASSUME NEW keys, NEW sheet \in SheetsOf(keys)
  PROVE  sheet \in Seq(keys)
<1>1. PICK n \in 1 .. MaxLength : sheet \in [1 .. n -> keys]
  BY DEF SheetsOf
<1>2. n \in Nat
  BY <1>1, ImportsAssumption
<1> QED
  BY <1>1, <1>2

LEMMA ImportsStep ==
  ASSUME ImportsInv, [ImportsNext]_importVars
  PROVE  ImportsInv'
<1>1. ASSUME NEW u \in Uploads, UploadStep(u) PROVE ImportsInv'
  <2>1. ASSUME NEW sheet \in SheetsOf(Names), BeginImport(u, "masters", sheet, None)
        PROVE  ImportsInv'
    BY <2>1, SheetsTyped, BeginKeeps
  <2>2. ASSUME NEW kind \in {"rates", "tariff"}, NEW sheet \in SheetsOf(Lanes), NEW date \in Dates,
               BeginImport(u, kind, sheet, date)
        PROVE  ImportsInv'
    <3>1. sheet \in Seq(Lanes)
      BY SheetsTyped
    <3>2. /\ kind \in {"masters", "rates", "tariff"} /\ date \in Dates \union {None}
          /\ sheet \in Seq(IF kind = "masters" THEN Names ELSE Lanes)
      BY <3>1
    <3> QED
      BY <2>2, <3>2, BeginKeeps
  <2>3. ASSUME NEW kind \in {"masters", "rates"}, SkipRow(u, kind) PROVE ImportsInv'
    BY <2>3, SkipKeeps
  <2>4. CASE ImportMaster(u)
    BY <2>4, ImportMasterKeeps
  <2>5. CASE ImportRate(u)
    BY <2>5, ImportRateKeeps
  <2>6. CASE FindRate(u)
    BY <2>6, FindKeeps
  <2>7. CASE WriteRate(u)
    BY <2>7, WriteKeeps
  <2>8. CASE ReportRate(u)
    BY <2>8, ReportKeeps
  <2>9. CASE EndImport(u) \/ BreakImport(u)
    BY <2>9, EndKeeps
  <2> QED
    BY <1>1, <2>1, <2>2, <2>3, <2>4, <2>5, <2>6, <2>7, <2>8, <2>9 DEF UploadStep
<1>2. ASSUME NEW n \in Names, AddMaster(n) PROVE ImportsInv'
  BY <1>2, AddMasterKeeps
<1>3. ASSUME NEW i \in DOMAIN masters, BinMaster(i) PROVE ImportsInv'
  BY <1>3, BinKeeps
<1>4. ASSUME NEW lane \in Lanes, NEW date \in Dates, AddRate(lane, date) PROVE ImportsInv'
  BY <1>4, AddRateKeeps
<1>5. ASSUME NEW i \in DOMAIN rates, ChangeOffer(i) PROVE ImportsInv'
  BY <1>5, ChangeKeeps
<1>6. CASE UNCHANGED importVars
  BY <1>6 DEF importVars, ImportsInv, TablesTyped, NoDoubles, Fits, Stored
<1> QED
  BY <1>1, <1>2, <1>3, <1>4, <1>5, <1>6 DEF ImportsNext

\* Whatever the sheets and however the imports interleave, each import knows the customers that
\* are there or they are doubled with an explanation, and has stored the offers it has read.
THEOREM ImportsInvariant == OfficeSpec => []ImportsInv
<1>1. OfficeInit => ImportsInv
  BY ImportsStart DEF OfficeInit
<1>2. ImportsInv /\ [OfficeNext]_officeVars => ImportsInv'
  BY ImportsRun, ImportsStep
<1> QED
  BY <1>1, <1>2, PTL DEF OfficeSpec

\* The invariant holds of doubles and of an import that ends.
LEMMA TwoOfThem ==
  ASSUME NEW n \in Nat, NEW S \in SUBSET (1 .. n), Cardinality(S) > 1
  PROVE  \E i, j \in S : i # j
<1>1. IsFiniteSet(1 .. n) /\ IsFiniteSet(S)
  <2>1. IsFiniteSet(1 .. n)
    BY FS_Interval
  <2> QED
    BY <2>1, FS_Subset
<1>2. S # {}
  BY FS_EmptySet
<1>3. PICK i \in S : TRUE
  BY <1>2
<1>4. S # {i}
  <2>1. Cardinality({i}) = 1
    BY FS_Singleton
  <2> QED
    BY <2>1
<1> QED
  BY <1>3, <1>4

LEMMA DoublesExplained ==
  ASSUME ImportsInv
  PROVE  NothingDoubled
<1>1. /\ DOMAIN masters = 1 .. Len(masters) /\ Len(masters) \in Nat
      /\ \A i \in 1 .. Len(masters) : masters[i] \in Master
      /\ DOMAIN rates = 1 .. Len(rates) /\ Len(rates) \in Nat
  BY TablesDomains DEF ImportsInv
<1>2. ASSUME NEW n \in Names, Cardinality(Copies(n)) > 1 PROVE n \in doubled
  <2>1. Copies(n) \in SUBSET (1 .. Len(masters))
    BY <1>1 DEF Copies
  <2>2. PICK i, j \in Copies(n) : i # j
    BY <1>1, <1>2, <2>1, TwoOfThem
  <2>3. /\ i \in 1 .. Len(masters) /\ masters[i].live /\ masters[i].name = n
        /\ j \in 1 .. Len(masters) /\ masters[j].live /\ masters[j].name = n
    BY <1>1 DEF Copies
  <2> QED
    BY <2>2, <2>3 DEF ImportsInv, NoDoubles
<1>3. ASSUME NEW l \in Lanes, Cardinality(RatesOn(l)) > 1 PROVE l \in doubled
  <2>1. RatesOn(l) \in SUBSET (1 .. Len(rates))
    BY <1>1 DEF RatesOn
  <2>2. PICK i, j \in RatesOn(l) : i # j
    BY <1>1, <1>3, <2>1, TwoOfThem
  <2>3. /\ i \in 1 .. Len(rates) /\ rates[i].lane = l
        /\ j \in 1 .. Len(rates) /\ rates[j].lane = l
    BY <1>1 DEF RatesOn
  <2> QED
    BY <2>2, <2>3 DEF ImportsInv, NoDoubles
<1> QED
  BY <1>2, <1>3 DEF NothingDoubled

LEMMA EndedWhole ==
  ASSUME ImportsInv, NEW u \in Uploads, EndImport(u), upload[u].kind = "rates"
  PROVE  OffersKept(u)
<1> PICK k : k = upload[u]
  OBVIOUS
<1>1. /\ k \in UploadState /\ Fits(k) /\ k.at = "row" /\ k.kind = "rates"
      /\ k.done = Len(k.sheet) /\ DOMAIN rates = 1 .. Len(rates)
  BY TablesDomains DEF ImportsInv, EndImport
<1>2. k.sheet \in Seq(Lanes) /\ DOMAIN k.sheet = 1 .. k.done
  BY <1>1 DEF Fits
<1>3. \A l \in Lanes : RatesFrom(l, k.date) = Stored(l, k.date)
  BY <1>1 DEF RatesFrom, RatesOn, Stored
<1>4. \A l \in Lanes : {n \in DOMAIN k.sheet : k.sheet[n] = l} = Listed(k.sheet, l, k.done)
  BY <1>2 DEF Listed
<1>5. \A l \in Lanes \ (k.before \union disturbed) :
        Cardinality(Stored(l, k.date)) >= Cardinality(Listed(k.sheet, l, k.done))
  BY <1>1 DEF Fits
<1> QED
  BY <1>3, <1>4, <1>5 DEF OffersKept

\* Uploading a sheet again doubles nobody, and the offers of a new lane are all stored when
\* the import ends, for any number of imports, rows and lanes.
THEOREM ImportsCorrect == OfficeSpec => SheetsStoredOnce
<1>1. ImportsInv => NothingDoubled
  BY DoublesExplained
<1>2. ImportsInv /\ NothingDoubled' /\ [OfficeNext]_officeVars =>
        [/\ NothingDoubled'
         /\ \A u \in Uploads :
              EndImport(u) /\ upload[u].kind = "rates" => OffersKept(u)]_importVars
  BY EndedWhole
<1>3. OfficeSpec => []NothingDoubled
  BY <1>1, ImportsInvariant, PTL
<1> QED
  BY <1>2, <1>3, ImportsInvariant, PTL DEF OfficeSpec, SheetsStoredOnce


(* ---------------------------- document numbers ---------------------------- *)

\* A step of the server moves numbering by one of its own steps or not at all.
LEMMA NumberingRuns == [OfficeNext]_officeVars => [NumberingNext]_numberVars
  BY DEF OfficeNext, officeVars, OfSignIn, OfAccess, OfCredit, OfImports, OfFiles, OfReminders,
         OfNumbers

Rows == Receipted \union {"sequence"}

Number == Nat \X Nat

\* Numbers that were drawn: of stored documents, of lost ones, and of those being stored.
Drawn == numbers \union lost \union Pending

\* A request that reads or writes the row of the sequence holds its lock, and what it has read
\* is what the row says.
CallsInv ==
  /\ year \in [Hosts -> Nat]
  /\ call \in [Callers -> [at : {"idle", "link", "lock", "draw", "net", "insert"},
                           row : Rows \union {None}, number : Number \union {None}]]
  /\ locks \in [Rows -> Callers \union {None}]
  /\ \A c \in Callers :
       /\ call[c].at # "idle" => call[c].row \in Rows
       /\ call[c].at \in {"draw", "net"} => locks[call[c].row] = c
       /\ call[c].at = "draw" =>
            call[c].row = "sequence" /\ call[c].number = <<counter.scope, counter.next>>
       /\ call[c].at = "insert" => call[c].number \in Number

\* Unless a host behind the year has set the count back, every number that was drawn comes
\* before the next one.
CountInv ==
  /\ counter \in [next : Nat \ {0}, scope : Nat]
  /\ skewed \in BOOLEAN
  /\ Drawn \subseteq Number
  /\ ~skewed => \A number \in Drawn :
       number[1] < counter.scope \/ (number[1] = counter.scope /\ number[2] < counter.next)
  /\ GapsExplained

NumbersInv == CallsInv /\ CountInv

CallState == [at : {"idle", "link", "lock", "draw", "net", "insert"},
              row : Rows \union {None}, number : Number \union {None}]

LEMMA NumberingStarts == NumberingInit => NumbersInv
<1> SUFFICES ASSUME NumberingInit PROVE NumbersInv
  OBVIOUS
<1>1. Pending = {}
  BY DEF NumberingInit, Pending, NoCall
<1>2. Drawn = {} /\ counter = [next |-> 1, scope |-> 1] /\ skewed = FALSE
  BY <1>1 DEF NumberingInit, Drawn
<1>3. GapsExplained
  <2>1. counter.next - 1 = 0
    BY <1>2
  <2> QED
    BY <2>1 DEF GapsExplained
<1>4. CountInv
  <2>1. counter \in [next : Nat \ {0}, scope : Nat]
    BY <1>2
  <2> QED
    BY <2>1, <1>2, <1>3 DEF CountInv
<1>5. CallsInv
  BY DEF NumberingInit, CallsInv, NoCall, Rows
<1> QED
  BY <1>4, <1>5 DEF NumbersInv

\* As long as the sequence and the numbers drawn from it stay, the count stays right.
LEMMA CountKept ==
  ASSUME CountInv, UNCHANGED <<counter, skewed>>, Drawn' = Drawn
  PROVE  CountInv'
  BY DEF CountInv, GapsExplained, Drawn

\* A request that is not storing a document moves on, without drawing.
LEMMA PendingKept ==
  ASSUME CallsInv, NEW c \in Callers, NEW r, call' = [call EXCEPT ![c] = r],
         call[c].at # "insert", r.at # "insert", UNCHANGED <<numbers, lost>>
  PROVE  Drawn' = Drawn
<1>1. call'[c] = r /\ \A d \in Callers : d # c => call'[d] = call[d]
  BY DEF CallsInv
<1>2. {d \in Callers : call'[d].at = "insert"} = {d \in Callers : call[d].at = "insert"}
  BY <1>1
<1>3. Pending' = Pending
  BY <1>1, <1>2 DEF Pending
<1> QED
  BY <1>3 DEF Drawn

\* A request that holds no lock, and is not given one, moves on.
LEMMA UnlockedMove ==
  ASSUME NumbersInv, NEW c \in Callers, NEW r \in CallState, call' = [call EXCEPT ![c] = r],
         call[c].at # "insert", r.at \in {"idle", "link", "lock"}, r.at # "idle" => r.row \in Rows,
         locks' = locks \/ locks' = Unlock(c),
         UNCHANGED <<counter, year, numbers, lost, skewed>>
  PROVE  NumbersInv'
<1>1. Drawn' = Drawn
  BY PendingKept DEF NumbersInv
<1>2. CountInv'
  BY <1>1, CountKept DEF NumbersInv
<1>3. call'[c] = r /\ \A d \in Callers : d # c => call'[d] = call[d]
  BY DEF NumbersInv, CallsInv
<1>4. /\ locks' \in [Rows -> Callers \union {None}]
      /\ \A d \in Callers, x \in Rows : d # c /\ locks[x] = d => locks'[x] = d
  BY DEF Unlock, NumbersInv, CallsInv
<1>5. call' \in [Callers -> CallState]
  BY DEF NumbersInv, CallsInv, CallState
<1>6. ASSUME NEW d \in Callers
      PROVE  /\ call'[d].at # "idle" => call'[d].row \in Rows
             /\ call'[d].at \in {"draw", "net"} => locks'[call'[d].row] = d
             /\ call'[d].at = "draw" =>
                  call'[d].row = "sequence" /\ call'[d].number = <<counter'.scope, counter'.next>>
             /\ call'[d].at = "insert" => call'[d].number \in Number
  BY <1>3, <1>4 DEF NumbersInv, CallsInv
<1> QED
  BY <1>2, <1>4, <1>5, <1>6 DEF NumbersInv, CallsInv, CallState

LEMMA BeginCallStep ==
  ASSUME NumbersInv, NEW c \in Callers, BeginCall(c)
  PROVE  NumbersInv'
<1>1. PICK x \in Rows : call' = [call EXCEPT ![c] = [NoCall EXCEPT !.at = "link", !.row = x]]
  BY DEF BeginCall, NumbersInv, CallsInv
<1> DEFINE r == [NoCall EXCEPT !.at = "link", !.row = x]
<1>2. r \in CallState /\ r.at = "link" /\ r.row = x
  BY DEF NoCall, CallState
<1>3. call[c].at = "idle" /\ UNCHANGED <<counter, year, locks, numbers, lost, skewed>>
      /\ call' = [call EXCEPT ![c] = r]
  BY <1>1 DEF BeginCall
<1> HIDE DEF r
<1> QED
  BY <1>2, <1>3, UnlockedMove

LEMMA LinkStep ==
  ASSUME NumbersInv, NEW c \in Callers, Link(c)
  PROVE  NumbersInv'
<1> DEFINE r == [call[c] EXCEPT !.at = "lock"]
<1>1. call' = [call EXCEPT ![c] = r] /\ call[c].at = "link"
      /\ UNCHANGED <<counter, year, locks, numbers, lost, skewed>>
  BY DEF Link
<1>2. r \in CallState /\ r.at = "lock" /\ r.row \in Rows
  BY <1>1 DEF CallState, NumbersInv, CallsInv
<1> HIDE DEF r
<1> QED
  BY <1>1, <1>2, UnlockedMove

\* The reversal of a receipt ends, and so does a request that takes too long.
LEMMA CallOverStep ==
  ASSUME NumbersInv, NEW c \in Callers, ReadNet(c) \/ Expire(c)
  PROVE  NumbersInv'
<1>1. NoCall \in CallState /\ NoCall.at = "idle"
  BY DEF NoCall, CallState
<1>2. call' = [call EXCEPT ![c] = NoCall] /\ call[c].at # "insert" /\ locks' = Unlock(c)
      /\ UNCHANGED <<counter, year, numbers, lost, skewed>>
  BY DEF ReadNet, Expire
<1> QED
  BY <1>1, <1>2, UnlockedMove

\* Only one request reads the row of the sequence at a time.
LEMMA LockRowStep ==
  ASSUME NumbersInv, NEW c \in Callers, LockRow(c)
  PROVE  NumbersInv'
<1> DEFINE x == call[c].row
           at == IF x = "sequence" THEN "draw" ELSE "net"
           number == IF x = "sequence" THEN <<counter.scope, counter.next>> ELSE None
           r == [call[c] EXCEPT !.at = at, !.number = number]
<1>1. /\ call' = [call EXCEPT ![c] = r] /\ call[c].at = "lock" /\ locks[x] = None
      /\ locks' = [locks EXCEPT ![x] = c]
      /\ UNCHANGED <<counter, year, numbers, lost, skewed>>
  BY DEF LockRow, LockAndRead
<1>2. x \in Rows /\ (x = "sequence" => number \in Number)
  BY <1>1 DEF NumbersInv, CallsInv, CountInv, Number
<1>3. r \in CallState /\ r.at = at /\ r.row = x /\ r.number = number
  BY <1>1, <1>2 DEF CallState, NumbersInv, CallsInv
<1> HIDE DEF r
<1>4. Drawn' = Drawn
  BY <1>1, <1>3, PendingKept DEF NumbersInv
<1>5. CountInv'
  BY <1>1, <1>4, CountKept DEF NumbersInv
<1>6. call'[c] = r /\ \A d \in Callers : d # c => call'[d] = call[d]
  BY <1>1 DEF NumbersInv, CallsInv
<1>7. /\ locks' \in [Rows -> Callers \union {None}] /\ locks'[x] = c
      /\ \A y \in Rows : y # x => locks'[y] = locks[y]
  BY <1>1, <1>2 DEF NumbersInv, CallsInv
<1>8. call' \in [Callers -> CallState]
  BY <1>1, <1>3 DEF NumbersInv, CallsInv, CallState
<1>9. ASSUME NEW d \in Callers
      PROVE  /\ call'[d].at # "idle" => call'[d].row \in Rows
             /\ call'[d].at \in {"draw", "net"} => locks'[call'[d].row] = d
             /\ call'[d].at = "draw" =>
                  call'[d].row = "sequence" /\ call'[d].number = <<counter'.scope, counter'.next>>
             /\ call'[d].at = "insert" => call'[d].number \in Number
  <2>1. CASE d = c
    BY <2>1, <1>1, <1>2, <1>3, <1>6, <1>7
  <2>2. CASE d # c
    <3>1. call'[d] = call[d] /\ (call[d].at \in {"draw", "net"} => call[d].row # x)
      BY <2>2, <1>1, <1>6, NumberingAssumption DEF NumbersInv, CallsInv
    <3> QED
      BY <3>1, <1>1, <1>7 DEF NumbersInv, CallsInv
  <2> QED
    BY <2>1, <2>2
<1> QED
  BY <1>1, <1>5, <1>7, <1>8, <1>9 DEF NumbersInv, CallsInv, CallState

\* The number that is drawn, and what it does to the count.
LEMMA DrawMoves ==
  ASSUME NumbersInv, NEW c \in Callers, NEW h \in Hosts, Draw(c, h)
  PROVE  \E y \in Nat, n \in Nat \ {0} :
           /\ call' = [call EXCEPT ![c] = [call[c] EXCEPT !.at = "insert", !.number = <<y, n>>]]
           /\ counter' = [next |-> n + 1, scope |-> y]
           /\ skewed' = (skewed \/ y < counter.scope)
           /\ y = counter.scope => n = counter.next
           /\ y # counter.scope => n = 1
<1> DEFINE y == year[h]
           n == IF call[c].number[1] # y THEN 1 ELSE call[c].number[2]
<1>1. /\ call[c].at = "draw"
      /\ call' = [call EXCEPT ![c] = [call[c] EXCEPT !.at = "insert", !.number = <<y, n>>]]
      /\ counter' = [next |-> n + 1, scope |-> y]
      /\ skewed' = (skewed \/ y < counter.scope)
  BY DEF Draw
<1>2. call[c].number = <<counter.scope, counter.next>>
  BY <1>1 DEF NumbersInv, CallsInv
<1>3. y \in Nat /\ counter.next \in Nat \ {0} /\ counter.scope \in Nat
  BY DEF NumbersInv, CallsInv, CountInv
<1>4. n = IF y = counter.scope THEN counter.next ELSE 1
  BY <1>2
<1> HIDE DEF n, y
<1>5. n \in Nat \ {0}
  BY <1>3, <1>4
<1> QED
  BY <1>1, <1>3, <1>4, <1>5

\* A number that is drawn is fresh, unless a host behind the year has drawn.
LEMMA DrawFresh ==
  ASSUME NumbersInv, NEW c \in Callers, NEW h \in Hosts, Draw(c, h)
  PROVE  skewed' \/ call'[c].number \notin Drawn
<1>1. PICK y \in Nat, n \in Nat \ {0} :
        /\ call' = [call EXCEPT ![c] = [call[c] EXCEPT !.at = "insert", !.number = <<y, n>>]]
        /\ skewed' = (skewed \/ y < counter.scope)
        /\ y = counter.scope => n = counter.next
  BY DrawMoves
<1>2. call'[c].number = <<y, n>>
  BY <1>1 DEF NumbersInv, CallsInv
<1>3. ASSUME ~skewed' PROVE <<y, n>> \notin Drawn
  <2>1. ~skewed /\ ~(y < counter.scope) /\ counter.scope \in Nat /\ counter.next \in Nat
    BY <1>1, <1>3 DEF NumbersInv, CountInv
  <2>2. ASSUME <<y, n>> \in Drawn PROVE FALSE
    <3>1. y < counter.scope \/ (y = counter.scope /\ n < counter.next)
      BY <2>1, <2>2 DEF NumbersInv, CountInv
    <3> QED
      BY <3>1, <2>1, <1>1
  <2> QED
    BY <2>2
<1> QED
  BY <1>2, <1>3

LEMMA DrawStep ==
  ASSUME NumbersInv, NEW c \in Callers, NEW h \in Hosts, Draw(c, h)
  PROVE  NumbersInv'
<1>1. PICK y \in Nat, n \in Nat \ {0} :
        /\ call' = [call EXCEPT ![c] = [call[c] EXCEPT !.at = "insert", !.number = <<y, n>>]]
        /\ counter' = [next |-> n + 1, scope |-> y]
        /\ skewed' = (skewed \/ y < counter.scope)
        /\ y = counter.scope => n = counter.next
        /\ y # counter.scope => n = 1
  BY DrawMoves
<1> DEFINE r == [call[c] EXCEPT !.at = "insert", !.number = <<y, n>>]
<1>2. /\ call[c].at = "draw" /\ locks' = Unlock(c) /\ UNCHANGED <<year, numbers, lost>>
      /\ call' = [call EXCEPT ![c] = r]
  BY <1>1 DEF Draw
<1>3. <<y, n>> \in Number
  BY DEF Number
<1>4. r \in CallState /\ r.at = "insert" /\ r.row = call[c].row /\ r.number = <<y, n>>
  BY <1>3 DEF NumbersInv, CallsInv, CallState
<1>5. call[c].row = "sequence" /\ locks["sequence"] = c
  BY <1>2 DEF NumbersInv, CallsInv
<1> HIDE DEF r
<1>6. call'[c] = r /\ \A d \in Callers : d # c => call'[d] = call[d]
  BY <1>2 DEF NumbersInv, CallsInv
<1>7. Drawn' = Drawn \union {<<y, n>>}
  <2>1. call'[c].at = "insert" /\ \A d \in Callers : d # c => call'[d] = call[d]
    BY <1>4, <1>6
  <2>2. Pending' = Pending \union {<<y, n>>}
    <3>1. call'[c].number = <<y, n>> /\ call[c].at # "insert"
      BY <1>2, <1>4, <1>6
    <3>2. \A x : x \in Pending <=> \E d \in Callers : call[d].at = "insert" /\ x = call[d].number
      BY DEF Pending
    <3>3. \A x : x \in Pending' <=> \E d \in Callers : call'[d].at = "insert" /\ x = call'[d].number
      BY DEF Pending
    <3>4. ASSUME NEW x \in Pending' PROVE x \in Pending \union {<<y, n>>}
      <4>1. PICK d \in Callers : call'[d].at = "insert" /\ x = call'[d].number
        BY <3>3, <3>4
      <4> QED
        BY <4>1, <2>1, <3>1, <3>2
    <3>5. ASSUME NEW x \in Pending PROVE x \in Pending'
      <4>1. PICK d \in Callers : call[d].at = "insert" /\ x = call[d].number
        BY <3>2, <3>5
      <4> QED
        BY <4>1, <2>1, <3>1, <3>3
    <3>6. <<y, n>> \in Pending'
      BY <2>1, <3>1, <3>3
    <3> QED
      BY <3>4, <3>5, <3>6
  <2> QED
    BY <2>2, <1>2 DEF Drawn
<1>8. counter'.next = n + 1 /\ counter'.scope = y /\ counter' \in [next : Nat \ {0}, scope : Nat]
      /\ counter.next \in Nat /\ counter.scope \in Nat /\ skewed' \in BOOLEAN
  BY <1>1 DEF NumbersInv, CountInv
<1>9. CountInv'
  <2>1. ASSUME ~skewed', NEW number \in Drawn'
        PROVE  number[1] < counter'.scope \/ (number[1] = counter'.scope /\ number[2] < counter'.next)
    <3>1. CASE number = <<y, n>>
      BY <3>1, <1>8
    <3>2. CASE number \in Drawn
      <4>1. /\ number[1] \in Nat /\ number[2] \in Nat /\ ~skewed /\ ~(y < counter.scope)
            /\ number[1] < counter.scope \/ (number[1] = counter.scope /\ number[2] < counter.next)
        BY <2>1, <3>2, <1>1 DEF NumbersInv, CountInv, Number
      <4> QED
        BY <4>1, <1>1, <1>8
    <3> QED
      BY <3>1, <3>2, <1>7
  <2>2. Drawn' \subseteq Number
    BY <1>3, <1>7 DEF NumbersInv, CountInv
  <2>3. GapsExplained'
    <3>1. ASSUME ~skewed', NEW m \in 1 .. n PROVE <<y, m>> \in Drawn'
      <4>1. CASE m = n
        BY <4>1, <1>7
      <4>2. CASE m # n
        <5>1. y = counter.scope /\ n = counter.next /\ m \in 1 .. counter.next - 1
          BY <4>2, <1>1, <1>8
        <5>2. <<y, m>> \in Drawn
          BY <5>1, <3>1, <1>1 DEF NumbersInv, CountInv, GapsExplained, Drawn
        <5> QED
          BY <5>2, <1>7
      <4> QED
        BY <4>1, <4>2
    <3>2. counter'.next - 1 = n
      BY <1>8
    <3> QED
      BY <3>1, <3>2, <1>8 DEF GapsExplained, Drawn
  <2> QED
    BY <2>1, <2>2, <2>3, <1>8 DEF CountInv
<1>10. /\ locks' \in [Rows -> Callers \union {None}]
       /\ \A d \in Callers, x \in Rows : d # c /\ locks[x] = d => locks'[x] = d
  BY <1>2 DEF Unlock, NumbersInv, CallsInv
<1>11. call' \in [Callers -> CallState]
  BY <1>2, <1>4 DEF NumbersInv, CallsInv, CallState
<1>12. ASSUME NEW d \in Callers
       PROVE  /\ call'[d].at # "idle" => call'[d].row \in Rows
              /\ call'[d].at \in {"draw", "net"} => locks'[call'[d].row] = d
              /\ call'[d].at = "draw" =>
                   call'[d].row = "sequence" /\ call'[d].number = <<counter'.scope, counter'.next>>
              /\ call'[d].at = "insert" => call'[d].number \in Number
  <2>1. CASE d = c
    BY <2>1, <1>3, <1>4, <1>5, <1>6 DEF Rows
  <2>2. CASE d # c
    <3>1. call[d].at # "draw"
      BY <2>2, <1>5 DEF NumbersInv, CallsInv
    <3> QED
      BY <3>1, <2>2, <1>6, <1>10 DEF NumbersInv, CallsInv
  <2> QED
    BY <2>1, <2>2
<1> QED
  BY <1>2, <1>9, <1>10, <1>11, <1>12 DEF NumbersInv, CallsInv, CallState

\* A document is stored with its number, or its number is lost.
LEMMA StoreStep ==
  ASSUME NumbersInv, NEW c \in Callers, InsertDocument(c) \/ InsertFails(c)
  PROVE  NumbersInv'
<1>1. /\ call[c].at = "insert" /\ call' = [call EXCEPT ![c] = NoCall]
      /\ UNCHANGED <<counter, year, locks, skewed>>
      /\ numbers' \union lost' = numbers \union lost \union {call[c].number}
  BY DEF InsertDocument, InsertFails
<1>2. call'[c] = NoCall /\ \A d \in Callers : d # c => call'[d] = call[d]
  BY <1>1 DEF NumbersInv, CallsInv
<1>3. NoCall \in CallState /\ NoCall.at = "idle"
  BY DEF NoCall, CallState
<1>4. {d \in Callers : call[d].at = "insert"} = {d \in Callers : call'[d].at = "insert"} \union {c}
  BY <1>1, <1>2
<1>5. Pending' \union {call[c].number} = Pending
  BY <1>2, <1>3, <1>4 DEF Pending
<1>6. Drawn' = Drawn
  BY <1>1, <1>5 DEF Drawn
<1>7. CountInv'
  BY <1>1, <1>6, CountKept DEF NumbersInv
<1>8. call' \in [Callers -> CallState]
  BY <1>1, <1>3 DEF NumbersInv, CallsInv, CallState
<1>9. ASSUME NEW d \in Callers
      PROVE  /\ call'[d].at # "idle" => call'[d].row \in Rows
             /\ call'[d].at \in {"draw", "net"} => locks'[call'[d].row] = d
             /\ call'[d].at = "draw" =>
                  call'[d].row = "sequence" /\ call'[d].number = <<counter'.scope, counter'.next>>
             /\ call'[d].at = "insert" => call'[d].number \in Number
  BY <1>1, <1>2, <1>3 DEF NumbersInv, CallsInv
<1> QED
  BY <1>1, <1>7, <1>8, <1>9 DEF NumbersInv, CallsInv, CallState

LEMMA NumberingSteps == NumbersInv /\ [NumberingNext]_numberVars => NumbersInv'
<1> SUFFICES ASSUME NumbersInv, [NumberingNext]_numberVars PROVE NumbersInv'
  OBVIOUS
<1>1. ASSUME NEW h \in Hosts, NewYear(h) PROVE NumbersInv'
  <2>1. year' \in [Hosts -> Nat] /\ UNCHANGED <<counter, call, linked, locks, numbers, lost, skewed>>
    BY <1>1 DEF NewYear, NumbersInv, CallsInv
  <2>2. Drawn' = Drawn
    BY <2>1 DEF Drawn, Pending
  <2> QED
    BY <2>1, <2>2, CountKept DEF NumbersInv, CallsInv
<1>2. CASE UNCHANGED numberVars
  BY <1>2, CountKept DEF NumbersInv, CallsInv, Drawn, Pending, numberVars
<1> QED
  BY <1>1, <1>2, BeginCallStep, LinkStep, LockRowStep, DrawStep, StoreStep, CallOverStep
     DEF NumberingNext, CallStep

\* Numbering keeps its invariant.
THEOREM NumbersInvariant == OfficeSpec => []NumbersInv
<1>1. OfficeInit => NumbersInv
  BY NumberingStarts DEF OfficeInit
<1>2. NumbersInv /\ [OfficeNext]_officeVars => NumbersInv'
  BY NumberingRuns, NumberingSteps
<1> QED
  BY <1>1, <1>2, PTL DEF OfficeSpec

\* Only drawing makes a request go on to store a document.
LEMMA OnlyDraws ==
  ASSUME NumbersInv, [NumberingNext]_numberVars, NEW c \in Callers,
         call[c].at = "draw", call'[c].at = "insert"
  PROVE  skewed' \/ call'[c].number \notin Drawn
<1>1. ASSUME NEW d \in Callers, NEW h \in Hosts, Draw(d, h), d # c PROVE FALSE
  BY <1>1 DEF Draw, NumbersInv, CallsInv
<1>2. ASSUME NEW d \in Callers,
             BeginCall(d) \/ Link(d) \/ LockRow(d) \/ InsertDocument(d) \/ InsertFails(d)
             \/ ReadNet(d) \/ Expire(d)
      PROVE  FALSE
  <2>1. CASE d # c
    <3>1. call'[c] = call[c]
      BY <1>2, <2>1 DEF BeginCall, Link, LockRow, LockAndRead, InsertDocument, InsertFails,
                        ReadNet, Expire, NumbersInv, CallsInv
    <3> QED
      BY <3>1
  <2>2. CASE d = c
    <3>1. ReadNet(c) \/ Expire(c)
      BY <1>2, <2>2 DEF BeginCall, Link, LockRow, InsertDocument, InsertFails
    <3>2. call'[c] = NoCall
      BY <3>1 DEF ReadNet, Expire, NumbersInv, CallsInv
    <3> QED
      BY <3>2 DEF NoCall
  <2> QED
    BY <2>1, <2>2
<1>3. ASSUME (\E h \in Hosts : NewYear(h)) \/ UNCHANGED numberVars PROVE FALSE
  BY <1>3 DEF NewYear, numberVars
<1> QED
  BY <1>1, <1>2, <1>3, DrawFresh DEF NumberingNext, CallStep

LEMMA NoGaps == NumbersInv => GapsExplained
  BY DEF NumbersInv, CountInv

\* No number is drawn twice and none is left out without a failure, for any number of requests
\* and hosts, unless the clock of a host is behind the year of the sequence.
THEOREM NumbersCorrect == OfficeSpec => NumbersFresh
<1>1. NumbersInv /\ NumbersInv' /\ [OfficeNext]_officeVars =>
        [/\ GapsExplained'
         /\ \A c \in Callers : call[c].at = "draw" /\ call'[c].at = "insert" =>
              skewed' \/ call'[c].number \notin numbers \union lost \union Pending]_numberVars
  <2> SUFFICES ASSUME NumbersInv, NumbersInv', [OfficeNext]_officeVars
               PROVE  /\ GapsExplained'
                      /\ \A c \in Callers : call[c].at = "draw" /\ call'[c].at = "insert" =>
                           skewed' \/ call'[c].number \notin Drawn
    BY DEF Drawn
  <2>1. GapsExplained'
    BY NoGaps, PTL
  <2> QED
    BY <2>1, NumberingRuns, OnlyDraws
<1> QED
  BY <1>1, NumbersInvariant, PTL DEF OfficeSpec, NumbersFresh


(* --------------------------------- types --------------------------------- *)

\* Permissions, caches and requests of the guard have their types.
LEMMA AccessTypes == AccessInv => AccessTypeOK
<1> SUFFICES ASSUME AccessInv PROVE AccessTypeOK
  OBVIOUS
<1>1. Codes = AllRights
  BY AccessAssumption DEF Codes
<1>2. ASSUME NEW s \in Servers, NEW r \in Roles
      PROVE  cache[s][r].codes \subseteq AllRights /\ cache[s][r].expires \in 0 .. now + TTL
  <2>1. cache[s][r] \in [codes : SUBSET Codes, expires : Nat] /\ now \in Nat
        /\ cache[s][r].expires <= now + TTL
    BY DEF AccessInv, AccessTyped
  <2> QED
    BY <1>1, <2>1, AccessAssumption
<1> QED
  BY <1>1, <1>2 DEF AccessInv, AccessTyped, AccessTypeOK

\* So do the days, alerts and reminders of the scans.
LEMMA ReminderTypes == RemindersInv => RemindersTypeOK
<1> SUFFICES ASSUME RemindersInv PROVE RemindersTypeOK
  OBVIOUS
<1>1. ScansTyped /\ Horizon \in Nat /\ \A s \in Scans : scan[s] \in ScanState /\ scan[s].now <= day
  BY RemindersAssumption DEF RemindersInv, ScansTyped, OnTime
<1>2. day \in 1 .. Horizon /\ 0 .. day \subseteq 0 .. Horizon /\ 1 .. day \subseteq 1 .. Horizon
  BY <1>1 DEF ScansTyped
<1>3. \A x \in DOMAIN alerts : alerts[x] \subseteq 0 .. Horizon
  BY <1>1, <1>2 DEF ScansTyped
<1>4. reminded \in [Debtors -> (1 .. Horizon) \union {None}]
  BY <1>1, <1>2 DEF ScansTyped
<1> QED
  BY <1>1, <1>2, <1>3, <1>4 DEF ScansTyped, ScanState, RemindersTypeOK

\* An import has a rate in hand only between finding and writing it, and an import that is over
\* has nothing in hand.
InHand ==
  \A u \in Uploads :
    /\ upload[u].at # "write" => upload[u].match = None
    /\ upload[u].at = "idle" => upload[u] = NoUpload

LEMMA InHandStarts == ImportsInit => InHand
  BY DEF ImportsInit, InHand, NoUpload

LEMMA InHandStays ==
  ASSUME ImportsInv, InHand, [ImportsNext]_importVars
  PROVE  InHand'
<1>1. upload \in [Uploads -> UploadState]
  BY DEF ImportsInv
<1>2. CASE UNCHANGED upload
  BY <1>2 DEF InHand
<1>3. ASSUME NEW u \in Uploads, UploadStep(u)
      PROVE  InHand'
  <2>1. ASSUME NEW m, upload' = [upload EXCEPT ![u] = m],
               m.at # "write" => m.match = None, m.at = "idle" => m = NoUpload
        PROVE  InHand'
    BY <1>1, <2>1 DEF InHand
  <2>2. ASSUME NEW kind, NEW sheet, NEW date, BeginImport(u, kind, sheet, date)
        PROVE  InHand'
    <3> DEFINE there == CASE kind = "masters" -> {n \in Names : Copies(n) # {}}
                          [] kind = "rates" -> {l \in Lanes : RatesFrom(l, date) # {}}
                          [] OTHER -> {}
               m == [NoUpload EXCEPT !.at = "row", !.kind = kind, !.sheet = sheet, !.date = date,
                                     !.seen = there, !.before = there]
    <3>1. upload' = [upload EXCEPT ![u] = m]
      BY <2>2 DEF BeginImport
    <3>2. m.at = "row" /\ m.match = None
      BY DEF NoUpload
    <3> HIDE DEF m
    <3> QED
      BY <2>1, <3>1, <3>2
  <2>3. NextRow(u).at = "row" /\ NextRow(u).match = None
    BY <1>1 DEF NextRow, UploadState
  <2>4. ASSUME NEW kind, SkipRow(u, kind)
        PROVE  InHand'
    BY <2>1, <2>3, <2>4 DEF SkipRow
  <2>5. CASE ImportMaster(u)
    <3>1. SeenToo(u).at = "row" /\ SeenToo(u).match = None
      BY <1>1 DEF SeenToo, NextRow, UploadState
    <3> QED
      BY <2>1, <2>5, <3>1 DEF ImportMaster
  <2>6. CASE ImportRate(u) \/ WriteRate(u) \/ ReportRate(u)
    BY <2>1, <2>3, <2>6 DEF ImportRate, WriteRate, ReportRate
  <2>7. CASE FindRate(u)
    <3>1. PICK i : upload' = [upload EXCEPT ![u].at = "write", ![u].match = i]
      BY <2>7 DEF FindRate
    <3>2. PICK m : m = [upload[u] EXCEPT !.at = "write", !.match = i]
      OBVIOUS
    <3>3. upload' = [upload EXCEPT ![u] = m] /\ m.at = "write"
      BY <1>1, <3>1, <3>2 DEF UploadState
    <3> QED
      BY <2>1, <3>3
  <2>8. CASE EndImport(u) \/ BreakImport(u)
    BY <2>1, <2>8 DEF EndImport, BreakImport, NoUpload
  <2> QED
    BY <1>3, <2>2, <2>4, <2>5, <2>6, <2>7, <2>8 DEF UploadStep
<1>4. ASSUME \/ \E n \in Names : AddMaster(n)
             \/ \E i \in DOMAIN masters : BinMaster(i)
             \/ \E lane \in Lanes, date \in Dates : AddRate(lane, date)
             \/ \E i \in DOMAIN rates : ChangeOffer(i)
      PROVE  UNCHANGED upload
  BY <1>4 DEF AddMaster, BinMaster, AddRate, ChangeOffer
<1> QED
  BY <1>2, <1>3, <1>4 DEF ImportsNext, importVars

\* Tables and imports have their types.
LEMMA ImportTypes == ImportsInv /\ InHand => ImportsTypeOK
<1> SUFFICES ASSUME ImportsInv, InHand PROVE ImportsTypeOK
  OBVIOUS
<1>1. /\ masters \in Seq([name : Names, live : BOOLEAN]) /\ Len(masters) <= MaxRows
      /\ rates \in Seq([lane : Lanes, date : Dates] \union {Gone}) /\ Len(rates) <= MaxRows
      /\ DOMAIN rates = 1 .. Len(rates)
  BY DEF ImportsInv, TablesTyped, Master, Offer
<1>2. ASSUME NEW u \in Uploads
      PROVE  /\ upload[u].done \in 0 .. Len(upload[u].sheet)
             /\ upload[u].at = "write" => upload[u].done < Len(upload[u].sheet)
             /\ upload[u].match # None => upload[u].match \in DOMAIN rates
  <2>1. upload[u] \in UploadState /\ Fits(upload[u])
        /\ (upload[u].at # "write" => upload[u].match = None)
        /\ (upload[u].at = "idle" => upload[u] = NoUpload)
    BY DEF ImportsInv, InHand
  <2>2. upload[u].done \in Nat /\ Len(upload[u].sheet) \in Nat
    BY <2>1 DEF UploadState, Sheets
  <2>3. CASE upload[u].at = "idle"
    <3>1. upload[u].done = 0 /\ upload[u].match = None
      BY <2>1, <2>3 DEF NoUpload
    <3> QED
      BY <2>2, <2>3, <3>1
  <2>4. CASE upload[u].at # "idle"
    BY <1>1, <2>1, <2>2, <2>4 DEF Fits
  <2> QED
    BY <2>3, <2>4
<1> QED
  BY <1>1, <1>2 DEF ImportsTypeOK


\* Who holds a connection is in a transaction, who holds the lock of a row is in the transaction
\* that asked for it, and the pool is not exceeded.
Pooled ==
  /\ IsFiniteSet(linked) /\ Cardinality(linked) <= Connections
  /\ linked = {c \in Callers : call[c].at \in {"lock", "draw", "net"}}
  /\ \A r \in Rows : locks[r] # None =>
       call[locks[r]].row = r /\ call[locks[r]].at \in {"draw", "net"}
  /\ counter.next \in 1 .. MaxDraws + 1 /\ counter.scope \in 1 .. LastYear
  /\ year \in [Hosts -> 1 .. LastYear]

LEMMA PooledStarts == NumberingInit => Pooled
<1> SUFFICES ASSUME NumberingInit PROVE Pooled
  OBVIOUS
<1>1. IsFiniteSet({}) /\ Cardinality({}) = 0
  BY FS_EmptySet
<1>2. linked = {} /\ \A c \in Callers : call[c].at = "idle"
  BY DEF NumberingInit, NoCall
<1>3. \A r \in Rows : locks[r] = None
  BY DEF NumberingInit, Rows
<1>4. counter.next = 1 /\ counter.scope = 1 /\ year = [h \in Hosts |-> 1]
  BY DEF NumberingInit
<1> QED
  BY <1>1, <1>2, <1>3, <1>4, NumberingAssumption DEF Pooled

\* A request leaves its transaction, or had none, with the locks it held.
LEMMA PoolLeft ==
  ASSUME NumbersInv, Pooled, NEW c \in Callers, NEW r, r.at \notin {"lock", "draw", "net"},
         call' = [call EXCEPT ![c] = r], linked' = linked \ {c}, locks' = Unlock(c)
  PROVE  /\ IsFiniteSet(linked') /\ Cardinality(linked') <= Connections
         /\ linked' = {d \in Callers : call'[d].at \in {"lock", "draw", "net"}}
         /\ \A x \in Rows : locks'[x] # None =>
              call'[locks'[x]].row = x /\ call'[locks'[x]].at \in {"draw", "net"}
<1>1. call'[c] = r /\ \A d \in Callers : d # c => call'[d] = call[d]
  BY DEF NumbersInv, CallsInv
<1>2. linked' = {d \in Callers : call'[d].at \in {"lock", "draw", "net"}}
  BY <1>1 DEF Pooled
<1>3. IsFiniteSet(linked') /\ Cardinality(linked') <= Cardinality(linked)
      /\ Cardinality(linked) \in Nat /\ Cardinality(linked') \in Nat
  BY FS_Subset, FS_CardinalityType DEF Pooled
<1>4. \A x \in Rows : locks'[x] = IF locks[x] = c THEN None ELSE locks[x]
  BY DEF NumbersInv, CallsInv, Unlock
<1>5. \A x \in Rows : locks[x] \in Callers \union {None}
  BY DEF NumbersInv, CallsInv
<1>6. ASSUME NEW x \in Rows, locks'[x] # None
      PROVE  call'[locks'[x]].row = x /\ call'[locks'[x]].at \in {"draw", "net"}
  <2>1. locks'[x] = locks[x] /\ locks[x] # c /\ locks[x] \in Callers /\ locks[x] # None
    BY <1>4, <1>5, <1>6
  <2> QED
    BY <1>1, <2>1 DEF Pooled
<1> QED
  BY <1>2, <1>3, <1>6, NumberingAssumption DEF Pooled

\* A request moves outside its transaction, or within it: the pool and the locks stay.
LEMMA PoolSame ==
  ASSUME NumbersInv, Pooled, NEW c \in Callers, NEW r, call' = [call EXCEPT ![c] = r],
         call[c].at \notin {"lock", "draw", "net"}, r.at \notin {"lock", "draw", "net"},
         UNCHANGED <<counter, year, linked, locks>>
  PROVE  Pooled'
<1>1. call'[c] = r /\ \A d \in Callers : d # c => call'[d] = call[d]
  BY DEF NumbersInv, CallsInv
<1>2. linked' = {d \in Callers : call'[d].at \in {"lock", "draw", "net"}}
  BY <1>1 DEF Pooled
<1>3. \A x \in Rows : locks[x] \in Callers \union {None}
  BY DEF NumbersInv, CallsInv
<1>4. ASSUME NEW x \in Rows, locks'[x] # None
      PROVE  call'[locks'[x]].row = x /\ call'[locks'[x]].at \in {"draw", "net"}
  <2>1. locks[x] \in Callers /\ call[locks[x]].row = x /\ call[locks[x]].at \in {"draw", "net"}
    BY <1>3, <1>4 DEF Pooled
  <2> QED
    BY <1>1, <2>1
<1> QED
  BY <1>2, <1>4 DEF Pooled

LEMMA LinkPools ==
  ASSUME NumbersInv, Pooled, NEW c \in Callers, Link(c)
  PROVE  Pooled'
<1> PICK r : r = [call[c] EXCEPT !.at = "lock"]
  OBVIOUS
<1>1. /\ call' = [call EXCEPT ![c] = r] /\ call[c].at = "link" /\ linked' = linked \union {c}
      /\ UNCHANGED <<counter, year, locks>> /\ Cardinality(linked) < Connections
  BY DEF Link, Free
<1>2. r.at = "lock"
  BY DEF NumbersInv, CallsInv
<1>3. call'[c] = r /\ \A d \in Callers : d # c => call'[d] = call[d]
  BY <1>1 DEF NumbersInv, CallsInv
<1>4. linked' = {d \in Callers : call'[d].at \in {"lock", "draw", "net"}}
  <2>1. ASSUME NEW d \in Callers
        PROVE  d \in linked' <=> call'[d].at \in {"lock", "draw", "net"}
    <3>1. CASE d = c
      BY <1>1, <1>2, <1>3, <3>1
    <3>2. CASE d # c
      <4>1. call'[d] = call[d] /\ (d \in linked' <=> d \in linked)
        BY <1>1, <1>3, <3>2
      <4> QED
        BY <4>1 DEF Pooled
    <3> QED
      BY <3>1, <3>2
  <2>2. linked' \subseteq Callers
    BY <1>1 DEF Pooled
  <2> QED
    BY <2>1, <2>2
<1>5. IsFiniteSet(linked') /\ Cardinality(linked') <= Connections
  <2>1. c \notin linked
    BY <1>1 DEF Pooled
  <2>2. IsFiniteSet(linked') /\ Cardinality(linked') = Cardinality(linked) + 1
        /\ Cardinality(linked) \in Nat
    BY <1>1, <2>1, FS_AddElement, FS_CardinalityType DEF Pooled
  <2> QED
    BY <1>1, <2>2, NumberingAssumption
<1>6. \A x \in Rows : locks[x] \in Callers \union {None}
  BY DEF NumbersInv, CallsInv
<1>7. ASSUME NEW x \in Rows, locks'[x] # None
      PROVE  call'[locks'[x]].row = x /\ call'[locks'[x]].at \in {"draw", "net"}
  <2>1. locks[x] \in Callers /\ call[locks[x]].row = x /\ call[locks[x]].at \in {"draw", "net"}
    BY <1>1, <1>6, <1>7 DEF Pooled
  <2> QED
    BY <1>1, <1>3, <2>1
<1> QED
  BY <1>1, <1>4, <1>5, <1>7 DEF Pooled

LEMMA LockPools ==
  ASSUME NumbersInv, Pooled, NEW c \in Callers, LockRow(c)
  PROVE  Pooled'
<1> PICK y : y = call[c].row
  OBVIOUS
<1> PICK at : at = IF y = "sequence" THEN "draw" ELSE "net"
  OBVIOUS
<1> PICK n : n = IF y = "sequence" THEN <<counter.scope, counter.next>> ELSE None
  OBVIOUS
<1> PICK r : r = [call[c] EXCEPT !.at = at, !.number = n]
  OBVIOUS
<1>1. /\ call[c].at = "lock" /\ call' = [call EXCEPT ![c] = r]
      /\ locks' = [locks EXCEPT ![y] = c] /\ UNCHANGED <<counter, year, linked>>
  BY DEF LockRow, LockAndRead
<1>2. r.at = at /\ r.row = y /\ y \in Rows /\ at \in {"draw", "net"}
  BY <1>1 DEF NumbersInv, CallsInv
<1>3. call'[c] = r /\ \A d \in Callers : d # c => call'[d] = call[d]
  BY <1>1 DEF NumbersInv, CallsInv
<1>4. linked' = {d \in Callers : call'[d].at \in {"lock", "draw", "net"}}
  BY <1>1, <1>2, <1>3 DEF Pooled
<1>5. /\ \A x \in Rows : locks[x] \in Callers \union {None}
      /\ \A x \in Rows : locks'[x] = IF x = y THEN c ELSE locks[x]
  BY <1>1 DEF NumbersInv, CallsInv
<1>6. ASSUME NEW x \in Rows, locks'[x] # None
      PROVE  call'[locks'[x]].row = x /\ call'[locks'[x]].at \in {"draw", "net"}
  <2>1. CASE x = y
    BY <1>2, <1>3, <1>5, <2>1
  <2>2. CASE x # y
    <3>1. locks[x] \in Callers /\ call[locks[x]].row = x /\ call[locks[x]].at \in {"draw", "net"}
      BY <1>5, <1>6, <2>2 DEF Pooled
    <3>2. locks[x] # c
      BY <1>1, <3>1
    <3> QED
      BY <1>3, <1>5, <2>2, <3>1, <3>2
  <2> QED
    BY <2>1, <2>2
<1> QED
  BY <1>1, <1>4, <1>6 DEF Pooled

LEMMA DrawPools ==
  ASSUME NumbersInv, Pooled, NEW c \in Callers, NEW h \in Hosts, Draw(c, h)
  PROVE  Pooled'
<1> PICK y : y = year[h]
  OBVIOUS
<1> PICK n : n = IF call[c].number[1] # y THEN 1 ELSE call[c].number[2]
  OBVIOUS
<1> PICK r : r = [call[c] EXCEPT !.at = "insert", !.number = <<y, n>>]
  OBVIOUS
<1>1. /\ call[c].at = "draw" /\ n <= MaxDraws /\ counter' = [next |-> n + 1, scope |-> y]
      /\ call' = [call EXCEPT ![c] = r] /\ locks' = Unlock(c) /\ linked' = linked \ {c}
      /\ UNCHANGED year
  BY DEF Draw
<1>2. r.at = "insert"
  BY DEF NumbersInv, CallsInv
<1>3. /\ IsFiniteSet(linked') /\ Cardinality(linked') <= Connections
      /\ linked' = {d \in Callers : call'[d].at \in {"lock", "draw", "net"}}
      /\ \A x \in Rows : locks'[x] # None =>
           call'[locks'[x]].row = x /\ call'[locks'[x]].at \in {"draw", "net"}
  BY <1>1, <1>2, PoolLeft
<1>4. n \in 1 .. MaxDraws /\ y \in 1 .. LastYear
  <2>1. call[c].number = <<counter.scope, counter.next>> /\ counter.next \in Nat \ {0}
    BY <1>1 DEF NumbersInv, CallsInv, CountInv
  <2>2. n \in Nat \ {0}
    BY <2>1
  <2> QED
    BY <1>1, <2>2, NumberingAssumption DEF Pooled
<1> QED
  BY <1>1, <1>3, <1>4, NumberingAssumption DEF Pooled

LEMMA PoolKept ==
  ASSUME NumbersInv, Pooled, [NumberingNext]_numberVars
  PROVE  Pooled'
<1>1. CASE UNCHANGED numberVars
  BY <1>1 DEF Pooled, numberVars
<1>2. NoCall.at = "idle"
  BY DEF NoCall
<1>3. ASSUME NEW c \in Callers, BeginCall(c)
      PROVE  Pooled'
  <2>1. PICK x \in DOMAIN locks : call' = [call EXCEPT ![c] = [NoCall EXCEPT !.at = "link", !.row = x]]
    BY <1>3 DEF BeginCall
  <2> PICK r : r = [NoCall EXCEPT !.at = "link", !.row = x]
    OBVIOUS
  <2>2. r.at = "link" /\ call[c].at = "idle" /\ UNCHANGED <<counter, year, linked, locks>>
    BY <1>3 DEF NoCall, BeginCall
  <2> QED
    BY <2>1, <2>2, PoolSame
<1>4. ASSUME NEW c \in Callers, InsertDocument(c) \/ InsertFails(c)
      PROVE  Pooled'
  BY <1>2, <1>4, PoolSame DEF InsertDocument, InsertFails
<1>5. ASSUME NEW c \in Callers, ReadNet(c) \/ Expire(c)
      PROVE  Pooled'
  <2>1. /\ call' = [call EXCEPT ![c] = NoCall] /\ linked' = linked \ {c} /\ locks' = Unlock(c)
        /\ UNCHANGED <<counter, year>>
    BY <1>5 DEF ReadNet, Expire
  <2> QED
    BY <1>2, <2>1, PoolLeft DEF Pooled
<1>6. ASSUME NEW h \in Hosts, NewYear(h)
      PROVE  Pooled'
  <2>1. year' = [year EXCEPT ![h] = year[h] + 1] /\ year[h] < LastYear
        /\ UNCHANGED <<counter, call, linked, locks>>
    BY <1>6 DEF NewYear
  <2>2. year' \in [Hosts -> 1 .. LastYear]
    BY <2>1, NumberingAssumption DEF Pooled
  <2> QED
    BY <2>1, <2>2 DEF Pooled
<1> QED
  BY <1>1, <1>3, <1>4, <1>5, <1>6, LinkPools, LockPools, DrawPools DEF NumberingNext, CallStep

\* Numbers, connections and locks have their types.
LEMMA NumberTypes == NumbersInv /\ Pooled => NumberingTypeOK
<1> SUFFICES ASSUME NumbersInv, Pooled PROVE NumberingTypeOK
  OBVIOUS
<1>1. DOMAIN locks = Rows
  BY DEF NumbersInv, CallsInv
<1> QED
  BY <1>1 DEF Pooled, NumberingTypeOK

\* Every part keeps its types, whatever the requests, crashes and clocks do: among them that the
\* pool of connections is never exceeded and that a lock is held only by the transaction that
\* asked for it.
THEOREM OfficeTypesCorrect == OfficeSpec => []OfficeTypeOK
<1>1. OfficeInit => InHand /\ Pooled
  BY InHandStarts, PooledStarts DEF OfficeInit
<1>2. ImportsInv /\ InHand /\ [OfficeNext]_officeVars => InHand'
  BY ImportsRun, InHandStays
<1>3. NumbersInv /\ Pooled /\ [OfficeNext]_officeVars => Pooled'
  BY NumberingRuns, PoolKept
<1>4. SignInInv /\ AccessInv /\ CreditInv /\ ImportsInv /\ InHand /\ FilesInv /\ RemindersInv
      /\ NumbersInv /\ Pooled => OfficeTypeOK
  BY AccessTypes, ImportTypes, ReminderTypes, NumberTypes
     DEF OfficeTypeOK, SignInInv, CreditInv, FilesInv
<1>5. OfficeSpec => [](InHand /\ Pooled)
  <2>1. (InHand /\ Pooled) /\ ImportsInv /\ NumbersInv /\ [OfficeNext]_officeVars =>
          (InHand /\ Pooled)'
    BY <1>2, <1>3
  <2> QED
    BY <1>1, <2>1, ImportsInvariant, NumbersInvariant, PTL DEF OfficeSpec
<1> QED
  BY <1>4, <1>5, SignInInvariant, AccessInvariant, CreditInvariant, ImportsInvariant,
     FilesInvariant, RemindersInvariant, NumbersInvariant, PTL
=============================================================================

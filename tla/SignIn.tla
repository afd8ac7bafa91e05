------------------------------- MODULE SignIn -------------------------------
(***************************************************************************)
(* Sign-in (auth.service.ts): an account is locked for a while after       *)
(* repeated wrong passwords.  The row is read, the password compared, and  *)
(* the failure counted, the lock set or everything cleared by separate     *)
(* statements.  Time passes in ticks.                                      *)
(***************************************************************************)
EXTENDS Naturals, FiniteSets, Server

CONSTANTS Logins,        \* sign-ins in flight
          Users, MaxFailed, LockTicks

ASSUME SignInAssumption ==
  IsFiniteSet(Logins) /\ MaxFailed \in Nat \ {0} /\ LockTicks \in Nat

VARIABLES accounts, login, clock,
          guesses,       \* history: wrong passwords since the last lock or reset
          crashes        \* history: sign-ins lost between counting and locking

signInVars == <<accounts, login, clock, guesses, crashes>>

NoLogin == [at |-> "idle", user |-> None, failed |-> 0, lockedUntil |-> 0]

SignInInit ==
  /\ accounts = [u \in Users |-> [active |-> TRUE, failed |-> 0, lockedUntil |-> 0]]
  /\ login = [p \in Logins |-> NoLogin]
  /\ clock = 1 /\ crashes = 0
  /\ guesses = [u \in Users |-> 0]

Locked(u) == accounts[u].lockedUntil > clock

\* The row is read, an inactive or locked account refused.
BeginLogin(p) ==
  /\ login[p].at = "idle"
  /\ \E u \in Users :
       /\ accounts[u].active /\ ~Locked(u)
       /\ login' = [login EXCEPT ![p] = [at |-> "compare", user |-> u,
                                           failed |-> accounts[u].failed,
                                           lockedUntil |-> accounts[u].lockedUntil]]
  /\ UNCHANGED <<accounts, clock, guesses, crashes>>

\* The counter is incremented in the database, not from the row that was read.
CountFromRow(p, u) == login[p].failed + 1

CountFailure(p, u) == accounts[u].failed + 1

WrongPassword(p) ==
  LET u == login[p].user
      n == CountFailure(p, u)
  IN /\ login[p].at = "compare"
     /\ accounts' = [accounts EXCEPT ![u].failed = n]
     /\ guesses' = [guesses EXCEPT ![u] = @ + 1]
     /\ login' = [login EXCEPT ![p] = IF n >= MaxFailed THEN [@ EXCEPT !.at = "lock"] ELSE NoLogin]
     /\ UNCHANGED <<clock, crashes>>

LockAccount(p) ==
  LET u == login[p].user
  IN /\ login[p].at = "lock"
     /\ accounts' = [accounts EXCEPT ![u].failed = 0, ![u].lockedUntil = clock + LockTicks]
     /\ guesses' = [guesses EXCEPT ![u] = 0]
     /\ login' = [login EXCEPT ![p] = NoLogin]
     /\ UNCHANGED <<clock, crashes>>

\* Only a sign-in that saw failures or a lock clears them; the token it returns is not kept.
RightPassword(p) ==
  LET u == login[p].user
      clear == login[p].failed > 0 \/ login[p].lockedUntil # 0
  IN /\ login[p].at = "compare"
     /\ accounts' = IF clear THEN [accounts EXCEPT ![u].failed = 0, ![u].lockedUntil = 0]
                             ELSE accounts
     /\ guesses' = IF clear THEN [guesses EXCEPT ![u] = 0] ELSE guesses
     /\ login' = [login EXCEPT ![p] = NoLogin]
     /\ UNCHANGED <<clock, crashes>>

LoginAbort(p) ==
  /\ login[p].at # "idle"
  /\ login[p].at = "lock" => crashes < MaxCrashes
  /\ crashes' = IF login[p].at = "lock" THEN crashes + 1 ELSE crashes
  /\ login' = [login EXCEPT ![p] = NoLogin]
  /\ UNCHANGED <<accounts, clock, guesses>>

\* users.service.update, as far as sign-in sees it.
SetActive(u) ==
  /\ accounts' = [accounts EXCEPT ![u].active = ~@]
  /\ UNCHANGED <<login, clock, guesses, crashes>>

LockTick ==
  /\ clock < Horizon
  /\ clock' = clock + 1
  /\ UNCHANGED <<accounts, login, guesses, crashes>>

SignInNext ==
  \/ \E p \in Logins : \/ BeginLogin(p) \/ WrongPassword(p) \/ LockAccount(p)
                        \/ RightPassword(p) \/ LoginAbort(p)
  \/ \E u \in Users : SetActive(u)
  \/ LockTick

-----------------------------------------------------------------------------
SignInTypeOK ==
  /\ accounts \in [Users -> [active : BOOLEAN, failed : Nat, lockedUntil : Nat]]
  /\ login \in [Logins -> [at : {"idle", "compare", "lock"}, user : Users \union {None},
                           failed : Nat, lockedUntil : Nat]]

\* However many sign-ins guess at once, an account that is neither locked nor reset sees fewer
\* than MaxFailed wrong passwords, one more per sign-in in flight, and one more for each crash
\* between counting and locking ("concurrent failures can't lose counts", auth.service.ts:32).
GuessesBounded ==
  \A u \in Users : guesses[u] < MaxFailed + Cardinality(Logins) + crashes

\* The lock-out against guessing: guesses in parallel are all counted, and a lock in force is
\* lifted only by a right password that was being compared when the lock fell, never by a
\* sign-in that began under it (auth.service.ts:25, 55-57).
LockoutHolds ==
  [][/\ GuessesBounded'
     /\ \A u \in Users : Locked(u) /\ accounts'[u].lockedUntil < accounts[u].lockedUntil =>
          \E p \in Logins : /\ login[p].at = "compare" /\ login[p].user = u
                            /\ login[p].lockedUntil < accounts[u].lockedUntil]_signInVars
=============================================================================

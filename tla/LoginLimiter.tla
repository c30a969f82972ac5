---------------------------- MODULE LoginLimiter ----------------------------
(***************************************************************************)
(* apps/web/src/app/api/auth/login/route.ts: the sliding window that keeps *)
(* a caller from guessing passwords, and the sweep that keeps its map      *)
(* small.  The time stamps of the code are attempts here, each with the    *)
(* age it has in ticks.                                                    *)
(***************************************************************************)
EXTENDS Integers, FiniteSets

CONSTANTS
  Caller,        \* addresses that log in
  Login,         \* attempts that may be remembered at once, a bound of the model
  LoginWindow,   \* RATE_LIMIT_WINDOW_MS
  MaxAttempts    \* RATE_LIMIT_MAX_ATTEMPTS

ASSUME LoginAssumption ==
  /\ LoginWindow \in Nat \ {0} /\ MaxAttempts \in Nat \ {0}
  /\ IsFiniteSet(Login)

VARIABLES
  attempts,   \* the map: what is kept of each caller's attempts
  loginAge,   \* how long ago each was, up to LoginWindow
  passed,     \* the attempts of the last window that got to the password,
              \* in this process
  sweepIn     \* ticks to the next sweep

loginVars == <<attempts, loginAge, passed, sweepIn>>

NoAttempts == [c \in Caller |-> {}]

LoginInit ==
  /\ attempts = NoAttempts
  /\ loginAge = [l \in Login |-> LoginWindow]
  /\ passed = NoAttempts
  /\ sweepIn = LoginWindow

Young(kept, at) == {l \in kept : at[l] < LoginWindow}

Remembered == UNION {attempts[c] \cup passed[c] : c \in Caller}

\* isRateLimited: what is old is forgotten; a blocked attempt is not counted.
Attempt(c) ==
  /\ Cardinality(Young(attempts[c], loginAge)) < MaxAttempts
  /\ Login \ Remembered # {}
  /\ LET l == CHOOSE x \in Login \ Remembered : TRUE
     IN  /\ attempts' = [attempts EXCEPT ![c] = Young(@, loginAge) \cup {l}]
         /\ loginAge' = [loginAge EXCEPT ![l] = 0]
         /\ passed' = [passed EXCEPT ![c] = @ \cup {l}]
  /\ UNCHANGED sweepIn

Blocked(c) ==
  /\ Cardinality(Young(attempts[c], loginAge)) >= MaxAttempts
  /\ attempts' = [attempts EXCEPT ![c] = Young(@, loginAge)]
  /\ UNCHANGED <<loginAge, passed, sweepIn>>

Ages == [l \in Login |-> IF loginAge[l] < LoginWindow THEN loginAge[l] + 1 ELSE loginAge[l]]

\* Mutant: the sweep deletes a caller one of whose attempts is over.
SweptCallers(m, at) == [c \in Caller |-> IF Young(m[c], at) = m[c] THEN m[c] ELSE {}]

\* The sweep: a caller with nothing young left is deleted.
Swept(m, at) == [c \in Caller |-> Young(m[c], at)]

LoginTick ==
  /\ sweepIn' = IF sweepIn = 1 THEN LoginWindow ELSE sweepIn - 1
  /\ loginAge' = Ages
  /\ attempts' = IF sweepIn = 1 THEN Swept(attempts, Ages) ELSE attempts
  /\ passed' = [c \in Caller |-> Young(passed[c], Ages)]

\* The map is in memory: a restart of the server forgets it.
LoginRestart ==
  /\ attempts' = NoAttempts
  /\ loginAge' = [l \in Login |-> LoginWindow]
  /\ passed' = NoAttempts
  /\ sweepIn' = LoginWindow

LoginNext ==
  \/ \E c \in Caller : Attempt(c) \/ Blocked(c)
  \/ LoginTick
  \/ LoginRestart

LoginSpec == LoginInit /\ [][LoginNext]_loginVars

-----------------------------------------------------------------------------
(* Properties.                                                             *)

\* In no window do more attempts of a caller reach the password than allowed,
\* whenever the sweep falls.
AttemptsLimited == \A c \in Caller : Cardinality(passed[c]) <= MaxAttempts

=============================================================================

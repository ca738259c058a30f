--------------------------- MODULE LoginAttempts ----------------------------
(***************************************************************************)
(* AuthService, services/users/auth_service.py: the login limiter, login   *)
(* with its session record, and logout.                                    *)
(*                                                                         *)
(* A login passes the limiter twice, with its e-mail address and with its  *)
(* network address. Each pass is a GET and, below the limit, a transaction *)
(* with INCR and EXPIRE; other logins run in between. A successful one then*)
(* writes its session with HSET and EXPIRE, two commands. Its key has the  *)
(* user and the first 16 characters of the token, which are those of the   *)
(* JWT header and the same for every token: a user has one session key.    *)
(* Passwords, tokens and MFA codes are cryptography and left out: whether a*)
(* login is good is a choice of the environment.                           *)
(***************************************************************************)
EXTENDS Integers, FiniteSets

CONSTANTS
  Users,              \* users, which stand for their e-mail addresses too
  Addresses,          \* the network addresses logins come from
  Servers,            \* the server processes
  LOGIN_RATE_LIMIT,
  LOGIN_RATE_WINDOW,  \* in ticks
  MaxCrashes          \* bound: processes that die, or lose Redis

ASSUME IdentifierAssumption == Users \cap Addresses = {}
ASSUME ServerAssumption == IsFiniteSet(Servers)
ASSUME LoginLimitAssumption == /\ {LOGIN_RATE_LIMIT, LOGIN_RATE_WINDOW} \subseteq Nat \ {0}
                          /\ MaxCrashes \in Nat

Identifiers == Users \cup Addresses

VARIABLES
  count,     \* Redis: the value of each rate:login:<identifier> key
  ttl,       \* Redis: ticks until that key expires
  sessions,  \* Redis: whether each user's session key exists and expires
  server,    \* where each server process is
  crashes    \* crashes so far

loginVars == <<count, ttl, sessions, server, crashes>>

Free == [pc |-> "idle"]
Attempt == [pc: {"testing", "counting"}, at: {"user", "address"},
            user: Users, address: Addresses]
Session == [pc: {"verifying", "expiring"}, user: Users]

LoginTypeOK ==
  /\ count \in [Identifiers -> Nat]
  /\ ttl \in [Identifiers -> 0 .. LOGIN_RATE_WINDOW]
  /\ sessions \in [Users -> {"none", "endless", "expiring"}]
  /\ server \in [Servers -> {Free} \cup Attempt \cup Session]
  /\ crashes \in Nat

LoginInit ==
  /\ count = [k \in Identifiers |-> 0]
  /\ ttl = [k \in Identifiers |-> 0]
  /\ sessions = [u \in Users |-> "none"]
  /\ server = [p \in Servers |-> Free]
  /\ crashes = 0

Goto(p, state) == server' = [server EXCEPT ![p] = state]

-----------------------------------------------------------------------------
(* login and _check_rate_limit                                             *)

Login(p) ==
  /\ server[p] = Free
  /\ \E u \in Users, a \in Addresses :
       Goto(p, [pc |-> "testing", at |-> "user", user |-> u, address |-> a])
  /\ UNCHANGED <<count, ttl, sessions, crashes>>

\* The identifier the limiter is called with.
Identifier(s) == IF s.at = "user" THEN s.user ELSE s.address

AtLimit_OneMore(k) == count[k] > LOGIN_RATE_LIMIT

AtLimit(k) == count[k] >= LOGIN_RATE_LIMIT

Refuse_RestartsWindow(p) ==
  LET k == Identifier(server[p])
  IN  /\ server[p].pc = "testing"
      /\ AtLimit(k)
      /\ ttl' = [ttl EXCEPT ![k] = LOGIN_RATE_WINDOW]
      /\ Goto(p, Free)
      /\ UNCHANGED <<count, sessions, crashes>>

\* RateLimitExceeded. A refused attempt changes no key.
Refuse(p) ==
  /\ server[p].pc = "testing"
  /\ AtLimit(Identifier(server[p]))
  /\ Goto(p, Free)
  /\ UNCHANGED <<count, ttl, sessions, crashes>>

Admit(p) ==
  /\ server[p].pc = "testing"
  /\ ~AtLimit(Identifier(server[p]))
  /\ Goto(p, [server[p] EXCEPT !.pc = "counting"])
  /\ UNCHANGED <<count, ttl, sessions, crashes>>

\* INCR and EXPIRE in one transaction; then the next identifier, or the user.
Count(p) ==
  LET s == server[p]
      k == Identifier(s)
  IN  /\ s.pc = "counting"
      /\ count' = [count EXCEPT ![k] = @ + 1]
      /\ ttl' = [ttl EXCEPT ![k] = LOGIN_RATE_WINDOW]
      /\ Goto(p, IF s.at = "user"
                   THEN [s EXCEPT !.pc = "testing", !.at = "address"]
                   ELSE [pc |-> "verifying", user |-> s.user])
      /\ UNCHANGED <<sessions, crashes>>

\* Unknown or inactive user, wrong password; or a partial token that still
\* needs the second factor. Neither makes a session nor resets the counters.
WithoutSession(p) ==
  /\ server[p].pc = "verifying"
  /\ Goto(p, Free)
  /\ UNCHANGED <<count, ttl, sessions, crashes>>

-----------------------------------------------------------------------------
(* Sessions                                                                *)

\* _create_session: HSET keeps the life an existing key has.
CreateSession(p) ==
  LET u == server[p].user
  IN  /\ server[p].pc = "verifying"
      /\ sessions' = [sessions EXCEPT ![u] = IF @ = "none" THEN "endless" ELSE @]
      /\ Goto(p, [server[p] EXCEPT !.pc = "expiring"])
      /\ UNCHANGED <<count, ttl, crashes>>

ExpireSession_Forgotten(p) ==
  /\ server[p].pc = "expiring"
  /\ Goto(p, Free)
  /\ UNCHANGED <<count, ttl, sessions, crashes>>

\* EXPIRE, which does nothing if the key is gone.
ExpireSession(p) ==
  LET u == server[p].user
  IN  /\ server[p].pc = "expiring"
      /\ sessions' = [sessions EXCEPT ![u] = IF @ = "none" THEN @ ELSE "expiring"]
      /\ Goto(p, Free)
      /\ UNCHANGED <<count, ttl, crashes>>

\* logout with a valid token: DEL of the session. The key it blacklists the
\* token under is read nowhere.
Logout(u) ==
  /\ sessions' = [sessions EXCEPT ![u] = "none"]
  /\ UNCHANGED <<count, ttl, server, crashes>>

\* A session reaches REFRESH_TOKEN_EXPIRE_DAYS.
SessionEnds(u) ==
  /\ sessions[u] = "expiring"
  /\ sessions' = [sessions EXCEPT ![u] = "none"]
  /\ UNCHANGED <<count, ttl, server, crashes>>

-----------------------------------------------------------------------------
\* A process dies or loses Redis in the middle of a login.
Crash(p) ==
  /\ server[p] # Free
  /\ crashes < MaxCrashes
  /\ crashes' = crashes + 1
  /\ Goto(p, Free)
  /\ UNCHANGED <<count, ttl, sessions>>

\* Time passes; a counter at the end of its life disappears.
TimePasses ==
  /\ ttl' = [k \in Identifiers |-> IF ttl[k] = 0 THEN 0 ELSE ttl[k] - 1]
  /\ count' = [k \in Identifiers |-> IF ttl[k] <= 1 THEN 0 ELSE count[k]]
  /\ UNCHANGED <<sessions, server, crashes>>

LoginNext ==
  \/ \E p \in Servers :
       \/ Login(p) \/ Refuse(p) \/ Admit(p) \/ Count(p) \/ WithoutSession(p)
       \/ CreateSession(p) \/ ExpireSession(p) \/ Crash(p)
  \/ \E u \in Users : Logout(u) \/ SessionEnds(u)
  \/ TimePasses

LoginSpec == LoginInit /\ [][LoginNext]_loginVars

\* Time passes. Nothing is assumed about processes or users.
LoginFairSpec == LoginSpec /\ WF_loginVars(TimePasses)

-----------------------------------------------------------------------------
(* Properties the code has                                                 *)

\* Lines 63-72: GET and INCR are separate, so attempts that were all tested
\* before one of them is counted all pass. No more than one per process does:
\* the counter never goes further above the limit.
CountBounded ==
  \A k \in Identifiers :
    count[k] <= LOGIN_RATE_LIMIT + Cardinality(Servers) - 1

\* The same with the attempts that are admitted and not yet counted, which makes
\* it inductive.
CountingAt(k) ==
  {p \in Servers : server[p].pc = "counting" /\ Identifier(server[p]) = k}

AdmittedBounded ==
  \A k \in Identifiers :
    count[k] + Cardinality(CountingAt(k))
      <= LOGIN_RATE_LIMIT + Cardinality(Servers) - 1

LoginIInv == LoginTypeOK /\ AdmittedBounded

\* Lines 64-68: a refused attempt does not prolong the lock-out. It ends, even
\* if somebody tries again all the time.
EveryLockoutEnds ==
  \A k \in Identifiers : AtLimit(k) ~> count[k] = 0

\* Lines 126-132: a session without an end is one whose login is about to give
\* it one, whatever logins and logouts of the user run at the same time, unless
\* a process died between the two commands.
SessionsGetAnEnd ==
  \A u \in Users :
    sessions[u] = "endless" =>
      \/ \E p \in Servers : server[p].pc = "expiring" /\ server[p].user = u
      \/ crashes > 0

=============================================================================

------------------------------ MODULE Accounts ------------------------------
(***************************************************************************)
(* The user rows that three services share, services/users/:               *)
(*                                                                         *)
(*   UserService     check_permission, update_user, deactivate_user        *)
(*   AccountService  update_profile, update_billing_info                   *)
(*   AuthService     register, login, verify_mfa, refresh_token,           *)
(*                   sso_authenticate                                      *)
(*                                                                         *)
(* The services are synchronous code that many processes run. A request    *)
(* reads rows, decides, and writes later; other requests commit in         *)
(* between. The database is at READ COMMITTED and has, as far as the       *)
(* source shows, no unique index on the address. An update writes the      *)
(* columns that differ from what was loaded, as the ORM does.              *)
(*                                                                         *)
(* An access token carries the roles its user had when it was issued, and  *)
(* the routes (external) pass its subject and its roles to the services.   *)
(* Passwords, codes and signatures are the environment's choice. Login     *)
(* limits and Redis sessions are in LoginAttempts.                         *)
(***************************************************************************)
EXTENDS Naturals, FiniteSets

CONSTANTS
  Users,        \* user ids, those not yet given to a row included
  Founders,     \* the users that have a row to begin with
  MfaUsers,     \* the users with mfa_enabled
  Emails,       \* lower-case addresses
  FirstEmail,   \* the address of each founder
  Internal,     \* the addresses that end in @eventpulse.com
  NoEmail,      \* an update without an address
  RoleSets,     \* the roles an update can set, and a founder can have
  NoRoles,      \* an update without roles
  Processes,    \* the processes that run the services
  AccessTTL,    \* ACCESS_TOKEN_EXPIRE_MIN, in ticks
  MfaTTL,       \* life of a partial token (5 minutes), in ticks
  MaxCalls      \* bound: requests served

Roles == {"super_admin", "admin", "organizer", "moderator", "attendee"}

ASSUME UserAssumption == Founders \cup MfaUsers \subseteq Users
ASSUME EmailAssumption ==
  /\ Internal \subseteq Emails
  /\ NoEmail \notin Emails
  /\ FirstEmail \in [Founders -> Emails]
  /\ \A f, g \in Founders : FirstEmail[f] = FirstEmail[g] => f = g
ASSUME RoleAssumption == RoleSets \subseteq SUBSET Roles /\ NoRoles \notin RoleSets
ASSUME TTLAssumption == AccessTTL \in Nat \ {0} /\ MfaTTL \in Nat \ {0}
ASSUME ProcessAssumption == IsFiniteSet(Processes) /\ Processes # {}
ASSUME BoundAssumption == MaxCalls \in Nat

VARIABLES
  account,   \* PostgreSQL: the committed users, NoRow for an id not in use
  tokens,    \* the access tokens that have not expired
  partials,  \* the partial tokens that have not expired
  known,     \* the users that have been given a refresh token
  process,   \* where each process is, with its local variables
  since,     \* history: ticks since the roles or is_active of a row changed
  proven,    \* history: the addresses each user was shown to own
  raced,     \* history: users verified while an update of the address ran
  rooted,    \* history: whether a founder was a super_admin
  calls      \* requests so far, a code counted with its login

vars == <<account, tokens, partials, known, process, since, proven, raced,
          rooted, calls>>
ghosts == <<proven, raced, rooted>>

-----------------------------------------------------------------------------
(* check_permission                                                        *)

AdminPermissions == ({"users", "events"} \X {"read", "write", "delete"})
                      \cup ({"billing"} \X {"read", "write"})
                      \cup ({"analytics"} \X {"read", "export"})
CommunityPermissions == {"community"} \X {"read", "moderate"}

\* A permission "resource:action" is the pair of its parts.
ROLE_HIERARCHY ==
  [super_admin |-> AdminPermissions \cup CommunityPermissions
                     \cup ({"users", "events"} \X {"admin"}),
   admin       |-> AdminPermissions,
   organizer   |-> ({"users", "billing", "analytics"} \X {"read"})
                     \cup ({"events"} \X {"read", "write", "delete"}),
   moderator   |-> ({"users", "events"} \X {"read"}) \cup CommunityPermissions,
   attendee    |-> {"users", "events", "billing"} \X {"read"}]

\* Without the owner of the resource and the requester: roles decide.
Permitted(roles, permission) ==
  \/ "super_admin" \in roles
  \/ \E r \in roles : permission \in ROLE_HIERARCHY[r]

\* With them: users may read and write what is their own.
PermittedOn(roles, permission, owner, requester) ==
  \/ Permitted(roles, permission)
  \/ owner = requester /\ permission[2] \in {"read", "write"}

-----------------------------------------------------------------------------
Row == [email: Emails, roles: SUBSET Roles, active: BOOLEAN, verified: BOOLEAN]
NoRow == [active |-> FALSE]
Exists(u) == account[u] # NoRow
Holders(e) == {u \in Users : Exists(u) /\ account[u].email = e}

\* How a token was obtained; "okta" is the way that does not look at is_active.
Ways == {"password", "mfa", "refresh", "okta"}
Token == [user: Users, roles: SUBSET Roles, way: Ways, age: 0 .. (AccessTTL - 1)]
Partial == [user: Users, age: 0 .. (MfaTTL - 1)]

Idle == [pc |-> "idle"]
Inserting == [pc: {"inserting"}, user: Users, email: Emails, verified: BOOLEAN,
              way: {"password", "okta"}]
Issuing   == [pc: {"issuing"}, user: Users, roles: SUBSET Roles, way: Ways]
Updating  == [pc: {"checking", "writing"}, user: Users, email: Emails \cup {NoEmail},
              roles: RoleSets \cup {NoRoles}, loaded: Row]
Answering == [pc: {"answering"}, owner: Users, requester: Users,
              roles: SUBSET Roles, resource: {"users", "billing"}]

SinceCap == AccessTTL + MfaTTL

TypeOK ==
  /\ account \in [Users -> Row \cup {NoRow}]
  /\ tokens \subseteq Token
  /\ partials \subseteq Partial
  /\ known \subseteq Users
  /\ process \in [Processes -> {Idle} \cup Inserting \cup Issuing
                                  \cup Updating \cup Answering]
  /\ since \in [Users -> 0 .. SinceCap]
  /\ proven \subseteq Users \X Emails
  /\ raced \subseteq Users
  /\ rooted \in BOOLEAN
  /\ calls \in Nat

Init ==
  /\ \E f \in [Founders -> RoleSets] :
       /\ account = [u \in Users |->
            IF u \in Founders
              THEN [email |-> FirstEmail[u], roles |-> f[u], active |-> TRUE,
                    verified |-> FALSE]
              ELSE NoRow]
       /\ rooted = \E u \in Founders : "super_admin" \in f[u]
  /\ tokens = {} /\ partials = {} /\ known = {}
  /\ process = [p \in Processes |-> Idle]
  /\ since = [u \in Users |-> SinceCap]
  /\ proven = {} /\ raced = {}
  /\ calls = 0

\* A request is accepted by an idle process, or is done there.
Begin(p, state) == process[p] = Idle /\ process' = [process EXCEPT ![p] = state]
Count == calls < MaxCalls /\ calls' = calls + 1
Accept(p, state) == Begin(p, state) /\ Count
Goto(p, state) == process' = [process EXCEPT ![p] = state] /\ UNCHANGED calls

-----------------------------------------------------------------------------
(* AuthService: accounts come into being                                   *)

\* Ids are drawn by the insert; which one it will be is settled here already.
Fresh(u) == /\ ~Exists(u)
            /\ \A q \in Processes : process[q].pc = "inserting" => process[q].user # u

Create(p, e, verified, way) ==
  \E u \in Users :
    /\ Fresh(u)
    /\ Accept(p, [pc |-> "inserting", user |-> u, email |-> e,
                  verified |-> verified, way |-> way])

\* register: nobody has the address. The password is hashed next.
Register(p) ==
  /\ \E e \in Emails : Holders(e) = {} /\ Create(p, e, FALSE, "password")
  /\ UNCHANGED <<account, tokens, partials, known, since, ghosts>>

\* The INSERT and its commit.
Insert(p) ==
  LET c == process[p]
  IN  /\ c.pc = "inserting"
      /\ account' = [account EXCEPT
           ![c.user] = [email |-> c.email, roles |-> {"attendee"},
                        active |-> TRUE, verified |-> c.verified]]
      /\ proven' = IF c.verified THEN proven \cup {<<c.user, c.email>>} ELSE proven
      /\ Goto(p, [pc |-> "issuing", user |-> c.user, roles |-> {"attendee"},
                  way |-> c.way])
      /\ UNCHANGED <<tokens, partials, known, since, raced, rooted>>

-----------------------------------------------------------------------------
(* AuthService: tokens                                                     *)

\* The row of u is read and found good enough for a token.
Grant(p, u, way) ==
  /\ Exists(u)
  /\ way \in {"password", "refresh"} => account[u].active
  /\ Begin(p, [pc |-> "issuing", user |-> u, roles |-> account[u].roles, way |-> way])
  /\ IF way = "mfa" THEN UNCHANGED calls ELSE Count

\* login, with the right password; with MFA it yields a partial token.
Login(p) ==
  /\ \E u \in Users :
       IF u \in MfaUsers
         THEN /\ Exists(u) /\ account[u].active
              /\ Accept(p, Idle)
              /\ partials' = partials \cup {[user |-> u, age |-> 0]}
         ELSE Grant(p, u, "password") /\ UNCHANGED partials
  /\ UNCHANGED <<account, tokens, known, since, ghosts>>

\* verify_mfa, with the right code: is_active is not looked at again.
VerifyMfa(p) ==
  /\ \E m \in partials : Grant(p, m.user, "mfa")
  /\ UNCHANGED <<account, tokens, partials, known, since, ghosts>>

RefreshToken_OldRoles(p) ==
  /\ \E t \in tokens : /\ t.user \in known /\ account[t.user].active
                       /\ Accept(p, [pc |-> "issuing", user |-> t.user,
                                     roles |-> t.roles, way |-> "refresh"])
  /\ UNCHANGED <<account, tokens, partials, known, since, ghosts>>

\* refresh_token: roles and is_active are read anew.
RefreshToken(p) ==
  /\ \E u \in known : Grant(p, u, "refresh")
  /\ UNCHANGED <<account, tokens, partials, known, since, ghosts>>

\* sso_authenticate, once Okta has answered with the address.
SsoAuthenticate(p) ==
  /\ \E e \in Emails :
       \/ \E u \in Holders(e) : Grant(p, u, "okta")
       \/ Holders(e) = {} /\ Create(p, e, e \in Internal, "okta")
  /\ UNCHANGED <<account, tokens, partials, known, since, ghosts>>

\* _generate_tokens
Issue(p) ==
  LET c == process[p]
  IN  /\ c.pc = "issuing"
      /\ tokens' = tokens \cup {[user |-> c.user, roles |-> c.roles,
                                 way |-> c.way, age |-> 0]}
      /\ known' = known \cup {c.user}
      /\ Goto(p, Idle)
      /\ UNCHANGED <<account, partials, since, ghosts>>

-----------------------------------------------------------------------------
(* UserService                                                             *)

MayUpdate_OwnRoles(t, u, roles) == PermittedOn(t.roles, <<"users", "write">>, u, t.user)

\* The permission tests of update_user, for the bearer of token t.
MayUpdate(t, u, roles) ==
  /\ PermittedOn(t.roles, <<"users", "write">>, u, t.user)
  /\ roles # NoRoles => Permitted(t.roles, <<"users", "admin">>)

\* update_user has loaded the row; only a new address needs another look.
UpdateUser(p) ==
  /\ \E t \in tokens, u \in Users, roles \in RoleSets \cup {NoRoles},
        e \in Emails \cup {NoEmail} :
       /\ Exists(u)
       /\ MayUpdate(t, u, roles)
       /\ Accept(p, [pc |-> IF e = NoEmail THEN "writing" ELSE "checking",
                     user |-> u, email |-> e, roles |-> roles,
                     loaded |-> account[u]])
  /\ UNCHANGED <<account, tokens, partials, known, since, ghosts>>

EmailTaken_Never(u, e) == FALSE

EmailTaken(u, e) == Holders(e) \ {u} # {}

\* The query for another user of the address; ValidationError if there is one.
CheckEmail(p) ==
  LET c == process[p]
  IN  /\ c.pc = "checking"
      /\ Goto(p, IF EmailTaken(c.user, c.email) THEN Idle
                 ELSE [c EXCEPT !.pc = "writing"])
      /\ UNCHANGED <<account, tokens, partials, known, since, ghosts>>

NewFlag_Kept(c, now) == now

\* is_verified is set to False with every address; it is written if it was
\* True when the row was loaded.
NewFlag(c, now) == IF c.email # NoEmail /\ c.loaded.verified THEN FALSE ELSE now

\* The commit: what differs from the loaded row overwrites the present one.
WriteUser(p) ==
  LET c == process[p]
      now == account[c.user]
      email == IF c.email \in {NoEmail, c.loaded.email} THEN now.email ELSE c.email
      roles == IF c.roles \in {NoRoles, c.loaded.roles} THEN now.roles ELSE c.roles
  IN  /\ c.pc = "writing"
      /\ account' = [account EXCEPT
           ![c.user] = [now EXCEPT !.email = email, !.roles = roles,
                                   !.verified = NewFlag(c, now.verified)]]
      /\ since' = IF roles = now.roles THEN since ELSE [since EXCEPT ![c.user] = 0]
      /\ Goto(p, Idle)
      /\ UNCHANGED <<tokens, partials, known, ghosts>>

\* deactivate_user, of somebody else. Nothing sets is_active again, so it does
\* not matter what else happens between its SELECT and its commit.
DeactivateUser(p) ==
  /\ \E t \in tokens, u \in Users :
       /\ Permitted(t.roles, <<"users", "delete">>)
       /\ u # t.user
       /\ Exists(u)
       /\ account' = [account EXCEPT ![u].active = FALSE]
       /\ since' = IF account[u].active THEN [since EXCEPT ![u] = 0] ELSE since
  /\ Accept(p, Idle)
  /\ UNCHANGED <<tokens, partials, known, ghosts>>

-----------------------------------------------------------------------------
(* AccountService                                                          *)

\* update_profile or update_billing_info has committed; names, pictures and
\* cards are left out. What it returns is what the matching get_ method says.
UpdateAccount(p) ==
  /\ \E t \in tokens, u \in Users, resource \in {"users", "billing"} :
       /\ Exists(u)
       /\ PermittedOn(t.roles, <<resource, "write">>, u, t.user)
       /\ Accept(p, [pc |-> "answering", owner |-> u, requester |-> t.user,
                     roles |-> t.roles, resource |-> resource])
  /\ UNCHANGED <<account, tokens, partials, known, since, ghosts>>

MayRead_RolesOnly(c) == Permitted(c.roles, <<c.resource, "read">>)

\* The permission test of get_profile, get_preferences and get_billing_info.
MayRead(c) == PermittedOn(c.roles, <<c.resource, "read">>, c.owner, c.requester)

\* get_profile or get_billing_info answers, or raises PermissionDeniedError.
Answer(p) ==
  /\ process[p].pc = "answering"
  /\ Goto(p, Idle)
  /\ UNCHANGED <<account, tokens, partials, known, since, ghosts>>

-----------------------------------------------------------------------------
(* The environment                                                         *)

IsAddressUpdate(c, u) == /\ c.pc \in {"checking", "writing"}
                         /\ c.user = u
                         /\ c.email # NoEmail

\* The verification service: the user has followed the link sent to the
\* present address.
Verify(u) ==
  /\ Exists(u) /\ ~account[u].verified
  /\ account' = [account EXCEPT ![u].verified = TRUE]
  /\ proven' = proven \cup {<<u, account[u].email>>}
  /\ raced' = IF \E p \in Processes : IsAddressUpdate(process[p], u)
                THEN raced \cup {u} ELSE raced
  /\ UNCHANGED <<tokens, partials, known, process, since, rooted, calls>>

\* A process dies; its transaction is rolled back.
Crash(p) ==
  /\ process[p] # Idle
  /\ Goto(p, Idle)
  /\ UNCHANGED <<account, tokens, partials, known, since, ghosts>>

Aged(S, life) == {[x EXCEPT !.age = x.age + 1] : x \in {y \in S : y.age + 1 < life}}

\* Time passes and tokens expire. A row that has been read for a token is not
\* a tick old when the token is made.
Tick ==
  /\ \A p \in Processes : process[p].pc # "issuing"
  /\ tokens' = Aged(tokens, AccessTTL)
  /\ partials' = Aged(partials, MfaTTL)
  /\ since' = [u \in Users |-> IF since[u] < SinceCap THEN since[u] + 1 ELSE SinceCap]
  /\ UNCHANGED <<account, known, process, ghosts, calls>>

-----------------------------------------------------------------------------
Serve(p) ==
  \/ Register(p) \/ Insert(p)
  \/ Login(p) \/ VerifyMfa(p) \/ RefreshToken(p) \/ SsoAuthenticate(p) \/ Issue(p)
  \/ UpdateUser(p) \/ CheckEmail(p) \/ WriteUser(p) \/ DeactivateUser(p)
  \/ UpdateAccount(p) \/ Answer(p)
  \/ Crash(p)

Next == \/ \E p \in Processes : Serve(p)
        \/ \E u \in Users : Verify(u)
        \/ Tick

Spec == Init /\ [][Next]_vars

-----------------------------------------------------------------------------
(* Properties the code has                                                 *)

\* "Email already in use" and "Email already registered" (user_service.py:179,
\* auth_service.py:147), as far as they go: an address is shared only by
\* requests that looked for it before any of them committed, so it never has
\* more users than there are processes (one, if requests do not overlap).
SharersBounded == \A e \in Emails : Cardinality(Holders(e)) <= Cardinality(Processes)

\* user_service.py:165-172: nobody promotes himself, on no path and with no old
\* token. If no founder was a super_admin, every user still has the roles of
\* a founder or of a new attendee, and super_admin is not among them.
PromotionsHaveARoot ==
  ~rooted => /\ \A u \in Users : Exists(u) => "super_admin" \notin account[u].roles
             /\ \A u \in Users \ Founders : Exists(u) => account[u].roles = {"attendee"}

\* What a token says of its user stays wrong only for the time it lives: it has
\* the roles of the row unless those changed after it was issued; and unless
\* it came by way of Okta, its user was active then, or was when a partial
\* token was issued (auth_service.py:184, 250).
TokensCatchUp ==
  \A t \in tokens :
    /\ since[t.user] > t.age => account[t.user].roles = t.roles
    /\ since[t.user] > t.age + MfaTTL => account[t.user].active \/ t.way = "okta"

\* user_service.py:183, "re-verify on email change": the address of a verified
\* user is one he was shown to own, unless the verification was committed while
\* an update of the address that had loaded the unverified row was running.
VerifiedIsProven ==
  \A u \in Users \ raced :
    (Exists(u) /\ account[u].verified) => <<u, account[u].email>> \in proven

\* account_service.py:159 and 248: an update that was committed is answered, not
\* denied: who may write may read.
CommittedIsAnswered ==
  \A p \in Processes : process[p].pc = "answering" => MayRead(process[p])

-----------------------------------------------------------------------------
(* The inductive invariant behind these properties                         *)

\* The users that have the address, or are about to be given it by a request
\* that has looked for it.
Wanting(e) ==
  Holders(e) \cup {u \in Users : \E p \in Processes :
                     /\ process[p].pc \in {"inserting", "writing"}
                     /\ process[p].user = u /\ process[p].email = e}

WantersBounded ==
  \A e \in Emails : /\ IsFiniteSet(Wanting(e))
                    /\ Cardinality(Wanting(e)) <= Cardinality(Processes)

\* Rows are updated that exist, and inserted where there is none.
RowsInUse ==
  \A p \in Processes :
    /\ process[p].pc \in {"checking", "writing"} => Exists(process[p].user)
    /\ process[p].pc = "inserting" =>
         /\ ~Exists(process[p].user)
         /\ \A q \in Processes \ {p} :
              process[q].pc = "inserting" => process[q].user # process[p].user

\* Tokens are of users that exist, and so are those about to be issued.
BearersExist ==
  /\ \A t \in tokens : Exists(t.user)
  /\ \A m \in partials : Exists(m.user)
  /\ \A p \in Processes : process[p].pc = "issuing" => Exists(process[p].user)

\* Without a root, no token has the right to change roles, and no update does.
NobodyIsRoot ==
  ~rooted =>
    /\ \A t \in tokens : "super_admin" \notin t.roles
    /\ \A p \in Processes :
         /\ process[p].pc = "issuing" => /\ "super_admin" \notin process[p].roles
         /\ process[p].pc \in {"checking", "writing"} => process[p].roles = NoRoles

\* What a token is about to say, and what a partial token stands for, was true
\* when the row was read.
ReadsAreRecent ==
  /\ \A p \in Processes : process[p].pc = "issuing" =>
       LET c == process[p]
       IN  /\ since[c.user] > 0 => account[c.user].roles = c.roles
           /\ since[c.user] > MfaTTL => account[c.user].active \/ c.way = "okta"
  /\ \A m \in partials : since[m.user] > m.age => account[m.user].active

\* An update of the address that loaded an unverified row still finds one.
UpdatesSeeTheFlag ==
  \A p \in Processes, u \in Users \ raced :
    (IsAddressUpdate(process[p], u) /\ account[u].verified)
      => process[p].loaded.verified

IInv == /\ TypeOK /\ RowsInUse /\ BearersExist
        /\ WantersBounded
        /\ NobodyIsRoot /\ PromotionsHaveARoot
        /\ ReadsAreRecent /\ TokensCatchUp
        /\ UpdatesSeeTheFlag /\ VerifiedIsProven
        /\ CommittedIsAnswered

-----------------------------------------------------------------------------
(* Properties the repository states and the code does not have             *)

\* user_service.py:176-181: no two users have one address.
EmailsAreUnique == \A e \in Emails : Cardinality(Holders(e)) <= 1

\* user_service.py:183: a change of the address is followed by a new verification,
\* whatever else happens meanwhile.
VerifiedAlways ==
  \A u \in Users : (Exists(u) /\ account[u].verified)
                     => <<u, account[u].email>> \in proven

\* user_service.py:242, "mark user as inactive": once the tokens of before have
\* expired, an inactive user has none.
InactiveHaveNoTokens ==
  \A t \in tokens : since[t.user] > t.age + MfaTTL => account[t.user].active

=============================================================================

---------------------------- MODULE AccountsProofs ----------------------------
(***************************************************************************)
(* Proofs about Accounts, for any users, addresses, role sets, lives of    *)
(* the tokens, and any finite number of processes.                         *)
(***************************************************************************)
EXTENDS Accounts, FunctionTheorems, FiniteSetTheorems, TLAPS

States == {Idle} \cup Inserting \cup Issuing \cup Updating \cup Answering

\* What the program counter says of the record it is part of.
LEMMA ShapeOfStates ==
  ASSUME NEW s \in States
  PROVE  /\ s.pc \in {"idle", "inserting", "issuing", "checking", "writing", "answering"}
         /\ s.pc = "inserting" => s \in Inserting
         /\ s.pc = "issuing" => s \in Issuing
         /\ s.pc \in {"checking", "writing"} => s \in Updating
         /\ s.pc = "answering" => s \in Answering
BY DEF States, Idle, Inserting, Issuing, Updating, Answering

LEMMA StatesHavePCs ==
  /\ Idle \in States /\ Idle.pc = "idle"
  /\ \A s \in Inserting : s \in States /\ s.pc = "inserting"
  /\ \A s \in Issuing : s \in States /\ s.pc = "issuing"
  /\ \A s \in Updating : s \in States /\ s.pc \in {"checking", "writing"}
  /\ \A s \in Answering : s \in States /\ s.pc = "answering"
BY DEF States, Idle, Inserting, Issuing, Updating, Answering

\* The row of a user that exists is one.
LEMMA RowsOfUsers ==
  ASSUME account \in [Users -> Row \cup {NoRow}], NEW u \in Users
  PROVE  /\ Exists(u) => account[u] \in Row
         /\ ~Exists(u) => account[u] = NoRow /\ account[u].active = FALSE
BY DEF Exists, NoRow

LEMMA RowIsNotNoRow == NoRow \notin Row
<1> SUFFICES ASSUME NoRow \in Row PROVE FALSE
  OBVIOUS
<1>1. "email" \in DOMAIN NoRow
  BY DEF Row
<1> QED BY <1>1 DEF NoRow

-----------------------------------------------------------------------------
(* The kinds of steps                                                      *)

Move(p, s) == process' = [process EXCEPT ![p] = s]
DataSame == UNCHANGED <<account, tokens, partials, known, since, ghosts>>

\* An address nobody has is taken for a new user.
Creates(p, s) ==
  /\ s \in Inserting /\ Fresh(s.user) /\ Holders(s.email) = {}
  /\ Move(p, s) /\ DataSame

\* A row is read for a token.
Grants(p, s) ==
  /\ s \in Issuing /\ Exists(s.user) /\ s.roles = account[s.user].roles
  /\ \/ account[s.user].active
     \/ s.way = "okta"
     \/ s.way = "mfa" /\ \E m \in partials : m.user = s.user
  /\ Move(p, s) /\ DataSame

\* A partial token is handed out.
HandsOut(p, u) ==
  /\ Exists(u) /\ account[u].active
  /\ partials' = partials \cup {[user |-> u, age |-> 0]}
  /\ Move(p, Idle) /\ UNCHANGED <<account, tokens, known, since, ghosts>>

\* A row is loaded to be updated for the bearer of t.
Loads(p, s, t) ==
  /\ s \in Updating /\ t \in tokens
  /\ Exists(s.user) /\ s.loaded = account[s.user]
  /\ MayUpdate(t, s.user, s.roles)
  /\ s.pc = "writing" => s.email = NoEmail
  /\ Move(p, s) /\ DataSame

\* The address of the update is free.
Passes(p) ==
  /\ process[p].pc = "checking"
  /\ Holders(process[p].email) \subseteq {process[p].user}
  /\ Move(p, [process[p] EXCEPT !.pc = "writing"]) /\ DataSame

\* An account was updated for the bearer of t.
Replies(p, s, t) ==
  /\ s \in Answering /\ t \in tokens
  /\ PermittedOn(s.roles, <<s.resource, "write">>, s.owner, s.requester)
  /\ s.roles = t.roles
  /\ Move(p, s) /\ DataSame

\* A request ends, or its process dies.
Ends(p) == Move(p, Idle) /\ DataSame

Deactivates(p, u) ==
  /\ Exists(u)
  /\ account' = [account EXCEPT ![u].active = FALSE]
  /\ since' = IF account[u].active THEN [since EXCEPT ![u] = 0] ELSE since
  /\ Move(p, Idle) /\ UNCHANGED <<tokens, partials, known, ghosts>>

LEMMA ServeCases ==
  ASSUME TypeOK, NEW p \in Processes, Serve(p)
  PROVE  \/ \E s : Creates(p, s)
         \/ \E s : Grants(p, s)
         \/ \E u \in Users : HandsOut(p, u)
         \/ \E s, t : Loads(p, s, t)
         \/ Passes(p)
         \/ \E s, t : Replies(p, s, t)
         \/ Ends(p)
         \/ \E u \in Users : Deactivates(p, u)
         \/ Insert(p) \/ Issue(p) \/ WriteUser(p)
<1>a. account \in [Users -> Row \cup {NoRow}]
  BY DEF TypeOK
<1>b. ASSUME NEW u \in Users, NEW way \in Ways, Grant(p, u, way), DataSame,
             way = "mfa" => \E m \in partials : m.user = u
      PROVE  \E s : Grants(p, s)
  <2> DEFINE s == [pc |-> "issuing", user |-> u, roles |-> account[u].roles, way |-> way]
  <2>1. account[u] \in Row
    BY <1>a, <1>b, RowsOfUsers DEF Grant
  <2>2. s \in Issuing
    BY <2>1 DEF Issuing, Row
  <2>3. Move(p, s) /\ Exists(u)
    BY <1>b DEF Grant, Begin, Move
  <2>4. account[u].active \/ way = "okta" \/ way = "mfa"
    BY <1>b DEF Grant, Ways
  <2> QED BY <1>b, <2>2, <2>3, <2>4 DEF Grants
<1>c. ASSUME NEW e \in Emails, NEW verified \in BOOLEAN, NEW way \in {"password", "okta"},
             Create(p, e, verified, way), Holders(e) = {}, DataSame
      PROVE  \E s : Creates(p, s)
  <2>1. PICK u \in Users :
          /\ Fresh(u)
          /\ Accept(p, [pc |-> "inserting", user |-> u, email |-> e,
                        verified |-> verified, way |-> way])
    BY <1>c DEF Create
  <2> DEFINE s == [pc |-> "inserting", user |-> u, email |-> e,
                   verified |-> verified, way |-> way]
  <2>2. s \in Inserting
    BY DEF Inserting
  <2>3. Move(p, s)
    BY <2>1 DEF Accept, Begin, Move
  <2> QED BY <1>c, <2>1, <2>2, <2>3 DEF Creates
<1>1. ASSUME Register(p) PROVE \E s : Creates(p, s)
  <2>1. PICK e \in Emails : Holders(e) = {} /\ Create(p, e, FALSE, "password")
    BY <1>1 DEF Register
  <2>2. DataSame
    BY <1>1 DEF Register, DataSame
  <2> QED BY <1>c, <2>1, <2>2
<1>2. ASSUME Login(p)
      PROVE  (\E s : Grants(p, s)) \/ (\E u \in Users : HandsOut(p, u))
  <2>1. PICK u \in Users :
          IF u \in MfaUsers
            THEN /\ Exists(u) /\ account[u].active
                 /\ Accept(p, Idle)
                 /\ partials' = partials \cup {[user |-> u, age |-> 0]}
            ELSE Grant(p, u, "password") /\ UNCHANGED partials
    BY <1>2 DEF Login
  <2>2. UNCHANGED <<account, tokens, known, since, ghosts>>
    BY <1>2 DEF Login
  <2>3. CASE u \in MfaUsers
    BY <2>1, <2>2, <2>3 DEF HandsOut, Accept, Begin, Move
  <2>4. CASE u \notin MfaUsers
    <3>1. DataSame
      BY <2>1, <2>2, <2>4 DEF DataSame
    <3> QED BY <1>b, <2>1, <2>4, <3>1 DEF Ways
  <2> QED BY <2>3, <2>4
<1>3. ASSUME VerifyMfa(p) PROVE \E s : Grants(p, s)
  <2>1. PICK m \in partials : Grant(p, m.user, "mfa")
    BY <1>3 DEF VerifyMfa
  <2>2. m.user \in Users
    BY DEF TypeOK, Partial
  <2>3. DataSame
    BY <1>3 DEF VerifyMfa, DataSame
  <2> QED BY <1>b, <2>1, <2>2, <2>3 DEF Ways
<1>4. ASSUME RefreshToken(p) PROVE \E s : Grants(p, s)
  <2>1. PICK u \in known : Grant(p, u, "refresh")
    BY <1>4 DEF RefreshToken
  <2>2. u \in Users
    BY DEF TypeOK
  <2>3. DataSame
    BY <1>4 DEF RefreshToken, DataSame
  <2> QED BY <1>b, <2>1, <2>2, <2>3 DEF Ways
<1>5. ASSUME SsoAuthenticate(p) PROVE (\E s : Grants(p, s)) \/ (\E s : Creates(p, s))
  <2>1. PICK e \in Emails : \/ \E u \in Holders(e) : Grant(p, u, "okta")
                            \/ Holders(e) = {} /\ Create(p, e, e \in Internal, "okta")
    BY <1>5 DEF SsoAuthenticate
  <2>2. DataSame
    BY <1>5 DEF SsoAuthenticate, DataSame
  <2>3. ASSUME NEW u \in Holders(e), Grant(p, u, "okta") PROVE \E s : Grants(p, s)
    BY <1>b, <2>2, <2>3 DEF Holders, Ways
  <2>4. (e \in Internal) \in BOOLEAN
    OBVIOUS
  <2> QED BY <1>c, <2>1, <2>2, <2>3, <2>4
<1>6. ASSUME UpdateUser(p) PROVE \E s, t : Loads(p, s, t)
  <2>1. PICK t \in tokens, u \in Users, roles \in RoleSets \cup {NoRoles},
             e \in Emails \cup {NoEmail} :
       /\ Exists(u)
       /\ MayUpdate(t, u, roles)
       /\ Accept(p, [pc |-> IF e = NoEmail THEN "writing" ELSE "checking",
                     user |-> u, email |-> e, roles |-> roles,
                     loaded |-> account[u]])
    BY <1>6 DEF UpdateUser
  <2> DEFINE s == [pc |-> IF e = NoEmail THEN "writing" ELSE "checking",
                   user |-> u, email |-> e, roles |-> roles, loaded |-> account[u]]
  <2>2. account[u] \in Row
    BY <1>a, <2>1, RowsOfUsers
  <2>3. s \in Updating
    BY <2>2 DEF Updating
  <2>4. Move(p, s) /\ DataSame
    BY <1>6, <2>1 DEF UpdateUser, Accept, Begin, Move, DataSame
  <2>5. Loads(p, s, t)
    BY <2>1, <2>3, <2>4 DEF Loads
  <2> QED BY <2>5
<1>7. ASSUME CheckEmail(p) PROVE Passes(p) \/ Ends(p)
  <2>1. CASE EmailTaken(process[p].user, process[p].email)
    BY <1>7, <2>1 DEF CheckEmail, Goto, Ends, Move, DataSame
  <2>2. CASE ~EmailTaken(process[p].user, process[p].email)
    <3>1. Holders(process[p].email) \subseteq {process[p].user}
      BY <2>2 DEF EmailTaken
    <3> QED BY <1>7, <2>2, <3>1 DEF CheckEmail, Goto, Passes, Move, DataSame
  <2> QED BY <2>1, <2>2
<1>8. ASSUME DeactivateUser(p) PROVE \E u \in Users : Deactivates(p, u)
  BY <1>8 DEF DeactivateUser, Deactivates, Accept, Begin, Move
<1>9. ASSUME UpdateAccount(p) PROVE \E s, t : Replies(p, s, t)
  <2>1. PICK t \in tokens, u \in Users, resource \in {"users", "billing"} :
       /\ PermittedOn(t.roles, <<resource, "write">>, u, t.user)
       /\ Accept(p, [pc |-> "answering", owner |-> u, requester |-> t.user,
                     roles |-> t.roles, resource |-> resource])
    BY <1>9 DEF UpdateAccount
  <2> DEFINE s == [pc |-> "answering", owner |-> u, requester |-> t.user,
                   roles |-> t.roles, resource |-> resource]
  <2>2. s \in Answering
    BY DEF TypeOK, Token, Answering
  <2>3. Move(p, s) /\ DataSame
    BY <1>9, <2>1 DEF UpdateAccount, Accept, Begin, Move, DataSame
  <2>4. Replies(p, s, t)
    BY <2>1, <2>2, <2>3 DEF Replies
  <2> QED BY <2>4
<1>10. ASSUME Answer(p) \/ Crash(p) PROVE Ends(p)
  BY <1>10 DEF Answer, Crash, Goto, Ends, Move, DataSame
<1> QED BY <1>1, <1>2, <1>3, <1>4, <1>5, <1>6, <1>7, <1>8, <1>9, <1>10 DEF Serve

-----------------------------------------------------------------------------
(* What the other steps do to the rows                                     *)

LEMMA ProcessTypes == TypeOK => process \in [Processes -> States]
BY DEF TypeOK, States

NewRow(c) == [email |-> c.email, roles |-> {"attendee"}, active |-> TRUE,
              verified |-> c.verified]
AfterInsert(c) == [pc |-> "issuing", user |-> c.user, roles |-> {"attendee"},
                   way |-> c.way]

LEMMA InsertEffect ==
  ASSUME TypeOK, NEW p \in Processes, Insert(p)
  PROVE  /\ process[p] \in Inserting
         /\ NewRow(process[p]) \in Row /\ AfterInsert(process[p]) \in Issuing
         /\ account' = [account EXCEPT ![process[p].user] = NewRow(process[p])]
         /\ UNCHANGED since
         /\ Move(p, AfterInsert(process[p]))
<1> DEFINE c == process[p]
<1>1. c \in Inserting
  BY ProcessTypes, ShapeOfStates DEF Insert
<1>2. {"attendee"} \in SUBSET Roles
  BY DEF Roles
<1>3. NewRow(c) \in Row /\ AfterInsert(c) \in Issuing
  BY <1>1, <1>2 DEF NewRow, AfterInsert, Row, Inserting, Issuing, Ways
<1> QED BY <1>1, <1>3 DEF Insert, Goto, Move, NewRow, AfterInsert

LEMMA IssueEffect ==
  ASSUME TypeOK, NEW p \in Processes, Issue(p)
  PROVE  /\ process[p] \in Issuing
         /\ [user |-> process[p].user, roles |-> process[p].roles,
             way |-> process[p].way, age |-> 0] \in Token
         /\ tokens' = tokens \cup {[user |-> process[p].user, roles |-> process[p].roles,
                                    way |-> process[p].way, age |-> 0]}
         /\ Move(p, Idle)
<1>1. process[p] \in Issuing
  BY ProcessTypes, ShapeOfStates DEF Issue
<1> QED BY <1>1, TTLAssumption DEF Issue, Goto, Move, Issuing, Token

LEMMA UpdatedRow ==
  ASSUME NEW r \in Row, NEW e, NEW f, NEW v
  PROVE  [r EXCEPT !.email = e, !.roles = f, !.verified = v]
           \in [email: {e}, roles: {f}, active: {r.active}, verified: {v}]
BY DEF Row

\* The commit of an update keeps is_active, takes over roles and an address
\* only if the request has them, and the flag as NewFlag says.
LEMMA WriteEffect ==
  ASSUME TypeOK, RowsInUse, NEW p \in Processes, WriteUser(p)
  PROVE  LET c == process[p]
             now == account[c.user]
             new == account'[c.user]
         IN  /\ c \in Updating /\ c.pc = "writing"
             /\ now \in Row /\ new \in Row
             /\ account' = [account EXCEPT ![c.user] = new]
             /\ new.email = now.email \/ (c.email # NoEmail /\ new.email = c.email)
             /\ new.roles = now.roles \/ (c.roles # NoRoles /\ new.roles = c.roles)
             /\ new.active = now.active
             /\ new.verified = NewFlag(c, now.verified)
             /\ c.email = NoEmail => new.email = now.email
             /\ since' = IF new.roles = now.roles THEN since
                                                  ELSE [since EXCEPT ![c.user] = 0]
             /\ Move(p, Idle)
<1> DEFINE c == process[p]
           now == account[c.user]
           email == IF c.email \in {NoEmail, c.loaded.email} THEN now.email ELSE c.email
           roles == IF c.roles \in {NoRoles, c.loaded.roles} THEN now.roles ELSE c.roles
           row == [now EXCEPT !.email = email, !.roles = roles,
                              !.verified = NewFlag(c, now.verified)]
<1>1. c \in Updating /\ c.pc = "writing"
  BY ProcessTypes, ShapeOfStates DEF WriteUser
<1>2. c.user \in Users /\ Exists(c.user)
  BY <1>1 DEF Updating, RowsInUse
<1>3. account \in [Users -> Row \cup {NoRow}]
  BY DEF TypeOK
<1>4. now \in Row
  BY <1>2, <1>3, RowsOfUsers
<1>5. /\ c.email \in Emails \cup {NoEmail} /\ c.roles \in RoleSets \cup {NoRoles}
      /\ c.loaded \in Row
  BY <1>1 DEF Updating
<1>6. email \in Emails
  BY <1>4, <1>5 DEF Row
<1>7. roles \in SUBSET Roles
  BY <1>4, <1>5, RoleAssumption DEF Row
<1>8. NewFlag(c, now.verified) \in BOOLEAN
  BY <1>4 DEF Row, NewFlag
<1> HIDE DEF email, roles
<1>9. row \in [email: {email}, roles: {roles}, active: {now.active},
               verified: {NewFlag(c, now.verified)}]
  BY <1>4, UpdatedRow
<1>10. row \in Row
  BY <1>4, <1>6, <1>7, <1>8, <1>9 DEF Row
<1>11. /\ account' = [account EXCEPT ![c.user] = row]
       /\ since' = IF roles = now.roles THEN since ELSE [since EXCEPT ![c.user] = 0]
       /\ Move(p, Idle)
  BY DEF WriteUser, Goto, Move, email, roles
<1>12. account'[c.user] = row
  BY <1>2, <1>3, <1>11
<1>13. /\ email = now.email \/ (c.email # NoEmail /\ email = c.email)
       /\ roles = now.roles \/ (c.roles # NoRoles /\ roles = c.roles)
       /\ c.email = NoEmail => email = now.email
  BY DEF email, roles
<1>14. /\ row.email = email /\ row.roles = roles /\ row.active = now.active
       /\ row.verified = NewFlag(c, now.verified)
  BY <1>9
<1> QED BY <1>1, <1>4, <1>10, <1>11, <1>12, <1>13, <1>14

LEMMA DeactivateEffect ==
  ASSUME TypeOK, NEW p \in Processes, NEW u \in Users, Deactivates(p, u)
  PROVE  /\ account[u] \in Row /\ account'[u] \in Row
         /\ account' = [account EXCEPT ![u] = account'[u]]
         /\ account'[u].email = account[u].email /\ account'[u].roles = account[u].roles
         /\ account'[u].verified = account[u].verified /\ ~account'[u].active
<1>1. account \in [Users -> Row \cup {NoRow}]
  BY DEF TypeOK
<1>2. account[u] \in Row
  BY <1>1, RowsOfUsers DEF Deactivates
<1>3. account' = [account EXCEPT ![u] = [account[u] EXCEPT !.active = FALSE]]
  BY DEF Deactivates
<1>4. account'[u] = [account[u] EXCEPT !.active = FALSE]
  BY <1>1, <1>3
<1> QED BY <1>2, <1>3, <1>4 DEF Row

LEMMA VerifyEffect ==
  ASSUME TypeOK, NEW u \in Users, Verify(u)
  PROVE  /\ account[u] \in Row /\ account'[u] \in Row
         /\ account' = [account EXCEPT ![u] = account'[u]]
         /\ account'[u].email = account[u].email /\ account'[u].roles = account[u].roles
         /\ account'[u].active = account[u].active
<1>1. account \in [Users -> Row \cup {NoRow}]
  BY DEF TypeOK
<1>2. account[u] \in Row
  BY <1>1, RowsOfUsers DEF Verify
<1>3. account' = [account EXCEPT ![u] = [account[u] EXCEPT !.verified = TRUE]]
  BY DEF Verify
<1>4. account'[u] = [account[u] EXCEPT !.verified = TRUE]
  BY <1>1, <1>3
<1> QED BY <1>2, <1>3, <1>4 DEF Row

-----------------------------------------------------------------------------
(* Type correctness, together with RowsInUse                               *)

LEMMA TypeInit == Init => TypeOK /\ RowsInUse
<1> SUFFICES ASSUME Init PROVE TypeOK /\ RowsInUse
  OBVIOUS
<1>1. PICK f \in [Founders -> RoleSets] :
        /\ account = [u \in Users |->
            IF u \in Founders
              THEN [email |-> FirstEmail[u], roles |-> f[u], active |-> TRUE,
                    verified |-> FALSE]
              ELSE NoRow]
        /\ rooted = \E u \in Founders : "super_admin" \in f[u]
  BY DEF Init
<1>2. ASSUME NEW u \in Founders
      PROVE  [email |-> FirstEmail[u], roles |-> f[u], active |-> TRUE,
              verified |-> FALSE] \in Row
  <2>1. FirstEmail[u] \in Emails
    BY EmailAssumption
  <2>2. f[u] \in SUBSET Roles
    BY RoleAssumption
  <2> QED BY <2>1, <2>2 DEF Row
<1>3. account \in [Users -> Row \cup {NoRow}]
  BY <1>1, <1>2
<1>4. since \in [Users -> 0 .. SinceCap]
  BY TTLAssumption DEF Init, SinceCap
<1>5. rooted \in BOOLEAN /\ calls \in Nat /\ tokens = {} /\ partials = {}
      /\ known = {} /\ proven = {} /\ raced = {}
  BY <1>1 DEF Init
<1>6. process = [p \in Processes |-> Idle]
  BY DEF Init
<1>7. \A p \in Processes : process[p].pc = "idle"
  BY <1>6 DEF Idle
<1> QED BY <1>3, <1>4, <1>5, <1>6, <1>7 DEF TypeOK, RowsInUse

LEMMA CallsNext == TypeOK /\ [Next]_vars => calls' \in Nat
<1> SUFFICES ASSUME TypeOK, [Next]_vars PROVE calls' \in {calls, calls + 1}
  BY DEF TypeOK
<1> QED BY DEF Next, Serve, Register, Create, Insert, Login, VerifyMfa, RefreshToken,
     SsoAuthenticate, Issue, UpdateUser, CheckEmail, WriteUser, DeactivateUser,
     UpdateAccount, Answer, Crash, Verify, Tick, Grant, Accept, Begin, Count, Goto, vars

\* A token that has become a tick older is one of those there were.
LEMMA AgedTokens ==
  ASSUME NEW S \in SUBSET Token, NEW x \in Aged(S, AccessTTL)
  PROVE  /\ x \in Token
         /\ \E y \in S : /\ x.user = y.user /\ x.roles = y.roles /\ x.way = y.way
                         /\ x.age = y.age + 1
<1>1. PICK y \in S : x = [y EXCEPT !.age = y.age + 1] /\ y.age + 1 < AccessTTL
  BY DEF Aged
<1>2. y \in Token
  OBVIOUS
<1>3. y.age + 1 \in 0 .. (AccessTTL - 1)
  BY <1>1, <1>2, TTLAssumption DEF Token
<1> QED BY <1>1, <1>2, <1>3 DEF Token

LEMMA AgedPartials ==
  ASSUME NEW S \in SUBSET Partial, NEW x \in Aged(S, MfaTTL)
  PROVE  /\ x \in Partial
         /\ \E y \in S : x.user = y.user /\ x.age = y.age + 1
<1>1. PICK y \in S : x = [y EXCEPT !.age = y.age + 1] /\ y.age + 1 < MfaTTL
  BY DEF Aged
<1>2. y \in Partial
  OBVIOUS
<1>3. y.age + 1 \in 0 .. (MfaTTL - 1)
  BY <1>1, <1>2, TTLAssumption DEF Partial
<1> QED BY <1>1, <1>2, <1>3 DEF Partial

\* Every request leaves every process in one of its states.
LEMMA ProcessNext ==
  ASSUME TypeOK, RowsInUse, NEW p \in Processes, Serve(p)
  PROVE  process' \in [Processes -> States]
<1>1. ASSUME NEW s \in States, Move(p, s) PROVE process' \in [Processes -> States]
  BY <1>1, ProcessTypes DEF Move
<1>2. ASSUME NEW s, Creates(p, s) PROVE process' \in [Processes -> States]
  BY <1>1, <1>2, StatesHavePCs DEF Creates
<1>3. ASSUME NEW s, Grants(p, s) PROVE process' \in [Processes -> States]
  BY <1>1, <1>3, StatesHavePCs DEF Grants
<1>4. ASSUME NEW s, NEW t, Loads(p, s, t) PROVE process' \in [Processes -> States]
  BY <1>1, <1>4, StatesHavePCs DEF Loads
<1>5. ASSUME NEW s, NEW t, Replies(p, s, t) PROVE process' \in [Processes -> States]
  BY <1>1, <1>5, StatesHavePCs DEF Replies
<1>6. ASSUME Passes(p) PROVE process' \in [Processes -> States]
  <2>1. process[p] \in Updating
    BY <1>6, ProcessTypes, ShapeOfStates DEF Passes
  <2>2. [process[p] EXCEPT !.pc = "writing"] \in Updating
    BY <2>1 DEF Updating
  <2> QED BY <1>1, <1>6, <2>2, StatesHavePCs DEF Passes
<1>7. ASSUME Insert(p) PROVE process' \in [Processes -> States]
  BY <1>1, <1>7, InsertEffect, StatesHavePCs
<1>8. ASSUME Issue(p) \/ WriteUser(p) \/ Ends(p) PROVE process' \in [Processes -> States]
  BY <1>1, <1>8, StatesHavePCs DEF Ends, Issue, WriteUser, Goto, Move
<1>9. ASSUME NEW u \in Users, HandsOut(p, u) \/ Deactivates(p, u)
      PROVE  process' \in [Processes -> States]
  BY <1>1, <1>9, StatesHavePCs DEF HandsOut, Deactivates
<1> QED BY <1>2, <1>3, <1>4, <1>5, <1>6, <1>7, <1>8, <1>9, ServeCases

DataTypes ==
  /\ account \in [Users -> Row \cup {NoRow}]
  /\ tokens \subseteq Token
  /\ partials \subseteq Partial
  /\ known \subseteq Users
  /\ since \in [Users -> 0 .. SinceCap]
  /\ proven \subseteq Users \X Emails
  /\ raced \subseteq Users
  /\ rooted \in BOOLEAN

LEMMA TypeParts ==
  TypeOK <=> DataTypes /\ process \in [Processes -> States] /\ calls \in Nat
BY DEF TypeOK, DataTypes, States

LEMMA DataNext ==
  ASSUME TypeOK, RowsInUse, NEW p \in Processes, Serve(p)
  PROVE  DataTypes'
<1> USE TypeParts DEF DataTypes
<1>a. 0 \in 0 .. SinceCap
  BY TTLAssumption DEF SinceCap
<1>1. ASSUME DataSame PROVE DataTypes'
  BY <1>1 DEF DataSame, ghosts
<1>2. ASSUME NEW u \in Users, HandsOut(p, u) PROVE DataTypes'
  <2>1. [user |-> u, age |-> 0] \in Partial
    BY TTLAssumption DEF Partial
  <2> QED BY <1>2, <2>1 DEF HandsOut, ghosts
<1>3. ASSUME NEW u \in Users, Deactivates(p, u) PROVE DataTypes'
  <2>1. account' \in [Users -> Row \cup {NoRow}]
    BY <1>3, DeactivateEffect
  <2> QED BY <1>3, <1>a, <2>1 DEF Deactivates, ghosts
<1>4. ASSUME Insert(p) PROVE DataTypes'
  <2> DEFINE c == process[p]
  <2>1. /\ c \in Inserting /\ NewRow(c) \in Row
        /\ account' = [account EXCEPT ![c.user] = NewRow(c)]
        /\ UNCHANGED since
    BY <1>4, InsertEffect
  <2>2. c.user \in Users /\ <<c.user, c.email>> \in Users \X Emails
    BY <2>1 DEF Inserting
  <2>3. account' \in [Users -> Row \cup {NoRow}] /\ since' \in [Users -> 0 .. SinceCap]
    BY <2>1, <2>2, <1>a
  <2>4. proven' \subseteq Users \X Emails
    BY <1>4, <2>2 DEF Insert
  <2> QED BY <1>4, <2>3, <2>4 DEF Insert
<1>5. ASSUME Issue(p) PROVE DataTypes'
  <2>1. process[p].user \in Users
    BY <1>5, IssueEffect DEF Issuing
  <2>2. tokens' \subseteq Token
    BY <1>5, IssueEffect
  <2> QED BY <1>5, <2>1, <2>2 DEF Issue, ghosts
<1>6. ASSUME WriteUser(p) PROVE DataTypes'
  <2> DEFINE c == process[p]
  <2>1. /\ c \in Updating /\ account'[c.user] \in Row
        /\ account' = [account EXCEPT ![c.user] = account'[c.user]]
        /\ since' = since \/ since' = [since EXCEPT ![c.user] = 0]
    BY <1>6, WriteEffect
  <2>2. account' \in [Users -> Row \cup {NoRow}] /\ since' \in [Users -> 0 .. SinceCap]
    BY <2>1, <1>a
  <2> QED BY <1>6, <2>2 DEF WriteUser, ghosts
<1> QED BY <1>1, <1>2, <1>3, <1>4, <1>5, <1>6, ServeCases
        DEF Creates, Grants, Loads, Passes, Replies, Ends

LEMMA TypeNext == TypeOK /\ RowsInUse /\ [Next]_vars => TypeOK'
<1> SUFFICES ASSUME TypeOK, RowsInUse, [Next]_vars PROVE TypeOK'
  OBVIOUS
<1>1. ASSUME NEW p \in Processes, Serve(p) PROVE TypeOK'
  BY <1>1, DataNext, ProcessNext, CallsNext DEF TypeOK, DataTypes, States
<1>2. ASSUME NEW u \in Users, Verify(u) PROVE TypeOK'
  <2>1. account' \in [Users -> Row \cup {NoRow}]
    BY <1>2, VerifyEffect DEF TypeOK
  <2>2. account[u].email \in Emails
    BY <1>2, VerifyEffect DEF Row
  <2> QED BY <1>2, <2>1, <2>2, CallsNext DEF Verify, TypeOK
<1>3. CASE Tick
  <2>1. tokens' \subseteq Token /\ partials' \subseteq Partial
    BY <1>3, AgedTokens, AgedPartials DEF Tick, TypeOK
  <2>2. since' \in [Users -> 0 .. SinceCap]
    BY <1>3, TTLAssumption DEF Tick, TypeOK, SinceCap
  <2> QED BY <1>3, <2>1, <2>2 DEF Tick, TypeOK, ghosts
<1>4. CASE UNCHANGED vars
  BY <1>4 DEF vars, ghosts, TypeOK
<1> QED BY <1>1, <1>2, <1>3, <1>4 DEF Next

-----------------------------------------------------------------------------
(* RowsInUse                                                               *)

SameUsers == \A u \in Users : Exists(u)' <=> Exists(u)

\* A process that goes on with what is not an insert of its own, and needs no row
\* that is not there, keeps RowsInUse while rows neither come nor go.
LEMMA MoveKeepsUse ==
  ASSUME TypeOK, RowsInUse, SameUsers, NEW p \in Processes, NEW s \in States, Move(p, s),
         s.pc # "inserting", s.pc \in {"checking", "writing"} => Exists(s.user)
  PROVE  RowsInUse'
<1>1. ASSUME NEW q \in Processes
      PROVE  process'[q] = IF q = p THEN s ELSE process[q]
  BY ProcessTypes DEF Move
<1>2. ASSUME NEW q \in Processes, process[q].pc \in {"inserting", "checking", "writing"}
      PROVE  process[q].user \in Users
  BY <1>2, ProcessTypes, ShapeOfStates DEF Inserting, Updating
<1>3. s.pc \in {"checking", "writing"} => s.user \in Users
  BY ShapeOfStates DEF Updating
<1> QED BY <1>1, <1>2, <1>3 DEF RowsInUse, SameUsers

LEMMA SameUsersOfDataSame == UNCHANGED account => SameUsers
BY DEF SameUsers, Exists

LEMMA SameUsersOfWrite ==
  ASSUME TypeOK, NEW u \in Users, account[u] \in Row, account'[u] \in Row,
         account' = [account EXCEPT ![u] = account'[u]]
  PROVE  SameUsers
<1>1. account \in [Users -> Row \cup {NoRow}]
  BY DEF TypeOK
<1> QED BY <1>1, RowIsNotNoRow DEF SameUsers, Exists

LEMMA UseNext == TypeOK /\ RowsInUse /\ [Next]_vars => RowsInUse'
<1> SUFFICES ASSUME TypeOK, RowsInUse, [Next]_vars PROVE RowsInUse'
  OBVIOUS
<1>1. ASSUME NEW p \in Processes, NEW s, Creates(p, s) PROVE RowsInUse'
  <2>1. ASSUME NEW q \in Processes
        PROVE  process'[q] = IF q = p THEN s ELSE process[q]
    BY <1>1, ProcessTypes DEF Creates, Move
  <2>2. s.pc = "inserting" /\ ~Exists(s.user)
    BY <1>1, StatesHavePCs DEF Creates, Fresh
  <2>3. \A q \in Processes : process[q].pc = "inserting" => process[q].user # s.user
    BY <1>1 DEF Creates, Fresh
  <2>4. UNCHANGED account
    BY <1>1 DEF Creates, DataSame
  <2> QED BY <2>1, <2>2, <2>3, <2>4 DEF RowsInUse, Exists
<1>2. ASSUME NEW p \in Processes, NEW s, Grants(p, s) PROVE RowsInUse'
  BY <1>2, MoveKeepsUse, SameUsersOfDataSame, StatesHavePCs DEF Grants, DataSame
<1>3. ASSUME NEW p \in Processes, NEW s, NEW t, Loads(p, s, t) PROVE RowsInUse'
  BY <1>3, MoveKeepsUse, SameUsersOfDataSame, StatesHavePCs DEF Loads, DataSame
<1>4. ASSUME NEW p \in Processes, NEW s, NEW t, Replies(p, s, t) PROVE RowsInUse'
  BY <1>4, MoveKeepsUse, SameUsersOfDataSame, StatesHavePCs DEF Replies, DataSame
<1>5. ASSUME NEW p \in Processes, Passes(p) PROVE RowsInUse'
  <2> DEFINE s == [process[p] EXCEPT !.pc = "writing"]
  <2>1. process[p] \in Updating /\ Exists(process[p].user)
    BY <1>5, ProcessTypes, ShapeOfStates DEF Passes, RowsInUse
  <2>2. s \in Updating /\ s.user = process[p].user
    BY <2>1 DEF Updating
  <2> QED BY <1>5, <2>1, <2>2, MoveKeepsUse, SameUsersOfDataSame, StatesHavePCs
          DEF Passes, DataSame
<1>6. ASSUME NEW p \in Processes, Ends(p) PROVE RowsInUse'
  BY <1>6, MoveKeepsUse, SameUsersOfDataSame, StatesHavePCs DEF Ends, DataSame
<1>7. ASSUME NEW p \in Processes, NEW u \in Users, HandsOut(p, u) PROVE RowsInUse'
  BY <1>7, MoveKeepsUse, SameUsersOfDataSame, StatesHavePCs DEF HandsOut
<1>8. ASSUME NEW p \in Processes, NEW u \in Users, Deactivates(p, u) PROVE RowsInUse'
  <2>1. SameUsers
    BY <1>8, DeactivateEffect, SameUsersOfWrite
  <2> QED BY <1>8, <2>1, MoveKeepsUse, StatesHavePCs DEF Deactivates
<1>9. ASSUME NEW p \in Processes, Insert(p) PROVE RowsInUse'
  <2> DEFINE c == process[p]
  <2>1. /\ c \in Inserting /\ NewRow(c) \in Row /\ AfterInsert(c) \in Issuing
        /\ account' = [account EXCEPT ![c.user] = NewRow(c)]
        /\ Move(p, AfterInsert(c))
    BY <1>9, InsertEffect
  <2>2. c.user \in Users /\ c.pc = "inserting" /\ AfterInsert(c).pc = "issuing"
    BY <2>1, StatesHavePCs DEF Inserting
  <2>3. ASSUME NEW q \in Processes
        PROVE  process'[q] = IF q = p THEN AfterInsert(c) ELSE process[q]
    BY <2>1, ProcessTypes DEF Move
  <2>4. ASSUME NEW u \in Users PROVE Exists(u)' <=> (Exists(u) \/ u = c.user)
    BY <2>1, <2>2, RowIsNotNoRow DEF Exists, TypeOK
  <2>5. ASSUME NEW q \in Processes, process[q].pc \in {"inserting", "checking", "writing"}
        PROVE  process[q].user \in Users
    BY <2>5, ProcessTypes, ShapeOfStates DEF Inserting, Updating
  <2> QED BY <2>2, <2>3, <2>4, <2>5 DEF RowsInUse
<1>10. ASSUME NEW p \in Processes, Issue(p) PROVE RowsInUse'
  BY <1>10, IssueEffect, MoveKeepsUse, SameUsersOfDataSame, StatesHavePCs DEF Issue
<1>11. ASSUME NEW p \in Processes, WriteUser(p) PROVE RowsInUse'
  <2>1. /\ process[p] \in Updating /\ Move(p, Idle)
        /\ account[process[p].user] \in Row /\ account'[process[p].user] \in Row
        /\ account' = [account EXCEPT ![process[p].user] = account'[process[p].user]]
    BY <1>11, WriteEffect
  <2>2. SameUsers
    BY <2>1, SameUsersOfWrite DEF Updating
  <2> QED BY <2>1, <2>2, MoveKeepsUse, StatesHavePCs
<1>12. ASSUME NEW u \in Users, Verify(u) PROVE RowsInUse'
  <2>1. SameUsers
    BY <1>12, VerifyEffect, SameUsersOfWrite
  <2>2. ASSUME NEW q \in Processes, process[q].pc \in {"inserting", "checking", "writing"}
        PROVE  process[q].user \in Users
    BY <2>2, ProcessTypes, ShapeOfStates DEF Inserting, Updating
  <2> QED BY <1>12, <2>1, <2>2 DEF Verify, RowsInUse, SameUsers
<1>13. CASE Tick
  BY <1>13 DEF Tick, RowsInUse, Exists
<1>14. CASE UNCHANGED vars
  BY <1>14 DEF vars, RowsInUse, Exists
<1> QED BY <1>1, <1>2, <1>3, <1>4, <1>5, <1>6, <1>7, <1>8, <1>9, <1>10, <1>11, <1>12,
           <1>13, <1>14, ServeCases DEF Next

-----------------------------------------------------------------------------
(* Who may write may read                                                  *)

LEMMA WritersRead ==
  ASSUME NEW r \in Roles, NEW resource \in {"users", "billing"},
         <<resource, "write">> \in ROLE_HIERARCHY[r]
  PROVE  <<resource, "read">> \in ROLE_HIERARCHY[r]
<1> USE DEF ROLE_HIERARCHY, AdminPermissions, CommunityPermissions
<1>1. CASE r = "super_admin"
  BY <1>1
<1>2. CASE r = "admin"
  BY <1>2
<1>3. CASE r = "organizer"
  BY <1>3
<1>4. CASE r = "moderator"
  BY <1>4
<1>5. CASE r = "attendee"
  BY <1>5
<1> QED BY <1>1, <1>2, <1>3, <1>4, <1>5 DEF Roles

LEMMA RepliesAreAllowed ==
  ASSUME NEW p \in Processes, NEW s, NEW t, Replies(p, s, t)
  PROVE  MayRead(s)
<1>1. s.roles \subseteq Roles /\ s.resource \in {"users", "billing"}
  BY DEF Replies, Answering
<1>2. CASE Permitted(s.roles, <<s.resource, "write">>)
  <2>1. Permitted(s.roles, <<s.resource, "read">>)
    BY <1>1, <1>2, WritersRead DEF Permitted
  <2> QED BY <2>1 DEF MayRead, PermittedOn
<1>3. CASE s.owner = s.requester
  BY <1>3 DEF MayRead, PermittedOn
<1> QED BY <1>2, <1>3 DEF Replies, PermittedOn

LEMMA AnsweredNext ==
  TypeOK /\ RowsInUse /\ CommittedIsAnswered /\ [Next]_vars => CommittedIsAnswered'
<1> SUFFICES ASSUME TypeOK, RowsInUse, CommittedIsAnswered, [Next]_vars
             PROVE  CommittedIsAnswered'
  OBVIOUS
<1>1. ASSUME NEW p \in Processes, NEW s, Move(p, s), s.pc = "answering" => MayRead(s)
      PROVE  CommittedIsAnswered'
  <2>1. \A q \in Processes : process'[q] = IF q = p THEN s ELSE process[q]
    BY <1>1, ProcessTypes DEF Move
  <2> QED BY <1>1, <2>1 DEF CommittedIsAnswered, MayRead
<1>2. ASSUME NEW p \in Processes, NEW s, NEW t, Replies(p, s, t) PROVE CommittedIsAnswered'
  BY <1>1, <1>2, RepliesAreAllowed DEF Replies
<1>3. ASSUME NEW p \in Processes, NEW s, NEW t, Creates(p, s) \/ Grants(p, s) \/ Loads(p, s, t)
      PROVE  CommittedIsAnswered'
  <2>1. Move(p, s) /\ s.pc # "answering"
    BY <1>3, StatesHavePCs DEF Creates, Grants, Loads
  <2> QED BY <1>1, <2>1
<1>4. ASSUME NEW p \in Processes, Passes(p) PROVE CommittedIsAnswered'
  <2>1. [process[p] EXCEPT !.pc = "writing"].pc # "answering"
    BY <1>4, ProcessTypes, ShapeOfStates DEF Passes, Updating
  <2> QED BY <1>1, <1>4, <2>1 DEF Passes
<1>5. ASSUME NEW p \in Processes, Move(p, Idle) PROVE CommittedIsAnswered'
  BY <1>1, <1>5, StatesHavePCs
<1>6. ASSUME NEW p \in Processes, Insert(p) PROVE CommittedIsAnswered'
  <2>1. AfterInsert(process[p]).pc # "answering"
    BY DEF AfterInsert
  <2> QED BY <1>1, <1>6, <2>1, InsertEffect
<1>7. ASSUME NEW p \in Processes, Serve(p) PROVE CommittedIsAnswered'
  BY <1>2, <1>3, <1>4, <1>5, <1>6, <1>7, ServeCases
     DEF Ends, HandsOut, Deactivates, Issue, WriteUser, Goto, Move
<1>8. ASSUME UNCHANGED process PROVE CommittedIsAnswered'
  BY <1>8 DEF CommittedIsAnswered, MayRead
<1>9. CASE \E u \in Users : Verify(u)
  BY <1>8, <1>9 DEF Verify
<1> QED BY <1>7, <1>8, <1>9 DEF Next, Tick, vars

-----------------------------------------------------------------------------
(* Verified addresses                                                      *)

FlagsInv == UpdatesSeeTheFlag /\ VerifiedIsProven

LEMMA FlagsNext ==
  TypeOK /\ RowsInUse /\ FlagsInv /\ [Next]_vars => FlagsInv'
<1> SUFFICES ASSUME TypeOK, RowsInUse, FlagsInv, [Next]_vars PROVE FlagsInv'
  OBVIOUS
<1> USE DEF FlagsInv
<1>a. account \in [Users -> Row \cup {NoRow}]
  BY DEF TypeOK
<1>b. ASSUME NEW p \in Processes, NEW s, Move(p, s)
      PROVE  \A q \in Processes : process'[q] = IF q = p THEN s ELSE process[q]
  BY <1>b, ProcessTypes DEF Move
\* Steps that leave addresses and flags alone.
<1>1. ASSUME NEW p \in Processes, NEW s, Move(p, s), UNCHANGED <<proven, raced>>,
             \A u \in Users : /\ Exists(u)' <=> Exists(u)
                              /\ account'[u].verified = account[u].verified
                              /\ account'[u].email = account[u].email,
             \A u \in Users \ raced : (IsAddressUpdate(s, u) /\ account[u].verified)
                                         => s.loaded.verified
      PROVE  FlagsInv'
  <2>1. UpdatesSeeTheFlag'
    BY <1>1, <1>b DEF UpdatesSeeTheFlag, IsAddressUpdate
  <2>2. VerifiedIsProven'
    BY <1>1 DEF VerifiedIsProven
  <2> QED BY <2>1, <2>2
<1>2. ASSUME NEW p \in Processes, NEW s, Move(p, s), UNCHANGED <<account, proven, raced>>,
             s.pc \notin {"checking", "writing"}
      PROVE  FlagsInv'
  BY <1>1, <1>2 DEF IsAddressUpdate, Exists
<1>3. ASSUME NEW p \in Processes, NEW s, NEW t,
             Creates(p, s) \/ Grants(p, s) \/ Replies(p, s, t)
      PROVE  FlagsInv'
  <2>1. Move(p, s) /\ s.pc \notin {"checking", "writing"}
    BY <1>3, StatesHavePCs DEF Creates, Grants, Replies
  <2> QED BY <1>2, <1>3, <2>1 DEF Creates, Grants, Replies, DataSame, ghosts
<1>4. ASSUME NEW p \in Processes, NEW s, NEW t, Loads(p, s, t) PROVE FlagsInv'
  <2>1. \A u \in Users \ raced : (IsAddressUpdate(s, u) /\ account[u].verified)
                                   => s.loaded.verified
    BY <1>4 DEF Loads, IsAddressUpdate
  <2> QED BY <1>1, <1>4, <2>1 DEF Loads, DataSame, ghosts, Exists
<1>5. ASSUME NEW p \in Processes, Passes(p) PROVE FlagsInv'
  <2> DEFINE s == [process[p] EXCEPT !.pc = "writing"]
  <2>1. process[p] \in Updating
    BY <1>5, ProcessTypes, ShapeOfStates DEF Passes
  <2>2. s.user = process[p].user /\ s.email = process[p].email
        /\ s.loaded = process[p].loaded
    BY <2>1 DEF Updating
  <2>3. \A u \in Users \ raced : (IsAddressUpdate(s, u) /\ account[u].verified)
                                   => s.loaded.verified
    BY <1>5, <2>2 DEF Passes, UpdatesSeeTheFlag, IsAddressUpdate
  <2> QED BY <1>1, <1>5, <2>3 DEF Passes, DataSame, ghosts, Exists
<1>6. ASSUME NEW p \in Processes, NEW u \in Users, Deactivates(p, u) PROVE FlagsInv'
  <2>1. \A v \in Users : /\ Exists(v)' <=> Exists(v)
                         /\ account'[v].verified = account[v].verified
                         /\ account'[v].email = account[v].email
    BY <1>6, <1>a, DeactivateEffect, RowIsNotNoRow DEF Exists
  <2>2. Idle.pc \notin {"checking", "writing"}
    BY StatesHavePCs
  <2> QED BY <1>1, <1>6, <2>1, <2>2 DEF Deactivates, ghosts, IsAddressUpdate
<1>7. ASSUME NEW p \in Processes, Insert(p) PROVE FlagsInv'
  <2> DEFINE c == process[p]
  <2>1. /\ c \in Inserting
        /\ account' = [account EXCEPT ![c.user] = NewRow(c)]
        /\ Move(p, AfterInsert(c))
    BY <1>7, InsertEffect
  <2>2. c.user \in Users /\ ~Exists(c.user) /\ AfterInsert(c).pc = "issuing"
    BY <1>7, <2>1 DEF Inserting, RowsInUse, Insert, AfterInsert
  <2>3. /\ account'[c.user].email = c.email /\ account'[c.user].verified = c.verified
        /\ \A u \in Users \ {c.user} : account'[u] = account[u]
    BY <2>1, <2>2, <1>a DEF NewRow
  <2>4. ASSUME NEW q \in Processes, NEW u \in Users, IsAddressUpdate(process'[q], u)
        PROVE  process'[q] = process[q] /\ u # c.user
    BY <1>b, <2>1, <2>2, <2>4 DEF IsAddressUpdate, RowsInUse
  <2>5. UpdatesSeeTheFlag'
    BY <1>7, <2>3, <2>4 DEF Insert, UpdatesSeeTheFlag
  <2>6. VerifiedIsProven'
    BY <1>7, <2>3 DEF Insert, VerifiedIsProven, Exists
  <2> QED BY <2>5, <2>6
<1>8. ASSUME NEW p \in Processes, WriteUser(p) PROVE FlagsInv'
  <2> DEFINE c == process[p]
             now == account[c.user]
             new == account'[c.user]
  <2>1. /\ c \in Updating /\ c.pc = "writing" /\ now \in Row /\ new \in Row
        /\ account' = [account EXCEPT ![c.user] = new]
        /\ new.verified = NewFlag(c, now.verified)
        /\ c.email = NoEmail => new.email = now.email
        /\ Move(p, Idle)
    BY <1>8, WriteEffect
  <2>2. c.user \in Users /\ Exists(c.user)
    BY <2>1 DEF Updating, RowsInUse
  <2>3. UNCHANGED <<proven, raced>>
    BY <1>8 DEF WriteUser, ghosts
  <2>4. \A u \in Users \ {c.user} : account'[u] = account[u]
    BY <2>1, <1>a
  <2>5. now.verified \in BOOLEAN /\ new.verified \in BOOLEAN
    BY <2>1 DEF Row
  <2>6. new.verified => now.verified
    BY <2>1, <2>5 DEF NewFlag
  <2>7. (new.verified /\ c.user \notin raced) => c.email = NoEmail
    <3> SUFFICES ASSUME new.verified, c.user \notin raced, c.email # NoEmail PROVE FALSE
      OBVIOUS
    <3>1. IsAddressUpdate(c, c.user) /\ now.verified
      BY <2>1, <2>6 DEF IsAddressUpdate
    <3>2. c.loaded.verified
      BY <2>2, <3>1 DEF UpdatesSeeTheFlag
    <3> QED BY <2>1, <3>2 DEF NewFlag
  <2>8. ASSUME NEW q \in Processes, NEW u \in Users, IsAddressUpdate(process'[q], u)
        PROVE  process'[q] = process[q]
    BY <1>b, <2>1, <2>8, StatesHavePCs DEF IsAddressUpdate
  <2>9. UpdatesSeeTheFlag'
    BY <2>3, <2>4, <2>6, <2>8 DEF UpdatesSeeTheFlag
  <2>10. VerifiedIsProven'
    <3> SUFFICES ASSUME NEW u \in Users \ raced, account'[u] # NoRow, account'[u].verified
                 PROVE  <<u, account'[u].email>> \in proven
      BY <2>3 DEF VerifiedIsProven, Exists
    <3>1. CASE u = c.user
      BY <2>1, <2>2, <2>6, <2>7, <3>1 DEF VerifiedIsProven
    <3>2. CASE u # c.user
      BY <2>4, <3>2 DEF VerifiedIsProven, Exists
    <3> QED BY <3>1, <3>2
  <2> QED BY <2>9, <2>10
<1>9. ASSUME NEW u \in Users, Verify(u) PROVE FlagsInv'
  <2>1. /\ account[u] \in Row /\ account'[u].email = account[u].email
        /\ \A v \in Users \ {u} : account'[v] = account[v]
    BY <1>9, <1>a, VerifyEffect
  <2>2. raced \subseteq raced' /\ proven \subseteq proven' /\ UNCHANGED process
        /\ <<u, account[u].email>> \in proven'
    BY <1>9 DEF Verify
  <2>3. u \notin raced' => \A q \in Processes : ~IsAddressUpdate(process[q], u)
    BY <1>9 DEF Verify
  <2>4. UpdatesSeeTheFlag'
    BY <2>1, <2>2, <2>3 DEF UpdatesSeeTheFlag
  <2>5. VerifiedIsProven'
    BY <2>1, <2>2 DEF VerifiedIsProven, Exists
  <2> QED BY <2>4, <2>5
<1>10. ASSUME NEW p \in Processes, Serve(p) PROVE FlagsInv'
  <2>1. Idle.pc \notin {"checking", "writing"}
    BY StatesHavePCs
  <2>2. ASSUME Ends(p) \/ Issue(p) \/ \E u \in Users : HandsOut(p, u) PROVE FlagsInv'
    <3>1. Move(p, Idle) /\ UNCHANGED <<account, proven, raced>>
      BY <2>2 DEF Ends, DataSame, HandsOut, ghosts, Issue, Goto, Move
    <3> QED BY <1>2, <2>1, <3>1
  <2> QED BY <1>3, <1>4, <1>5, <1>6, <1>7, <1>8, <1>10, <2>2, ServeCases
<1>11. ASSUME UNCHANGED <<account, process, proven, raced>> PROVE FlagsInv'
  BY <1>11 DEF UpdatesSeeTheFlag, VerifiedIsProven, Exists, IsAddressUpdate
<1> QED BY <1>9, <1>10, <1>11 DEF Next, Tick, vars, ghosts

-----------------------------------------------------------------------------
(* Promotions                                                              *)

LEMMA OnlyRootsAdminister ==
  ASSUME NEW t \in Token, Permitted(t.roles, <<"users", "admin">>)
  PROVE  "super_admin" \in t.roles
<1>1. ASSUME NEW r \in Roles, <<"users", "admin">> \in ROLE_HIERARCHY[r]
      PROVE  r = "super_admin"
  <2> USE DEF ROLE_HIERARCHY, AdminPermissions, CommunityPermissions
  <2>1. CASE r = "admin"
    BY <1>1, <2>1
  <2>2. CASE r = "organizer"
    BY <1>1, <2>2
  <2>3. CASE r = "moderator"
    BY <1>1, <2>3
  <2>4. CASE r = "attendee"
    BY <1>1, <2>4
  <2> QED BY <2>1, <2>2, <2>3, <2>4 DEF Roles
<1>2. t.roles \subseteq Roles
  BY DEF Token
<1> QED BY <1>1, <1>2 DEF Permitted

RootInv == NobodyIsRoot /\ PromotionsHaveARoot

LEMMA RootInit == Init => RootInv
<1> SUFFICES ASSUME Init PROVE RootInv
  OBVIOUS
<1>1. PICK f \in [Founders -> RoleSets] :
        /\ account = [u \in Users |->
            IF u \in Founders
              THEN [email |-> FirstEmail[u], roles |-> f[u], active |-> TRUE,
                    verified |-> FALSE]
              ELSE NoRow]
        /\ rooted = \E u \in Founders : "super_admin" \in f[u]
  BY DEF Init
<1>2. PromotionsHaveARoot
  BY <1>1, UserAssumption DEF PromotionsHaveARoot, Exists
<1>3. tokens = {} /\ process = [p \in Processes |-> Idle]
  BY DEF Init
<1>4. NobodyIsRoot
  BY <1>3 DEF NobodyIsRoot, Idle
<1> QED BY <1>2, <1>4 DEF RootInv

LEMMA RootNext ==
  TypeOK /\ RowsInUse /\ RootInv /\ [Next]_vars => RootInv'
<1> SUFFICES ASSUME TypeOK, RowsInUse, RootInv, [Next]_vars PROVE RootInv'
  OBVIOUS
<1> USE DEF RootInv
<1>a. account \in [Users -> Row \cup {NoRow}]
  BY DEF TypeOK
<1>b. ASSUME NEW p \in Processes, NEW s, Move(p, s)
      PROVE  \A q \in Processes : process'[q] = IF q = p THEN s ELSE process[q]
  BY <1>b, ProcessTypes DEF Move
\* Steps that leave roles and tokens alone.
<1>1. ASSUME NEW p \in Processes, NEW s, Move(p, s), UNCHANGED <<tokens, rooted>>,
             \A u \in Users : /\ Exists(u)' <=> Exists(u)
                              /\ account'[u].roles = account[u].roles,
             ~rooted => /\ s.pc = "issuing" => "super_admin" \notin s.roles
                        /\ s.pc \in {"checking", "writing"} => s.roles = NoRoles
      PROVE  RootInv'
  <2>1. NobodyIsRoot'
    BY <1>1, <1>b DEF NobodyIsRoot
  <2>2. PromotionsHaveARoot'
    BY <1>1 DEF PromotionsHaveARoot
  <2> QED BY <2>1, <2>2
<1>2. ASSUME NEW p \in Processes, NEW s, Move(p, s), UNCHANGED <<account, tokens, rooted>>,
             s.pc \notin {"issuing", "checking", "writing"}
      PROVE  RootInv'
  BY <1>1, <1>2 DEF Exists
<1>3. ASSUME NEW p \in Processes, NEW s, NEW t, Creates(p, s) \/ Replies(p, s, t)
      PROVE  RootInv'
  <2>1. Move(p, s) /\ s.pc \notin {"issuing", "checking", "writing"}
    BY <1>3, StatesHavePCs DEF Creates, Replies
  <2> QED BY <1>2, <1>3, <2>1 DEF Creates, Replies, DataSame, ghosts
<1>4. ASSUME NEW p \in Processes, NEW s, Grants(p, s) PROVE RootInv'
  <2>1. s.pc = "issuing" /\ s.user \in Users
    BY <1>4, StatesHavePCs DEF Grants, Issuing
  <2>2. ~rooted => "super_admin" \notin s.roles
    BY <1>4, <2>1 DEF Grants, PromotionsHaveARoot
  <2> QED BY <1>1, <1>4, <2>1, <2>2 DEF Grants, DataSame, ghosts, Exists
<1>5. ASSUME NEW p \in Processes, NEW s, NEW t, Loads(p, s, t) PROVE RootInv'
  <2>1. s.pc \in {"checking", "writing"} /\ t \in Token
    BY <1>5, StatesHavePCs DEF Loads, TypeOK
  <2>2. ~rooted => s.roles = NoRoles
    BY <1>5, <2>1, OnlyRootsAdminister DEF Loads, MayUpdate, NobodyIsRoot
  <2> QED BY <1>1, <1>5, <2>1, <2>2 DEF Loads, DataSame, ghosts, Exists
<1>6. ASSUME NEW p \in Processes, Passes(p) PROVE RootInv'
  <2> DEFINE s == [process[p] EXCEPT !.pc = "writing"]
  <2>1. process[p] \in Updating
    BY <1>6, ProcessTypes, ShapeOfStates DEF Passes
  <2>2. s.roles = process[p].roles /\ s.pc = "writing"
    BY <2>1 DEF Updating
  <2>3. ~rooted => s.roles = NoRoles
    BY <1>6, <2>2 DEF Passes, NobodyIsRoot
  <2> QED BY <1>1, <1>6, <2>2, <2>3 DEF Passes, DataSame, ghosts, Exists
<1>7. ASSUME NEW p \in Processes, NEW u \in Users, Deactivates(p, u) PROVE RootInv'
  <2>1. \A v \in Users : /\ Exists(v)' <=> Exists(v)
                         /\ account'[v].roles = account[v].roles
    BY <1>7, <1>a, DeactivateEffect, RowIsNotNoRow DEF Exists
  <2>2. Idle.pc \notin {"issuing", "checking", "writing"}
    BY StatesHavePCs
  <2> QED BY <1>1, <1>7, <2>1, <2>2 DEF Deactivates, ghosts
<1>8. ASSUME NEW p \in Processes, Insert(p) PROVE RootInv'
  <2> DEFINE c == process[p]
  <2>1. /\ c \in Inserting
        /\ account' = [account EXCEPT ![c.user] = NewRow(c)]
        /\ Move(p, AfterInsert(c))
    BY <1>8, InsertEffect
  <2>2. /\ account'[c.user].roles = {"attendee"}
        /\ \A u \in Users \ {c.user} : account'[u] = account[u]
    BY <2>1, <1>a DEF NewRow, Inserting
  <2>3. AfterInsert(c).pc = "issuing" /\ AfterInsert(c).roles = {"attendee"}
    BY DEF AfterInsert
  <2>4. UNCHANGED <<tokens, rooted>>
    BY <1>8 DEF Insert
  <2>5. NobodyIsRoot'
    BY <1>b, <2>1, <2>3, <2>4 DEF NobodyIsRoot
  <2>6. PromotionsHaveARoot'
    BY <2>2, <2>4 DEF PromotionsHaveARoot, Exists
  <2> QED BY <2>5, <2>6
<1>9. ASSUME NEW p \in Processes, Issue(p) PROVE RootInv'
  <2>1. /\ Move(p, Idle) /\ UNCHANGED <<account, rooted>>
        /\ \A t \in tokens' : t \in tokens \/ t.roles = process[p].roles
    <3>1. /\ Move(p, Idle)
          /\ tokens' = tokens \cup {[user |-> process[p].user, roles |-> process[p].roles,
                                    way |-> process[p].way, age |-> 0]}
      BY <1>9, IssueEffect
    <3>2. UNCHANGED <<account, rooted>>
      BY <1>9 DEF Issue, ghosts
    <3> QED BY <3>1, <3>2
  <2>2. ~rooted => "super_admin" \notin process[p].roles
    BY <1>9 DEF Issue, NobodyIsRoot
  <2>3. NobodyIsRoot'
    BY <1>b, <2>1, <2>2, StatesHavePCs DEF NobodyIsRoot
  <2>4. PromotionsHaveARoot'
    BY <2>1 DEF PromotionsHaveARoot, Exists
  <2> QED BY <2>3, <2>4
<1>10. ASSUME NEW p \in Processes, WriteUser(p) PROVE RootInv'
  <2> DEFINE c == process[p]
  <2>1. /\ c \in Updating /\ c.pc = "writing" /\ account[c.user] \in Row
        /\ account'[c.user] \in Row
        /\ account' = [account EXCEPT ![c.user] = account'[c.user]]
        /\ account'[c.user].roles = account[c.user].roles \/ c.roles # NoRoles
        /\ Move(p, Idle)
    BY <1>10, WriteEffect
  <2>2. UNCHANGED <<tokens, rooted>>
    BY <1>10 DEF WriteUser, ghosts
  <2>3. CASE rooted
    BY <2>2, <2>3 DEF NobodyIsRoot, PromotionsHaveARoot
  <2>4. CASE ~rooted
    <3>1. account'[c.user].roles = account[c.user].roles
      BY <2>1, <2>4 DEF NobodyIsRoot
    <3>2. \A u \in Users : /\ Exists(u)' <=> Exists(u)
                           /\ account'[u].roles = account[u].roles
      BY <1>a, <2>1, <3>1, RowIsNotNoRow DEF Exists
    <3>3. Idle.pc \notin {"issuing", "checking", "writing"}
      BY StatesHavePCs
    <3> QED BY <1>1, <2>1, <2>2, <3>2, <3>3
  <2> QED BY <2>3, <2>4
<1>11. ASSUME NEW u \in Users, Verify(u) PROVE RootInv'
  <2>1. \A v \in Users : /\ Exists(v)' <=> Exists(v)
                         /\ account'[v].roles = account[v].roles
    BY <1>11, <1>a, VerifyEffect, RowIsNotNoRow DEF Exists
  <2> QED BY <1>11, <2>1 DEF Verify, NobodyIsRoot, PromotionsHaveARoot
<1>12. CASE Tick
  <2>1. UNCHANGED <<account, process, rooted>>
    BY <1>12 DEF Tick, ghosts
  <2>2. ASSUME NEW t \in tokens' PROVE \E y \in tokens : t.roles = y.roles
    <3>1. tokens \in SUBSET Token /\ t \in Aged(tokens, AccessTTL)
      BY <1>12 DEF Tick, TypeOK
    <3> QED BY <3>1, AgedTokens
  <2>3. NobodyIsRoot'
    BY <2>1, <2>2 DEF NobodyIsRoot
  <2> QED BY <2>1, <2>3 DEF PromotionsHaveARoot, Exists
<1>13. ASSUME NEW p \in Processes, Serve(p) PROVE RootInv'
  <2>1. Idle.pc \notin {"issuing", "checking", "writing"}
    BY StatesHavePCs
  <2>2. ASSUME Ends(p) \/ \E u \in Users : HandsOut(p, u) PROVE RootInv'
    <3>1. Move(p, Idle) /\ UNCHANGED <<account, tokens, rooted>>
      BY <2>2 DEF Ends, DataSame, HandsOut, ghosts
    <3> QED BY <1>2, <2>1, <3>1
  <2> QED BY <1>3, <1>4, <1>5, <1>6, <1>7, <1>8, <1>9, <1>10, <1>13, <2>2, ServeCases
<1>14. CASE UNCHANGED vars
  BY <1>14 DEF vars, ghosts, NobodyIsRoot, PromotionsHaveARoot, Exists
<1> QED BY <1>11, <1>12, <1>13, <1>14 DEF Next

-----------------------------------------------------------------------------
(* Tokens are of users that exist                                          *)

LEMMA BearersNext ==
  TypeOK /\ RowsInUse /\ BearersExist /\ [Next]_vars => BearersExist'
<1> SUFFICES ASSUME TypeOK, RowsInUse, BearersExist, [Next]_vars PROVE BearersExist'
  OBVIOUS
<1>a. account \in [Users -> Row \cup {NoRow}]
  BY DEF TypeOK
<1>b. /\ partials \subseteq Partial /\ tokens \subseteq Token
      /\ \A m \in partials : m.user \in Users
      /\ \A t \in tokens : t.user \in Users
  BY DEF TypeOK, Partial, Token
<1>c. ASSUME NEW p \in Processes, NEW s, Move(p, s)
      PROVE  \A q \in Processes : process'[q] = IF q = p THEN s ELSE process[q]
  BY <1>c, ProcessTypes DEF Move
<1>d. ASSUME NEW q \in Processes, process[q].pc = "issuing" PROVE process[q].user \in Users
  BY <1>d, ProcessTypes, ShapeOfStates DEF Issuing
\* Users stay; what the step adds has to be of a user that exists.
<1>1. ASSUME NEW p \in Processes, NEW s, Move(p, s),
             \A u \in Users : Exists(u) => Exists(u)',
             s.pc = "issuing" => Exists(s.user)',
             \A m \in partials' : m \in partials \/ Exists(m.user)',
             \A t \in tokens' : t \in tokens \/ Exists(t.user)'
      PROVE  BearersExist'
  <2>1. ASSUME NEW q \in Processes, process'[q].pc = "issuing"
        PROVE  Exists(process[q].user)'
    <3>1. CASE q = p
      BY <1>1, <1>c, <2>1, <3>1 DEF Exists
    <3>2. CASE q # p
      <4>1. process'[q] = process[q]
        BY <1>1, <1>c, <3>2
      <4>2. Exists(process[q].user) /\ process[q].user \in Users
        BY <1>d, <2>1, <4>1 DEF BearersExist
      <4> QED BY <1>1, <4>1, <4>2 DEF Exists
    <3> QED BY <3>1, <3>2
  <2>2. \A m \in partials' : Exists(m.user)'
    BY <1>1, <1>b DEF BearersExist
  <2>3. \A t \in tokens' : Exists(t.user)'
    BY <1>1, <1>b DEF BearersExist
  <2> QED BY <2>1, <2>2, <2>3 DEF BearersExist, Exists
<1>2. UNCHANGED account => \A u \in Users : Exists(u) => Exists(u)'
  BY DEF Exists
<1>3. ASSUME NEW p \in Processes, NEW s, Move(p, s), DataSame, s.pc # "issuing"
      PROVE  BearersExist'
  BY <1>1, <1>2, <1>3 DEF DataSame
<1>4. ASSUME NEW p \in Processes, NEW s, NEW t,
             Creates(p, s) \/ Loads(p, s, t) \/ Replies(p, s, t)
      PROVE  BearersExist'
  <2>1. Move(p, s) /\ s.pc # "issuing"
    BY <1>4, StatesHavePCs DEF Creates, Loads, Replies
  <2> QED BY <1>3, <1>4, <2>1 DEF Creates, Loads, Replies
<1>5. ASSUME NEW p \in Processes, NEW s, Grants(p, s) PROVE BearersExist'
  <2>1. Exists(s.user)'
    BY <1>5 DEF Grants, DataSame, Exists
  <2> QED BY <1>1, <1>2, <1>5, <2>1 DEF Grants, DataSame
<1>6. ASSUME NEW p \in Processes, Passes(p) PROVE BearersExist'
  <2>1. [process[p] EXCEPT !.pc = "writing"].pc # "issuing"
    BY <1>6, ProcessTypes, ShapeOfStates DEF Passes, Updating
  <2> QED BY <1>3, <1>6, <2>1 DEF Passes
<1>7. ASSUME NEW p \in Processes, NEW u \in Users, HandsOut(p, u) PROVE BearersExist'
  <2>1. \A m \in partials' : m \in partials \/ Exists(m.user)'
    BY <1>7 DEF HandsOut, Exists
  <2> QED BY <1>1, <1>2, <1>7, <2>1, StatesHavePCs DEF HandsOut
<1>8. ASSUME NEW p \in Processes, NEW u \in Users, account[u] \in Row, account'[u] \in Row,
             account' = [account EXCEPT ![u] = account'[u]], Move(p, Idle),
             UNCHANGED <<tokens, partials>>
      PROVE  BearersExist'
  <2>1. \A v \in Users : Exists(v) => Exists(v)'
    BY <1>8, SameUsersOfWrite DEF SameUsers
  <2> QED BY <1>1, <1>8, <2>1, StatesHavePCs
<1>9. ASSUME NEW p \in Processes, NEW u \in Users, Deactivates(p, u) PROVE BearersExist'
  BY <1>8, <1>9, DeactivateEffect DEF Deactivates
<1>10. ASSUME NEW p \in Processes, WriteUser(p) PROVE BearersExist'
  <2>1. process[p].user \in Users
    BY <1>10, WriteEffect DEF Updating
  <2> QED BY <1>8, <1>10, <2>1, WriteEffect DEF WriteUser
<1>11. ASSUME NEW p \in Processes, Insert(p) PROVE BearersExist'
  <2> DEFINE c == process[p]
  <2>1. /\ c \in Inserting /\ NewRow(c) \in Row
        /\ account' = [account EXCEPT ![c.user] = NewRow(c)]
        /\ Move(p, AfterInsert(c))
    BY <1>11, InsertEffect
  <2>2. c.user \in Users /\ AfterInsert(c).user = c.user
    BY <2>1 DEF Inserting, AfterInsert
  <2>3. \A u \in Users : Exists(u)' <=> (Exists(u) \/ u = c.user)
    BY <1>a, <2>1, <2>2, RowIsNotNoRow DEF Exists
  <2>4. UNCHANGED <<tokens, partials>>
    BY <1>11 DEF Insert
  <2> QED BY <1>1, <2>1, <2>2, <2>3, <2>4
<1>12. ASSUME NEW p \in Processes, Issue(p) PROVE BearersExist'
  <2> DEFINE new == [user |-> process[p].user, roles |-> process[p].roles,
                     way |-> process[p].way, age |-> 0]
  <2>1. Move(p, Idle) /\ tokens' = tokens \cup {new}
    BY <1>12, IssueEffect
  <2>2. UNCHANGED <<account, partials>> /\ Exists(new.user)
    BY <1>12 DEF Issue, BearersExist
  <2>3. \A t \in tokens' : t \in tokens \/ Exists(t.user)'
    BY <2>1, <2>2 DEF Exists
  <2> QED BY <1>1, <1>2, <2>1, <2>2, <2>3, StatesHavePCs
<1>13. ASSUME NEW u \in Users, Verify(u) PROVE BearersExist'
  <2>1. \A v \in Users : Exists(v) => Exists(v)'
    BY <1>13, VerifyEffect, SameUsersOfWrite DEF SameUsers
  <2>2. UNCHANGED <<process, tokens, partials>>
    BY <1>13 DEF Verify
  <2> QED BY <1>b, <1>d, <2>1, <2>2 DEF BearersExist
<1>14. CASE Tick
  <2>1. UNCHANGED <<account, process>>
    BY <1>14 DEF Tick
  <2>2. ASSUME NEW t \in tokens' PROVE Exists(t.user)
    <3>1. PICK y \in tokens : t.user = y.user
      BY <1>14, <1>b, AgedTokens DEF Tick
    <3> QED BY <3>1 DEF BearersExist
  <2>3. ASSUME NEW m \in partials' PROVE Exists(m.user)
    <3>1. PICK y \in partials : m.user = y.user
      BY <1>14, <1>b, AgedPartials DEF Tick
    <3> QED BY <3>1 DEF BearersExist
  <2> QED BY <2>1, <2>2, <2>3 DEF BearersExist, Exists
<1>15. ASSUME NEW p \in Processes, Serve(p) PROVE BearersExist'
  <2>1. ASSUME Ends(p) PROVE BearersExist'
    BY <1>3, <2>1, StatesHavePCs DEF Ends
  <2> QED BY <1>4, <1>5, <1>6, <1>7, <1>9, <1>10, <1>11, <1>12, <1>15, <2>1, ServeCases
<1>16. CASE UNCHANGED vars
  BY <1>16 DEF vars, BearersExist, Exists
<1> QED BY <1>13, <1>14, <1>15, <1>16 DEF Next

-----------------------------------------------------------------------------
(* What tokens say                                                         *)

TokensInv == ReadsAreRecent /\ TokensCatchUp

\* A change of the roles or of is_active begins a new time for the row.
RowsHonest ==
  \A u \in Users :
    \/ since'[u] = 0
    \/ /\ since'[u] = since[u]
       /\ account'[u].roles = account[u].roles
       /\ account'[u].active = account[u].active

\* What a process that issues is about to say.
ClaimHolds(c, rows, ages) ==
  /\ ages[c.user] > 0 => rows[c.user].roles = c.roles
  /\ ages[c.user] > MfaTTL => rows[c.user].active \/ c.way = "okta"

PartialHolds(m) == since[m.user] > m.age => account[m.user].active

TokenHolds(t) ==
  /\ since[t.user] > t.age => account[t.user].roles = t.roles
  /\ since[t.user] > t.age + MfaTTL => account[t.user].active \/ t.way = "okta"

LEMMA TokensInvParts ==
  TokensInv <=> /\ \A p \in Processes : process[p].pc = "issuing"
                                            => ClaimHolds(process[p], account, since)
                /\ \A m \in partials : PartialHolds(m)
                /\ \A t \in tokens : TokenHolds(t)
BY DEF TokensInv, ReadsAreRecent, TokensCatchUp, ClaimHolds, PartialHolds, TokenHolds

LEMMA HonestKeeps ==
  ASSUME TypeOK, RowsHonest
  PROVE  /\ \A c \in Issuing : ClaimHolds(c, account, since) => ClaimHolds(c, account', since')
         /\ \A m \in Partial : PartialHolds(m) => PartialHolds(m)'
         /\ \A t \in Token : TokenHolds(t) => TokenHolds(t)'
<1> USE TTLAssumption
<1>1. ASSUME NEW c \in Issuing, ClaimHolds(c, account, since)
      PROVE  ClaimHolds(c, account', since')
  BY <1>1 DEF Issuing, ClaimHolds, RowsHonest
<1>2. ASSUME NEW m \in Partial, PartialHolds(m) PROVE PartialHolds(m)'
  BY <1>2 DEF Partial, PartialHolds, RowsHonest
<1>3. ASSUME NEW t \in Token, TokenHolds(t) PROVE TokenHolds(t)'
  BY <1>3 DEF Token, TokenHolds, RowsHonest
<1> QED BY <1>1, <1>2, <1>3

LEMMA TokensNext ==
  TypeOK /\ BearersExist /\ RowsInUse /\ TokensInv /\ [Next]_vars => TokensInv'
<1> SUFFICES ASSUME TypeOK, BearersExist, RowsInUse, TokensInv, [Next]_vars
             PROVE  TokensInv'
  OBVIOUS
<1> USE TTLAssumption
<1>a. account \in [Users -> Row \cup {NoRow}] /\ since \in [Users -> 0 .. SinceCap]
  BY DEF TypeOK
<1>b. ASSUME NEW p \in Processes, NEW s, Move(p, s)
      PROVE  \A q \in Processes : process'[q] = IF q = p THEN s ELSE process[q]
  BY <1>b, ProcessTypes DEF Move
<1>c. ASSUME NEW q \in Processes, process[q].pc = "issuing" PROVE process[q] \in Issuing
  BY <1>c, ProcessTypes, ShapeOfStates
<1>d. partials \subseteq Partial /\ tokens \subseteq Token
  BY DEF TypeOK
\* A step that is honest about rows; what it adds has to hold.
<1>1. ASSUME NEW p \in Processes, NEW s, Move(p, s), RowsHonest,
             s.pc = "issuing" => ClaimHolds(s, account', since'),
             \A m \in partials' : m \in partials \/ PartialHolds(m)',
             \A t \in tokens' : t \in tokens \/ TokenHolds(t)'
      PROVE  TokensInv'
  <2>1. ASSUME NEW q \in Processes, process'[q].pc = "issuing"
        PROVE  ClaimHolds(process'[q], account', since')
    <3>1. CASE q = p
      BY <1>1, <1>b, <2>1, <3>1
    <3>2. CASE q # p
      <4>1. process'[q] = process[q] /\ process[q] \in Issuing
        BY <1>1, <1>b, <1>c, <2>1, <3>2
      <4>2. ClaimHolds(process[q], account, since)
        BY <2>1, <4>1, TokensInvParts
      <4> QED BY <1>1, <4>1, <4>2, HonestKeeps
    <3> QED BY <3>1, <3>2
  <2>2. \A m \in partials' : PartialHolds(m)'
    BY <1>1, <1>d, HonestKeeps, TokensInvParts
  <2>3. \A t \in tokens' : TokenHolds(t)'
    BY <1>1, <1>d, HonestKeeps, TokensInvParts
  <2> QED BY <2>1, <2>2, <2>3 DEF TokensInv, ReadsAreRecent, TokensCatchUp, ClaimHolds,
             PartialHolds, TokenHolds
<1>2. ASSUME UNCHANGED <<account, since>> PROVE RowsHonest
  BY <1>2 DEF RowsHonest
<1>3. ASSUME NEW p \in Processes, NEW s, Move(p, s), DataSame, s.pc # "issuing"
      PROVE  TokensInv'
  BY <1>1, <1>2, <1>3 DEF DataSame
<1>4. ASSUME NEW p \in Processes, NEW s, NEW t,
             Creates(p, s) \/ Loads(p, s, t) \/ Replies(p, s, t)
      PROVE  TokensInv'
  <2>1. Move(p, s) /\ s.pc # "issuing"
    BY <1>4, StatesHavePCs DEF Creates, Loads, Replies
  <2> QED BY <1>3, <1>4, <2>1 DEF Creates, Loads, Replies
<1>5. ASSUME NEW p \in Processes, NEW s, Grants(p, s) PROVE TokensInv'
  <2>1. s.user \in Users /\ since[s.user] \in Nat
    BY <1>5, <1>a DEF Grants, Issuing
  <2>2. since[s.user] > MfaTTL => account[s.user].active \/ s.way = "okta"
    <3> SUFFICES ASSUME since[s.user] > MfaTTL, NEW m \in partials, m.user = s.user
                 PROVE  account[s.user].active
      BY <1>5 DEF Grants
    <3>1. m.age < MfaTTL /\ m.age \in Nat
      BY <1>d DEF Partial
    <3>2. since[m.user] > m.age
      BY <2>1, <3>1
    <3> QED BY <3>2, TokensInvParts DEF PartialHolds
  <2>3. ClaimHolds(s, account', since')
    BY <1>5, <2>2 DEF Grants, DataSame, ClaimHolds
  <2> QED BY <1>1, <1>2, <1>5, <2>3 DEF Grants, DataSame
<1>6. ASSUME NEW p \in Processes, Passes(p) PROVE TokensInv'
  <2>1. [process[p] EXCEPT !.pc = "writing"].pc # "issuing"
    BY <1>6, ProcessTypes, ShapeOfStates DEF Passes, Updating
  <2> QED BY <1>3, <1>6, <2>1 DEF Passes
<1>7. ASSUME NEW p \in Processes, NEW u \in Users, HandsOut(p, u) PROVE TokensInv'
  <2>1. PartialHolds([user |-> u, age |-> 0])'
    BY <1>7 DEF HandsOut, PartialHolds
  <2>2. \A m \in partials' : m \in partials \/ PartialHolds(m)'
    BY <1>7, <2>1 DEF HandsOut, PartialHolds
  <2> QED BY <1>1, <1>2, <1>7, <2>2, StatesHavePCs DEF HandsOut
<1>8. ASSUME NEW p \in Processes, NEW u \in Users, Deactivates(p, u) PROVE TokensInv'
  <2>1. /\ account[u] \in Row /\ account' = [account EXCEPT ![u] = account'[u]]
        /\ account'[u].roles = account[u].roles /\ ~account'[u].active
        /\ account'[u] \in Row
    BY <1>8, DeactivateEffect
  <2>2. \A v \in Users \ {u} : account'[v] = account[v] /\ since'[v] = since[v]
    BY <1>8, <1>a, <2>1 DEF Deactivates
  <2>3. since'[u] = 0 \/ (since'[u] = since[u] /\ ~account[u].active)
    BY <1>8, <1>a DEF Deactivates
  <2>4. account'[u].active = FALSE /\ (~account[u].active => account[u].active = FALSE)
    BY <2>1 DEF Row
  <2>5. RowsHonest
    BY <2>1, <2>2, <2>3, <2>4 DEF RowsHonest
  <2> QED BY <1>1, <1>8, <2>5, StatesHavePCs DEF Deactivates
<1>9. ASSUME NEW p \in Processes, Insert(p) PROVE TokensInv'
  <2> DEFINE c == process[p]
  <2>1. /\ c \in Inserting
        /\ account' = [account EXCEPT ![c.user] = NewRow(c)]
        /\ UNCHANGED since
        /\ Move(p, AfterInsert(c))
    BY <1>9, InsertEffect
  <2>2. c.user \in Users /\ ~Exists(c.user)
    BY <1>9, <2>1 DEF Inserting, Insert, RowsInUse
  <2>3. \A u \in Users : Exists(u) => account'[u] = account[u]
    BY <1>a, <2>1, <2>2
  <2>4. ClaimHolds(AfterInsert(c), account', since')
    BY <1>a, <2>1, <2>2 DEF ClaimHolds, AfterInsert, NewRow
  <2>5. UNCHANGED <<tokens, partials>>
    BY <1>9 DEF Insert
  <2>6. ASSUME NEW q \in Processes, process'[q].pc = "issuing"
        PROVE  ClaimHolds(process'[q], account', since')
    <3>1. CASE q = p
      BY <1>b, <2>1, <2>4, <3>1
    <3>2. CASE q # p
      <4>1. process'[q] = process[q] /\ process[q] \in Issuing
        BY <1>b, <1>c, <2>1, <2>6, <3>2
      <4>2. account'[process[q].user] = account[process[q].user]
        BY <2>3, <2>6, <4>1 DEF BearersExist, Issuing
      <4>3. ClaimHolds(process[q], account, since)
        BY <2>6, <4>1, TokensInvParts
      <4> QED BY <2>1, <4>1, <4>2, <4>3 DEF ClaimHolds
    <3> QED BY <3>1, <3>2
  <2>7. ASSUME NEW m \in partials PROVE PartialHolds(m)'
    <3>1. account'[m.user] = account[m.user]
      BY <1>d, <2>3 DEF BearersExist, Partial
    <3> QED BY <2>1, <3>1, TokensInvParts DEF PartialHolds
  <2>8. ASSUME NEW t \in tokens PROVE TokenHolds(t)'
    <3>1. account'[t.user] = account[t.user]
      BY <1>d, <2>3 DEF BearersExist, Token
    <3> QED BY <2>1, <3>1, TokensInvParts DEF TokenHolds
  <2> QED BY <2>5, <2>6, <2>7, <2>8 DEF TokensInv, ReadsAreRecent, TokensCatchUp,
             ClaimHolds, PartialHolds, TokenHolds
<1>10. ASSUME NEW p \in Processes, Issue(p) PROVE TokensInv'
  <2> DEFINE c == process[p]
             new == [user |-> c.user, roles |-> c.roles, way |-> c.way, age |-> 0]
  <2>1. Move(p, Idle) /\ tokens' = tokens \cup {new}
    BY <1>10, IssueEffect
  <2>2. UNCHANGED <<account, since, partials>>
    BY <1>10 DEF Issue
  <2>3. ClaimHolds(c, account, since)
    BY <1>10, TokensInvParts DEF Issue
  <2>4. /\ since[c.user] > 0 => account[c.user].roles = c.roles
        /\ since[c.user] > 0 + MfaTTL => account[c.user].active \/ c.way = "okta"
    BY <2>3 DEF ClaimHolds
  <2>5. new.user = c.user /\ new.roles = c.roles /\ new.way = c.way /\ new.age = 0
    OBVIOUS
  <2>6. ASSUME NEW t \in tokens', t \notin tokens PROVE TokenHolds(t)'
    <3>1. t = new
      BY <2>1, <2>6
    <3> HIDE DEF new
    <3> QED BY <2>2, <2>4, <2>5, <3>1 DEF TokenHolds
  <2> QED BY <1>1, <1>2, <2>1, <2>2, <2>6, StatesHavePCs
<1>11. ASSUME NEW p \in Processes, WriteUser(p) PROVE TokensInv'
  <2> DEFINE c == process[p]
  <2>1. /\ c \in Updating
        /\ account' = [account EXCEPT ![c.user] = account'[c.user]]
        /\ account'[c.user].active = account[c.user].active
        /\ since' = IF account'[c.user].roles = account[c.user].roles
                      THEN since ELSE [since EXCEPT ![c.user] = 0]
        /\ Move(p, Idle)
    BY <1>11, WriteEffect
  <2>2. \A v \in Users \ {c.user} : account'[v] = account[v] /\ since'[v] = since[v]
    BY <1>a, <2>1
  <2>3. RowsHonest
    BY <1>a, <2>1, <2>2 DEF RowsHonest, Updating
  <2> QED BY <1>1, <1>11, <2>1, <2>3, StatesHavePCs DEF WriteUser
<1>12. ASSUME NEW u \in Users, Verify(u) PROVE TokensInv'
  <2>1. /\ account' = [account EXCEPT ![u] = account'[u]]
        /\ account'[u].roles = account[u].roles /\ account'[u].active = account[u].active
    BY <1>12, VerifyEffect
  <2>2. RowsHonest
    BY <1>12, <1>a, <2>1 DEF RowsHonest, Verify
  <2>3. UNCHANGED <<process, tokens, partials>>
    BY <1>12 DEF Verify
  <2>4. ASSUME NEW q \in Processes, process'[q].pc = "issuing"
        PROVE  ClaimHolds(process'[q], account', since')
    BY <1>c, <2>2, <2>3, <2>4, HonestKeeps, TokensInvParts
  <2>5. /\ \A m \in partials' : PartialHolds(m)'
        /\ \A t \in tokens' : TokenHolds(t)'
    BY <1>d, <2>2, <2>3, HonestKeeps, TokensInvParts
  <2> QED BY <2>4, <2>5 DEF TokensInv, ReadsAreRecent, TokensCatchUp, ClaimHolds,
             PartialHolds, TokenHolds
<1>13. CASE Tick
  <2>1. /\ \A u \in Users : since'[u] = IF since[u] < SinceCap THEN since[u] + 1 ELSE SinceCap
        /\ \A q \in Processes : process'[q].pc # "issuing"
        /\ UNCHANGED account
    BY <1>13 DEF Tick
  <2>2. ASSUME NEW u \in Users, NEW k \in Nat, k < SinceCap, since'[u] > k + 1
        PROVE  since[u] > k
    BY <1>a, <2>1, <2>2 DEF SinceCap
  <2>3. ASSUME NEW m \in partials' PROVE PartialHolds(m)'
    <3>1. PICK y \in partials : m.user = y.user /\ m.age = y.age + 1
      BY <1>13, <1>d, AgedPartials DEF Tick
    <3>2. y.age \in 0 .. (MfaTTL - 1) /\ y.user \in Users
      BY <1>d DEF Partial
    <3>3. since'[m.user] > m.age => since[y.user] > y.age
      BY <2>2, <3>1, <3>2 DEF SinceCap
    <3> QED BY <2>1, <3>1, <3>3, TokensInvParts DEF PartialHolds
  <2>4. ASSUME NEW t \in tokens' PROVE TokenHolds(t)'
    <3>1. PICK y \in tokens : /\ t.user = y.user /\ t.roles = y.roles /\ t.way = y.way
                              /\ t.age = y.age + 1
      BY <1>13, <1>d, AgedTokens DEF Tick
    <3>2. y.age \in 0 .. (AccessTTL - 1) /\ y.user \in Users
      BY <1>d DEF Token
    <3>3. since'[t.user] > t.age => since[y.user] > y.age
      BY <2>2, <3>1, <3>2 DEF SinceCap
    <3>4. since'[t.user] > t.age + MfaTTL => since[y.user] > y.age + MfaTTL
      <4>1. y.age + MfaTTL \in Nat /\ y.age + MfaTTL < SinceCap
        BY <3>2 DEF SinceCap
      <4>2. t.age + MfaTTL = (y.age + MfaTTL) + 1
        BY <3>1, <3>2
      <4> QED BY <2>2, <3>1, <3>2, <4>1, <4>2
    <3> QED BY <2>1, <3>1, <3>3, <3>4, TokensInvParts DEF TokenHolds
  <2> QED BY <2>1, <2>3, <2>4 DEF TokensInv, ReadsAreRecent, TokensCatchUp,
             PartialHolds, TokenHolds
<1>14. ASSUME NEW p \in Processes, Serve(p) PROVE TokensInv'
  <2>1. ASSUME Ends(p) PROVE TokensInv'
    BY <1>3, <2>1, StatesHavePCs DEF Ends
  <2> QED BY <1>4, <1>5, <1>6, <1>7, <1>8, <1>9, <1>10, <1>11, <1>14, <2>1, ServeCases
<1>15. CASE UNCHANGED vars
  BY <1>15 DEF vars, TokensInv, ReadsAreRecent, TokensCatchUp
<1> QED BY <1>12, <1>13, <1>14, <1>15 DEF Next

-----------------------------------------------------------------------------
(* The users of one address                                                *)

\* A set whose members are each some process's has at most so many.
LEMMA OneProcessEach ==
  ASSUME NEW T, NEW g, \A w \in T : \E q \in Processes : g[q] = w
  PROVE  IsFiniteSet(T) /\ Cardinality(T) <= Cardinality(Processes)
<1> DEFINE f == [w \in T |-> CHOOSE q \in Processes : g[q] = w]
<1>1. \A w \in T : f[w] \in Processes /\ g[f[w]] = w
  OBVIOUS
<1>2. f \in [T -> Processes]
  BY <1>1
<1> HIDE DEF f
<1>3. \A v, w \in T : f[v] = f[w] => v = w
  BY <1>1
<1>4. f \in Injection(T, Processes)
  BY <1>2, <1>3 DEF Injection, IsInjective
<1> QED BY <1>4, ProcessAssumption, FS_Injection

Claims(s, u, e) == s.pc \in {"inserting", "writing"} /\ s.user = u /\ s.email = e

Holds(u, e) == Exists(u) /\ account[u].email = e

LEMMA WantingIs ==
  \A u, e : u \in Wanting(e) <=>
    u \in Users /\ (Holds(u, e) \/ \E p \in Processes : Claims(process[p], u, e))
BY DEF Wanting, Holders, Holds, Claims

LEMMA WantersInit == Init => WantersBounded
<1> SUFFICES ASSUME Init, NEW e \in Emails
             PROVE  /\ IsFiniteSet(Wanting(e))
                    /\ Cardinality(Wanting(e)) <= Cardinality(Processes)
  BY DEF WantersBounded
<1>1. \A u \in Users : Exists(u) => u \in Founders /\ account[u].email = FirstEmail[u]
  BY DEF Init, Exists
<1>2. \A p \in Processes : process[p].pc = "idle"
  BY DEF Init, Idle
<1>3. \A u, v \in Wanting(e) : u = v
  BY <1>1, <1>2, EmailAssumption DEF Wanting, Holders
<1>4. PICK r : r \in Processes
  BY ProcessAssumption
<1> DEFINE g == [p \in Processes |-> CHOOSE w : w \in Wanting(e)]
<1>5. \A w \in Wanting(e) : g[r] = w
  BY <1>3, <1>4
<1>6. \A w \in Wanting(e) : \E q \in Processes : g[q] = w
  BY <1>4, <1>5
<1> HIDE DEF g
<1> QED BY <1>6, OneProcessEach

LEMMA WantersNext ==
  TypeOK /\ RowsInUse /\ WantersBounded /\ [Next]_vars => WantersBounded'
<1> SUFFICES ASSUME TypeOK, RowsInUse, WantersBounded, [Next]_vars PROVE WantersBounded'
  OBVIOUS
<1>a. account \in [Users -> Row \cup {NoRow}]
  BY DEF TypeOK
<1>b. ASSUME NEW p \in Processes, NEW s, Move(p, s)
      PROVE  \A q \in Processes : process'[q] = IF q = p THEN s ELSE process[q]
  BY <1>b, ProcessTypes DEF Move
<1>c. ASSUME NEW u, NEW e
      PROVE  u \in Wanting(e)' <=>
               u \in Users /\ (Holds(u, e)' \/ \E p \in Processes : Claims(process'[p], u, e))
  BY DEF Wanting, Holders, Holds, Claims
\* Nobody new wants the address.
<1>1. ASSUME NEW e \in Emails, Wanting(e)' \subseteq Wanting(e)
      PROVE  /\ IsFiniteSet(Wanting(e)')
             /\ Cardinality(Wanting(e)') <= Cardinality(Processes)
  <2>1. IsFiniteSet(Wanting(e)) /\ Cardinality(Wanting(e)) <= Cardinality(Processes)
    BY DEF WantersBounded
  <2>2. IsFiniteSet(Wanting(e)') /\ Cardinality(Wanting(e)') <= Cardinality(Wanting(e))
    BY <1>1, <2>1, FS_Subset
  <2>3. /\ Cardinality(Wanting(e)) \in Nat /\ Cardinality(Wanting(e)') \in Nat
        /\ Cardinality(Processes) \in Nat
    BY <2>1, <2>2, ProcessAssumption, FS_CardinalityType
  <2> QED BY <2>1, <2>2, <2>3
<1>2. ASSUME \A e \in Emails : Wanting(e)' \subseteq Wanting(e) PROVE WantersBounded'
  BY <1>1, <1>2 DEF WantersBounded
\* Rows keep their addresses, and the process that moves claims none.
<1>3. ASSUME NEW p \in Processes, NEW s, Move(p, s),
             \A u \in Users, e \in Emails : Holds(u, e)' => u \in Wanting(e),
             \A u \in Users, e \in Emails : ~Claims(s, u, e)
      PROVE  WantersBounded'
  <2>1. ASSUME NEW e \in Emails, NEW u \in Wanting(e)' PROVE u \in Wanting(e)
    BY <1>3, <1>b, <1>c, WantingIs
  <2> QED BY <1>2, <2>1
<1>4. ASSUME UNCHANGED account
      PROVE  \A u \in Users, e \in Emails : Holds(u, e)' => u \in Wanting(e)
  BY <1>4, WantingIs DEF Holds, Exists
\* A process claims an address for a user, and nobody else holds it.
<1>5. ASSUME NEW p \in Processes, NEW s, Move(p, s), UNCHANGED account,
             s.pc \in {"inserting", "writing"}, Holders(s.email) \subseteq {s.user}
      PROVE  WantersBounded'
  <2> SUFFICES ASSUME NEW e \in Emails
               PROVE  /\ IsFiniteSet(Wanting(e)')
                      /\ Cardinality(Wanting(e)') <= Cardinality(Processes)
    BY DEF WantersBounded
  <2>1. CASE e = s.email
    <3> DEFINE g == [q \in Processes |-> process'[q].user]
               T == Wanting(e)'
    <3>1. ASSUME NEW w \in T PROVE \E q \in Processes : g[q] = w
      <4>1. CASE Holds(w, e)'
        <5>1. w \in Holders(s.email)
          BY <1>5, <1>c, <2>1, <4>1 DEF Holds, Exists, Holders
        <5>2. w = s.user /\ process'[p] = s
          BY <1>5, <1>b, <5>1
        <5> QED BY <5>2
      <4>2. CASE \E q \in Processes : Claims(process'[q], w, e)
        BY <4>2 DEF Claims
      <4> QED BY <1>c, <4>1, <4>2
    <3> HIDE DEF g, T
    <3>2. IsFiniteSet(T) /\ Cardinality(T) <= Cardinality(Processes)
      BY <3>1, OneProcessEach
    <3> QED BY <3>2 DEF T
  <2>2. CASE e # s.email
    <3>1. ASSUME NEW u \in Wanting(e)' PROVE u \in Wanting(e)
      BY <1>4, <1>5, <1>b, <1>c, <2>2, WantingIs DEF Claims
    <3> QED BY <1>1, <3>1
  <2> QED BY <2>1, <2>2
<1>6. ASSUME NEW p \in Processes, NEW s, Creates(p, s) PROVE WantersBounded'
  BY <1>5, <1>6, StatesHavePCs DEF Creates, DataSame
<1>7. ASSUME NEW p \in Processes, Passes(p) PROVE WantersBounded'
  <2> DEFINE s == [process[p] EXCEPT !.pc = "writing"]
  <2>1. process[p] \in Updating
    BY <1>7, ProcessTypes, ShapeOfStates DEF Passes
  <2>2. s.pc = "writing" /\ s.user = process[p].user /\ s.email = process[p].email
    BY <2>1 DEF Updating
  <2>3. Move(p, s) /\ UNCHANGED account /\ Holders(s.email) \subseteq {s.user}
    BY <1>7, <2>2 DEF Passes, DataSame
  <2> HIDE DEF s
  <2> QED BY <1>5, <2>2, <2>3
<1>8. ASSUME NEW p \in Processes, NEW s, NEW t,
             Grants(p, s) \/ Loads(p, s, t) \/ Replies(p, s, t)
      PROVE  WantersBounded'
  <2>1. ASSUME NEW u \in Users, NEW e \in Emails PROVE ~Claims(s, u, e)
    <3>1. CASE Loads(p, s, t)
      BY <3>1, StatesHavePCs, EmailAssumption DEF Loads, Claims
    <3>2. CASE Grants(p, s) \/ Replies(p, s, t)
      BY <3>2, StatesHavePCs DEF Grants, Replies, Claims
    <3> QED BY <1>8, <3>1, <3>2
  <2> QED BY <1>3, <1>4, <1>8, <2>1 DEF Grants, Loads, Replies, DataSame
<1>9. ASSUME NEW p \in Processes, Move(p, Idle),
             \A u \in Users, e \in Emails : Holds(u, e)' => u \in Wanting(e)
      PROVE  WantersBounded'
  BY <1>3, <1>9, StatesHavePCs DEF Claims
<1>10. ASSUME NEW p \in Processes, NEW u \in Users, Deactivates(p, u) PROVE WantersBounded'
  <2>1. \A v \in Users, e \in Emails : Holds(v, e)' => v \in Wanting(e)
    BY <1>10, <1>a, DeactivateEffect, RowIsNotNoRow, WantingIs DEF Holds, Exists
  <2> QED BY <1>9, <1>10, <2>1 DEF Deactivates
<1>11. ASSUME NEW p \in Processes, Insert(p) PROVE WantersBounded'
  <2> DEFINE c == process[p]
  <2>1. /\ c \in Inserting /\ c.pc = "inserting"
        /\ account' = [account EXCEPT ![c.user] = NewRow(c)]
        /\ Move(p, AfterInsert(c))
    BY <1>11, InsertEffect DEF Insert
  <2>2. ASSUME NEW v \in Users, NEW e \in Emails, Holds(v, e)' PROVE v \in Wanting(e)
    <3>1. CASE v = c.user
      <4>1. account'[v].email = c.email
        BY <1>a, <2>1, <3>1 DEF NewRow
      <4>2. Claims(process[p], v, e)
        BY <2>1, <2>2, <3>1, <4>1 DEF Claims, Holds
      <4> QED BY <4>2, WantingIs
    <3>2. CASE v # c.user
      <4>1. account'[v] = account[v]
        BY <1>a, <2>1, <3>2
      <4> QED BY <2>2, <4>1, WantingIs DEF Holds, Exists
    <3> QED BY <3>1, <3>2
  <2>3. \A u \in Users, e \in Emails : ~Claims(AfterInsert(c), u, e)
    BY DEF AfterInsert, Claims
  <2> QED BY <1>3, <2>1, <2>2, <2>3
<1>12. ASSUME NEW p \in Processes, WriteUser(p) PROVE WantersBounded'
  <2> DEFINE c == process[p]
             new == account'[c.user]
  <2>1. /\ c \in Updating /\ c.pc = "writing" /\ account[c.user] \in Row
        /\ account' = [account EXCEPT ![c.user] = new]
        /\ new.email = account[c.user].email \/ new.email = c.email
        /\ Move(p, Idle)
    BY <1>12, WriteEffect
  <2>2. ASSUME NEW v \in Users, NEW e \in Emails, Holds(v, e)' PROVE v \in Wanting(e)
    <3>1. CASE v = c.user
      <4>1. account'[v].email = e
        BY <2>2 DEF Holds
      <4>2. Holds(v, e) \/ Claims(process[p], v, e)
        BY <2>1, <3>1, <4>1, RowIsNotNoRow DEF Holds, Claims, Exists
      <4> QED BY <4>2, WantingIs
    <3>2. CASE v # c.user
      <4>1. account'[v] = account[v]
        BY <1>a, <2>1, <3>2
      <4> QED BY <2>2, <4>1, WantingIs DEF Holds, Exists
    <3> QED BY <3>1, <3>2
  <2> QED BY <1>9, <2>1, <2>2
<1>13. ASSUME NEW p \in Processes, Serve(p) PROVE WantersBounded'
  <2>1. ASSUME Ends(p) \/ Issue(p) \/ \E u \in Users : HandsOut(p, u) PROVE WantersBounded'
    <3>1. Move(p, Idle) /\ UNCHANGED account
      BY <2>1 DEF Ends, DataSame, HandsOut, Issue, Goto, Move
    <3> QED BY <1>4, <1>9, <3>1
  <2> QED BY <1>6, <1>7, <1>8, <1>10, <1>11, <1>12, <1>13, <2>1, ServeCases
<1>14. ASSUME NEW u \in Users, Verify(u) PROVE WantersBounded'
  <2>1. \A v \in Users, e \in Emails : Holds(v, e)' => Holds(v, e)
    BY <1>14, <1>a, VerifyEffect, RowIsNotNoRow DEF Holds, Exists
  <2>2. UNCHANGED process
    BY <1>14 DEF Verify
  <2>3. ASSUME NEW e \in Emails, NEW v \in Wanting(e)' PROVE v \in Wanting(e)
    BY <1>c, <2>1, <2>2, WantingIs
  <2> QED BY <1>2, <2>3
<1>15. ASSUME UNCHANGED <<account, process>> PROVE WantersBounded'
  BY <1>15 DEF WantersBounded, Wanting, Holders, Exists
<1> QED BY <1>13, <1>14, <1>15 DEF Next, Tick, vars

-----------------------------------------------------------------------------
(* The invariant and the theorems                                          *)

LEMMA InvInit == Init => IInv
<1> SUFFICES ASSUME Init PROVE IInv
  OBVIOUS
<1>1. /\ tokens = {} /\ partials = {} /\ process = [p \in Processes |-> Idle]
      /\ \A u \in Users : Exists(u) => ~account[u].verified
  BY DEF Init, Exists
<1>2. /\ ReadsAreRecent /\ TokensCatchUp /\ UpdatesSeeTheFlag
      /\ BearersExist /\ CommittedIsAnswered
  BY <1>1 DEF ReadsAreRecent, TokensCatchUp, UpdatesSeeTheFlag, IsAddressUpdate,
              BearersExist, CommittedIsAnswered, Idle
<1>3. VerifiedIsProven
  BY <1>1 DEF VerifiedIsProven
<1> QED BY <1>2, <1>3, TypeInit, RootInit, WantersInit DEF IInv, RootInv

LEMMA InvNext == IInv /\ [Next]_vars => IInv'
BY TypeNext, UseNext, BearersNext, WantersNext, RootNext, TokensNext, FlagsNext, AnsweredNext
   DEF IInv, RootInv, TokensInv, FlagsInv

LEMMA InvAlways == Spec => []IInv
BY InvInit, InvNext, PTL DEF Spec

\* Rows, tokens and the local variables of the requests always have their types.
THEOREM TypeCorrect == Spec => []TypeOK
<1>1. IInv => TypeOK
  BY DEF IInv
<1> QED BY <1>1, InvAlways, PTL

\* user_service.py:176-181, auth_service.py:145-147: an address is shared by no more
\* users than requests can look for it at one time.
THEOREM SharingNeedsOverlap == Spec => []SharersBounded
<1>1. ASSUME IInv, NEW e \in Emails PROVE Cardinality(Holders(e)) <= Cardinality(Processes)
  <2>1. /\ IsFiniteSet(Wanting(e)) /\ Cardinality(Wanting(e)) <= Cardinality(Processes)
        /\ Holders(e) \subseteq Wanting(e)
    BY <1>1 DEF IInv, WantersBounded, Wanting
  <2>2. IsFiniteSet(Holders(e)) /\ Cardinality(Holders(e)) <= Cardinality(Wanting(e))
    BY <2>1, FS_Subset
  <2>3. /\ Cardinality(Wanting(e)) \in Nat /\ Cardinality(Holders(e)) \in Nat
        /\ Cardinality(Processes) \in Nat
    BY <2>1, <2>2, ProcessAssumption, FS_CardinalityType
  <2> QED BY <2>1, <2>2, <2>3
<1>2. IInv => SharersBounded
  BY <1>1 DEF SharersBounded
<1> QED BY <1>2, InvAlways, PTL

\* user_service.py:165-172: where no founder is a super_admin, nobody becomes one.
THEOREM NobodyPromotesHimself == Spec => []PromotionsHaveARoot
<1>1. IInv => PromotionsHaveARoot
  BY DEF IInv
<1> QED BY <1>1, InvAlways, PTL

\* auth_service.py:184, 250: a token says what was so at most a life of its own, and of
\* a partial token, ago.
THEOREM TokensTellTheTruth == Spec => []TokensCatchUp
<1>1. IInv => TokensCatchUp
  BY DEF IInv
<1> QED BY <1>1, InvAlways, PTL

\* user_service.py:183: an address is verified only if its user was shown to own it,
\* but for a verification during an update.
THEOREM VerifiedMeansProven == Spec => []VerifiedIsProven
<1>1. IInv => VerifiedIsProven
  BY DEF IInv
<1> QED BY <1>1, InvAlways, PTL

\* account_service.py:159, 248: no update is committed and then answered with a
\* PermissionDeniedError.
THEOREM UpdatesAreAnswered == Spec => []CommittedIsAnswered
<1>1. IInv => CommittedIsAnswered
  BY DEF IInv
<1> QED BY <1>1, InvAlways, PTL

=============================================================================

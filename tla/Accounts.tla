------------------------------- MODULE Accounts -------------------------------
(***************************************************************************)
(* Accounts: the requests that register users, log them in (by password or *)
(* by Google), log them out and administer them, each in the database      *)
(* session that get_db opens for it; the handler that provisions           *)
(* credentials; and the events they put on the bus.                        *)
(*                                                                         *)
(* A user is its id, which a credential shares with the row in users.  No  *)
(* operation changes an e-mail address, so a user's address is a constant, *)
(* as are the rows of users that no operation can change.                  *)
(***************************************************************************)
EXTENDS Integers, FiniteSets, Functions

CONSTANTS
  Requests,
  Users,        \* rows of users at the start
  Active0,      \* those with is_active
  Superusers,   \* those with is_superuser
  Emails,       \* addresses, also of nobody
  EmailOf,      \* user -> address
  Subs,         \* Google identifiers
  Credentials0, \* auth_credentials at the start: user -> row
  Roles,
  Roles0,       \* user_roles at the start: user -> roles
  Grants,       \* role -> operations that its permissions allow
  Null

Permitted == {"create_user", "update_user", "assign_roles"}
Operations == Permitted \cup {"none", "register", "login", "google", "logout", "update_me"}

Credentials == [hash : BOOLEAN, google : Subs \cup {Null}, active : BOOLEAN]

ASSUME AccountsAssumption ==
  /\ Null \notin Users \cup Emails \cup Subs \cup Requests
  /\ Active0 \subseteq Users /\ Superusers \subseteq Users
  /\ EmailOf \in [Users -> Emails]
  /\ \A u, v \in Users : EmailOf[u] = EmailOf[v] => u = v
  /\ DOMAIN Credentials0 \subseteq Users
  /\ Credentials0 \in [DOMAIN Credentials0 -> Credentials]
  /\ \A u, v \in DOMAIN Credentials0 :
       Credentials0[u].google = Credentials0[v].google /\ Credentials0[u].google # Null => u = v
  /\ Roles0 \in [Users -> SUBSET Roles]
  /\ Grants \in [Roles -> SUBSET Permitted]

VARIABLES
  creds,   \* committed auth_credentials: user -> row
  roles,   \* committed user_roles: user -> roles; no step commits a change of it
  bus,     \* events published
  tokens,  \* access tokens: whose, and which request issued it
  pc,
  job      \* per request, its operation and what it has read

vars == <<creds, roles, bus, tokens, pc, job>>

\* user: the account or the actor; target and roles: of an assignment.
NoJob == [op |-> "none", user |-> Null, sub |-> Null, email |-> Null, target |-> Null, roles |-> {}]

\* Everybody has a token from before.
Init ==
  /\ creds = Credentials0
  /\ roles = Roles0
  /\ bus = {}
  /\ tokens = [user : Users, by : {Null}]
  /\ pc = [r \in Requests |-> "new"]
  /\ job = [r \in Requests |-> NoJob]

GoTo(r, step) == pc' = [pc EXCEPT ![r] = step]
Begin(r, work) == pc[r] = "new" /\ job' = [job EXCEPT ![r] = work]
Stored == <<creds, roles>>

\* SELECT ... WHERE email, WHERE google_id: the unique indexes leave at most one.
WithEmail(email) == {u \in DOMAIN creds : EmailOf[u] = email}
WithSub(sub) == {u \in DOMAIN creds : creds[u].google = sub}
-----------------------------------------------------------------------------
(* Registration and login.                                                 *)

\* 409 if the address is taken.  Otherwise the credential is inserted without
\* its id, which is the primary key and refers to users: the commit fails.
Register(r) ==
  \E email \in Emails :
    /\ Begin(r, [NoJob EXCEPT !.op = "register", !.email = email])
    /\ GoTo(r, IF WithEmail(email) # {} THEN "conflict" ELSE "error")
    /\ UNCHANGED <<Stored, bus, tokens>>

\* authenticate_user up to the first publish; an account that is not active is
\* refused without one.
Login(r) ==
  \E email \in Emails, right \in BOOLEAN :
    LET accounts == {u \in WithEmail(email) : creds[u].hash /\ right}
        work == [NoJob EXCEPT !.op = "login", !.email = email]
    IN /\ \/ /\ accounts = {}
             /\ Begin(r, work)
             /\ GoTo(r, "rejecting")
          \/ \E u \in accounts :
               /\ Begin(r, [work EXCEPT !.user = u])
               /\ GoTo(r, IF creds[u].active THEN "accepting" ELSE "forbidden")
       /\ UNCHANGED <<Stored, bus, tokens>>

\* A Google token is refused, or names its account by the Google identifier.
GoogleLogin(r) ==
  \E sub \in Subs, email \in Emails :
    LET work == [NoJob EXCEPT !.op = "google", !.sub = sub, !.email = email]
    IN /\ \/ Begin(r, work) /\ GoTo(r, "unauthorized")
          \/ Begin(r, work) /\ WithSub(sub) = {} /\ GoTo(r, "by_email")
          \/ \E u \in WithSub(sub) :
               /\ Begin(r, [work EXCEPT !.user = u])
               /\ GoTo(r, IF creds[u].active THEN "accepting" ELSE "forbidden")
       /\ UNCHANGED <<Stored, bus, tokens>>

\* Mutant of FindByEmail: the new account is not told from a found one.
FindByEmailUnchecked(r) ==
  /\ pc[r] = "by_email"
  /\ \E u \in WithEmail(job[r].email) \cup {Null} :
       GoTo(r, "linking") /\ job' = [job EXCEPT ![r].user = u]
  /\ UNCHANGED <<Stored, bus, tokens>>

\* ... or by the address.  A new account would be inserted without its id.
FindByEmail(r) ==
  /\ pc[r] = "by_email"
  /\ \/ WithEmail(job[r].email) = {} /\ GoTo(r, "error") /\ UNCHANGED job
     \/ \E u \in WithEmail(job[r].email) :
          GoTo(r, "linking") /\ job' = [job EXCEPT ![r].user = u]
  /\ UNCHANGED <<Stored, bus, tokens>>

\* Mutant of Link: google_id has no unique index.
LinkAnyway(r) ==
  /\ pc[r] = "linking"
  /\ creds' = [creds EXCEPT ![job[r].user].google = job[r].sub]
  /\ GoTo(r, "linked")
  /\ UNCHANGED <<roles, bus, tokens, job>>

\* The account takes the Google identifier, over any other it had, and is
\* committed, unless another account has got it meanwhile.
Link(r) ==
  /\ pc[r] = "linking"
  /\ IF WithSub(job[r].sub) \subseteq {job[r].user}
     THEN creds' = [creds EXCEPT ![job[r].user].google = job[r].sub] /\ GoTo(r, "linked")
     ELSE GoTo(r, "error") /\ UNCHANGED creds
  /\ UNCHANGED <<roles, bus, tokens, job>>

\* Only now, with the account refreshed, is_active is looked at.
CheckLinked(r) ==
  /\ pc[r] = "linked"
  /\ GoTo(r, IF creds[job[r].user].active THEN "accepting" ELSE "forbidden")
  /\ UNCHANGED <<Stored, bus, tokens, job>>

\* The consumer's handler of user.created_by_admin commits the credential of
\* a user that has none; the event comes from outside this model.
ProvisionCredential(u) ==
  \E active \in BOOLEAN :
    /\ u \in Users \ DOMAIN creds
    /\ creds' = [v \in DOMAIN creds \cup {u} |->
                   IF v = u THEN [hash |-> TRUE, google |-> Null, active |-> active] ELSE creds[v]]
    /\ UNCHANGED <<roles, bus, tokens, pc, job>>
-----------------------------------------------------------------------------
(* Events and tokens.                                                      *)

Event(type, r, user) == [type |-> type, request |-> r, user |-> user]

\* What a request is about to publish, and what it does afterwards.
Awaiting == [accepting |-> "announced", rejecting |-> "unauthorized", leaving |-> "ok", assigned |-> "ok"]

EventOf(r) ==
  CASE pc[r] = "accepting" -> Event("auth.login_success", r, job[r].user)
    [] pc[r] = "rejecting" -> Event("auth.login_failed", r, Null)
    [] pc[r] = "leaving" -> Event("auth.logout", r, job[r].user)
    [] OTHER -> Event("user.roles_assigned", r, job[r].target)

Publish(r) ==
  /\ pc[r] \in DOMAIN Awaiting
  /\ bus' = bus \cup {EventOf(r)}
  /\ GoTo(r, Awaiting[pc[r]])
  /\ UNCHANGED <<Stored, tokens, job>>

\* Mutant of PublishFault: the publisher swallows its errors.
PublishFaultIgnored(r) ==
  /\ pc[r] \in DOMAIN Awaiting
  /\ GoTo(r, Awaiting[pc[r]])
  /\ UNCHANGED <<Stored, bus, tokens, job>>

\* The publisher raises, whether Redis has the event or not: 500.
PublishFault(r) ==
  /\ pc[r] \in DOMAIN Awaiting
  /\ bus' \in {bus, bus \cup {EventOf(r)}}
  /\ GoTo(r, "error")
  /\ UNCHANGED <<Stored, tokens, job>>

\* The router signs the token once the service has returned.
IssueToken(r) ==
  /\ pc[r] = "announced"
  /\ tokens' = tokens \cup {[user |-> job[r].user, by |-> r]}
  /\ GoTo(r, "ok")
  /\ UNCHANGED <<Stored, bus, job>>

\* A logout is announced and leaves the token valid.  (A token that expires is
\* one that is not used any more.)
Logout(r) ==
  \E token \in tokens :
    /\ Begin(r, [NoJob EXCEPT !.op = "logout", !.user = token.user])
    /\ GoTo(r, "leaving")
    /\ UNCHANGED <<Stored, bus, tokens>>
-----------------------------------------------------------------------------
(* Administration.                                                         *)

\* PermissionChecker on the committed roles of the actor.
Allowed(u, op) ==
  op = "update_me" \/ u \in Superusers \/ \E role \in roles[u] : op \in Grants[role]

\* get_current_user and require_permission; 403 for the others.
Authorize(r) ==
  \E token \in tokens, op \in Permitted \cup {"update_me"} :
    LET u == token.user
    IN /\ Begin(r, [NoJob EXCEPT !.op = op, !.user = u])
       /\ GoTo(r, IF u \in Active0 /\ Allowed(u, op) THEN "authorized" ELSE "forbidden")
       /\ UNCHANGED <<Stored, bus, tokens>>

\* 409 if the address is taken.  Otherwise create of the repository is given
\* an ORM object where it takes a schema, and raises.
CreateUser(r) ==
  /\ pc[r] = "authorized" /\ job[r].op = "create_user"
  /\ \E email \in Emails : GoTo(r, IF email \in Range(EmailOf) THEN "conflict" ELSE "error")
  /\ UNCHANGED <<Stored, bus, tokens, job>>

\* 404, 409, or update of the repository is called without its second argument
\* and raises; what was set on the object was not flushed.
UpdateUser(r) ==
  /\ pc[r] = "authorized" /\ job[r].op \in {"update_user", "update_me"}
  /\ \E target \in IF job[r].op = "update_me" THEN {job[r].user} ELSE Users \cup {Null},
        email \in Emails \cup {Null} :
       GoTo(r, CASE target = Null -> "not_found"
                 [] target # Null /\ email \in Range(EmailOf) \ {EmailOf[target]} -> "conflict"
                 [] OTHER -> "error")
  /\ UNCHANGED <<Stored, bus, tokens, job>>

\* 404, or the user and those of the roles that exist are looked up.
AssignRoles(r) ==
  /\ pc[r] = "authorized" /\ job[r].op = "assign_roles"
  /\ \/ GoTo(r, "not_found") /\ UNCHANGED job
     \/ \E target \in Users, names \in SUBSET Roles :
          /\ job' = [job EXCEPT ![r].target = target, ![r].roles = names]
          /\ GoTo(r, "assigning")
  /\ UNCHANGED <<Stored, bus, tokens>>

\* The rows of user_roles that a request deletes and inserts.
Written(r) ==
  LET old == roles[job[r].target]
      new == job[r].roles
  IN {job[r].target} \X ((old \ new) \cup (new \ old))

\* Mutant of Held: the session of a request that has been answered stays open.
HeldForGood ==
  UNION {Written(r) : r \in {q \in Requests : pc[q] \in {"assigned", "ok", "error"} /\ job[q].target # Null}}

\* Rows that PostgreSQL holds for the sessions that have flushed.
Held == UNION {Written(r) : r \in {q \in Requests : pc[q] = "assigned"}}

\* They replace the roles of the user: flushed, then announced, and rolled back
\* when the session is closed, as nobody commits.  The flush waits for rows
\* that another session has flushed.
FlushRoles(r) ==
  /\ pc[r] = "assigning" /\ Written(r) \cap Held = {}
  /\ GoTo(r, "assigned")
  /\ UNCHANGED <<Stored, bus, tokens, job>>

Over == {"ok", "error", "unauthorized", "forbidden", "conflict", "not_found"}

\* A crash, the database down, an exception anywhere: the session is rolled back.
Abort(r) ==
  /\ pc[r] \notin Over \cup {"new"}
  /\ GoTo(r, "error")
  /\ UNCHANGED <<Stored, bus, tokens, job>>
-----------------------------------------------------------------------------
Arrive(r) == Register(r) \/ Login(r) \/ GoogleLogin(r) \/ Logout(r) \/ Authorize(r)

Service(r) ==
  \/ FindByEmail(r) \/ Link(r) \/ CheckLinked(r) \/ Publish(r) \/ PublishFault(r) \/ IssueToken(r)
  \/ CreateUser(r) \/ UpdateUser(r) \/ AssignRoles(r) \/ FlushRoles(r)

Next ==
  \/ \E r \in Requests : Arrive(r) \/ Service(r) \/ Abort(r)
  \/ \E u \in Users : ProvisionCredential(u)

Spec == Init /\ [][Next]_vars
FairSpec == Spec /\ \A r \in Requests : WF_vars(Service(r))
-----------------------------------------------------------------------------
Steps == Over \cup DOMAIN Awaiting \cup {"new", "by_email", "linking", "linked", "announced", "authorized", "assigning"}

Jobs == [op : Operations, user : Users \cup {Null}, sub : Subs \cup {Null}, email : Emails \cup {Null},
         target : Users \cup {Null}, roles : SUBSET Roles]

Events == [type : {"auth.login_success", "auth.login_failed", "auth.logout", "user.roles_assigned"},
           request : Requests, user : Users \cup {Null}]

\* The types of the variables; a credential belongs to a user, and whoever is
\* being logged in has one.
TypeOK ==
  /\ DOMAIN creds \subseteq Users /\ creds \in [DOMAIN creds -> Credentials]
  /\ roles \in [Users -> SUBSET Roles]
  /\ bus \subseteq Events
  /\ tokens \subseteq [user : Users, by : Requests \cup {Null}]
  /\ pc \in [Requests -> Steps] /\ job \in [Requests -> Jobs]
  /\ \A r \in Requests :
       /\ pc[r] \in {"linking", "linked", "accepting", "announced"} => job[r].user \in DOMAIN creds
       /\ pc[r] \in {"by_email", "linking", "linked"} =>
            job[r].op = "google" /\ job[r].sub \in Subs /\ job[r].email \in Emails
       /\ pc[r] \in {"leaving", "authorized"} => job[r].user \in Users
       /\ pc[r] \in {"assigning", "assigned"} => job[r].target \in Users

Says(type, r) == \E event \in bus : event.type = type /\ event.request = r

\* The audit trail of logins agrees with their answers although publishing may
\* fail half-way: a token is issued only after the login of its user is on the
\* bus, a rejected password is there as a failure, a refused login never as a
\* success, and nobody whose credential is not active is announced.
AttemptsAreTraced ==
  /\ \A token \in tokens : token.by # Null => Event("auth.login_success", token.by, token.user) \in bus
  /\ \A r \in Requests :
       /\ pc[r] = "unauthorized" /\ job[r].op = "login" => Says("auth.login_failed", r)
       /\ pc[r] \in {"unauthorized", "forbidden"} => ~Says("auth.login_success", r)
  /\ \A event \in bus : event.type = "auth.login_success" =>
       event.user \in DOMAIN creds /\ creds[event.user].active

\* However the Google logins race (check, then link, across two awaits), an
\* identifier names one account, and it got there from a login that showed
\* the address of that account.
LinksAreProven ==
  \A u \in DOMAIN creds : creds[u].google # Null =>
    /\ WithSub(creds[u].google) = {u}
    /\ \/ u \in DOMAIN Credentials0 /\ creds[u].google = Credentials0[u].google
       \/ \E r \in Requests :
            job[r].op = "google" /\ job[r].sub = creds[u].google /\ job[r].email = EmailOf[u]

\* users/permissions.py:24 promises that POST /users/{user_id}/roles
\* (users/router.py:135) modifies the roles granted to a user: "Permite asignar o
\* modificar los roles y permisos concedidos a un usuario".  When it has answered
\* 200, and nobody else assigns roles to that user, those are the user's roles.
AssignedRolesCount ==
  \A r \in Requests :
    /\ job[r].op = "assign_roles" /\ pc[r] = "ok"
    /\ \A q \in Requests \ {r} : job[q].target # job[r].target
    => roles[job[r].target] = job[r].roles

\* Every request is answered, although sessions hold rows of user_roles while
\* they wait for Redis and others wait for those rows.
RequestsAnswered == \A r \in Requests : pc[r] # "new" ~> pc[r] \in Over
=============================================================================

---------------------------- MODULE AccountsProofs ----------------------------
(***************************************************************************)
(* Theorems of Accounts, for any requests, users, addresses, Google        *)
(* identifiers, roles and permissions.                                     *)
(***************************************************************************)
EXTENDS Accounts, TLAPS

-----------------------------------------------------------------------------
(* Type correctness.                                                       *)

\* What TypeOK says of a request at a step with a job.
Fits(step, work) ==
  /\ step \in {"linking", "linked", "accepting", "announced"} => work.user \in DOMAIN creds
  /\ step \in {"by_email", "linking", "linked"} =>
       work.op = "google" /\ work.sub \in Subs /\ work.email \in Emails
  /\ step \in {"leaving", "authorized"} => work.user \in Users
  /\ step \in {"assigning", "assigned"} => work.target \in Users

RequestsOK ==
  /\ pc \in [Requests -> Steps] /\ job \in [Requests -> Jobs]
  /\ \A r \in Requests : Fits(pc[r], job[r])

StoredOK ==
  /\ DOMAIN creds \subseteq Users /\ creds \in [DOMAIN creds -> Credentials]
  /\ roles \in [Users -> SUBSET Roles]
  /\ bus \subseteq Events
  /\ tokens \subseteq [user : Users, by : Requests \cup {Null}]

\* The two parts are TypeOK.
LEMMA Split == TypeOK <=> StoredOK /\ RequestsOK
  BY DEF TypeOK, StoredOK, RequestsOK, Fits

\* The steps by name.
LEMMA StepNames ==
  Steps = {"ok", "error", "unauthorized", "forbidden", "conflict", "not_found",
           "accepting", "rejecting", "leaving", "assigned",
           "new", "by_email", "linking", "linked", "announced", "authorized", "assigning"}
<1>1. DOMAIN Awaiting = {"accepting", "rejecting", "leaving", "assigned"}
  BY DEF Awaiting
<1>2. QED
  BY <1>1 DEF Steps, Over

\* A request goes to a step with a job that fits.
LEMMA Moves ==
  ASSUME RequestsOK, NEW r \in Requests, NEW step \in Steps, NEW work \in Jobs, Fits(step, work)',
         DOMAIN creds \subseteq DOMAIN creds',
         pc' = [pc EXCEPT ![r] = step], job' = [job EXCEPT ![r] = work]
  PROVE  RequestsOK'
<1>1. pc' \in [Requests -> Steps] /\ job' \in [Requests -> Jobs]
  BY DEF RequestsOK
<1>2. ASSUME NEW q \in Requests PROVE Fits(pc[q], job[q])'
  <2>1. CASE q = r
    BY <2>1 DEF RequestsOK, Fits
  <2>2. CASE q # r
    BY <2>2 DEF RequestsOK, Fits
  <2>3. QED
    BY <2>1, <2>2
<1>3. QED
  BY <1>1, <1>2 DEF RequestsOK

\* A request that arrives goes to a step with a job that fits.
LEMMA ArriveTyped ==
  ASSUME RequestsOK, StoredOK, NEW r \in Requests, Arrive(r)
  PROVE  RequestsOK'
<1>0. UNCHANGED creds
  BY DEF Arrive, Register, Login, GoogleLogin, Logout, Authorize, Stored
<1>1. CASE Register(r)
  <2>1. PICK email \in Emails :
          /\ job' = [job EXCEPT ![r] = [NoJob EXCEPT !.op = "register", !.email = email]]
          /\ \/ pc' = [pc EXCEPT ![r] = "conflict"]
             \/ pc' = [pc EXCEPT ![r] = "error"]
    BY <1>1 DEF Register, Begin, GoTo
  <2>2. [NoJob EXCEPT !.op = "register", !.email = email] \in Jobs
    BY DEF NoJob, Jobs, Operations
  <2>3. QED
    BY <1>0, <2>1, <2>2, Moves, StepNames DEF Fits
<1>2. CASE Login(r)
  <2>1. PICK email \in Emails, right \in BOOLEAN :
          LET accounts == {u \in WithEmail(email) : creds[u].hash /\ right}
              work == [NoJob EXCEPT !.op = "login", !.email = email]
          IN \/ accounts = {} /\ Begin(r, work) /\ GoTo(r, "rejecting")
             \/ \E u \in accounts :
                  /\ Begin(r, [work EXCEPT !.user = u])
                  /\ GoTo(r, IF creds[u].active THEN "accepting" ELSE "forbidden")
    BY <1>2 DEF Login
  <2> DEFINE work == [NoJob EXCEPT !.op = "login", !.email = email]
  <2>2. work \in Jobs
    BY DEF NoJob, Jobs, Operations
  <2>3. CASE Begin(r, work) /\ GoTo(r, "rejecting")
    BY <1>0, <2>2, <2>3, Moves, StepNames DEF Fits, Begin, GoTo
  <2>4. CASE \E u \in WithEmail(email) :
               /\ Begin(r, [work EXCEPT !.user = u])
               /\ GoTo(r, IF creds[u].active THEN "accepting" ELSE "forbidden")
    <3>1. PICK u \in DOMAIN creds :
            /\ Begin(r, [work EXCEPT !.user = u])
            /\ GoTo(r, "accepting") \/ GoTo(r, "forbidden")
      BY <2>4 DEF WithEmail, GoTo
    <3> DEFINE w == [work EXCEPT !.user = u]
    <3>2. w \in Jobs /\ w.user = u
      BY DEF NoJob, Jobs, Operations, StoredOK
    <3>3. job' = [job EXCEPT ![r] = w]
      BY <3>1, <3>2 DEF Begin
    <3> HIDE DEF w
    <3>4. QED
      BY <1>0, <3>1, <3>2, <3>3, Moves, StepNames DEF Fits, GoTo
  <2>5. QED
    BY <2>1, <2>3, <2>4
<1>3. CASE GoogleLogin(r)
  <2>1. PICK sub \in Subs, email \in Emails :
          LET work == [NoJob EXCEPT !.op = "google", !.sub = sub, !.email = email]
          IN \/ Begin(r, work) /\ GoTo(r, "unauthorized")
             \/ Begin(r, work) /\ GoTo(r, "by_email")
             \/ \E u \in WithSub(sub) :
                  /\ Begin(r, [work EXCEPT !.user = u])
                  /\ GoTo(r, IF creds[u].active THEN "accepting" ELSE "forbidden")
    BY <1>3 DEF GoogleLogin
  <2> DEFINE work == [NoJob EXCEPT !.op = "google", !.sub = sub, !.email = email]
  <2>2. CASE Begin(r, work) /\ (GoTo(r, "unauthorized") \/ GoTo(r, "by_email"))
    <3> DEFINE w == work
    <3>1. w \in Jobs /\ w.op = "google" /\ w.sub = sub /\ w.email = email
      BY DEF NoJob, Jobs, Operations
    <3>2. job' = [job EXCEPT ![r] = w]
      BY <2>2, <3>1 DEF Begin
    <3> HIDE DEF w
    <3>3. QED
      BY <1>0, <2>2, <3>1, <3>2, Moves, StepNames DEF Fits, GoTo
  <2>3. CASE \E u \in WithSub(sub) :
               /\ Begin(r, [work EXCEPT !.user = u])
               /\ GoTo(r, IF creds[u].active THEN "accepting" ELSE "forbidden")
    <3>1. PICK u \in DOMAIN creds :
            /\ Begin(r, [work EXCEPT !.user = u])
            /\ GoTo(r, "accepting") \/ GoTo(r, "forbidden")
      BY <2>3 DEF WithSub, GoTo
    <3> DEFINE w == [work EXCEPT !.user = u]
    <3>2. w \in Jobs /\ w.user = u
      BY DEF NoJob, Jobs, Operations, StoredOK
    <3>3. job' = [job EXCEPT ![r] = w]
      BY <3>1, <3>2 DEF Begin
    <3> HIDE DEF w
    <3>4. QED
      BY <1>0, <3>1, <3>2, <3>3, Moves, StepNames DEF Fits, GoTo
  <2>4. QED
    BY <2>1, <2>2, <2>3
<1>4. CASE Logout(r)
  <2>1. PICK token \in tokens :
          Begin(r, [NoJob EXCEPT !.op = "logout", !.user = token.user]) /\ GoTo(r, "leaving")
    BY <1>4 DEF Logout
  <2>2. /\ token.user \in Users
        /\ [NoJob EXCEPT !.op = "logout", !.user = token.user] \in Jobs
        /\ [NoJob EXCEPT !.op = "logout", !.user = token.user].user = token.user
    BY DEF NoJob, Jobs, Operations, StoredOK
  <2>3. QED
    BY <1>0, <2>1, <2>2, Moves, StepNames DEF Fits, Begin, GoTo
<1>5. CASE Authorize(r)
  <2>1. PICK token \in tokens, op \in Permitted \cup {"update_me"} :
          /\ Begin(r, [NoJob EXCEPT !.op = op, !.user = token.user])
          /\ GoTo(r, "authorized") \/ GoTo(r, "forbidden")
    BY <1>5 DEF Authorize, GoTo
  <2>2. /\ token.user \in Users
        /\ [NoJob EXCEPT !.op = op, !.user = token.user] \in Jobs
        /\ [NoJob EXCEPT !.op = op, !.user = token.user].user = token.user
    BY DEF NoJob, Jobs, Operations, StoredOK
  <2>3. QED
    BY <1>0, <2>1, <2>2, Moves, StepNames DEF Fits, Begin, GoTo
<1>6. QED
  BY <1>1, <1>2, <1>3, <1>4, <1>5 DEF Arrive

\* A request that goes to a step with the job it has.
LEMMA StaysWithJob ==
  ASSUME RequestsOK, NEW r \in Requests, NEW step \in Steps, Fits(step, job[r])',
         DOMAIN creds \subseteq DOMAIN creds', pc' = [pc EXCEPT ![r] = step], UNCHANGED job
  PROVE  RequestsOK'
  BY Moves DEF RequestsOK

\* So does one that is served.
LEMMA ServiceTyped ==
  ASSUME RequestsOK, StoredOK, NEW r \in Requests, Service(r)
  PROVE  RequestsOK'
<1>0. job[r] \in Jobs /\ Fits(pc[r], job[r])
  BY DEF RequestsOK
<1>1. CASE FindByEmail(r)
  <2>1. UNCHANGED creds /\ pc[r] = "by_email"
    BY <1>1 DEF FindByEmail, Stored
  <2>2. CASE GoTo(r, "error") /\ UNCHANGED job
    BY <2>1, <2>2, StaysWithJob, StepNames DEF Fits, GoTo
  <2>3. CASE \E u \in WithEmail(job[r].email) : GoTo(r, "linking") /\ job' = [job EXCEPT ![r].user = u]
    <3>1. PICK u \in DOMAIN creds : GoTo(r, "linking") /\ job' = [job EXCEPT ![r].user = u]
      BY <2>3 DEF WithEmail
    <3>2. PICK w : w = [job[r] EXCEPT !.user = u]
      OBVIOUS
    <3>3. w \in Jobs /\ w.user = u /\ w.op = job[r].op /\ w.sub = job[r].sub /\ w.email = job[r].email
      BY <1>0, <3>2 DEF Jobs, StoredOK
    <3>4. job' = [job EXCEPT ![r] = w]
      BY <3>1, <3>2
    <3>5. Fits("linking", w)'
      BY <1>0, <2>1, <3>3 DEF Fits
    <3>6. QED
      BY <2>1, <3>1, <3>3, <3>4, <3>5, Moves, StepNames DEF GoTo
  <2>4. QED
    BY <1>1, <2>2, <2>3 DEF FindByEmail
<1>2. CASE Link(r)
  <2>1. DOMAIN creds' = DOMAIN creds /\ UNCHANGED job /\ (GoTo(r, "linked") \/ GoTo(r, "error"))
    BY <1>2 DEF Link
  <2>2. QED
    BY <1>0, <1>2, <2>1, StaysWithJob, StepNames DEF Fits, GoTo, Link
<1>3. CASE CheckLinked(r)
  <2>1. UNCHANGED <<creds, job>> /\ (GoTo(r, "accepting") \/ GoTo(r, "forbidden"))
    BY <1>3 DEF CheckLinked, Stored, GoTo
  <2>2. QED
    BY <1>0, <1>3, <2>1, StaysWithJob, StepNames DEF Fits, GoTo, CheckLinked
<1>4. CASE Publish(r)
  <2>1. UNCHANGED <<creds, job>> /\ (pc[r] = "accepting" \/ Awaiting[pc[r]] \in {"unauthorized", "ok"})
    BY <1>4 DEF Publish, Stored, Awaiting
  <2>2. Awaiting[pc[r]] \in {"announced", "unauthorized", "ok"}
    BY <1>4, <2>1 DEF Awaiting
  <2>3. QED
    BY <1>0, <1>4, <2>1, <2>2, StaysWithJob, StepNames DEF Fits, GoTo, Publish
<1>5. CASE PublishFault(r)
  BY <1>5, StaysWithJob, StepNames DEF Fits, GoTo, PublishFault, Stored
<1>6. CASE IssueToken(r)
  BY <1>6, StaysWithJob, StepNames DEF Fits, GoTo, IssueToken, Stored
<1>7. CASE CreateUser(r)
  <2>1. UNCHANGED <<creds, job>> /\ (GoTo(r, "conflict") \/ GoTo(r, "error"))
    BY <1>7 DEF CreateUser, Stored, GoTo
  <2>2. QED
    BY <2>1, StaysWithJob, StepNames DEF Fits, GoTo
<1>8. CASE UpdateUser(r)
  <2>1. UNCHANGED <<creds, job>> /\ (GoTo(r, "not_found") \/ GoTo(r, "conflict") \/ GoTo(r, "error"))
    BY <1>8 DEF UpdateUser, Stored, GoTo
  <2>2. QED
    BY <2>1, StaysWithJob, StepNames DEF Fits, GoTo
<1>9. CASE AssignRoles(r)
  <2>1. UNCHANGED creds
    BY <1>9 DEF AssignRoles, Stored
  <2>2. CASE GoTo(r, "not_found") /\ UNCHANGED job
    BY <2>1, <2>2, StaysWithJob, StepNames DEF Fits, GoTo
  <2>3. CASE \E target \in Users, names \in SUBSET Roles :
               /\ job' = [job EXCEPT ![r].target = target, ![r].roles = names]
               /\ GoTo(r, "assigning")
    <3>1. PICK target \in Users, names \in SUBSET Roles :
            /\ job' = [job EXCEPT ![r].target = target, ![r].roles = names]
            /\ GoTo(r, "assigning")
      BY <2>3
    <3>2. PICK w : w = [job[r] EXCEPT !.target = target, !.roles = names]
      OBVIOUS
    <3>3. w \in Jobs /\ w.target = target
      BY <1>0, <3>2 DEF Jobs, StoredOK
    <3>4. job' = [job EXCEPT ![r] = w]
      BY <3>1, <3>2
    <3>5. QED
      BY <1>0, <2>1, <3>1, <3>3, <3>4, Moves, StepNames DEF Fits, GoTo
  <2>4. QED
    BY <1>9, <2>2, <2>3 DEF AssignRoles
<1>10. CASE FlushRoles(r)
  BY <1>0, <1>10, StaysWithJob, StepNames DEF Fits, GoTo, FlushRoles, Stored
<1>11. QED
  BY <1>1, <1>2, <1>3, <1>4, <1>5, <1>6, <1>7, <1>8, <1>9, <1>10 DEF Service

\* So does one that is cut short.
LEMMA AbortTyped ==
  ASSUME RequestsOK, NEW r \in Requests, Abort(r)
  PROVE  RequestsOK'
  BY StaysWithJob, StepNames DEF Abort, Fits, GoTo, Stored

\* A provisioned credential has the type of credentials.
LEMMA ProvisionTyped ==
  ASSUME TypeOK, NEW u \in Users, ProvisionCredential(u)
  PROVE  TypeOK'
<1>1. PICK active \in BOOLEAN :
        creds' = [v \in DOMAIN creds \cup {u} |->
                    IF v = u THEN [hash |-> TRUE, google |-> Null, active |-> active] ELSE creds[v]]
  BY DEF ProvisionCredential
<1>2. DOMAIN creds' = DOMAIN creds \cup {u} /\ creds' \in [DOMAIN creds' -> Credentials]
  BY <1>1 DEF TypeOK, Credentials
<1>3. QED
  BY <1>2 DEF ProvisionCredential, TypeOK

\* What is published is an event.
LEMMA EventTyped ==
  ASSUME TypeOK, NEW r \in Requests, pc[r] \in DOMAIN Awaiting
  PROVE  EventOf(r) \in Events
<1>1. job[r].user \in Users \cup {Null} /\ job[r].target \in Users \cup {Null}
  BY DEF TypeOK, Jobs
<1>2. QED
  BY <1>1 DEF EventOf, Event, Events

\* What a request stores, publishes and issues has its type.
LEMMA StoredTyped ==
  ASSUME TypeOK, NEW r \in Requests, Arrive(r) \/ Service(r) \/ Abort(r)
  PROVE  StoredOK'
<1>1. CASE Link(r)
  <2>1. creds' \in [DOMAIN creds -> Credentials] /\ DOMAIN creds' = DOMAIN creds
    BY <1>1 DEF Link, TypeOK, Credentials
  <2>2. QED
    BY <1>1, <2>1 DEF Link, TypeOK, StoredOK
<1>2. CASE Publish(r) \/ PublishFault(r)
  BY <1>2, EventTyped DEF Publish, PublishFault, Stored, TypeOK, StoredOK
<1>3. CASE IssueToken(r)
  <2>1. [user |-> job[r].user, by |-> r] \in [user : Users, by : Requests \cup {Null}]
    BY <1>3 DEF IssueToken, TypeOK
  <2>2. QED
    BY <1>3, <2>1 DEF IssueToken, Stored, TypeOK, StoredOK
<1>4. CASE UNCHANGED <<Stored, bus, tokens>>
  BY <1>4 DEF Stored, TypeOK, StoredOK
<1>5. QED
  BY <1>1, <1>2, <1>3, <1>4 DEF Arrive, Service, Abort, Register, Login, GoogleLogin, Logout,
    Authorize, FindByEmail, CheckLinked, CreateUser, UpdateUser, AssignRoles, FlushRoles

\* Initial states are typed.
LEMMA InitTyped == Init => TypeOK
<1> SUFFICES ASSUME Init PROVE TypeOK
  OBVIOUS
<1>1. creds \in [DOMAIN creds -> Credentials] /\ DOMAIN creds \subseteq Users
  BY AccountsAssumption DEF Init
<1>2. roles \in [Users -> SUBSET Roles] /\ bus \subseteq Events
      /\ tokens \subseteq [user : Users, by : Requests \cup {Null}]
  BY AccountsAssumption DEF Init
<1>3. NoJob \in Jobs
  BY DEF NoJob, Jobs, Operations
<1>4. pc \in [Requests -> Steps] /\ job \in [Requests -> Jobs] /\ \A r \in Requests : pc[r] = "new"
  BY <1>3, StepNames DEF Init
<1>5. QED
  BY <1>1, <1>2, <1>4 DEF TypeOK

\* Steps keep the types.
LEMMA NextTyped == TypeOK /\ [Next]_vars => TypeOK'
<1> SUFFICES ASSUME TypeOK, [Next]_vars PROVE TypeOK'
  OBVIOUS
<1>1. RequestsOK /\ StoredOK
  BY Split
<1>2. ASSUME NEW r \in Requests, Arrive(r) \/ Service(r) \/ Abort(r) PROVE TypeOK'
  <2>1. RequestsOK'
    BY <1>1, <1>2, ArriveTyped, ServiceTyped, AbortTyped
  <2>2. StoredOK'
    BY <1>2, StoredTyped
  <2>3. QED
    BY <2>1, <2>2 DEF TypeOK, StoredOK, RequestsOK, Fits
<1>3. CASE UNCHANGED vars
  BY <1>3 DEF vars, TypeOK
<1>4. QED
  BY <1>2, <1>3, ProvisionTyped DEF Next

\* Every state has the types of TypeOK: in particular whoever is being linked
\* or logged in has a credential, which nothing takes away meanwhile.
THEOREM TypeCorrect == Spec => []TypeOK
  BY InitTyped, NextTyped, PTL DEF Spec
-----------------------------------------------------------------------------
(* The safety invariants.                                                  *)

Success(r, user) == Event("auth.login_success", r, user)

\* What holds of a request: what it is about to do rests on what it has read
\* and published before.
Sound(r) ==
  /\ pc[r] = "new" => job[r] = NoJob
  /\ pc[r] = "linking" => EmailOf[job[r].user] = job[r].email
  /\ pc[r] \in {"accepting", "announced"} => creds[job[r].user].active
  /\ pc[r] = "announced" => Success(r, job[r].user) \in bus
  /\ pc[r] = "unauthorized" /\ job[r].op = "login" => Says("auth.login_failed", r)
  /\ Says("auth.login_success", r) => pc[r] \in {"announced", "ok", "error"}

TracedTokens == \A token \in tokens : token.by # Null => Success(token.by, token.user) \in bus
TrueEvents == \A event \in bus : event.type = "auth.login_success" =>
  event.user \in DOMAIN creds /\ creds[event.user].active

\* The inductive invariant.
IndInv ==
  /\ TypeOK
  /\ \A r \in Requests : Sound(r)
  /\ TracedTokens /\ TrueEvents
  /\ LinksAreProven

\* The two safety invariants follow from it.
LEMMA Suffices == IndInv => AttemptsAreTraced /\ LinksAreProven
  BY DEF IndInv, Sound, TracedTokens, TrueEvents, Success, AttemptsAreTraced

\* It holds initially.
LEMMA InitHolds == Init => IndInv
<1> SUFFICES ASSUME Init PROVE IndInv
  OBVIOUS
<1>1. TypeOK
  BY InitTyped
<1>2. \A r \in Requests : Sound(r)
  BY DEF Init, Sound, Says
<1>3. TracedTokens /\ TrueEvents
  BY DEF Init, TracedTokens, TrueEvents
<1>4. LinksAreProven
  BY AccountsAssumption DEF Init, LinksAreProven, WithSub
<1>5. QED
  BY <1>1, <1>2, <1>3, <1>4 DEF IndInv, Init

\* What a step of a request does to the others and to what is stored.
LEMMA Frame ==
  ASSUME IndInv, NEW r \in Requests, Arrive(r) \/ Service(r) \/ Abort(r)
  PROVE  /\ \A q \in Requests \ {r} : pc'[q] = pc[q] /\ job'[q] = job[q]
         /\ \/ bus' = bus
            \/ pc[r] \in DOMAIN Awaiting /\ bus' = bus \cup {EventOf(r)}
         /\ DOMAIN creds' = DOMAIN creds
         /\ \A u \in DOMAIN creds : creds'[u].active = creds[u].active
<1> USE DEF GoTo, Begin, Stored
<1>0. creds \in [DOMAIN creds -> Credentials] /\ pc \in [Requests -> Steps] /\ job \in [Requests -> Jobs]
  BY DEF IndInv, TypeOK
<1>1. CASE Link(r)
  BY <1>0, <1>1 DEF Link, Credentials
<1>2. CASE Publish(r) \/ PublishFault(r)
  BY <1>0, <1>2 DEF Publish, PublishFault
<1>3. CASE Arrive(r)
  BY <1>0, <1>3 DEF Arrive, Register, Login, GoogleLogin, Logout, Authorize
<1>4. CASE FindByEmail(r) \/ CheckLinked(r) \/ IssueToken(r) \/ CreateUser(r) \/ UpdateUser(r)
  BY <1>0, <1>4 DEF FindByEmail, CheckLinked, IssueToken, CreateUser, UpdateUser
<1>5. CASE AssignRoles(r) \/ FlushRoles(r) \/ Abort(r)
  BY <1>0, <1>5 DEF AssignRoles, FlushRoles, Abort
<1>6. QED
  BY <1>1, <1>2, <1>3, <1>4, <1>5 DEF Service

\* The others stay as they are.
LEMMA OthersSound ==
  ASSUME IndInv, NEW r \in Requests, Arrive(r) \/ Service(r) \/ Abort(r), NEW q \in Requests \ {r}
  PROVE  Sound(q)'
<1>1. pc'[q] = pc[q] /\ job'[q] = job[q] /\ Sound(q)
  BY Frame DEF IndInv
<1>2. bus \subseteq bus' /\ \A event \in bus' \ bus : event.request = r
  BY Frame DEF EventOf, Event
<1>3. \A type : Says(type, q)' <=> Says(type, q)
  BY <1>2 DEF Says
<1>4. pc[q] \in {"accepting", "announced"} => job[q].user \in DOMAIN creds
  BY DEF IndInv, TypeOK
<1>5. QED
  BY <1>1, <1>2, <1>3, <1>4, Frame DEF Sound

\* A request that arrives.
LEMMA ArriveSound ==
  ASSUME IndInv, NEW r \in Requests, Arrive(r)
  PROVE  Sound(r)'
<1>0. /\ pc[r] = "new" /\ UNCHANGED <<creds, roles, bus, tokens>>
      /\ ~Says("auth.login_success", r) /\ ~Says("auth.login_success", r)'
      /\ pc \in [Requests -> Steps] /\ job \in [Requests -> Jobs]
  BY DEF IndInv, TypeOK, Sound, Says, Arrive, Register, Login, GoogleLogin, Logout, Authorize, Begin, Stored
<1> USE DEF GoTo, Begin, Permitted, NoJob
<1>1. CASE Register(r)
  BY <1>0, <1>1 DEF Register, Sound
<1>2. CASE Login(r)
  <2>1. PICK email \in Emails, right \in BOOLEAN :
          LET accounts == {u \in WithEmail(email) : creds[u].hash /\ right}
              work == [NoJob EXCEPT !.op = "login", !.email = email]
          IN \/ job' = [job EXCEPT ![r] = work] /\ pc' = [pc EXCEPT ![r] = "rejecting"]
             \/ \E u \in accounts :
                  /\ job' = [job EXCEPT ![r] = [work EXCEPT !.user = u]]
                  /\ pc' = [pc EXCEPT ![r] = IF creds[u].active THEN "accepting" ELSE "forbidden"]
    BY <1>2 DEF Login
  <2> DEFINE work == [NoJob EXCEPT !.op = "login", !.email = email]
  <2>2. work.op = "login" /\ \A u : [work EXCEPT !.user = u].op = "login" /\ [work EXCEPT !.user = u].user = u
    OBVIOUS
  <2> HIDE DEF work
  <2>3. CASE job' = [job EXCEPT ![r] = work] /\ pc' = [pc EXCEPT ![r] = "rejecting"]
    BY <1>0, <2>2, <2>3 DEF Sound
  <2>4. CASE \E u \in WithEmail(email) :
               /\ job' = [job EXCEPT ![r] = [work EXCEPT !.user = u]]
               /\ pc' = [pc EXCEPT ![r] = IF creds[u].active THEN "accepting" ELSE "forbidden"]
    <3>1. PICK u \in WithEmail(email) :
               /\ job' = [job EXCEPT ![r] = [work EXCEPT !.user = u]]
               /\ pc' = [pc EXCEPT ![r] = IF creds[u].active THEN "accepting" ELSE "forbidden"]
      BY <2>4
    <3>2. job'[r].op = "login" /\ job'[r].user = u
      BY <1>0, <2>2, <3>1
    <3>3. pc'[r] = "forbidden" \/ (pc'[r] = "accepting" /\ creds[u].active)
      BY <1>0, <3>1
    <3>4. QED
      BY <1>0, <3>2, <3>3 DEF Sound
  <2>5. QED
    BY <2>1, <2>3, <2>4 DEF work
<1>3. CASE GoogleLogin(r)
  <2>1. PICK sub \in Subs, email \in Emails :
          LET work == [NoJob EXCEPT !.op = "google", !.sub = sub, !.email = email]
          IN \/ job' = [job EXCEPT ![r] = work] /\ pc' = [pc EXCEPT ![r] = "unauthorized"]
             \/ job' = [job EXCEPT ![r] = work] /\ pc' = [pc EXCEPT ![r] = "by_email"]
             \/ \E u \in WithSub(sub) :
                  /\ job' = [job EXCEPT ![r] = [work EXCEPT !.user = u]]
                  /\ pc' = [pc EXCEPT ![r] = IF creds[u].active THEN "accepting" ELSE "forbidden"]
    BY <1>3 DEF GoogleLogin
  <2> DEFINE work == [NoJob EXCEPT !.op = "google", !.sub = sub, !.email = email]
  <2>2. work.op = "google" /\ \A u : [work EXCEPT !.user = u].op = "google" /\ [work EXCEPT !.user = u].user = u
    OBVIOUS
  <2> HIDE DEF work
  <2>3. CASE job' = [job EXCEPT ![r] = work] /\ pc' = [pc EXCEPT ![r] = "unauthorized"]
    BY <1>0, <2>2, <2>3 DEF Sound
  <2>4. CASE job' = [job EXCEPT ![r] = work] /\ pc' = [pc EXCEPT ![r] = "by_email"]
    BY <1>0, <2>2, <2>4 DEF Sound
  <2>5. CASE \E u \in WithSub(sub) :
               /\ job' = [job EXCEPT ![r] = [work EXCEPT !.user = u]]
               /\ pc' = [pc EXCEPT ![r] = IF creds[u].active THEN "accepting" ELSE "forbidden"]
    <3>1. PICK u \in WithSub(sub) :
               /\ job' = [job EXCEPT ![r] = [work EXCEPT !.user = u]]
               /\ pc' = [pc EXCEPT ![r] = IF creds[u].active THEN "accepting" ELSE "forbidden"]
      BY <2>5
    <3>2. job'[r].op = "google" /\ job'[r].user = u
      BY <1>0, <2>2, <3>1
    <3>3. pc'[r] = "forbidden" \/ (pc'[r] = "accepting" /\ creds[u].active)
      BY <1>0, <3>1
    <3>4. QED
      BY <1>0, <3>2, <3>3 DEF Sound
  <2>6. QED
    BY <2>1, <2>3, <2>4, <2>5 DEF work
<1>4. CASE Logout(r)
  BY <1>0, <1>4 DEF Logout, Sound
<1>5. CASE Authorize(r)
  <2>1. PICK token \in tokens, op \in Permitted \cup {"update_me"} :
          /\ job' = [job EXCEPT ![r] = [NoJob EXCEPT !.op = op, !.user = token.user]]
          /\ pc' = [pc EXCEPT ![r] = IF token.user \in Active0 /\ Allowed(token.user, op) THEN "authorized" ELSE "forbidden"]
    BY <1>5 DEF Authorize
  <2>2. job'[r].op = op /\ job'[r].user = token.user
    BY <1>0, <2>1
  <2>3. pc'[r] \in {"authorized", "forbidden"}
    BY <1>0, <2>1
  <2>4. QED
    BY <1>0, <2>2, <2>3 DEF Sound
<1>6. QED
  BY <1>1, <1>2, <1>3, <1>4, <1>5 DEF Arrive

\* A request that is served.
LEMMA ServiceSound ==
  ASSUME IndInv, NEW r \in Requests, Service(r) \/ Abort(r)
  PROVE  Sound(r)'
<1>0. /\ Sound(r) /\ creds \in [DOMAIN creds -> Credentials]
      /\ pc \in [Requests -> Steps] /\ job \in [Requests -> Jobs]
  BY DEF IndInv, TypeOK
<1> USE DEF GoTo, Stored
<1>1. CASE Publish(r)
  <2>1. bus' = bus \cup {EventOf(r)} /\ job' = job /\ creds' = creds
    BY <1>1 DEF Publish
  <2>2. CASE pc[r] = "accepting"
    <3>1. pc'[r] = "announced" /\ Success(r, job[r].user) \in bus'
      BY <1>0, <1>1, <2>1, <2>2 DEF Publish, Awaiting, EventOf, Success
    <3>2. QED
      BY <1>0, <2>1, <2>2, <3>1 DEF Sound
  <2>3. CASE pc[r] = "rejecting"
    <3>1. pc'[r] = "unauthorized"
      BY <1>0, <1>1, <2>3 DEF Publish, Awaiting
    <3>2. bus' = bus \cup {Event("auth.login_failed", r, Null)}
      BY <2>1, <2>3 DEF EventOf
    <3>3. /\ Event("auth.login_failed", r, Null).type = "auth.login_failed"
          /\ Event("auth.login_failed", r, Null).request = r
      BY DEF Event
    <3>4. Says("auth.login_failed", r)' /\ ~Says("auth.login_success", r)'
      BY <1>0, <2>3, <3>2, <3>3 DEF Says, Sound
    <3>5. QED
      BY <1>0, <2>1, <2>3, <3>1, <3>4 DEF Sound
  <2>4. CASE pc[r] \in {"leaving", "assigned"}
    <3>1. pc'[r] = "ok"
      BY <1>0, <1>1, <2>4 DEF Publish, Awaiting
    <3>2. QED
      BY <1>0, <2>1, <2>4, <3>1 DEF Sound
  <2>5. QED
    BY <1>1, <2>2, <2>3, <2>4 DEF Publish, Awaiting
<1>2. CASE PublishFault(r) \/ Abort(r)
  <2>1. pc'[r] = "error" /\ job' = job /\ pc[r] # "forbidden"
    BY <1>0, <1>2 DEF PublishFault, Abort, Awaiting, Over
  <2>2. QED
    BY <1>0, <2>1 DEF Sound
<1>3. CASE IssueToken(r)
  BY <1>0, <1>3 DEF IssueToken, Sound
<1>4. CASE Link(r)
  <2>1. /\ bus' = bus /\ job' = job /\ pc[r] = "linking"
        /\ pc'[r] \in {"linked", "error"}
    BY <1>0, <1>4 DEF Link
  <2>2. QED
    BY <1>0, <2>1 DEF Sound, Says
<1>5. CASE CheckLinked(r)
  <2>1. /\ bus' = bus /\ job' = job /\ creds' = creds /\ pc[r] = "linked"
        /\ \/ pc'[r] = "accepting" /\ creds[job[r].user].active
           \/ pc'[r] = "forbidden"
    BY <1>0, <1>5 DEF CheckLinked
  <2>2. QED
    BY <1>0, <2>1 DEF Sound, Says
<1>6. CASE FindByEmail(r)
  <2>1. bus' = bus /\ pc[r] = "by_email" /\ job[r].op = "google" /\ ~Says("auth.login_success", r)'
    BY <1>0, <1>6 DEF FindByEmail, IndInv, TypeOK, Sound, Says
  <2>2. CASE GoTo(r, "error") /\ UNCHANGED job
    BY <1>0, <2>1, <2>2 DEF Sound
  <2>3. CASE \E u \in WithEmail(job[r].email) : GoTo(r, "linking") /\ job' = [job EXCEPT ![r].user = u]
    <3>1. pc'[r] = "linking" /\ EmailOf[job'[r].user] = job'[r].email /\ job'[r].op = "google"
      BY <1>0, <2>1, <2>3 DEF WithEmail, Jobs
    <3>2. QED
      BY <2>1, <3>1 DEF Sound, Permitted
  <2>4. QED
    BY <1>6, <2>2, <2>3 DEF FindByEmail
<1>7. CASE CreateUser(r) \/ UpdateUser(r)
  <2>1. /\ job' = job /\ bus' = bus /\ pc[r] = "authorized"
        /\ pc'[r] \in {"conflict", "error", "not_found"}
    BY <1>0, <1>7 DEF CreateUser, UpdateUser
  <2>2. QED
    BY <1>0, <2>1 DEF Sound, Says
<1>8. CASE AssignRoles(r)
  <2>1. /\ bus' = bus /\ pc[r] = "authorized" /\ pc'[r] \in {"not_found", "assigning"}
        /\ job'[r].op = job[r].op /\ job'[r].user = job[r].user
    BY <1>0, <1>8 DEF AssignRoles, Jobs
  <2>2. QED
    BY <1>0, <2>1 DEF Sound, Says
<1>9. CASE FlushRoles(r)
  BY <1>0, <1>9 DEF FlushRoles, Sound, Says
<1>10. QED
  BY <1>1, <1>2, <1>3, <1>4, <1>5, <1>6, <1>7, <1>8, <1>9 DEF Service

\* The trail: a token is signed after its login is announced, and the account
\* that is announced is active.
LEMMA TraceKept ==
  ASSUME IndInv, NEW r \in Requests, Arrive(r) \/ Service(r) \/ Abort(r)
  PROVE  TracedTokens' /\ TrueEvents'
<1>0. /\ bus \subseteq bus' /\ TracedTokens /\ TrueEvents /\ Sound(r)
      /\ pc[r] = "accepting" => job[r].user \in DOMAIN creds
  BY Frame DEF IndInv, TypeOK
<1>1. TracedTokens'
  <2>1. CASE IssueToken(r)
    BY <1>0, <2>1 DEF IssueToken, Sound, TracedTokens
  <2>2. CASE UNCHANGED tokens
    BY <1>0, <2>2 DEF TracedTokens
  <2>3. QED
    BY <2>1, <2>2 DEF Arrive, Service, Abort, Register, Login, GoogleLogin, Logout, Authorize,
      FindByEmail, Link, CheckLinked, Publish, PublishFault, CreateUser, UpdateUser, AssignRoles, FlushRoles
<1>2. TrueEvents'
  <2>1. ASSUME EventOf(r).type = "auth.login_success"
        PROVE  EventOf(r).user \in DOMAIN creds /\ creds[EventOf(r).user].active
    <3>1. pc[r] = "accepting"
      BY <2>1 DEF EventOf, Event
    <3>2. EventOf(r).user = job[r].user
      BY <3>1 DEF EventOf, Event
    <3>3. QED
      BY <1>0, <3>1, <3>2 DEF Sound
  <2>2. \A event \in bus' \ bus : event = EventOf(r)
    BY Frame
  <2>3. QED
    BY <1>0, <2>1, <2>2, Frame DEF TrueEvents
<1>3. QED
  BY <1>1, <1>2

\* The job of a Google login stays what it was, so it remains a proof.
LEMMA ProofsKept ==
  ASSUME IndInv, NEW r \in Requests, Arrive(r) \/ Service(r) \/ Abort(r),
         NEW q \in Requests, job[q].op = "google"
  PROVE  job'[q].op = "google" /\ job'[q].sub = job[q].sub /\ job'[q].email = job[q].email
<1>0. Sound(q) /\ job \in [Requests -> Jobs]
  BY DEF IndInv, TypeOK
<1>1. pc[q] # "new"
  BY <1>0 DEF Sound, NoJob
<1>2. CASE q # r
  BY <1>2, Frame
<1>3. CASE q = r
  <2>1. ~Arrive(r)
    BY <1>1, <1>3 DEF Arrive, Register, Login, GoogleLogin, Logout, Authorize, Begin
  <2>2. CASE FindByEmail(r)
    BY <1>0, <1>3, <2>2 DEF FindByEmail, Jobs
  <2>3. CASE AssignRoles(r)
    BY <1>0, <1>3, <2>3 DEF AssignRoles, Jobs
  <2>4. CASE UNCHANGED job
    BY <1>3, <2>4
  <2>5. QED
    BY <2>1, <2>2, <2>3, <2>4 DEF Service, Abort, Link, CheckLinked, Publish, PublishFault, IssueToken,
      CreateUser, UpdateUser, FlushRoles
<1>4. QED
  BY <1>2, <1>3

Proven(u) ==
  \/ u \in DOMAIN Credentials0 /\ creds[u].google = Credentials0[u].google
  \/ \E r \in Requests :
       job[r].op = "google" /\ job[r].sub = creds[u].google /\ job[r].email = EmailOf[u]

\* Links stay unique and proven.
LEMMA LinksKept ==
  ASSUME IndInv, NEW r \in Requests, Arrive(r) \/ Service(r) \/ Abort(r)
  PROVE  LinksAreProven'
<1>0. /\ Sound(r) /\ creds \in [DOMAIN creds -> Credentials] /\ LinksAreProven
      /\ pc \in [Requests -> Steps] /\ DOMAIN creds' = DOMAIN creds
  BY Frame DEF IndInv, TypeOK
<1>1. ASSUME NEW u \in DOMAIN creds, creds'[u].google = creds[u].google, creds[u].google # Null
      PROVE  Proven(u)'
  <2>1. Proven(u)
    BY <1>0, <1>1 DEF LinksAreProven, Proven
  <2>2. QED
    BY <1>1, <2>1, ProofsKept DEF Proven
<1>2. CASE UNCHANGED creds
  BY <1>0, <1>1, <1>2 DEF LinksAreProven, Proven, WithSub
<1>3. CASE Link(r) /\ WithSub(job[r].sub) \subseteq {job[r].user}
  <2> DEFINE a == job[r].user
             s == job[r].sub
  <2>1. /\ creds' = [creds EXCEPT ![a].google = s] /\ a \in DOMAIN creds /\ UNCHANGED job
        /\ pc[r] = "linking" /\ job[r].op = "google" /\ EmailOf[a] = job[r].email
        /\ \A v \in DOMAIN creds : creds[v].google = s => v = a
    BY <1>0, <1>3 DEF Link, IndInv, TypeOK, Sound, WithSub
  <2>2. creds'[a].google = s /\ \A v \in DOMAIN creds \ {a} : creds'[v].google = creds[v].google
    BY <1>0, <2>1 DEF Credentials
  <2>3. Proven(a)'
    BY <2>1, <2>2 DEF Proven
  <2>4. ASSUME NEW u \in DOMAIN creds, creds'[u].google # Null
        PROVE  Proven(u)' /\ \A v \in DOMAIN creds : creds'[v].google = creds'[u].google => v = u
    <3>1. CASE u = a
      BY <2>1, <2>2, <2>3, <3>1
    <3>2. CASE u # a
      <4>1. creds'[u].google = creds[u].google /\ creds[u].google # s
        BY <2>1, <2>2, <3>2
      <4>2. \A v \in DOMAIN creds : creds[v].google = creds[u].google => v = u
        BY <1>0, <2>4, <4>1 DEF LinksAreProven, WithSub
      <4>3. QED
        BY <1>1, <2>2, <2>4, <4>1, <4>2
    <3>3. QED
      BY <3>1, <3>2
  <2>5. QED
    BY <1>0, <2>4 DEF LinksAreProven, Proven, WithSub
<1>4. QED
  BY <1>2, <1>3 DEF Arrive, Service, Abort, Register, Login, GoogleLogin, Logout, Authorize, FindByEmail, Link,
    CheckLinked, Publish, PublishFault, IssueToken, CreateUser, UpdateUser, AssignRoles, FlushRoles, Stored

\* A credential that is provisioned has no Google identifier.
LEMMA ProvisionKeeps ==
  ASSUME IndInv, NEW u \in Users, ProvisionCredential(u)
  PROVE  IndInv'
<1>1. PICK active \in BOOLEAN :
        creds' = [v \in DOMAIN creds \cup {u} |->
                    IF v = u THEN [hash |-> TRUE, google |-> Null, active |-> active] ELSE creds[v]]
  BY DEF ProvisionCredential
<1>2. /\ DOMAIN creds' = DOMAIN creds \cup {u} /\ creds'[u].google = Null
      /\ \A v \in DOMAIN creds : creds'[v] = creds[v]
      /\ u \notin DOMAIN creds /\ UNCHANGED <<roles, bus, tokens, pc, job>>
  BY <1>1 DEF ProvisionCredential
<1>3. TypeOK'
  BY ProvisionTyped DEF IndInv
<1>4. ASSUME NEW q \in Requests PROVE Sound(q)'
  <2>1. Sound(q) /\ (pc[q] \in {"accepting", "announced"} => job[q].user \in DOMAIN creds)
    BY DEF IndInv, TypeOK
  <2>2. QED
    BY <1>2, <2>1 DEF Sound, Says
<1>5. TracedTokens' /\ TrueEvents'
  BY <1>2 DEF IndInv, TracedTokens, TrueEvents
<1>6. LinksAreProven'
  BY <1>2 DEF IndInv, LinksAreProven, WithSub
<1>7. QED
  BY <1>2, <1>3, <1>4, <1>5, <1>6 DEF IndInv

\* Every step keeps the inductive invariant.
LEMMA NextKeeps == IndInv /\ [Next]_vars => IndInv'
<1> SUFFICES ASSUME IndInv, [Next]_vars PROVE IndInv'
  OBVIOUS
<1>0. TypeOK'
  BY NextTyped DEF IndInv
<1>1. ASSUME NEW r \in Requests, Arrive(r) \/ Service(r) \/ Abort(r) PROVE IndInv'
  <2>1. \A q \in Requests : Sound(q)'
    BY <1>1, ArriveSound, ServiceSound, OthersSound
  <2>2. QED
    BY <1>0, <1>1, <2>1, Frame, TraceKept, LinksKept DEF IndInv
<1>2. CASE UNCHANGED vars
  BY <1>0, <1>2 DEF vars, IndInv, Sound, Says, TracedTokens, TrueEvents, LinksAreProven, WithSub
<1>3. QED
  BY <1>1, <1>2, ProvisionKeeps DEF Next

\* IndInv in every state.
THEOREM Invariance == Spec => []IndInv
  BY InitHolds, NextKeeps, PTL DEF Spec

\* The trail of login attempts agrees with the answers, whatever publish fails.
THEOREM TraceHolds == Spec => []AttemptsAreTraced
  BY Invariance, Suffices, PTL

\* A Google identifier names one account, whose address was shown with it,
\* however the logins that link it interleave.
THEOREM LinksHold == Spec => []LinksAreProven
  BY Invariance, Suffices, PTL
=============================================================================

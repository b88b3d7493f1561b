----------------------------- MODULE BootSeeding -----------------------------
(***************************************************************************)
(* Start-up of the application: init_db runs the registered seeders one    *)
(* after the other in one session (credential of the superuser, hardening  *)
(* benchmarks, permissions and superuser), again at every start, with the  *)
(* benchmarks of the release that is deployed.  The process may die or     *)
(* fail between any two steps and is restarted.                            *)
(*                                                                         *)
(* sync_rule_catalog commits the session in the middle of the seeding.     *)
(*                                                                         *)
(* A rule stands for the key (id, standard_version); its stored content    *)
(* for the release that wrote it.                                          *)
(***************************************************************************)
EXTENDS Integers, Sequences

CONSTANTS
  Releases,    \* releases of the program
  Benchmarks,  \* release -> benchmark files in the order of their paths
  Rules,       \* keys of the rules of all the benchmarks
  Profiles,    \* titles of the benchmarks: names of the system profiles
  None         \* no rule in the catalogue

\* A benchmark that is "skipped" has no standard, no version or no rules; a
\* "broken" one cannot be parsed or stored.  The files of one release neither
\* share a title nor a rule, as the two files of the repository.
ASSUME BootAssumption ==
  /\ Benchmarks \in
       [Releases -> Seq([kind : {"good", "skipped", "broken"},
                         title : Profiles, system : BOOLEAN, rules : SUBSET Rules])]
  /\ \A r \in Releases : \A i, j \in DOMAIN Benchmarks[r] : i # j =>
       /\ Benchmarks[r][i].title # Benchmarks[r][j].title
       /\ Benchmarks[r][i].rules \cap Benchmarks[r][j].rules = {}
  /\ \A r \in Releases : \A i \in DOMAIN Benchmarks[r] :
       Benchmarks[r][i].kind = "good" => Benchmarks[r][i].rules # {}
  /\ None \notin Releases

\* Contents of the tables the seeders write.
Tables ==
  [catalog : [Rules -> Releases \cup {None}],       \* rule -> content
   profiles : [Profiles -> SUBSET Rules],            \* its rules; {} if there is none
   rbac : BOOLEAN,         \* the permissions, and ADMIN with all of them
   user : BOOLEAN,         \* the superuser in users
   credential : BOOLEAN]   \* and in auth_credentials

Empty == [catalog |-> [rule \in Rules |-> None], profiles |-> [p \in Profiles |-> {}],
          rbac |-> FALSE, user |-> FALSE, credential |-> FALSE]

VARIABLES
  db,       \* committed tables
  work,     \* the tables as the session would commit them
  pc,       \* next step of the start-up; "up" while the application serves
  release,  \* release of the process
  file,     \* index of the next benchmark
  ups       \* history: start-ups completed, 2 standing for more

vars == <<db, work, pc, release, file, ups>>

Init ==
  /\ db = Empty /\ work = Empty
  /\ pc = "down"
  /\ release \in Releases
  /\ file = 1
  /\ ups = 0

File == Benchmarks[release][file]

GoTo(step) == pc' = step

NextFile == file' = file + 1 /\ GoTo("catalog")
-----------------------------------------------------------------------------
\* A process of some release starts with a new session (create_all finds or
\* makes the tables).
Boot ==
  /\ pc = "down"
  /\ release' \in Releases
  /\ file' = 1
  /\ work' = db
  /\ GoTo("seed_auth")
  /\ UNCHANGED <<db, ups>>

\* Mutant of SeedAuth: the credential does not wait for the user.
SeedAuthBlind ==
  /\ pc = "seed_auth"
  /\ work' = [work EXCEPT !.credential = TRUE]
  /\ GoTo("catalog")
  /\ UNCHANGED <<db, release, file, ups>>

\* seed_auth_domain, the first seeder that main.py imports: without the user
\* it logs an error and returns.
SeedAuth ==
  /\ pc = "seed_auth"
  /\ work' = [work EXCEPT !.credential = @ \/ work.user]
  /\ GoTo("catalog")
  /\ UNCHANGED <<db, release, file, ups>>

\* seed_hardening_data, one benchmark: a skipped one is passed over.
SkipFile ==
  /\ pc = "catalog" /\ file <= Len(Benchmarks[release])
  /\ File.kind = "skipped"
  /\ NextFile
  /\ UNCHANGED <<db, work, release, ups>>

\* sync_rule_catalog inserts the rules of the benchmark or overwrites them,
\* and commits whatever the session holds.
SyncCatalog ==
  /\ pc = "catalog" /\ file <= Len(Benchmarks[release])
  /\ File.kind = "good"
  /\ work' = [work EXCEPT !.catalog =
                [rule \in Rules |-> IF rule \in File.rules THEN release ELSE @[rule]]]
  /\ db' = work'
  /\ GoTo("profile")
  /\ UNCHANGED <<release, file, ups>>

\* Mutant of SyncProfile: an existing profile keeps the rules it had.
SyncProfileMerges ==
  /\ pc = "profile"
  /\ work' = IF File.system
             THEN [work EXCEPT !.profiles[File.title] = @ \cup File.rules]
             ELSE work
  /\ NextFile
  /\ UNCHANGED <<db, release, ups>>

\* Mutant of SyncProfile: an existing profile is left alone.
SyncProfileOnce ==
  /\ pc = "profile"
  /\ work' = IF File.system /\ work.profiles[File.title] = {}
             THEN [work EXCEPT !.profiles[File.title] = File.rules]
             ELSE work
  /\ NextFile
  /\ UNCHANGED <<db, release, ups>>

\* The system profile of the benchmark is created or given the rules; flush.
SyncProfile ==
  /\ pc = "profile"
  /\ work' = IF File.system THEN [work EXCEPT !.profiles[File.title] = File.rules] ELSE work
  /\ NextFile
  /\ UNCHANGED <<db, release, ups>>

HardeningDone ==
  /\ pc = "catalog" /\ file > Len(Benchmarks[release])
  /\ GoTo("rbac")
  /\ UNCHANGED <<db, work, release, file, ups>>

\* _seed_rbac
SeedRbac ==
  /\ pc = "rbac"
  /\ work' = [work EXCEPT !.rbac = TRUE]
  /\ GoTo("superuser")
  /\ UNCHANGED <<db, release, file, ups>>

\* _seed_superuser_user
SeedSuperuser ==
  /\ pc = "superuser"
  /\ work' = [work EXCEPT !.user = TRUE]
  /\ GoTo("commit")
  /\ UNCHANGED <<db, release, file, ups>>

Served == ups' = IF ups = 2 THEN 2 ELSE ups + 1

\* Mutant of InitDone: init_db leaves the commit to the seeders.
InitDoneUncommitted ==
  /\ pc = "commit"
  /\ GoTo("up")
  /\ Served
  /\ UNCHANGED <<db, work, release, file>>

\* init_db commits and the application serves requests.
InitDone ==
  /\ pc = "commit"
  /\ db' = work
  /\ GoTo("up")
  /\ Served
  /\ UNCHANGED <<work, release, file>>

\* A seeder raises, on a broken benchmark or because the database failed:
\* init_db rolls back and raises, the process ends.  So it does in a crash.
BootFails ==
  /\ pc \notin {"down", "up"}
  /\ work' = db
  /\ GoTo("down")
  /\ UNCHANGED <<db, release, file, ups>>

Shutdown ==
  /\ pc = "up"
  /\ GoTo("down")
  /\ UNCHANGED <<db, work, release, file, ups>>

Next ==
  \/ Boot \/ SeedAuth \/ SkipFile \/ SyncCatalog \/ SyncProfile \/ HardeningDone
  \/ SeedRbac \/ SeedSuperuser \/ InitDone
  \/ BootFails \/ Shutdown

Spec == Init /\ [][Next]_vars
-----------------------------------------------------------------------------
\* The variables have their types, and between two transactions the session
\* holds nothing that is not committed.
TypeOK ==
  /\ db \in Tables /\ work \in Tables
  /\ pc \in {"down", "seed_auth", "catalog", "profile", "rbac", "superuser", "commit", "up"}
  /\ release \in Releases
  /\ file \in 1 .. Len(Benchmarks[release]) + 1
  /\ ups \in 0 .. 2
  /\ pc \in {"down", "seed_auth", "up"} => work = db

\* In every committed state, also in those that a failed start-up leaves: the
\* superuser's credential has its user (the key auth_credentials.id refers to
\* it), and a profile selects only rules that are in the catalogue.
ReferencesHold ==
  /\ db.credential => db.user
  /\ \A p \in Profiles :
       \A rule \in db.profiles[p] : db.catalog[rule] # None

\* Whichever releases were started before, and wherever they failed, a process
\* that serves has the permissions, the superuser and the benchmarks of its own
\* release: each of its rules with its content, each profile with its rules.
ServesItsRelease ==
  pc = "up" =>
    /\ db.rbac /\ db.user
    /\ \A i \in DOMAIN Benchmarks[release] :
         LET f == Benchmarks[release][i] IN
         f.kind # "skipped" =>
           /\ \A rule \in f.rules : db.catalog[rule] = release
           /\ f.system => db.profiles[f.title] = f.rules

\* A profile is what one release says it is, never a mixture of two of them
\* left by an upgrade that was interrupted.
ProfilesOfOneRelease ==
  \A p \in Profiles : db.profiles[p] # {} =>
    \E r \in Releases : \E i \in DOMAIN Benchmarks[r] :
      Benchmarks[r][i].title = p /\ Benchmarks[r][i].rules = db.profiles[p]

\* Any start-up that completes after the first one leaves the superuser with a
\* credential: the start that found no user is made good by the next.
CredentialFromSecondStart == pc = "up" /\ ups = 2 => db.credential
=============================================================================

--------------------------- MODULE BootSeedingProofs ---------------------------
(***************************************************************************)
(* Theorems of BootSeeding, for any sequence of starts of any releases     *)
(* with any benchmarks.                                                    *)
(***************************************************************************)
EXTENDS BootSeeding, TLAPS

\* References between the tables.
Coherent(t) ==
  /\ t.credential => t.user
  /\ \A p \in Profiles : \A rule \in t.profiles[p] : t.catalog[rule] # None

\* Each profile is that of some release.
Pure(t) ==
  \A p \in Profiles : t.profiles[p] # {} =>
    \E r \in Releases : \E i \in DOMAIN Benchmarks[r] :
      Benchmarks[r][i].title = p /\ Benchmarks[r][i].rules = t.profiles[p]

\* The rules of the i-th benchmark of the release, and its profile, are in place.
RulesIn(i) == \A rule \in Benchmarks[release][i].rules : work.catalog[rule] = release
ProfileIn(i) ==
  Benchmarks[release][i].system => work.profiles[Benchmarks[release][i].title] = Benchmarks[release][i].rules

\* How far the start has got.
Progress ==
  /\ pc \in {"catalog", "profile", "rbac", "superuser", "commit", "up"} =>
       \A i \in DOMAIN Benchmarks[release] :
         i < file /\ Benchmarks[release][i].kind # "skipped" => RulesIn(i) /\ ProfileIn(i)
  /\ pc = "seed_auth" => file = 1
  /\ pc = "profile" => file \in DOMAIN Benchmarks[release] /\ RulesIn(file)
  /\ pc \in {"rbac", "superuser", "commit", "up"} => file = Len(Benchmarks[release]) + 1
  /\ pc \in {"superuser", "commit", "up"} => work.rbac
  /\ pc \in {"commit", "up"} => work.user

\* The superuser exists after the first completed start, and from the second on
\* its credential is seeded.
Credentials ==
  /\ ups >= 1 => db.user /\ work.user
  /\ ups >= 1 /\ pc \notin {"down", "seed_auth", "up"} => work.credential
  /\ ups = 2 /\ pc = "up" => work.credential

\* The inductive invariant.
IndInv ==
  /\ TypeOK
  /\ Coherent(db) /\ Coherent(work)
  /\ Pure(db) /\ Pure(work)
  /\ Progress /\ Credentials

\* A sequence over a set, element by element.
LEMMA SeqTyped ==
  ASSUME NEW S, NEW s \in Seq(S)
  PROVE  /\ Len(s) \in Nat /\ DOMAIN s = 1 .. Len(s)
         /\ \A i \in 1 .. Len(s) : s[i] \in S
  OBVIOUS

\* A benchmark of a release.
LEMMA BenchmarkTyped ==
  ASSUME NEW r \in Releases
  PROVE  /\ Len(Benchmarks[r]) \in Nat /\ DOMAIN Benchmarks[r] = 1 .. Len(Benchmarks[r])
         /\ \A i \in 1 .. Len(Benchmarks[r]) :
              Benchmarks[r][i] \in [kind : {"good", "skipped", "broken"},
                                    title : Profiles, system : BOOLEAN, rules : SUBSET Rules]
<1>1. Benchmarks[r] \in Seq([kind : {"good", "skipped", "broken"},
                             title : Profiles, system : BOOLEAN, rules : SUBSET Rules])
  BY BootAssumption
<1> DEFINE B == [kind : {"good", "skipped", "broken"},
                 title : Profiles, system : BOOLEAN, rules : SUBSET Rules]
<1>2. Benchmarks[r] \in Seq(B)
  BY <1>1
<1>3. /\ Len(Benchmarks[r]) \in Nat /\ DOMAIN Benchmarks[r] = 1 .. Len(Benchmarks[r])
      /\ \A i \in 1 .. Len(Benchmarks[r]) : Benchmarks[r][i] \in B
  <2> HIDE DEF B
  <2> QED  BY <1>2, SeqTyped
<1>4. QED
  BY <1>3

\* It holds initially.
LEMMA InitHolds == Init => IndInv
<1> SUFFICES ASSUME Init PROVE IndInv
  OBVIOUS
<1>1. TypeOK
  BY BenchmarkTyped DEF Init, TypeOK, Tables, Empty
<1>2. Coherent(db) /\ Coherent(work) /\ Pure(db) /\ Pure(work)
  BY DEF Init, Empty, Coherent, Pure
<1>3. Progress /\ Credentials
  BY DEF Init, Progress, Credentials
<1>4. QED
  BY <1>1, <1>2, <1>3 DEF IndInv

\* The rules of a benchmark are written and committed.
LEMMA SyncCatalogKeeps ==
  ASSUME IndInv, SyncCatalog
  PROVE  IndInv'
<1>0. /\ pc = "catalog" /\ file \in 1 .. Len(Benchmarks[release]) /\ release \in Releases
      /\ work \in Tables /\ File.rules \subseteq Rules /\ DOMAIN Benchmarks[release] = 1 .. Len(Benchmarks[release])
      /\ pc' = "profile" /\ UNCHANGED <<release, file, ups>> /\ db' = work'
  BY BenchmarkTyped DEF IndInv, TypeOK, SyncCatalog, File, GoTo
<1>1. /\ work' = [work EXCEPT !.catalog =
                   [rule \in Rules |-> IF rule \in File.rules THEN release ELSE work.catalog[rule]]]
  BY DEF SyncCatalog
<1>2. /\ work' \in Tables
      /\ work'.profiles = work.profiles /\ work'.rbac = work.rbac
      /\ work'.user = work.user /\ work'.credential = work.credential
      /\ \A rule \in Rules : work'.catalog[rule] = IF rule \in File.rules THEN release ELSE work.catalog[rule]
  BY <1>0, <1>1 DEF Tables
<1>3. TypeOK'
  BY <1>0, <1>2 DEF IndInv, TypeOK
<1>4. Coherent(work)'
  <2>1. \A p \in Profiles : work.profiles[p] \subseteq Rules
    BY <1>0 DEF Tables
  <2>2. release # None
    BY <1>0, BootAssumption
  <2>3. QED
    BY <1>2, <2>1, <2>2 DEF IndInv, Coherent
<1>5. Pure(work)'
  BY <1>2 DEF IndInv, Pure
<1>6. Progress'
  <2>1. RulesIn(file)'
    BY <1>0, <1>2 DEF RulesIn, File
  <2>2. ASSUME NEW i \in 1 .. Len(Benchmarks[release]), RulesIn(i) PROVE RulesIn(i)'
    BY <1>0, <1>2, <2>2, BenchmarkTyped DEF RulesIn
  <2>3. \A i \in 1 .. Len(Benchmarks[release]) : ProfileIn(i) => ProfileIn(i)'
    BY <1>0, <1>2 DEF ProfileIn
  <2>4. QED
    BY <1>0, <2>1, <2>2, <2>3 DEF IndInv, Progress
<1>7. Credentials'
  BY <1>0, <1>2 DEF IndInv, TypeOK, Credentials
<1>8. QED
  BY <1>0, <1>3, <1>4, <1>5, <1>6, <1>7 DEF IndInv, Coherent, Pure

\* The profile of a benchmark is made of its rules.
LEMMA SyncProfileKeeps ==
  ASSUME IndInv, SyncProfile
  PROVE  IndInv'
<1>0. /\ pc = "profile" /\ file \in 1 .. Len(Benchmarks[release]) /\ release \in Releases /\ RulesIn(file)
      /\ work \in Tables /\ DOMAIN Benchmarks[release] = 1 .. Len(Benchmarks[release])
      /\ File.rules \subseteq Rules /\ File.title \in Profiles /\ File = Benchmarks[release][file]
      /\ pc' = "catalog" /\ UNCHANGED <<db, release, ups>> /\ file' = file + 1
  BY BenchmarkTyped DEF IndInv, TypeOK, Progress, SyncProfile, NextFile, File, GoTo
<1>1. work' = IF File.system THEN [work EXCEPT !.profiles[File.title] = File.rules] ELSE work
  BY DEF SyncProfile
<1>2. /\ work' \in Tables
      /\ work'.catalog = work.catalog /\ work'.rbac = work.rbac
      /\ work'.user = work.user /\ work'.credential = work.credential
      /\ \A p \in Profiles : work'.profiles[p] =
           IF File.system /\ p = File.title THEN File.rules ELSE work.profiles[p]
  BY <1>0, <1>1 DEF Tables
<1>3. TypeOK'
  BY <1>0, <1>2, BenchmarkTyped DEF IndInv, TypeOK
<1>4. Coherent(work)'
  <2>1. \A rule \in File.rules : work.catalog[rule] = release /\ release # None
    BY <1>0, BootAssumption DEF RulesIn
  <2>2. QED
    BY <1>2, <2>1 DEF IndInv, Coherent
<1>5. Pure(work)'
  BY <1>0, <1>2 DEF IndInv, Pure
<1>6. Progress'
  <2>1. \A i \in 1 .. Len(Benchmarks[release]) : RulesIn(i) => RulesIn(i)'
    BY <1>0, <1>2 DEF RulesIn
  <2>2. ASSUME NEW i \in 1 .. Len(Benchmarks[release]), i = file PROVE ProfileIn(i)'
    BY <1>0, <1>2, <2>2 DEF ProfileIn
  <2>3. ASSUME NEW i \in 1 .. Len(Benchmarks[release]), i < file, ProfileIn(i) PROVE ProfileIn(i)'
    <3>1. Benchmarks[release][i].title # File.title /\ Benchmarks[release][i].title \in Profiles
      BY <1>0, <2>3, BootAssumption, BenchmarkTyped
    <3>2. QED
      BY <1>0, <1>2, <2>3, <3>1 DEF ProfileIn
  <2>4. \A i \in 1 .. Len(Benchmarks[release]) : i < file + 1 => i < file \/ i = file
    BY <1>0
  <2>5. ASSUME NEW i \in 1 .. Len(Benchmarks[release]), i < file + 1, Benchmarks[release][i].kind # "skipped"
        PROVE  RulesIn(i)' /\ ProfileIn(i)'
    BY <1>0, <2>1, <2>2, <2>3, <2>4, <2>5 DEF IndInv, Progress
  <2>6. QED
    BY <1>0, <2>5 DEF Progress
<1>7. Credentials'
  BY <1>0, <1>2 DEF IndInv, TypeOK, Credentials
<1>8. QED
  BY <1>0, <1>3, <1>4, <1>5, <1>6, <1>7 DEF IndInv, Coherent, Pure

\* The seeders that write no benchmark.
LEMMA SeedKeeps ==
  ASSUME IndInv, SeedAuth \/ SeedRbac \/ SeedSuperuser
  PROVE  IndInv'
<1>0. work \in Tables /\ ups \in 0 .. 2
  BY DEF IndInv, TypeOK
<1>1. /\ work' \in Tables /\ work'.catalog = work.catalog /\ work'.profiles = work.profiles
      /\ UNCHANGED <<db, release, file, ups>>
  BY <1>0 DEF SeedAuth, SeedRbac, SeedSuperuser, Tables
<1>2. /\ \A i : RulesIn(i)' <=> RulesIn(i)
      /\ \A i : ProfileIn(i)' <=> ProfileIn(i)
  BY <1>1 DEF RulesIn, ProfileIn
<1>3. Pure(db)' /\ Pure(work)' /\ Coherent(db)'
  BY <1>1 DEF IndInv, Pure, Coherent
<1>4. CASE SeedAuth
  <2>1. /\ pc = "seed_auth" /\ pc' = "catalog" /\ work = db /\ file = 1
        /\ work'.user = work.user /\ (work'.credential <=> work.credential \/ work.user)
    BY <1>0, <1>4 DEF SeedAuth, GoTo, IndInv, TypeOK, Progress, Tables
  <2>2. Progress'
    BY <1>1, <2>1, BenchmarkTyped DEF IndInv, TypeOK, Progress
  <2>3. Coherent(work)' /\ Credentials' /\ TypeOK'
    BY <1>0, <1>1, <2>1 DEF IndInv, Coherent, Credentials, TypeOK
  <2>4. QED
    BY <1>3, <2>2, <2>3 DEF IndInv
<1>5. CASE SeedRbac
  <2>1. /\ pc = "rbac" /\ pc' = "superuser" /\ work'.rbac
        /\ work'.user = work.user /\ work'.credential = work.credential
    BY <1>0, <1>5 DEF SeedRbac, GoTo, Tables
  <2>2. Progress'
    BY <1>1, <1>2, <2>1 DEF IndInv, Progress
  <2>3. Coherent(work)' /\ Credentials' /\ TypeOK'
    BY <1>0, <1>1, <2>1 DEF IndInv, Coherent, Credentials, TypeOK
  <2>4. QED
    BY <1>3, <2>2, <2>3 DEF IndInv
<1>6. CASE SeedSuperuser
  <2>1. /\ pc = "superuser" /\ pc' = "commit" /\ work'.rbac = work.rbac
        /\ work'.user /\ work'.credential = work.credential
    BY <1>0, <1>6 DEF SeedSuperuser, GoTo, Tables
  <2>2. Progress'
    BY <1>1, <1>2, <2>1 DEF IndInv, Progress
  <2>3. Coherent(work)' /\ Credentials' /\ TypeOK'
    BY <1>0, <1>1, <2>1 DEF IndInv, Coherent, Credentials, TypeOK
  <2>4. QED
    BY <1>3, <2>2, <2>3 DEF IndInv
<1>7. QED
  BY <1>4, <1>5, <1>6

\* The walk over the benchmarks.
LEMMA WalkKeeps ==
  ASSUME IndInv, SkipFile \/ HardeningDone
  PROVE  IndInv'
<1>0. /\ UNCHANGED <<db, work, release, ups>> /\ pc = "catalog" /\ release \in Releases
      /\ file \in 1 .. Len(Benchmarks[release]) + 1 /\ Len(Benchmarks[release]) \in Nat
      /\ DOMAIN Benchmarks[release] = 1 .. Len(Benchmarks[release])
  BY BenchmarkTyped DEF IndInv, TypeOK, SkipFile, HardeningDone
<1>1. /\ \A i : RulesIn(i)' <=> RulesIn(i)
      /\ \A i : ProfileIn(i)' <=> ProfileIn(i)
  BY <1>0 DEF RulesIn, ProfileIn
<1>2. Pure(db)' /\ Pure(work)' /\ Coherent(db)' /\ Coherent(work)'
  BY <1>0 DEF IndInv, Pure, Coherent
<1>3. CASE SkipFile
  <2>1. /\ file <= Len(Benchmarks[release]) /\ Benchmarks[release][file].kind = "skipped"
        /\ file' = file + 1 /\ pc' = "catalog"
    BY <1>3 DEF SkipFile, NextFile, File, GoTo
  <2>2. TypeOK' /\ Credentials'
    BY <1>0, <2>1 DEF IndInv, TypeOK, Credentials
  <2>3. ASSUME NEW i \in 1 .. Len(Benchmarks[release]), i < file + 1, Benchmarks[release][i].kind # "skipped"
        PROVE  RulesIn(i) /\ ProfileIn(i)
    <3>1. i < file
      BY <1>0, <2>1, <2>3
    <3>2. QED
      BY <1>0, <2>3, <3>1 DEF IndInv, Progress
  <2>4. Progress'
    BY <1>0, <1>1, <2>1, <2>3 DEF Progress
  <2>5. QED
    BY <1>2, <2>2, <2>4 DEF IndInv
<1>4. CASE HardeningDone
  <2>1. file = Len(Benchmarks[release]) + 1 /\ file' = file /\ pc' = "rbac"
    BY <1>0, <1>4 DEF HardeningDone, GoTo
  <2>2. TypeOK' /\ Credentials'
    BY <1>0, <2>1 DEF IndInv, TypeOK, Credentials
  <2>3. Progress'
    BY <1>0, <1>1, <2>1 DEF IndInv, Progress
  <2>4. QED
    BY <1>2, <2>2, <2>3 DEF IndInv
<1>5. QED
  BY <1>3, <1>4

\* A process starts, serves or ends.
LEMMA ProcessKeeps ==
  ASSUME IndInv, Boot \/ InitDone \/ BootFails \/ Shutdown
  PROVE  IndInv'
<1>0. ups \in 0 .. 2 /\ db \in Tables /\ work \in Tables
  BY DEF IndInv, TypeOK
<1>1. CASE Boot
  <2>1. /\ pc' = "seed_auth" /\ file' = 1 /\ work' = db /\ db' = db /\ ups' = ups /\ release' \in Releases
    BY <1>1 DEF Boot, GoTo
  <2>2. 1 \in 1 .. Len(Benchmarks[release'])  + 1
    BY <2>1, BenchmarkTyped
  <2>3. TypeOK' /\ Credentials' /\ Progress'
    BY <1>0, <2>1, <2>2 DEF IndInv, TypeOK, Credentials, Progress
  <2>4. QED
    BY <2>1, <2>3 DEF IndInv, Pure, Coherent
<1>2. CASE InitDone
  <2>1. /\ pc = "commit" /\ pc' = "up" /\ db' = work /\ UNCHANGED <<work, release, file>>
        /\ ups' = IF ups = 2 THEN 2 ELSE ups + 1
    BY <1>2 DEF InitDone, GoTo, Served
  <2>2. /\ \A i : RulesIn(i)' <=> RulesIn(i)
        /\ \A i : ProfileIn(i)' <=> ProfileIn(i)
    BY <2>1 DEF RulesIn, ProfileIn
  <2>3. Progress'
    BY <2>1, <2>2 DEF IndInv, Progress
  <2>4. TypeOK' /\ Credentials'
    BY <1>0, <2>1 DEF IndInv, TypeOK, Credentials, Progress
  <2>5. QED
    BY <2>1, <2>3, <2>4 DEF IndInv, Pure, Coherent
<1>3. CASE BootFails \/ Shutdown
  <2>1. pc' = "down" /\ work' = db /\ UNCHANGED <<db, release, file, ups>>
    BY <1>3 DEF BootFails, Shutdown, GoTo, IndInv, TypeOK
  <2>2. TypeOK' /\ Credentials' /\ Progress'
    BY <1>0, <2>1 DEF IndInv, TypeOK, Credentials, Progress
  <2>3. QED
    BY <2>1, <2>2 DEF IndInv, Pure, Coherent
<1>4. QED
  BY <1>1, <1>2, <1>3

\* Every step keeps the inductive invariant.
LEMMA NextKeeps == IndInv /\ [Next]_vars => IndInv'
<1> SUFFICES ASSUME IndInv, [Next]_vars PROVE IndInv'
  OBVIOUS
<1>1. CASE UNCHANGED vars
  BY <1>1 DEF vars, IndInv, TypeOK, Coherent, Pure, Progress, Credentials, RulesIn, ProfileIn
<1>2. QED
  BY <1>1, SyncCatalogKeeps, SyncProfileKeeps, SeedKeeps, WalkKeeps, ProcessKeeps DEF Next
-----------------------------------------------------------------------------
\* IndInv in every state.
THEOREM Invariance == Spec => []IndInv
  BY InitHolds, NextKeeps, PTL DEF Spec

\* Between two transactions the session holds nothing uncommitted.
THEOREM TypeCorrect == Spec => []TypeOK
  BY Invariance, PTL DEF IndInv

\* What is committed, also by a start that fails half-way, refers to what is
\* there.
THEOREM ReferencesAlwaysHold == Spec => []ReferencesHold
<1>1. IndInv => ReferencesHold
  BY DEF IndInv, Coherent, ReferencesHold
<1>2. QED
  BY <1>1, Invariance, PTL

\* A process that serves has the data of its release, whatever was started
\* before it.
THEOREM ServedIsOwn == Spec => []ServesItsRelease
<1>1. IndInv => ServesItsRelease
  <2> SUFFICES ASSUME IndInv, pc = "up" PROVE ServesItsRelease
    BY DEF ServesItsRelease
  <2>1. /\ work = db /\ file = Len(Benchmarks[release]) + 1 /\ release \in Releases
        /\ work.rbac /\ work.user
    BY DEF IndInv, TypeOK, Progress
  <2>2. ASSUME NEW i \in DOMAIN Benchmarks[release], Benchmarks[release][i].kind # "skipped"
        PROVE  RulesIn(i) /\ ProfileIn(i)
    <3>1. i < file
      BY <2>1, BenchmarkTyped
    <3>2. QED
      BY <2>2, <3>1 DEF IndInv, Progress
  <2>3. QED
    BY <2>1, <2>2 DEF ServesItsRelease, RulesIn, ProfileIn
<1>2. QED
  BY <1>1, Invariance, PTL

\* No interrupted upgrade leaves a profile that is a mixture of two releases.
THEOREM ProfilesStayPure == Spec => []ProfilesOfOneRelease
<1>1. IndInv => ProfilesOfOneRelease
  BY DEF IndInv, Pure, ProfilesOfOneRelease
<1>2. QED
  BY <1>1, Invariance, PTL

\* From the second completed start on, the superuser has its credential.
THEOREM CredentialSeeded == Spec => []CredentialFromSecondStart
<1>1. IndInv => CredentialFromSecondStart
  BY DEF IndInv, TypeOK, Credentials, CredentialFromSecondStart
<1>2. QED
  BY <1>1, Invariance, PTL
=============================================================================

----------------------- MODULE TechnicianAssignmentProofs -----------------------
(***************************************************************************)
(* Theorems of TechnicianAssignment, for any requests and users.           *)
(***************************************************************************)
EXTENDS TechnicianAssignment, TLAPS

\* What a session has deleted is still there for the others, and only it has.
Marks ==
  /\ \A r \in Requests : marked[r] \subseteq rows
  /\ \A r, q \in Requests : r # q => marked[r] \cap marked[q] = {}

\* What a session has inserted collides with nothing that is committed, except
\* what it deletes itself, nor with what another has inserted.
Inserts ==
  /\ \A r \in Requests : \A u \in inserted[r] : \A row \in rows \ marked[r] : row.user # u
  /\ \A r, q \in Requests : r # q => inserted[r] \cap inserted[q] = {}

\* A session that is about to commit has inserted its list.
Complete == \A r \in Requests : pc[r] = "committing" => list[r] \subseteq inserted[r]

\* The inductive invariant.
IndInv == TypeOK /\ Marks /\ Inserts /\ Complete /\ OneRowPerTechnician /\ LastListIncluded

\* It holds initially.
LEMMA InitHolds == Init => IndInv
<1> SUFFICES ASSUME Init PROVE IndInv
  OBVIOUS
<1>1. TypeOK
  BY TechnicianAssumption DEF Init, TypeOK, Rows, Steps
<1>2. Marks /\ Inserts /\ Complete
  BY DEF Init, Marks, Inserts, Complete
<1>3. OneRowPerTechnician
  BY DEF Init, OneRowPerTechnician
<1>4. LastListIncluded
  <2>1. ASSUME NEW u \in last PROVE u \in UsersOf(rows)
    <3>1. [user |-> u, by |-> Before] \in rows
      BY DEF Init
    <3>2. QED
      BY <3>1 DEF UsersOf
  <2>2. QED
    BY <2>1 DEF LastListIncluded
<1>5. QED
  BY <1>1, <1>2, <1>3, <1>4 DEF IndInv

\* A session that ends without a commit.
LEMMA ErrorKeeps ==
  ASSUME IndInv, NEW r \in Requests, Error(r), UNCHANGED <<list, repeated>>
  PROVE  IndInv'
<1>1. TypeOK'
  BY DEF IndInv, TypeOK, Error, Release, GoTo, Steps
<1>2. \A q \in Requests : marked'[q] \subseteq marked[q] /\ inserted'[q] \subseteq inserted[q]
  BY DEF IndInv, TypeOK, Error, Release
<1>3. \A q \in Requests : inserted'[q] # {} => marked'[q] = marked[q]
  BY DEF IndInv, TypeOK, Error, Release
<1>4. Marks' /\ Inserts'
  BY <1>2, <1>3 DEF IndInv, Marks, Inserts, Error
<1>5. Complete'
  BY DEF IndInv, TypeOK, Complete, Error, Release, GoTo
<1>6. QED
  BY <1>1, <1>4, <1>5 DEF IndInv, Error, OneRowPerTechnician, LastListIncluded

\* Steps that touch no row.
LEMMA QuietKeeps ==
  ASSUME IndInv, TypeOK', UNCHANGED <<rows, marked, inserted, last>>, Complete'
  PROVE  IndInv'
  BY DEF IndInv, Marks, Inserts, OneRowPerTechnician, LastListIncluded

\* The DELETE takes rows that nobody else has taken.
LEMMA LockRowKeeps ==
  ASSUME IndInv, NEW r \in Requests, LockRow(r)
  PROVE  IndInv'
<1>1. PICK row \in snap[r] :
        /\ pc[r] = "deleting" /\ ~HeldRow(r, row)
        /\ snap' = [snap EXCEPT ![r] = @ \ {row}]
        /\ marked' = [marked EXCEPT ![r] = @ \cup (rows \cap {row})]
        /\ UNCHANGED <<exists, rows, pc, list, repeated, inserted, last>>
  BY DEF LockRow
<1>2. /\ marked'[r] = marked[r] \cup (rows \cap {row})
      /\ \A q \in Requests \ {r} : marked'[q] = marked[q] /\ row \notin marked[q]
  BY <1>1 DEF IndInv, TypeOK, HeldRow
<1>3. TypeOK'
  BY <1>1, <1>2 DEF IndInv, TypeOK
<1>4. Marks'
  BY <1>1, <1>2 DEF IndInv, Marks
<1>5. Inserts'
  BY <1>1, <1>2 DEF IndInv, Inserts
<1>6. QED
  BY <1>1, <1>3, <1>4, <1>5 DEF IndInv, Complete, OneRowPerTechnician, LastListIncluded

\* The INSERT adds a user that nobody else has, or fails.
LEMMA InsertRowKeeps ==
  ASSUME IndInv, NEW r \in Requests, InsertRow(r)
  PROVE  IndInv'
<1>1. PICK u \in Missing(r) :
        /\ pc[r] = "inserting" /\ ~HeldUser(r, u)
        /\ IF exists /\ u \notin UsersOf(rows \ marked[r])
           THEN /\ inserted' = [inserted EXCEPT ![r] = @ \cup {u}]
                /\ UNCHANGED <<exists, rows, pc, snap, marked, last>>
           ELSE Error(r)
        /\ UNCHANGED <<list, repeated>>
  BY DEF InsertRow
<1>2. CASE Error(r)
  BY <1>1, <1>2, ErrorKeeps
<1>3. CASE u \notin UsersOf(rows \ marked[r])
           /\ inserted' = [inserted EXCEPT ![r] = @ \cup {u}]
           /\ UNCHANGED <<exists, rows, pc, snap, marked, last>>
  <2>1. /\ inserted'[r] = inserted[r] \cup {u}
        /\ \A q \in Requests \ {r} : inserted'[q] = inserted[q] /\ u \notin inserted[q]
        /\ \A row \in rows \ marked[r] : row.user # u
    BY <1>1, <1>3 DEF IndInv, TypeOK, HeldUser, UsersOf
  <2>2. TypeOK'
    BY <1>1, <1>3, <2>1 DEF IndInv, TypeOK, Missing
  <2>3. Inserts'
    BY <1>3, <2>1 DEF IndInv, Inserts
  <2>4. Complete'
    BY <1>1, <1>3, <2>1 DEF IndInv, Complete
  <2>5. QED
    BY <1>3, <2>2, <2>3, <2>4 DEF IndInv, Marks, OneRowPerTechnician, LastListIncluded
<1>4. QED
  BY <1>1, <1>2, <1>3

\* The commit.
LEMMA CommitKeeps ==
  ASSUME IndInv, NEW r \in Requests, Commit(r)
  PROVE  IndInv'
<1>1. /\ rows' = (rows \ marked[r]) \cup [user : inserted[r], by : {r}]
      /\ marked'[r] = {} /\ inserted'[r] = {}
      /\ \A q \in Requests \ {r} : marked'[q] = marked[q] /\ inserted'[q] = inserted[q]
  BY DEF IndInv, TypeOK, Commit, Release
<1>2. TypeOK'
  <2>1. rows' \subseteq Rows
    BY <1>1 DEF IndInv, TypeOK, Rows
  <2>2. QED
    BY <1>1, <2>1 DEF IndInv, TypeOK, Commit, Release, GoTo, Steps
<1>3. Marks'
  <2>1. \A q \in Requests \ {r} : marked[q] \subseteq rows'
    BY <1>1 DEF IndInv, Marks
  <2>2. QED
    BY <1>1, <2>1 DEF IndInv, Marks
<1>4. \A row \in [user : inserted[r], by : {r}] : row.user \in inserted[r]
  OBVIOUS
<1>5. Inserts'
  <2>1. ASSUME NEW q \in Requests \ {r}, NEW u \in inserted[q], NEW row \in rows' \ marked[q]
        PROVE  row.user # u
    <3>1. CASE row \in rows
      BY <2>1, <3>1 DEF IndInv, Inserts
    <3>2. CASE row \in [user : inserted[r], by : {r}]
      BY <1>4, <2>1, <3>2 DEF IndInv, Inserts
    <3>3. QED
      BY <1>1, <2>1, <3>1, <3>2
  <2>2. QED
    BY <1>1, <2>1 DEF IndInv, Inserts
<1>6. OneRowPerTechnician'
  <2>1. ASSUME NEW a \in rows', NEW b \in rows', a.user = b.user PROVE a = b
    <3>1. CASE a \in rows \ marked[r] /\ b \in rows \ marked[r]
      BY <2>1, <3>1 DEF IndInv, OneRowPerTechnician
    <3>2. CASE a \in [user : inserted[r], by : {r}] /\ b \in [user : inserted[r], by : {r}]
      BY <2>1, <3>2
    <3>3. ASSUME NEW c \in rows \ marked[r], NEW d \in [user : inserted[r], by : {r}] PROVE c.user # d.user
      BY <1>4 DEF IndInv, Inserts
    <3>4. QED
      BY <1>1, <2>1, <3>1, <3>2, <3>3
  <2>2. QED
    BY <2>1 DEF OneRowPerTechnician
<1>7. LastListIncluded'
  <2>1. last' = list[r] /\ list[r] \subseteq inserted[r]
    BY DEF IndInv, Complete, Commit
  <2>2. ASSUME NEW u \in inserted[r] PROVE u \in UsersOf(rows')
    <3>1. [user |-> u, by |-> r] \in rows'
      BY <1>1
    <3>2. QED
      BY <3>1 DEF UsersOf
  <2>3. QED
    BY <2>1, <2>2 DEF LastListIncluded, UsersOf
<1>8. Complete'
  BY <1>1 DEF IndInv, TypeOK, Complete, Commit, GoTo
<1>9. QED
  BY <1>2, <1>3, <1>5, <1>6, <1>7, <1>8 DEF IndInv

\* Every step keeps the inductive invariant.
LEMMA NextKeeps == IndInv /\ [Next]_vars => IndInv'
<1> SUFFICES ASSUME IndInv, [Next]_vars PROVE IndInv'
  OBVIOUS
<1> USE DEF work
<1>1. ASSUME NEW r \in Requests, Assign(r) PROVE IndInv'
  <2>1. PICK technicians \in SUBSET Users, twice \in BOOLEAN :
          /\ pc[r] = "new"
          /\ \/ /\ GoTo(r, "validated")
                /\ list' = [list EXCEPT ![r] = technicians]
                /\ repeated' = [repeated EXCEPT ![r] = twice]
                /\ UNCHANGED <<exists, rows, work, last>>
             \/ Error(r) /\ UNCHANGED <<list, repeated>>
    BY <1>1 DEF Assign
  <2>2. CASE Error(r) /\ UNCHANGED <<list, repeated>>
    BY <2>2, ErrorKeeps
  <2>3. CASE /\ GoTo(r, "validated")
             /\ list' = [list EXCEPT ![r] = technicians]
             /\ repeated' = [repeated EXCEPT ![r] = twice]
             /\ UNCHANGED <<exists, rows, work, last>>
    <3>1. TypeOK'
      BY <2>1, <2>3 DEF IndInv, TypeOK, GoTo, Steps
    <3>2. Complete'
      BY <2>1, <2>3 DEF IndInv, TypeOK, Complete, GoTo
    <3>3. QED
      BY <2>3, <3>1, <3>2, QuietKeeps
  <2>4. QED
    BY <2>1, <2>2, <2>3
<1>2. ASSUME NEW r \in Requests, DeleteClient(r) PROVE IndInv'
  <2>1. rows' = {} /\ last' = {} /\ \A q \in Requests : marked'[q] = {} /\ inserted'[q] = {}
    BY <1>2 DEF DeleteClient
  <2>2. TypeOK'
    BY <1>2, <2>1 DEF IndInv, TypeOK, DeleteClient, GoTo, Steps
  <2>3. Complete'
    BY <1>2 DEF IndInv, TypeOK, Complete, DeleteClient, GoTo
  <2>4. QED
    BY <2>1, <2>2, <2>3 DEF IndInv, Marks, Inserts, OneRowPerTechnician, LastListIncluded
<1>3. ASSUME NEW r \in Requests, BeginDelete(r) PROVE IndInv'
  <2>1. TypeOK'
    BY <1>3 DEF IndInv, TypeOK, BeginDelete, GoTo, Steps
  <2>2. Complete'
    BY <1>3 DEF IndInv, TypeOK, Complete, BeginDelete, GoTo
  <2>3. QED
    BY <1>3, <2>1, <2>2, QuietKeeps DEF BeginDelete
<1>4. ASSUME NEW r \in Requests, EndDelete(r) PROVE IndInv'
  <2>1. TypeOK'
    BY <1>4 DEF IndInv, TypeOK, EndDelete, GoTo, Steps
  <2>2. Complete'
    BY <1>4 DEF IndInv, TypeOK, Complete, EndDelete, GoTo
  <2>3. QED
    BY <1>4, <2>1, <2>2, QuietKeeps DEF EndDelete
<1>5. ASSUME NEW r \in Requests, EndInsert(r) PROVE IndInv'
  <2>1. CASE Error(r)
    BY <1>5, <2>1, ErrorKeeps DEF EndInsert
  <2>2. CASE GoTo(r, "committing") /\ UNCHANGED <<exists, rows, work, last>>
    <3>1. TypeOK'
      BY <1>5, <2>2 DEF IndInv, TypeOK, EndInsert, GoTo, Steps
    <3>2. Complete'
      BY <1>5, <2>2 DEF IndInv, TypeOK, Complete, EndInsert, Missing, GoTo
    <3>3. QED
      BY <2>2, <3>1, <3>2, QuietKeeps
  <2>3. QED
    BY <1>5, <2>1, <2>2 DEF EndInsert
<1>6. ASSUME NEW r \in Requests, Answer(r) PROVE IndInv'
  <2>1. CASE Error(r)
    BY <1>6, <2>1, ErrorKeeps DEF Answer
  <2>2. CASE GoTo(r, "ok") /\ UNCHANGED <<exists, rows, work, last>>
    <3>1. TypeOK'
      BY <1>6, <2>2 DEF IndInv, TypeOK, Answer, GoTo, Steps
    <3>2. Complete'
      BY <1>6, <2>2 DEF IndInv, TypeOK, Complete, Answer, GoTo
    <3>3. QED
      BY <2>2, <3>1, <3>2, QuietKeeps
  <2>3. QED
    BY <1>6, <2>1, <2>2 DEF Answer
<1>7. ASSUME NEW r \in Requests, DeadlockVictim(r) \/ Abort(r) PROVE IndInv'
  BY <1>7, ErrorKeeps DEF DeadlockVictim, Abort
<1>8. CASE UNCHANGED vars
  BY <1>8 DEF vars, IndInv, TypeOK, Marks, Inserts, Complete, OneRowPerTechnician, LastListIncluded
<1>9. QED
  BY <1>1, <1>2, <1>3, <1>4, <1>5, <1>6, <1>7, <1>8, LockRowKeeps, InsertRowKeeps, CommitKeeps DEF Next, Service

-----------------------------------------------------------------------------
\* IndInv in every state.
THEOREM Invariance == Spec => []IndInv
  BY InitHolds, NextKeeps, PTL DEF Spec

\* Only a request inside its transaction holds rows.
THEOREM TypeCorrect == Spec => []TypeOK
  BY Invariance, PTL DEF IndInv

\* No technician is assigned twice, however many requests insert at a time.
THEOREM OneRowHolds == Spec => []OneRowPerTechnician
  BY Invariance, PTL DEF IndInv

\* The list committed last is assigned, whatever other requests delete.
THEOREM LastListHolds == Spec => []LastListIncluded
  BY Invariance, PTL DEF IndInv

\* The table changes only with a commit that brings a whole list, or with the
\* deletion of the client.
THEOREM AtomicHolds == Spec => AssignmentsAreAtomic
<1> USE DEF work
<1>1. ASSUME IndInv, [Next]_vars, rows' # rows
      PROVE  \/ ~exists'
             \/ \E r \in Requests : /\ pc[r] = "committing" /\ pc'[r] = "committed"
                                    /\ list[r] \subseteq UsersOf(rows')
  <2>1. ASSUME NEW r \in Requests, Commit(r)
        PROVE  pc[r] = "committing" /\ pc'[r] = "committed" /\ list[r] \subseteq UsersOf(rows')
    <3>1. LastListIncluded' /\ last' = list[r]
      BY <1>1, <2>1, CommitKeeps DEF IndInv, Commit
    <3>2. QED
      BY <1>1, <2>1, <3>1 DEF Commit, GoTo, IndInv, TypeOK, LastListIncluded, UsersOf
  <2>2. QED
    BY <1>1, <2>1 DEF Next, Service, vars, Assign, DeleteClient, BeginDelete, LockRow, EndDelete, InsertRow,
      EndInsert, Answer, DeadlockVictim, Abort, Error
<1>2. QED
  BY <1>1, Invariance, PTL DEF Spec, AssignmentsAreAtomic
=============================================================================

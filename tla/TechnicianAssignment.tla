------------------------ MODULE TechnicianAssignment ------------------------
(***************************************************************************)
(* The technicians of one client: concurrent POST /clients/{id}/technicians *)
(* and DELETE /clients/{id} requests.  set_assigned_technicians deletes    *)
(* the rows of client_technicians and inserts the new list in one          *)
(* transaction at READ COMMITTED, so what counts is which rows the DELETE  *)
(* of a request sees, which of them other sessions hold, and in what order *)
(* rows are locked.                                                        *)
(*                                                                         *)
(* A row is named by its user and the request that inserted it, which is   *)
(* its identity as a tuple of PostgreSQL.                                  *)
(***************************************************************************)
EXTENDS Integers, FiniteSets, Relation

CONSTANTS
  Requests,      \* assignments and deletions of the client
  Users,         \* ids a list may hold
  ActiveUsers,   \* those of existing, active users
  Initial,       \* users that may be assigned at the start
  Before         \* the earlier request that assigned them

ASSUME TechnicianAssumption ==
  /\ ActiveUsers \subseteq Users
  /\ Initial \subseteq ActiveUsers
  /\ Before \notin Requests

Rows == [user : Users, by : Requests \cup {Before}]

VARIABLES
  exists,    \* the client's row is there
  rows,      \* the committed rows of client_technicians
  pc,
  list,      \* per request, the technician_ids (as a set)
  repeated,  \* per request, whether an id occurs twice in them
  snap,      \* per request, rows its DELETE saw and has still to lock
  marked,    \* per request, rows it deleted, not committed
  inserted,  \* per request, users it inserted, not committed
  last       \* history: the list of the last commit

work == <<snap, marked, inserted>>
vars == <<exists, rows, pc, list, repeated, work, last>>

UsersOf(R) == {row.user : row \in R}

Init ==
  /\ exists = TRUE
  /\ last \in SUBSET Initial
  /\ rows = [user : last, by : {Before}]
  /\ pc = [r \in Requests |-> "new"]
  /\ list = [r \in Requests |-> {}]
  /\ repeated = [r \in Requests |-> FALSE]
  /\ snap = [r \in Requests |-> {}]
  /\ marked = [r \in Requests |-> {}]
  /\ inserted = [r \in Requests |-> {}]

GoTo(r, p) == pc' = [pc EXCEPT ![r] = p]

\* The session ends: what it had locked is free.
Release(r) ==
  /\ snap' = [snap EXCEPT ![r] = {}]
  /\ marked' = [marked EXCEPT ![r] = {}]
  /\ inserted' = [inserted EXCEPT ![r] = {}]

\* Mutant of Error: the failed session stays open.
ErrorKeepsSession(r) == GoTo(r, "error") /\ UNCHANGED <<exists, rows, work, last>>

Error(r) == GoTo(r, "error") /\ Release(r) /\ UNCHANGED <<exists, rows, last>>
-----------------------------------------------------------------------------
\* get_by_id_or_fail and validate_active_users, which compares sets.
Assign(r) ==
  \E technicians \in SUBSET Users, twice \in BOOLEAN :
    /\ pc[r] = "new"
    /\ twice => technicians # {}
    /\ IF exists /\ technicians \subseteq ActiveUsers
       THEN /\ GoTo(r, "validated")
            /\ list' = [list EXCEPT ![r] = technicians]
            /\ repeated' = [repeated EXCEPT ![r] = twice]
            /\ UNCHANGED <<exists, rows, work, last>>
       ELSE Error(r) /\ UNCHANGED <<list, repeated>>

\* DELETE takes its snapshot: rows committed later are not seen by it.
BeginDelete(r) ==
  /\ pc[r] = "validated"
  /\ snap' = [snap EXCEPT ![r] = rows]
  /\ GoTo(r, "deleting")
  /\ UNCHANGED <<exists, rows, list, repeated, marked, inserted, last>>

HeldRow(r, row) == \E q \in Requests \ {r} : row \in marked[q]

\* A row that another session has deleted must first be decided; it is
\* skipped if it is gone then.
LockRow(r) ==
  \E row \in snap[r] :
    /\ pc[r] = "deleting"
    /\ ~HeldRow(r, row)
    /\ snap' = [snap EXCEPT ![r] = @ \ {row}]
    /\ marked' = [marked EXCEPT ![r] = @ \cup (rows \cap {row})]
    /\ UNCHANGED <<exists, rows, pc, list, repeated, inserted, last>>

\* Mutant of EndDelete: each of the two statements is a transaction.
EndDeleteCommits(r) ==
  /\ pc[r] = "deleting" /\ snap[r] = {}
  /\ rows' = rows \ marked[r]
  /\ marked' = [marked EXCEPT ![r] = {}]
  /\ GoTo(r, IF list[r] = {} THEN "committing" ELSE "inserting")
  /\ UNCHANGED <<exists, list, repeated, snap, inserted, last>>

\* An empty list needs no INSERT.
EndDelete(r) ==
  /\ pc[r] = "deleting" /\ snap[r] = {}
  /\ GoTo(r, IF list[r] = {} THEN "committing" ELSE "inserting")
  /\ UNCHANGED <<exists, rows, list, repeated, work, last>>

HeldUser(r, u) ==
  \E q \in Requests \ {r} : u \in inserted[q] \cup UsersOf(marked[q])

\* Mutant of Missing: only the technicians that are not assigned yet.
MissingFromTable(r) == (list[r] \ UsersOf(rows)) \ inserted[r]

\* The ids of the list still to insert.
Missing(r) == list[r] \ inserted[r]

\* Mutant of InsertRow: the table has no primary key.
InsertRowAnyway(r) ==
  \E u \in Missing(r) :
    /\ pc[r] = "inserting"
    /\ inserted' = [inserted EXCEPT ![r] = @ \cup {u}]
    /\ UNCHANGED <<exists, rows, pc, list, repeated, snap, marked, last>>

\* The primary key is checked row by row: wait for the session that holds
\* the key, fail if it is there, and the client must exist.
InsertRow(r) ==
  \E u \in Missing(r) :
    /\ pc[r] = "inserting"
    /\ ~HeldUser(r, u)
    /\ IF exists /\ u \notin UsersOf(rows \ marked[r])
       THEN /\ inserted' = [inserted EXCEPT ![r] = @ \cup {u}]
            /\ UNCHANGED <<exists, rows, pc, snap, marked, last>>
       ELSE Error(r)
    /\ UNCHANGED <<list, repeated>>

\* An id that occurs twice in the list meets its own first row.
EndInsert(r) ==
  /\ pc[r] = "inserting" /\ Missing(r) = {}
  /\ IF repeated[r]
     THEN Error(r)
     ELSE GoTo(r, "committing") /\ UNCHANGED <<exists, rows, work, last>>
  /\ UNCHANGED <<list, repeated>>

Commit(r) ==
  /\ pc[r] = "committing"
  /\ rows' = (rows \ marked[r]) \cup [user : inserted[r], by : {r}]
  /\ last' = list[r]
  /\ Release(r)
  /\ GoTo(r, "committed")
  /\ UNCHANGED <<exists, list, repeated>>

\* The client is read again and the event is published.
Answer(r) ==
  /\ pc[r] = "committed"
  /\ IF exists THEN GoTo(r, "ok") /\ UNCHANGED <<exists, rows, work, last>> ELSE Error(r)
  /\ UNCHANGED <<list, repeated>>

\* delete_client, on its client and, by cascade, its technicians, once no
\* session holds a lock on either.  A deletion that fails (the client has
\* VDOMs, see Inventory, or is gone) leaves no trace and is left out.
DeleteClient(r) ==
  /\ pc[r] = "new" /\ exists
  /\ \A q \in Requests : marked[q] = {} /\ inserted[q] = {}
  /\ exists' = FALSE
  /\ rows' = {}
  /\ last' = {}
  /\ GoTo(r, "ok")
  /\ UNCHANGED <<list, repeated, work>>

\* Who waits for whom, and PostgreSQL's deadlock detector.
WaitsFor(r, q) ==
  \/ /\ pc[r] = "deleting" /\ snap[r] # {}
     /\ \A row \in snap[r] : HeldRow(r, row)
     /\ q # r /\ snap[r] \cap marked[q] # {}
  \/ /\ pc[r] = "inserting" /\ Missing(r) # {}
     /\ \A u \in Missing(r) : HeldUser(r, u)
     /\ q # r /\ Missing(r) \cap (inserted[q] \cup UsersOf(marked[q])) # {}

Deadlocked(r) ==
  TransitiveClosure([p, q \in Requests |-> WaitsFor(p, q)], Requests)[r, r]

\* Mutant of DeadlockVictim: the error is caught and the statement repeated in
\* the same transaction.
DeadlockVictimRetries(r) == Deadlocked(r) /\ UNCHANGED vars

DeadlockVictim(r) ==
  /\ Deadlocked(r)
  /\ Error(r)
  /\ UNCHANGED <<list, repeated>>

\* A crash, a lost connection, Redis down at publication.
Abort(r) ==
  /\ pc[r] \notin {"new", "ok", "error"}
  /\ Error(r)
  /\ UNCHANGED <<list, repeated>>
-----------------------------------------------------------------------------
Service(r) ==
  \/ BeginDelete(r) \/ LockRow(r) \/ EndDelete(r)
  \/ InsertRow(r) \/ EndInsert(r) \/ Commit(r) \/ Answer(r)
  \/ DeadlockVictim(r)

Next == \E r \in Requests : Assign(r) \/ DeleteClient(r) \/ Service(r) \/ Abort(r)

Spec == Init /\ [][Next]_vars
FairSpec == Spec /\ \A r \in Requests : WF_vars(Service(r))
-----------------------------------------------------------------------------
Steps == {"new", "validated", "deleting", "inserting", "committing", "committed", "ok", "error"}

\* Types; only a request inside its transaction holds rows.
TypeOK ==
  /\ exists \in BOOLEAN
  /\ rows \subseteq Rows
  /\ pc \in [Requests -> Steps]
  /\ list \in [Requests -> SUBSET Users]
  /\ repeated \in [Requests -> BOOLEAN]
  /\ snap \in [Requests -> SUBSET Rows]
  /\ marked \in [Requests -> SUBSET Rows]
  /\ inserted \in [Requests -> SUBSET Users]
  /\ last \in SUBSET Users
  /\ \A r \in Requests :
       marked[r] # {} \/ inserted[r] # {} => pc[r] \in {"deleting", "inserting", "committing"}

\* client_technicians never holds a user twice, although requests insert the
\* same users concurrently (clients/models.py:16-31).
OneRowPerTechnician == \A a, b \in rows : a.user = b.user => a = b

\* Whatever other requests did, all technicians of the list committed last
\* are assigned: a DELETE never takes rows committed after its snapshot.
LastListIncluded == last \subseteq UsersOf(rows)

\* The table changes in one step with the commit of a request or the deletion
\* of the client: no session sees, and no crash leaves, a client whose
\* technicians were removed and the new ones not inserted
\* (clients/repository.py:86-97).
AssignmentsAreAtomic ==
  [][rows' # rows => \/ ~exists'
                     \/ \E r \in Requests : /\ pc[r] = "committing" /\ pc'[r] = "committed"
                                            /\ list[r] \subseteq UsersOf(rows')]_vars

\* Every assignment is answered: a lock is released in the end, and a
\* deadlock between two lists in opposite order is broken.
AssignmentsAnswered == \A r \in Requests : pc[r] = "validated" ~> pc[r] \in {"ok", "error"}
=============================================================================

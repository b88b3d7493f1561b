---------------------------- MODULE EventPipeline ----------------------------
(***************************************************************************)
(* The path of a domain event: a service publishes it on a Redis stream    *)
(* (RedisStreamPublisher), the background consumer of each application     *)
(* process reads it through the consumer group (RedisStreamConsumer), the  *)
(* EventRouter runs the handlers in one database session, the transaction  *)
(* is committed and the entry acknowledged.                                *)
(*                                                                         *)
(* Every call that may fail, be retried or be cut by a crash is a step of  *)
(* its own.  A fault costs one unit of MaxFaults, so a behaviour has       *)
(* finitely many of them.                                                  *)
(***************************************************************************)
EXTENDS Integers, Sequences, FiniteSets

CONSTANTS
  Events,      \* the events (event_id) the services publish
  StreamOf,    \* the stream each of them goes to
  TypeOf,      \* its event_type, as far as the router's table tells apart
  UserOf,      \* payload.user_id
  Users,
  KnownUsers,  \* rows of the users table, which no handler changes
  Rejected,    \* events whose activity_logs row PostgreSQL refuses
  Workers,     \* application processes, all in one consumer group
  BatchSize,   \* XREADGROUP count (10 in the code)
  MaxLen,      \* XADD maxlen (100000 in the code)
  MaxFaults    \* bound on the faults of one behaviour

Streams == {"auth", "audit", "system"}

\* The order in which the consumer asks for the streams, hence in which
\* XREADGROUP returns them.
StreamRank == [auth |-> 1, audit |-> 2, system |-> 3]

EventTypes == {"activity_only", "user.created_by_admin", "auth.user_registered"}

ASSUME ConstantsAssumption ==
  /\ StreamOf \in [Events -> Streams]
  /\ TypeOf \in [Events -> EventTypes]
  /\ UserOf \in [Events -> Users]
  /\ KnownUsers \subseteq Users
  /\ Rejected \subseteq Events
  /\ BatchSize \in Nat \ {0}
  /\ MaxLen \in Nat \ {0}
  /\ MaxFaults \in Nat

VARIABLES
  stream,     \* per stream, every entry ever added (also the trimmed ones)
  trimmed,    \* per stream, how many of the oldest entries XADD removed
  delivered,  \* per stream, the group's last-delivered entry
  pending,    \* the group's pending entries list (read, not acknowledged)
  publish,    \* per event, how far publish() got
  pc,         \* per worker, the next step of RedisStreamConsumer
  batch,      \* per worker, the entries of the last read still to process
  rows,       \* activity_logs: the entries, in the order of their commits
  creds,      \* users with a row in auth_credentials written by a handler
  faults      \* faults so far

redisVars == <<stream, trimmed, delivered, pending>>
dbVars == <<rows, creds>>
vars == <<redisVars, publish, pc, batch, dbVars, faults>>

\* An entry is named by its stream and its position in it (its entry id).
Ids == Streams \X (Nat \ {0})

\* The entries added so far, and the event one carries.
Entries == UNION {{s} \X (1 .. Len(stream[s])) : s \in Streams}
EventAt(id) == stream[id[1]][id[2]]

Logged == {rows[i] : i \in DOMAIN rows}

\* Processing order of two entries of one response.
Before(a, b) ==
  \/ StreamRank[a[1]] < StreamRank[b[1]]
  \/ a[1] = b[1] /\ a[2] < b[2]

\* Mutant of At: the newest entry of the batch first.
AtNewest(w, id) == id \in batch[w] /\ \A other \in batch[w] \ {id} : Before(other, id)

\* id is the entry worker w is at: the first of its batch.
At(w, id) == id \in batch[w] /\ \A other \in batch[w] \ {id} : Before(id, other)

Fault == faults < MaxFaults /\ faults' = faults + 1
NoFault == UNCHANGED faults

Init ==
  /\ stream = [s \in Streams |-> <<>>]
  /\ trimmed = [s \in Streams |-> 0]
  /\ delivered = [s \in Streams |-> 0]
  /\ pending = {}
  /\ publish = [e \in Events |-> "unsent"]
  /\ pc = [w \in Workers |-> "down"]
  /\ batch = [w \in Workers |-> {}]
  /\ rows = <<>>
  /\ creds = {}
  /\ faults = 0
-----------------------------------------------------------------------------
(* Publishing.                                                             *)

\* XADD executed by Redis: append, then trim approximately, i.e. possibly
\* less than down to MaxLen but never below it.
XAdd(e) ==
  LET s == StreamOf[e] IN
  /\ stream' = [stream EXCEPT ![s] = Append(@, e)]
  /\ \E t \in {trimmed[s]} \cup trimmed[s] .. (Len(stream[s]) + 1 - MaxLen) :
       trimmed' = [trimmed EXCEPT ![s] = t]
  /\ UNCHANGED <<delivered, pending>>

\* XADD answers: publish() returns the entry id.
Publish(e) ==
  /\ publish[e] \in {"unsent", "timed_out"}
  /\ XAdd(e)
  /\ publish' = [publish EXCEPT ![e] = "accepted"]
  /\ NoFault
  /\ UNCHANGED <<pc, batch, dbVars>>

\* XADD fails, executed or not.  The pool retries a time-out once
\* (retry_on_timeout); any other error, and a second time-out, is raised.
PublishFault(e) ==
  /\ \/ publish[e] = "unsent" /\ \E r \in {"timed_out", "refused"} :
          publish' = [publish EXCEPT ![e] = r]
     \/ publish[e] = "timed_out" /\ publish' = [publish EXCEPT ![e] = "refused"]
  /\ XAdd(e) \/ UNCHANGED redisVars
  /\ Fault
  /\ UNCHANGED <<pc, batch, dbVars>>
-----------------------------------------------------------------------------
(* Life of the consumer task.                                              *)

\* Mutant of Boot: the entries left pending by an earlier life are read again.
BootReplaysPending(w) ==
  LET mine == pending \ UNION {batch[v] : v \in Workers} IN
  /\ pc[w] = "down"
  /\ batch' = [batch EXCEPT ![w] = mine]
  /\ pc' = [pc EXCEPT ![w] = IF mine = {} THEN "idle" ELSE "deliver"]
  /\ NoFault
  /\ UNCHANGED <<redisVars, publish, dbVars>>

\* start(): the groups exist (created at id 0, or BUSYGROUP) and the loop
\* begins.  Nothing is read back from the pending list.
Boot(w) ==
  /\ pc[w] = "down"
  /\ pc' = [pc EXCEPT ![w] = "idle"]
  /\ NoFault
  /\ UNCHANGED <<redisVars, publish, batch, dbVars>>

\* Redis is unreachable in _ensure_consumer_groups: the ConnectionError ends
\* the task.  The HTTP application keeps running and nobody restarts the task.
BootFault(w) ==
  /\ pc[w] = "down"
  /\ pc' = [pc EXCEPT ![w] = "dead"]
  /\ Fault
  /\ UNCHANGED <<redisVars, publish, batch, dbVars>>

\* The process crashes or shuts down (stop() and cancel()): the open session
\* rolls back and the entries in hand are forgotten.
Stop(w) ==
  /\ pc[w] # "down"
  /\ pc' = [pc EXCEPT ![w] = "down"]
  /\ batch' = [batch EXCEPT ![w] = {}]
  /\ Fault
  /\ UNCHANGED <<redisVars, publish, dbVars>>
-----------------------------------------------------------------------------
(* Reading.                                                                *)

MaxOf(a, b) == IF a >= b THEN a ELSE b
MinOf(a, b) == IF a <= b THEN a ELSE b

\* XREADGROUP starts after the last delivered entry, skipping trimmed ones,
\* and returns at most BatchSize entries of each stream.
ReadFrom(s) == MaxOf(delivered[s], trimmed[s])
ReadTo(s) == MinOf(ReadFrom(s) + BatchSize, Len(stream[s]))

\* Mutant of New: the first new entry is skipped.
NewOffByOne(s) ==
  {id \in Entries : id[1] = s /\ ReadFrom(s) + 1 < id[2] /\ id[2] <= ReadTo(s)}

New(s) == {id \in Entries : id[1] = s /\ ReadFrom(s) < id[2] /\ id[2] <= ReadTo(s)}
NewEntries == UNION {New(s) : s \in Streams}

\* Mutants of XReadGroup: a read that does not move the group's position, and
\* a read with NOACK.
XReadShared ==
  /\ NewEntries # {}
  /\ pending' = pending \cup NewEntries
  /\ UNCHANGED <<stream, trimmed, delivered>>

XReadNoAck ==
  /\ NewEntries # {}
  /\ delivered' = [s \in Streams |-> IF New(s) = {} THEN delivered[s] ELSE ReadTo(s)]
  /\ UNCHANGED <<stream, trimmed, pending>>

XReadGroup ==
  /\ NewEntries # {}
  /\ delivered' = [s \in Streams |-> IF New(s) = {} THEN delivered[s] ELSE ReadTo(s)]
  /\ pending' = pending \cup NewEntries
  /\ UNCHANGED <<stream, trimmed>>

Read(w) ==
  /\ pc[w] = "idle"
  /\ XReadGroup
  /\ batch' = [batch EXCEPT ![w] = NewEntries]
  /\ pc' = [pc EXCEPT ![w] = "deliver"]
  /\ NoFault
  /\ UNCHANGED <<publish, dbVars>>

\* The answer is lost after Redis executed the command: the retry, or the
\* next turn of the loop, asks for entries after these.
ReadFault(w) ==
  /\ pc[w] = "idle"
  /\ XReadGroup
  /\ Fault
  /\ UNCHANGED <<publish, pc, batch, dbVars>>
-----------------------------------------------------------------------------
(* Processing one entry: _process_message, dispatch and the handlers.      *)

\* Worker w is done with entry id and turns to the next of its batch, or to
\* the next read.
Advance(w, id) ==
  /\ batch' = [batch EXCEPT ![w] = @ \ {id}]
  /\ pc' = [pc EXCEPT ![w] = IF batch[w] = {id} THEN "idle" ELSE "deliver"]

\* Mutants of Fail: the entry is acknowledged although its handler failed
\* (XACK in a finally), or it is tried again before the ones behind it.
FailAcks(w, id) ==
  Advance(w, id) /\ pending' = pending \ {id} /\ UNCHANGED <<stream, trimmed, delivered, dbVars>>

FailRetries(w, id) ==
  pc' = [pc EXCEPT ![w] = "deliver"] /\ UNCHANGED <<redisVars, batch, dbVars>>

\* A handler raised: dispatch re-raises, the session rolls back, the error
\* is logged, the entry is not acknowledged.
Fail(w, id) == Advance(w, id) /\ UNCHANGED <<redisVars, dbVars>>

\* The session stays open and the worker goes on to p.
GoOn(w, p) == pc' = [pc EXCEPT ![w] = p] /\ UNCHANGED <<redisVars, batch, dbVars>>

\* handle_activity_event, the handler of "*", runs first: it inserts the row
\* (flush, no commit).
RecordActivity(w) ==
  \E id \in Entries :
    /\ pc[w] = "deliver" /\ At(w, id)
    /\ IF EventAt(id) \in Rejected
       THEN Fail(w, id)
       ELSE GoOn(w, "flushed")
    /\ NoFault
    /\ UNCHANGED publish

\* handle_user_created_by_admin_event up to its insert: an existing credential
\* makes it return.
HandleUserCreatedByAdmin(w, e) ==
  IF UserOf[e] \in creds THEN GoOn(w, "handled") ELSE GoOn(w, "insert")

\* handle_user_registered_event: an existing profile is not an error; creating
\* one always raises, because create_profile hands the repository an ORM
\* object, which has neither model_dump nor dict.
HandleUserRegistered(w, id) ==
  IF UserOf[EventAt(id)] \in KnownUsers THEN GoOn(w, "handled") ELSE Fail(w, id)

\* dispatch, after the handlers of "*": the handler of the event's own type.
RunSpecificHandler(w) ==
  \E id \in Entries :
    LET e == EventAt(id) IN
    /\ pc[w] = "flushed" /\ At(w, id)
    /\ \/ TypeOf[e] = "activity_only" /\ GoOn(w, "handled")
       \/ TypeOf[e] = "user.created_by_admin" /\ HandleUserCreatedByAdmin(w, e)
       \/ TypeOf[e] = "auth.user_registered" /\ HandleUserRegistered(w, id)
    /\ NoFault
    /\ UNCHANGED publish

\* Mutant of InsertCredential: the specific handler commits before the row of
\* the activity log is there.
InsertCredentialFirst(w) ==
  \E id \in Entries :
    LET u == UserOf[EventAt(id)] IN
    /\ pc[w] = "insert" /\ At(w, id)
    /\ IF u \in KnownUsers \ creds
       THEN /\ creds' = creds \cup {u}
            /\ pc' = [pc EXCEPT ![w] = "handled"]
            /\ UNCHANGED <<redisVars, batch, rows>>
       ELSE Fail(w, id)
    /\ NoFault
    /\ UNCHANGED publish

\* The auth handler inserts the credential and commits the session, the
\* activity row with it.  The credential's key is the user's: it must exist
\* in users and be unique among the credentials.
InsertCredential(w) ==
  \E id \in Entries :
    LET u == UserOf[EventAt(id)] IN
    /\ pc[w] = "insert" /\ At(w, id)
    /\ IF u \in KnownUsers \ creds
       THEN /\ creds' = creds \cup {u}
            /\ rows' = Append(rows, id)
            /\ pc' = [pc EXCEPT ![w] = "committed"]
            /\ UNCHANGED <<redisVars, batch>>
       ELSE Fail(w, id)
    /\ NoFault
    /\ UNCHANGED publish

\* The consumer commits the session.
Commit(w) ==
  \E id \in Entries :
    /\ pc[w] = "handled" /\ At(w, id)
    /\ rows' = Append(rows, id)
    /\ pc' = [pc EXCEPT ![w] = "committed"]
    /\ NoFault
    /\ UNCHANGED <<redisVars, publish, batch, creds>>

\* XACK.
Ack(w) ==
  \E id \in Entries :
    /\ pc[w] = "committed" /\ At(w, id)
    /\ pending' = pending \ {id}
    /\ Advance(w, id)
    /\ NoFault
    /\ UNCHANGED <<stream, trimmed, delivered, publish, dbVars>>

\* The database fails under any of the steps above: rolled back, not
\* acknowledged, next entry.
DatabaseFault(w) ==
  \E id \in Entries :
    /\ pc[w] \in {"deliver", "flushed", "insert", "handled"} /\ At(w, id)
    /\ Fail(w, id)
    /\ Fault
    /\ UNCHANGED publish

\* Mutant of CommitAnswerLost: a commit that raised is tried again.
CommitAnswerLostRetries(w) ==
  \E id \in Entries :
    /\ pc[w] = "handled" /\ At(w, id)
    /\ rows' = Append(rows, id)
    /\ pc' = [pc EXCEPT ![w] = "deliver"]
    /\ Fault
    /\ UNCHANGED <<redisVars, publish, batch, creds>>

\* The commit took place but its answer was lost: the code takes the same
\* path as for a failed commit.
CommitAnswerLost(w) ==
  \E id \in Entries :
    LET u == UserOf[EventAt(id)] IN
    /\ At(w, id)
    /\ \/ pc[w] = "handled" /\ UNCHANGED creds
       \/ pc[w] = "insert" /\ u \in KnownUsers \ creds /\ creds' = creds \cup {u}
    /\ rows' = Append(rows, id)
    /\ Advance(w, id)
    /\ Fault
    /\ UNCHANGED <<redisVars, publish>>

\* Mutant of AckFault: the entry is dispatched again.
AckFaultRetries(w) ==
  /\ pc[w] = "committed"
  /\ pc' = [pc EXCEPT ![w] = "deliver"]
  /\ Fault
  /\ UNCHANGED <<redisVars, publish, batch, dbVars>>

\* XACK fails, executed or not: logged, next entry.
AckFault(w) ==
  \E id \in Entries :
    /\ pc[w] = "committed" /\ At(w, id)
    /\ pending' \in {pending, pending \ {id}}
    /\ Advance(w, id)
    /\ Fault
    /\ UNCHANGED <<stream, trimmed, delivered, publish, dbVars>>
-----------------------------------------------------------------------------
Publisher == \E e \in Events : Publish(e) \/ PublishFault(e)

\* The steps worker w takes when nothing goes wrong.
Progress(w) ==
  \/ Boot(w)
  \/ Read(w)
  \/ RecordActivity(w)
  \/ RunSpecificHandler(w)
  \/ InsertCredential(w)
  \/ Commit(w)
  \/ Ack(w)

WorkerFault(w) ==
  \/ BootFault(w)
  \/ Stop(w)
  \/ ReadFault(w)
  \/ DatabaseFault(w)
  \/ CommitAnswerLost(w)
  \/ AckFault(w)

Next == Publisher \/ \E w \in Workers : Progress(w) \/ WorkerFault(w)

Spec == Init /\ [][Next]_vars

\* The container runtime restarts a process that ended (restart: always) and
\* the consumer's loop does not stop by itself.
FairSpec == Spec /\ \A w \in Workers : WF_vars(Progress(w))
-----------------------------------------------------------------------------
(* What the pipeline guarantees.                                           *)

PublishStates == {"unsent", "timed_out", "accepted", "refused"}
WorkerStates == {"down", "dead", "idle", "deliver", "flushed", "insert", "handled", "committed"}

\* The variables keep their types; a worker has entries in hand exactly while
\* it processes a batch (consumer loop, redis_consumer.py:61-92).
TypeOK ==
  /\ stream \in [Streams -> Seq(Events)]
  /\ trimmed \in [Streams -> Nat]
  /\ delivered \in [Streams -> Nat]
  /\ pending \in SUBSET Ids
  /\ publish \in [Events -> PublishStates]
  /\ pc \in [Workers -> WorkerStates]
  /\ batch \in [Workers -> SUBSET Ids]
  /\ \A w \in Workers : batch[w] = {} <=> pc[w] \in {"down", "dead", "idle"}
  /\ rows \in Seq(Ids)
  /\ creds \in SUBSET Users
  /\ faults \in 0 .. MaxFaults

\* No entry of the bus is written to activity_logs twice, whatever crashes,
\* lost answers and restarts happen: nothing that was handed out is ever
\* handed out again (the consumer only reads ">").
AtMostOnce == \A i, j \in DOMAIN rows : rows[i] = rows[j] => i = j

\* Two application processes of the group never have the same entry in hand.
OneWorkerPerEntry ==
  \A v, w \in Workers : v # w => batch[v] \cap batch[w] = {}

\* An entry leaves the pending list only after its row was committed, also
\* when a handler, the commit or XACK fails (redis_consumer.py:117-123).
CommitBeforeAck == [][\A id \in pending \ pending' : id \in Logged]_vars

\* A credential that an event created can be traced to a row of that event in
\* activity_logs: the handler of "*" runs first, in the transaction the auth
\* handler commits (router.py:43-57, auth/handlers.py:44-52).
CredentialsTraced ==
  \A u \in creds : \E id \in Logged :
    TypeOf[EventAt(id)] = "user.created_by_admin" /\ UserOf[EventAt(id)] = u

Taken(id) == \E w \in Workers : id \in batch[w]

\* The fate of an entry of the bus, in the words of EventLog.
FateOf(id) ==
  CASE id \in Logged -> "logged"
    [] id \notin Logged /\ Taken(id) -> "taken"
    [] id \notin Logged /\ ~Taken(id) /\ id[2] > ReadFrom(id[1]) -> "waiting"
    [] OTHER -> "lost"

Lost(id) == FateOf(id) = "lost"

\* An entry lost after it was read can still be found in the pending list;
\* one lost before it was read was trimmed by XADD.
LossLeavesTrace ==
  \A id \in Entries : Lost(id) => id \in pending \/ id[2] <= trimmed[id[1]]

\* Events whose handlers raise whatever the circumstances.
Doomed(e) ==
  \/ e \in Rejected
  \/ TypeOf[e] # "activity_only" /\ UserOf[e] \notin KnownUsers

\* Without any fault, only entries whose handlers must raise are lost (or
\* were trimmed): neither the batching nor several workers lose one.
LossNeedsACause ==
  faults = 0 =>
    \A id \in Entries : Lost(id) => Doomed(EventAt(id)) \/ id[2] <= trimmed[id[1]]

\* With one worker the rows of one stream are committed in stream order.
RowsInStreamOrder ==
  \A i, j \in DOMAIN rows :
    i < j /\ rows[i][1] = rows[j][1] => rows[i][2] < rows[j][2]

\* Every entry that reaches the bus is written or lost in the end, unless the
\* consumer tasks of all processes died at boot: an entry whose handler
\* raises never holds up the ones behind it.
EveryEntrySettles ==
  \A s \in Streams, i \in 1 .. 2 * Cardinality(Events) :
    <<s, i>> \in Entries ~>
      FateOf(<<s, i>>) \in {"logged", "lost"} \/ \A w \in Workers : pc[w] = "dead"

\* The inductive invariant behind the guarantees above: the group's position
\* separates the entries that were handed out from those that were not; only
\* the former are in a batch or in the log, and of a batch only the entry a
\* worker has just committed is in the log.
HandedOut(id) == id \in Entries /\ id[2] <= delivered[id[1]]

IndInv ==
  /\ TypeOK
  /\ \A s \in Streams : trimmed[s] <= Len(stream[s]) /\ delivered[s] <= Len(stream[s])
  /\ \A w \in Workers : \A id \in batch[w] : HandedOut(id)
  /\ \A id \in Logged : HandedOut(id)
  /\ OneWorkerPerEntry
  /\ \A w \in Workers : \A id \in batch[w] :
       id \in Logged <=> pc[w] = "committed" /\ At(w, id)
  /\ AtMostOnce

\* The comment of activity_logs.event_id (activity/models.py:18-23) says that
\* the identifier serves "trazabilidad e idempotencia": one row per event.
OneRowPerEvent ==
  \A i, j \in DOMAIN rows : EventAt(rows[i]) = EventAt(rows[j]) => i = j

\* The pipeline implements the at-most-once log.
AtMostOnceLog == INSTANCE EventLog WITH fate <- [id \in Entries |-> FateOf(id)], log <- rows
ImplementsEventLog == AtMostOnceLog!Spec
=============================================================================

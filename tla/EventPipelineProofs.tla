------------------------- MODULE EventPipelineProofs -------------------------
(***************************************************************************)
(* Proofs about EventPipeline, for every set of events, workers and users, *)
(* every batch size, stream length and number of faults: the inductive     *)
(* invariant and what follows from it, then the refinement of EventLog.    *)
(***************************************************************************)
EXTENDS EventPipeline, TLAPS

\* The order of the streams.
LEMMA RankIsNat == \A s \in Streams : StreamRank[s] \in Nat
BY DEF Streams, StreamRank

\* The entries of streams f, as a subset of Ids.
LEMMA EntrySet ==
  ASSUME NEW f \in [Streams -> Seq(Events)]
  PROVE  UNION {{s} \X (1 .. Len(f[s])) : s \in Streams}
           = {id \in Ids : id[2] <= Len(f[id[1]])}
<1> DEFINE E == UNION {{s} \X (1 .. Len(f[s])) : s \in Streams}
<1>1. \A s \in Streams : Len(f[s]) \in Nat
  OBVIOUS
<1>2. E \subseteq {id \in Ids : id[2] <= Len(f[id[1]])}
  BY <1>1 DEF Ids
<1>3. {id \in Ids : id[2] <= Len(f[id[1]])} \subseteq E
  <2> SUFFICES ASSUME NEW id \in Ids, id[2] <= Len(f[id[1]])
               PROVE  id \in E
    OBVIOUS
  <2>1. id = <<id[1], id[2]>> /\ id[1] \in Streams /\ id[2] \in Nat \ {0}
    BY DEF Ids
  <2>2. id[2] \in 1 .. Len(f[id[1]])
    BY <1>1, <2>1
  <2>3. id \in {id[1]} \X (1 .. Len(f[id[1]]))
    BY <2>1, <2>2
  <2> QED BY <2>1, <2>3
<1> QED BY <1>2, <1>3

\* The entries of the streams are those of EntryIds.
LEMMA EntriesAreIds ==
  /\ TypeOK => Entries = {id \in Ids : id[2] <= Len(stream[id[1]])}
  /\ TypeOK' => Entries' = {id \in Ids : id[2] <= Len(stream'[id[1]])}
<1>1. TypeOK => stream \in [Streams -> Seq(Events)]
  BY DEF TypeOK
<1>2. TypeOK' => stream' \in [Streams -> Seq(Events)]
  BY DEF TypeOK
<1> QED BY <1>1, <1>2, EntrySet DEF Entries

\* A process works on one entry at a time.
LEMMA AtIsUnique ==
  ASSUME TypeOK, NEW w \in Workers, NEW a, NEW b, At(w, a), At(w, b)
  PROVE  a = b
<1> SUFFICES ASSUME a # b PROVE FALSE OBVIOUS
<1>1. a \in Ids /\ b \in Ids
  BY DEF TypeOK, At
<1>2. Before(a, b) /\ Before(b, a)
  BY DEF At
<1>3. /\ a[1] \in Streams /\ b[1] \in Streams
      /\ a[2] \in Nat /\ b[2] \in Nat
  BY <1>1 DEF Ids
<1>4. StreamRank[a[1]] \in Nat /\ StreamRank[b[1]] \in Nat
  BY <1>3, RankIsNat
<1> QED BY <1>2, <1>3, <1>4 DEF Before

-----------------------------------------------------------------------------
(* Type correctness.                                                       *)

\* What XADD does to the variables of Redis.
LEMMA XAddEffect ==
  ASSUME TypeOK, ConstantsAssumption, NEW e \in Events, XAdd(e)
  PROVE  /\ StreamOf[e] \in Streams
         /\ stream' = [stream EXCEPT ![StreamOf[e]] = Append(stream[StreamOf[e]], e)]
         /\ stream' \in [Streams -> Seq(Events)]
         /\ \A s \in Streams :
              /\ trimmed[s] <= trimmed'[s]
              /\ trimmed'[s] = trimmed[s] \/ trimmed'[s] <= Len(stream[s])
         /\ trimmed' \in [Streams -> Nat]
         /\ UNCHANGED <<delivered, pending>>
<1> DEFINE s == StreamOf[e]
<1>1. s \in Streams /\ stream[s] \in Seq(Events) /\ trimmed[s] \in Nat
  BY DEF ConstantsAssumption, TypeOK
<1>2. stream' = [stream EXCEPT ![s] = Append(stream[s], e)] /\ UNCHANGED <<delivered, pending>>
  BY DEF XAdd
<1>3. Append(stream[s], e) \in Seq(Events)
  BY <1>1
<1>4. stream' \in [Streams -> Seq(Events)]
  BY <1>2, <1>3 DEF TypeOK
<1>5. PICK t \in {trimmed[s]} \cup trimmed[s] .. (Len(stream[s]) + 1 - MaxLen) :
        trimmed' = [trimmed EXCEPT ![s] = t]
  BY DEF XAdd
<1>6. Len(stream[s]) \in Nat /\ MaxLen \in Nat \ {0}
  BY <1>1 DEF ConstantsAssumption
<1>7. t \in Nat /\ trimmed[s] <= t /\ (t = trimmed[s] \/ t <= Len(stream[s]))
  BY <1>1, <1>5, <1>6
<1>8. trimmed' \in [Streams -> Nat]
  BY <1>5, <1>7 DEF TypeOK
<1>9. \A r \in Streams :
        /\ trimmed[r] <= trimmed'[r]
        /\ trimmed'[r] = trimmed[r] \/ trimmed'[r] <= Len(stream[r])
  BY <1>1, <1>5, <1>7 DEF TypeOK
<1> QED BY <1>1, <1>2, <1>4, <1>8, <1>9

\* The interval a read takes of one stream.
LEMMA ReadRange ==
  ASSUME TypeOK, ConstantsAssumption, NEW s \in Streams
  PROVE  /\ ReadFrom(s) \in Nat /\ ReadTo(s) \in Nat
         /\ delivered[s] <= ReadFrom(s) /\ trimmed[s] <= ReadFrom(s)
         /\ ReadFrom(s) \in {delivered[s], trimmed[s]}
         /\ ReadTo(s) <= Len(stream[s])
         /\ Len(stream[s]) \in Nat
<1>1. delivered[s] \in Nat /\ trimmed[s] \in Nat /\ Len(stream[s]) \in Nat /\ BatchSize \in Nat
  BY DEF TypeOK, ConstantsAssumption
<1> QED BY <1>1 DEF ReadFrom, ReadTo, MaxOf, MinOf

\* The new entries are entries, of either stream after what was handed out.
LEMMA NewRange ==
  ASSUME TypeOK, ConstantsAssumption
  PROVE  /\ NewEntries \subseteq Entries
         /\ NewEntries \subseteq Ids
         /\ \A id \in NewEntries :
              /\ id[1] \in Streams /\ id \in New(id[1])
              /\ ReadFrom(id[1]) < id[2] /\ id[2] <= ReadTo(id[1])
<1>1. NewEntries \subseteq Entries
  BY DEF NewEntries, New
<1>2. NewEntries \subseteq Ids
  BY <1>1, EntriesAreIds
<1>3. ASSUME NEW id \in NewEntries
      PROVE  /\ id[1] \in Streams /\ id \in New(id[1])
             /\ ReadFrom(id[1]) < id[2] /\ id[2] <= ReadTo(id[1])
  <2>1. PICK s \in Streams : id \in New(s)
    BY DEF NewEntries
  <2>2. id[1] = s /\ ReadFrom(s) < id[2] /\ id[2] <= ReadTo(s)
    BY <2>1 DEF New
  <2> QED BY <2>1, <2>2
<1> QED BY <1>1, <1>2, <1>3

\* XREADGROUP moves the position and the pending entries within their types.
LEMMA XReadGroupType ==
  ASSUME TypeOK, ConstantsAssumption, XReadGroup
  PROVE  /\ UNCHANGED <<stream, trimmed>>
         /\ delivered' \in [Streams -> Nat]
         /\ pending' \in SUBSET Ids
         /\ NewEntries # {}
<1>1. \A s \in Streams : delivered[s] \in Nat /\ ReadTo(s) \in Nat
  BY ReadRange DEF TypeOK
<1>2. delivered' \in [Streams -> Nat]
  BY <1>1 DEF XReadGroup
<1>3. pending' \in SUBSET Ids
  BY NewRange DEF XReadGroup, TypeOK
<1> QED BY <1>2, <1>3 DEF XReadGroup

\* Turning to the next entry keeps the types of pc and batch.
LEMMA AdvanceType ==
  ASSUME TypeOK, NEW w \in Workers, NEW id, At(w, id), Advance(w, id)
  PROVE  /\ id \in Ids
         /\ batch' = [batch EXCEPT ![w] = batch[w] \ {id}]
         /\ batch' \in [Workers -> SUBSET Ids]
         /\ pc' \in [Workers -> WorkerStates]
         /\ pc'[w] \in {"idle", "deliver"}
         /\ \A v \in Workers \ {w} : pc'[v] = pc[v] /\ batch'[v] = batch[v]
         /\ \A v \in Workers : batch'[v] = {} <=> pc'[v] \in {"down", "dead", "idle"}
<1>1. id \in batch[w] /\ batch[w] \in SUBSET Ids
  BY DEF At, TypeOK
<1>2. batch' = [batch EXCEPT ![w] = batch[w] \ {id}]
  BY DEF Advance
<1>3. batch' \in [Workers -> SUBSET Ids]
  BY <1>1, <1>2 DEF TypeOK
<1>4. /\ pc' \in [Workers -> WorkerStates]
      /\ pc'[w] = IF batch[w] = {id} THEN "idle" ELSE "deliver"
  BY DEF Advance, TypeOK, WorkerStates
<1>5. \A v \in Workers \ {w} : pc'[v] = pc[v] /\ batch'[v] = batch[v]
  BY DEF Advance, TypeOK
<1>6. batch'[w] = batch[w] \ {id}
  BY <1>2 DEF TypeOK
<1>7. batch'[w] = {} <=> pc'[w] \in {"down", "dead", "idle"}
  BY <1>1, <1>4, <1>6
<1>8. \A v \in Workers : batch'[v] = {} <=> pc'[v] \in {"down", "dead", "idle"}
  BY <1>5, <1>7 DEF TypeOK
<1> QED BY <1>1, <1>2, <1>3, <1>4, <1>5, <1>8

\* Setting the program counter of one worker without touching its batch.
LEMMA PcType ==
  ASSUME TypeOK, NEW w \in Workers, NEW p \in WorkerStates,
         pc' = [pc EXCEPT ![w] = p], UNCHANGED batch,
         pc[w] \in {"down", "dead", "idle"} <=> p \in {"down", "dead", "idle"}
  PROVE  /\ pc' \in [Workers -> WorkerStates]
         /\ batch' \in [Workers -> SUBSET Ids]
         /\ \A v \in Workers : batch'[v] = {} <=> pc'[v] \in {"down", "dead", "idle"}
BY DEF TypeOK

\* A step that commits the entry worker w is at appends one row.
LEMMA RowsType ==
  ASSUME TypeOK, NEW w \in Workers, NEW id, At(w, id), rows' = Append(rows, id)
  PROVE  id \in Ids /\ rows' \in Seq(Ids)
BY DEF TypeOK, At

\* Counting a fault stays within the budget.
LEMMA FaultType ==
  ASSUME TypeOK, ConstantsAssumption, Fault \/ NoFault
  PROVE  faults' \in 0 .. MaxFaults
BY DEF TypeOK, ConstantsAssumption, Fault, NoFault

\* The types hold at the start.
LEMMA TypeOKInit == ConstantsAssumption /\ Init => TypeOK
BY DEF ConstantsAssumption, Init, TypeOK, PublishStates, WorkerStates

\* Publishing keeps the types.
LEMMA TypeOKPublisher ==
  ASSUME TypeOK, ConstantsAssumption, Publisher
  PROVE  TypeOK'
<1>1. PICK e \in Events : Publish(e) \/ PublishFault(e)
  BY DEF Publisher
<1>2. faults' \in 0 .. MaxFaults
  BY <1>1, FaultType DEF Publish, PublishFault
<1>3. publish' \in [Events -> PublishStates]
  BY <1>1 DEF Publish, PublishFault, TypeOK, PublishStates
<1>4. XAdd(e) \/ UNCHANGED redisVars
  BY <1>1 DEF Publish, PublishFault
<1>5. /\ stream' \in [Streams -> Seq(Events)]
      /\ trimmed' \in [Streams -> Nat]
      /\ UNCHANGED <<delivered, pending>>
  <2>1. CASE XAdd(e)
    BY <2>1, XAddEffect
  <2>2. CASE UNCHANGED redisVars
    BY <2>2 DEF redisVars, TypeOK
  <2> QED BY <1>4, <2>1, <2>2
<1>6. UNCHANGED <<pc, batch, rows, creds>>
  BY <1>1 DEF Publish, PublishFault, dbVars
<1> QED BY <1>2, <1>3, <1>5, <1>6 DEF TypeOK

\* Every step of a process keeps the types.
LEMMA TypeOKProgress ==
  ASSUME TypeOK, ConstantsAssumption, NEW w \in Workers, Progress(w)
  PROVE  TypeOK'
<1>1. faults' \in 0 .. MaxFaults
  <2>1. NoFault
    BY DEF Progress, Boot, Read, RecordActivity, RunSpecificHandler, InsertCredential, Commit, Ack
  <2> QED BY <2>1, FaultType
<1>2. CASE Boot(w)
  <2>1. pc' = [pc EXCEPT ![w] = "idle"] /\ pc[w] = "down" /\ UNCHANGED batch
    BY <1>2 DEF Boot
  <2>2. "idle" \in WorkerStates
    BY DEF WorkerStates
  <2>3. /\ pc' \in [Workers -> WorkerStates]
        /\ batch' \in [Workers -> SUBSET Ids]
        /\ \A v \in Workers : batch'[v] = {} <=> pc'[v] \in {"down", "dead", "idle"}
    BY <2>1, <2>2, PcType
  <2> QED BY <1>1, <1>2, <2>3 DEF Boot, TypeOK, redisVars, dbVars
<1>3. CASE Read(w)
  <2>1. XReadGroup /\ UNCHANGED <<publish, rows, creds>>
    BY <1>3 DEF Read, dbVars
  <2>2. /\ UNCHANGED <<stream, trimmed>>
        /\ delivered' \in [Streams -> Nat]
        /\ pending' \in SUBSET Ids
        /\ NewEntries # {}
    BY <2>1, XReadGroupType
  <2>3. /\ batch' = [batch EXCEPT ![w] = NewEntries]
        /\ pc' = [pc EXCEPT ![w] = "deliver"]
        /\ NewEntries \subseteq Ids
    BY <1>3, NewRange DEF Read
  <2>4. /\ pc' \in [Workers -> WorkerStates]
        /\ batch' \in [Workers -> SUBSET Ids]
        /\ \A v \in Workers : batch'[v] = {} <=> pc'[v] \in {"down", "dead", "idle"}
    BY <2>2, <2>3 DEF TypeOK, WorkerStates
  <2> QED BY <1>1, <2>1, <2>2, <2>4 DEF TypeOK
<1>4. CASE RecordActivity(w)
  <2>1. PICK id \in Entries :
          /\ pc[w] = "deliver" /\ At(w, id)
          /\ \/ Fail(w, id)
             \/ pc' = [pc EXCEPT ![w] = "flushed"] /\ UNCHANGED <<redisVars, batch, dbVars>>
          /\ UNCHANGED publish
    BY <1>4 DEF RecordActivity, GoOn
  <2>2. UNCHANGED <<redisVars, dbVars>>
    BY <2>1 DEF Fail
  <2>3. "flushed" \in WorkerStates
    BY DEF WorkerStates
  <2>4. /\ pc' \in [Workers -> WorkerStates]
        /\ batch' \in [Workers -> SUBSET Ids]
        /\ \A v \in Workers : batch'[v] = {} <=> pc'[v] \in {"down", "dead", "idle"}
    <3>1. CASE Fail(w, id)
      BY <2>1, <3>1, AdvanceType DEF Fail
    <3>2. CASE pc' = [pc EXCEPT ![w] = "flushed"] /\ UNCHANGED <<redisVars, batch, dbVars>>
      BY <2>1, <2>3, <3>2, PcType
    <3> QED BY <2>1, <3>1, <3>2
  <2> QED BY <1>1, <2>1, <2>2, <2>4 DEF TypeOK, redisVars, dbVars
<1>5. CASE RunSpecificHandler(w)
  <2>1. PICK id \in Entries :
          /\ pc[w] = "flushed" /\ At(w, id)
          /\ \/ Fail(w, id)
             \/ /\ \E p \in {"handled", "insert"} : pc' = [pc EXCEPT ![w] = p]
                /\ UNCHANGED <<redisVars, batch, dbVars>>
          /\ UNCHANGED publish
    BY <1>5 DEF RunSpecificHandler, HandleUserCreatedByAdmin, HandleUserRegistered, GoOn
  <2>2. UNCHANGED <<redisVars, dbVars>>
    BY <2>1 DEF Fail
  <2>3. {"handled", "insert"} \subseteq WorkerStates
    BY DEF WorkerStates
  <2>4. /\ pc' \in [Workers -> WorkerStates]
        /\ batch' \in [Workers -> SUBSET Ids]
        /\ \A v \in Workers : batch'[v] = {} <=> pc'[v] \in {"down", "dead", "idle"}
    <3>1. CASE Fail(w, id)
      BY <2>1, <3>1, AdvanceType DEF Fail
    <3>2. CASE ~Fail(w, id)
      <4>1. PICK p \in {"handled", "insert"} : pc' = [pc EXCEPT ![w] = p]
        BY <2>1, <3>2
      <4> QED BY <2>1, <2>3, <3>2, <4>1, PcType
    <3> QED BY <3>1, <3>2
  <2> QED BY <1>1, <2>1, <2>2, <2>4 DEF TypeOK, redisVars, dbVars
<1>6. CASE InsertCredential(w)
  <2>1. PICK id \in Entries :
          /\ pc[w] = "insert" /\ At(w, id)
          /\ \/ /\ UserOf[EventAt(id)] \in KnownUsers
                /\ creds' = creds \cup {UserOf[EventAt(id)]}
                /\ rows' = Append(rows, id)
                /\ pc' = [pc EXCEPT ![w] = "committed"]
                /\ UNCHANGED <<redisVars, batch>>
             \/ Fail(w, id)
          /\ UNCHANGED publish
    BY <1>6 DEF InsertCredential
  <2>2. CASE Fail(w, id)
    <3>1. UNCHANGED <<redisVars, dbVars>> /\ Advance(w, id)
      BY <2>2 DEF Fail
    <3> QED BY <1>1, <2>1, <3>1, AdvanceType DEF TypeOK, redisVars, dbVars
  <2>3. CASE ~Fail(w, id)
    <3>1. rows' \in Seq(Ids)
      BY <2>1, <2>3, RowsType
    <3>2. creds' \in SUBSET Users
      BY <2>1, <2>3 DEF TypeOK, ConstantsAssumption
    <3>3. "committed" \in WorkerStates
      BY DEF WorkerStates
    <3>4. /\ pc' \in [Workers -> WorkerStates]
          /\ batch' \in [Workers -> SUBSET Ids]
          /\ \A v \in Workers : batch'[v] = {} <=> pc'[v] \in {"down", "dead", "idle"}
      BY <2>1, <2>3, <3>3, PcType
    <3> QED BY <1>1, <2>1, <2>3, <3>1, <3>2, <3>4 DEF TypeOK, redisVars
  <2> QED BY <2>2, <2>3
<1>7. CASE Commit(w)
  <2>1. PICK id \in Entries :
          /\ pc[w] = "handled" /\ At(w, id)
          /\ rows' = Append(rows, id)
          /\ pc' = [pc EXCEPT ![w] = "committed"]
          /\ UNCHANGED <<redisVars, publish, batch, creds>>
    BY <1>7 DEF Commit
  <2>2. rows' \in Seq(Ids)
    BY <2>1, RowsType
  <2>3. "committed" \in WorkerStates
    BY DEF WorkerStates
  <2>4. /\ pc' \in [Workers -> WorkerStates]
        /\ batch' \in [Workers -> SUBSET Ids]
        /\ \A v \in Workers : batch'[v] = {} <=> pc'[v] \in {"down", "dead", "idle"}
    BY <2>1, <2>3, PcType
  <2> QED BY <1>1, <2>1, <2>2, <2>4 DEF TypeOK, redisVars
<1>8. CASE Ack(w)
  <2>1. PICK id \in Entries :
          /\ At(w, id)
          /\ pending' = pending \ {id}
          /\ Advance(w, id)
          /\ UNCHANGED <<stream, trimmed, delivered, publish, dbVars>>
    BY <1>8 DEF Ack
  <2> QED BY <1>1, <2>1, AdvanceType DEF TypeOK, dbVars
<1> QED BY <1>2, <1>3, <1>4, <1>5, <1>6, <1>7, <1>8 DEF Progress

\* Every fault of a process keeps the types.
LEMMA TypeOKWorkerFault ==
  ASSUME TypeOK, ConstantsAssumption, NEW w \in Workers, WorkerFault(w)
  PROVE  TypeOK'
<1>1. faults' \in 0 .. MaxFaults
  <2>1. Fault
    BY DEF WorkerFault, BootFault, Stop, ReadFault, DatabaseFault, CommitAnswerLost, AckFault
  <2> QED BY <2>1, FaultType
<1>2. CASE BootFault(w)
  <2>1. "dead" \in WorkerStates
    BY DEF WorkerStates
  <2>2. /\ pc' \in [Workers -> WorkerStates]
        /\ batch' \in [Workers -> SUBSET Ids]
        /\ \A v \in Workers : batch'[v] = {} <=> pc'[v] \in {"down", "dead", "idle"}
    BY <1>2, <2>1, PcType DEF BootFault
  <2> QED BY <1>1, <1>2, <2>2 DEF BootFault, TypeOK, redisVars, dbVars
<1>3. CASE Stop(w)
  <2>1. /\ pc' \in [Workers -> WorkerStates]
        /\ batch' \in [Workers -> SUBSET Ids]
        /\ \A v \in Workers : batch'[v] = {} <=> pc'[v] \in {"down", "dead", "idle"}
    BY <1>3 DEF Stop, TypeOK, WorkerStates
  <2> QED BY <1>1, <1>3, <2>1 DEF Stop, TypeOK, redisVars, dbVars
<1>4. CASE ReadFault(w)
  <2>1. XReadGroup /\ UNCHANGED <<publish, pc, batch, rows, creds>>
    BY <1>4 DEF ReadFault, dbVars
  <2> QED BY <1>1, <2>1, XReadGroupType DEF TypeOK
<1>5. CASE DatabaseFault(w)
  <2>1. PICK id \in Entries : At(w, id) /\ Fail(w, id) /\ UNCHANGED publish
    BY <1>5 DEF DatabaseFault
  <2>2. Advance(w, id) /\ UNCHANGED <<redisVars, dbVars>>
    BY <2>1 DEF Fail
  <2> QED BY <1>1, <2>1, <2>2, AdvanceType DEF TypeOK, redisVars, dbVars
<1>6. CASE CommitAnswerLost(w)
  <2>1. PICK id \in Entries :
          /\ At(w, id) /\ Advance(w, id)
          /\ \/ UNCHANGED creds
             \/ UserOf[EventAt(id)] \in KnownUsers /\ creds' = creds \cup {UserOf[EventAt(id)]}
          /\ rows' = Append(rows, id)
          /\ UNCHANGED <<redisVars, publish>>
    BY <1>6 DEF CommitAnswerLost
  <2>2. rows' \in Seq(Ids)
    BY <2>1, RowsType
  <2>3. creds' \in SUBSET Users
    BY <2>1 DEF TypeOK, ConstantsAssumption
  <2> QED BY <1>1, <2>1, <2>2, <2>3, AdvanceType DEF TypeOK, redisVars
<1>7. CASE AckFault(w)
  <2>1. PICK id \in Entries :
          /\ At(w, id)
          /\ pending' \in {pending, pending \ {id}}
          /\ Advance(w, id)
          /\ UNCHANGED <<stream, trimmed, delivered, publish, dbVars>>
    BY <1>7 DEF AckFault
  <2>2. pending' \in SUBSET Ids
    BY <2>1 DEF TypeOK
  <2> QED BY <1>1, <2>1, <2>2, AdvanceType DEF TypeOK, dbVars
<1> QED BY <1>2, <1>3, <1>4, <1>5, <1>6, <1>7 DEF WorkerFault

\* Every step keeps the types.
LEMMA TypeOKStep == ConstantsAssumption /\ TypeOK /\ [Next]_vars => TypeOK'
<1> SUFFICES ASSUME ConstantsAssumption, TypeOK, [Next]_vars PROVE TypeOK'
  OBVIOUS
<1>1. CASE Next
  BY <1>1, TypeOKPublisher, TypeOKProgress, TypeOKWorkerFault DEF Next
<1>2. CASE UNCHANGED vars
  BY <1>2 DEF vars, redisVars, dbVars, TypeOK
<1> QED BY <1>1, <1>2

\* Every variable keeps its type, and a worker holds entries exactly while it
\* processes a batch.
THEOREM TypeCorrect == Spec => []TypeOK
<1>1. Init => TypeOK
  BY TypeOKInit, ConstantsAssumption
<1>2. TypeOK /\ [Next]_vars => TypeOK'
  BY TypeOKStep, ConstantsAssumption
<1> QED BY <1>1, <1>2, PTL DEF Spec

-----------------------------------------------------------------------------
(* The inductive invariant.                                                *)

\* Appending an entry that is not in the log yet.
LEMMA LoggedAppend ==
  ASSUME TypeOK, NEW id \in Ids, rows' = Append(rows, id)
  PROVE  /\ Logged' = Logged \cup {id}
         /\ AtMostOnce /\ id \notin Logged => AtMostOnce'
<1>1. rows \in Seq(Ids) /\ Len(rows) \in Nat
  BY DEF TypeOK
<1>2. /\ DOMAIN rows' = 1 .. Len(rows) + 1
      /\ DOMAIN rows = 1 .. Len(rows)
      /\ \A i \in 1 .. Len(rows) : rows'[i] = rows[i]
      /\ rows'[Len(rows) + 1] = id
  BY <1>1
<1>3. Logged' = Logged \cup {id}
  <2>1. \A x \in Logged' : x \in Logged \cup {id}
    BY <1>1, <1>2 DEF Logged
  <2>2. \A x \in Logged : x \in Logged'
    BY <1>1, <1>2 DEF Logged
  <2>3. id \in Logged'
    BY <1>1, <1>2 DEF Logged
  <2> QED BY <2>1, <2>2, <2>3
<1>4. ASSUME AtMostOnce, id \notin Logged PROVE AtMostOnce'
  <2> SUFFICES ASSUME NEW i \in DOMAIN rows', NEW j \in DOMAIN rows', rows'[i] = rows'[j]
               PROVE  i = j
    BY DEF AtMostOnce
  <2>1. \A k \in 1 .. Len(rows) : rows'[k] # id
    BY <1>2, <1>4 DEF Logged
  <2>2. CASE i \in 1 .. Len(rows) /\ j \in 1 .. Len(rows)
    BY <1>2, <1>4, <2>2 DEF AtMostOnce
  <2>3. CASE i = Len(rows) + 1 \/ j = Len(rows) + 1
    BY <1>1, <1>2, <2>1, <2>3
  <2> QED BY <1>1, <1>2, <2>2, <2>3
<1> QED BY <1>3, <1>4

\* What was handed out stays so while the streams and the group's position
\* only grow.
LEMMA HandedOutGrows ==
  ASSUME TypeOK, TypeOK',
         \A s \in Streams : Len(stream[s]) <= Len(stream'[s]) /\ delivered[s] <= delivered'[s],
         NEW id, HandedOut(id)
  PROVE  HandedOut(id)'
<1>1. id \in Ids /\ id[2] <= Len(stream[id[1]]) /\ id[2] <= delivered[id[1]]
  BY EntriesAreIds DEF HandedOut
<1>2. id[1] \in Streams /\ id[2] \in Nat
  BY <1>1 DEF Ids
<1>3. /\ Len(stream[id[1]]) \in Nat /\ Len(stream'[id[1]]) \in Nat
      /\ delivered[id[1]] \in Nat /\ delivered'[id[1]] \in Nat
  <2>1. stream \in [Streams -> Seq(Events)] /\ delivered \in [Streams -> Nat]
    BY DEF TypeOK
  <2>2. stream' \in [Streams -> Seq(Events)] /\ delivered' \in [Streams -> Nat]
    BY DEF TypeOK
  <2>3. stream[id[1]] \in Seq(Events) /\ stream'[id[1]] \in Seq(Events)
    BY <1>2, <2>1, <2>2
  <2>4. Len(stream[id[1]]) \in Nat /\ Len(stream'[id[1]]) \in Nat
    BY <2>3
  <2> QED BY <1>2, <2>1, <2>2, <2>4
<1>4. id[2] <= Len(stream'[id[1]]) /\ id[2] <= delivered'[id[1]]
  BY <1>1, <1>2, <1>3
<1> QED BY <1>1, <1>4, EntriesAreIds DEF HandedOut

\* The position and the streams unchanged: so is what was handed out.
LEMMA HandedOutStays ==
  ASSUME UNCHANGED <<stream, delivered>>, NEW id
  PROVE  HandedOut(id)' <=> HandedOut(id)
BY DEF HandedOut, Entries

\* Of the batch of a worker that has not just committed nothing is logged; of
\* the others only the entry it is at.
LEMMA LoggedInHand ==
  ASSUME IndInv, NEW w \in Workers, NEW id, At(w, id)
  PROVE  /\ \A x \in batch[w] \ {id} : x \notin Logged
         /\ pc[w] # "committed" => id \notin Logged
<1>1. TypeOK /\ id \in batch[w]
  BY DEF IndInv, At
<1>2. \A x \in batch[w] : x \in Logged <=> pc[w] = "committed" /\ At(w, x)
  BY DEF IndInv
<1>3. \A x \in batch[w] : At(w, x) => x = id
  BY <1>1, AtIsUnique
<1> QED BY <1>1, <1>2, <1>3

\* A step of worker w that writes no row and moves no stream: what is left of
\* its batch is not in the log.
LEMMA QuietStep ==
  ASSUME IndInv, TypeOK', NEW w \in Workers,
         UNCHANGED <<stream, trimmed, delivered, rows>>,
         \A v \in Workers \ {w} : batch'[v] = batch[v] /\ pc'[v] = pc[v],
         batch'[w] \subseteq batch[w] \ Logged,
         pc'[w] # "committed"
  PROVE  IndInv'
<1>1. \A s \in Streams : trimmed'[s] <= Len(stream'[s]) /\ delivered'[s] <= Len(stream'[s])
  BY DEF IndInv
<1>2. Logged' = Logged /\ AtMostOnce'
  BY DEF Logged, AtMostOnce, IndInv
<1>3. \A v \in Workers : batch'[v] \subseteq batch[v]
  OBVIOUS
<1>4. \A v \in Workers : \A id \in batch'[v] : HandedOut(id)'
  BY <1>3, HandedOutStays DEF IndInv
<1>5. \A id \in Logged' : HandedOut(id)'
  BY <1>2, HandedOutStays DEF IndInv
<1>6. OneWorkerPerEntry'
  BY <1>3 DEF IndInv, OneWorkerPerEntry
<1>7. ASSUME NEW v \in Workers, NEW id \in batch'[v]
      PROVE  id \in Logged' <=> pc'[v] = "committed" /\ At(v, id)'
  <2>1. CASE v = w
    BY <1>2, <2>1
  <2>2. CASE v # w
    BY <1>2, <2>2 DEF IndInv, At
  <2> QED BY <2>1, <2>2
<1> QED BY <1>1, <1>2, <1>4, <1>5, <1>6, <1>7 DEF IndInv

\* A step in which worker w commits the row of the entry it is at, and then
\* either stands before XACK or (the answer was lost) turns to the next one.
LEMMA CommitStep ==
  ASSUME IndInv, TypeOK', NEW w \in Workers, NEW id, At(w, id), pc[w] # "committed",
         rows' = Append(rows, id),
         UNCHANGED <<stream, trimmed, delivered>>,
         \A v \in Workers \ {w} : batch'[v] = batch[v] /\ pc'[v] = pc[v],
         \/ batch'[w] = batch[w] /\ pc'[w] = "committed"
         \/ batch'[w] = batch[w] \ {id} /\ pc'[w] # "committed"
  PROVE  IndInv'
<1>1. \A s \in Streams : trimmed'[s] <= Len(stream'[s]) /\ delivered'[s] <= Len(stream'[s])
  BY DEF IndInv
<1>2. id \in batch[w] /\ id \in Ids /\ id \notin Logged
  BY LoggedInHand DEF IndInv, TypeOK, At
<1>3. Logged' = Logged \cup {id} /\ AtMostOnce'
  BY <1>2, LoggedAppend DEF IndInv
<1>4. \A v \in Workers : batch'[v] \subseteq batch[v]
  OBVIOUS
<1>5. \A v \in Workers : \A x \in batch'[v] : HandedOut(x)'
  BY <1>4, HandedOutStays DEF IndInv
<1>6. \A x \in Logged' : HandedOut(x)'
  BY <1>2, <1>3, HandedOutStays DEF IndInv
<1>7. OneWorkerPerEntry'
  BY <1>4 DEF IndInv, OneWorkerPerEntry
<1>8. ASSUME NEW v \in Workers, NEW x \in batch'[v]
      PROVE  x \in Logged' <=> pc'[v] = "committed" /\ At(v, x)'
  <2>1. CASE v # w
    <3>1. x # id
      BY <1>2, <2>1 DEF IndInv, OneWorkerPerEntry
    <3> QED BY <1>3, <2>1, <3>1 DEF IndInv, At
  <2>2. CASE v = w /\ batch'[w] = batch[w] /\ pc'[w] = "committed"
    <3>1. At(w, x)' <=> At(w, x)
      BY <2>2 DEF At
    <3>2. At(w, x) <=> x = id
      BY AtIsUnique DEF IndInv
    <3>3. x \in Logged <=> FALSE
      BY <2>2 DEF IndInv
    <3> QED BY <1>3, <2>2, <3>1, <3>2, <3>3
  <2>3. CASE v = w /\ batch'[w] = batch[w] \ {id} /\ pc'[w] # "committed"
    BY <1>3, <2>3, LoggedInHand
  <2> QED BY <2>1, <2>2, <2>3
<1> QED BY <1>1, <1>3, <1>5, <1>6, <1>7, <1>8 DEF IndInv

\* A read: the new entries were never handed out before; worker w, which had
\* nothing in hand, gets all of them or (the answer was lost) none.
LEMMA ReadStep ==
  ASSUME IndInv, TypeOK', NEW w \in Workers, XReadGroup,
         pc[w] = "idle", pc'[w] # "committed",
         UNCHANGED rows,
         \A v \in Workers \ {w} : batch'[v] = batch[v] /\ pc'[v] = pc[v],
         batch'[w] \subseteq NewEntries
  PROVE  IndInv'
<1>1. TypeOK
  BY DEF IndInv
<1>2. UNCHANGED <<stream, trimmed>> /\ Entries' = Entries
  BY DEF XReadGroup, Entries
<1>3. \A s \in Streams :
        /\ delivered'[s] = IF New(s) = {} THEN delivered[s] ELSE ReadTo(s)
        /\ delivered[s] \in Nat /\ ReadTo(s) \in Nat /\ Len(stream[s]) \in Nat
        /\ delivered[s] <= ReadFrom(s) /\ ReadFrom(s) \in Nat
        /\ ReadTo(s) <= Len(stream[s])
  BY <1>1, ReadRange, ConstantsAssumption DEF XReadGroup, TypeOK
<1>4. \A s \in Streams : delivered[s] <= delivered'[s]
  <2> SUFFICES ASSUME NEW s \in Streams PROVE delivered[s] <= delivered'[s]
    OBVIOUS
  <2>1. CASE New(s) = {}
    BY <1>3, <2>1
  <2>2. CASE New(s) # {}
    <3>1. PICK x \in New(s) : TRUE
      BY <2>2
    <3>2. x \in NewEntries
      BY <3>1 DEF NewEntries
    <3>3. x \in Ids /\ x[1] = s /\ ReadFrom(s) < x[2] /\ x[2] <= ReadTo(s)
      BY <1>1, <3>1, <3>2, NewRange, ConstantsAssumption DEF New
    <3>4. x[2] \in Nat
      BY <3>3 DEF Ids
    <3> QED BY <1>3, <2>2, <3>3, <3>4
  <2> QED BY <2>1, <2>2
<1>5. \A s \in Streams : trimmed'[s] <= Len(stream'[s]) /\ delivered'[s] <= Len(stream'[s])
  BY <1>2, <1>3 DEF IndInv
<1>6. \A id : HandedOut(id) => HandedOut(id)'
  <2>1. \A s \in Streams : Len(stream[s]) <= Len(stream'[s])
    BY <1>2, <1>3
  <2> QED BY <1>1, <1>4, <2>1, HandedOutGrows
<1>7. \A id \in NewEntries : HandedOut(id)' /\ ~HandedOut(id)
  <2> SUFFICES ASSUME NEW id \in NewEntries PROVE HandedOut(id)' /\ ~HandedOut(id)
    OBVIOUS
  <2>1. /\ id \in Entries /\ id \in Ids
        /\ id[1] \in Streams /\ id \in New(id[1])
        /\ ReadFrom(id[1]) < id[2] /\ id[2] <= ReadTo(id[1])
    BY <1>1, NewRange, ConstantsAssumption
  <2>2. id[2] \in Nat
    BY <2>1 DEF Ids
  <2>3. delivered'[id[1]] = ReadTo(id[1])
    BY <1>3, <2>1
  <2> QED BY <1>2, <1>3, <2>1, <2>2, <2>3 DEF HandedOut
<1>8. Logged' = Logged /\ AtMostOnce'
  BY DEF Logged, AtMostOnce, IndInv
<1>9. \A v \in Workers : \A id \in batch'[v] : HandedOut(id)'
  BY <1>6, <1>7 DEF IndInv
<1>10. \A id \in Logged' : HandedOut(id)'
  BY <1>6, <1>8 DEF IndInv
<1>11. \A v \in Workers \ {w} : batch'[v] \cap batch'[w] = {}
  BY <1>7 DEF IndInv
<1>12. OneWorkerPerEntry'
  BY <1>11 DEF IndInv, OneWorkerPerEntry
<1>13. ASSUME NEW v \in Workers, NEW id \in batch'[v]
       PROVE  id \in Logged' <=> pc'[v] = "committed" /\ At(v, id)'
  <2>1. CASE v = w
    BY <1>7, <1>8, <2>1 DEF IndInv
  <2>2. CASE v # w
    BY <1>8, <2>2 DEF IndInv, At
  <2> QED BY <2>1, <2>2
<1> QED BY <1>5, <1>8, <1>9, <1>10, <1>12, <1>13 DEF IndInv

\* A publication adds an entry after everything that was handed out.
LEMMA PublisherStep ==
  ASSUME IndInv, TypeOK', Publisher
  PROVE  IndInv'
<1>1. TypeOK
  BY DEF IndInv
<1>2. PICK e \in Events : Publish(e) \/ PublishFault(e)
  BY DEF Publisher
<1>3. UNCHANGED <<pc, batch, rows>> /\ (XAdd(e) \/ UNCHANGED redisVars)
  BY <1>2 DEF Publish, PublishFault, dbVars
<1>4. \A s \in Streams :
        /\ delivered'[s] = delivered[s]
        /\ Len(stream[s]) \in Nat /\ Len(stream'[s]) \in Nat /\ delivered[s] \in Nat
        /\ Len(stream[s]) <= Len(stream'[s])
        /\ trimmed'[s] <= Len(stream'[s])
  <2>1. CASE XAdd(e)
    <3>1. /\ StreamOf[e] \in Streams
          /\ stream' = [stream EXCEPT ![StreamOf[e]] = Append(stream[StreamOf[e]], e)]
          /\ UNCHANGED delivered
      BY <1>1, <2>1, XAddEffect, ConstantsAssumption
    <3>2. /\ trimmed' \in [Streams -> Nat]
          /\ \A s \in Streams : trimmed'[s] = trimmed[s] \/ trimmed'[s] <= Len(stream[s])
      BY <1>1, <2>1, XAddEffect, ConstantsAssumption
    <3>3. Len(Append(stream[StreamOf[e]], e)) = Len(stream[StreamOf[e]]) + 1
      BY <1>1, <3>1 DEF TypeOK
    <3> QED BY <1>1, <3>1, <3>2, <3>3 DEF IndInv, TypeOK
  <2>2. CASE UNCHANGED redisVars
    BY <1>1, <2>2 DEF redisVars, IndInv, TypeOK
  <2> QED BY <1>3, <2>1, <2>2
<1>5. \A s \in Streams : trimmed'[s] <= Len(stream'[s]) /\ delivered'[s] <= Len(stream'[s])
  BY <1>4 DEF IndInv
<1>6. \A id : HandedOut(id) => HandedOut(id)'
  BY <1>1, <1>4, HandedOutGrows
<1>7. Logged' = Logged /\ AtMostOnce' /\ OneWorkerPerEntry'
  BY <1>3 DEF Logged, AtMostOnce, OneWorkerPerEntry, IndInv
<1>8. \A v \in Workers : \A id \in batch'[v] : HandedOut(id)'
  BY <1>3, <1>6 DEF IndInv
<1>9. \A id \in Logged' : HandedOut(id)'
  BY <1>6, <1>7 DEF IndInv
<1>10. \A w \in Workers : \A id \in batch'[w] :
         id \in Logged' <=> pc'[w] = "committed" /\ At(w, id)'
  BY <1>3, <1>7 DEF IndInv, At
<1> QED BY <1>5, <1>7, <1>8, <1>9, <1>10 DEF IndInv

\* The invariant holds at the start.
LEMMA IndInvInit == Init => IndInv
<1> SUFFICES ASSUME Init PROVE IndInv
  OBVIOUS
<1>1. TypeOK
  BY TypeOKInit, ConstantsAssumption
<1>2. Logged = {}
  BY DEF Init, Logged
<1>3. \A s \in Streams : trimmed[s] <= Len(stream[s]) /\ delivered[s] <= Len(stream[s])
  BY DEF Init
<1> QED BY <1>1, <1>2, <1>3 DEF Init, IndInv, OneWorkerPerEntry, AtMostOnce

\* Fail and Advance leave, of the batch, only entries that are not logged.
LEMMA AdvanceQuiet ==
  ASSUME IndInv, TypeOK', NEW w \in Workers, NEW id, At(w, id), Advance(w, id),
         UNCHANGED <<stream, trimmed, delivered, rows>>
  PROVE  IndInv'
<1>1. TypeOK
  BY DEF IndInv
<1>2. /\ batch'[w] = batch[w] \ {id}
      /\ pc'[w] \in {"idle", "deliver"}
      /\ \A v \in Workers \ {w} : pc'[v] = pc[v] /\ batch'[v] = batch[v]
  BY <1>1, AdvanceType DEF TypeOK
<1>3. batch'[w] \subseteq batch[w] \ Logged
  BY <1>2, LoggedInHand
<1> QED BY <1>2, <1>3, QuietStep

\* A worker that has not committed moves on within the processing of the same
\* entry.
LEMMA PcQuiet ==
  ASSUME IndInv, TypeOK', NEW w \in Workers, NEW p,
         pc' = [pc EXCEPT ![w] = p], pc[w] # "committed", p # "committed",
         UNCHANGED <<stream, trimmed, delivered, rows, batch>>
  PROVE  IndInv'
<1>1. /\ pc'[w] = p
      /\ \A v \in Workers \ {w} : pc'[v] = pc[v] /\ batch'[v] = batch[v]
  BY DEF IndInv, TypeOK
<1>2. batch'[w] \subseteq batch[w] \ Logged
  BY DEF IndInv
<1> QED BY <1>1, <1>2, QuietStep

\* Every step of a process keeps the invariant.
LEMMA ProgressStep ==
  ASSUME IndInv, TypeOK', NEW w \in Workers, Progress(w)
  PROVE  IndInv'
<1>1. CASE Boot(w)
  BY <1>1, PcQuiet DEF Boot, redisVars, dbVars
<1>2. CASE Read(w)
  <2>1. /\ batch' = [batch EXCEPT ![w] = NewEntries]
        /\ pc' = [pc EXCEPT ![w] = "deliver"]
        /\ pc[w] = "idle" /\ XReadGroup /\ UNCHANGED rows
    BY <1>2 DEF Read, dbVars
  <2>2. /\ batch'[w] = NewEntries /\ pc'[w] = "deliver"
        /\ \A v \in Workers \ {w} : batch'[v] = batch[v] /\ pc'[v] = pc[v]
    BY <2>1 DEF IndInv, TypeOK
  <2> QED BY <2>1, <2>2, ReadStep
<1>3. CASE RecordActivity(w)
  <2>1. PICK id \in Entries :
          /\ pc[w] = "deliver" /\ At(w, id)
          /\ \/ Fail(w, id)
             \/ pc' = [pc EXCEPT ![w] = "flushed"] /\ UNCHANGED <<redisVars, batch, dbVars>>
    BY <1>3 DEF RecordActivity, GoOn
  <2>2. CASE Fail(w, id)
    BY <2>1, <2>2, AdvanceQuiet DEF Fail, redisVars, dbVars
  <2>3. CASE pc' = [pc EXCEPT ![w] = "flushed"] /\ UNCHANGED <<redisVars, batch, dbVars>>
    BY <2>1, <2>3, PcQuiet DEF redisVars, dbVars
  <2> QED BY <2>1, <2>2, <2>3
<1>4. CASE RunSpecificHandler(w)
  <2>1. PICK id \in Entries :
          /\ pc[w] = "flushed" /\ At(w, id)
          /\ \/ Fail(w, id)
             \/ /\ \E p \in {"handled", "insert"} : pc' = [pc EXCEPT ![w] = p]
                /\ UNCHANGED <<redisVars, batch, dbVars>>
    BY <1>4 DEF RunSpecificHandler, HandleUserCreatedByAdmin, HandleUserRegistered, GoOn
  <2>2. CASE Fail(w, id)
    BY <2>1, <2>2, AdvanceQuiet DEF Fail, redisVars, dbVars
  <2>3. CASE ~Fail(w, id)
    <3>1. PICK p \in {"handled", "insert"} : pc' = [pc EXCEPT ![w] = p]
      BY <2>1, <2>3
    <3>2. pc[w] # "committed" /\ p # "committed" /\ UNCHANGED <<redisVars, batch, dbVars>>
      BY <2>1, <2>3, <3>1
    <3> QED BY <3>1, <3>2, PcQuiet DEF redisVars, dbVars
  <2> QED BY <2>2, <2>3
<1>5. CASE InsertCredential(w)
  <2>1. PICK id \in Entries :
          /\ pc[w] = "insert" /\ At(w, id)
          /\ \/ /\ rows' = Append(rows, id)
                /\ pc' = [pc EXCEPT ![w] = "committed"]
                /\ UNCHANGED <<redisVars, batch>>
             \/ Fail(w, id)
    BY <1>5 DEF InsertCredential
  <2>2. CASE Fail(w, id)
    BY <2>1, <2>2, AdvanceQuiet DEF Fail, redisVars, dbVars
  <2>3. CASE ~Fail(w, id)
    <3>1. /\ pc'[w] = "committed" /\ batch'[w] = batch[w]
          /\ \A v \in Workers \ {w} : batch'[v] = batch[v] /\ pc'[v] = pc[v]
      BY <2>1, <2>3 DEF IndInv, TypeOK
    <3> QED BY <2>1, <2>3, <3>1, CommitStep DEF redisVars
  <2> QED BY <2>2, <2>3
<1>6. CASE Commit(w)
  <2>1. PICK id \in Entries :
          /\ pc[w] = "handled" /\ At(w, id)
          /\ rows' = Append(rows, id)
          /\ pc' = [pc EXCEPT ![w] = "committed"]
          /\ UNCHANGED <<redisVars, batch>>
    BY <1>6 DEF Commit
  <2>2. /\ pc'[w] = "committed" /\ batch'[w] = batch[w]
        /\ \A v \in Workers \ {w} : batch'[v] = batch[v] /\ pc'[v] = pc[v]
    BY <2>1 DEF IndInv, TypeOK
  <2> QED BY <2>1, <2>2, CommitStep DEF redisVars
<1>7. CASE Ack(w)
  BY <1>7, AdvanceQuiet DEF Ack, dbVars
<1> QED BY <1>1, <1>2, <1>3, <1>4, <1>5, <1>6, <1>7 DEF Progress

\* Every fault of a process keeps the invariant.
LEMMA WorkerFaultStep ==
  ASSUME IndInv, TypeOK', NEW w \in Workers, WorkerFault(w)
  PROVE  IndInv'
<1>1. CASE BootFault(w)
  BY <1>1, PcQuiet DEF BootFault, redisVars, dbVars
<1>2. CASE Stop(w)
  <2>1. /\ batch'[w] = {} /\ pc'[w] = "down"
        /\ \A v \in Workers \ {w} : batch'[v] = batch[v] /\ pc'[v] = pc[v]
    BY <1>2 DEF Stop, IndInv, TypeOK
  <2> QED BY <1>2, <2>1, QuietStep DEF Stop, redisVars, dbVars
<1>3. CASE ReadFault(w)
  <2>1. pc[w] = "idle" /\ XReadGroup /\ UNCHANGED <<rows, pc, batch>>
    BY <1>3 DEF ReadFault, dbVars
  <2>2. batch[w] = {}
    BY <2>1 DEF IndInv, TypeOK
  <2> QED BY <2>1, <2>2, ReadStep
<1>4. CASE DatabaseFault(w)
  <2>1. PICK id \in Entries : At(w, id) /\ Fail(w, id)
    BY <1>4 DEF DatabaseFault
  <2> QED BY <2>1, AdvanceQuiet DEF Fail, redisVars, dbVars
<1>5. CASE CommitAnswerLost(w)
  <2>1. PICK id \in Entries :
          /\ At(w, id) /\ Advance(w, id) /\ pc[w] # "committed"
          /\ rows' = Append(rows, id)
          /\ UNCHANGED redisVars
    BY <1>5 DEF CommitAnswerLost
  <2>2. /\ batch'[w] = batch[w] \ {id} /\ pc'[w] # "committed"
        /\ \A v \in Workers \ {w} : batch'[v] = batch[v] /\ pc'[v] = pc[v]
    BY <2>1, AdvanceType DEF IndInv, TypeOK
  <2> QED BY <2>1, <2>2, CommitStep DEF redisVars
<1>6. CASE AckFault(w)
  BY <1>6, AdvanceQuiet DEF AckFault, dbVars
<1> QED BY <1>1, <1>2, <1>3, <1>4, <1>5, <1>6 DEF WorkerFault

\* Every step keeps the invariant.
LEMMA IndInvStep == IndInv /\ [Next]_vars => IndInv'
<1> SUFFICES ASSUME IndInv, [Next]_vars PROVE IndInv'
  OBVIOUS
<1>1. TypeOK'
  BY TypeOKStep, ConstantsAssumption DEF IndInv
<1>2. CASE Next
  BY <1>1, <1>2, PublisherStep, ProgressStep, WorkerFaultStep DEF Next
<1>3. CASE UNCHANGED vars
  <2>1. UNCHANGED <<stream, trimmed, delivered, pc, batch, rows>>
    BY <1>3 DEF vars, redisVars, dbVars
  <2>2. /\ Logged' = Logged /\ AtMostOnce' /\ OneWorkerPerEntry'
        /\ \A id : HandedOut(id)' <=> HandedOut(id)
    BY <2>1, HandedOutStays DEF IndInv, Logged, AtMostOnce, OneWorkerPerEntry
  <2> QED BY <1>1, <2>1, <2>2 DEF IndInv, At
<1> QED BY <1>2, <1>3

\* IndInv in every state, for any processes, events, batches and faults.
THEOREM Invariance == Spec => []IndInv
BY IndInvInit, IndInvStep, PTL DEF Spec

\* No entry is written to activity_logs twice, for any number of processes,
\* crashes, retries and lost answers.
THEOREM AtMostOnceHolds == Spec => []AtMostOnce
<1>1. IndInv => AtMostOnce
  BY DEF IndInv
<1> QED BY <1>1, Invariance, PTL

\* No two processes ever hold the same entry, also when one of them read it
\* before the other was restarted.
THEOREM OneWorkerHolds == Spec => []OneWorkerPerEntry
<1>1. IndInv => OneWorkerPerEntry
  BY DEF IndInv
<1> QED BY <1>1, Invariance, PTL

-----------------------------------------------------------------------------
(* Acknowledgement and loss.                                               *)

\* A worker that stands before XACK has written the entry it is at.
LEMMA CommittedIsLogged ==
  ASSUME IndInv, NEW w \in Workers, NEW id, At(w, id), pc[w] = "committed"
  PROVE  id \in Logged
BY DEF IndInv, At

\* Of a step that touches the pending list: what leaves it is in the log.
LEMMA PendingStep ==
  IndInv /\ [Next]_vars => \A id \in pending \ pending' : id \in Logged
<1> SUFFICES ASSUME IndInv, [Next]_vars, NEW id \in pending \ pending'
             PROVE  id \in Logged
  OBVIOUS
<1>1. CASE Publisher
  <2>1. PICK e \in Events : XAdd(e) \/ UNCHANGED redisVars
    BY <1>1 DEF Publisher, Publish, PublishFault
  <2> QED BY <2>1 DEF XAdd, redisVars
<1>2. ASSUME NEW w \in Workers, Ack(w) \/ AckFault(w)
      PROVE  id \in Logged
  <2>1. PICK x \in Entries :
          pc[w] = "committed" /\ At(w, x) /\ pending' \in {pending, pending \ {x}}
    BY <1>2 DEF Ack, AckFault
  <2> QED BY <2>1, CommittedIsLogged
<1>3. ASSUME NEW w \in Workers, Progress(w) \/ WorkerFault(w), ~Ack(w), ~AckFault(w)
      PROVE  FALSE
  <2>1. CASE Read(w) \/ ReadFault(w)
    BY <2>1 DEF Read, ReadFault, XReadGroup
  <2>2. CASE Boot(w) \/ BootFault(w) \/ Stop(w)
    BY <2>2 DEF Boot, BootFault, Stop, redisVars
  <2>3. CASE RecordActivity(w) \/ RunSpecificHandler(w) \/ InsertCredential(w)
    BY <2>3 DEF RecordActivity, RunSpecificHandler, HandleUserCreatedByAdmin,
                 HandleUserRegistered, GoOn, InsertCredential, Fail, redisVars
  <2>4. CASE Commit(w) \/ DatabaseFault(w) \/ CommitAnswerLost(w)
    BY <2>4 DEF Commit, DatabaseFault, CommitAnswerLost, Fail, redisVars
  <2> QED BY <1>3, <2>1, <2>2, <2>3, <2>4 DEF Progress, WorkerFault
<1>4. CASE UNCHANGED vars
  BY <1>4 DEF vars, redisVars
<1> QED BY <1>1, <1>2, <1>3, <1>4 DEF Next

\* An entry leaves the pending list only when its row is committed.
THEOREM CommitBeforeAckHolds == Spec => CommitBeforeAck
<1>1. IndInv /\ [Next]_vars => [\A id \in pending \ pending' : id \in Logged]_vars
  BY PendingStep
<1> QED BY <1>1, Invariance, PTL DEF Spec, CommitBeforeAck
-----------------------------------------------------------------------------
(***************************************************************************)
(* EventPipeline implements EventLog, and what it leaves behind for the    *)
(* entries it loses: further theorems, from the same inductive invariant.  *)
(***************************************************************************)

\* What is waiting, in hand and in the log, for an entry of the bus.
Waits(id) == id[2] > ReadFrom(id[1])

\* An entry carries an event.
LEMMA EntriesCarryEvents ==
  ASSUME TypeOK, NEW id \in Entries
  PROVE  EventAt(id) \in Events
<1>1. id \in Ids /\ id[2] <= Len(stream[id[1]])
  BY EntriesAreIds
<1>2. id[1] \in Streams /\ stream[id[1]] \in Seq(Events) /\ id[2] \in Nat \ {0}
  BY <1>1 DEF Ids, TypeOK
<1> QED BY <1>1, <1>2 DEF EventAt

\* The four fates, told apart by the log, the batches and the group's position.
LEMMA Fate ==
  ASSUME NEW id
  PROVE  /\ FateOf(id) = IF id \in Logged THEN "logged"
                         ELSE IF Taken(id) THEN "taken"
                         ELSE IF Waits(id) THEN "waiting" ELSE "lost"
         /\ FateOf(id)' = IF id \in Logged' THEN "logged"
                          ELSE IF Taken(id)' THEN "taken"
                          ELSE IF Waits(id)' THEN "waiting" ELSE "lost"
BY DEF FateOf, Waits

\* What was handed out, hence what is in hand or logged, does not wait.
LEMMA HandedOutIsOver ==
  ASSUME IndInv, NEW id \in Entries
  PROVE  /\ id \in Ids /\ id[1] \in Streams /\ id[2] \in Nat
         /\ HandedOut(id) => ~Waits(id)
         /\ id \in Logged \/ Taken(id) => HandedOut(id)
<1>1. id \in Ids /\ id[1] \in Streams /\ id[2] \in Nat
  BY EntriesAreIds DEF IndInv, Ids
<1>2. /\ ReadFrom(id[1]) \in Nat /\ delivered[id[1]] \in Nat
      /\ delivered[id[1]] <= ReadFrom(id[1])
  BY <1>1, ReadRange, ConstantsAssumption DEF IndInv, TypeOK
<1>3. HandedOut(id) => ~Waits(id)
  BY <1>1, <1>2 DEF HandedOut, Waits
<1>4. id \in Logged \/ Taken(id) => HandedOut(id)
  BY DEF IndInv, Taken
<1> QED BY <1>1, <1>3, <1>4
-----------------------------------------------------------------------------
(* The steps of EventLog.                                                  *)

\* The fates after entries of S, all of fate from, went to f.
Moved(S, f) == [id \in Entries |-> IF id \in S THEN f ELSE FateOf(id)]
Fates == [id \in Entries |-> FateOf(id)]
OfFate(f) == {id \in Entries : FateOf(id) = f}

\* A read, an entry given up, an entry written: steps of EventLog.
LEMMA TakeIsNext ==
  ASSUME NEW S \in SUBSET OfFate("waiting"), NEW f \in {"taken", "lost"},
         Fates' = Moved(S, f), UNCHANGED rows
  PROVE  AtMostOnceLog!Next
BY DEF Fates, Moved, OfFate, AtMostOnceLog!Next, AtMostOnceLog!Take, AtMostOnceLog!With, AtMostOnceLog!Send

\* Losing an entry is a step of EventLog.
LEMMA AbandonIsNext ==
  ASSUME NEW S \in SUBSET OfFate("taken"), Fates' = Moved(S, "lost"), UNCHANGED rows
  PROVE  AtMostOnceLog!Next
BY DEF Fates, Moved, OfFate, AtMostOnceLog!Next, AtMostOnceLog!Abandon, AtMostOnceLog!With, AtMostOnceLog!Send

\* So is logging one.
LEMMA RecordIsNext ==
  ASSUME NEW id \in OfFate("taken"), Fates' = Moved({id}, "logged"), rows' = Append(rows, id)
  PROVE  AtMostOnceLog!Next
BY DEF Fates, Moved, OfFate, AtMostOnceLog!Next, AtMostOnceLog!Record, AtMostOnceLog!With, AtMostOnceLog!Send

\* One entry more; some that waited may be pushed out by it.
LEMMA ArriveIsNext ==
  ASSUME NEW id, id \notin Entries, NEW S \in SUBSET OfFate("waiting"),
         Fates' = [x \in Entries \cup {id} |-> IF x = id THEN "waiting" ELSE Moved(S, "lost")[x]],
         UNCHANGED rows
  PROVE  AtMostOnceLog!Next
<1>1. id \in DOMAIN Fates' \ DOMAIN Fates
  BY DEF Fates
<1>2. S \in SUBSET AtMostOnceLog!With("waiting")
  BY DEF OfFate, AtMostOnceLog!With
<1>3. AtMostOnceLog!Arrive
  BY <1>1, <1>2 DEF Fates, Moved, AtMostOnceLog!Arrive, AtMostOnceLog!Send
<1> QED BY <1>3 DEF AtMostOnceLog!Next
-----------------------------------------------------------------------------
(* Every step of the pipeline is one of these, or none.                    *)

\* Nothing moves as long as the log, the entries, the group's position and
\* the entries in hand that are not logged stay.
LEMMA NothingMoves ==
  ASSUME UNCHANGED <<stream, trimmed, delivered, rows>>,
         \A id \in Entries : id \notin Logged => (Taken(id)' <=> Taken(id))
  PROVE  UNCHANGED AtMostOnceLog!vars
<1>1. Entries' = Entries /\ Logged' = Logged
  BY DEF Entries, Logged
<1>2. \A id : Waits(id)' <=> Waits(id)
  BY DEF Waits, ReadFrom, MaxOf
<1>3. \A id \in Entries : FateOf(id)' = FateOf(id)
  BY <1>1, <1>2, Fate
<1> QED BY <1>1, <1>3 DEF AtMostOnceLog!vars

\* Worker w drops entries of its batch that are not in the log.
LEMMA BatchShrinks ==
  ASSUME IndInv, NEW w \in Workers, UNCHANGED <<stream, trimmed, delivered, rows>>,
         batch'[w] \subseteq batch[w],
         \A v \in Workers \ {w} : batch'[v] = batch[v]
  PROVE  AtMostOnceLog!Next
<1> DEFINE S == (batch[w] \ batch'[w]) \ Logged
<1>1. Entries' = Entries /\ Logged' = Logged
  BY DEF Entries, Logged
<1>2. \A id : Waits(id)' <=> Waits(id)
  BY DEF Waits, ReadFrom, MaxOf
<1>3. \A id \in S : id \in Entries /\ Taken(id) /\ id \notin Logged
  BY DEF IndInv, HandedOut, Taken
<1>4. S \in SUBSET OfFate("taken")
  BY <1>3, Fate DEF OfFate
<1>5. \A id \in S : ~Taken(id)'
  BY DEF Taken, IndInv, OneWorkerPerEntry
<1>6. \A id \in Entries \ S : id \notin Logged => (Taken(id)' <=> Taken(id))
  BY DEF Taken
<1>7. \A id \in S : FateOf(id)' = "lost"
  BY <1>1, <1>2, <1>3, <1>5, Fate, HandedOutIsOver
<1>8. \A id \in Entries \ S : FateOf(id)' = FateOf(id)
  BY <1>1, <1>2, <1>6, Fate
<1>9. Fates' = Moved(S, "lost")
  BY <1>1, <1>7, <1>8 DEF Fates, Moved
<1> QED BY <1>4, <1>9, AbandonIsNext

\* Worker w writes the row of the entry it is at, and keeps it in hand or not.
LEMMA RowIsWritten ==
  ASSUME IndInv, NEW w \in Workers, NEW id, At(w, id), pc[w] # "committed",
         rows' = Append(rows, id), UNCHANGED <<stream, trimmed, delivered>>,
         batch'[w] \in {batch[w], batch[w] \ {id}},
         \A v \in Workers \ {w} : batch'[v] = batch[v]
  PROVE  AtMostOnceLog!Next
<1>1. id \in batch[w] /\ id \in Entries /\ id \in Ids /\ id \notin Logged
  BY LoggedInHand DEF IndInv, HandedOut, TypeOK, At
<1>2. Logged' = Logged \cup {id}
  BY <1>1, LoggedAppend DEF IndInv
<1>3. Entries' = Entries
  BY DEF Entries
<1>4. \A x : Waits(x)' <=> Waits(x)
  BY DEF Waits, ReadFrom, MaxOf
<1>5. id \in OfFate("taken")
  BY <1>1, Fate DEF OfFate, Taken
<1>6. \A x \in Entries \ {id} : Taken(x)' <=> Taken(x)
  BY DEF Taken
<1>7. FateOf(id)' = "logged"
  BY <1>2, Fate
<1>8. \A x \in Entries \ {id} : FateOf(x)' = FateOf(x)
  BY <1>2, <1>4, <1>6, Fate
<1>9. Fates' = Moved({id}, "logged")
  BY <1>3, <1>7, <1>8 DEF Fates, Moved
<1> QED BY <1>5, <1>9, RecordIsNext

\* After a read the new entries no longer wait, and all others as before.
LEMMA WaitsAfterRead ==
  ASSUME IndInv, XReadGroup, NEW id \in Entries
  PROVE  /\ id \in NewEntries => Waits(id) /\ ~Waits(id)'
         /\ id \notin NewEntries => (Waits(id)' <=> Waits(id))
<1> DEFINE s == id[1]
<1>1. TypeOK /\ id \in Ids /\ s \in Streams /\ id[2] \in Nat /\ id[2] <= Len(stream[s])
  BY HandedOutIsOver, EntriesAreIds DEF IndInv
<1>2. /\ ReadFrom(s) \in Nat /\ ReadTo(s) \in Nat /\ Len(stream[s]) \in Nat
      /\ trimmed[s] \in Nat /\ delivered[s] \in Nat
      /\ trimmed[s] <= ReadFrom(s) /\ delivered[s] <= ReadFrom(s)
  BY <1>1, ReadRange, ConstantsAssumption DEF TypeOK
<1>3. /\ delivered'[s] = IF New(s) = {} THEN delivered[s] ELSE ReadTo(s)
      /\ trimmed'[s] = trimmed[s]
  BY <1>1 DEF XReadGroup
<1>4. id \in NewEntries <=> id \in New(s)
  BY <1>1, NewRange, ConstantsAssumption DEF NewEntries
<1>5. id \in New(s) <=> ReadFrom(s) < id[2] /\ id[2] <= ReadTo(s)
  BY <1>1 DEF New
<1>6. Waits(id) <=> id[2] > ReadFrom(s)
  BY DEF Waits
<1>7. Waits(id)' <=> id[2] > ReadFrom(s)'
  BY DEF Waits
<1>8. CASE New(s) = {}
  <2>1. ReadFrom(s)' = ReadFrom(s)
    BY <1>3, <1>8 DEF ReadFrom
  <2> QED BY <1>4, <1>6, <1>7, <1>8, <2>1
<1>9. CASE New(s) # {}
  <2>1. PICK x \in New(s) : TRUE
    BY <1>9
  <2>2. x \in Ids /\ ReadFrom(s) < x[2] /\ x[2] <= ReadTo(s)
    BY <1>1, <2>1, EntriesAreIds DEF New
  <2>3. ReadFrom(s) < ReadTo(s)
    BY <1>2, <2>2 DEF Ids
  <2>4. delivered'[s] = ReadTo(s)
    BY <1>3, <1>9
  <2>5. ReadFrom(s)' = ReadTo(s)
    BY <1>2, <1>3, <2>3, <2>4 DEF ReadFrom, MaxOf
  <2>6. Waits(id)' <=> id[2] > ReadTo(s)
    BY <1>7, <2>5
  <2> QED BY <1>1, <1>2, <1>4, <1>5, <1>6, <2>3, <2>6
<1> QED BY <1>8, <1>9

\* Worker w, which had nothing in hand, gets what it reads or loses it.
LEMMA ReadTakes ==
  ASSUME IndInv, NEW w \in Workers, XReadGroup, batch[w] = {},
         UNCHANGED rows, batch'[w] \in {{}, NewEntries},
         \A v \in Workers \ {w} : batch'[v] = batch[v]
  PROVE  AtMostOnceLog!Next
<1> DEFINE f == IF batch'[w] = {} THEN "lost" ELSE "taken"
<1>1. Entries' = Entries /\ Logged' = Logged
  BY DEF XReadGroup, Entries, Logged
<1>2. NewEntries \subseteq Entries
  BY NewRange, ConstantsAssumption DEF IndInv
<1>3. \A id \in NewEntries : Waits(id) /\ ~Waits(id)' /\ id \notin Logged /\ ~Taken(id)
  BY <1>2, WaitsAfterRead, HandedOutIsOver
<1>4. NewEntries \in SUBSET OfFate("waiting")
  BY <1>2, <1>3, Fate DEF OfFate
<1>5. NewEntries # {}
  BY DEF XReadGroup
<1>6. \A id \in NewEntries : Taken(id)' <=> batch'[w] # {}
  <2> SUFFICES ASSUME NEW id \in NewEntries PROVE Taken(id)' <=> batch'[w] # {}
    OBVIOUS
  <2>1. \A v \in Workers \ {w} : id \notin batch'[v]
    BY <1>3 DEF Taken
  <2> QED BY <2>1, <1>5 DEF Taken
<1>7. \A id \in NewEntries : FateOf(id)' = f
  BY <1>1, <1>3, <1>6, Fate
<1>8. \A id \in Entries \ NewEntries : (Taken(id)' <=> Taken(id)) /\ (Waits(id)' <=> Waits(id))
  BY WaitsAfterRead DEF Taken
<1>9. \A id \in Entries \ NewEntries : FateOf(id)' = FateOf(id)
  BY <1>1, <1>8, Fate
<1>10. Fates' = Moved(NewEntries, f)
  BY <1>1, <1>7, <1>9 DEF Fates, Moved
<1>11. f \in {"taken", "lost"}
  OBVIOUS
<1> QED BY <1>4, <1>10, <1>11, TakeIsNext

\* XADD adds one entry, which carries the event.
LEMMA XAddEntry ==
  ASSUME IndInv, TypeOK', NEW e \in Events, XAdd(e),
         NEW n, n = <<StreamOf[e], Len(stream[StreamOf[e]]) + 1>>
  PROVE  Entries' = Entries \cup {n} /\ n \notin Entries /\ EventAt(n)' = e
<1> DEFINE s == StreamOf[e]
<1>1. /\ TypeOK /\ s \in Streams
      /\ stream' = [stream EXCEPT ![s] = Append(stream[s], e)]
  BY XAddEffect, ConstantsAssumption DEF IndInv
<1>2. \A r \in Streams : stream[r] \in Seq(Events) /\ Len(stream[r]) \in Nat
  BY <1>1 DEF TypeOK
<1>3. /\ stream'[s] = Append(stream[s], e)
      /\ Len(stream'[s]) = Len(stream[s]) + 1
      /\ stream'[s][Len(stream[s]) + 1] = e
      /\ \A r \in Streams \ {s} : stream'[r] = stream[r]
  BY <1>1, <1>2 DEF TypeOK
<1>4. /\ Entries = {id \in Ids : id[2] <= Len(stream[id[1]])}
      /\ Entries' = {id \in Ids : id[2] <= Len(stream'[id[1]])}
  BY <1>1, EntriesAreIds
<1>5. n \in Ids /\ n[1] = s /\ n[2] = Len(stream[s]) + 1
  BY <1>1, <1>2 DEF Ids
<1>6. n \notin Entries /\ n \in Entries' /\ EventAt(n)' = e
  BY <1>2, <1>3, <1>4, <1>5 DEF EventAt
<1>7. Entries \subseteq Entries'
  BY <1>2, <1>3, <1>4 DEF Ids
<1>8. ASSUME NEW x \in Entries' PROVE x \in Entries \cup {n}
  <2>1. /\ x \in Ids /\ x = <<x[1], x[2]>> /\ x[1] \in Streams /\ x[2] \in Nat
        /\ x[2] <= Len(stream'[x[1]])
    BY <1>4, <1>8 DEF Ids
  <2>2. CASE x[1] # s
    BY <1>3, <1>4, <2>1, <2>2
  <2>3. CASE x[1] = s
    BY <1>2, <1>3, <1>4, <2>1, <2>3
  <2> QED BY <2>2, <2>3
<1> QED BY <1>6, <1>7, <1>8

\* XADD appends one entry, which waits, and may trim some that waited.
LEMMA XAddArrives ==
  ASSUME IndInv, TypeOK', NEW e \in Events, XAdd(e), UNCHANGED <<rows, batch>>
  PROVE  AtMostOnceLog!Next
<1> DEFINE s == StreamOf[e]
           S == {id \in Entries : FateOf(id) = "waiting" /\ ~Waits(id)'}
<1> PICK n : n = <<s, Len(stream[s]) + 1>>
  OBVIOUS
<1>1. /\ TypeOK /\ s \in Streams
      /\ stream' = [stream EXCEPT ![s] = Append(stream[s], e)]
      /\ \A r \in Streams :
           trimmed[r] <= trimmed'[r] /\ (trimmed'[r] = trimmed[r] \/ trimmed'[r] <= Len(stream[r]))
      /\ delivered' = delivered
  BY XAddEffect, ConstantsAssumption DEF IndInv
<1>2. /\ \A r \in Streams : /\ Len(stream[r]) \in Nat /\ delivered[r] \in Nat
                            /\ trimmed[r] \in Nat /\ trimmed'[r] \in Nat
                            /\ trimmed[r] <= Len(stream[r]) /\ delivered[r] <= Len(stream[r])
      /\ \A r \in Streams \ {s} : Len(stream'[r]) = Len(stream[r])
      /\ Len(stream'[s]) = Len(stream[s]) + 1
  <2>1. \A r \in Streams : stream[r] \in Seq(Events) /\ Len(stream[r]) \in Nat
    BY <1>1 DEF TypeOK
  <2>2. Len(Append(stream[s], e)) = Len(stream[s]) + 1
    BY <1>1, <2>1
  <2>3. stream'[s] = Append(stream[s], e) /\ \A r \in Streams \ {s} : stream'[r] = stream[r]
    BY <1>1 DEF TypeOK
  <2> QED BY <1>1, <2>1, <2>2, <2>3 DEF IndInv, TypeOK
<1>3. Entries' = Entries \cup {n} /\ n \notin Entries
  BY XAddEntry
<1>4. Logged' = Logged /\ \A id : Taken(id)' <=> Taken(id)
  BY DEF Logged, Taken
<1>5. \A r \in Streams : ReadFrom(r) \in Nat /\ ReadFrom(r)' \in Nat /\ ReadFrom(r) <= ReadFrom(r)'
                         /\ ReadFrom(r)' <= Len(stream[r])
  BY <1>1, <1>2 DEF ReadFrom, MaxOf
<1>6. \A id \in Entries : Waits(id)' => Waits(id)
  BY <1>5, HandedOutIsOver DEF Waits
<1>7. \A id \in Entries \ S : FateOf(id)' = FateOf(id)
  BY <1>4, <1>6, Fate
<1>8. \A id \in S : FateOf(id)' = "lost"
  BY <1>4, Fate
<1>9. FateOf(n)' = "waiting"
  <2>1. Waits(n)'
    BY <1>1, <1>2, <1>5 DEF Waits
  <2>2. n \notin Logged /\ ~Taken(n)
    BY <1>3 DEF IndInv, HandedOut, Taken
  <2> QED BY <1>4, <2>1, <2>2, Fate
<1>10. Fates' = [x \in Entries \cup {n} |-> IF x = n THEN "waiting" ELSE Moved(S, "lost")[x]]
  BY <1>3, <1>7, <1>8, <1>9 DEF Fates, Moved
<1>11. S \in SUBSET OfFate("waiting")
  BY DEF OfFate
<1> HIDE DEF S
<1> QED BY <1>3, <1>10, <1>11, ArriveIsNext

\* Turning to the next entry gives up the entry, unless it is in the log.
LEMMA AdvanceGivesUp ==
  ASSUME IndInv, NEW w \in Workers, NEW id, At(w, id), Advance(w, id),
         UNCHANGED <<stream, trimmed, delivered, rows>>
  PROVE  AtMostOnceLog!Next
<1>1. /\ batch'[w] \subseteq batch[w]
      /\ \A v \in Workers \ {w} : batch'[v] = batch[v]
  BY AdvanceType DEF IndInv, TypeOK
<1> QED BY <1>1, BatchShrinks

\* The abstract step of a consumer process.
AbstractStep == AtMostOnceLog!Next \/ UNCHANGED AtMostOnceLog!vars

\* A step of a process that goes on is a step of EventLog or a stutter.
LEMMA ProgressMaps ==
  ASSUME IndInv, NEW w \in Workers, Progress(w)
  PROVE  AbstractStep
<1> USE DEF AbstractStep
<1>1. CASE UNCHANGED <<stream, trimmed, delivered, rows, batch>>
  BY <1>1, NothingMoves DEF Taken
<1>2. CASE Boot(w)
  BY <1>1, <1>2 DEF Boot, redisVars, dbVars
<1>3. CASE Read(w)
  <2>1. XReadGroup /\ batch' = [batch EXCEPT ![w] = NewEntries] /\ pc[w] = "idle" /\ UNCHANGED rows
    BY <1>3 DEF Read, dbVars
  <2>2. batch[w] = {} /\ batch'[w] = NewEntries /\ \A v \in Workers \ {w} : batch'[v] = batch[v]
    BY <2>1 DEF IndInv, TypeOK
  <2> QED BY <2>1, <2>2, ReadTakes
<1>4. CASE RecordActivity(w) \/ RunSpecificHandler(w)
  <2>1. PICK id \in Entries :
          /\ At(w, id)
          /\ \/ Fail(w, id)
             \/ UNCHANGED <<redisVars, batch, dbVars>>
    BY <1>4 DEF RecordActivity, RunSpecificHandler, HandleUserCreatedByAdmin, HandleUserRegistered, GoOn
  <2>2. CASE Fail(w, id)
    BY <2>1, <2>2, AdvanceGivesUp DEF Fail, redisVars, dbVars
  <2>3. CASE UNCHANGED <<redisVars, batch, dbVars>>
    BY <1>1, <2>3 DEF redisVars, dbVars
  <2> QED BY <2>1, <2>2, <2>3
<1>5. CASE InsertCredential(w) \/ Commit(w)
  <2>1. PICK id \in Entries :
          /\ At(w, id) /\ pc[w] # "committed"
          /\ \/ Fail(w, id)
             \/ rows' = Append(rows, id) /\ UNCHANGED <<redisVars, batch>>
    BY <1>5 DEF InsertCredential, Commit
  <2>2. CASE Fail(w, id)
    BY <2>1, <2>2, AdvanceGivesUp DEF Fail, redisVars, dbVars
  <2>3. CASE rows' = Append(rows, id) /\ UNCHANGED <<redisVars, batch>>
    BY <2>1, <2>3, RowIsWritten DEF redisVars
  <2> QED BY <2>1, <2>2, <2>3
<1>6. CASE Ack(w)
  BY <1>6, AdvanceGivesUp DEF Ack, dbVars
<1> QED BY <1>2, <1>3, <1>4, <1>5, <1>6 DEF Progress

\* So is a fault of a process, which may lose what it held.
LEMMA WorkerFaultMaps ==
  ASSUME IndInv, NEW w \in Workers, WorkerFault(w)
  PROVE  AbstractStep
<1> USE DEF AbstractStep
<1>1. CASE BootFault(w)
  BY <1>1, NothingMoves DEF BootFault, Taken, redisVars, dbVars
<1>2. CASE Stop(w)
  <2>1. batch'[w] = {} /\ \A v \in Workers \ {w} : batch'[v] = batch[v]
    BY <1>2 DEF Stop, IndInv, TypeOK
  <2> QED BY <1>2, <2>1, BatchShrinks DEF Stop, redisVars, dbVars
<1>3. CASE ReadFault(w)
  <2>1. pc[w] = "idle" /\ XReadGroup /\ UNCHANGED <<rows, batch>>
    BY <1>3 DEF ReadFault, dbVars
  <2>2. batch[w] = {}
    BY <2>1 DEF IndInv, TypeOK
  <2> QED BY <2>1, <2>2, ReadTakes
<1>4. CASE DatabaseFault(w)
  BY <1>4, AdvanceGivesUp DEF DatabaseFault, Fail, redisVars, dbVars
<1>5. CASE CommitAnswerLost(w)
  <2>1. PICK id \in Entries :
          /\ At(w, id) /\ Advance(w, id) /\ pc[w] # "committed"
          /\ rows' = Append(rows, id)
          /\ UNCHANGED redisVars
    BY <1>5 DEF CommitAnswerLost
  <2>2. batch'[w] = batch[w] \ {id} /\ \A v \in Workers \ {w} : batch'[v] = batch[v]
    BY <2>1, AdvanceType DEF IndInv, TypeOK
  <2> QED BY <2>1, <2>2, RowIsWritten DEF redisVars
<1>6. CASE AckFault(w)
  BY <1>6, AdvanceGivesUp DEF AckFault, dbVars
<1> QED BY <1>1, <1>2, <1>3, <1>4, <1>5, <1>6 DEF WorkerFault

\* So is what the publisher does; trimming loses entries.
LEMMA PublisherMaps ==
  ASSUME IndInv, TypeOK', Publisher
  PROVE  AbstractStep
<1>1. PICK e \in Events : XAdd(e) \/ UNCHANGED redisVars
  BY DEF Publisher, Publish, PublishFault
<1>2. UNCHANGED <<rows, batch>>
  BY DEF Publisher, Publish, PublishFault, dbVars
<1>3. CASE XAdd(e)
  BY <1>2, <1>3, XAddArrives DEF AbstractStep
<1>4. CASE UNCHANGED redisVars
  BY <1>2, <1>4, NothingMoves DEF AbstractStep, redisVars, Taken
<1> QED BY <1>1, <1>3, <1>4

\* The empty bus is the empty log.
LEMMA InitMaps == Init => AtMostOnceLog!Init
<1> SUFFICES ASSUME Init PROVE AtMostOnceLog!Init
  OBVIOUS
<1>1. Entries = {}
  <2>1. \A s \in Streams : stream[s] = <<>>
    BY DEF Init
  <2>2. \A s \in Streams : {s} \X (1 .. Len(stream[s])) = {}
    BY <2>1
  <2> QED BY <2>2 DEF Entries
<1>2. Fates = [id \in {} |-> "waiting"]
  BY <1>1 DEF Fates
<1> QED BY <1>2 DEF Init, AtMostOnceLog!Init, Fates

\* Every step of the pipeline is a step of EventLog or a stutter.
LEMMA StepMaps == IndInv /\ [Next]_vars => [AtMostOnceLog!Next]_(AtMostOnceLog!vars)
<1> SUFFICES ASSUME IndInv, [Next]_vars PROVE AbstractStep
  BY DEF AbstractStep
<1>1. TypeOK'
  BY TypeOKStep, ConstantsAssumption DEF IndInv
<1>2. CASE Next
  BY <1>1, <1>2, PublisherMaps, ProgressMaps, WorkerFaultMaps DEF Next
<1>3. CASE UNCHANGED vars
  BY <1>3, NothingMoves DEF vars, redisVars, dbVars, AbstractStep, Taken
<1> QED BY <1>2, <1>3

\* The pipeline implements the at-most-once log: an entry waits, is taken
\* once, and is then written or lost for good, whatever fails or restarts.
THEOREM Implements == Spec => ImplementsEventLog
<1>1. Init => AtMostOnceLog!Init
  BY InitMaps
<1>2. IndInv /\ [Next]_vars => [AtMostOnceLog!Next]_(AtMostOnceLog!vars)
  BY StepMaps
<1> QED BY <1>1, <1>2, Invariance, PTL DEF Spec, ImplementsEventLog, AtMostOnceLog!Spec
-----------------------------------------------------------------------------
(* The traces of what is lost, and the causes.                             *)

\* The bus only grows, what is new on it was not handed out, and the log
\* forgets nothing.
LEMMA StreamsGrow ==
  ASSUME IndInv, TypeOK', [Next]_vars
  PROVE  /\ \A id \in Entries : id \in Entries' /\ EventAt(id)' = EventAt(id)
         /\ \A id \in Entries' \ Entries : ~HandedOut(id)'
         /\ \A s \in Streams : trimmed[s] <= trimmed'[s]
<1>1. CASE \E e \in Events : XAdd(e)
  <2>1. PICK e \in Events : XAdd(e)
    BY <1>1
  <2> DEFINE s == StreamOf[e]
  <2>2. /\ TypeOK /\ s \in Streams
        /\ stream' = [stream EXCEPT ![s] = Append(stream[s], e)]
        /\ \A r \in Streams : trimmed[r] <= trimmed'[r]
        /\ delivered' = delivered
    BY <2>1, XAddEffect, ConstantsAssumption DEF IndInv
  <2>3. \A r \in Streams : stream[r] \in Seq(Events) /\ Len(stream[r]) \in Nat
    BY <2>2 DEF TypeOK
  <2>4. /\ stream'[s] = Append(stream[s], e)
        /\ Len(stream'[s]) = Len(stream[s]) + 1
        /\ \A i \in 1 .. Len(stream[s]) : stream'[s][i] = stream[s][i]
        /\ \A r \in Streams \ {s} : stream'[r] = stream[r]
    BY <2>2, <2>3 DEF TypeOK
  <2>5. /\ Entries = {id \in Ids : id[2] <= Len(stream[id[1]])}
        /\ Entries' = {id \in Ids : id[2] <= Len(stream'[id[1]])}
    BY <2>2, EntriesAreIds
  <2>6. ASSUME NEW id \in Entries
        PROVE  id \in Entries' /\ EventAt(id)' = EventAt(id)
    <3>1. id[1] \in Streams /\ id[2] \in 1 .. Len(stream[id[1]]) /\ id \in Ids
      BY <2>3, <2>5 DEF Ids
    <3>2. id[2] <= Len(stream'[id[1]]) /\ stream'[id[1]][id[2]] = stream[id[1]][id[2]]
      BY <2>3, <2>4, <3>1
    <3> QED BY <2>5, <3>1, <3>2 DEF EventAt
  <2>7. ASSUME NEW id \in Entries' \ Entries
        PROVE  ~HandedOut(id)'
    <3>1. id[1] \in Streams /\ id[2] \in Nat /\ id[2] > Len(stream[id[1]])
      BY <2>3, <2>5 DEF Ids
    <3>2. delivered'[id[1]] <= Len(stream[id[1]]) /\ delivered'[id[1]] \in Nat
      BY <2>2, <3>1 DEF IndInv, TypeOK
    <3>3. ~(id[2] <= delivered'[id[1]])
      BY <2>3, <3>1, <3>2
    <3> QED BY <3>3 DEF HandedOut
  <2> QED BY <2>2, <2>6, <2>7
<1>2. CASE UNCHANGED <<stream, trimmed>>
  BY <1>2 DEF Entries, EventAt, IndInv, TypeOK
<1>3. (\E e \in Events : XAdd(e)) \/ UNCHANGED <<stream, trimmed>>
  <2>1. CASE Publisher
    BY <2>1 DEF Publisher, Publish, PublishFault, redisVars
  <2>2. ASSUME NEW w \in Workers, Progress(w)
        PROVE  UNCHANGED <<stream, trimmed>>
    BY <2>2 DEF Progress, Boot, Read, XReadGroup, RecordActivity, RunSpecificHandler,
                HandleUserCreatedByAdmin, HandleUserRegistered, InsertCredential, Commit, Ack,
                Fail, GoOn, redisVars
  <2>3. ASSUME NEW w \in Workers, WorkerFault(w)
        PROVE  UNCHANGED <<stream, trimmed>>
    BY <2>3 DEF WorkerFault, BootFault, Stop, ReadFault, XReadGroup, DatabaseFault,
                CommitAnswerLost, AckFault, Fail, redisVars
  <2>4. CASE UNCHANGED vars
    BY <2>4 DEF vars, redisVars
  <2> QED BY <2>1, <2>2, <2>3, <2>4 DEF Next
<1> QED BY <1>1, <1>2, <1>3

\* The log only grows, by the entry a process is at; the credentials with it.
LEMMA LogGrows ==
  ASSUME IndInv, [Next]_vars
  PROVE  \/ UNCHANGED <<rows, creds>>
         \/ \E w \in Workers, id \in Entries :
              /\ At(w, id) /\ pc[w] # "committed"
              /\ rows' = Append(rows, id) /\ UNCHANGED <<stream, delivered>>
              /\ \/ UNCHANGED creds
                 \/ pc[w] = "insert" /\ creds' = creds \cup {UserOf[EventAt(id)]}
              /\ batch'[w] \in {batch[w], batch[w] \ {id}}
              /\ \A v \in Workers \ {w} : batch'[v] = batch[v]
<1>1. ASSUME NEW w \in Workers, InsertCredential(w) \/ Commit(w) \/ CommitAnswerLost(w)
      PROVE  \/ UNCHANGED <<rows, creds>>
             \/ \E id \in Entries :
                  /\ At(w, id) /\ pc[w] # "committed"
                  /\ rows' = Append(rows, id) /\ UNCHANGED <<stream, delivered>>
                  /\ \/ UNCHANGED creds
                     \/ pc[w] = "insert" /\ creds' = creds \cup {UserOf[EventAt(id)]}
                  /\ batch'[w] \in {batch[w], batch[w] \ {id}}
                  /\ \A v \in Workers \ {w} : batch'[v] = batch[v]
  <2>1. CASE InsertCredential(w) \/ Commit(w)
    BY <2>1 DEF InsertCredential, Commit, Fail, dbVars, redisVars
  <2>2. CASE CommitAnswerLost(w)
    <3>1. PICK id \in Entries :
            /\ At(w, id) /\ Advance(w, id) /\ pc[w] # "committed"
            /\ rows' = Append(rows, id)
            /\ \/ UNCHANGED creds
               \/ pc[w] = "insert" /\ creds' = creds \cup {UserOf[EventAt(id)]}
            /\ UNCHANGED redisVars
      BY <2>2 DEF CommitAnswerLost
    <3>2. batch'[w] = batch[w] \ {id} /\ \A v \in Workers \ {w} : batch'[v] = batch[v]
      BY <3>1, AdvanceType DEF IndInv, TypeOK
    <3> QED BY <3>1, <3>2 DEF redisVars
  <2> QED BY <1>1, <2>1, <2>2
<1>2. ASSUME NEW w \in Workers, Progress(w) \/ WorkerFault(w),
             ~InsertCredential(w), ~Commit(w), ~CommitAnswerLost(w)
      PROVE  UNCHANGED <<rows, creds>>
  <2>1. CASE Progress(w)
    BY <1>2, <2>1 DEF Progress, Boot, Read, RecordActivity, RunSpecificHandler,
                HandleUserCreatedByAdmin, HandleUserRegistered, Ack, Fail, GoOn, dbVars
  <2>2. CASE WorkerFault(w)
    BY <1>2, <2>2 DEF WorkerFault, BootFault, Stop, ReadFault, DatabaseFault, AckFault, Fail, dbVars
  <2> QED BY <1>2, <2>1, <2>2
<1>3. CASE Publisher
  BY <1>3 DEF Publisher, Publish, PublishFault, dbVars
<1>4. CASE UNCHANGED vars
  BY <1>4 DEF vars, dbVars
<1> QED BY <1>1, <1>2, <1>3, <1>4 DEF Next

\* Hence the log forgets nothing.
LEMMA LoggedGrows ==
  ASSUME IndInv, [Next]_vars
  PROVE  Logged \subseteq Logged'
<1>1. CASE UNCHANGED <<rows, creds>>
  BY <1>1 DEF Logged
<1>2. CASE ~UNCHANGED <<rows, creds>>
  <2>1. PICK id \in Entries : rows' = Append(rows, id)
    BY <1>2, LogGrows
  <2>2. id \in Ids
    BY EntriesAreIds DEF IndInv
  <2> QED BY <2>1, <2>2, LoggedAppend DEF IndInv
<1> QED BY <1>1, <1>2

\* Only a read moves the group's position.
LEMMA OnlyReadsHandOut ==
  ASSUME IndInv, [Next]_vars
  PROVE  \/ UNCHANGED delivered
         \/ /\ XReadGroup /\ UNCHANGED <<rows, creds, publish>>
            /\ \E w \in Workers :
                 /\ pc[w] = "idle"
                 /\ \/ /\ batch' = [batch EXCEPT ![w] = NewEntries]
                       /\ pc' = [pc EXCEPT ![w] = "deliver"] /\ NoFault
                    \/ UNCHANGED <<batch, pc>> /\ Fault
<1>1. ASSUME NEW w \in Workers, Read(w) \/ ReadFault(w)
      PROVE  /\ XReadGroup /\ UNCHANGED <<rows, creds, publish>>
             /\ pc[w] = "idle"
             /\ \/ /\ batch' = [batch EXCEPT ![w] = NewEntries]
                   /\ pc' = [pc EXCEPT ![w] = "deliver"] /\ NoFault
                \/ UNCHANGED <<batch, pc>> /\ Fault
  BY <1>1 DEF Read, ReadFault, dbVars
<1>2. ASSUME NEW w \in Workers, Progress(w), ~Read(w) PROVE UNCHANGED delivered
  BY <1>2 DEF Progress, Boot, RecordActivity, RunSpecificHandler, HandleUserCreatedByAdmin,
              HandleUserRegistered, InsertCredential, Commit, Ack, Fail, GoOn, redisVars
<1>3. ASSUME NEW w \in Workers, WorkerFault(w), ~ReadFault(w) PROVE UNCHANGED delivered
  BY <1>3 DEF WorkerFault, BootFault, Stop, DatabaseFault, CommitAnswerLost, AckFault, Fail, redisVars
<1>4. CASE Publisher
  BY <1>4 DEF Publisher, Publish, PublishFault, XAdd, redisVars
<1>5. CASE UNCHANGED vars
  BY <1>5 DEF vars, redisVars
<1> QED BY <1>1, <1>2, <1>3, <1>4, <1>5 DEF Next

\* What a process has in hand it had before, or has just read.
LEMMA BatchesComeFromReads ==
  ASSUME IndInv, [Next]_vars, NEW w \in Workers, NEW x \in batch'[w], x \notin batch[w]
  PROVE  x \in NewEntries
<1>1. ASSUME NEW v \in Workers, Progress(v) \/ WorkerFault(v), ~Read(v), ~Stop(v)
      PROVE  batch'[w] \subseteq batch[w]
  <2>1. UNCHANGED batch \/ \E id : At(v, id) /\ Advance(v, id)
    <3>1. CASE Progress(v)
      BY <1>1, <3>1 DEF Progress, Boot, RecordActivity, RunSpecificHandler, HandleUserCreatedByAdmin,
                        HandleUserRegistered, InsertCredential, Commit, Ack, Fail, GoOn
    <3>2. CASE WorkerFault(v)
      BY <1>1, <3>2 DEF WorkerFault, BootFault, ReadFault, DatabaseFault, CommitAnswerLost,
                        AckFault, Fail
    <3> QED BY <1>1, <3>1, <3>2
  <2> QED BY <2>1 DEF Advance, IndInv, TypeOK
<1>2. ASSUME NEW v \in Workers, Stop(v) PROVE batch'[w] \subseteq batch[w]
  BY <1>2 DEF Stop, IndInv, TypeOK
<1>3. ASSUME NEW v \in Workers, Read(v) PROVE batch'[w] \in {batch[w], NewEntries}
  BY <1>3 DEF Read, IndInv, TypeOK
<1>4. CASE Publisher
  BY <1>4 DEF Publisher, Publish, PublishFault
<1>5. CASE UNCHANGED vars
  BY <1>5 DEF vars
<1> QED BY <1>1, <1>2, <1>3, <1>4, <1>5 DEF Next

\* An entry whose turn came with a read, and not before, is one of those read.
LEMMA NewlyHandedOut ==
  ASSUME IndInv, XReadGroup, NEW id \in Entries, HandedOut(id)', ~HandedOut(id)
  PROVE  id \in NewEntries \/ id[2] <= trimmed[id[1]]
<1>1. /\ id[1] \in Streams /\ id[2] \in Nat
      /\ delivered[id[1]] \in Nat /\ trimmed[id[1]] \in Nat
      /\ ReadFrom(id[1]) \in {delivered[id[1]], trimmed[id[1]]}
  BY HandedOutIsOver, ReadRange, ConstantsAssumption DEF IndInv, TypeOK
<1>2. ~(id[2] <= delivered[id[1]])
  BY DEF HandedOut
<1>3. CASE Waits(id)
  <2>1. id \notin NewEntries => Waits(id)'
    BY <1>3, WaitsAfterRead
  <2>2. id[2] <= delivered'[id[1]]
    BY DEF HandedOut
  <2>3. New(id[1]) # {} /\ id[2] <= ReadTo(id[1])
    BY <1>1, <1>2, <2>2 DEF XReadGroup
  <2>4. id \in New(id[1])
    BY <1>3, <2>3 DEF New, Waits
  <2> QED BY <1>1, <2>4 DEF NewEntries
<1>4. CASE ~Waits(id)
  BY <1>1, <1>2, <1>4 DEF Waits
<1> QED BY <1>3, <1>4

\* What was handed out is in the log, or can be found in the pending list, or
\* was trimmed before its turn came.
Recoverable ==
  \A id \in Entries :
    HandedOut(id) => id \in Logged \cup pending \/ id[2] <= trimmed[id[1]]

\* Every step keeps what is lost pending or trimmed.
LEMMA RecoverableStep == IndInv /\ Recoverable /\ [Next]_vars => Recoverable'
<1> SUFFICES ASSUME IndInv, Recoverable, [Next]_vars,
                    NEW id \in Entries', HandedOut(id)'
             PROVE  id \in Logged' \cup pending' \/ id[2] <= trimmed'[id[1]]
  BY DEF Recoverable
<1>1. TypeOK'
  BY TypeOKStep, ConstantsAssumption DEF IndInv
<1>2. id \in Entries
  BY <1>1, StreamsGrow
<1>3. /\ id[1] \in Streams /\ id[2] \in Nat
      /\ trimmed[id[1]] \in Nat /\ trimmed'[id[1]] \in Nat
      /\ trimmed[id[1]] <= trimmed'[id[1]]
  BY <1>1, <1>2, HandedOutIsOver, StreamsGrow DEF TypeOK, IndInv
<1>4. Logged \subseteq Logged' /\ \A x \in pending \ pending' : x \in Logged
  BY LoggedGrows, PendingStep
<1>5. CASE HandedOut(id)
  BY <1>2, <1>3, <1>4, <1>5 DEF Recoverable
<1>6. CASE ~HandedOut(id)
  <2>1. XReadGroup
    BY <1>2, <1>6, OnlyReadsHandOut DEF HandedOut
  <2>2. id \in NewEntries \/ id[2] <= trimmed[id[1]]
    BY <1>2, <1>6, <2>1, NewlyHandedOut
  <2> QED BY <1>3, <2>1, <2>2 DEF XReadGroup
<1> QED BY <1>5, <1>6

\* An entry lost after it was read can still be found in the pending list, and
\* one lost before was trimmed, for any faults, processes and batches.
THEOREM LossLeavesTraceHolds == Spec => []LossLeavesTrace
<1>1. Init => Recoverable
  BY DEF Init, Recoverable, HandedOut, Entries, Ids
<1>2. IndInv /\ Recoverable => LossLeavesTrace
  <2> SUFFICES ASSUME IndInv, Recoverable, NEW id \in Entries, Lost(id)
               PROVE  id \in pending \/ id[2] <= trimmed[id[1]]
    BY DEF LossLeavesTrace
  <2>1. id \notin Logged /\ ~Waits(id)
    BY Fate DEF Lost
  <2>2. /\ id[2] \in Nat /\ delivered[id[1]] \in Nat /\ trimmed[id[1]] \in Nat
        /\ ReadFrom(id[1]) \in {delivered[id[1]], trimmed[id[1]]}
    BY HandedOutIsOver, ReadRange, ConstantsAssumption DEF IndInv, TypeOK
  <2>3. HandedOut(id) \/ id[2] <= trimmed[id[1]]
    BY <2>1, <2>2 DEF Waits, HandedOut
  <2> QED BY <2>1, <2>3 DEF Recoverable
<1> QED BY <1>1, <1>2, RecoverableStep, Invariance, PTL DEF Spec
-----------------------------------------------------------------------------
(* The order of the log.                                                   *)

\* One process: what it has in hand and has not written yet comes after all
\* that is written, stream by stream.
InOrder ==
  /\ \A v, w \in Workers : v = w
  /\ RowsInStreamOrder
  /\ \A w \in Workers : \A x \in batch[w] \ Logged :
       \A id \in Logged : id[1] = x[1] => id[2] < x[2]

\* With one process every step keeps the rows in order.
LEMMA InOrderStep == IndInv /\ InOrder /\ [Next]_vars => InOrder'
<1> SUFFICES ASSUME IndInv, InOrder, [Next]_vars PROVE InOrder'
  OBVIOUS
<1>1. TypeOK /\ TypeOK'
  BY TypeOKStep, ConstantsAssumption DEF IndInv
<1>2. CASE ~UNCHANGED <<rows, creds>>
  <2>1. PICK w \in Workers, id \in Entries :
          /\ At(w, id) /\ pc[w] # "committed" /\ rows' = Append(rows, id)
          /\ batch'[w] \in {batch[w], batch[w] \ {id}}
    BY <1>2, LogGrows
  <2>2. id \in batch[w] /\ id \notin Logged /\ id \in Ids
    BY <1>1, <2>1, LoggedInHand, EntriesAreIds DEF At
  <2>3. Logged' = Logged \cup {id}
    BY <1>1, <2>1, <2>2, LoggedAppend
  <2>4. /\ rows \in Seq(Ids) /\ Len(rows) \in Nat
        /\ DOMAIN rows' = 1 .. Len(rows) + 1
        /\ DOMAIN rows = 1 .. Len(rows)
        /\ \A i \in 1 .. Len(rows) : rows'[i] = rows[i] /\ rows[i] \in Logged
        /\ rows'[Len(rows) + 1] = id
    BY <1>1, <2>1, <2>2 DEF TypeOK, Logged
  <2>5. RowsInStreamOrder'
    <3> SUFFICES ASSUME NEW i \in DOMAIN rows', NEW j \in DOMAIN rows',
                        i < j, rows'[i][1] = rows'[j][1]
                 PROVE  rows'[i][2] < rows'[j][2]
      BY DEF RowsInStreamOrder
    <3>1. i \in 1 .. Len(rows) /\ i \in DOMAIN rows
      BY <2>4
    <3>2. CASE j \in 1 .. Len(rows)
      <4>1. /\ j \in DOMAIN rows /\ rows'[i] = rows[i] /\ rows'[j] = rows[j]
            /\ \A a, b \in DOMAIN rows : a < b /\ rows[a][1] = rows[b][1] => rows[a][2] < rows[b][2]
        BY <2>4, <3>1, <3>2 DEF InOrder, RowsInStreamOrder
      <4> QED BY <3>1, <4>1
    <3>3. CASE j = Len(rows) + 1
      <4>1. rows'[i] = rows[i] /\ rows[i] \in Logged /\ rows'[j] = id
        BY <2>4, <3>1, <3>3
      <4> QED BY <2>2, <4>1 DEF InOrder
    <3> QED BY <2>4, <3>2, <3>3
  <2>6. ASSUME NEW v \in Workers, NEW x \in batch'[v] \ Logged', NEW y \in Logged', y[1] = x[1]
        PROVE  y[2] < x[2]
    <3>1. v = w /\ x \in batch[w] \ {id} /\ x \notin Logged
      BY <2>1, <2>3, <2>6 DEF InOrder
    <3>2. CASE y \in Logged
      BY <2>6, <3>1, <3>2 DEF InOrder
    <3>3. CASE y = id
      <4>1. Before(id, x)
        BY <2>1, <3>1 DEF At
      <4>2. id[1] \in Streams /\ StreamRank[id[1]] \in Nat
        BY <2>2, RankIsNat DEF Ids
      <4> QED BY <2>6, <3>3, <4>1, <4>2 DEF Before
    <3> QED BY <2>3, <2>6, <3>2, <3>3
  <2> QED BY <2>5, <2>6 DEF InOrder
<1>3. CASE UNCHANGED <<rows, creds>>
  <2>1. Logged' = Logged /\ RowsInStreamOrder'
    BY <1>3 DEF Logged, RowsInStreamOrder, InOrder
  <2>2. ASSUME NEW w \in Workers, NEW x \in batch'[w] \ Logged, NEW id \in Logged, id[1] = x[1]
        PROVE  id[2] < x[2]
    <3>1. CASE x \in batch[w]
      BY <2>2, <3>1 DEF InOrder
    <3>2. CASE x \notin batch[w]
      <4>1. x \in NewEntries
        BY <2>2, <3>2, BatchesComeFromReads
      <4>2. ReadFrom(x[1]) < x[2] /\ x[1] \in Streams /\ x[2] \in Nat
        BY <1>1, <4>1, NewRange, ConstantsAssumption DEF Ids
      <4>3. id \in Entries /\ id[2] <= delivered[id[1]] /\ id[2] \in Nat
        BY HandedOutIsOver DEF IndInv, HandedOut
      <4>4. delivered[x[1]] <= ReadFrom(x[1]) /\ ReadFrom(x[1]) \in Nat /\ delivered[x[1]] \in Nat
        BY <1>1, <4>2, ReadRange, ConstantsAssumption DEF TypeOK
      <4> QED BY <2>2, <4>2, <4>3, <4>4
    <3> QED BY <3>1, <3>2
  <2> QED BY <2>1, <2>2 DEF InOrder
<1> QED BY <1>2, <1>3

\* With one process the rows of a stream are committed in its order, whatever
\* fails, is lost or restarts.
THEOREM OrderHolds == Spec /\ (\A v, w \in Workers : v = w) => []RowsInStreamOrder
<1>1. Init /\ (\A v, w \in Workers : v = w) => InOrder
  BY DEF Init, InOrder, RowsInStreamOrder
<1>2. InOrder => RowsInStreamOrder
  BY DEF InOrder
<1> QED BY <1>1, <1>2, InOrderStep, Invariance, PTL DEF Spec
-----------------------------------------------------------------------------
(* Credentials.                                                            *)

Creates(id) == TypeOf[EventAt(id)] = "user.created_by_admin"

\* A process that is about to insert a credential is at an event that asks for
\* one; and the log has such an event for every credential there is.
Traced ==
  /\ \A w \in Workers : \A id \in batch[w] : pc[w] = "insert" /\ At(w, id) => Creates(id)
  /\ CredentialsTraced

\* How a process comes to insert a credential.
LEMMA ComesToInsert ==
  ASSUME IndInv, [Next]_vars, NEW w \in Workers, pc'[w] = "insert"
  PROVE  /\ batch'[w] = batch[w]
         /\ pc[w] = "insert" \/ \E id \in Entries : At(w, id) /\ Creates(id)
<1>1. ASSUME NEW v \in Workers, Progress(v) \/ WorkerFault(v), v # w
      PROVE  pc'[w] = pc[w] /\ batch'[w] = batch[w]
  <2>1. CASE Progress(v)
    BY <1>1, <2>1 DEF Progress, Boot, Read, RecordActivity, RunSpecificHandler, HandleUserCreatedByAdmin,
              HandleUserRegistered, InsertCredential, Commit, Ack, Fail, GoOn, Advance, IndInv, TypeOK
  <2>2. CASE WorkerFault(v)
    BY <1>1, <2>2 DEF WorkerFault, BootFault, Stop, ReadFault, DatabaseFault, CommitAnswerLost,
              AckFault, Fail, Advance, IndInv, TypeOK
  <2> QED BY <1>1, <2>1, <2>2
<1>2. ASSUME Progress(w), ~RunSpecificHandler(w) PROVE pc'[w] # "insert"
  BY <1>2 DEF Progress, Boot, Read, RecordActivity, InsertCredential, Commit, Ack, Fail, GoOn,
              Advance, IndInv, TypeOK
<1>3. CASE RunSpecificHandler(w)
  <2>1. PICK id \in Entries :
          /\ At(w, id)
          /\ \/ Fail(w, id)
             \/ /\ UNCHANGED batch
                /\ pc' = [pc EXCEPT ![w] = "handled"] \/ Creates(id)
    BY <1>3 DEF RunSpecificHandler, HandleUserCreatedByAdmin, HandleUserRegistered, GoOn, Creates
  <2>2. ~Fail(w, id)
    BY DEF Fail, Advance, IndInv, TypeOK
  <2> QED BY <2>1, <2>2 DEF IndInv, TypeOK
<1>4. ASSUME WorkerFault(w) PROVE pc[w] = "insert" /\ batch'[w] = batch[w]
  BY <1>4 DEF WorkerFault, BootFault, Stop, ReadFault, DatabaseFault, CommitAnswerLost, AckFault,
              Fail, Advance, IndInv, TypeOK
<1>5. CASE Publisher \/ UNCHANGED vars
  BY <1>5 DEF Publisher, Publish, PublishFault, vars
<1> QED BY <1>1, <1>2, <1>3, <1>4, <1>5 DEF Next

\* Every step keeps the row beside the credential.
LEMMA TracedStep == IndInv /\ Traced /\ [Next]_vars => Traced'
<1> SUFFICES ASSUME IndInv, Traced, [Next]_vars PROVE Traced'
  OBVIOUS
<1>1. TypeOK /\ TypeOK'
  BY TypeOKStep, ConstantsAssumption DEF IndInv
<1>2. \A id \in Entries : Creates(id)' <=> Creates(id)
  BY <1>1, StreamsGrow DEF Creates
<1>3. ASSUME NEW w \in Workers, NEW id \in batch'[w], pc'[w] = "insert", At(w, id)'
      PROVE  Creates(id)'
  <2>1. batch'[w] = batch[w] /\ (pc[w] = "insert" \/ \E x \in Entries : At(w, x) /\ Creates(x))
    BY <1>3, ComesToInsert
  <2>2. id \in batch[w] /\ At(w, id) /\ id \in Entries
    BY <1>3, <2>1 DEF At, IndInv, HandedOut
  <2>3. Creates(id)
    BY <1>1, <2>1, <2>2, AtIsUnique DEF Traced
  <2> QED BY <1>2, <2>2, <2>3
<1>4. ASSUME NEW u \in creds'
      PROVE  \E id \in Logged' : Creates(id)' /\ UserOf[EventAt(id)'] = u
  <2>1. CASE u \in creds
    <3>1. PICK id \in Logged : Creates(id) /\ UserOf[EventAt(id)] = u
      BY <2>1 DEF Traced, CredentialsTraced, Creates
    <3>2. id \in Entries /\ id \in Logged'
      BY LoggedGrows DEF IndInv, HandedOut
    <3>3. EventAt(id)' = EventAt(id)
      BY <1>1, <3>2, StreamsGrow
    <3> QED BY <1>2, <3>1, <3>2, <3>3
  <2>2. CASE u \notin creds
    <3>1. PICK w \in Workers, id \in Entries :
            /\ At(w, id) /\ rows' = Append(rows, id)
            /\ pc[w] = "insert" /\ u = UserOf[EventAt(id)]
      BY <1>4, <2>2, LogGrows
    <3>2. id \in Logged' /\ Creates(id)
      BY <1>1, <3>1, LoggedAppend, EntriesAreIds DEF Traced, At
    <3>3. EventAt(id)' = EventAt(id)
      BY <1>1, StreamsGrow
    <3> QED BY <1>2, <3>1, <3>2, <3>3
  <2> QED BY <2>1, <2>2
<1> QED BY <1>3, <1>4 DEF Traced, CredentialsTraced, Creates

\* Every credential that an event brought has its row in the log, because the
\* handler of "*" runs first in the same transaction.
THEOREM CredentialsTracedHolds == Spec => []CredentialsTraced
<1>1. Init => Traced
  BY DEF Init, Traced, CredentialsTraced
<1>2. Traced => CredentialsTraced
  BY DEF Traced
<1> QED BY <1>1, <1>2, TracedStep, Invariance, PTL DEF Spec
-----------------------------------------------------------------------------
(* Loss without a fault.                                                   *)

\* The administrator creates a user once: of the events that ask for a
\* credential no two are about the same user.
OneCreationPerUser ==
  \A e, f \in Events :
    /\ TypeOf[e] = "user.created_by_admin" /\ TypeOf[f] = "user.created_by_admin"
    /\ UserOf[e] = UserOf[f]
    => e = f

\* As long as nothing failed: every event is on the bus once, and what was
\* handed out is in the log or in hand, doomed or trimmed before its turn.
Accounted ==
  /\ OneCreationPerUser
  /\ faults = 0 =>
       /\ \A id \in Entries : publish[EventAt(id)] = "accepted"
       /\ \A a, b \in Entries : EventAt(a) = EventAt(b) => a = b
       /\ \A id \in Entries :
            HandedOut(id) =>
              id \in Logged \/ Taken(id) \/ Doomed(EventAt(id)) \/ id[2] <= trimmed[id[1]]

\* A step that leaves the count at zero is none of the faults.
LEMMA NoFaultStep ==
  ASSUME TypeOK, [Next]_vars, faults' = 0
  PROVE  /\ faults = 0
         /\ \/ \E e \in Events : Publish(e)
            \/ \E w \in Workers : Progress(w)
            \/ UNCHANGED vars
<1>1. faults \in Nat
  BY ConstantsAssumption DEF TypeOK, ConstantsAssumption
<1>2. ~Fault
  BY <1>1 DEF Fault
<1>3. (\A e \in Events : ~PublishFault(e)) /\ (\A w \in Workers : ~WorkerFault(w))
  BY <1>2 DEF PublishFault, WorkerFault, BootFault, Stop, ReadFault, DatabaseFault,
              CommitAnswerLost, AckFault
<1>4. (\E e \in Events : Publish(e)) \/ (\E w \in Workers : Progress(w)) \/ UNCHANGED vars
  BY <1>3 DEF Next, Publisher
<1>5. faults' = faults
  BY <1>4 DEF Publish, Progress, Boot, Read, RecordActivity, RunSpecificHandler, InsertCredential,
              Commit, Ack, NoFault, vars
<1> QED BY <1>4, <1>5

\* A process lets go of an entry without a fault: it was written, or its
\* handlers cannot but raise.
LEMMA LetsGo ==
  ASSUME IndInv, Traced, Accounted, faults = 0,
         NEW w \in Workers, Progress(w), NEW v \in Workers, NEW id \in batch[v], id \notin batch'[v]
  PROVE  id \in Logged \/ Doomed(EventAt(id))
<1>1. CASE Boot(w)
  BY <1>1 DEF Boot
<1>2. CASE Read(w)
  BY <1>2 DEF Read, IndInv, TypeOK
<1>3. CASE Commit(w)
  BY <1>3 DEF Commit
<1>4. CASE RecordActivity(w) \/ RunSpecificHandler(w) \/ InsertCredential(w) \/ Ack(w)
  <2>1. PICK x \in Entries :
          /\ At(w, x)
          /\ \/ UNCHANGED batch
             \/ /\ Advance(w, x)
                /\ \/ EventAt(x) \in Rejected
                   \/ TypeOf[EventAt(x)] # "activity_only" /\ UserOf[EventAt(x)] \notin KnownUsers
                   \/ pc[w] = "insert" /\ UserOf[EventAt(x)] \notin KnownUsers \ creds
                   \/ pc[w] = "committed"
    BY <1>4 DEF RecordActivity, RunSpecificHandler, HandleUserCreatedByAdmin, HandleUserRegistered,
                InsertCredential, Ack, Fail, GoOn
  <2>2. /\ Advance(w, x) /\ v = w /\ x = id
    BY <2>1, AdvanceType DEF IndInv, TypeOK
  <2>3. CASE pc[w] = "committed"
    BY <2>1, <2>2, <2>3, CommittedIsLogged
  <2>4. CASE pc[w] = "insert" /\ UserOf[EventAt(x)] \in creds
    <3>1. Creates(x)
      BY <2>1, <2>2, <2>4 DEF Traced
    <3>2. PICK y \in Logged : Creates(y) /\ UserOf[EventAt(y)] = UserOf[EventAt(x)]
      BY <2>4 DEF Traced, CredentialsTraced, Creates
    <3>3. y \in Entries
      BY DEF IndInv, HandedOut
    <3>4. EventAt(x) \in Events /\ EventAt(y) \in Events
      BY <2>1, <3>3, EntriesCarryEvents DEF IndInv
    <3>5. x = y
      BY <2>1, <3>1, <3>2, <3>3, <3>4 DEF Accounted, OneCreationPerUser, Creates
    <3> QED BY <2>2, <3>2, <3>5
  <2>5. CASE pc[w] = "insert" /\ UserOf[EventAt(x)] \notin KnownUsers
    BY <2>1, <2>2, <2>5 DEF Traced, Creates, Doomed
  <2> QED BY <2>1, <2>2, <2>3, <2>4, <2>5 DEF Doomed
<1> QED BY <1>1, <1>2, <1>3, <1>4 DEF Progress

\* Every step keeps the account of the losses.
LEMMA AccountedStep == IndInv /\ Traced /\ Accounted /\ [Next]_vars => Accounted'
<1> SUFFICES ASSUME IndInv, Traced, Accounted, [Next]_vars, faults' = 0
             PROVE  /\ \A id \in Entries' : publish'[EventAt(id)'] = "accepted"
                    /\ \A a, b \in Entries' : EventAt(a)' = EventAt(b)' => a = b
                    /\ \A id \in Entries' :
                         HandedOut(id)' =>
                           \/ id \in Logged' \/ Taken(id)' \/ Doomed(EventAt(id)')
                           \/ id[2] <= trimmed'[id[1]]
  BY DEF Accounted, OneCreationPerUser, Doomed
<1>1. TypeOK /\ TypeOK'
  BY TypeOKStep, ConstantsAssumption DEF IndInv
<1>2. /\ faults = 0
      /\ (\E e \in Events : Publish(e)) \/ (\E w \in Workers : Progress(w)) \/ UNCHANGED vars
  BY <1>1, NoFaultStep
<1>3. \A id \in Entries : id \in Entries' /\ EventAt(id)' = EventAt(id) /\ EventAt(id) \in Events
  BY <1>1, StreamsGrow, EntriesCarryEvents
<1>4. ASSUME NEW id \in Entries', HandedOut(id)'
      PROVE  id \in Logged' \/ Taken(id)' \/ Doomed(EventAt(id)') \/ id[2] <= trimmed'[id[1]]
  <2>1. id \in Entries /\ EventAt(id)' = EventAt(id)
    BY <1>1, <1>3, <1>4, StreamsGrow
  <2>2. /\ id[2] \in Nat /\ trimmed[id[1]] \in Nat /\ trimmed'[id[1]] \in Nat
        /\ trimmed[id[1]] <= trimmed'[id[1]]
    BY <1>1, <2>1, HandedOutIsOver, StreamsGrow DEF TypeOK, IndInv
  <2>3. CASE ~HandedOut(id)
    <3>1. /\ XReadGroup
          /\ \E w \in Workers : batch' = [batch EXCEPT ![w] = NewEntries]
      <4>1. ~Fault
        BY <1>1, <1>2 DEF Fault
      <4>2. ~UNCHANGED delivered
        BY <1>4, <2>1, <2>3 DEF HandedOut
      <4> QED BY <4>1, <4>2, OnlyReadsHandOut
    <3>2. id \in NewEntries \/ id[2] <= trimmed[id[1]]
      BY <1>4, <2>1, <2>3, <3>1, NewlyHandedOut
    <3>3. id \in NewEntries => Taken(id)'
      BY <1>1, <3>1 DEF Taken, TypeOK
    <3> QED BY <2>2, <3>2, <3>3
  <2>4. CASE HandedOut(id)
    <3>1. id \in Logged \/ Taken(id) \/ Doomed(EventAt(id)) \/ id[2] <= trimmed[id[1]]
      BY <1>2, <2>1, <2>4 DEF Accounted
    <3>2. CASE id \in Logged
      BY <3>2, LoggedGrows
    <3>3. CASE Taken(id)
      <4>1. PICK v \in Workers : id \in batch[v]
        BY <3>3 DEF Taken
      <4>2. CASE id \in batch'[v]
        BY <4>2 DEF Taken
      <4>3. CASE id \notin batch'[v]
        <5>1. PICK w \in Workers : Progress(w)
          BY <1>2, <4>1, <4>3 DEF Publish, vars
        <5>2. id \in Logged \/ Doomed(EventAt(id))
          BY <1>2, <4>1, <4>3, <5>1, LetsGo
        <5> QED BY <2>1, <5>2, LoggedGrows
      <4> QED BY <4>2, <4>3
    <3> QED BY <2>1, <2>2, <3>1, <3>2, <3>3
  <2> QED BY <2>3, <2>4
<1>5. CASE \E e \in Events : Publish(e)
  <2>1. PICK e \in Events : Publish(e)
    BY <1>5
  <2>2. XAdd(e) /\ publish[e] # "accepted" /\ publish' = [publish EXCEPT ![e] = "accepted"]
    BY <2>1 DEF Publish
  <2>3. PICK n : n = <<StreamOf[e], Len(stream[StreamOf[e]]) + 1>>
    OBVIOUS
  <2>4. Entries' = Entries \cup {n} /\ n \notin Entries /\ EventAt(n)' = e
    BY <1>1, <2>2, <2>3, XAddEntry
  <2>5. \A id \in Entries : EventAt(id) # e /\ publish[EventAt(id)] = "accepted"
    BY <1>2, <2>2 DEF Accounted
  <2>6. \A id \in Entries' : publish'[EventAt(id)'] = "accepted"
    BY <1>1, <1>3, <2>2, <2>4, <2>5 DEF TypeOK
  <2>7. \A a, b \in Entries' : EventAt(a)' = EventAt(b)' => a = b
    BY <1>2, <1>3, <2>4, <2>5 DEF Accounted
  <2> QED BY <1>4, <2>6, <2>7
<1>6. CASE ~\E e \in Events : Publish(e)
  <2>1. UNCHANGED <<stream, publish>>
    BY <1>2, <1>6 DEF Progress, Boot, Read, XReadGroup, RecordActivity, RunSpecificHandler,
        HandleUserCreatedByAdmin, HandleUserRegistered, InsertCredential, Commit, Ack, Fail, GoOn,
        redisVars, vars
  <2>2. Entries' = Entries
    BY <2>1 DEF Entries
  <2> QED BY <1>2, <1>3, <1>4, <2>1, <2>2 DEF Accounted
<1> QED BY <1>5, <1>6

\* When nothing failed, an entry is lost only if its handlers cannot but raise
\* or it was trimmed: neither the batches nor any number of processes lose one.
THEOREM LossNeedsACauseHolds == Spec /\ OneCreationPerUser => []LossNeedsACause
<1>1. Init /\ OneCreationPerUser => Traced /\ Accounted
  <2>1. Init => Entries = {}
    <3>1. Init => \A s \in Streams : {s} \X (1 .. Len(stream[s])) = {}
      BY DEF Init
    <3> QED BY <3>1 DEF Entries
  <2> QED BY <2>1 DEF Init, Accounted, Traced, CredentialsTraced
<1>2. IndInv /\ Accounted => LossNeedsACause
  <2> SUFFICES ASSUME IndInv, Accounted, faults = 0, NEW id \in Entries, Lost(id)
               PROVE  Doomed(EventAt(id)) \/ id[2] <= trimmed[id[1]]
    BY DEF LossNeedsACause
  <2>1. id \notin Logged /\ ~Taken(id) /\ ~Waits(id)
    BY Fate DEF Lost
  <2>2. /\ id[2] \in Nat /\ delivered[id[1]] \in Nat /\ trimmed[id[1]] \in Nat
        /\ ReadFrom(id[1]) \in {delivered[id[1]], trimmed[id[1]]}
    BY HandedOutIsOver, ReadRange, ConstantsAssumption DEF IndInv, TypeOK
  <2>3. HandedOut(id) \/ id[2] <= trimmed[id[1]]
    BY <2>1, <2>2 DEF Waits, HandedOut
  <2> QED BY <2>1, <2>3 DEF Accounted
<1> QED BY <1>1, <1>2, TracedStep, AccountedStep, Invariance, PTL DEF Spec
=============================================================================

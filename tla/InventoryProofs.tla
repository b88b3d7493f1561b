--------------------------- MODULE InventoryProofs ---------------------------
(***************************************************************************)
(* Proofs about Inventory, for any number of requests, clients, devices    *)
(* and names, and any subset of the operations.                            *)
(***************************************************************************)
EXTENDS Inventory, TLAPS

\* A request before and after its commit.
Uncommitted == {"new", "probing", "ready", "flushed", "fetching", "syncing", "inserting", "reloading"}
Afterwards == {"committed", "refreshed"}
Syncing == {"fetching", "syncing", "inserting", "reloading"}
OnDevices == {"create_device", "update_device", "delete_device"}

\* Request r at step p with operation o: which operations come to the step,
\* whether it has committed, what it may link to.
Fits(r, p, o) ==
  /\ p = "new" => o = NoOp
  /\ p = "probing" => o.kind = "create_device"
  /\ p = "flushed" => o.kind \in OnDevices
  /\ p \in Syncing => o.kind = "sync_device_vdoms"
  /\ o.kind \in {"create_vdom", "sync_device_vdoms"} => o.id[1] = r
  /\ o.kind \in {"create_device", "create_vdom"} => o.client \in onceActive \cup {NoClient}
  /\ o.kind = "update_vdom" /\ "client" \in DOMAIN o.change => o.change.client \in onceActive

Commits(r, p) ==
  /\ p \in Uncommitted => r \notin committed
  /\ p \in Afterwards => r \in committed

\* Two device rows, stored or flushed, that the unique indexes keep apart.
Clash(a, b) == a.host = b.host \/ (a.serial = b.serial /\ a.serial # NoSerial)

\* A flushed device clashes with no stored one and no other flushed one.
Reserved ==
  \A r \in Flushed("create_device") :
    /\ \A d \in DOMAIN devices : ~Clash(op[r], devices[d])
    /\ \A q \in Flushed("create_device") \ {r} : ~Clash(op[r], op[q])

ActiveKnown == \A c \in DOMAIN clients : clients[c].active => c \in onceActive

IndInv ==
  /\ TypeOK
  /\ \A r \in Requests : Fits(r, pc[r], op[r]) /\ Commits(r, pc[r])
  /\ Reserved
  /\ Consistent
  /\ AllOrNothing
  /\ ActiveKnown
  /\ LinkedOnlyOnceActive
-----------------------------------------------------------------------------
(* Tables.                                                                 *)

\* The keys and rows of a table.
LEMMA TableRows ==
  ASSUME NEW I, NEW R, NEW t \in UNION {[S -> R] : S \in SUBSET I}
  PROVE  /\ DOMAIN t \subseteq I /\ \A i \in DOMAIN t : t[i] \in R
         /\ t = [i \in DOMAIN t |-> t[i]]
  OBVIOUS

\* A table with a row more, or with one replaced.
LEMMA PutTable ==
  ASSUME NEW I, NEW R, NEW t \in UNION {[S -> R] : S \in SUBSET I}, NEW id \in I, NEW row \in R
  PROVE  Put(t, id, row) \in UNION {[S -> R] : S \in SUBSET I}
<1>1. Put(t, id, row) \in [DOMAIN t \cup {id} -> R]
  BY TableRows DEF Put
<1>2. DOMAIN t \cup {id} \in SUBSET I
  BY TableRows
<1> QED BY <1>1, <1>2

\* A table with a row less.
LEMMA RemoveTable ==
  ASSUME NEW I, NEW R, NEW t \in UNION {[S -> R] : S \in SUBSET I}, NEW id
  PROVE  Remove(t, id) \in UNION {[S -> R] : S \in SUBSET I}
<1>1. Remove(t, id) \in [DOMAIN t \ {id} -> R]
  BY TableRows DEF Remove
<1>2. DOMAIN t \ {id} \in SUBSET I
  BY TableRows
<1> QED BY <1>1, <1>2

\* Clients and devices, row by row.
LEMMA TablesTyped ==
  ASSUME TypeOK
  PROVE  /\ DOMAIN clients \subseteq ClientIds /\ \A c \in DOMAIN clients : clients[c] \in ClientRows
         /\ DOMAIN devices \subseteq DeviceIds /\ \A d \in DOMAIN devices : devices[d] \in DeviceRows
BY TableRows DEF TypeOK
-----------------------------------------------------------------------------
(* One request moves.                                                      *)

Moves(r, p, o) ==
  /\ p \in Steps /\ o \in OpRecords
  /\ pc' = [pc EXCEPT ![r] = p]
  /\ op' = [op EXCEPT ![r] = o]

\* Nobody else has moved.
LEMMA MovesOne ==
  ASSUME TypeOK, NEW r \in Requests, NEW p, NEW o, Moves(r, p, o)
  PROVE  /\ pc' \in [Requests -> Steps] /\ op' \in [Requests -> OpRecords]
         /\ pc'[r] = p /\ op'[r] = o
         /\ \A q \in Requests \ {r} : pc'[q] = pc[q] /\ op'[q] = op[q]
BY DEF TypeOK, Moves

\* What fits the others still does, as a client once active stays one.
LEMMA AllFit ==
  ASSUME IndInv, NEW r \in Requests, NEW p, NEW o, Moves(r, p, o),
         onceActive \subseteq onceActive',
         committed' \in {committed, committed \cup {r}},
         Fits(r, p, o)', Commits(r, p)'
  PROVE  \A q \in Requests : Fits(q, pc[q], op[q])' /\ Commits(q, pc[q])'
<1>1. ASSUME NEW q \in Requests \ {r}
      PROVE  Fits(q, pc[q], op[q])' /\ Commits(q, pc[q])'
  <2>1. pc'[q] = pc[q] /\ op'[q] = op[q]
    BY MovesOne DEF IndInv
  <2>2. Fits(q, pc[q], op[q]) /\ Commits(q, pc[q])
    BY DEF IndInv
  <2> QED BY <2>1, <2>2 DEF Fits, Commits
<1>2. pc'[r] = p /\ op'[r] = o
  BY MovesOne DEF IndInv
<1>3. Fits(r, pc[r], op[r])' /\ Commits(r, pc[r])'
  BY <1>2 DEF Fits, Commits
<1> QED BY <1>1, <1>3

\* Nothing stored or flushed by another request keeps row o out.
Free(r, o) ==
  /\ \A d \in DOMAIN devices : ~Clash(o, devices[d])
  /\ \A q \in Flushed("create_device") \ {r} : ~Clash(o, op[q])

\* The reservations stand if a newly flushed device is free.
LEMMA ReservedKept ==
  ASSUME IndInv, NEW r \in Requests, NEW p, NEW o, Moves(r, p, o), UNCHANGED devices,
         p = "flushed" /\ o.kind = "create_device" => Free(r, o)
  PROVE  Reserved'
<1> DEFINE F == Flushed("create_device")
<1>1. /\ pc'[r] = p /\ op'[r] = o
      /\ \A q \in Requests \ {r} : pc'[q] = pc[q] /\ op'[q] = op[q]
  BY MovesOne DEF IndInv
<1>2. F' = {q \in Requests : pc'[q] = "flushed" /\ op'[q].kind = "create_device"}
  BY DEF Flushed
<1>3. \A q \in F' \ {r} : q \in F /\ op'[q] = op[q]
  BY <1>1, <1>2 DEF Flushed
<1>4. r \in F' => Free(r, o)
  BY <1>1, <1>2
<1>5. ASSUME NEW q \in F', NEW d \in DOMAIN devices' PROVE ~Clash(op'[q], devices'[d])
  <2>1. CASE q = r
    BY <1>1, <1>4, <1>5, <2>1 DEF Free
  <2>2. CASE q # r
    BY <1>3, <1>5, <2>2 DEF IndInv, Reserved
  <2> QED BY <2>1, <2>2
<1>6. ASSUME NEW q \in F', NEW u \in F' \ {q} PROVE ~Clash(op'[q], op'[u])
  <2>1. CASE q = r
    BY <1>1, <1>3, <1>4, <1>6, <2>1 DEF Free
  <2>2. CASE u = r
    <3>1. ~Clash(o, op[q])
      BY <1>3, <1>4, <1>6, <2>2 DEF Free
    <3>2. op'[q] = op[q] /\ op'[u] = o
      BY <1>1, <1>3, <1>6, <2>2
    <3> QED BY <3>1, <3>2 DEF Clash
  <2>3. CASE q # r /\ u # r
    BY <1>3, <1>6, <2>3 DEF IndInv, Reserved
  <2> QED BY <2>1, <2>2, <2>3
<1> QED BY <1>5, <1>6 DEF Reserved, Clash

\* Nobody is to be found in the tables by a name he has not committed.
LEMMA NamesKept ==
  ASSUME IndInv, NEW r \in Requests, NEW p, NEW o, Moves(r, p, o),
         committed' \in {committed, committed \cup {r}},
         DOMAIN clients' \subseteq DOMAIN clients \cup (IF r \in committed' THEN {r} ELSE {}),
         DOMAIN devices' \subseteq DOMAIN devices \cup (IF r \in committed' THEN {r} ELSE {}),
         \A v \in DOMAIN vdoms' \ DOMAIN vdoms :
           v[1] = r /\ (r \in committed' \/ o.kind = "sync_device_vdoms"),
         op[r].kind = "sync_device_vdoms" => o.kind = "sync_device_vdoms"
  PROVE  AllOrNothing'
<1>1. /\ pc'[r] = p /\ op'[r] = o
      /\ \A q \in Requests \ {r} : pc'[q] = pc[q] /\ op'[q] = op[q]
  BY MovesOne DEF IndInv
<1>2. ASSUME NEW q \in Requests \ committed'
      PROVE  q \notin DOMAIN clients' \cup DOMAIN devices'
  BY DEF IndInv, AllOrNothing
<1>3. ASSUME NEW q \in Requests \ committed', op'[q].kind # "sync_device_vdoms", NEW n \in Names
      PROVE  <<q, n>> \notin DOMAIN vdoms'
  <2>1. op[q].kind # "sync_device_vdoms" /\ q \notin committed
    BY <1>1, <1>3
  <2>2. <<q, n>> \notin DOMAIN vdoms
    BY <1>3, <2>1 DEF IndInv, AllOrNothing
  <2>3. <<q, n>> \in DOMAIN vdoms' => q = r
    BY <2>2
  <2> QED BY <1>1, <1>3, <2>2, <2>3
<1> QED BY <1>2, <1>3 DEF AllOrNothing

\* A step that leaves the tables alone.
LEMMA Quiet ==
  ASSUME IndInv, NEW r \in Requests, NEW p, NEW o, Moves(r, p, o),
         UNCHANGED <<tables, onceActive, deleted>>,
         todo' \in [Requests -> SUBSET Names],
         published' \in SUBSET Requests,
         committed' \in {committed, committed \cup {r}},
         Fits(r, p, o), Commits(r, p)',
         p = "flushed" /\ o.kind = "create_device" => Free(r, o),
         op[r].kind = "sync_device_vdoms" => o.kind = "sync_device_vdoms"
  PROVE  IndInv'
<1>1. UNCHANGED <<clients, devices, vdoms>>
  BY DEF tables
<1>2. TypeOK'
  <2>1. pc' \in [Requests -> Steps] /\ op' \in [Requests -> OpRecords]
    BY MovesOne DEF IndInv
  <2>2. committed' \in SUBSET Requests
    BY DEF IndInv, TypeOK
  <2> QED BY <1>1, <2>1, <2>2 DEF IndInv, TypeOK
<1>3. \A q \in Requests : Fits(q, pc[q], op[q])' /\ Commits(q, pc[q])'
  <2>1. Fits(r, p, o)'
    BY DEF Fits
  <2> QED BY <2>1, AllFit
<1>4. Reserved'
  BY <1>1, ReservedKept
<1>5. Consistent' /\ ActiveKnown' /\ LinkedOnlyOnceActive'
  BY <1>1 DEF IndInv, Consistent, ActiveKnown, LinkedOnlyOnceActive
<1>6. AllOrNothing'
  BY <1>1, NamesKept
<1> QED BY <1>2, <1>3, <1>4, <1>5, <1>6 DEF IndInv

\* A step that keeps the operation and everything but the request's step.
LEMMA GoesOn ==
  ASSUME IndInv, NEW r \in Requests, NEW p \in Steps, GoTo(r, p),
         UNCHANGED <<tables, op, onceActive, deleted>>,
         todo' \in [Requests -> SUBSET Names],
         published' \in SUBSET Requests,
         committed' \in {committed, committed \cup {r}},
         Fits(r, p, op[r]), Commits(r, p)',
         p = "flushed" /\ op[r].kind = "create_device" => Free(r, op[r])
  PROVE  IndInv'
<1>1. op \in [Requests -> OpRecords]
  BY DEF IndInv, TypeOK
<1>2. Moves(r, p, op[r])
  BY <1>1 DEF Moves, GoTo
<1>3. PICK o : o = op[r]
  OBVIOUS
<1> QED BY <1>2, <1>3, Quiet

\* An error leaves everything as it was.
LEMMA ErrorStep ==
  ASSUME IndInv, NEW r \in Requests, Error(r), published' \in SUBSET Requests
  PROVE  IndInv'
<1>1. GoTo(r, "error") /\ UNCHANGED <<tables, op, todo, committed, onceActive, deleted>>
  BY DEF Error, history
<1>2. Fits(r, pc[r], op[r])
  BY DEF IndInv
<1>3. Fits(r, "error", op[r]) /\ Commits(r, "error")'
  BY <1>2 DEF Fits, Commits, Uncommitted, Afterwards, Syncing
<1>4. "error" \in Steps /\ todo' \in [Requests -> SUBSET Names]
  BY <1>1 DEF Steps, IndInv, TypeOK
<1> QED BY <1>1, <1>3, <1>4, GoesOn
-----------------------------------------------------------------------------
(* Steps that write nothing.                                               *)

\* What is linkable has been active.
LEMMA LinkableKnown ==
  ASSUME IndInv, NEW c, Linkable(c)
  PROVE  c \in onceActive \cup {NoClient}
BY DEF IndInv, ActiveKnown, Linkable, ClientActive

\* A new request validates its arguments: it fails or starts its operation.
LEMMA ArrivalStarts ==
  ASSUME IndInv, NEW r \in Requests, Arrival(r)
  PROVE  /\ pc[r] = "new" /\ UNCHANGED published
         /\ \/ Error(r)
            \/ \E o \in OpRecords, p \in {"ready", "probing", "fetching"} :
                 Start(r, o, p) /\ Fits(r, p, o)
<1> DEFINE Begins == \E o \in OpRecords, p \in {"ready", "probing", "fetching"} :
                       Start(r, o, p) /\ Fits(r, p, o)
           Goal == pc[r] = "new" /\ UNCHANGED published /\ (Error(r) \/ Begins)
<1>0. TypeOK /\ r \in ClientIds /\ r \in DeviceIds
  BY DEF IndInv, ClientIds, DeviceIds
<1> SUFFICES Goal
  OBVIOUS
<1> USE DEF New
<1>1. CASE CreateClient(r)
  <2>1. PICK n \in ClientNames, a \in BOOLEAN :
          /\ pc[r] = "new" /\ UNCHANGED published
          /\ Error(r) \/ Start(r, [kind |-> "create_client", id |-> r, name |-> n, active |-> a], "ready")
    BY <1>1 DEF CreateClient
  <2> DEFINE o == [kind |-> "create_client", id |-> r, name |-> n, active |-> a]
  <2>2. o \in OpRecords /\ Fits(r, "ready", o)
    BY DEF OpRecords, Fits, Syncing
  <2> QED BY <2>1, <2>2
<1>2. CASE UpdateClient(r)
  <2>1. PICK c \in ClientIds, change \in ClientChanges :
          /\ pc[r] = "new" /\ UNCHANGED published
          /\ \/ Error(r)
             \/ /\ c \in DOMAIN clients
                /\ Start(r, [kind |-> "update_client", id |-> c, change |-> change,
                             loaded |-> clients[c]], "ready")
    BY <1>2 DEF UpdateClient
  <2> DEFINE o == [kind |-> "update_client", id |-> c, change |-> change, loaded |-> clients[c]]
  <2>2. c \in DOMAIN clients => o \in OpRecords
    BY <1>0, TablesTyped DEF OpRecords
  <2>3. Fits(r, "ready", o)
    BY DEF Fits, Syncing
  <2> QED BY <2>1, <2>2, <2>3
<1>3. CASE DeleteClient(r)
  <2>1. PICK c \in ClientIds :
          /\ pc[r] = "new" /\ UNCHANGED published
          /\ Error(r) \/ Start(r, [kind |-> "delete_client", id |-> c], "ready")
    BY <1>3 DEF DeleteClient
  <2> DEFINE o == [kind |-> "delete_client", id |-> c]
  <2>2. o \in OpRecords /\ Fits(r, "ready", o)
    BY DEF OpRecords, Fits, Syncing
  <2> QED BY <2>1, <2>2
<1>4. CASE CreateDevice(r)
  <2>1. PICK h \in Hosts, c \in ClientIds \cup {NoClient} :
          /\ pc[r] = "new" /\ UNCHANGED published
          /\ \/ Error(r)
             \/ /\ Linkable(c)
                /\ Start(r, [kind |-> "create_device", id |-> r, host |-> h, client |-> c,
                             serial |-> NoSerial], "probing")
    BY <1>4 DEF CreateDevice
  <2> DEFINE o == [kind |-> "create_device", id |-> r, host |-> h, client |-> c, serial |-> NoSerial]
  <2>2. o \in OpRecords
    BY DEF OpRecords
  <2>3. Linkable(c) => Fits(r, "probing", o)
    BY LinkableKnown DEF Fits, Syncing
  <2> QED BY <2>1, <2>2, <2>3
<1>5. CASE UpdateDevice(r)
  <2>1. PICK d \in DeviceIds, h \in Hosts :
          /\ pc[r] = "new" /\ UNCHANGED published
          /\ Error(r) \/ Start(r, [kind |-> "update_device", id |-> d, host |-> h], "ready")
    BY <1>5 DEF UpdateDevice
  <2> DEFINE o == [kind |-> "update_device", id |-> d, host |-> h]
  <2>2. o \in OpRecords /\ Fits(r, "ready", o)
    BY DEF OpRecords, Fits, Syncing
  <2> QED BY <2>1, <2>2
<1>6. CASE DeleteDevice(r)
  <2>1. PICK d \in DeviceIds :
          /\ pc[r] = "new" /\ UNCHANGED published
          /\ Error(r) \/ Start(r, [kind |-> "delete_device", id |-> d], "ready")
    BY <1>6 DEF DeleteDevice
  <2> DEFINE o == [kind |-> "delete_device", id |-> d]
  <2>2. o \in OpRecords /\ Fits(r, "ready", o)
    BY DEF OpRecords, Fits, Syncing
  <2> QED BY <2>1, <2>2
<1>7. CASE CreateVdom(r)
  <2>1. PICK d \in DeviceIds, n \in Names, c \in ClientIds \cup {NoClient} :
          /\ pc[r] = "new" /\ UNCHANGED published
          /\ \/ Error(r)
             \/ /\ Linkable(c)
                /\ Start(r, [kind |-> "create_vdom", id |-> <<r, n>>, device |-> d,
                             client |-> c], "ready")
    BY <1>7 DEF CreateVdom
  <2> DEFINE o == [kind |-> "create_vdom", id |-> <<r, n>>, device |-> d, client |-> c]
  <2>2. o \in OpRecords
    BY <1>0 DEF OpRecords, VdomIds
  <2>3. Linkable(c) => Fits(r, "ready", o)
    BY LinkableKnown DEF Fits, Syncing
  <2> QED BY <2>1, <2>2, <2>3
<1>8. CASE UpdateVdom(r)
  <2>1. PICK v \in VdomIds, asked \in VdomChanges :
          /\ pc[r] = "new" /\ UNCHANGED published
          /\ \/ Error(r)
             \/ /\ v \in DOMAIN vdoms
                /\ "client" \in DOMAIN Effective(asked) => ClientActive(Effective(asked).client)
                /\ Start(r, [kind |-> "update_vdom", id |-> v, asked |-> asked,
                             change |-> Effective(asked), loaded |-> vdoms[v]], "ready")
    BY <1>8 DEF UpdateVdom
  <2> DEFINE o == [kind |-> "update_vdom", id |-> v, asked |-> asked,
                   change |-> Effective(asked), loaded |-> vdoms[v]]
  <2>2. v \in DOMAIN vdoms => o \in OpRecords
    BY <1>0 DEF OpRecords, TypeOK
  <2>3. ("client" \in DOMAIN Effective(asked) => ClientActive(Effective(asked).client))
          => Fits(r, "ready", o)
    BY DEF Fits, Syncing, IndInv, ActiveKnown, ClientActive
  <2> QED BY <2>1, <2>2, <2>3
<1>9. CASE DeleteVdom(r)
  <2>1. PICK v \in VdomIds :
          /\ pc[r] = "new" /\ UNCHANGED published
          /\ Error(r) \/ Start(r, [kind |-> "delete_vdom", id |-> v], "ready")
    BY <1>9 DEF DeleteVdom
  <2> DEFINE o == [kind |-> "delete_vdom", id |-> v]
  <2>2. o \in OpRecords /\ Fits(r, "ready", o)
    BY DEF OpRecords, Fits, Syncing
  <2> QED BY <2>1, <2>2
<1>10. CASE SyncDeviceVdoms(r)
  <2>1. PICK d \in DeviceIds :
          /\ pc[r] = "new" /\ UNCHANGED published
          /\ \/ Error(r)
             \/ Start(r, [kind |-> "sync_device_vdoms", device |-> d, found |-> {},
                          id |-> <<r, Root>>], "fetching")
    BY <1>10 DEF SyncDeviceVdoms
  <2> DEFINE o == [kind |-> "sync_device_vdoms", device |-> d, found |-> {}, id |-> <<r, Root>>]
  <2>2. o \in OpRecords
    BY <1>0, InventoryAssumption DEF OpRecords, VdomIds, InventoryAssumption
  <2>3. Fits(r, "fetching", o)
    BY DEF Fits, Syncing
  <2> QED BY <2>1, <2>2, <2>3
<1> QED BY <1>1, <1>2, <1>3, <1>4, <1>5, <1>6, <1>7, <1>8, <1>9, <1>10 DEF Arrival

\* The first step of every operation keeps the invariant.
LEMMA ArrivalStep ==
  ASSUME IndInv, NEW r \in Requests, Arrival(r)
  PROVE  IndInv'
<1>1. pc[r] = "new" /\ UNCHANGED published
  BY ArrivalStarts
<1>2. published' \in SUBSET Requests
  BY <1>1 DEF IndInv, TypeOK
<1>3. CASE Error(r)
  BY <1>2, <1>3, ErrorStep
<1>4. CASE ~Error(r)
  <2>1. PICK o \in OpRecords, p \in {"ready", "probing", "fetching"} :
          Start(r, o, p) /\ Fits(r, p, o)
    BY <1>4, ArrivalStarts
  <2>2. Moves(r, p, o) /\ UNCHANGED <<tables, todo, committed, onceActive, deleted>>
    BY <2>1 DEF Start, GoTo, Moves, Steps, history
  <2>3. todo' \in [Requests -> SUBSET Names]
    BY <2>2 DEF IndInv, TypeOK
  <2>4. r \notin committed /\ op[r] = NoOp
    BY <1>1 DEF IndInv, Fits, Commits, Uncommitted
  <2>5. Commits(r, p)'
    BY <2>1, <2>2, <2>4 DEF Commits, Afterwards
  <2>6. op[r].kind # "sync_device_vdoms"
    BY <2>4 DEF NoOp
  <2> QED BY <1>2, <2>1, <2>2, <2>3, <2>5, <2>6, Quiet
<1> QED BY <1>3, <1>4

\* The steps on the way to the commit that keep the operation as it is.
LEMMA FlushStep ==
  ASSUME IndInv, NEW r \in Requests,
         FlushNewDevice(r) \/ FlushDevice(r) \/ FlushDeviceDeletion(r)
  PROVE  IndInv'
<1>1. /\ pc[r] = "ready" /\ op[r].kind \in OnDevices /\ published' \in SUBSET Requests
      /\ \/ Error(r)
         \/ GoTo(r, "flushed") /\ UNCHANGED <<tables, op, todo, history>>
  BY DEF FlushNewDevice, FlushDevice, FlushDeviceDeletion, Ready, OnDevices, IndInv, TypeOK
<1>2. CASE Error(r)
  BY <1>1, <1>2, ErrorStep
<1>3. CASE ~Error(r)
  <2>1. GoTo(r, "flushed") /\ UNCHANGED <<tables, op, todo, committed, onceActive, deleted>>
    BY <1>1, <1>3 DEF history
  <2>2. Fits(r, "ready", op[r]) /\ r \notin committed
    BY <1>1 DEF IndInv, Commits, Uncommitted
  <2>3. Fits(r, "flushed", op[r]) /\ Commits(r, "flushed")'
    BY <1>1, <2>1, <2>2 DEF Fits, Commits, Syncing, Uncommitted, Afterwards
  <2>4. ASSUME op[r].kind = "create_device" PROVE Free(r, op[r])
    <3>1. /\ ~HostHeld(op[r].host) /\ ~SerialHeld(op[r].serial)
          /\ ~HostTaken(op[r].host, r) /\ ~SerialTaken(op[r].serial)
      BY <1>3, <2>4 DEF FlushNewDevice, FlushDevice, FlushDeviceDeletion, Ready
    <3>2. r \notin DOMAIN devices
      BY <2>2 DEF IndInv, AllOrNothing
    <3>3. \A d \in DOMAIN devices : ~Clash(op[r], devices[d])
      BY <3>1, <3>2 DEF Clash, HostTaken, SerialTaken
    <3>4. \A q \in Flushed("create_device") : ~Clash(op[r], op[q])
      BY <3>1 DEF Clash, HostHeld, SerialHeld
    <3> QED BY <3>3, <3>4 DEF Free
  <2>5. "flushed" \in Steps /\ todo' \in [Requests -> SUBSET Names]
    BY <2>1 DEF Steps, IndInv, TypeOK
  <2> QED BY <1>1, <2>1, <2>3, <2>4, <2>5, GoesOn
<1> QED BY <1>2, <1>3

\* The probe, and the synchronisation between two inserts.
LEMMA ProbeStep ==
  ASSUME IndInv, NEW r \in Requests, Probe(r)
  PROVE  IndInv'
<1>1. PICK s \in Serials \cup {NoSerial} :
        /\ pc[r] = "probing" /\ UNCHANGED published
        /\ Start(r, [op[r] EXCEPT !.serial = s], "ready")
  BY DEF Probe
<1>2. op[r] \in OpRecords /\ op[r].kind = "create_device" /\ r \notin committed
      /\ op[r].client \in onceActive \cup {NoClient}
  BY <1>1 DEF IndInv, TypeOK, Fits, Commits, Uncommitted
<1>3. op[r] \in [kind : {"create_device"}, id : Requests, host : Hosts,
                 client : ClientIds \cup {NoClient}, serial : Serials \cup {NoSerial}]
  BY <1>2 DEF OpRecords, NoOp
<1>4. PICK o : o = [op[r] EXCEPT !.serial = s]
  OBVIOUS
<1>5. o \in [kind : {"create_device"}, id : Requests, host : Hosts,
             client : ClientIds \cup {NoClient}, serial : Serials \cup {NoSerial}]
  BY <1>3, <1>4
<1>6. o \in OpRecords /\ o.kind = "create_device" /\ o.client = op[r].client
  BY <1>3, <1>4, <1>5 DEF OpRecords
<1>7. Moves(r, "ready", o) /\ UNCHANGED <<tables, todo, committed, onceActive, deleted>>
  BY <1>1, <1>4, <1>6 DEF Moves, Start, GoTo, Steps, history
<1>8. Fits(r, "ready", o) /\ Commits(r, "ready")'
  BY <1>2, <1>6, <1>7 DEF Fits, Commits, Syncing, Afterwards
<1>9. todo' \in [Requests -> SUBSET Names] /\ published' \in SUBSET Requests
  BY <1>1, <1>7 DEF IndInv, TypeOK
<1> QED BY <1>2, <1>7, <1>8, <1>9, Quiet

SyncRecords == [kind : {"sync_device_vdoms"}, device : DeviceIds, found : SUBSET Names, id : VdomIds]

\* What a synchronisation carries.
LEMMA SyncShape ==
  ASSUME IndInv, NEW r \in Requests, op[r].kind = "sync_device_vdoms"
  PROVE  op[r] \in SyncRecords /\ op[r].id[1] = r
<1>1. op[r] \in OpRecords
  BY DEF IndInv, TypeOK
<1>2. op[r] \in SyncRecords
  BY <1>1 DEF OpRecords, SyncRecords, NoOp
<1>3. Fits(r, pc[r], op[r])
  BY DEF IndInv
<1> QED BY <1>2, <1>3 DEF Fits

\* Fetching and looking up keep the invariant.
LEMMA SyncStep ==
  ASSUME IndInv, NEW r \in Requests, FetchVdoms(r) \/ SyncLookup(r)
  PROVE  IndInv'
<1>0. pc[r] \in {"fetching", "syncing"} /\ UNCHANGED <<tables, published, committed, onceActive, deleted>>
  BY DEF FetchVdoms, SyncLookup, history
<1>1. op[r] \in SyncRecords /\ op[r].id[1] = r /\ r \notin committed /\ op[r].kind = "sync_device_vdoms"
  <2>1. op[r].kind = "sync_device_vdoms" /\ r \notin committed
    BY <1>0 DEF IndInv, Fits, Commits, Syncing, Uncommitted
  <2> QED BY <2>1, SyncShape
<1>2. todo \in [Requests -> SUBSET Names] /\ op \in [Requests -> OpRecords]
  BY DEF IndInv, TypeOK
<1>3. \E o \in SyncRecords, p \in Syncing :
        /\ pc' = [pc EXCEPT ![r] = p] /\ op' = [op EXCEPT ![r] = o]
        /\ o.id[1] = r
        /\ todo' \in [Requests -> SUBSET Names]
  <2>1. CASE FetchVdoms(r)
    <3>1. PICK found \in SUBSET Names :
            /\ op' = [op EXCEPT ![r].found = found]
            /\ todo' = [todo EXCEPT ![r] = found]
            /\ pc' = [pc EXCEPT ![r] = "syncing"]
      BY <2>1 DEF FetchVdoms, GoTo
    <3> DEFINE o == [op[r] EXCEPT !.found = found]
    <3>2. o \in SyncRecords /\ o.id = op[r].id
      BY <1>1 DEF SyncRecords
    <3>3. op' = [op EXCEPT ![r] = o]
      BY <3>1
    <3>4. todo' \in [Requests -> SUBSET Names]
      BY <1>2, <3>1
    <3>5. "syncing" \in Syncing
      BY DEF Syncing
    <3>6. o.id[1] = r
      BY <1>1, <3>2
    <3> HIDE DEF o
    <3> QED BY <3>1, <3>2, <3>3, <3>4, <3>5, <3>6
  <2>2. CASE SyncLookup(r)
    <3>1. PICK n \in todo[r] :
            \/ todo' = [todo EXCEPT ![r] = @ \ {n}] /\ UNCHANGED <<pc, op>>
            \/ pc' = [pc EXCEPT ![r] = "inserting"] /\ op' = [op EXCEPT ![r].id = <<r, n>>] /\ UNCHANGED todo
      BY <2>2 DEF SyncLookup, GoTo
    <3>2. n \in Names
      BY <1>2, <3>1
    <3>3. CASE todo' = [todo EXCEPT ![r] = @ \ {n}] /\ UNCHANGED <<pc, op>>
      <4>1. pc' = [pc EXCEPT ![r] = pc[r]] /\ op' = [op EXCEPT ![r] = op[r]]
        BY <1>2, <3>3 DEF IndInv, TypeOK
      <4>2. todo' \in [Requests -> SUBSET Names]
        BY <1>2, <3>3
      <4>3. pc[r] \in Syncing
        BY <1>0 DEF Syncing
      <4> QED BY <1>1, <4>1, <4>2, <4>3
    <3>4. CASE pc' = [pc EXCEPT ![r] = "inserting"] /\ op' = [op EXCEPT ![r].id = <<r, n>>] /\ UNCHANGED todo
      <4> DEFINE o == [op[r] EXCEPT !.id = <<r, n>>]
      <4>1. o \in SyncRecords
        BY <1>1, <3>2 DEF SyncRecords, VdomIds, DeviceIds
      <4>2. op' = [op EXCEPT ![r] = o]
        BY <3>4
      <4>3. "inserting" \in Syncing /\ todo' \in [Requests -> SUBSET Names]
        BY <1>2, <3>4 DEF Syncing
      <4>4. o.id[1] = r
        BY <1>1 DEF SyncRecords
      <4> HIDE DEF o
      <4> QED BY <3>4, <4>1, <4>2, <4>3, <4>4
    <3> QED BY <3>1, <3>3, <3>4
  <2> QED BY <2>1, <2>2
<1>4. PICK o \in SyncRecords, p \in Syncing :
        /\ pc' = [pc EXCEPT ![r] = p] /\ op' = [op EXCEPT ![r] = o]
        /\ o.id[1] = r
        /\ todo' \in [Requests -> SUBSET Names]
  BY <1>3
<1>5. o \in OpRecords /\ o.kind = "sync_device_vdoms"
  BY DEF OpRecords, SyncRecords
<1>6. Moves(r, p, o) /\ Fits(r, p, o) /\ Commits(r, p)'
  BY <1>0, <1>1, <1>4, <1>5 DEF Moves, Fits, Commits, Syncing, Steps, Afterwards
<1>7. p # "flushed" /\ published' \in SUBSET Requests
  BY <1>0 DEF Syncing, IndInv, TypeOK
<1> QED BY <1>0, <1>4, <1>5, <1>6, <1>7, Quiet

\* A step that only moves the request on, to one of these.
LEMMA OnlyOn ==
  ASSUME IndInv, NEW r \in Requests, NEW p \in {"syncing", "refreshed", "ok", "error"},
         GoTo(r, p), UNCHANGED <<tables, op, onceActive, deleted>>,
         todo' \in [Requests -> SUBSET Names],
         published' \in {published, published \cup {r}},
         committed' \in {committed, committed \cup {r}},
         p = "syncing" => op[r].kind = "sync_device_vdoms" /\ r \notin committed',
         p = "refreshed" => r \in committed'
  PROVE  IndInv'
<1>1. Fits(r, pc[r], op[r])
  BY DEF IndInv
<1>2. Fits(r, p, op[r]) /\ Commits(r, p)' /\ p \in Steps /\ p # "flushed"
  BY <1>1 DEF Fits, Commits, Syncing, Uncommitted, Afterwards, Steps
<1>3. published' \in SUBSET Requests
  BY DEF IndInv, TypeOK
<1> QED BY <1>2, <1>3, GoesOn

\* So do the steps after the commit, and every failure.
LEMMA EndStep ==
  ASSUME IndInv, NEW r \in Requests,
         SyncReload(r) \/ SyncDone(r) \/ Refresh(r) \/ Publish(r) \/ PublishFault(r) \/ Abort(r)
  PROVE  IndInv'
<1>1. published' \in {published, published \cup {r}} /\ published' \in SUBSET Requests
  BY DEF SyncReload, SyncDone, Refresh, Publish, PublishFault, Abort, IndInv, TypeOK
<1>2. CASE Error(r)
  BY <1>1, <1>2, ErrorStep
<1>3. todo \in [Requests -> SUBSET Names] /\ Fits(r, pc[r], op[r]) /\ Commits(r, pc[r])
  BY DEF IndInv, TypeOK
<1>4. CASE ~Error(r) /\ SyncReload(r)
  <2>1. /\ pc[r] = "reloading" /\ GoTo(r, "syncing")
        /\ todo' = [todo EXCEPT ![r] = @ \ {op[r].id[2]}]
        /\ UNCHANGED <<tables, op, committed, onceActive, deleted>>
    BY <1>4 DEF SyncReload, history
  <2>2. todo' \in [Requests -> SUBSET Names]
    BY <1>3, <2>1
  <2>3. op[r].kind = "sync_device_vdoms" /\ r \notin committed'
    BY <1>3, <2>1 DEF Fits, Commits, Syncing, Uncommitted
  <2> QED BY <1>1, <2>1, <2>2, <2>3, OnlyOn
<1>5. CASE SyncDone(r)
  BY <1>1, <1>3, <1>5, OnlyOn DEF SyncDone, Done
<1>6. CASE ~Error(r) /\ Refresh(r)
  <2>1. pc[r] = "committed" /\ GoTo(r, "refreshed") /\ UNCHANGED <<tables, op, todo, history>>
    BY <1>6 DEF Refresh
  <2>2. r \in committed
    BY <1>3, <2>1 DEF Commits, Afterwards
  <2> QED BY <1>1, <1>3, <2>1, <2>2, OnlyOn DEF history
<1>7. CASE Publish(r)
  BY <1>1, <1>3, <1>7, OnlyOn DEF Publish, history
<1>8. CASE PublishFault(r)
  <2>1. PICK p \in {"ok", "error"} : GoTo(r, p)
    BY <1>8 DEF PublishFault
  <2> QED BY <1>1, <1>3, <1>8, <2>1, OnlyOn DEF PublishFault, history
<1> QED BY <1>2, <1>4, <1>5, <1>6, <1>7, <1>8 DEF Abort
-----------------------------------------------------------------------------
(* Steps that write.                                                       *)

\* The parts of Consistent, one per key.
RefsHold ==
  \A v \in DOMAIN vdoms :
    vdoms[v].device \in DOMAIN devices /\ vdoms[v].client \in DOMAIN clients \cup {NoClient}
VdomsUnique ==
  \A v, w \in DOMAIN vdoms :
    vdoms[v].device = vdoms[w].device /\ vdoms[v].name = vdoms[w].name => v = w
DevicesUnique == \A d, e \in DOMAIN devices : Clash(devices[d], devices[e]) => d = e
ClientsUnique == \A c, e \in DOMAIN clients : clients[c].name = clients[e].name => c = e

\* Consistent is the conjunction of the keys.
LEMMA ConsistentParts ==
  /\ Consistent <=> RefsHold /\ VdomsUnique /\ DevicesUnique /\ ClientsUnique
  /\ Consistent' <=> RefsHold' /\ VdomsUnique' /\ DevicesUnique' /\ ClientsUnique'
BY DEF Consistent, RefsHold, VdomsUnique, DevicesUnique, ClientsUnique, Clash

\* A writing step: what remains to be shown of the tables.
LEMMA Writes ==
  ASSUME IndInv, NEW r \in Requests, NEW p \in Steps, GoTo(r, p), UNCHANGED <<op, todo, published>>,
         clients' \in UNION {[S -> ClientRows] : S \in SUBSET ClientIds},
         devices' \in UNION {[S -> DeviceRows] : S \in SUBSET DeviceIds},
         DOMAIN vdoms' \subseteq VdomIds, \A v \in DOMAIN vdoms' : vdoms'[v] \in VdomRows,
         onceActive \subseteq onceActive', onceActive' \subseteq ClientIds,
         deleted' \subseteq DeviceIds \X Names,
         committed' \in {committed, committed \cup {r}},
         Fits(r, p, op[r]), Commits(r, p)',
         DOMAIN clients' \subseteq DOMAIN clients \cup (IF r \in committed' THEN {r} ELSE {}),
         DOMAIN devices' \subseteq DOMAIN devices \cup (IF r \in committed' THEN {r} ELSE {}),
         \A v \in DOMAIN vdoms' \ DOMAIN vdoms :
           v[1] = r /\ (r \in committed' \/ op[r].kind = "sync_device_vdoms"),
         Reserved', Consistent', ActiveKnown', LinkedOnlyOnceActive'
  PROVE  IndInv'
<1>1. op \in [Requests -> OpRecords]
  BY DEF IndInv, TypeOK
<1>2. PICK o : o = op[r]
  OBVIOUS
<1>3. Moves(r, p, o)
  BY <1>1, <1>2 DEF Moves, GoTo
<1>4. TypeOK'
  <2>1. pc' \in [Requests -> Steps] /\ op' \in [Requests -> OpRecords]
    BY <1>3, MovesOne DEF IndInv
  <2>2. committed' \in SUBSET Requests
    BY DEF IndInv, TypeOK
  <2> QED BY <2>1, <2>2 DEF IndInv, TypeOK
<1>5. \A q \in Requests : Fits(q, pc[q], op[q])' /\ Commits(q, pc[q])'
  <2>1. Fits(r, p, o)'
    BY <1>2 DEF Fits
  <2> QED BY <1>3, <2>1, AllFit
<1>6. AllOrNothing'
  BY <1>2, <1>3, NamesKept
<1> QED BY <1>4, <1>5, <1>6 DEF IndInv

\* Where the devices stay as they are, so do the reservations.
LEMMA ReservedStays ==
  ASSUME IndInv, NEW r \in Requests, NEW p \in Steps, GoTo(r, p), UNCHANGED <<op, devices>>,
         p # "flushed"
  PROVE  Reserved'
<1>1. op \in [Requests -> OpRecords]
  BY DEF IndInv, TypeOK
<1>2. PICK o : o = op[r]
  OBVIOUS
<1>3. Moves(r, p, o)
  BY <1>1, <1>2 DEF Moves, GoTo
<1> QED BY <1>3, ReservedKept

\* The name of a new client is free when it is inserted.
LEMMA InsertClientStep ==
  ASSUME IndInv, NEW r \in Requests, InsertClient(r)
  PROVE  IndInv'
<1>1. CASE Error(r)
  BY <1>1, ErrorStep DEF InsertClient, IndInv, TypeOK
<1>2. CASE ~Error(r)
  <2> PICK row : row = [name |-> op[r].name, active |-> op[r].active]
    OBVIOUS
  <2>1. /\ pc[r] = "ready" /\ op[r].kind = "create_client" /\ ~NameTaken(op[r].name, r)
        /\ clients' = Put(clients, r, row)
        /\ onceActive' = onceActive \cup (IF op[r].active THEN {r} ELSE {})
        /\ GoTo(r, "committed") /\ committed' = committed \cup {r}
        /\ UNCHANGED <<devices, vdoms, op, todo, deleted, published>>
    BY <1>2 DEF InsertClient, Ready, Done
  <2>2. TypeOK /\ op[r] \in OpRecords /\ Fits(r, "ready", op[r])
    BY <2>1 DEF IndInv, TypeOK
  <2>3. op[r] \in [kind : {"create_client"}, id : Requests, name : ClientNames, active : BOOLEAN]
    BY <2>1, <2>2 DEF OpRecords, NoOp
  <2>4. row \in ClientRows /\ r \in ClientIds
    BY <2>3 DEF ClientRows, ClientIds
  <2>0. clients' = Put(clients, r, row) /\ clients \in UNION {[S -> ClientRows] : S \in SUBSET ClientIds}
    BY <2>1, <2>2 DEF TypeOK
  <2>5. clients' \in UNION {[S -> ClientRows] : S \in SUBSET ClientIds}
    BY <2>0, <2>4, PutTable
  <2>6. /\ DOMAIN clients' = DOMAIN clients \cup {r} /\ clients'[r] = row
        /\ \A c \in DOMAIN clients \ {r} : clients'[c] = clients[c]
    BY <2>0 DEF Put
  <2>7. Consistent'
    <3>1. RefsHold /\ VdomsUnique /\ DevicesUnique /\ ClientsUnique
      BY ConsistentParts DEF IndInv
    <3>2. \A c \in DOMAIN clients' \ {r} : clients'[c].name # row.name
      BY <2>1, <2>6 DEF NameTaken
    <3>3. ClientsUnique'
      BY <2>6, <3>1, <3>2 DEF ClientsUnique
    <3>4. RefsHold' /\ VdomsUnique' /\ DevicesUnique'
      BY <2>1, <2>6, <3>1 DEF RefsHold, VdomsUnique, DevicesUnique
    <3> QED BY <3>3, <3>4, ConsistentParts
  <2>8. ActiveKnown' /\ LinkedOnlyOnceActive'
    BY <2>1, <2>6 DEF IndInv, ActiveKnown, LinkedOnlyOnceActive
  <2>9. Reserved' /\ "committed" \in Steps
    BY <2>1, ReservedStays DEF Steps
  <2>10. Fits(r, "committed", op[r]) /\ Commits(r, "committed")'
    BY <2>1, <2>2 DEF Fits, Commits, Syncing, Uncommitted, Afterwards
  <2>11. onceActive' \subseteq ClientIds
    BY <2>1, <2>2, <2>4 DEF TypeOK
  <2> QED BY <2>1, <2>2, <2>5, <2>6, <2>7, <2>8, <2>9, <2>10, <2>11, Writes DEF TypeOK
<1> QED BY <1>1, <1>2

\* A column that is set gets a value of its kind.
LEMMA WrittenClient ==
  ASSUME NEW row \in ClientRows,
         NEW o \in [kind : {"update_client"}, id : ClientIds, change : ClientChanges, loaded : ClientRows]
  PROVE  /\ Written(row, o) \in ClientRows
         /\ Written(row, o).name = IF "name" \in Dirty(o) THEN o.change.name ELSE row.name
<1>1. o.change \in ClientChanges
  OBVIOUS
<1>2. /\ "name" \in DOMAIN o.change => o.change["name"] \in ClientNames
      /\ "active" \in DOMAIN o.change => o.change["active"] \in BOOLEAN
  BY <1>1 DEF ClientChanges
<1>3. Dirty(o) \subseteq DOMAIN o.change
  BY DEF Dirty
<1>4. DOMAIN row = {"name", "active"} /\ row["name"] \in ClientNames /\ row["active"] \in BOOLEAN
  BY DEF ClientRows
<1>5. Written(row, o) = [f \in {"name", "active"} |-> IF f \in Dirty(o) THEN o.change[f] ELSE row[f]]
  BY <1>4 DEF Written
<1>6. /\ Written(row, o)["name"] = IF "name" \in Dirty(o) THEN o.change["name"] ELSE row["name"]
      /\ Written(row, o)["name"] \in ClientNames
      /\ Written(row, o)["active"] \in BOOLEAN
  BY <1>2, <1>3, <1>4, <1>5
<1>7. Written(row, o) = [name |-> Written(row, o)["name"], active |-> Written(row, o)["active"]]
  BY <1>5
<1> QED BY <1>6, <1>7 DEF ClientRows

\* So is the name a client is given by an update.
LEMMA SaveClientStep ==
  ASSUME IndInv, NEW r \in Requests, SaveClient(r)
  PROVE  IndInv'
<1>1. CASE Error(r)
  BY <1>1, ErrorStep DEF SaveClient, IndInv, TypeOK
<1>2. CASE ~Error(r)
  <2> PICK o : o = op[r]
    OBVIOUS
  <2>1. /\ pc[r] = "ready" /\ o.kind = "update_client"
        /\ "name" \in Dirty(o) => ~NameTaken(o.change.name, o.id)
        /\ clients' = [c \in DOMAIN clients |-> IF c = o.id THEN Written(clients[c], o) ELSE clients[c]]
        /\ onceActive' = onceActive \cup {c \in DOMAIN clients : clients'[c].active}
        /\ GoTo(r, "committed") /\ committed' = committed \cup {r}
        /\ UNCHANGED <<devices, vdoms, op, todo, deleted, published>>
    BY <1>2 DEF SaveClient, Ready, Done
  <2>2. TypeOK /\ o \in OpRecords /\ Fits(r, "ready", o)
    BY <2>1 DEF IndInv, TypeOK
  <2>3. o \in [kind : {"update_client"}, id : ClientIds, change : ClientChanges, loaded : ClientRows]
    BY <2>1, <2>2 DEF OpRecords, NoOp
  <2>4. DOMAIN clients \subseteq ClientIds /\ \A c \in DOMAIN clients : clients[c] \in ClientRows
    BY <2>2, TablesTyped
  <2>5. \A c \in DOMAIN clients :
          /\ clients'[c] \in ClientRows
          /\ clients'[c].name = IF c = o.id /\ "name" \in Dirty(o) THEN o.change.name ELSE clients[c].name
    BY <2>1, <2>3, <2>4, WrittenClient
  <2>6. DOMAIN clients' = DOMAIN clients /\ clients' \in [DOMAIN clients -> ClientRows]
    BY <2>1, <2>5
  <2>7. clients' \in UNION {[S -> ClientRows] : S \in SUBSET ClientIds}
    BY <2>4, <2>6
  <2>8. Consistent'
    <3>1. RefsHold /\ VdomsUnique /\ DevicesUnique /\ ClientsUnique
      BY ConsistentParts DEF IndInv
    <3>2. ASSUME NEW c \in DOMAIN clients, NEW e \in DOMAIN clients, clients'[c].name = clients'[e].name
          PROVE  c = e
      <4>1. CASE "name" \notin Dirty(o)
        BY <2>5, <3>1, <3>2, <4>1 DEF ClientsUnique
      <4>2. CASE "name" \in Dirty(o)
        <5>1. \A b \in DOMAIN clients \ {o.id} : clients[b].name # o.change.name
          BY <2>1, <4>2 DEF NameTaken
        <5> QED BY <2>5, <3>1, <3>2, <4>2, <5>1 DEF ClientsUnique
      <4> QED BY <4>1, <4>2
    <3>3. ClientsUnique'
      BY <2>6, <3>2 DEF ClientsUnique
    <3>4. RefsHold' /\ VdomsUnique' /\ DevicesUnique'
      BY <2>1, <2>6, <3>1 DEF RefsHold, VdomsUnique, DevicesUnique
    <3> QED BY <3>3, <3>4, ConsistentParts
  <2>9. ActiveKnown' /\ LinkedOnlyOnceActive'
    BY <2>1, <2>6 DEF IndInv, ActiveKnown, LinkedOnlyOnceActive
  <2>10. Reserved' /\ "committed" \in Steps
    BY <2>1, ReservedStays DEF Steps
  <2>11. Fits(r, "committed", op[r]) /\ Commits(r, "committed")'
    BY <2>1, <2>2 DEF Fits, Commits, Syncing, Uncommitted, Afterwards
  <2>12. onceActive' \subseteq ClientIds
    BY <2>1, <2>2, <2>4 DEF TypeOK
  <2> QED BY <2>1, <2>2, <2>6, <2>7, <2>8, <2>9, <2>10, <2>11, <2>12, Writes DEF TypeOK
<1> QED BY <1>1, <1>2

\* No VDOM refers to the client that is deleted.
LEMMA EraseClientStep ==
  ASSUME IndInv, NEW r \in Requests, EraseClient(r)
  PROVE  IndInv'
<1>1. CASE Error(r)
  BY <1>1, ErrorStep DEF EraseClient, IndInv, TypeOK
<1>2. CASE ~Error(r)
  <2> PICK o : o = op[r]
    OBVIOUS
  <2>1. /\ pc[r] = "ready" /\ o.kind = "delete_client"
        /\ \A v \in DOMAIN vdoms : vdoms[v].client # o.id
        /\ clients' = Remove(clients, o.id)
        /\ GoTo(r, "refreshed") /\ committed' = committed \cup {r}
        /\ UNCHANGED <<devices, vdoms, op, todo, onceActive, deleted, published>>
    BY <1>2 DEF EraseClient, Ready, Done
  <2>2. TypeOK /\ Fits(r, "ready", op[r])
    BY <2>1 DEF IndInv
  <2>3. clients' \in UNION {[S -> ClientRows] : S \in SUBSET ClientIds}
    <3>1. clients' = Remove(clients, o.id)
          /\ clients \in UNION {[S -> ClientRows] : S \in SUBSET ClientIds}
      BY <2>1, <2>2 DEF TypeOK
    <3> QED BY <3>1, RemoveTable
  <2>4. /\ DOMAIN clients' = DOMAIN clients \ {o.id}
        /\ \A c \in DOMAIN clients' : clients'[c] = clients[c]
    BY <2>1 DEF Remove
  <2>5. Consistent'
    <3>1. RefsHold /\ VdomsUnique /\ DevicesUnique /\ ClientsUnique
      BY ConsistentParts DEF IndInv
    <3>2. RefsHold' /\ VdomsUnique' /\ DevicesUnique' /\ ClientsUnique'
      BY <2>1, <2>4, <3>1 DEF RefsHold, VdomsUnique, DevicesUnique, ClientsUnique
    <3> QED BY <3>2, ConsistentParts
  <2>6. ActiveKnown' /\ LinkedOnlyOnceActive'
    BY <2>1, <2>4 DEF IndInv, ActiveKnown, LinkedOnlyOnceActive
  <2>7. Reserved' /\ "refreshed" \in Steps
    BY <2>1, ReservedStays DEF Steps
  <2>8. Fits(r, "refreshed", op[r]) /\ Commits(r, "refreshed")'
    BY <2>1, <2>2 DEF Fits, Commits, Syncing, Uncommitted, Afterwards
  <2> QED BY <2>1, <2>2, <2>3, <2>4, <2>5, <2>6, <2>7, <2>8, Writes DEF TypeOK
<1> QED BY <1>1, <1>2

\* The device and its root VDOM are committed together; the unique keys of
\* the device were reserved when it was flushed.
LEMMA EnsureRootVdomStep ==
  ASSUME IndInv, NEW r \in Requests, EnsureRootVdom(r)
  PROVE  IndInv'
<1>1. CASE Error(r)
  BY <1>1, ErrorStep DEF EnsureRootVdom, IndInv, TypeOK
<1>2. CASE ~Error(r)
  <2> PICK o, row, root : /\ o = op[r] /\ row = [host |-> o.host, serial |-> o.serial]
                          /\ root = VdomRow(r, Root, o.client)
    OBVIOUS
  <2>1. /\ r \in Flushed("create_device") /\ pc[r] = "flushed" /\ o.kind = "create_device"
        /\ o.client \in DOMAIN clients \cup {NoClient}
        /\ devices' = Put(devices, r, row)
        /\ vdoms' = Put(vdoms, <<r, Root>>, root)
        /\ GoTo(r, "committed") /\ committed' = committed \cup {r}
        /\ UNCHANGED <<clients, op, todo, onceActive, deleted, published>>
    BY <1>2 DEF EnsureRootVdom, Flushed, Done
  <2>2. TypeOK /\ o \in OpRecords /\ Fits(r, "flushed", o) /\ r \notin committed
    BY <2>1 DEF IndInv, TypeOK, Commits, Uncommitted
  <2>3. o \in [kind : {"create_device"}, id : Requests, host : Hosts,
               client : ClientIds \cup {NoClient}, serial : Serials \cup {NoSerial}]
    BY <2>1, <2>2 DEF OpRecords, NoOp
  <2>4. row \in DeviceRows /\ r \in DeviceIds
    BY <2>3 DEF DeviceRows, DeviceIds
  <2>5. <<r, Root>> \in VdomIds /\ root \in VdomRows
        /\ root.device = r /\ root.name = Root /\ root.client = o.client
    BY <2>3, <2>4, InventoryAssumption DEF VdomRow, VdomRows, VdomIds, InventoryAssumption
  <2>6. devices \in UNION {[S -> DeviceRows] : S \in SUBSET DeviceIds}
    BY <2>2 DEF TypeOK
  <2>7. devices' \in UNION {[S -> DeviceRows] : S \in SUBSET DeviceIds}
    <3>1. devices' = Put(devices, r, row)
      BY <2>1
    <3> QED BY <2>4, <2>6, <3>1, PutTable
  <2>8. /\ DOMAIN devices' = DOMAIN devices \cup {r} /\ devices'[r] = row
        /\ \A d \in DOMAIN devices \ {r} : devices'[d] = devices[d]
    BY <2>1 DEF Put
  <2>9. /\ DOMAIN vdoms' = DOMAIN vdoms \cup {<<r, Root>>} /\ vdoms'[<<r, Root>>] = root
        /\ \A v \in DOMAIN vdoms \ {<<r, Root>>} : vdoms'[v] = vdoms[v]
    BY <2>1 DEF Put
  <2>10. r \notin DOMAIN devices /\ <<r, Root>> \notin DOMAIN vdoms
    BY <2>1, <2>2, InventoryAssumption DEF IndInv, AllOrNothing, InventoryAssumption
  <2>11. \A d \in DOMAIN devices : ~Clash(row, devices[d]) /\ ~Clash(devices[d], row)
    <3>1. \A d \in DOMAIN devices : ~Clash(o, devices[d])
      BY <2>1 DEF IndInv, Reserved
    <3> QED BY <3>1 DEF Clash
  <2>12. Consistent'
    <3>1. RefsHold /\ VdomsUnique /\ DevicesUnique /\ ClientsUnique
      BY ConsistentParts DEF IndInv
    <3>2. RefsHold'
      BY <2>1, <2>5, <2>8, <2>9, <3>1 DEF RefsHold
    <3>3. VdomsUnique'
      <4>1. \A v \in DOMAIN vdoms : vdoms[v].device # r
        BY <2>10, <3>1 DEF RefsHold
      <4> QED BY <2>5, <2>9, <2>10, <3>1, <4>1 DEF VdomsUnique
    <3>4. DevicesUnique'
      BY <2>8, <2>10, <2>11, <3>1 DEF DevicesUnique
    <3>5. ClientsUnique'
      BY <2>1, <3>1 DEF ClientsUnique
    <3> QED BY <3>2, <3>3, <3>4, <3>5, ConsistentParts
  <2>13. ActiveKnown' /\ LinkedOnlyOnceActive'
    BY <2>1, <2>2, <2>5, <2>9, <2>10 DEF IndInv, ActiveKnown, LinkedOnlyOnceActive, Fits
  <2>14. Reserved'
    <3> DEFINE F == Flushed("create_device")
    <3>1. /\ pc'[r] = "committed"
          /\ \A q \in Requests \ {r} : pc'[q] = pc[q] /\ op'[q] = op[q]
      BY <2>1, <2>2 DEF GoTo, TypeOK
    <3>2. F' = {q \in Requests : pc'[q] = "flushed" /\ op'[q].kind = "create_device"}
      BY DEF Flushed
    <3>3. \A q \in F' : q \in F \ {r} /\ op'[q] = op[q]
      BY <3>1, <3>2 DEF Flushed
    <3>4. \A q \in F \ {r} : ~Clash(op[q], row)
      <4>1. \A q \in F \ {r} : ~Clash(op[q], o)
        BY <2>1 DEF IndInv, Reserved
      <4> QED BY <4>1 DEF Clash
    <3>5. ASSUME NEW q \in F', NEW d \in DOMAIN devices' PROVE ~Clash(op'[q], devices'[d])
      BY <2>8, <3>3, <3>4, <3>5 DEF IndInv, Reserved
    <3>6. ASSUME NEW q \in F', NEW u \in F' \ {q} PROVE ~Clash(op'[q], op'[u])
      BY <3>3, <3>6 DEF IndInv, Reserved
    <3> QED BY <3>5, <3>6 DEF Reserved, Clash
  <2>15. Fits(r, "committed", op[r]) /\ Commits(r, "committed")' /\ "committed" \in Steps
    BY <2>1, <2>2 DEF Fits, Commits, Syncing, Uncommitted, Afterwards, Steps
  <2>16. \A v \in DOMAIN vdoms' \ DOMAIN vdoms : v[1] = r /\ r \in committed'
    BY <2>1, <2>9
  <2>17. DOMAIN vdoms' \subseteq VdomIds /\ \A v \in DOMAIN vdoms' : vdoms'[v] \in VdomRows
    BY <2>2, <2>5, <2>9 DEF TypeOK
  <2> QED BY <2>1, <2>2, <2>7, <2>8, <2>12, <2>13, <2>14, <2>15, <2>16, <2>17, Writes DEF TypeOK
<1> QED BY <1>1, <1>2

\* One insert of a VDOM: its references exist, its name is free on the device.
LEMMA InsertVdomKeeps ==
  ASSUME IndInv, NEW r \in Requests, NEW d \in DeviceIds, NEW c \in onceActive \cup {NoClient},
         NEW next \in {"committed", "reloading"},
         pc[r] \in Uncommitted, op[r].kind \in {"create_vdom", "sync_device_vdoms"},
         op[r].kind = "create_vdom" => next = "committed",
         op[r].kind = "sync_device_vdoms" => next = "reloading",
         InsertVdom(r, d, c, next)
  PROVE  IndInv'
<1>1. CASE Error(r)
  BY <1>1, ErrorStep DEF InsertVdom, IndInv, TypeOK
<1>2. CASE ~Error(r)
  <2> PICK o, n, row : o = op[r] /\ n = o.id[2] /\ row = VdomRow(d, n, c)
    OBVIOUS
  <2>1. /\ d \in DOMAIN devices /\ c \in DOMAIN clients \cup {NoClient} /\ ~VdomTaken(d, n)
        /\ vdoms' = Put(vdoms, o.id, row)
        /\ GoTo(r, next)
        /\ committed' = IF next = "committed" THEN committed \cup {r} ELSE committed
        /\ UNCHANGED <<clients, devices, op, todo, onceActive, deleted, published>>
    BY <1>2 DEF InsertVdom
  <2>2. TypeOK /\ o \in OpRecords /\ Fits(r, pc[r], o) /\ r \notin committed
    BY DEF IndInv, TypeOK, Commits
  <2>3. o.id \in VdomIds /\ o.id[1] = r /\ n \in Names
    <3>1. o \in [kind : {"create_vdom"}, id : VdomIds, device : DeviceIds, client : ClientIds \cup {NoClient}]
            \cup SyncRecords
      BY <2>2 DEF OpRecords, NoOp, SyncRecords
    <3>2. o.id \in VdomIds /\ o.id[1] = r
      BY <2>2, <3>1 DEF SyncRecords, Fits
    <3> QED BY <3>2 DEF VdomIds
  <2>4. row \in VdomRows /\ row.device = d /\ row.name = n /\ row.client = c
    BY <2>2, <2>3 DEF VdomRow, VdomRows, TypeOK
  <2>5. /\ DOMAIN vdoms' = DOMAIN vdoms \cup {o.id} /\ vdoms'[o.id] = row
        /\ \A v \in DOMAIN vdoms \ {o.id} : vdoms'[v] = vdoms[v]
    BY <2>1 DEF Put
  <2>6. Consistent'
    <3>1. RefsHold /\ VdomsUnique /\ DevicesUnique /\ ClientsUnique
      BY ConsistentParts DEF IndInv
    <3>2. RefsHold' /\ DevicesUnique' /\ ClientsUnique'
      BY <2>1, <2>4, <2>5, <3>1 DEF RefsHold, DevicesUnique, ClientsUnique
    <3>3. VdomsUnique'
      <4>1. \A v \in DOMAIN vdoms : ~(vdoms[v].device = d /\ vdoms[v].name = n)
        BY <2>1 DEF VdomTaken
      <4> QED BY <2>4, <2>5, <3>1, <4>1 DEF VdomsUnique
    <3> QED BY <3>2, <3>3, ConsistentParts
  <2>7. ActiveKnown' /\ LinkedOnlyOnceActive'
    BY <2>1, <2>4, <2>5 DEF IndInv, ActiveKnown, LinkedOnlyOnceActive
  <2>8. Reserved' /\ next \in Steps
    BY <2>1, ReservedStays DEF Steps
  <2>9. Fits(r, next, op[r]) /\ Commits(r, next)'
    BY <2>1, <2>2 DEF Fits, Commits, Syncing, Uncommitted, Afterwards
  <2>10. \A v \in DOMAIN vdoms' \ DOMAIN vdoms :
           v[1] = r /\ (r \in committed' \/ op[r].kind = "sync_device_vdoms")
    BY <2>1, <2>3, <2>5
  <2>11. DOMAIN vdoms' \subseteq VdomIds /\ \A v \in DOMAIN vdoms' : vdoms'[v] \in VdomRows
    BY <2>2, <2>3, <2>4, <2>5 DEF TypeOK
  <2> QED BY <2>1, <2>2, <2>6, <2>7, <2>8, <2>9, <2>10, <2>11, Writes DEF TypeOK
<1> QED BY <1>1, <1>2

\* Both steps that insert a VDOM keep the invariant.
LEMMA InsertVdomStep ==
  ASSUME IndInv, NEW r \in Requests, InsertNewVdom(r) \/ SyncInsert(r)
  PROVE  IndInv'
<1>1. TypeOK /\ op[r] \in OpRecords /\ Fits(r, pc[r], op[r])
  BY DEF IndInv, TypeOK
<1>2. CASE InsertNewVdom(r)
  <2>1. /\ pc[r] = "ready" /\ op[r].kind = "create_vdom"
        /\ InsertVdom(r, op[r].device, op[r].client, "committed")
    BY <1>2 DEF InsertNewVdom, Ready
  <2>2. op[r] \in [kind : {"create_vdom"}, id : VdomIds, device : DeviceIds, client : ClientIds \cup {NoClient}]
    BY <1>1, <2>1 DEF OpRecords, NoOp
  <2>3. op[r].client \in onceActive \cup {NoClient}
    BY <1>1, <2>1 DEF Fits
  <2> QED BY <2>1, <2>2, <2>3, InsertVdomKeeps DEF Uncommitted
<1>3. CASE SyncInsert(r)
  <2>1. pc[r] = "inserting" /\ InsertVdom(r, op[r].device, NoClient, "reloading")
    BY <1>3 DEF SyncInsert
  <2>2. op[r].kind = "sync_device_vdoms"
    BY <1>1, <2>1 DEF Fits, Syncing
  <2>3. op[r].device \in DeviceIds
    BY <2>2, SyncShape DEF SyncRecords
  <2> QED BY <2>1, <2>2, <2>3, InsertVdomKeeps DEF Uncommitted
<1> QED BY <1>2, <1>3

UpdateRecords ==
  [kind : {"update_vdom"}, id : VdomIds, asked : VdomChanges,
   change : {Effective(c) : c \in VdomChanges}, loaded : VdomRows]

\* The change of an update of a VDOM is of its client or of its flag.
LEMMA WrittenVdom ==
  ASSUME NEW row \in VdomRows, NEW o \in UpdateRecords
  PROVE  /\ Written(row, o) \in VdomRows
         /\ Written(row, o).device = row.device /\ Written(row, o).name = row.name
         /\ Written(row, o).client = IF "client" \in Dirty(o) THEN o.change.client ELSE row.client
         /\ Dirty(o) \subseteq DOMAIN o.change
<1>1. PICK asked \in VdomChanges : o.change = Effective(asked)
  BY DEF UpdateRecords
<1>2. /\ DOMAIN o.change \subseteq {"client", "active"}
      /\ "client" \in DOMAIN o.change => o.change["client"] \in ClientIds \cup {NoClient}
      /\ "active" \in DOMAIN o.change => o.change["active"] \in BOOLEAN
  BY <1>1 DEF Effective, VdomChanges
<1>3. Dirty(o) \subseteq DOMAIN o.change
  BY DEF Dirty
<1>4. /\ DOMAIN row = {"device", "name", "client", "active"}
      /\ row["device"] \in DeviceIds /\ row["name"] \in Names
      /\ row["client"] \in ClientIds \cup {NoClient} /\ row["active"] \in BOOLEAN
  BY DEF VdomRows
<1>5. Written(row, o) = [f \in {"device", "name", "client", "active"} |->
                           IF f \in Dirty(o) THEN o.change[f] ELSE row[f]]
  BY <1>4 DEF Written
<1>6. /\ Written(row, o)["device"] = row["device"] /\ Written(row, o)["name"] = row["name"]
      /\ Written(row, o)["client"] = IF "client" \in Dirty(o) THEN o.change["client"] ELSE row["client"]
      /\ Written(row, o)["client"] \in ClientIds \cup {NoClient}
      /\ Written(row, o)["active"] \in BOOLEAN
  BY <1>2, <1>3, <1>4, <1>5
<1>7. Written(row, o) = [device |-> Written(row, o)["device"], name |-> Written(row, o)["name"],
                         client |-> Written(row, o)["client"], active |-> Written(row, o)["active"]]
  BY <1>5
<1>8. Written(row, o) \in VdomRows
  BY <1>4, <1>6, <1>7 DEF VdomRows
<1> QED BY <1>3, <1>6, <1>8

\* An update of a VDOM changes neither device nor name.
LEMMA SaveVdomStep ==
  ASSUME IndInv, NEW r \in Requests, SaveVdom(r)
  PROVE  IndInv'
<1>1. CASE Error(r)
  BY <1>1, ErrorStep DEF SaveVdom, IndInv, TypeOK
<1>2. CASE ~Error(r)
  <2> PICK o : o = op[r]
    OBVIOUS
  <2>1. /\ pc[r] = "ready" /\ o.kind = "update_vdom"
        /\ "client" \in Dirty(o) => o.change.client \in DOMAIN clients
        /\ vdoms' = [v \in DOMAIN vdoms |-> IF v = o.id THEN Written(vdoms[v], o) ELSE vdoms[v]]
        /\ GoTo(r, "committed") /\ committed' = committed \cup {r}
        /\ UNCHANGED <<clients, devices, op, todo, onceActive, deleted, published>>
    BY <1>2 DEF SaveVdom, Ready, Done
  <2>2. TypeOK /\ o \in OpRecords /\ Fits(r, "ready", o)
    BY <2>1 DEF IndInv, TypeOK
  <2>3. o \in UpdateRecords
    BY <2>1, <2>2 DEF OpRecords, NoOp, UpdateRecords
  <2>4. DOMAIN vdoms' = DOMAIN vdoms
    BY <2>1
  <2>5. \A v \in DOMAIN vdoms :
          /\ vdoms'[v] \in VdomRows
          /\ vdoms'[v].device = vdoms[v].device /\ vdoms'[v].name = vdoms[v].name
          /\ \/ vdoms'[v].client = vdoms[v].client
             \/ "client" \in Dirty(o) /\ vdoms'[v].client = o.change.client
    <3> SUFFICES ASSUME NEW v \in DOMAIN vdoms
                 PROVE  /\ vdoms'[v] \in VdomRows
                        /\ vdoms'[v].device = vdoms[v].device /\ vdoms'[v].name = vdoms[v].name
                        /\ \/ vdoms'[v].client = vdoms[v].client
                           \/ "client" \in Dirty(o) /\ vdoms'[v].client = o.change.client
      OBVIOUS
    <3>1. vdoms[v] \in VdomRows
      BY <2>2 DEF TypeOK
    <3>2. vdoms'[v] \in {vdoms[v], Written(vdoms[v], o)}
      BY <2>1
    <3> QED BY <2>3, <3>1, <3>2, WrittenVdom
  <2>6. Consistent'
    <3>1. RefsHold /\ VdomsUnique /\ DevicesUnique /\ ClientsUnique
      BY ConsistentParts DEF IndInv
    <3>2. RefsHold' /\ VdomsUnique' /\ DevicesUnique' /\ ClientsUnique'
      BY <2>1, <2>4, <2>5, <3>1 DEF RefsHold, VdomsUnique, DevicesUnique, ClientsUnique
    <3> QED BY <3>2, ConsistentParts
  <2>7. ActiveKnown' /\ LinkedOnlyOnceActive'
    <3>1. "client" \in Dirty(o) => o.change.client \in onceActive
      BY <2>1, <2>2 DEF Dirty, Fits
    <3> QED BY <2>1, <2>4, <2>5, <3>1 DEF IndInv, ActiveKnown, LinkedOnlyOnceActive
  <2>8. Reserved' /\ "committed" \in Steps
    BY <2>1, ReservedStays DEF Steps
  <2>9. Fits(r, "committed", op[r]) /\ Commits(r, "committed")'
    BY <2>1, <2>2 DEF Fits, Commits, Syncing, Uncommitted, Afterwards
  <2> QED BY <2>1, <2>2, <2>4, <2>5, <2>6, <2>7, <2>8, <2>9, Writes DEF TypeOK
<1> QED BY <1>1, <1>2

\* Nothing refers to a VDOM.
LEMMA EraseVdomStep ==
  ASSUME IndInv, NEW r \in Requests, EraseVdom(r)
  PROVE  IndInv'
<1> PICK o : o = op[r]
  OBVIOUS
<1>1. /\ pc[r] = "ready" /\ o.kind = "delete_vdom"
      /\ vdoms' = Remove(vdoms, o.id)
      /\ deleted' = deleted \cup {<<vdoms[w].device, vdoms[w].name>> : w \in DOMAIN vdoms \cap {o.id}}
      /\ GoTo(r, "refreshed") /\ committed' = committed \cup {r}
      /\ UNCHANGED <<clients, devices, op, todo, onceActive, published>>
  BY DEF EraseVdom, Ready, Done
<1>2. TypeOK /\ Fits(r, "ready", op[r])
  BY <1>1 DEF IndInv
<1>3. /\ DOMAIN vdoms' = DOMAIN vdoms \ {o.id}
      /\ \A v \in DOMAIN vdoms' : vdoms'[v] = vdoms[v]
  BY <1>1 DEF Remove
<1>4. Consistent'
  <2>1. RefsHold /\ VdomsUnique /\ DevicesUnique /\ ClientsUnique
    BY ConsistentParts DEF IndInv
  <2>2. RefsHold' /\ VdomsUnique' /\ DevicesUnique' /\ ClientsUnique'
    BY <1>1, <1>3, <2>1 DEF RefsHold, VdomsUnique, DevicesUnique, ClientsUnique
  <2> QED BY <2>2, ConsistentParts
<1>5. ActiveKnown' /\ LinkedOnlyOnceActive'
  BY <1>1, <1>3 DEF IndInv, ActiveKnown, LinkedOnlyOnceActive
<1>6. Reserved' /\ "refreshed" \in Steps
  BY <1>1, ReservedStays DEF Steps
<1>7. Fits(r, "refreshed", op[r]) /\ Commits(r, "refreshed")'
  BY <1>1, <1>2 DEF Fits, Commits, Syncing, Uncommitted, Afterwards
<1>8. deleted' \subseteq DeviceIds \X Names
  <2>1. \A w \in DOMAIN vdoms : vdoms[w].device \in DeviceIds /\ vdoms[w].name \in Names
    BY <1>2 DEF TypeOK, VdomRows
  <2>2. deleted \subseteq DeviceIds \X Names
    BY <1>2 DEF TypeOK
  <2> QED BY <1>1, <2>1, <2>2
<1>9. DOMAIN vdoms' \subseteq VdomIds /\ \A v \in DOMAIN vdoms' : vdoms'[v] \in VdomRows
  BY <1>2, <1>3 DEF TypeOK
<1> QED BY <1>1, <1>2, <1>3, <1>4, <1>5, <1>6, <1>7, <1>8, <1>9, Writes DEF TypeOK
-----------------------------------------------------------------------------
(* The theorems.                                                           *)

\* The invariant holds at the start.
LEMMA InitHolds == Init => IndInv
<1> SUFFICES ASSUME Init PROVE IndInv
  OBVIOUS
<1> USE InventoryAssumption DEF InventoryAssumption, Init
<1>1. TypeOK
  <2>1. clients \in [Clients0 -> ClientRows] /\ Clients0 \in SUBSET ClientIds
    BY DEF ClientRows, ClientIds
  <2>2. devices \in [Devices0 -> DeviceRows] /\ Devices0 \in SUBSET DeviceIds
    BY DEF DeviceRows, DeviceIds
  <2>3. DOMAIN vdoms \subseteq VdomIds /\ \A v \in DOMAIN vdoms : vdoms[v] \in VdomRows
    BY DEF VdomIds, VdomRows, DeviceIds
  <2>4. clients \in UNION {[S -> ClientRows] : S \in SUBSET ClientIds}
    BY <2>1
  <2>5. devices \in UNION {[S -> DeviceRows] : S \in SUBSET DeviceIds}
    BY <2>2
  <2>6. pc \in [Requests -> Steps] /\ op \in [Requests -> OpRecords] /\ todo \in [Requests -> SUBSET Names]
    BY DEF Steps, OpRecords
  <2>7. published = {} /\ committed = {} /\ onceActive \subseteq ClientIds /\ deleted = {}
    BY DEF ClientIds
  <2> QED BY <2>3, <2>4, <2>5, <2>6, <2>7 DEF TypeOK
<1>2. \A r \in Requests : Fits(r, pc[r], op[r]) /\ Commits(r, pc[r])
  BY DEF Fits, Commits, NoOp, Uncommitted, Afterwards, Syncing
<1>3. Reserved
  BY DEF Reserved, Flushed
<1>4. Consistent
  <2>1. RefsHold
    BY DEF RefsHold
  <2>2. VdomsUnique
    BY DEF VdomsUnique
  <2>3. DevicesUnique /\ ClientsUnique
    BY DEF DevicesUnique, ClientsUnique, Clash
  <2> QED BY <2>1, <2>2, <2>3, ConsistentParts
<1>5. AllOrNothing /\ ActiveKnown /\ LinkedOnlyOnceActive
  BY DEF AllOrNothing, ActiveKnown, LinkedOnlyOnceActive, ClientIds, DeviceIds
<1> QED BY <1>1, <1>2, <1>3, <1>4, <1>5 DEF IndInv

\* Every step keeps the invariant.
LEMMA NextKeeps == IndInv /\ [Next]_vars => IndInv'
<1> SUFFICES ASSUME IndInv, [Next]_vars PROVE IndInv'
  OBVIOUS
<1>1. ASSUME NEW r \in Requests, Service(r)
      PROVE  IndInv'
  BY <1>1, InsertClientStep, SaveClientStep, EraseClientStep, ProbeStep, FlushStep, EnsureRootVdomStep,
     InsertVdomStep, SaveVdomStep, EraseVdomStep, SyncStep, EndStep DEF Service
<1>2. ASSUME NEW r \in Requests, PublishFault(r) \/ Abort(r)
      PROVE  IndInv'
  BY <1>2, EndStep
<1>3. CASE UNCHANGED vars
  BY <1>3 DEF vars, tables, history, IndInv, TypeOK, Fits, Commits, Reserved, Flushed, Consistent,
              AllOrNothing, ActiveKnown, LinkedOnlyOnceActive
<1> QED BY <1>1, <1>2, <1>3, ArrivalStep DEF Next

\* IndInv in every state.
THEOREM Invariance == Spec => []IndInv
BY InitHolds, NextKeeps, PTL DEF Spec

\* The types of the tables and of what the requests carry.
THEOREM TypeCorrect == Spec => []TypeOK
<1>1. IndInv => TypeOK
  BY DEF IndInv
<1> QED BY <1>1, Invariance, PTL

\* The keys of the schema hold in every committed state, for any number of
\* requests: the unique values of a device are reserved from its flush on.
THEOREM KeysHold == Spec => []Consistent
<1>1. IndInv => Consistent
  BY DEF IndInv
<1> QED BY <1>1, Invariance, PTL

\* A request commits what it was asked for or nothing.
THEOREM AllOrNothingHolds == Spec => []AllOrNothing
<1>1. IndInv => AllOrNothing
  BY DEF IndInv
<1> QED BY <1>1, Invariance, PTL

\* A VDOM is linked only to clients that have been active.
THEOREM LinksHold == Spec => []LinkedOnlyOnceActive
<1>1. IndInv => LinkedOnlyOnceActive
  BY DEF IndInv
<1> QED BY <1>1, Invariance, PTL
-----------------------------------------------------------------------------
(***************************************************************************)
(* Proofs about Inventory that need the past of the requests: what the     *)
(* events tell, what a synchronisation registers and what a commit may     *)
(* change.  They rest on the invariant above and on what one step of one   *)
(* request does (Effect).                                                  *)
(***************************************************************************)

OnDeviceOnly == {"update_device", "delete_device"}
Inserting == {"inserting", "reloading"}

\* Request q, a synchronisation, may still insert a VDOM with name n.
MayInsert(q, n) ==
  \/ pc[q] = "fetching"
  \/ pc[q] \in {"syncing", "inserting"} /\ n \in todo[q]
  \/ pc[q] = "reloading" /\ n \in todo[q] \ {op[q].id[2]}

\* Nobody will insert a row with id v any more.
Settled(v) ==
  \/ v[1] \in Devices0 \cup committed
  \/ v[1] \in Requests /\ op[v[1]].kind = "sync_device_vdoms" /\ ~MayInsert(v[1], v[2])

\* A VDOM has the name and the device of the request that inserted it.
RowsNamed ==
  \A v \in DOMAIN vdoms :
    /\ vdoms[v].name = v[2]
    /\ v[1] \in Requests /\ op[v[1]].kind = "sync_device_vdoms" => vdoms[v].device = op[v[1]].device

AllSettled == \A v \in DOMAIN vdoms : Settled(v)

\* An event is the last step of its request.
Told ==
  \A r \in published : pc[r] = "ok" /\ (op[r].kind \notin OnDeviceOnly => r \in committed)

\* What is deleted was committed before, and does not come back.
Gone ==
  \A r \in Requests :
    /\ op[r].kind = "delete_client" =>
         /\ op[r].id \in Clients0 \cup committed
         /\ r \in committed => op[r].id \notin DOMAIN clients
    /\ op[r].kind = "delete_vdom" =>
         /\ Settled(op[r].id)
         /\ r \in committed => op[r].id \notin DOMAIN vdoms

\* The VDOMs a synchronisation has put behind it are registered or deleted; the
\* others are those the device reported.
Handled(d, n) == VdomTaken(d, n) \/ <<d, n>> \in deleted

SyncOf(r) ==
  /\ pc[r] \in Syncing \cup {"refreshed", "ok", "error"}
  /\ pc[r] \in Inserting => op[r].id[2] \in todo[r]
  /\ pc[r] \in Inserting \cup {"syncing"} => todo[r] \subseteq op[r].found
  /\ pc[r] \in {"refreshed", "ok"} => todo[r] = {}
  /\ pc[r] \notin {"fetching", "error"} =>
       \A n \in op[r].found \ todo[r] : Handled(op[r].device, n)

Synchronised == \A r \in Requests : op[r].kind = "sync_device_vdoms" => SyncOf(r)

PastInv == RowsNamed /\ AllSettled /\ Told /\ Gone /\ Synchronised /\ SyncLeavesOnlyReported
-----------------------------------------------------------------------------
(* What one step of request r does.                                        *)

OthersStay(r) ==
  \A q \in Requests \ {r} : pc'[q] = pc[q] /\ op'[q] = op[q] /\ todo'[q] = todo[q]

HistoryGrows(r) == committed' \in {committed, committed \cup {r}} /\ deleted \subseteq deleted'

\* A VDOM leaves the table only by a deletion.
StillHandled == \A d \in DeviceIds, n \in Names : Handled(d, n) => Handled(d, n)'

ClientsFresh(r) ==
  \A c \in DOMAIN clients' \ DOMAIN clients : c = r /\ r \notin committed

VdomFresh(r, v) ==
  /\ v[1] = r /\ r \notin committed /\ vdoms'[v].name = v[2]
  /\ \/ r \in committed' /\ op'[r].kind # "sync_device_vdoms"
     \/ /\ op'[r].kind = "sync_device_vdoms" /\ vdoms'[v].device = op'[r].device
        /\ pc'[r] = "reloading" /\ v[2] = op'[r].id[2]

VdomsFresh(r) == \A v \in DOMAIN vdoms' \ DOMAIN vdoms : VdomFresh(r, v)

VdomsStay ==
  \A v \in DOMAIN vdoms \cap DOMAIN vdoms' :
    vdoms'[v].name = vdoms[v].name /\ vdoms'[v].device = vdoms[v].device

Announced(r) ==
  \/ published' = published
  \/ /\ published' = published \cup {r} /\ pc'[r] = "ok" /\ op'[r] = op[r]
     /\ op[r].kind \notin OnDeviceOnly => r \in committed

\* The request starts an operation, and finds what it is to delete.
Begun(r) ==
  /\ pc[r] = "new" /\ committed' = committed /\ published' = published
  /\ op'[r].kind = "delete_client" => op'[r].id \in DOMAIN clients
  /\ op'[r].kind = "delete_vdom" => op'[r].id \in DOMAIN vdoms
  /\ op'[r].kind = "sync_device_vdoms" => pc'[r] = "fetching"

\* It goes on with an operation other than a synchronisation.
Continued(r) ==
  /\ op[r].kind # "sync_device_vdoms" /\ op'[r].kind = op[r].kind
  /\ op[r].kind \in {"delete_client", "delete_vdom"} => op'[r] = op[r]
  /\ r \in committed' \ committed =>
       /\ op[r].kind = "delete_client" => op[r].id \notin DOMAIN clients'
       /\ op[r].kind = "delete_vdom" => op[r].id \notin DOMAIN vdoms'

\* It goes on with a synchronisation, from step p to step q.
SyncMove(r, p, q) ==
  \/ p = "fetching" /\ q = "syncing" /\ op'[r].found = todo'[r]
  \/ /\ p = "syncing" /\ q = "syncing" /\ op'[r].found = op[r].found
     /\ \E n \in todo[r] : todo'[r] = todo[r] \ {n} /\ Handled(op[r].device, n)
  \/ /\ p = "syncing" /\ q = "inserting" /\ op'[r].found = op[r].found
     /\ todo'[r] = todo[r] /\ op'[r].id[2] \in todo[r]
  \/ p = "inserting" /\ q = "reloading" /\ op'[r] = op[r] /\ todo'[r] = todo[r]
  \/ /\ p = "reloading" /\ q = "syncing" /\ op'[r] = op[r]
     /\ todo'[r] = todo[r] \ {op[r].id[2]} /\ Handled(op[r].device, op[r].id[2])
  \/ /\ p = "syncing" /\ q = "refreshed" /\ op'[r] = op[r]
     /\ todo[r] = {} /\ todo'[r] = {}
  \/ p = "refreshed" /\ q = "ok" /\ op'[r] = op[r] /\ todo'[r] = todo[r]
  \/ p # "error" /\ q = "error" /\ op'[r] = op[r]

SyncGoesOn(r) ==
  /\ op[r].kind = "sync_device_vdoms" /\ op'[r].kind = "sync_device_vdoms"
  /\ op'[r].device = op[r].device
  /\ SyncMove(r, pc[r], pc'[r])

OwnMove(r) ==
  /\ pc[r] \notin {"ok", "error"}
  /\ Announced(r)
  /\ Begun(r) \/ Continued(r) \/ SyncGoesOn(r)

\* The bodies of the two action properties of Inventory.
RootBorn ==
  \A d \in DOMAIN devices' \ DOMAIN devices :
    \E v \in DOMAIN vdoms' : vdoms'[v].device = d /\ vdoms'[v].name = Root

ChangesAsked ==
  /\ \A c \in DOMAIN clients \cap DOMAIN clients' : \A f \in {"name", "active"} :
       clients'[c][f] # clients[c][f] => Asked("update_client", c, f, clients'[c][f])
  /\ \A v \in DOMAIN vdoms \cap DOMAIN vdoms' : \A f \in {"device", "name", "client", "active"} :
       vdoms'[v][f] # vdoms[v][f] => Asked("update_vdom", v, f, vdoms'[v][f])

OnTables(r) ==
  /\ StillHandled /\ ClientsFresh(r) /\ VdomsFresh(r) /\ VdomsStay
  /\ RootBorn /\ ChangesAsked

Effect(r) == OthersStay(r) /\ HistoryGrows(r) /\ OwnMove(r) /\ OnTables(r)
-----------------------------------------------------------------------------
(* Steps that write nothing.                                               *)

\* A step that does not touch the tables does what OnTables allows.
LEMMA TablesAlone ==
  ASSUME NEW r \in Requests, UNCHANGED <<clients, devices, vdoms, deleted>>
  PROVE  OnTables(r)
BY DEF OnTables, StillHandled, Handled, VdomTaken, ClientsFresh, VdomsFresh, VdomsStay, RootBorn, ChangesAsked

\* The step of one request.
LEMMA Going ==
  ASSUME TypeOK, NEW r \in Requests, NEW p, GoTo(r, p)
  PROVE  pc'[r] = p /\ \A q \in Requests \ {r} : pc'[q] = pc[q]
BY DEF TypeOK, GoTo

\* An error: the request is over and nothing else has changed.
LEMMA ErrorEffect ==
  ASSUME IndInv, NEW r \in Requests, Error(r), UNCHANGED published, pc[r] \notin {"ok", "error"}
  PROVE  Effect(r)
<1>1. GoTo(r, "error") /\ UNCHANGED <<clients, devices, vdoms, op, todo, committed, onceActive, deleted>>
  BY DEF Error, tables, history
<1>2. pc'[r] = "error" /\ OthersStay(r)
  BY <1>1, Going DEF IndInv, OthersStay
<1>3. OwnMove(r)
  BY <1>1, <1>2 DEF OwnMove, Announced, Continued, SyncGoesOn, SyncMove
<1>4. HistoryGrows(r)
  BY <1>1 DEF HistoryGrows
<1> QED BY <1>1, <1>2, <1>3, <1>4, TablesAlone DEF Effect

\* An arrival that goes on starts with these arguments.
LEMMA StartEffect ==
  ASSUME IndInv, NEW r \in Requests, NEW o, NEW p, Start(r, o, p), UNCHANGED published,
         pc[r] = "new",
         o.kind = "delete_client" => o.id \in DOMAIN clients,
         o.kind = "delete_vdom" => o.id \in DOMAIN vdoms,
         o.kind = "sync_device_vdoms" => p = "fetching"
  PROVE  Effect(r)
<1>1. /\ GoTo(r, p) /\ op' = [op EXCEPT ![r] = o]
      /\ UNCHANGED <<clients, devices, vdoms, todo, committed, onceActive, deleted>>
  BY DEF Start, tables, history
<1>2. op \in [Requests -> OpRecords]
  BY DEF IndInv, TypeOK
<1>3. pc'[r] = p /\ op'[r] = o /\ OthersStay(r)
  BY <1>1, <1>2, Going DEF IndInv, OthersStay
<1>4. OwnMove(r)
  BY <1>1, <1>3 DEF OwnMove, Announced, Begun
<1>5. HistoryGrows(r)
  BY <1>1 DEF HistoryGrows
<1> QED BY <1>1, <1>3, <1>4, <1>5, TablesAlone DEF Effect

\* Every operation begins in this way.
LEMMA ArrivalEffect ==
  ASSUME IndInv, NEW r \in Requests, Arrival(r)
  PROVE  Effect(r)
<1> DEFINE Fine(o, p) == /\ o.kind = "delete_client" => o.id \in DOMAIN clients
                         /\ o.kind = "delete_vdom" => o.id \in DOMAIN vdoms
                         /\ o.kind = "sync_device_vdoms" => p = "fetching"
           Starts == \E o, p : Start(r, o, p) /\ Fine(o, p)
<1>1. pc[r] = "new" /\ UNCHANGED published
  BY ArrivalStarts
<1>2. CASE Error(r)
  BY <1>1, <1>2, ErrorEffect
<1>3. ASSUME ~Error(r) PROVE Starts
  <2>1. CASE CreateClient(r)
    BY <1>3, <2>1 DEF CreateClient
  <2>2. CASE UpdateClient(r)
    BY <1>3, <2>2 DEF UpdateClient
  <2>3. CASE DeleteClient(r)
    BY <1>3, <2>3 DEF DeleteClient
  <2>4. CASE CreateDevice(r)
    BY <1>3, <2>4 DEF CreateDevice
  <2>5. CASE UpdateDevice(r)
    BY <1>3, <2>5 DEF UpdateDevice
  <2>6. CASE DeleteDevice(r)
    BY <1>3, <2>6 DEF DeleteDevice
  <2>7. CASE CreateVdom(r)
    BY <1>3, <2>7 DEF CreateVdom
  <2>8. CASE UpdateVdom(r)
    BY <1>3, <2>8 DEF UpdateVdom
  <2>9. CASE DeleteVdom(r)
    BY <1>3, <2>9 DEF DeleteVdom
  <2>10. CASE SyncDeviceVdoms(r)
    BY <1>3, <2>10 DEF SyncDeviceVdoms
  <2> QED BY <2>1, <2>2, <2>3, <2>4, <2>5, <2>6, <2>7, <2>8, <2>9, <2>10 DEF Arrival
<1>4. CASE ~Error(r)
  BY <1>1, <1>3, <1>4, StartEffect
<1> QED BY <1>2, <1>4

\* A step that only moves the request on.
LEMMA OnEffect ==
  ASSUME IndInv, NEW r \in Requests, NEW p, GoTo(r, p),
         UNCHANGED <<tables, op, todo, deleted, committed>>,
         pc[r] \notin {"ok", "error"}, Announced(r),
         op[r].kind = "sync_device_vdoms" => SyncMove(r, pc[r], p)
  PROVE  Effect(r)
<1>1. pc'[r] = p /\ OthersStay(r)
  BY Going DEF IndInv, OthersStay
<1>2. OwnMove(r)
  BY <1>1 DEF OwnMove, Continued, SyncGoesOn
<1>3. HistoryGrows(r)
  BY DEF HistoryGrows
<1> QED BY <1>1, <1>2, <1>3, TablesAlone DEF Effect, tables

\* A flush is seen by nobody but the locks.
LEMMA FlushEffect ==
  ASSUME IndInv, NEW r \in Requests,
         FlushNewDevice(r) \/ FlushDevice(r) \/ FlushDeviceDeletion(r)
  PROVE  Effect(r)
<1>1. /\ pc[r] = "ready" /\ op[r].kind # "sync_device_vdoms" /\ UNCHANGED published
      /\ \/ Error(r)
         \/ GoTo(r, "flushed") /\ UNCHANGED <<tables, op, todo, committed, deleted>>
  BY DEF FlushNewDevice, FlushDevice, FlushDeviceDeletion, Ready, history
<1> QED BY <1>1, ErrorEffect, OnEffect DEF Announced

\* The probe sets the serial number of the device to be.
LEMMA ProbeEffect ==
  ASSUME IndInv, NEW r \in Requests, Probe(r)
  PROVE  Effect(r)
<1>1. PICK s : /\ pc[r] = "probing" /\ UNCHANGED published
               /\ Start(r, [op[r] EXCEPT !.serial = s], "ready")
  BY DEF Probe
<1>2. op \in [Requests -> OpRecords] /\ op[r].kind = "create_device"
  BY <1>1 DEF IndInv, TypeOK, Fits
<1>3. op[r] \in [kind : {"create_device"}, id : Requests, host : Hosts,
                 client : ClientIds \cup {NoClient}, serial : Serials \cup {NoSerial}]
  BY <1>2 DEF OpRecords, NoOp
<1>4. PICK o : o = [op[r] EXCEPT !.serial = s]
  OBVIOUS
<1>5. o.kind = op[r].kind
  BY <1>3, <1>4
<1>6. /\ GoTo(r, "ready") /\ op' = [op EXCEPT ![r] = o]
      /\ UNCHANGED <<clients, devices, vdoms, todo, committed, deleted>>
  BY <1>1, <1>4 DEF Start, tables, history
<1>7. pc'[r] = "ready" /\ op'[r] = o /\ OthersStay(r)
  BY <1>2, <1>6, Going DEF IndInv, OthersStay
<1>8. OwnMove(r)
  BY <1>1, <1>2, <1>5, <1>6, <1>7 DEF OwnMove, Announced, Continued
<1> QED BY <1>6, <1>7, <1>8, TablesAlone DEF Effect, HistoryGrows

\* One step of a synchronisation that inserts nothing.
LEMMA SyncEffect ==
  ASSUME IndInv, NEW r \in Requests, FetchVdoms(r) \/ SyncLookup(r)
  PROVE  Effect(r)
<1>1. /\ pc[r] \in {"fetching", "syncing"}
      /\ UNCHANGED <<clients, devices, vdoms, deleted, committed, published>>
  BY DEF FetchVdoms, SyncLookup, tables, history
<1>2. op[r].kind = "sync_device_vdoms"
  BY <1>1 DEF IndInv, Fits, Syncing
<1>3. op[r] \in SyncRecords
  BY <1>2, SyncShape
<1>4. op \in [Requests -> OpRecords] /\ pc \in [Requests -> Steps] /\ todo \in [Requests -> SUBSET Names]
  BY DEF IndInv, TypeOK
<1>5. OthersStay(r) /\ SyncGoesOn(r)
  <2>1. CASE FetchVdoms(r)
    <3>1. PICK found \in SUBSET Names :
            /\ pc[r] = "fetching" /\ GoTo(r, "syncing")
            /\ op' = [op EXCEPT ![r].found = found]
            /\ todo' = [todo EXCEPT ![r] = found]
      BY <2>1 DEF FetchVdoms
    <3>2. OthersStay(r) /\ pc'[r] = "syncing" /\ todo'[r] = found
      BY <1>4, <3>1 DEF OthersStay, GoTo
    <3>3. op'[r] = [op[r] EXCEPT !.found = found]
      BY <1>4, <3>1
    <3>4. op'[r].kind = op[r].kind /\ op'[r].device = op[r].device /\ op'[r].found = found
      BY <1>3, <3>3 DEF SyncRecords
    <3> QED BY <1>2, <3>1, <3>2, <3>4 DEF SyncGoesOn, SyncMove
  <2>2. CASE SyncLookup(r)
    <3>1. PICK n \in todo[r] :
            /\ pc[r] = "syncing"
            /\ \/ /\ VdomTaken(op[r].device, n)
                  /\ todo' = [todo EXCEPT ![r] = @ \ {n}] /\ UNCHANGED <<pc, op>>
               \/ /\ GoTo(r, "inserting")
                  /\ op' = [op EXCEPT ![r].id = <<r, n>>] /\ UNCHANGED todo
      BY <2>2 DEF SyncLookup
    <3>2. OthersStay(r)
      BY <1>4, <3>1 DEF OthersStay, GoTo
    <3>3. CASE VdomTaken(op[r].device, n) /\ todo' = [todo EXCEPT ![r] = @ \ {n}] /\ UNCHANGED <<pc, op>>
      <4>1. todo'[r] = todo[r] \ {n} /\ op'[r] = op[r] /\ pc'[r] = pc[r]
        BY <1>4, <3>3
      <4> QED BY <1>2, <3>1, <3>2, <3>3, <4>1 DEF SyncGoesOn, SyncMove, Handled
    <3>4. CASE GoTo(r, "inserting") /\ op' = [op EXCEPT ![r].id = <<r, n>>] /\ UNCHANGED todo
      <4>1. op'[r] = [op[r] EXCEPT !.id = <<r, n>>] /\ pc'[r] = "inserting" /\ todo'[r] = todo[r]
        BY <1>4, <3>4 DEF GoTo
      <4>2. /\ op'[r].kind = op[r].kind /\ op'[r].device = op[r].device /\ op'[r].found = op[r].found
            /\ op'[r].id = <<r, n>>
        BY <1>3, <4>1 DEF SyncRecords
      <4> QED BY <1>2, <3>1, <3>2, <4>1, <4>2 DEF SyncGoesOn, SyncMove
    <3> QED BY <3>1, <3>2, <3>3, <3>4
  <2> QED BY <2>1, <2>2
<1>6. OwnMove(r)
  BY <1>1, <1>5 DEF OwnMove, Announced
<1> QED BY <1>1, <1>5, <1>6, TablesAlone DEF Effect, HistoryGrows

\* The row a synchronisation has inserted and finds again.
LEMMA ReloadEffect ==
  ASSUME IndInv, RowsNamed, NEW r \in Requests, SyncReload(r)
  PROVE  Effect(r)
<1>1. pc[r] = "reloading" /\ UNCHANGED published
  BY DEF SyncReload
<1>2. CASE Error(r)
  BY <1>1, <1>2, ErrorEffect
<1>3. CASE ~Error(r)
  <2>1. /\ op[r].id \in DOMAIN vdoms /\ GoTo(r, "syncing")
        /\ todo' = [todo EXCEPT ![r] = @ \ {op[r].id[2]}]
        /\ UNCHANGED <<clients, devices, vdoms, op, deleted, committed>>
    BY <1>3 DEF SyncReload, tables, history
  <2>2. op[r].kind = "sync_device_vdoms"
    BY <1>1 DEF IndInv, Fits, Syncing
  <2>3. op[r].id[1] = r
    BY <2>2, SyncShape
  <2>4. Handled(op[r].device, op[r].id[2])
    BY <2>1, <2>2, <2>3 DEF RowsNamed, Handled, VdomTaken
  <2>5. todo \in [Requests -> SUBSET Names]
    BY DEF IndInv, TypeOK
  <2>6. todo'[r] = todo[r] \ {op[r].id[2]} /\ pc'[r] = "syncing" /\ OthersStay(r)
    BY <2>1, <2>5, Going DEF IndInv, OthersStay
  <2>7. SyncGoesOn(r)
    BY <1>1, <2>1, <2>2, <2>4, <2>6 DEF SyncGoesOn, SyncMove
  <2>8. OwnMove(r)
    BY <1>1, <2>7 DEF OwnMove, Announced
  <2> QED BY <2>1, <2>6, <2>8, TablesAlone DEF Effect, HistoryGrows
<1> QED BY <1>2, <1>3

\* A synchronisation is over once nothing is left to do.
LEMMA SyncDoneEffect ==
  ASSUME IndInv, NEW r \in Requests, SyncDone(r)
  PROVE  Effect(r)
<1>1. /\ pc[r] = "syncing" /\ todo[r] = {} /\ GoTo(r, "refreshed") /\ committed' = committed \cup {r}
      /\ UNCHANGED <<clients, devices, vdoms, op, todo, published, deleted>>
  BY DEF SyncDone, Done, tables
<1>2. op[r].kind = "sync_device_vdoms"
  BY <1>1 DEF IndInv, Fits, Syncing
<1>3. pc'[r] = "refreshed" /\ OthersStay(r)
  BY <1>1, Going DEF IndInv, OthersStay
<1>4. OwnMove(r)
  BY <1>1, <1>2, <1>3 DEF OwnMove, Announced, SyncGoesOn, SyncMove
<1> QED BY <1>1, <1>3, <1>4, TablesAlone DEF Effect, HistoryGrows

\* A synchronisation never waits for the refresh of Refresh.
LEMMA EndEffect ==
  ASSUME IndInv, Synchronised, NEW r \in Requests, Refresh(r) \/ Publish(r) \/ PublishFault(r) \/ Abort(r)
  PROVE  Effect(r)
<1>1. Fits(r, pc[r], op[r]) /\ Commits(r, pc[r])
  BY DEF IndInv
<1>2. CASE Error(r) /\ UNCHANGED published /\ pc[r] \notin {"ok", "error"}
  BY <1>2, ErrorEffect
<1>3. CASE Refresh(r) /\ ~Error(r)
  <2>1. /\ pc[r] = "committed" /\ GoTo(r, "refreshed") /\ UNCHANGED <<tables, op, todo, history, published>>
    BY <1>3 DEF Refresh
  <2>2. op[r].kind # "sync_device_vdoms"
    BY <2>1 DEF Synchronised, SyncOf, Syncing
  <2> QED BY <2>1, <2>2, OnEffect DEF Announced, history
<1>4. CASE Publish(r)
  <2>1. /\ Announcing(r) /\ published' = published \cup {r}
        /\ GoTo(r, "ok") /\ UNCHANGED <<tables, op, todo, history>>
    BY <1>4 DEF Publish
  <2>2. pc[r] \in {"refreshed", "flushed"} /\ (op[r].kind \notin OnDeviceOnly => r \in committed)
    BY <1>1, <2>1 DEF Announcing, Flushed, Commits, Afterwards, OnDeviceOnly
  <2>3. pc'[r] = "ok"
    BY <2>1, Going DEF IndInv
  <2>4. op[r].kind = "sync_device_vdoms" => pc[r] = "refreshed"
    BY <1>1, <2>2 DEF Fits, OnDevices
  <2> QED BY <2>1, <2>2, <2>3, <2>4, OnEffect DEF Announced, SyncMove, history
<1>5. CASE PublishFault(r)
  <2>1. PICK p \in {"ok", "error"} :
          Announcing(r) /\ GoTo(r, p) /\ UNCHANGED <<tables, op, todo, published, history>>
    BY <1>5 DEF PublishFault
  <2>2. pc[r] \in {"refreshed", "flushed"}
    BY <2>1 DEF Announcing, Flushed
  <2>3. op[r].kind = "sync_device_vdoms" => pc[r] = "refreshed"
    BY <1>1, <2>2 DEF Fits, OnDevices
  <2> QED BY <2>1, <2>2, <2>3, OnEffect DEF Announced, SyncMove, history
<1> QED BY <1>2, <1>3, <1>4, <1>5 DEF Refresh, Abort
-----------------------------------------------------------------------------
(* Steps that write.                                                       *)

\* A writing step: what remains to be shown.
LEMMA WriteEffect ==
  ASSUME IndInv, NEW r \in Requests, NEW p, GoTo(r, p), UNCHANGED <<op, todo, published>>,
         pc[r] = "ready", op[r].kind # "sync_device_vdoms", committed' = committed \cup {r},
         deleted \subseteq deleted', OnTables(r),
         op[r].kind = "delete_client" => op[r].id \notin DOMAIN clients',
         op[r].kind = "delete_vdom" => op[r].id \notin DOMAIN vdoms'
  PROVE  Effect(r)
<1>1. OthersStay(r)
  BY Going DEF IndInv, OthersStay
<1>2. OwnMove(r)
  BY DEF OwnMove, Announced, Continued
<1> QED BY <1>1, <1>2 DEF Effect, HistoryGrows

\* Rows that stay keep what is registered registered.
LEMMA Remaining ==
  ASSUME DOMAIN vdoms \subseteq DOMAIN vdoms', VdomsStay, UNCHANGED deleted
  PROVE  StillHandled
<1> SUFFICES ASSUME NEW d \in DeviceIds, NEW n \in Names, Handled(d, n) PROVE Handled(d, n)'
  BY DEF StillHandled
<1>1. CASE <<d, n>> \in deleted
  BY <1>1 DEF Handled
<1>2. CASE VdomTaken(d, n)
  BY <1>2 DEF Handled, VdomTaken, VdomsStay
<1> QED BY <1>1, <1>2 DEF Handled

\* The client inserted is a new row.
LEMMA InsertClientEffect ==
  ASSUME IndInv, NEW r \in Requests, InsertClient(r)
  PROVE  Effect(r)
<1>1. pc[r] = "ready" /\ op[r].kind = "create_client" /\ UNCHANGED published
  BY DEF InsertClient, Ready
<1>2. CASE Error(r)
  BY <1>1, <1>2, ErrorEffect
<1>3. CASE ~Error(r)
  <2>1. PICK row : clients' = Put(clients, r, row)
    BY <1>3 DEF InsertClient
  <2>2. /\ GoTo(r, "committed") /\ committed' = committed \cup {r}
        /\ UNCHANGED <<devices, vdoms, op, todo, deleted>>
    BY <1>3 DEF InsertClient, Done
  <2>3. r \notin committed
    BY <1>1 DEF IndInv, Commits, Uncommitted
  <2>4. r \notin DOMAIN clients
    BY <2>3 DEF IndInv, AllOrNothing
  <2>5. DOMAIN clients' = DOMAIN clients \cup {r} /\ \A c \in DOMAIN clients : clients'[c] = clients[c]
    BY <2>1, <2>4 DEF Put
  <2>6. OnTables(r)
    BY <2>2, <2>3, <2>5 DEF OnTables, StillHandled, Handled, VdomTaken, ClientsFresh, VdomsFresh,
       VdomsStay, RootBorn, ChangesAsked
  <2> QED BY <1>1, <2>2, <2>6, WriteEffect
<1> QED BY <1>2, <1>3

\* Only the columns of the request change.
LEMMA SaveClientEffect ==
  ASSUME IndInv, NEW r \in Requests, SaveClient(r)
  PROVE  Effect(r)
<1>1. pc[r] = "ready" /\ op[r].kind = "update_client" /\ UNCHANGED published
  BY DEF SaveClient, Ready
<1>2. CASE Error(r)
  BY <1>1, <1>2, ErrorEffect
<1>3. CASE ~Error(r)
  <2> PICK o : o = op[r]
    OBVIOUS
  <2>1. /\ clients' = [c \in DOMAIN clients |-> IF c = o.id THEN Written(clients[c], o) ELSE clients[c]]
        /\ GoTo(r, "committed") /\ committed' = committed \cup {r}
        /\ UNCHANGED <<devices, vdoms, op, todo, deleted>>
    BY <1>3 DEF SaveClient, Done
  <2>2. r \in committed' \ committed
    BY <1>1, <2>1 DEF IndInv, Commits, Uncommitted
  <2>3. ASSUME NEW c \in DOMAIN clients, NEW f \in {"name", "active"}, clients'[c][f] # clients[c][f]
        PROVE  Asked("update_client", c, f, clients'[c][f])
    <3>1. clients[c] \in ClientRows
      BY TablesTyped DEF IndInv
    <3>2. f \in DOMAIN clients[c]
      BY <2>3, <3>1 DEF ClientRows
    <3>3. c = o.id /\ clients'[c] = Written(clients[c], o)
      BY <2>1, <2>3
    <3>4. clients'[c][f] = IF f \in Dirty(o) THEN o.change[f] ELSE clients[c][f]
      BY <3>2, <3>3 DEF Written
    <3>5. f \in DOMAIN o.change /\ o.change[f] = clients'[c][f]
      BY <2>3, <3>4 DEF Dirty
    <3> QED BY <1>1, <2>2, <3>3, <3>5 DEF Asked
  <2>4. DOMAIN clients' = DOMAIN clients
    BY <2>1
  <2>5. ChangesAsked
    BY <2>1, <2>3, <2>4 DEF ChangesAsked
  <2>6. OnTables(r)
    BY <2>1, <2>4, <2>5 DEF OnTables, StillHandled, Handled, VdomTaken, ClientsFresh, VdomsFresh,
       VdomsStay, RootBorn
  <2> QED BY <1>1, <2>1, <2>6, WriteEffect
<1> QED BY <1>2, <1>3

\* A client is gone once its deletion is committed.
LEMMA EraseClientEffect ==
  ASSUME IndInv, NEW r \in Requests, EraseClient(r)
  PROVE  Effect(r)
<1>1. pc[r] = "ready" /\ op[r].kind = "delete_client" /\ UNCHANGED published
  BY DEF EraseClient, Ready
<1>2. CASE Error(r)
  BY <1>1, <1>2, ErrorEffect
<1>3. CASE ~Error(r)
  <2>1. /\ clients' = Remove(clients, op[r].id)
        /\ GoTo(r, "refreshed") /\ committed' = committed \cup {r}
        /\ UNCHANGED <<devices, vdoms, op, todo, deleted>>
    BY <1>3 DEF EraseClient, Done
  <2>2. DOMAIN clients' = DOMAIN clients \ {op[r].id} /\ \A c \in DOMAIN clients' : clients'[c] = clients[c]
    BY <2>1 DEF Remove
  <2>3. OnTables(r)
    BY <2>1, <2>2 DEF OnTables, StillHandled, Handled, VdomTaken, ClientsFresh, VdomsFresh,
       VdomsStay, RootBorn, ChangesAsked
  <2> QED BY <1>1, <2>1, <2>2, <2>3, WriteEffect
<1> QED BY <1>2, <1>3

\* The one step that adds a device adds its root VDOM.
LEMMA EnsureRootVdomEffect ==
  ASSUME IndInv, NEW r \in Requests, EnsureRootVdom(r)
  PROVE  Effect(r)
<1>1. pc[r] = "flushed" /\ op[r].kind = "create_device" /\ UNCHANGED published
  BY DEF EnsureRootVdom, Flushed
<1>2. CASE Error(r)
  BY <1>1, <1>2, ErrorEffect
<1>3. CASE ~Error(r)
  <2>1. PICK row, root : /\ devices' = Put(devices, r, row) /\ vdoms' = Put(vdoms, <<r, Root>>, root)
                         /\ root.device = r /\ root.name = Root
    BY <1>3 DEF EnsureRootVdom, VdomRow
  <2>2. /\ GoTo(r, "committed") /\ committed' = committed \cup {r}
        /\ UNCHANGED <<clients, op, todo, deleted>>
    BY <1>3 DEF EnsureRootVdom, Done
  <2>3. r \notin committed
    BY <1>1 DEF IndInv, Commits, Uncommitted
  <2>4. <<r, Root>> \notin DOMAIN vdoms
    BY <1>1, <2>3, InventoryAssumption DEF IndInv, AllOrNothing, InventoryAssumption
  <2>5. /\ DOMAIN vdoms' = DOMAIN vdoms \cup {<<r, Root>>} /\ vdoms'[<<r, Root>>] = root
        /\ \A v \in DOMAIN vdoms : vdoms'[v] = vdoms[v]
    BY <2>1, <2>4 DEF Put
  <2>6. DOMAIN devices' = DOMAIN devices \cup {r}
    BY <2>1 DEF Put
  <2>7. RootBorn
    BY <2>1, <2>5, <2>6 DEF RootBorn
  <2>8. VdomsStay /\ ChangesAsked
    BY <2>2, <2>5 DEF VdomsStay, ChangesAsked
  <2>9. VdomsFresh(r)
    BY <1>1, <2>1, <2>2, <2>3, <2>5 DEF VdomsFresh, VdomFresh
  <2>10. StillHandled
    BY <2>2, <2>5, <2>8, Remaining
  <2>11. OnTables(r)
    BY <2>2, <2>7, <2>8, <2>9, <2>10 DEF OnTables, ClientsFresh
  <2>12. OthersStay(r)
    BY <2>2, Going DEF IndInv, OthersStay
  <2>13. OwnMove(r)
    BY <1>1, <2>2 DEF OwnMove, Announced, Continued
  <2> QED BY <2>2, <2>11, <2>12, <2>13 DEF Effect, HistoryGrows
<1> QED BY <1>2, <1>3

\* One insert; a synchronisation has not inserted the row before, as its name
\* would be taken.
LEMMA InsertVdomEffect ==
  ASSUME IndInv, RowsNamed, NEW r \in Requests, InsertNewVdom(r) \/ SyncInsert(r)
  PROVE  Effect(r)
<1>1. /\ pc[r] \in {"ready", "inserting"} /\ UNCHANGED published
      /\ pc[r] = "ready" => op[r].kind = "create_vdom"
      /\ pc[r] = "inserting" => op[r].kind = "sync_device_vdoms"
  BY DEF InsertNewVdom, SyncInsert, InsertVdom, Ready, IndInv, Fits, Syncing
<1>2. CASE Error(r)
  BY <1>1, <1>2, ErrorEffect
<1>3. CASE ~Error(r)
  <2> DEFINE id == op[r].id
  <2>1. PICK row : /\ vdoms' = Put(vdoms, op[r].id, row)
                   /\ row.device = op[r].device /\ row.name = op[r].id[2]
    BY <1>3 DEF InsertNewVdom, SyncInsert, InsertVdom, VdomRow
  <2>2. /\ UNCHANGED <<clients, devices, op, todo, deleted>>
        /\ ~VdomTaken(op[r].device, op[r].id[2])
        /\ pc[r] = "ready" => GoTo(r, "committed") /\ committed' = committed \cup {r}
        /\ pc[r] = "inserting" => GoTo(r, "reloading") /\ committed' = committed
    BY <1>3 DEF InsertNewVdom, SyncInsert, InsertVdom, Ready
  <2>3. r \notin committed
    BY <1>1 DEF IndInv, Commits, Uncommitted
  <2>4. op[r].id \in VdomIds /\ op[r].id[1] = r
    <3>1. op[r] \in OpRecords /\ Fits(r, pc[r], op[r])
      BY DEF IndInv, TypeOK
    <3>2. CASE op[r].kind = "create_vdom"
      BY <3>1, <3>2 DEF OpRecords, Fits, NoOp
    <3>3. CASE op[r].kind = "sync_device_vdoms"
      BY <3>3, SyncShape DEF SyncRecords
    <3> QED BY <1>1, <3>2, <3>3
  <2>5. op[r].id = <<r, op[r].id[2]>> /\ op[r].id[2] \in Names
    BY <2>4 DEF VdomIds
  <2>6. op[r].id \notin DOMAIN vdoms
    <3>1. CASE op[r].kind = "create_vdom"
      BY <2>3, <2>5, <3>1 DEF IndInv, AllOrNothing
    <3>2. CASE op[r].kind = "sync_device_vdoms"
      BY <2>2, <2>4, <3>2 DEF RowsNamed, VdomTaken
    <3> QED BY <1>1, <3>1, <3>2
  <2>7. /\ DOMAIN vdoms' = DOMAIN vdoms \cup {op[r].id} /\ vdoms'[op[r].id] = row
        /\ \A v \in DOMAIN vdoms : vdoms'[v] = vdoms[v]
    BY <2>1, <2>6 DEF Put
  <2>8. VdomsStay /\ ChangesAsked /\ RootBorn
    BY <2>2, <2>7 DEF VdomsStay, ChangesAsked, RootBorn
  <2>9. StillHandled
    BY <2>2, <2>7, <2>8, Remaining
  <2>10. /\ pc'[r] = IF pc[r] = "ready" THEN "committed" ELSE "reloading"
         /\ OthersStay(r)
    BY <1>1, <2>2, Going DEF IndInv, OthersStay
  <2>11. VdomsFresh(r)
    <3> SUFFICES ASSUME NEW v, v = op[r].id PROVE VdomFresh(r, v)
      BY <2>7 DEF VdomsFresh
    <3>1. vdoms'[v].name = v[2] /\ vdoms'[v].device = op[r].device /\ v[1] = r
      BY <2>1, <2>4, <2>7
    <3> QED BY <1>1, <2>2, <2>3, <2>10, <3>1 DEF VdomFresh
  <2>12. OnTables(r)
    BY <2>2, <2>8, <2>9, <2>11 DEF OnTables, ClientsFresh
  <2>13. OwnMove(r)
    BY <1>1, <2>2, <2>10 DEF OwnMove, Announced, Continued, SyncGoesOn, SyncMove
  <2> QED BY <1>1, <2>2, <2>10, <2>12, <2>13 DEF Effect, HistoryGrows
<1> QED BY <1>2, <1>3

\* Only the columns of the request change; name and device are not among them.
LEMMA SaveVdomEffect ==
  ASSUME IndInv, NEW r \in Requests, SaveVdom(r)
  PROVE  Effect(r)
<1>1. pc[r] = "ready" /\ op[r].kind = "update_vdom" /\ UNCHANGED published
  BY DEF SaveVdom, Ready
<1>2. CASE Error(r)
  BY <1>1, <1>2, ErrorEffect
<1>3. CASE ~Error(r)
  <2> PICK o : o = op[r]
    OBVIOUS
  <2>1. /\ vdoms' = [v \in DOMAIN vdoms |-> IF v = o.id THEN Written(vdoms[v], o) ELSE vdoms[v]]
        /\ GoTo(r, "committed") /\ committed' = committed \cup {r}
        /\ UNCHANGED <<clients, devices, op, todo, deleted>>
    BY <1>3 DEF SaveVdom, Done
  <2>2. o \in UpdateRecords /\ r \in committed' \ committed
    <3>1. o \in OpRecords
      BY DEF IndInv, TypeOK
    <3> QED BY <1>1, <2>1, <3>1 DEF IndInv, Commits, Uncommitted, OpRecords, NoOp, UpdateRecords
  <2>3. \A v \in DOMAIN vdoms : vdoms[v] \in VdomRows
    BY DEF IndInv, TypeOK
  <2>4. DOMAIN vdoms' = DOMAIN vdoms
    BY <2>1
  <2>5. ASSUME NEW v \in DOMAIN vdoms, NEW f \in {"device", "name", "client", "active"},
               vdoms'[v][f] # vdoms[v][f]
        PROVE  Asked("update_vdom", v, f, vdoms'[v][f])
    <3>1. f \in DOMAIN vdoms[v]
      BY <2>3 DEF VdomRows
    <3>2. v = o.id /\ vdoms'[v] = Written(vdoms[v], o)
      BY <2>1, <2>5
    <3>3. vdoms'[v][f] = IF f \in Dirty(o) THEN o.change[f] ELSE vdoms[v][f]
      BY <3>1, <3>2 DEF Written
    <3>4. f \in DOMAIN o.change /\ o.change[f] = vdoms'[v][f]
      BY <2>5, <3>3 DEF Dirty
    <3> QED BY <1>1, <2>2, <3>2, <3>4 DEF Asked
  <2>6. VdomsStay
    <3> SUFFICES ASSUME NEW v \in DOMAIN vdoms
                 PROVE  vdoms'[v].name = vdoms[v].name /\ vdoms'[v].device = vdoms[v].device
      BY <2>4 DEF VdomsStay
    <3>1. vdoms'[v] \in {vdoms[v], Written(vdoms[v], o)}
      BY <2>1
    <3> QED BY <2>2, <2>3, <3>1, WrittenVdom
  <2>7. ChangesAsked
    BY <2>1, <2>4, <2>5 DEF ChangesAsked
  <2>8. StillHandled
    BY <2>1, <2>4, <2>6, Remaining
  <2>9. OnTables(r)
    BY <2>1, <2>4, <2>6, <2>7, <2>8 DEF OnTables, ClientsFresh, VdomsFresh, RootBorn
  <2> QED BY <1>1, <2>1, <2>9, WriteEffect
<1> QED BY <1>2, <1>3

\* The one step by which a VDOM leaves the table records it.
LEMMA EraseVdomEffect ==
  ASSUME IndInv, NEW r \in Requests, EraseVdom(r)
  PROVE  Effect(r)
<1>1. /\ pc[r] = "ready" /\ op[r].kind = "delete_vdom"
      /\ vdoms' = Remove(vdoms, op[r].id)
      /\ deleted' = deleted \cup {<<vdoms[w].device, vdoms[w].name>> : w \in DOMAIN vdoms \cap {op[r].id}}
      /\ GoTo(r, "refreshed") /\ committed' = committed \cup {r}
      /\ UNCHANGED <<clients, devices, op, todo, published>>
  BY DEF EraseVdom, Ready, Done
<1>2. DOMAIN vdoms' = DOMAIN vdoms \ {op[r].id} /\ \A v \in DOMAIN vdoms' : vdoms'[v] = vdoms[v]
  BY <1>1 DEF Remove
<1>3. StillHandled
  <2> SUFFICES ASSUME NEW d \in DeviceIds, NEW n \in Names, Handled(d, n) PROVE Handled(d, n)'
    BY DEF StillHandled
  <2>1. CASE <<d, n>> \in deleted
    BY <1>1, <2>1 DEF Handled
  <2>2. CASE VdomTaken(d, n)
    <3>1. PICK v \in DOMAIN vdoms : vdoms[v].device = d /\ vdoms[v].name = n
      BY <2>2 DEF VdomTaken
    <3>2. CASE v = op[r].id
      BY <1>1, <3>1, <3>2 DEF Handled
    <3>3. CASE v # op[r].id
      BY <1>2, <3>1, <3>3 DEF Handled, VdomTaken
    <3> QED BY <3>2, <3>3
  <2> QED BY <2>1, <2>2 DEF Handled
<1>4. OnTables(r)
  BY <1>1, <1>2, <1>3 DEF OnTables, ClientsFresh, VdomsFresh, VdomsStay, RootBorn, ChangesAsked
<1> QED BY <1>1, <1>2, <1>4, WriteEffect
-----------------------------------------------------------------------------
(* The steps keep PastInv.                                                 *)

\* Every later step of a request has an effect of this kind.
LEMMA ServiceEffect ==
  ASSUME IndInv, PastInv, NEW r \in Requests, Service(r) \/ PublishFault(r) \/ Abort(r)
  PROVE  Effect(r)
<1>1. RowsNamed /\ Synchronised
  BY DEF PastInv
<1> QED BY <1>1, InsertClientEffect, SaveClientEffect, EraseClientEffect, ProbeEffect, FlushEffect,
           EnsureRootVdomEffect, InsertVdomEffect, SaveVdomEffect, EraseVdomEffect, SyncEffect,
           ReloadEffect, SyncDoneEffect, EndEffect DEF Service

\* A request that has begun was nobody's and had done nothing.
LEMMA NewIsClean ==
  ASSUME IndInv, NEW r \in Requests, pc[r] = "new"
  PROVE  op[r].kind = "none" /\ r \notin committed
BY DEF IndInv, Fits, Commits, Uncommitted, NoOp

\* A request that asks the device has committed nothing and has no row.
LEMMA FetchingIsClean ==
  ASSUME IndInv, NEW r \in Requests, pc[r] = "fetching", NEW v, v[1] = r
  PROVE  ~Settled(v)
BY InventoryAssumption DEF IndInv, Commits, Uncommitted, Settled, MayInsert, InventoryAssumption

\* What is settled stays so: only a synchronisation that is on its way could
\* insert the row.
LEMMA SettledStays ==
  ASSUME IndInv, PastInv, NEW r \in Requests, Effect(r), NEW v, Settled(v)
  PROVE  Settled(v)'
<1>1. CASE v[1] \in Devices0 \cup committed
  BY <1>1 DEF Effect, HistoryGrows, Settled
<1>2. CASE v[1] \notin Devices0 \cup committed
  <2>1. v[1] \in Requests /\ op[v[1]].kind = "sync_device_vdoms" /\ ~MayInsert(v[1], v[2])
    BY <1>2 DEF Settled
  <2>2. CASE v[1] # r
    BY <2>1, <2>2 DEF Effect, OthersStay, Settled, MayInsert
  <2>3. CASE v[1] = r
    <3>1. SyncGoesOn(r)
      BY <2>1, <2>3, NewIsClean DEF Effect, OwnMove, Begun, Continued
    <3>2. pc[r] = "inserting" => op[r].id[2] \in todo[r]
      BY <2>1, <2>3 DEF PastInv, Synchronised, SyncOf, Inserting
    <3>3. ~MayInsert(r, v[2])'
      BY <2>1, <2>3, <3>1, <3>2 DEF SyncGoesOn, SyncMove, MayInsert
    <3> QED BY <2>3, <3>1, <3>3 DEF SyncGoesOn, Settled
  <2> QED BY <2>2, <2>3
<1> QED BY <1>1, <1>2

\* A request keeps its device, so its rows still have it.
LEMMA RowsNamedStep ==
  ASSUME IndInv, PastInv, NEW r \in Requests, Effect(r)
  PROVE  RowsNamed'
<1> SUFFICES ASSUME NEW v \in DOMAIN vdoms'
             PROVE  /\ vdoms'[v].name = v[2]
                    /\ v[1] \in Requests /\ op'[v[1]].kind = "sync_device_vdoms" =>
                         vdoms'[v].device = op'[v[1]].device
  BY DEF RowsNamed
<1>1. CASE v \notin DOMAIN vdoms
  BY <1>1 DEF Effect, OnTables, VdomsFresh, VdomFresh
<1>2. CASE v \in DOMAIN vdoms
  <2>1. vdoms'[v].name = vdoms[v].name /\ vdoms'[v].device = vdoms[v].device
    BY <1>2 DEF Effect, OnTables, VdomsStay
  <2>2. vdoms[v].name = v[2] /\ Settled(v)
    BY <1>2 DEF PastInv, RowsNamed, AllSettled
  <2>3. ASSUME v[1] \in Requests, op'[v[1]].kind = "sync_device_vdoms"
        PROVE  op[v[1]].kind = "sync_device_vdoms" /\ op'[v[1]].device = op[v[1]].device
    <3>1. CASE v[1] # r
      BY <2>3, <3>1 DEF Effect, OthersStay
    <3>2. CASE v[1] = r
      <4>1. pc[r] # "new"
        BY <2>2, <3>2, NewIsClean, InventoryAssumption DEF Settled, InventoryAssumption
      <4> QED BY <2>3, <3>2, <4>1 DEF Effect, OwnMove, Begun, Continued, SyncGoesOn
    <3> QED BY <3>1, <3>2
  <2> QED BY <1>2, <2>1, <2>2, <2>3 DEF PastInv, RowsNamed
<1> QED BY <1>1, <1>2

\* A row inserted by this step is not inserted again.
LEMMA AllSettledStep ==
  ASSUME IndInv, PastInv, NEW r \in Requests, Effect(r)
  PROVE  AllSettled'
<1> SUFFICES ASSUME NEW v \in DOMAIN vdoms' PROVE Settled(v)'
  BY DEF AllSettled
<1>1. CASE v \in DOMAIN vdoms
  BY <1>1, SettledStays DEF PastInv, AllSettled
<1>2. CASE v \notin DOMAIN vdoms
  BY <1>2 DEF Effect, OnTables, VdomsFresh, VdomFresh, Settled, MayInsert
<1> QED BY <1>1, <1>2

\* A request that has published is over.
LEMMA ToldStep ==
  ASSUME IndInv, PastInv, NEW r \in Requests, Effect(r)
  PROVE  Told'
<1> SUFFICES ASSUME NEW q \in published'
             PROVE  pc'[q] = "ok" /\ (op'[q].kind \notin OnDeviceOnly => q \in committed')
  BY DEF Told
<1>1. CASE q \in published
  <2>1. pc[q] = "ok" /\ (op[q].kind \notin OnDeviceOnly => q \in committed) /\ q \in Requests
    BY <1>1 DEF PastInv, Told, IndInv, TypeOK
  <2>2. q # r
    BY <2>1 DEF Effect, OwnMove
  <2> QED BY <2>1, <2>2 DEF Effect, OthersStay, HistoryGrows
<1>2. CASE q \notin published
  BY <1>2 DEF Effect, OwnMove, Announced, HistoryGrows
<1> QED BY <1>1, <1>2

\* A row that was committed and is deleted does not come back: rows are new
\* when they are inserted.
LEMMA GoneStep ==
  ASSUME IndInv, PastInv, NEW r \in Requests, Effect(r)
  PROVE  Gone'
<1>1. ASSUME NEW q \in Requests, op'[q].kind = "delete_client"
      PROVE  /\ op'[q].id \in Clients0 \cup committed'
             /\ q \in committed' => op'[q].id \notin DOMAIN clients'
  <2>1. CASE q = r /\ Begun(r)
    <3>1. op'[r].id \in DOMAIN clients /\ committed' = committed /\ pc[r] = "new"
      BY <1>1, <2>1 DEF Begun
    <3>2. DOMAIN clients \subseteq ClientIds
      BY TablesTyped DEF IndInv
    <3>3. op'[r].id \in Clients0 \cup committed
      BY <3>1, <3>2 DEF IndInv, AllOrNothing, ClientIds
    <3> QED BY <2>1, <3>1, <3>3, NewIsClean
  <2>2. CASE ~(q = r /\ Begun(r))
    <3>1. op[q].kind = "delete_client" /\ op'[q].id = op[q].id
      BY <1>1, <2>2 DEF Effect, OthersStay, OwnMove, Continued, SyncGoesOn
    <3>2. /\ op[q].id \in Clients0 \cup committed
          /\ q \in committed => op[q].id \notin DOMAIN clients
      BY <3>1 DEF PastInv, Gone
    <3>3. ASSUME q \in committed' PROVE op[q].id \notin DOMAIN clients'
      <4>1. CASE q \in committed
        BY <3>2, <4>1, InventoryAssumption DEF Effect, OnTables, ClientsFresh, InventoryAssumption
      <4>2. CASE q \notin committed
        <5>1. q = r
          BY <3>3, <4>2 DEF Effect, HistoryGrows
        <5> QED BY <2>2, <3>1, <3>3, <4>2, <5>1 DEF Effect, OwnMove, Continued, SyncGoesOn
      <4> QED BY <4>1, <4>2
    <3> QED BY <3>1, <3>2, <3>3 DEF Effect, HistoryGrows
  <2> QED BY <2>1, <2>2
<1>2. ASSUME NEW q \in Requests, op'[q].kind = "delete_vdom"
      PROVE  /\ Settled(op[q].id)'
             /\ q \in committed' => op'[q].id \notin DOMAIN vdoms'
  <2>1. CASE q = r /\ Begun(r)
    <3>1. op'[r].id \in DOMAIN vdoms /\ committed' = committed /\ pc[r] = "new"
      BY <1>2, <2>1 DEF Begun
    <3>2. PICK v : v = op'[r].id
      OBVIOUS
    <3>3. Settled(v)
      BY <3>1, <3>2 DEF PastInv, AllSettled
    <3>4. Settled(v)'
      BY <3>3, SettledStays
    <3>5. Settled(op[r].id)'
      BY <3>2, <3>4 DEF Settled, MayInsert
    <3> QED BY <2>1, <3>1, <3>5, NewIsClean
  <2>2. CASE ~(q = r /\ Begun(r))
    <3>1. op[q].kind = "delete_vdom" /\ op'[q].id = op[q].id
      BY <1>2, <2>2 DEF Effect, OthersStay, OwnMove, Continued, SyncGoesOn
    <3>2. PICK v : v = op[q].id
      OBVIOUS
    <3>3. /\ Settled(v)
          /\ q \in committed => v \notin DOMAIN vdoms
      BY <3>1, <3>2 DEF PastInv, Gone
    <3>4. Settled(v)'
      BY <3>3, SettledStays
    <3>5. ASSUME q \in committed' PROVE v \notin DOMAIN vdoms'
      <4>1. CASE q \in committed
        <5>1. SUFFICES ASSUME VdomFresh(r, v) PROVE FALSE
          BY <3>3, <4>1 DEF Effect, OnTables, VdomsFresh
        <5>2. v[1] = r /\ r \notin committed
          BY <5>1 DEF VdomFresh
        <5>3. op[r].kind = "sync_device_vdoms" /\ ~MayInsert(r, v[2])
          BY <3>3, <5>2, InventoryAssumption DEF Settled, InventoryAssumption
        <5>4. SyncGoesOn(r)
          BY <5>3, NewIsClean DEF Effect, OwnMove, Begun, Continued
        <5>5. pc'[r] = "reloading" /\ v[2] = op'[r].id[2]
          BY <5>1, <5>4 DEF VdomFresh, SyncGoesOn
        <5>6. pc[r] = "inserting" /\ op'[r] = op[r]
          BY <5>4, <5>5 DEF SyncGoesOn, SyncMove
        <5>7. op[r].id[2] \in todo[r]
          BY <5>3, <5>6 DEF PastInv, Synchronised, SyncOf, Inserting
        <5> QED BY <5>3, <5>5, <5>6, <5>7 DEF MayInsert
      <4>2. CASE q \notin committed
        <5>1. q = r
          BY <3>5, <4>2 DEF Effect, HistoryGrows
        <5> QED BY <2>2, <3>1, <3>2, <3>5, <4>2, <5>1 DEF Effect, OwnMove, Continued, SyncGoesOn
      <4> QED BY <4>1, <4>2
    <3>6. Settled(op[q].id)'
      BY <3>1, <3>2, <3>4 DEF Settled, MayInsert
    <3> QED BY <3>1, <3>2, <3>5, <3>6
  <2> QED BY <2>1, <2>2
<1>3. ASSUME NEW q \in Requests
      PROVE  /\ op'[q].kind = "delete_client" =>
                  /\ op'[q].id \in Clients0 \cup committed'
                  /\ q \in committed' => op'[q].id \notin DOMAIN clients'
             /\ op'[q].kind = "delete_vdom" =>
                  /\ Settled(op[q].id)'
                  /\ q \in committed' => op'[q].id \notin DOMAIN vdoms'
  BY <1>1, <1>2
<1> QED BY <1>3 DEF Gone, Settled, MayInsert

\* What a synchronisation puts behind it is registered or was deleted.
LEMMA SynchronisedStep ==
  ASSUME IndInv, PastInv, NEW r \in Requests, Effect(r)
  PROVE  Synchronised'
<1> SUFFICES ASSUME NEW q \in Requests, op'[q].kind = "sync_device_vdoms" PROVE SyncOf(q)'
  BY DEF Synchronised
<1>1. ASSUME NEW n \in Names, NEW d, op[q].kind = "sync_device_vdoms", d = op[q].device, Handled(d, n)
      PROVE  Handled(d, n)'
  <2>1. d \in DeviceIds
    BY <1>1, SyncShape DEF SyncRecords
  <2> QED BY <1>1, <2>1 DEF Effect, OnTables, StillHandled
<1>2. CASE q # r
  <2>1. op'[q] = op[q] /\ pc'[q] = pc[q] /\ todo'[q] = todo[q] /\ op[q].kind = "sync_device_vdoms"
    BY <1>2 DEF Effect, OthersStay
  <2>2. SyncOf(q) /\ op[q].found \subseteq Names
    BY <2>1, SyncShape DEF PastInv, Synchronised, SyncRecords
  <2>3. PICK d : d = op[q].device
    OBVIOUS
  <2>4. \A n \in Names : Handled(d, n) => Handled(d, n)'
    BY <1>1, <2>1, <2>3
  <2>5. pc'[q] \notin {"fetching", "error"} => \A n \in op'[q].found \ todo'[q] : Handled(d, n)'
    BY <2>1, <2>2, <2>3, <2>4 DEF SyncOf
  <2>6. pc'[q] \notin {"fetching", "error"} =>
          \A n \in op'[q].found \ todo'[q] : Handled(op[q].device, n)'
    BY <2>1, <2>3, <2>5 DEF Handled, VdomTaken
  <2> QED BY <2>1, <2>2, <2>6 DEF SyncOf
<1>3. CASE q = r /\ Begun(r)
  BY <1>3 DEF Begun, SyncOf, Syncing, Inserting
<1>4. CASE q = r /\ ~Begun(r)
  <2>1. SyncGoesOn(r)
    BY <1>4 DEF Effect, OwnMove, Continued
  <2>2. /\ op[r].kind = "sync_device_vdoms" /\ op'[r].device = op[r].device
        /\ SyncMove(r, pc[r], pc'[r])
    BY <2>1 DEF SyncGoesOn
  <2>3. SyncOf(r) /\ op[r].found \subseteq Names /\ op[r].id[2] \in Names
    BY <2>2, SyncShape DEF PastInv, Synchronised, SyncRecords, VdomIds
  <2>4. PICK d : d = op[r].device
    OBVIOUS
  <2>5. \A n \in Names : Handled(d, n) => Handled(d, n)'
    BY <1>1, <1>4, <2>2, <2>4
  <2>6. pc'[r] \notin {"fetching", "error"} => \A n \in op'[r].found \ todo'[r] : Handled(d, n)'
    BY <2>2, <2>3, <2>4, <2>5 DEF SyncMove, SyncOf, Syncing
  <2>7. pc'[r] \notin {"fetching", "error"} =>
          \A n \in op'[r].found \ todo'[r] : Handled(op[r].device, n)'
    BY <2>2, <2>4, <2>6 DEF Handled, VdomTaken
  <2>8. /\ pc'[r] \in Syncing \cup {"refreshed", "ok", "error"}
        /\ pc'[r] \in Inserting => op'[r].id[2] \in todo'[r]
        /\ pc'[r] \in Inserting \cup {"syncing"} => todo'[r] \subseteq op'[r].found
        /\ pc'[r] \in {"refreshed", "ok"} => todo'[r] = {}
    BY <2>2, <2>3 DEF SyncMove, SyncOf, Syncing, Inserting
  <2> QED BY <1>4, <2>7, <2>8 DEF SyncOf
<1> QED BY <1>2, <1>3, <1>4

\* A synchronisation inserts a VDOM that the device reported, and once it has
\* begun to insert, what was reported does not change any more.
LEMMA ReportedStep ==
  ASSUME IndInv, PastInv, NEW r \in Requests, Effect(r)
  PROVE  SyncLeavesOnlyReported'
<1> SUFFICES ASSUME NEW v \in DOMAIN vdoms', v[1] \in Requests, op'[v[1]].kind = "sync_device_vdoms"
             PROVE  vdoms'[v].name \in op'[v[1]].found /\ vdoms'[v].device = op'[v[1]].device
  BY DEF SyncLeavesOnlyReported
<1>1. vdoms'[v].name = v[2] /\ vdoms'[v].device = op'[v[1]].device
  BY RowsNamedStep DEF RowsNamed
<1>2. CASE v \notin DOMAIN vdoms
  <2>1. VdomFresh(r, v)
    BY <1>2 DEF Effect, OnTables, VdomsFresh
  <2>2. v[1] = r /\ pc'[r] = "reloading" /\ v[2] = op'[r].id[2]
    BY <2>1 DEF VdomFresh
  <2>3. SyncGoesOn(r)
    BY <2>2 DEF Effect, OwnMove, Begun, Continued
  <2>4. pc[r] = "inserting" /\ op'[r] = op[r]
    BY <2>2, <2>3 DEF SyncGoesOn, SyncMove
  <2>5. op[r].id[2] \in todo[r] /\ todo[r] \subseteq op[r].found
    BY <2>3, <2>4 DEF PastInv, Synchronised, SyncOf, Inserting, SyncGoesOn
  <2> QED BY <1>1, <2>2, <2>4, <2>5
<1>3. CASE v \in DOMAIN vdoms
  <2>1. Settled(v) /\ vdoms[v].name = v[2]
    BY <1>3 DEF PastInv, AllSettled, RowsNamed
  <2>2. op[v[1]].kind = "sync_device_vdoms" => v[2] \in op[v[1]].found
    BY <1>3, <2>1 DEF PastInv, SyncLeavesOnlyReported
  <2>3. CASE v[1] # r
    BY <1>1, <2>2, <2>3 DEF Effect, OthersStay
  <2>4. CASE v[1] = r
    <3>1. pc[r] # "new"
      BY <2>1, <2>4, NewIsClean, InventoryAssumption DEF Settled, InventoryAssumption
    <3>2. SyncGoesOn(r)
      BY <2>4, <3>1 DEF Effect, OwnMove, Begun, Continued
    <3>3. pc[r] # "fetching"
      BY <2>1, <2>4, FetchingIsClean
    <3>4. op'[r].found = op[r].found
      BY <3>2, <3>3 DEF SyncGoesOn, SyncMove
    <3> QED BY <1>1, <2>2, <2>4, <3>2, <3>4 DEF SyncGoesOn
  <2> QED BY <2>3, <2>4
<1> QED BY <1>2, <1>3
-----------------------------------------------------------------------------
(* The theorems.                                                           *)

\* The invariant holds at the start.
LEMMA PastInit == Init => PastInv
<1> SUFFICES ASSUME Init PROVE PastInv
  OBVIOUS
<1> USE DEF Init
<1>1. \A v \in DOMAIN vdoms : v \in Devices0 \X {Root} /\ vdoms[v].name = Root
  OBVIOUS
<1>2. \A r \in Requests : op[r].kind = "none"
  BY DEF NoOp
<1>3. RowsNamed
  BY <1>1, <1>2 DEF RowsNamed
<1>4. AllSettled
  BY <1>1 DEF AllSettled, Settled
<1>5. Told /\ Gone /\ Synchronised
  BY <1>2 DEF Told, Gone, Synchronised
<1>6. SyncLeavesOnlyReported
  BY <1>1, InventoryAssumption DEF SyncLeavesOnlyReported, InventoryAssumption
<1> QED BY <1>3, <1>4, <1>5, <1>6 DEF PastInv

\* Every step is one of some request.
LEMMA NextEffect ==
  ASSUME IndInv, PastInv, Next
  PROVE  \E r \in Requests : Effect(r)
BY ArrivalEffect, ServiceEffect DEF Next

\* Every step keeps the invariant.
LEMMA PastNext == IndInv /\ PastInv /\ [Next]_vars => PastInv'
<1> SUFFICES ASSUME IndInv, PastInv, [Next]_vars PROVE PastInv'
  OBVIOUS
<1>1. CASE Next
  <2>1. PICK r \in Requests : Effect(r)
    BY <1>1, NextEffect
  <2> QED BY <2>1, RowsNamedStep, AllSettledStep, ToldStep, GoneStep, SynchronisedStep,
           ReportedStep DEF PastInv
<1>2. CASE UNCHANGED vars
  BY <1>2 DEF vars, tables, history, PastInv, RowsNamed, AllSettled, Settled, MayInsert, Told, Gone,
     Synchronised, SyncOf, Handled, VdomTaken, SyncLeavesOnlyReported
<1> QED BY <1>1, <1>2

\* PastInv in every state.
THEOREM PastInvariance == Spec => []PastInv
BY Invariance, PastInit, PastNext, PTL DEF Spec

\* A device is never committed without its root VDOM.
THEOREM BornWithRootHolds == Spec => BornWithRoot
<1>1. IndInv /\ PastInv /\ [Next]_vars => [RootBorn]_vars
  <2> SUFFICES ASSUME IndInv, PastInv, Next PROVE RootBorn
    OBVIOUS
  <2> QED BY NextEffect DEF Effect, OnTables
<1>2. Spec => [][RootBorn]_vars
  BY <1>1, Invariance, PastInvariance, PTL DEF Spec
<1> QED BY <1>2 DEF RootBorn, BornWithRoot

\* A committed value changes only to what a request was asked to set, however
\* many requests update the row.
THEOREM OnlyAskedChangesHolds == Spec => OnlyAskedChanges
<1>1. IndInv /\ PastInv /\ [Next]_vars => [ChangesAsked]_vars
  <2> SUFFICES ASSUME IndInv, PastInv, Next PROVE ChangesAsked
    OBVIOUS
  <2> QED BY NextEffect DEF Effect, OnTables
<1>2. Spec => [][ChangesAsked]_vars
  BY <1>1, Invariance, PastInvariance, PTL DEF Spec
<1> QED BY <1>2 DEF ChangesAsked, OnlyAskedChanges

\* An event tells of a committed change, and of a deletion that is for good.
THEOREM EventsTellTheTruthHolds == Spec => []EventsTellTheTruth
<1>1. IndInv /\ PastInv => EventsTellTheTruth
  BY DEF IndInv, TypeOK, PastInv, Told, Gone, EventsTellTheTruth, OnDeviceOnly
<1> QED BY <1>1, Invariance, PastInvariance, PTL

\* A synchronisation that answers without error has registered all it was told.
THEOREM SyncCompleteHolds == Spec => []SyncComplete
<1>1. PastInv => SyncComplete
  BY DEF PastInv, Synchronised, SyncOf, Handled, SyncComplete
<1> QED BY <1>1, PastInvariance, PTL

\* What a synchronisation leaves, also one that broke off half-way, is what its
\* device reported, on that device.
THEOREM SyncLeavesOnlyReportedHolds == Spec => []SyncLeavesOnlyReported
<1>1. PastInv => SyncLeavesOnlyReported
  BY DEF PastInv
<1> QED BY <1>1, PastInvariance, PTL
=============================================================================

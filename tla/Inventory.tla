------------------------------ MODULE Inventory ------------------------------
(***************************************************************************)
(* Clients, devices and VDOMs: the requests that change them, each in the  *)
(* database session get_db opens for it, run concurrently against one      *)
(* PostgreSQL database at READ COMMITTED, and the events they publish.     *)
(*                                                                         *)
(* A request performs one operation: it reads and validates, perhaps waits *)
(* for the FortiGate, writes, commits or not, publishes and answers.  Each *)
(* await that other requests can be served in separates two steps.  A row  *)
(* created by request r is named after r, which stands for its fresh uuid. *)
(***************************************************************************)
EXTENDS Integers, FiniteSets

CONSTANTS
  Requests,     \* one operation each
  Ops,          \* the operations they may perform
  Clients0,     \* clients, devices and their root VDOMs at the start
  Devices0,
  ClientNames,  \* values of the unique columns of clients
  Hosts,
  Serials,      \* serial numbers the probe may report ("Unknown" is one)
  Names,        \* VDOM names
  Root,         \* "root"
  HostOf,       \* host of each device of the start
  NameOf,       \* name of each client of the start
  NoClient,     \* NULL client_id
  NoSerial      \* NULL serial_number

Operations == {"create_client", "update_client", "delete_client",
               "create_device", "update_device", "delete_device",
               "create_vdom", "update_vdom", "delete_vdom", "sync_device_vdoms"}

ASSUME InventoryAssumption ==
  /\ Ops \subseteq Operations
  /\ Requests \cap (Clients0 \cup Devices0) = {}
  /\ Root \in Names
  /\ HostOf \in [Devices0 -> Hosts]
  /\ NameOf \in [Clients0 -> ClientNames]
  /\ \A d, e \in Devices0 : HostOf[d] = HostOf[e] => d = e
  /\ \A c, e \in Clients0 : NameOf[c] = NameOf[e] => c = e
  /\ NoClient \notin Clients0 \cup Requests
  /\ NoSerial \notin Serials

ClientIds == Clients0 \cup Requests
DeviceIds == Devices0 \cup Requests
VdomIds == DeviceIds \X Names

ClientRows == [name : ClientNames, active : BOOLEAN]
DeviceRows == [host : Hosts, serial : Serials \cup {NoSerial}]
VdomRows == [device : DeviceIds, name : Names, client : ClientIds \cup {NoClient}, active : BOOLEAN]

VARIABLES
  clients,    \* the committed rows of the three tables, by id
  devices,
  vdoms,
  pc,         \* per request, its next step
  op,         \* per request, the operation with its arguments
  todo,       \* per request, VDOM names still to synchronise
  published,  \* requests whose event is on the bus
  committed,  \* history: requests that committed what they were asked for
  onceActive, \* history: clients that have been active
  deleted     \* history: device and name of the VDOMs deleted so far

tables == <<clients, devices, vdoms>>
history == <<committed, onceActive, deleted>>
vars == <<tables, pc, op, todo, published, history>>

NoOp == [kind |-> "none"]

Init ==
  /\ clients = [c \in Clients0 |-> [name |-> NameOf[c], active |-> TRUE]]
  /\ devices = [d \in Devices0 |-> [host |-> HostOf[d], serial |-> NoSerial]]
  /\ vdoms = [v \in Devices0 \X {Root} |->
                [device |-> v[1], name |-> Root, client |-> NoClient, active |-> TRUE]]
  /\ pc = [r \in Requests |-> "new"]
  /\ op = [r \in Requests |-> NoOp]
  /\ todo = [r \in Requests |-> {}]
  /\ published = {}
  /\ committed = {}
  /\ onceActive = Clients0
  /\ deleted = {}
-----------------------------------------------------------------------------
(* What a SELECT of another session sees, and what makes one wait.         *)

Put(table, id, row) == [i \in DOMAIN table \cup {id} |-> IF i = id THEN row ELSE table[i]]
Remove(table, id) == [i \in DOMAIN table \ {id} |-> table[i]]

NameTaken(n, except) == \E c \in DOMAIN clients \ {except} : clients[c].name = n
HostTaken(h, except) == \E d \in DOMAIN devices \ {except} : devices[d].host = h
SerialTaken(s) == s # NoSerial /\ \E d \in DOMAIN devices : devices[d].serial = s
VdomTaken(d, n) == \E v \in DOMAIN vdoms : vdoms[v].device = d /\ vdoms[v].name = n

ClientActive(c) == c \in DOMAIN clients /\ clients[c].active
Linkable(c) == c = NoClient \/ ClientActive(c)

\* Requests with a flushed, uncommitted write, and the device it is on.
Flushed(kind) == {r \in Requests : pc[r] = "flushed" /\ op[r].kind = kind}
Deleting(d) == \E r \in Flushed("delete_device") : op[r].id = d

\* Mutant of Locked: the session of an answered request is never closed.
LockedForGood(d) ==
  \E r \in Requests :
    pc[r] \in {"flushed", "ok"} /\ op[r].kind \in {"update_device", "delete_device"} /\ op[r].id = d

Locked(d) == Deleting(d) \/ \E r \in Flushed("update_device") : op[r].id = d
Rekeying(d) == \E r \in Flushed("update_device") : op[r].id = d /\ op[r].host # devices[d].host

\* Unique values PostgreSQL cannot yet decide on.
HostHeld(h) ==
  \/ \E d \in DOMAIN devices : Locked(d) /\ devices[d].host = h
  \/ \E r \in Flushed("create_device") \cup Flushed("update_device") : op[r].host = h
SerialHeld(s) ==
  /\ s # NoSerial
  /\ \/ \E d \in DOMAIN devices : Locked(d) /\ devices[d].serial = s
     \/ \E r \in Flushed("create_device") : op[r].serial = s

\* Request r goes on to p; it is over with an error, and what it had not
\* committed is rolled back when get_db closes its session.
GoTo(r, p) == pc' = [pc EXCEPT ![r] = p]
Error(r) == GoTo(r, "error") /\ UNCHANGED <<tables, op, todo, history>>
Start(r, o, p) == GoTo(r, p) /\ op' = [op EXCEPT ![r] = o] /\ UNCHANGED <<tables, todo, history>>

New(r, kind) == pc[r] = "new" /\ kind \in Ops
Ready(r, kind) == pc[r] = "ready" /\ op[r].kind = kind

\* The transaction of request r is committed as a whole.
Done(r, p) == GoTo(r, p) /\ committed' = committed \cup {r}
-----------------------------------------------------------------------------
(* Reading and validating: up to the first write of the operation.         *)

CreateClient(r) ==
  \E n \in ClientNames, a \in BOOLEAN :
    /\ New(r, "create_client")
    /\ IF NameTaken(n, r)
       THEN Error(r)
       ELSE Start(r, [kind |-> "create_client", id |-> r, name |-> n, active |-> a], "ready")
    /\ UNCHANGED published

ClientChanges == {[name |-> n] : n \in ClientNames} \cup {[active |-> a] : a \in BOOLEAN}

\* The ORM object keeps the values it was loaded with.
UpdateClient(r) ==
  \E c \in ClientIds, change \in ClientChanges :
    /\ New(r, "update_client")
    /\ IF \/ c \notin DOMAIN clients
          \/ "name" \in DOMAIN change /\ NameTaken(change.name, c)
       THEN Error(r)
       ELSE Start(r, [kind |-> "update_client", id |-> c, change |-> change,
                      loaded |-> clients[c]], "ready")
    /\ UNCHANGED published

DeleteClient(r) ==
  \E c \in ClientIds :
    /\ New(r, "delete_client")
    /\ IF c \notin DOMAIN clients
       THEN Error(r)
       ELSE Start(r, [kind |-> "delete_client", id |-> c], "ready")
    /\ UNCHANGED published

CreateDevice(r) ==
  \E h \in Hosts, c \in ClientIds \cup {NoClient} :
    /\ New(r, "create_device")
    /\ IF HostTaken(h, r) \/ ~Linkable(c)
       THEN Error(r)
       ELSE Start(r, [kind |-> "create_device", id |-> r, host |-> h, client |-> c,
                      serial |-> NoSerial], "probing")
    /\ UNCHANGED published

\* The probe answers, with a serial number or without, or fails: registration
\* goes on in any case.
Probe(r) ==
  \E s \in Serials \cup {NoSerial} :
    /\ pc[r] = "probing"
    /\ Start(r, [op[r] EXCEPT !.serial = s], "ready")
    /\ UNCHANGED published

\* The host of the device itself stands for a change of other columns only.
UpdateDevice(r) ==
  \E d \in DeviceIds, h \in Hosts :
    /\ New(r, "update_device")
    /\ IF d \notin DOMAIN devices \/ HostTaken(h, d)
       THEN Error(r)
       ELSE Start(r, [kind |-> "update_device", id |-> d, host |-> h], "ready")
    /\ UNCHANGED published

DeleteDevice(r) ==
  \E d \in DeviceIds :
    /\ New(r, "delete_device")
    /\ IF d \notin DOMAIN devices
       THEN Error(r)
       ELSE Start(r, [kind |-> "delete_device", id |-> d], "ready")
    /\ UNCHANGED published

\* The lookup of the device has no consequence: its result is not used.
CreateVdom(r) ==
  \E d \in DeviceIds, n \in Names, c \in ClientIds \cup {NoClient} :
    /\ New(r, "create_vdom")
    /\ IF ~Linkable(c) \/ VdomTaken(d, n)
       THEN Error(r)
       ELSE Start(r, [kind |-> "create_vdom", id |-> <<r, n>>, device |-> d,
                      client |-> c], "ready")
    /\ UNCHANGED published

VdomChanges ==
  {[client |-> c] : c \in ClientIds \cup {NoClient}} \cup {[active |-> a] : a \in BOOLEAN}

\* A client_id of None is taken for an absent one.
Effective(change) ==
  [f \in {g \in DOMAIN change : change[g] # NoClient} |-> change[f]]

\* Mutant of UpdateVdom: the new client is not validated.
UpdateVdomUnchecked(r) ==
  \E v \in VdomIds, asked \in VdomChanges :
    /\ New(r, "update_vdom")
    /\ IF v \notin DOMAIN vdoms
       THEN Error(r)
       ELSE Start(r, [kind |-> "update_vdom", id |-> v, asked |-> asked,
                      change |-> Effective(asked), loaded |-> vdoms[v]], "ready")
    /\ UNCHANGED published

UpdateVdom(r) ==
  \E v \in VdomIds, asked \in VdomChanges :
    LET change == Effective(asked) IN
    /\ New(r, "update_vdom")
    /\ IF \/ v \notin DOMAIN vdoms
          \/ "client" \in DOMAIN change /\ ~ClientActive(change.client)
       THEN Error(r)
       ELSE Start(r, [kind |-> "update_vdom", id |-> v, asked |-> asked,
                      change |-> change, loaded |-> vdoms[v]], "ready")
    /\ UNCHANGED published

DeleteVdom(r) ==
  \E v \in VdomIds :
    /\ New(r, "delete_vdom")
    /\ IF v \notin DOMAIN vdoms
       THEN Error(r)
       ELSE Start(r, [kind |-> "delete_vdom", id |-> v], "ready")
    /\ UNCHANGED published

\* Mutant of SyncDeviceVdoms: the root VDOM is registered before the device is
\* asked, as for a new device.
SyncRootFirst(r) ==
  \E d \in DOMAIN devices :
    /\ New(r, "sync_device_vdoms")
    /\ Start(r, [kind |-> "sync_device_vdoms", device |-> d, found |-> {}, id |-> <<r, Root>>],
             "inserting")
    /\ UNCHANGED published

\* A device that is not there has no connection data to take a host from.
SyncDeviceVdoms(r) ==
  \E d \in DeviceIds :
    /\ New(r, "sync_device_vdoms")
    /\ IF d \notin DOMAIN devices
       THEN Error(r)
       ELSE Start(r, [kind |-> "sync_device_vdoms", device |-> d, found |-> {},
                      id |-> <<r, Root>>], "fetching")
    /\ UNCHANGED published
-----------------------------------------------------------------------------
(* Writing.                                                                *)

InsertClient(r) ==
  /\ Ready(r, "create_client")
  /\ IF NameTaken(op[r].name, r)
     THEN Error(r)
     ELSE /\ clients' = Put(clients, r, [name |-> op[r].name, active |-> op[r].active])
          /\ onceActive' = onceActive \cup (IF op[r].active THEN {r} ELSE {})
          /\ Done(r, "committed")
          /\ UNCHANGED <<devices, vdoms, op, todo, deleted>>
  /\ UNCHANGED published

\* UPDATE sets the columns whose value differs from the one loaded.
Dirty(o) == {f \in DOMAIN o.change : o.change[f] # o.loaded[f]}

\* Mutant of Written: the whole row is written, as it was loaded and changed.
WrittenWhole(row, o) ==
  [f \in DOMAIN row |-> IF f \in DOMAIN o.change THEN o.change[f] ELSE o.loaded[f]]

Written(row, o) == [f \in DOMAIN row |-> IF f \in Dirty(o) THEN o.change[f] ELSE row[f]]

\* A row deleted meanwhile is an error if there is something to set.
SaveClient(r) ==
  LET o == op[r] IN
  /\ Ready(r, "update_client")
  /\ IF \/ o.id \notin DOMAIN clients /\ Dirty(o) # {}
        \/ "name" \in Dirty(o) /\ NameTaken(o.change.name, o.id)
     THEN Error(r)
     ELSE /\ clients' = [c \in DOMAIN clients |->
                           IF c = o.id THEN Written(clients[c], o) ELSE clients[c]]
          /\ onceActive' = onceActive \cup {c \in DOMAIN clients : clients'[c].active}
          /\ Done(r, "committed")
          /\ UNCHANGED <<devices, vdoms, op, todo, deleted>>
  /\ UNCHANGED published

\* Mutant of EraseClient: the foreign key of device_vdoms does not restrict.
EraseClientAnyway(r) ==
  /\ Ready(r, "delete_client")
  /\ clients' = Remove(clients, op[r].id)
  /\ Done(r, "refreshed")
  /\ UNCHANGED <<devices, vdoms, op, todo, published, onceActive, deleted>>

\* Deleting a row twice only warns.  VDOMs of the client forbid it; one whose
\* device is being deleted makes it wait.
EraseClient(r) ==
  LET linked == {v \in DOMAIN vdoms : vdoms[v].client = op[r].id} IN
  /\ Ready(r, "delete_client")
  /\ \A v \in linked : ~Deleting(vdoms[v].device)
  /\ IF linked # {}
     THEN Error(r)
     ELSE /\ clients' = Remove(clients, op[r].id)
          /\ Done(r, "refreshed")
          /\ UNCHANGED <<devices, vdoms, op, todo, onceActive, deleted>>
  /\ UNCHANGED published

\* Mutant of FlushNewDevice: repo.create commits, as its siblings do.
CommitNewDevice(r) ==
  /\ Ready(r, "create_device")
  /\ ~HostHeld(op[r].host) /\ ~SerialHeld(op[r].serial)
  /\ IF HostTaken(op[r].host, r) \/ SerialTaken(op[r].serial)
     THEN Error(r)
     ELSE /\ devices' = Put(devices, r, [host |-> op[r].host, serial |-> op[r].serial])
          /\ GoTo(r, "flushed")
          /\ UNCHANGED <<clients, vdoms, op, todo, history>>
  /\ UNCHANGED published

\* INSERT of the device, without commit.
FlushNewDevice(r) ==
  /\ Ready(r, "create_device")
  /\ ~HostHeld(op[r].host) /\ ~SerialHeld(op[r].serial)
  /\ IF HostTaken(op[r].host, r) \/ SerialTaken(op[r].serial)
     THEN Error(r)
     ELSE GoTo(r, "flushed") /\ UNCHANGED <<tables, op, todo, history>>
  /\ UNCHANGED published

\* Mutant of VdomRow: the two references are swapped.
VdomRowSwapped(d, n, c) == [device |-> c, name |-> n, client |-> d, active |-> TRUE]

\* is_active and is_root are data of the request; is_active is sent TRUE here.
VdomRow(d, n, c) == [device |-> d, name |-> n, client |-> c, active |-> TRUE]

\* ensure_root_vdom: its commit is the one of the device too.
EnsureRootVdom(r) ==
  LET o == op[r] IN
  /\ r \in Flushed("create_device")
  /\ IF o.client \notin DOMAIN clients \cup {NoClient}
     THEN Error(r)
     ELSE /\ devices' = Put(devices, r, [host |-> o.host, serial |-> o.serial])
          /\ vdoms' = Put(vdoms, <<r, Root>>, VdomRow(r, Root, o.client))
          /\ Done(r, "committed")
          /\ UNCHANGED <<clients, op, todo, onceActive, deleted>>
  /\ UNCHANGED published

FlushDevice(r) ==
  /\ Ready(r, "update_device")
  /\ ~Locked(op[r].id) /\ ~HostHeld(op[r].host)
  /\ IF HostTaken(op[r].host, op[r].id)
     THEN Error(r)
     ELSE GoTo(r, "flushed") /\ UNCHANGED <<tables, op, todo, history>>
  /\ UNCHANGED published

\* DELETE of the device and, by cascade, of its VDOMs, without commit.
FlushDeviceDeletion(r) ==
  /\ Ready(r, "delete_device")
  /\ ~Locked(op[r].id)
  /\ GoTo(r, "flushed")
  /\ UNCHANGED <<tables, op, todo, published, history>>

\* INSERT and commit of one VDOM on device d: foreign keys and uniqueness.
\* The row of a device whose key is being changed cannot be referenced yet.
InsertVdom(r, d, c, next) ==
  LET n == op[r].id[2] IN
  /\ ~Deleting(d) /\ ~Rekeying(d)
  /\ IF ~(d \in DOMAIN devices /\ c \in DOMAIN clients \cup {NoClient}) \/ VdomTaken(d, n)
     THEN Error(r)
     ELSE /\ vdoms' = Put(vdoms, op[r].id, VdomRow(d, n, c))
          /\ GoTo(r, next)
          /\ committed' = IF next = "committed" THEN committed \cup {r} ELSE committed
          /\ UNCHANGED <<clients, devices, op, todo, onceActive, deleted>>
  /\ UNCHANGED published

InsertNewVdom(r) == Ready(r, "create_vdom") /\ InsertVdom(r, op[r].device, op[r].client, "committed")

SaveVdom(r) ==
  LET o == op[r] IN
  /\ Ready(r, "update_vdom")
  /\ Dirty(o) # {} => ~Deleting(o.loaded.device)
  /\ IF \/ o.id \notin DOMAIN vdoms /\ Dirty(o) # {}
        \/ "client" \in Dirty(o) /\ o.change.client \notin DOMAIN clients
     THEN Error(r)
     ELSE /\ vdoms' = [v \in DOMAIN vdoms |->
                         IF v = o.id THEN Written(vdoms[v], o) ELSE vdoms[v]]
          /\ Done(r, "committed")
          /\ UNCHANGED <<clients, devices, op, todo, onceActive, deleted>>
  /\ UNCHANGED published

EraseVdom(r) ==
  LET v == op[r].id IN
  /\ Ready(r, "delete_vdom")
  /\ v \in DOMAIN vdoms => ~Deleting(vdoms[v].device)
  /\ vdoms' = Remove(vdoms, v)
  /\ deleted' = deleted \cup {<<vdoms[w].device, vdoms[w].name>> : w \in DOMAIN vdoms \cap {v}}
  /\ Done(r, "refreshed")
  /\ UNCHANGED <<clients, devices, op, todo, published, onceActive>>
-----------------------------------------------------------------------------
(* Synchronisation with the device, one VDOM after the other.              *)

FetchVdoms(r) ==
  \E found \in SUBSET Names :
    /\ pc[r] = "fetching"
    /\ op' = [op EXCEPT ![r].found = found]
    /\ todo' = [todo EXCEPT ![r] = found]
    /\ GoTo(r, "syncing")
    /\ UNCHANGED <<tables, published, history>>

\* Mutant of SyncLookup: a name registered on any device counts as existing.
SyncLookupByName(r) ==
  \E n \in todo[r] :
    /\ pc[r] = "syncing"
    /\ IF \E v \in DOMAIN vdoms : vdoms[v].name = n
       THEN todo' = [todo EXCEPT ![r] = @ \ {n}] /\ UNCHANGED <<pc, op>>
       ELSE GoTo(r, "inserting") /\ op' = [op EXCEPT ![r].id = <<r, n>>] /\ UNCHANGED todo
    /\ UNCHANGED <<tables, published, history>>

SyncLookup(r) ==
  \E n \in todo[r] :
    /\ pc[r] = "syncing"
    /\ IF VdomTaken(op[r].device, n)
       THEN todo' = [todo EXCEPT ![r] = @ \ {n}] /\ UNCHANGED <<pc, op>>
       ELSE GoTo(r, "inserting") /\ op' = [op EXCEPT ![r].id = <<r, n>>] /\ UNCHANGED todo
    /\ UNCHANGED <<tables, published, history>>

SyncInsert(r) == pc[r] = "inserting" /\ InsertVdom(r, op[r].device, NoClient, "reloading")

\* The refresh after each insert: the row may be gone already.
SyncReload(r) ==
  /\ pc[r] = "reloading"
  /\ IF op[r].id \in DOMAIN vdoms
     THEN /\ GoTo(r, "syncing")
          /\ todo' = [todo EXCEPT ![r] = @ \ {op[r].id[2]}]
          /\ UNCHANGED <<tables, op, history>>
     ELSE Error(r)
  /\ UNCHANGED published

SyncDone(r) ==
  /\ pc[r] = "syncing" /\ todo[r] = {}
  /\ Done(r, "refreshed")
  /\ UNCHANGED <<tables, op, todo, published, onceActive, deleted>>
-----------------------------------------------------------------------------
(* After the commit.                                                       *)

\* session.refresh: an error if the row was deleted since the commit.
Refresh(r) ==
  LET o == op[r]
      there == CASE o.kind \in {"create_client", "update_client"} -> o.id \in DOMAIN clients
                 [] o.kind = "create_device" -> <<r, Root>> \in DOMAIN vdoms
                 [] o.kind \in {"create_vdom", "update_vdom"} -> o.id \in DOMAIN vdoms IN
  /\ pc[r] = "committed"
  /\ IF there
     THEN GoTo(r, "refreshed") /\ UNCHANGED <<tables, op, todo, history>>
     ELSE Error(r)
  /\ UNCHANGED published

\* Update and deletion of a device publish without ever committing.
Announcing(r) ==
  pc[r] = "refreshed" \/ r \in Flushed("update_device") \cup Flushed("delete_device")

\* Mutant of Publish: the event is sent before the write.
PublishEarly(r) ==
  /\ pc[r] \in {"ready", "refreshed", "flushed"}
  /\ published' = published \cup {r}
  /\ pc' = IF Announcing(r) THEN [pc EXCEPT ![r] = "ok"] ELSE pc
  /\ UNCHANGED <<tables, op, todo, history>>

Publish(r) ==
  /\ Announcing(r)
  /\ published' = published \cup {r}
  /\ GoTo(r, "ok")
  /\ UNCHANGED <<tables, op, todo, history>>

\* Redis is down: an error answer, except that sync_device_vdoms ignores it.
PublishFault(r) ==
  /\ Announcing(r)
  /\ GoTo(r, IF op[r].kind = "sync_device_vdoms" THEN "ok" ELSE "error")
  /\ UNCHANGED <<tables, op, todo, published, history>>

\* The process dies, the connection to PostgreSQL breaks or the FortiGate
\* does not answer the synchronisation: rollback.
Abort(r) ==
  /\ pc[r] \notin {"new", "ok", "error"}
  /\ Error(r)
  /\ UNCHANGED published
-----------------------------------------------------------------------------
Arrival(r) ==
  \/ CreateClient(r) \/ UpdateClient(r) \/ DeleteClient(r)
  \/ CreateDevice(r) \/ UpdateDevice(r) \/ DeleteDevice(r)
  \/ CreateVdom(r) \/ UpdateVdom(r) \/ DeleteVdom(r) \/ SyncDeviceVdoms(r)

Service(r) ==
  \/ InsertClient(r) \/ SaveClient(r) \/ EraseClient(r)
  \/ Probe(r) \/ FlushNewDevice(r) \/ EnsureRootVdom(r)
  \/ FlushDevice(r) \/ FlushDeviceDeletion(r)
  \/ InsertNewVdom(r) \/ SaveVdom(r) \/ EraseVdom(r)
  \/ FetchVdoms(r) \/ SyncLookup(r) \/ SyncInsert(r) \/ SyncReload(r) \/ SyncDone(r)
  \/ Refresh(r) \/ Publish(r)

Next == \E r \in Requests : Arrival(r) \/ Service(r) \/ PublishFault(r) \/ Abort(r)

Spec == Init /\ [][Next]_vars

\* The event loop serves every request whose awaited answer has arrived.
FairSpec == Spec /\ \A r \in Requests : WF_vars(Service(r) \/ PublishFault(r))
-----------------------------------------------------------------------------
(* What the inventory guarantees.                                          *)

OpRecords ==
  {NoOp}
  \cup [kind : {"create_client"}, id : Requests, name : ClientNames, active : BOOLEAN]
  \cup [kind : {"update_client"}, id : ClientIds, change : ClientChanges, loaded : ClientRows]
  \cup [kind : {"delete_client"}, id : ClientIds]
  \cup [kind : {"create_device"}, id : Requests, host : Hosts,
        client : ClientIds \cup {NoClient}, serial : Serials \cup {NoSerial}]
  \cup [kind : {"update_device"}, id : DeviceIds, host : Hosts]
  \cup [kind : {"delete_device"}, id : DeviceIds]
  \cup [kind : {"create_vdom"}, id : VdomIds, device : DeviceIds, client : ClientIds \cup {NoClient}]
  \cup [kind : {"update_vdom"}, id : VdomIds, asked : VdomChanges,
        change : {Effective(c) : c \in VdomChanges}, loaded : VdomRows]
  \cup [kind : {"delete_vdom"}, id : VdomIds]
  \cup [kind : {"sync_device_vdoms"}, device : DeviceIds, found : SUBSET Names, id : VdomIds]

Steps == {"new", "probing", "ready", "flushed", "fetching", "syncing", "inserting", "reloading",
          "committed", "refreshed", "ok", "error"}

\* The tables hold rows of their types under ids of their kind, and a request
\* carries the arguments of its operation.
TypeOK ==
  /\ clients \in UNION {[S -> ClientRows] : S \in SUBSET ClientIds}
  /\ devices \in UNION {[S -> DeviceRows] : S \in SUBSET DeviceIds}
  /\ DOMAIN vdoms \subseteq VdomIds /\ \A v \in DOMAIN vdoms : vdoms[v] \in VdomRows
  /\ pc \in [Requests -> Steps]
  /\ op \in [Requests -> OpRecords]
  /\ todo \in [Requests -> SUBSET Names]
  /\ published \in SUBSET Requests
  /\ committed \in SUBSET Requests
  /\ onceActive \in SUBSET ClientIds
  /\ deleted \in SUBSET (DeviceIds \X Names)

\* The keys of the schema hold in every committed state, whatever checks of
\* the services raced: no VDOM without its device or with a client that is
\* gone, no two rows with the same unique columns.
Consistent ==
  /\ \A v \in DOMAIN vdoms :
       vdoms[v].device \in DOMAIN devices /\ vdoms[v].client \in DOMAIN clients \cup {NoClient}
  /\ \A v, w \in DOMAIN vdoms :
       vdoms[v].device = vdoms[w].device /\ vdoms[v].name = vdoms[w].name => v = w
  /\ \A d, e \in DOMAIN devices :
       \/ devices[d].host = devices[e].host
       \/ devices[d].serial = devices[e].serial /\ devices[d].serial # NoSerial
       => d = e
  /\ \A c, e \in DOMAIN clients : clients[c].name = clients[e].name => c = e

\* "Todo dispositivo nace con su VDOM root" (devices/service.py:134): no other
\* session ever sees a device whose root VDOM was not committed with it, also
\* when its client is deleted while the device is being probed.
BornWithRoot ==
  [][\A d \in DOMAIN devices' \ DOMAIN devices :
       \E v \in DOMAIN vdoms' : vdoms'[v].device = d /\ vdoms'[v].name = Root]_vars

\* A request commits exactly what it was asked for or nothing: rows created
\* by a request that failed before its commit are never there; only a
\* synchronisation keeps the VDOMs registered before its failure.
AllOrNothing ==
  \A r \in Requests \ committed :
    /\ r \notin DOMAIN clients \cup DOMAIN devices
    /\ op[r].kind # "sync_device_vdoms" => \A n \in Names : <<r, n>> \notin DOMAIN vdoms

\* An event on the bus tells of a committed change, a deletion of a row that
\* is gone for good (devices apart, whose changes are never committed).
EventsTellTheTruth ==
  \A r \in published :
    LET o == op[r] IN
    /\ o.kind \notin {"update_device", "delete_device"} => r \in committed
    /\ o.kind = "delete_client" => o.id \notin DOMAIN clients
    /\ o.kind = "delete_vdom" => o.id \notin DOMAIN vdoms

\* A VDOM is only ever linked to a client that has been active, although the
\* client may be deactivated between its validation and the commit.
LinkedOnlyOnceActive ==
  \A v \in DOMAIN vdoms : vdoms[v].client \in onceActive \cup {NoClient}

\* A committed value changes only to what some request was asked to set:
\* concurrent updates of different columns of a row never undo one another.
Asked(kind, id, f, value) ==
  \E r \in committed' \ committed :
    /\ op[r].kind = kind /\ op[r].id = id
    /\ f \in DOMAIN op[r].change /\ op[r].change[f] = value

OnlyAskedChanges ==
  [][/\ \A c \in DOMAIN clients \cap DOMAIN clients' : \A f \in {"name", "active"} :
          clients'[c][f] # clients[c][f] => Asked("update_client", c, f, clients'[c][f])
     /\ \A v \in DOMAIN vdoms \cap DOMAIN vdoms' : \A f \in {"device", "name", "client", "active"} :
          vdoms'[v][f] # vdoms[v][f] => Asked("update_vdom", v, f, vdoms'[v][f])]_vars

\* A synchronisation that answers without error has registered every VDOM the
\* device reported, unless somebody deleted it meanwhile.
SyncComplete ==
  \A r \in Requests :
    op[r].kind = "sync_device_vdoms" /\ pc[r] \in {"refreshed", "ok"} =>
      \A n \in op[r].found : VdomTaken(op[r].device, n) \/ <<op[r].device, n>> \in deleted

\* What a synchronisation leaves in the table, also one that broke off between
\* two VDOMs and was not rolled back, is what its device reported, registered
\* on that device: repeating it completes it.
SyncLeavesOnlyReported ==
  \A v \in DOMAIN vdoms :
    v[1] \in Requests /\ op[v[1]].kind = "sync_device_vdoms" =>
      vdoms[v].name \in op[v[1]].found /\ vdoms[v].device = op[v[1]].device

\* No request waits for ever, whatever locks the uncommitted writes hold.
RequestsAnswered == \A r \in Requests : pc[r] # "new" ~> pc[r] \in {"ok", "error"}

\* devices/repository.py:77, delete: "Elimina un dispositivo de la base de
\* datos".  A device whose deletion was announced is no longer in the table.
DeletedDevicesAreGone ==
  \A r \in published : op[r].kind = "delete_device" => op[r].id \notin DOMAIN devices
=============================================================================

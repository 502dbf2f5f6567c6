------------------------------ MODULE CDBStore ------------------------------
(***************************************************************************)
(* How the node table reaches persistent storage (settings.c of the mesh   *)
(* stack).  A change of a node leaves an update in cdb_node_updates and     *)
(* submits the work item pending_store; the system work queue then writes   *)
(* one settings item per update.  A restart rebuilds the table from the    *)
(* items.                                                                  *)
(*                                                                         *)
(* The main thread is preempted by the work queue and by the receive       *)
(* thread.  Those two are cooperative, and the work queue gives way only   *)
(* inside the flash driver, when FLASH_BLOCKS says that a write sleeps.    *)
(***************************************************************************)
EXTENDS CDBNodes, FiniteSets

\* What may happen around the store.  "calm": flash writes keep the processor.
\* "rough": they sleep, and main deletes nodes, which mesh.c never does.  "early":
\* they sleep, and main configures a node that is still being provisioned.
CONSTANT ENVS

ASSUME StoreAssumption == ENVS \subseteq {"calm", "rough", "early"}

VARIABLES
    nodes,     \* bt_mesh_cdb.nodes
    prov_node, \* prov_device.node, the node being provisioned, or NULL
    updates,   \* cdb_node_updates, one per slot of the table
    pending,   \* BT_MESH_CDB_NODES_PENDING
    queued,    \* pending_store is on the work queue
    worker,    \* the work queue inside store_pending_cdb_nodes
    caller,    \* the main thread inside a store or clear of a node
    flash,     \* the items bt/mesh/cdb/Node/<addr>
    load,      \* items that settings_load has still to read
    env        \* the environment of this behaviour

ram == <<nodes, prov_node, updates, pending, queued, worker, caller>>
vars == <<ram, flash, load, env>>

FLASH_BLOCKS == env \in {"rough", "early"}
DELETES == env = "rough"
EARLY == env = "early"

Addresses == 0 .. UNICAST_MAX
\* No item, as a value that no node has.
NoItem == [num_elem |-> 0, uuid |-> NoUuid, configured |-> FALSE]
Item == [num_elem : 1 .. ELEM_MAX, uuid : Uuids, configured : BOOLEAN]

NoUpdate == [addr |-> UNASSIGNED, clear |-> FALSE]
IdleWorker == [phase |-> "idle", i |-> 0, addr |-> UNASSIGNED, item |-> NoItem]
IdleCaller == [step |-> "idle", slot |-> 0, clear |-> FALSE, at |-> 0]

TypeOK ==
    /\ nodes \in [Slots -> Node]
    /\ prov_node \in Slots \cup {NULL}
    /\ updates \in [Slots -> [addr : 0 .. UNICAST_MAX, clear : BOOLEAN]]
    /\ pending \in BOOLEAN
    /\ queued \in BOOLEAN
    /\ worker \in [phase : {"idle", "scan", "write"}, i : 0 .. NODE_COUNT,
                   addr : 0 .. UNICAST_MAX, item : Item \cup {NoItem}]
    /\ caller \in [step : {"idle", "find", "addr", "mark", "end"}, slot : Slots,
                   clear : BOOLEAN, at : Slots]
    /\ flash \in [Addresses -> Item \cup {NoItem}]
    /\ load \subseteq Addresses
    /\ env \in ENVS

Init ==
    /\ nodes = InitNodes
    /\ prov_node = NULL
    /\ updates = [i \in Slots |-> NoUpdate]
    /\ pending = FALSE
    /\ queued = FALSE
    /\ worker = IdleWorker
    /\ caller = IdleCaller
    /\ flash = [a \in Addresses |-> NoItem]
    /\ load = {}
    /\ env \in ENVS

Items == {a \in Addresses : flash[a] # NoItem}

Running == load = {}
RxMay ==
    /\ Running
    /\ worker.phase = "idle" \/ (worker.phase = "write" /\ FLASH_BLOCKS)
MainMay ==
    /\ Running
    /\ \/ worker.phase = "idle" /\ ~queued
       \/ worker.phase = "write" /\ FLASH_BLOCKS

LastOf(S) == CHOOSE i \in S : \A j \in S : j <= i

\* Mutant: the CONFIGURED flag is not saved.
node_val_NoFlags(n) ==
    [num_elem |-> n.num_elem, uuid |-> n.uuid, configured |-> FALSE]

\* The value store_cdb_node writes.
node_val(n) ==
    [num_elem |-> n.num_elem, uuid |-> n.uuid, configured |-> n.configured]

\* cdb_node_update_find: the last update for the address, else the last free
\* one, else NULL.
UpdatesFor(us, a) == {i \in Slots : us[i].addr = a}
cdb_node_update_find(us, a) ==
    IF UpdatesFor(us, a) # {} THEN LastOf(UpdatesFor(us, a))
    ELSE IF UpdatesFor(us, UNASSIGNED) # {} THEN LastOf(UpdatesFor(us, UNASSIGNED))
    ELSE NULL

\* Mutant: the work item is not submitted.
schedule_cdb_store_NoSubmit == pending' = TRUE /\ UNCHANGED queued

schedule_cdb_store == pending' = TRUE /\ queued' = TRUE

-----------------------------------------------------------------------------
(* The receive thread.                                                     *)

\* bt_mesh_store_cdb_node, run to its end: the update is left for the work
\* queue, or without one to use the item is written on the spot.
bt_mesh_store_cdb_node(n) ==
    LET j == cdb_node_update_find(updates, n.addr)
    IN  IF j = NULL
        THEN /\ flash' = [flash EXCEPT ![n.addr] = node_val(n)]
             /\ UNCHANGED <<updates, pending, queued>>
        ELSE /\ updates' = [updates EXCEPT ![j] = [addr |-> n.addr, clear |-> FALSE]]
             /\ schedule_cdb_store
             /\ UNCHANGED flash

\* prov_capabilities allocates the node of a board ...
AllocNode(uuid, a, n) ==
    /\ RxMay
    /\ prov_node = NULL
    /\ alloc_slot(nodes, a, n) # NULL
    /\ nodes' = node_alloc(nodes, uuid, a, n)
    /\ prov_node' = alloc_slot(nodes, a, n)
    /\ UNCHANGED <<updates, pending, queued, worker, caller, flash, load>>

\* ... and prov_complete stores it.
prov_complete ==
    /\ RxMay
    /\ prov_node # NULL
    /\ bt_mesh_store_cdb_node(nodes[prov_node])
    /\ prov_node' = NULL
    /\ UNCHANGED <<nodes, worker, caller, load>>

\* The link is lost: reset_state takes the node out of the table only.
reset_state ==
    /\ RxMay
    /\ prov_node # NULL
    /\ nodes' = node_del(nodes, prov_node)
    /\ prov_node' = NULL
    /\ UNCHANGED <<updates, pending, queued, worker, caller, flash, load>>

-----------------------------------------------------------------------------
(* The main thread: a change of a node, then bt_mesh_store_cdb_node or      *)
(* bt_mesh_clear_cdb_node step by step.                                    *)

\* configure_node sets the CONFIGURED flag and stores the node.
BeginConfigure(i) ==
    /\ MainMay
    /\ caller.step = "idle"
    /\ i \in Live(nodes)
    /\ i # prov_node \/ EARLY
    /\ ~nodes[i].configured
    /\ nodes' = [nodes EXCEPT ![i].configured = TRUE]
    /\ caller' = [step |-> "find", slot |-> i, clear |-> FALSE, at |-> 0]
    /\ UNCHANGED <<prov_node, updates, pending, queued, worker, flash, load>>

\* bt_mesh_cdb_node_del clears the stored node first.
BeginDelete(i) ==
    /\ DELETES
    /\ MainMay
    /\ caller.step = "idle"
    /\ i \in Live(nodes) \ {prov_node}
    /\ caller' = [step |-> "find", slot |-> i, clear |-> TRUE, at |-> 0]
    /\ UNCHANGED <<nodes, prov_node, updates, pending, queued, worker, flash, load>>

Target == nodes[caller.slot]

\* With no update to use, the item is written or deleted on the spot.
CallerFinds ==
    LET j == cdb_node_update_find(updates, Target.addr)
    IN  /\ MainMay
        /\ caller.step = "find"
        /\ IF j = NULL
           THEN /\ caller' = [caller EXCEPT !.step = "end"]
                /\ flash' = [flash EXCEPT ![Target.addr] =
                               IF caller.clear THEN NoItem ELSE node_val(Target)]
           ELSE /\ caller' = [caller EXCEPT !.at = j, !.step =
                    IF updates[j].addr = Target.addr THEN "mark" ELSE "addr"]
                /\ UNCHANGED flash
        /\ UNCHANGED <<nodes, prov_node, updates, pending, queued, worker, load>>

CallerSetsAddr ==
    /\ MainMay
    /\ caller.step = "addr"
    /\ updates' = [updates EXCEPT ![caller.at].addr = Target.addr]
    /\ caller' = [caller EXCEPT !.step = "mark"]
    /\ UNCHANGED <<nodes, prov_node, pending, queued, worker, flash, load>>

CallerMarks ==
    /\ MainMay
    /\ caller.step = "mark"
    /\ updates' = [updates EXCEPT ![caller.at].clear = caller.clear]
    /\ schedule_cdb_store
    /\ caller' = [caller EXCEPT !.step = "end"]
    /\ UNCHANGED <<nodes, prov_node, worker, flash, load>>

CallerEnds ==
    /\ MainMay
    /\ caller.step = "end"
    /\ nodes' = IF caller.clear THEN node_del(nodes, caller.slot) ELSE nodes
    /\ caller' = IdleCaller
    /\ UNCHANGED <<prov_node, updates, pending, queued, worker, flash, load>>

-----------------------------------------------------------------------------
(* The work queue.                                                         *)

\* store_pending.
WorkerStart ==
    /\ Running
    /\ worker.phase = "idle"
    /\ queued
    /\ queued' = FALSE
    /\ pending' = FALSE
    /\ worker' = IF pending THEN [IdleWorker EXCEPT !.phase = "scan"] ELSE worker
    /\ UNCHANGED <<nodes, prov_node, updates, caller, flash, load>>

NextUpdate == [IdleWorker EXCEPT !.phase = "scan", !.i = worker.i + 1]

\* One turn of the loop of store_pending_cdb_nodes up to the write.
WorkerScan ==
    /\ worker.phase = "scan"
    /\ IF worker.i = NODE_COUNT THEN worker' = IdleWorker /\ UNCHANGED updates
       ELSE LET u == updates[worker.i]
                node == node_get(nodes, u.addr)
            IN  CASE u.addr = UNASSIGNED ->
                       worker' = NextUpdate /\ UNCHANGED updates
                  [] u.addr # UNASSIGNED /\ u.clear ->
                       /\ worker' = [worker EXCEPT !.phase = "write", !.addr = u.addr]
                       /\ UNCHANGED updates
                  [] u.addr # UNASSIGNED /\ ~u.clear /\ node # NULL ->
                       /\ worker' = [worker EXCEPT !.phase = "write",
                            !.addr = nodes[node].addr, !.item = node_val(nodes[node])]
                       /\ UNCHANGED updates
                  [] OTHER ->
                       /\ worker' = NextUpdate
                       /\ updates' = [updates EXCEPT ![worker.i].addr = UNASSIGNED]
    /\ UNCHANGED <<nodes, prov_node, pending, queued, caller, flash, load>>

\* settings_save_one or settings_delete returns, and the update is dropped.
WorkerWrites ==
    /\ worker.phase = "write"
    /\ flash' = [flash EXCEPT ![worker.addr] = worker.item]
    /\ updates' = [updates EXCEPT ![worker.i].addr = UNASSIGNED]
    /\ worker' = NextUpdate
    /\ UNCHANGED <<nodes, prov_node, pending, queued, caller, load>>

-----------------------------------------------------------------------------
(* A restart.                                                              *)

Restart ==
    /\ Running
    /\ nodes' = InitNodes
    /\ prov_node' = NULL
    /\ updates' = [i \in Slots |-> NoUpdate]
    /\ pending' = FALSE
    /\ queued' = FALSE
    /\ worker' = IdleWorker
    /\ caller' = IdleCaller
    /\ load' = Items
    /\ UNCHANGED flash

\* Mutant: the CONFIGURED flag is not restored.
Restored_NoFlags(n, item) == [n EXCEPT !.uuid = item.uuid]

\* The node that cdb_node_set leaves: an existing one keeps its elements.
Restored(n, item) ==
    [n EXCEPT !.uuid = item.uuid, !.configured = @ \/ item.configured]

\* bt_mesh_cdb_node_alloc looks for the lowest free address when it gets none.
AddrFor(ns, a, n) ==
    LET free == {b \in Addresses : addr_is_free(ns, b, n) = "OK"}
    IN  IF a = UNASSIGNED /\ free # {} THEN FirstOf(free) ELSE a

\* cdb_node_set, for the items in any order.
cdb_node_set(a) ==
    LET item == flash[a]
        b == AddrFor(nodes, a, item.num_elem)
        old == node_get(nodes, a)
        ns == IF old # NULL THEN nodes ELSE node_alloc(nodes, item.uuid, b, item.num_elem)
        i == IF old # NULL THEN old ELSE alloc_slot(nodes, b, item.num_elem)
    IN  /\ load' = load \ {a}
        /\ nodes' = IF i = NULL THEN nodes
                    ELSE [ns EXCEPT ![i] = Restored(ns[i], item)]
        /\ UNCHANGED <<prov_node, updates, pending, queued, worker, caller, flash>>

-----------------------------------------------------------------------------
Worker == WorkerStart \/ WorkerScan \/ WorkerWrites
Load == \E a \in load : cdb_node_set(a)

Next ==
    /\ \/ \E uuid \in Uuids, a \in Addresses, n \in 1 .. ELEM_MAX :
            AllocNode(uuid, a, n)
       \/ prov_complete \/ reset_state
       \/ \E i \in Slots : BeginConfigure(i) \/ BeginDelete(i)
       \/ CallerFinds \/ CallerSetsAddr \/ CallerMarks \/ CallerEnds
       \/ Worker
       \/ Restart \/ Load
    /\ UNCHANGED env

\* The work queue runs its items, and settings_load reads every item.
Spec == Init /\ [][Next]_vars /\ WF_vars(Worker /\ UNCHANGED env) /\ WF_vars(Load /\ UNCHANGED env)

-----------------------------------------------------------------------------
(* Properties.                                                             *)

Quiescent == Running /\ worker.phase = "idle" /\ ~queued /\ caller.step = "idle"

\* A stored node is in persistent storage once no store is under way: with the
\* work queue idle the items are exactly the nodes of the table, with their
\* flags.  Every update that bt_mesh_store_cdb_node or bt_mesh_clear_cdb_node
\* leaves is then carried out, none is dropped or written with an old value.  It
\* is so only while flash writes keep the processor: store_pending_cdb_nodes drops
\* the update after the write, also one that main has left again meanwhile.
FlashMatchesTable ==
    env = "calm" /\ Quiescent =>
      \A a \in Addresses \ {UNASSIGNED} :
        LET owner == {i \in Slots \ {prov_node} : nodes[i].addr = a}
        IN  IF owner = {} THEN flash[a] = NoItem
            ELSE \A i \in owner :
                   /\ flash[a].num_elem = nodes[i].num_elem
                   /\ flash[a].uuid = nodes[i].uuid
                   /\ flash[a].configured = nodes[i].configured

\* A restart at any moment, also between the write of one update and of the
\* next, restores every node that has an item, whatever the order settings_load
\* reads them in, and nothing else (cdb_node_set).  Two cases are left out: more
\* items than slots, and an item under address 0, which is written when a node
\* that is being configured is dropped while all updates are in use; from it
\* bt_mesh_cdb_node_alloc makes a node at the lowest free address.
RestartRestoresItems ==
    [][/\ load # {} /\ load' = {}
       /\ Cardinality(Items) <= NODE_COUNT
       /\ UNASSIGNED \notin Items
       => /\ \A a \in Items : \E i \in Slots :
               nodes'[i] = [addr |-> a, num_elem |-> flash[a].num_elem,
                            uuid |-> flash[a].uuid,
                            configured |-> flash[a].configured]
          /\ {nodes'[i].addr : i \in Live(nodes')} \subseteq Items]_vars

\* No update waits forever: one that a completed store or clear has left is
\* carried out and freed by a pass of the work queue, also when it was left in
\* the middle of an earlier pass, behind its index and after its pending flag was
\* cleared, or a restart drops it (schedule_cdb_store, store_pending).
UpdatesAreCarriedOut ==
    \A i \in Slots : updates[i].addr # UNASSIGNED /\ caller.step = "idle"
                       ~> updates[i].addr = UNASSIGNED

=============================================================================

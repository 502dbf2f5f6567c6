-------------------------------- MODULE CDB --------------------------------
(***************************************************************************)
(* The Mesh Configuration Database in RAM (subsys/bluetooth/mesh/cdb.c):   *)
(* one action per function of include/bluetooth/mesh/cdb.h that changes    *)
(* it, called in any order.  A call that fails and changes nothing is a    *)
(* stuttering step.  Key bytes and the IV index are left out.              *)
(***************************************************************************)
EXTENDS CDBNodes

CONSTANTS
    SUBNET_COUNT,    \* CONFIG_BT_MESH_CDB_SUBNET_COUNT
    APP_KEY_COUNT,   \* CONFIG_BT_MESH_CDB_APP_KEY_COUNT
    NetIdxs,         \* NetKey indexes, with 0 = BT_MESH_KEY_PRIMARY
    AppIdxs          \* AppKey indexes

VARIABLES
    valid,       \* BT_MESH_CDB_VALID of bt_mesh_cdb.flags
    nodes,       \* bt_mesh_cdb.nodes
    subnets,     \* bt_mesh_cdb.subnets[i].net_idx
    app_keys,    \* net_idx and app_idx of bt_mesh_cdb.app_keys[i]
    search       \* the locals of find_lowest_free_addr while it runs

vars == <<valid, nodes, subnets, app_keys, search>>

KEY_PRIMARY == 0
KEY_UNUSED == -1                      \* 0xFFFF, never a NetIdx
SubnetSlots == 0 .. SUBNET_COUNT - 1
AppKeySlots == 0 .. APP_KEY_COUNT - 1

ASSUME KeysAssumption ==
    /\ SUBNET_COUNT \in Nat \ {0} /\ APP_KEY_COUNT \in Nat \ {0}
    /\ NetIdxs \subseteq Nat /\ KEY_PRIMARY \in NetIdxs
    /\ AppIdxs \subseteq Nat /\ 0 \in AppIdxs

TypeOK ==
    /\ valid \in BOOLEAN
    /\ nodes \in [Slots -> Node]
    /\ subnets \in [SubnetSlots -> NetIdxs \cup {KEY_UNUSED}]
    /\ app_keys \in [AppKeySlots -> [net_idx : NetIdxs \cup {KEY_UNUSED},
                                     app_idx : AppIdxs]]
    /\ search \in [on : BOOLEAN, uuid : Uuids \cup {NoUuid},
                   num_elem : 0 .. ELEM_MAX, addr : 0 .. UNICAST_MAX + 1,
                   i : 0 .. NODE_COUNT + 2]

NoSearch == [on |-> FALSE, uuid |-> NoUuid, num_elem |-> 0, addr |-> 0, i |-> 0]

Init ==
    /\ valid = FALSE
    /\ nodes = InitNodes
    /\ subnets = [i \in SubnetSlots |-> KEY_UNUSED]
    /\ app_keys = [i \in AppKeySlots |-> [net_idx |-> KEY_UNUSED, app_idx |-> 0]]
    /\ search = NoSearch

----------------------------------------------------------------------------
(* Subnets. *)

UnusedSubnets == {i \in SubnetSlots : subnets[i] = KEY_UNUSED}

\* Mutant: no look for an existing subnet with the index.
CanAllocSubnet_NoLookup(net) == UnusedSubnets # {}

\* bt_mesh_cdb_subnet_alloc gives NULL when the index is taken or no slot is free.
CanAllocSubnet(net) ==
    (\A i \in SubnetSlots : subnets[i] # net) /\ UnusedSubnets # {}

SubnetsWith(net) == [subnets EXCEPT ![FirstOf(UnusedSubnets)] = net]

bt_mesh_cdb_subnet_alloc(net) ==
    /\ CanAllocSubnet(net)
    /\ subnets' = SubnetsWith(net)
    /\ UNCHANGED <<valid, nodes, app_keys>>

bt_mesh_cdb_subnet_del(i) ==
    /\ subnets[i] # KEY_UNUSED
    /\ subnets' = [subnets EXCEPT ![i] = KEY_UNUSED]
    /\ UNCHANGED <<valid, nodes, app_keys>>

----------------------------------------------------------------------------
(* The database as a whole. *)

\* VALID is set before the primary subnet is allocated and stays set when that
\* fails (-ENOMEM).
bt_mesh_cdb_create ==
    /\ ~valid
    /\ valid' = TRUE
    /\ subnets' = IF CanAllocSubnet(KEY_PRIMARY) THEN SubnetsWith(KEY_PRIMARY)
                                                 ELSE subnets
    /\ UNCHANGED <<nodes, app_keys>>

\* Deleting an application key writes BT_MESH_ADDR_UNASSIGNED to its net_idx.
AppKeyDeleted(k) == [k EXCEPT !.net_idx = UNASSIGNED]

bt_mesh_cdb_clear ==
    /\ valid' = FALSE
    /\ nodes' = [i \in Slots |-> [nodes[i] EXCEPT !.addr = UNASSIGNED]]
    /\ subnets' = [i \in SubnetSlots |-> KEY_UNUSED]
    /\ app_keys' = [i \in AppKeySlots |->
                      IF app_keys[i].net_idx # KEY_UNUSED
                      THEN AppKeyDeleted(app_keys[i]) ELSE app_keys[i]]

----------------------------------------------------------------------------
(* Nodes. *)

\* An allocation at an address the caller chose.
bt_mesh_cdb_node_alloc(uuid, addr, n) ==
    /\ alloc_slot(nodes, addr, n) # NULL
    /\ nodes' = node_alloc(nodes, uuid, addr, n)
    /\ UNCHANGED <<valid, subnets, app_keys>>

\* An allocation at address 0 runs the loop of find_lowest_free_addr from
\* addr = 1, one iteration a step; the caller does nothing else meanwhile.
find_lowest_free_addr(uuid, n) ==
    /\ search' = [on |-> TRUE, uuid |-> uuid, num_elem |-> n, addr |-> 1, i |-> 0]
    /\ UNCHANGED <<valid, nodes, subnets, app_keys>>

ProbeResult == addr_is_free(nodes, search.addr, search.num_elem)

SearchStep ==
    /\ search.on /\ search.i < NODE_COUNT + 2 /\ ProbeResult = "EAGAIN"
    /\ search' = [search EXCEPT !.i = @ + 1,
                     !.addr = NextAddr(nodes, search.addr, search.num_elem)]
    /\ UNCHANGED <<valid, nodes, subnets, app_keys>>

\* Mutant: the iterations run out after NODE_COUNT - 1 of them.
SearchOver_TooSoon == search.i >= NODE_COUNT - 1 \/ ProbeResult # "EAGAIN"

\* The loop ends at its limit, at a free range or at an invalid one.
SearchOver == search.i = NODE_COUNT + 2 \/ ProbeResult # "EAGAIN"

\* Mutant: an invalid range ends the loop without resetting addr.
Found_NoReset == search.addr

\* The address the loop leaves; at its limit that is the last candidate, unprobed.
Found ==
    IF search.i < NODE_COUNT + 2 /\ ProbeResult = "EINVAL" THEN UNASSIGNED
    ELSE search.addr

SearchReturns ==
    /\ search.on /\ SearchOver
    /\ nodes' = IF Found # UNASSIGNED /\ FreeSlots(nodes) # {}
                THEN fill_slot(nodes, search.uuid, Found, search.num_elem)
                ELSE nodes
    /\ search' = NoSearch
    /\ UNCHANGED <<valid, subnets, app_keys>>

bt_mesh_cdb_node_del(i) ==
    /\ i \in Live(nodes)
    /\ nodes' = node_del(nodes, i)
    /\ UNCHANGED <<valid, subnets, app_keys>>

----------------------------------------------------------------------------
(* Application keys. *)

UnusedAppKeys == {i \in AppKeySlots : app_keys[i].net_idx = KEY_UNUSED}

bt_mesh_cdb_app_key_alloc(net, app) ==
    /\ UnusedAppKeys # {}
    /\ app_keys' = [app_keys EXCEPT ![FirstOf(UnusedAppKeys)] =
                      [net_idx |-> net, app_idx |-> app]]
    /\ UNCHANGED <<valid, nodes, subnets>>

bt_mesh_cdb_app_key_del(i) ==
    /\ app_keys[i].net_idx # KEY_UNUSED
    /\ app_keys' = [app_keys EXCEPT ![i] = AppKeyDeleted(@)]
    /\ UNCHANGED <<valid, nodes, subnets>>

----------------------------------------------------------------------------
ApiCall ==
    \/ bt_mesh_cdb_create
    \/ bt_mesh_cdb_clear
    \/ \E net \in NetIdxs : bt_mesh_cdb_subnet_alloc(net)
    \/ \E i \in SubnetSlots : bt_mesh_cdb_subnet_del(i)
    \/ \E u \in Uuids, a \in 1 .. UNICAST_MAX + 1, n \in 0 .. ELEM_MAX :
          bt_mesh_cdb_node_alloc(u, a, n)
    \/ \E i \in Slots : bt_mesh_cdb_node_del(i)
    \/ \E net \in NetIdxs, app \in AppIdxs : bt_mesh_cdb_app_key_alloc(net, app)
    \/ \E i \in AppKeySlots : bt_mesh_cdb_app_key_del(i)

Next ==
    \/ ~search.on /\ ApiCall /\ UNCHANGED search
    \/ ~search.on /\ \E u \in Uuids, n \in 0 .. ELEM_MAX : find_lowest_free_addr(u, n)
    \/ SearchStep
    \/ SearchReturns

Spec == Init /\ [][Next]_vars

=============================================================================

------------------------------ MODULE CDBNodes ------------------------------
(***************************************************************************)
(* The node table of the Mesh Configuration Database                       *)
(* (subsys/bluetooth/mesh/cdb.c) as operators on the array bt_mesh_cdb     *)
(* .nodes.  The state machines CDB, CDBStore and Provisioning keep such an *)
(* array in a variable and change it only through these operators.         *)
(*                                                                         *)
(* Device keys and the NetIdx of a node are left out: nothing the table    *)
(* decides depends on them.                                                *)
(***************************************************************************)
EXTENDS Integers

CONSTANTS
    NODE_COUNT,    \* CONFIG_BT_MESH_CDB_NODE_COUNT
    UNICAST_MAX,   \* the highest unicast address, 0x7FFF
    ELEM_MAX,      \* the highest element count, 0xFF (uint8_t num_elem)
    Uuids,         \* device UUIDs
    NoUuid         \* the zeroed UUID of a slot never used

\* uint16_t holds a unicast address plus an element count without wrapping,
\* as 0x7FFF + 0xFF < 0x10000.
ASSUME NodesAssumption ==
    /\ NODE_COUNT \in Nat \ {0}
    /\ UNICAST_MAX \in Nat \ {0}
    /\ ELEM_MAX \in Nat \ {0}
    /\ ELEM_MAX <= UNICAST_MAX
    /\ NoUuid \notin Uuids

UNASSIGNED == 0                        \* BT_MESH_ADDR_UNASSIGNED
Uint16(x) == x % (2 * (UNICAST_MAX + 1))
IsUnicast(a) == 0 < a /\ a <= UNICAST_MAX

Slots == 0 .. NODE_COUNT - 1
NULL == -1                             \* the null node pointer, as a slot

Node == [addr : 0 .. UNICAST_MAX, num_elem : 0 .. ELEM_MAX,
         uuid : Uuids \cup {NoUuid}, configured : BOOLEAN]

InitNodes ==
    [i \in Slots |-> [addr |-> UNASSIGNED, num_elem |-> 0,
                      uuid |-> NoUuid, configured |-> FALSE]]

Live(ns) == {i \in Slots : ns[i].addr # UNASSIGNED}
FirstOf(S) == CHOOSE i \in S : \A j \in S : i <= j

\* The last address of a range, in the uint16_t arithmetic of addr_is_free.
End(start, n) == Uint16(start + n - 1)

\* Mutant: touching ranges count as free.
Conflicts_OffByOne(ns, start, n) ==
    {i \in Live(ns) : ~ \/ End(start, n) <= ns[i].addr
                        \/ start > End(ns[i].addr, ns[i].num_elem)}

\* The slots whose range meets start .. End(start, n).
Conflicts(ns, start, n) ==
    {i \in Live(ns) : ~ \/ End(start, n) < ns[i].addr
                        \/ start > End(ns[i].addr, ns[i].num_elem)}

\* Mutant: the end of the range is not checked.
ValidRange_StartOnly(start, n) == IsUnicast(start) /\ n # 0

ValidRange(start, n) == IsUnicast(start) /\ IsUnicast(End(start, n)) /\ n # 0

\* The result code of addr_is_free, and the address it stores through next:
\* the first one after the range of the first conflicting slot.
addr_is_free(ns, start, n) ==
    IF ~ValidRange(start, n) THEN "EINVAL"
    ELSE IF Conflicts(ns, start, n) # {} THEN "EAGAIN" ELSE "OK"

\* Mutant: skip the wanted range instead of the conflicting one.
NextAddr_OwnSize(ns, start, n) == Uint16(start + n)

NextAddr(ns, start, n) ==
    LET other == ns[FirstOf(Conflicts(ns, start, n))]
    IN  Uint16(End(other.addr, other.num_elem) + 1)

\* Mutant: the test for a free slot is lost.
FreeSlots_Any(ns) == Slots

FreeSlots(ns) == Slots \ Live(ns)

\* bt_mesh_cdb_node_alloc fills the first free slot, and fails without one.
fill_slot(ns, uuid, addr, n) ==
    [ns EXCEPT ![FirstOf(FreeSlots(ns))] =
        [addr |-> addr, num_elem |-> n, uuid |-> uuid, configured |-> FALSE]]

\* The slot bt_mesh_cdb_node_alloc returns for a given address, or NULL, and
\* the table it leaves.
alloc_slot(ns, addr, n) ==
    IF addr_is_free(ns, addr, n) = "OK" /\ FreeSlots(ns) # {}
    THEN FirstOf(FreeSlots(ns)) ELSE NULL

node_alloc(ns, uuid, addr, n) ==
    IF alloc_slot(ns, addr, n) = NULL THEN ns ELSE fill_slot(ns, uuid, addr, n)

\* bt_mesh_cdb_node_del clears the address and keeps the element count.
node_del(ns, i) == [ns EXCEPT ![i].addr = UNASSIGNED]

\* bt_mesh_cdb_node_get does not look whether the slot is allocated.
node_get(ns, addr) ==
    LET hits == {i \in Slots : /\ addr >= ns[i].addr
                               /\ addr <= ns[i].addr + ns[i].num_elem - 1}
    IN  IF hits = {} THEN NULL ELSE FirstOf(hits)

=============================================================================

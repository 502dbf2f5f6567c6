------------------------------ MODULE CDBProps ------------------------------
(***************************************************************************)
(* What the configuration database must guarantee to its callers.          *)
(***************************************************************************)
EXTENDS CDB

Elements(node) == node.addr .. node.addr + node.num_elem - 1

\* No unicast address belongs to two nodes, after any sequence of allocations
\* at chosen and at lowest-free addresses, deletions and clears: the promise of
\* addr_is_free that mesh addressing rests on.
NodesDisjoint ==
    \A i, j \in Live(nodes) :
        i # j => Elements(nodes[i]) \cap Elements(nodes[j]) = {}

\* The specification of "lowest possible address": the smallest start whose
\* whole range is unicast and free, UNASSIGNED when there is none.
FreeStarts(n) ==
    {a \in 1 .. UNICAST_MAX :
        /\ a + n - 1 <= UNICAST_MAX
        /\ \A i \in Live(nodes) : (a .. a + n - 1) \cap Elements(nodes[i]) = {}}

LowestFree(n) == IF FreeStarts(n) = {} THEN UNASSIGNED ELSE FirstOf(FreeStarts(n))

\* Whenever the jump-ahead loop of find_lowest_free_addr ends, at a free range, at
\* an invalid one or at its limit of NODE_COUNT + 2 iterations, it has found the
\* lowest fitting address, for every node table that can arise: full, fragmented
\* or filled up to the end of the unicast range.
FindsLowestFree ==
    search.on /\ SearchOver /\ search.num_elem # 0 => Found = LowestFree(search.num_elem)

\* Two slots never hold the same NetIdx, so bt_mesh_cdb_subnet_get is unambiguous
\* whatever the order of creates, clears, allocations and deletions.
SubnetsUnique ==
    \A i, j \in SubnetSlots :
        i # j /\ subnets[i] # KEY_UNUSED => subnets[i] # subnets[j]

\* A live node never changes address, size or owner in place: an allocation only
\* ever fills a slot whose node was deleted before.
LiveNodesStable ==
    [][\A i \in Live(nodes) :
         nodes'[i] = nodes[i] \/ i \notin Live(nodes')]_vars

\* The database implements the abstract pool of address grants.
GrantOf(node) == [uuid |-> node.uuid, first |-> node.addr,
                  last |-> node.addr + node.num_elem - 1]

Pool == INSTANCE AddressPool WITH grants <- {GrantOf(nodes[i]) : i \in Live(nodes)}

\* Every behaviour of the node table is one of the pool: grants appear only on
\* free ranges and disappear only when released.
ImplementsPool == Pool!Spec

=============================================================================

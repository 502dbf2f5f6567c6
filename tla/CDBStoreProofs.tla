--------------------------- MODULE CDBStoreProofs ---------------------------
(***************************************************************************)
(* Proofs about how the node table reaches storage and comes back from it, *)
(* for any number of slots, addresses and boards.  The boards have one     *)
(* element each, as those of the project do: with more, a deleted slot is  *)
(* found under low addresses (bt_mesh_cdb_node_get).                       *)
(***************************************************************************)
EXTENDS CDBStore, FiniteSetTheorems, WellFoundedInduction, TLAPS

OneElement == ELEM_MAX = 1

-----------------------------------------------------------------------------
(* The inductive invariants.                                               *)

\* A slot that is or was in use has one element and a UUID, and no two nodes share
\* an address.
Table ==
    /\ nodes \in [Slots -> Node]
    /\ \A i \in Live(nodes) : nodes[i].num_elem = 1
    /\ \A i \in Slots : nodes[i].num_elem = 1 => nodes[i].uuid \in Uuids
    /\ \A i, j \in Live(nodes) : nodes[i].addr = nodes[j].addr => i = j

\* The node of a link and the node of a store are, or were, in use.
Typed ==
    /\ TypeOK
    /\ caller.step # "idle" => nodes[caller.slot].num_elem = 1
    /\ prov_node # NULL => nodes[prov_node].num_elem = 1
    /\ worker.phase = "scan" => worker.item = NoItem
    /\ worker.phase = "write" => worker.i \in Slots
    /\ worker.phase = "idle" => worker = IdleWorker

\* While settings_load runs, nothing else does.
Loading ==
    load # {} =>
      /\ load \subseteq Items
      /\ worker.phase = "idle" /\ caller.step = "idle" /\ prov_node = NULL
      /\ ~queued /\ \A j \in Slots : updates[j] = NoUpdate

\* The nodes of the table are the items that have been read, of those that fit.
Fits == Cardinality(Items) <= NODE_COUNT /\ UNASSIGNED \notin Items
HasItem(i) ==
    /\ nodes[i].addr \in Items
    /\ flash[nodes[i].addr] = node_val(nodes[i])
Mirrors ==
    /\ \A i \in Live(nodes) : HasItem(i) /\ nodes[i].addr \notin load
    /\ \A a \in Items \ load : \E i \in Live(nodes) : nodes[i].addr = a
Restoring == load # {} /\ Fits => Mirrors

StoreInv == Table /\ Typed /\ Loading /\ Restoring

\* The nodes that are to be in storage, and whether an address is that of one.
Stored == Live(nodes) \ {prov_node}
Owned(a) == \E i \in Stored : nodes[i].addr = a

\* Main never loses a node, so nothing is stored or waits to be stored but nodes of
\* the table, and they fit into it after a restart.
OwnedInv ==
    /\ prov_node # NULL => prov_node \in Live(nodes)
    /\ caller.step # "idle" => caller.slot \in Stored /\ caller.clear = FALSE
    /\ \A j \in Slots : updates[j].addr # UNASSIGNED => Owned(updates[j].addr)
    /\ Running => \A a \in Items : Owned(a)
    /\ ~Running => Fits
    /\ flash[UNASSIGNED] = NoItem

\* The work queue runs before main goes on, and leaves no update behind itself.  Only
\* main itself is between the address and the flag of one.
PassInv ==
    /\ \A j \in Slots : updates[j].clear = FALSE
    /\ queued => pending /\ worker.phase = "idle"
    /\ worker.phase # "idle" => \A j \in Slots : j < worker.i => updates[j].addr = UNASSIGNED
    /\ worker.phase = "idle" /\ ~queued =>
         \A j \in Slots : \/ updates[j].addr = UNASSIGNED
                          \/ caller.step = "mark" /\ j = caller.at
    /\ worker.phase = "write" =>
         /\ worker.addr = updates[worker.i].addr
         /\ \E i \in Stored : /\ nodes[i].addr = worker.addr
                              /\ worker.item = node_val(nodes[i])

\* A node is stored as it is, or an update for it waits, or main is about to leave one.
Ahead(i) ==
    \/ HasItem(i)
    \/ \E j \in Slots : updates[j].addr = nodes[i].addr
    \/ caller.step \in {"find", "addr"} /\ caller.slot = i
AheadInv == Running => \A i \in Stored : Ahead(i)

CalmInv == env = "calm" => OwnedInv /\ PassInv /\ AheadInv

-----------------------------------------------------------------------------
(* The operators.                                                          *)

\* A non-empty set of slot numbers has a least element, so FirstOf is the slot a
\* loop over the array meets first.
LEMMA FirstOfIsLeast ==
    ASSUME NEW n \in Nat, NEW S \in SUBSET (0 .. n), S # {}
    PROVE  FirstOf(S) \in S /\ \A j \in S : FirstOf(S) <= j
<1> DEFINE T == {0 .. i : i \in S}
           WF == FiniteSubsetsOf(0 .. n)
<1>1. IsWellFoundedOn(StrictSubsetOrdering(0 .. n), WF)
  BY FS_StrictSubsetOrderingWellFounded, Zenon
<1>2. T \subseteq WF
  <2>1. ASSUME NEW i \in S PROVE 0 .. i \in WF
    <3>1. IsFiniteSet(0 .. i)
      BY FS_Interval
    <3> QED BY <3>1 DEF FiniteSubsetsOf
  <2> QED BY <2>1, Zenon
<1>0. T # {}
  BY Zenon
<1>3. PICK x \in T : \A y \in T : ~ (<<y, x>> \in StrictSubsetOrdering(0 .. n))
  BY <1>0, <1>1, <1>2, WFMin, Zenon
<1>4. PICK i \in S : x = 0 .. i
  BY Zenon
<1>5. ASSUME NEW j \in S, j < i PROVE FALSE
  <2>1. <<0 .. j, x>> \in StrictSubsetOrdering(0 .. n)
    BY <1>4, <1>5, SMT DEF StrictSubsetOrdering
  <2> QED BY <2>1, <1>3, Zenon
<1>6. \A j \in S : i <= j
  BY <1>5, SMT
<1> QED BY <1>6, Zenon DEF FirstOf

\* The first free or first conflicting slot is one of the slots it was chosen from.
LEMMA FirstSlot ==
    ASSUME NEW S \in SUBSET Slots, S # {}
    PROVE  FirstOf(S) \in S
<1>1. NODE_COUNT - 1 \in Nat /\ S \in SUBSET (0 .. NODE_COUNT - 1)
  BY NodesAssumption DEF Slots
<1> QED BY <1>1, FirstOfIsLeast, Zenon

\* The last one, for the loop that remembers the last match.
LEMMA LastSlot ==
    ASSUME NEW S \in SUBSET Slots, S # {}
    PROVE  LastOf(S) \in S
<1> DEFINE n == NODE_COUNT - 1
           R == {n - i : i \in S}
<1>1. n \in Nat /\ S \in SUBSET (0 .. n)
  BY NodesAssumption DEF Slots
<1> HIDE DEF n
<1>2. R \in SUBSET (0 .. n) /\ R # {}
  <2>1. \A i \in S : n - i \in 0 .. n
    BY <1>1
  <2> QED BY <2>1, Zenon
<1>3. PICK m \in R : \A k \in R : m <= k
  BY <1>1, <1>2, FirstOfIsLeast, Zenon
<1>4. PICK i \in S : m = n - i
  BY <1>3, Zenon
<1>5. \A j \in S : j <= i
  <2> TAKE j \in S
  <2>1. n - j \in R
    BY Zenon
  <2> QED BY <1>1, <1>3, <1>4, <2>1
<1> QED BY <1>5, Zenon DEF LastOf

\* cdb_node_update_find returns an update for the address or a free one.
LEMMA UpdateFind ==
    ASSUME Typed, NEW a \in Addresses, cdb_node_update_find(updates, a) # NULL
    PROVE  LET j == cdb_node_update_find(updates, a)
           IN  j \in Slots /\ updates[j].addr \in {a, UNASSIGNED}
<1> DEFINE U(b) == UpdatesFor(updates, b)
<1>1. \A b \in Addresses : U(b) \subseteq Slots /\ \A i \in U(b) : updates[i].addr = b
  BY Zenon DEF UpdatesFor
<1>2. UNASSIGNED \in Addresses
  BY NodesAssumption DEF UNASSIGNED, Addresses
<1>3. CASE U(a) # {}
  <2>1. LastOf(U(a)) \in U(a)
    BY <1>1, <1>3, LastSlot, Zenon
  <2> QED BY <1>1, <1>3, <2>1, Zenon DEF cdb_node_update_find
<1>4. CASE U(a) = {} /\ U(UNASSIGNED) # {}
  <2>1. LastOf(U(UNASSIGNED)) \in U(UNASSIGNED)
    BY <1>1, <1>2, <1>4, LastSlot, Zenon
  <2> QED BY <1>1, <1>2, <1>4, <2>1, Zenon DEF cdb_node_update_find
<1> QED BY <1>3, <1>4, Zenon DEF cdb_node_update_find

\* bt_mesh_cdb_node_get finds the node of an address, and no deleted one.
LEMMA NodeGet ==
    ASSUME OneElement, Table, NEW a \in Addresses, a # UNASSIGNED
    PROVE  /\ node_get(nodes, a) # NULL =>
                 node_get(nodes, a) \in Live(nodes) /\ nodes[node_get(nodes, a)].addr = a
           /\ \A i \in Live(nodes) : nodes[i].addr = a => node_get(nodes, a) = i
<1> DEFINE hits == {i \in Slots : /\ a >= nodes[i].addr
                                  /\ a <= nodes[i].addr + nodes[i].num_elem - 1}
<1>1. \A i \in Slots : /\ nodes[i].addr \in Nat /\ nodes[i].num_elem \in {0, 1}
                       /\ i \in Live(nodes) => nodes[i].num_elem = 1
  BY DEF Table, Node, OneElement
<1>2. a \in Nat /\ a > 0
  BY NodesAssumption DEF Addresses, UNASSIGNED
<1>3. \A i \in Slots : i \in hits <=> i \in Live(nodes) /\ nodes[i].addr = a
  BY <1>1, <1>2 DEF Live, UNASSIGNED
<1>4. hits # {} => FirstOf(hits) \in hits
  BY FirstSlot, Zenon
<1>5. node_get(nodes, a) = IF hits = {} THEN NULL ELSE FirstOf(hits)
  BY Zenon DEF node_get
<1>6. hits \subseteq Slots /\ Live(nodes) \subseteq Slots
  BY Zenon DEF Live
<1> HIDE DEF hits
<1>7. \A i \in hits, j \in hits : i = j
  BY <1>3, <1>6, Zenon DEF Table
<1> QED BY <1>3, <1>4, <1>5, <1>6, <1>7, Zenon

\* bt_mesh_cdb_node_alloc fills a free slot with an address that no node has.
LEMMA AllocFacts ==
    ASSUME OneElement, Table, NEW u \in Uuids, NEW a \in Addresses, alloc_slot(nodes, a, 1) # NULL
    PROVE  /\ alloc_slot(nodes, a, 1) \in Slots \ Live(nodes)
           /\ a # UNASSIGNED
           /\ \A i \in Live(nodes) : nodes[i].addr # a
           /\ node_alloc(nodes, u, a, 1) =
                [nodes EXCEPT ![alloc_slot(nodes, a, 1)] =
                   [addr |-> a, num_elem |-> 1, uuid |-> u, configured |-> FALSE]]
<1>1. addr_is_free(nodes, a, 1) = "OK" /\ FreeSlots(nodes) # {}
      /\ alloc_slot(nodes, a, 1) = FirstOf(FreeSlots(nodes))
  BY Zenon DEF alloc_slot
<1>2. FirstOf(FreeSlots(nodes)) \in FreeSlots(nodes)
  BY <1>1, FirstSlot, Zenon DEF FreeSlots
<1>3. ValidRange(a, 1) /\ Conflicts(nodes, a, 1) = {}
  BY <1>1, Zenon DEF addr_is_free
<1>4. End(a, 1) = a /\ \A i \in Live(nodes) : End(nodes[i].addr, nodes[i].num_elem) = nodes[i].addr
  BY NodesAssumption DEF Addresses, End, Uint16, Table, Node, Live
<1>5. \A i \in Live(nodes) : nodes[i].addr # a
  BY <1>3, <1>4, NodesAssumption DEF Conflicts, Addresses, Table, Node, Live
<1>6. a # UNASSIGNED
  BY <1>3 DEF ValidRange, IsUnicast, UNASSIGNED
<1> QED BY <1>1, <1>2, <1>5, <1>6, Zenon DEF FreeSlots, node_alloc, fill_slot

\* It succeeds with an address that no node has if there is a free slot.
LEMMA AllocSucceeds ==
    ASSUME OneElement, Table, NEW a \in Addresses, a # UNASSIGNED, Live(nodes) # Slots,
           \A i \in Live(nodes) : nodes[i].addr # a
    PROVE  alloc_slot(nodes, a, 1) # NULL
<1>1. FreeSlots(nodes) # {}
  BY Zenon DEF FreeSlots, Live
<1>2. FirstOf(FreeSlots(nodes)) \in Slots
  BY <1>1, FirstSlot, Zenon DEF FreeSlots
<1>3. End(a, 1) = a /\ \A i \in Live(nodes) : End(nodes[i].addr, nodes[i].num_elem) = nodes[i].addr
  BY NodesAssumption DEF Addresses, End, Uint16, Table, Node, Live
<1>4. Conflicts(nodes, a, 1) = {}
  BY <1>3, NodesAssumption DEF Conflicts, Addresses, Table, Node, Live
<1>5. ValidRange(a, 1)
  BY <1>3, NodesAssumption DEF ValidRange, IsUnicast, UNASSIGNED, Addresses
<1>6. addr_is_free(nodes, a, 1) = "OK"
  BY <1>4, <1>5, Zenon DEF addr_is_free
<1> QED BY <1>1, <1>2, <1>6 DEF alloc_slot, NULL, Slots

-----------------------------------------------------------------------------
(* Every step keeps the types.                                             *)

\* What deletes, configures or renews nodes keeps the table in order.
LEMMA TableKept ==
    ASSUME Table, nodes' \in [Slots -> Node],
           \A i \in Slots : /\ nodes'[i].addr \in {nodes[i].addr, UNASSIGNED}
                            /\ nodes'[i].num_elem = nodes[i].num_elem
                            /\ nodes'[i].uuid = nodes[i].uuid \/ nodes'[i].uuid \in Uuids
    PROVE  Table'
BY DEF Table, Live

\* The table with a slot filled.
LEMMA TableFill ==
    ASSUME OneElement, Table, NEW s \in Slots \ Live(nodes), NEW u \in Uuids, NEW a \in Addresses,
           NEW c \in BOOLEAN, a # UNASSIGNED, \A i \in Live(nodes) : nodes[i].addr # a,
           nodes' = [nodes EXCEPT ![s] =
                       [addr |-> a, num_elem |-> 1, uuid |-> u, configured |-> c]]
    PROVE  /\ Table' /\ Live(nodes') = Live(nodes) \cup {s}
           /\ nodes'[s] = [addr |-> a, num_elem |-> 1, uuid |-> u, configured |-> c]
           /\ \A i \in Slots \ {s} : nodes'[i] = nodes[i]
<1> DEFINE r == [addr |-> a, num_elem |-> 1, uuid |-> u, configured |-> c]
<1>2. r \in Node /\ r.addr = a /\ r.num_elem = 1 /\ r.uuid = u
  BY DEF Node, Addresses, OneElement
<1>3. nodes \in [Slots -> Node] /\ Live(nodes) \subseteq Slots
  BY Zenon DEF Table, Live
<1> HIDE DEF r
<1>4. nodes' \in [Slots -> Node] /\ nodes'[s] = r /\ \A i \in Slots \ {s} : nodes'[i] = nodes[i]
  BY <1>2, <1>3, Zenon DEF r
<1>5. Live(nodes') = Live(nodes) \cup {s}
  BY <1>2, <1>4, Zenon DEF Live
<1>6. Table'
  <2>2. \A i \in Live(nodes') : nodes'[i].num_elem = 1
    BY <1>2, <1>3, <1>4, <1>5, Zenon DEF Table
  <2>3. \A i \in Slots : nodes'[i].num_elem = 1 => nodes'[i].uuid \in Uuids
    BY <1>2, <1>4, Zenon DEF Table
  <2>4. \A i, j \in Live(nodes') : nodes'[i].addr = nodes'[j].addr => i = j
    BY <1>2, <1>3, <1>4, <1>5 DEF Table
  <2> QED BY <1>4, <2>2, <2>3, <2>4, Zenon DEF Table
<1> QED BY <1>4, <1>5, <1>6, Zenon DEF r

\* The table with a new node.
LEMMA TableAlloc ==
    ASSUME OneElement, Table, NEW u \in Uuids, NEW a \in Addresses,
           alloc_slot(nodes, a, 1) # NULL, nodes' = node_alloc(nodes, u, a, 1)
    PROVE  LET s == alloc_slot(nodes, a, 1)
           IN  /\ Table'
               /\ s \in Slots \ Live(nodes) /\ Live(nodes') = Live(nodes) \cup {s}
               /\ nodes'[s] = [addr |-> a, num_elem |-> 1, uuid |-> u, configured |-> FALSE]
               /\ \A i \in Slots \ {s} : nodes'[i] = nodes[i]
               /\ a # UNASSIGNED /\ \A i \in Live(nodes) : nodes[i].addr # a
<1> DEFINE s == alloc_slot(nodes, a, 1)
<1>1. /\ s \in Slots \ Live(nodes)
      /\ nodes' = [nodes EXCEPT ![s] =
                     [addr |-> a, num_elem |-> 1, uuid |-> u, configured |-> FALSE]]
      /\ a # UNASSIGNED /\ \A i \in Live(nodes) : nodes[i].addr # a
  BY AllocFacts, Zenon
<1> HIDE DEF s
<1>2. /\ Table' /\ Live(nodes') = Live(nodes) \cup {s}
      /\ nodes'[s] = [addr |-> a, num_elem |-> 1, uuid |-> u, configured |-> FALSE]
      /\ \A i \in Slots \ {s} : nodes'[i] = nodes[i]
  BY <1>1, TableFill, Zenon
<1> QED BY <1>1, <1>2, Zenon DEF s

\* A slot that is or was in use makes an item.
LEMMA ItemOf ==
    ASSUME OneElement, Table, NEW i \in Slots, nodes[i].num_elem = 1
    PROVE  node_val(nodes[i]) \in Item
<1>1. nodes[i].uuid \in Uuids /\ nodes[i].configured \in BOOLEAN
  BY Zenon DEF Table, Node
<1> QED BY <1>1 DEF node_val, Item, OneElement

\* The receive thread.
LEMMA RxTyped ==
    ASSUME OneElement, Table, Typed,
           \/ \E u \in Uuids, a \in Addresses, n \in 1 .. ELEM_MAX : AllocNode(u, a, n)
           \/ prov_complete \/ reset_state,
           UNCHANGED env
    PROVE  Table' /\ Typed'
<1>0. TypeOK /\ nodes \in [Slots -> Node]
  BY Zenon DEF Typed, Table
<1>1. ASSUME NEW u \in Uuids, NEW a \in Addresses, NEW n \in 1 .. ELEM_MAX, AllocNode(u, a, n)
      PROVE  Table' /\ Typed'
  <2>1. n = 1
    BY DEF OneElement
  <2>2. /\ nodes' = node_alloc(nodes, u, a, 1) /\ alloc_slot(nodes, a, 1) # NULL
        /\ prov_node' = alloc_slot(nodes, a, 1)
        /\ UNCHANGED <<updates, pending, queued, worker, caller, flash, load>>
    BY <1>1, <2>1, Zenon DEF AllocNode
  <2>3. /\ Table' /\ prov_node' \in Slots /\ nodes'[prov_node'].num_elem = 1
        /\ \A i \in Slots : nodes[i].num_elem = 1 => nodes'[i].num_elem = 1
    <3> DEFINE s == alloc_slot(nodes, a, 1)
    <3>1. /\ Table' /\ s \in Slots
          /\ nodes'[s] = [addr |-> a, num_elem |-> 1, uuid |-> u, configured |-> FALSE]
          /\ \A i \in Slots \ {s} : nodes'[i] = nodes[i]
      BY <2>2, TableAlloc, Zenon
    <3> HIDE DEF s
    <3> QED BY <2>2, <3>1 DEF s
  <2> QED BY <1>0, <2>2, <2>3 DEF Table, Typed, TypeOK
<1>2. CASE prov_complete
  <2> DEFINE n == nodes[prov_node]
  <2>1. /\ prov_node \in Slots /\ prov_node' = NULL
        /\ UNCHANGED <<nodes, worker, caller, load>>
        /\ bt_mesh_store_cdb_node(n)
    BY <1>0, <1>2, Zenon DEF prov_complete, TypeOK
  <2>2. n.addr \in Addresses /\ node_val(n) \in Item
    BY <1>0, <2>1, <1>2, ItemOf, Zenon DEF Typed, Node, Addresses, prov_complete
  <2>3. Table'
    BY <2>1, Zenon DEF Table
  <2> HIDE DEF n
  <2>4. flash' \in [Addresses -> Item \cup {NoItem}] /\ pending' \in BOOLEAN /\ queued' \in BOOLEAN
        /\ updates' \in [Slots -> [addr : 0 .. UNICAST_MAX, clear : BOOLEAN]]
    <3>1. CASE cdb_node_update_find(updates, n.addr) = NULL
      BY <1>0, <2>1, <2>2, <3>1, Zenon DEF bt_mesh_store_cdb_node, TypeOK
    <3>2. CASE cdb_node_update_find(updates, n.addr) # NULL
      <4>1. cdb_node_update_find(updates, n.addr) \in Slots
        BY <2>2, <3>2, UpdateFind, Zenon
      <4>2. [addr |-> n.addr, clear |-> FALSE] \in [addr : 0 .. UNICAST_MAX, clear : BOOLEAN]
        BY <2>2, Zenon DEF Addresses
      <4>3. /\ updates' = [updates EXCEPT ![cdb_node_update_find(updates, n.addr)] =
                                            [addr |-> n.addr, clear |-> FALSE]]
            /\ pending' = TRUE /\ queued' = TRUE /\ UNCHANGED flash
        BY <2>1, <3>2, Zenon DEF bt_mesh_store_cdb_node, schedule_cdb_store
      <4>4. /\ updates \in [Slots -> [addr : 0 .. UNICAST_MAX, clear : BOOLEAN]]
            /\ flash \in [Addresses -> Item \cup {NoItem}]
        BY <1>0, Zenon DEF TypeOK
      <4> QED BY <4>1, <4>2, <4>3, <4>4, Zenon
    <3> QED BY <3>1, <3>2, Zenon
  <2> QED BY <1>0, <2>1, <2>3, <2>4, Zenon DEF Typed, TypeOK
<1>3. CASE reset_state
  <2>1. /\ prov_node \in Slots /\ nodes' = [nodes EXCEPT ![prov_node].addr = UNASSIGNED]
        /\ prov_node' = NULL
        /\ UNCHANGED <<updates, pending, queued, worker, caller, flash, load>>
    BY <1>0, <1>3, Zenon DEF reset_state, node_del, TypeOK
  <2>2. nodes' \in [Slots -> Node]
    BY <1>0, <2>1, NodesAssumption DEF Node, UNASSIGNED
  <2>3. \A i \in Slots : /\ nodes'[i].addr \in {nodes[i].addr, UNASSIGNED}
                         /\ nodes'[i].num_elem = nodes[i].num_elem
                         /\ nodes'[i].uuid = nodes[i].uuid
    BY <1>0, <2>1, Zenon DEF Node
  <2>4. Table'
    BY <2>2, <2>3, TableKept, Zenon
  <2> QED BY <1>0, <2>1, <2>2, <2>3, <2>4 DEF Typed, TypeOK
<1> QED BY <1>1, <1>2, <1>3, Zenon

\* The main thread.
LEMMA MainTyped ==
    ASSUME OneElement, Table, Typed,
           \/ \E i \in Slots : BeginConfigure(i) \/ BeginDelete(i)
           \/ CallerFinds \/ CallerSetsAddr \/ CallerMarks \/ CallerEnds,
           UNCHANGED env
    PROVE  Table' /\ Typed'
<1>0. TypeOK /\ nodes \in [Slots -> Node]
      /\ caller \in [step : {"idle", "find", "addr", "mark", "end"}, slot : Slots,
                     clear : BOOLEAN, at : Slots]
  BY Zenon DEF Typed, Table, TypeOK
<1>a. 0 \in Slots /\ Live(nodes) \subseteq Slots
  BY NodesAssumption DEF Slots, Live
<1>1. ASSUME NEW i \in Slots, BeginConfigure(i) PROVE Table' /\ Typed'
  <2>1. /\ i \in Live(nodes) /\ nodes' = [nodes EXCEPT ![i].configured = TRUE]
        /\ caller' = [step |-> "find", slot |-> i, clear |-> FALSE, at |-> 0]
        /\ UNCHANGED <<prov_node, updates, pending, queued, worker, flash, load>>
    BY <1>1, Zenon DEF BeginConfigure
  <2>2. /\ nodes' \in [Slots -> Node]
        /\ \A k \in Slots : /\ nodes'[k].addr = nodes[k].addr
                            /\ nodes'[k].num_elem = nodes[k].num_elem
                            /\ nodes'[k].uuid = nodes[k].uuid
    <3>1. nodes' \in [Slots -> Node]
      BY <1>0, <2>1, ZenonT(40) DEF Node
    <3>2. \A k \in Slots : /\ nodes'[k].addr = nodes[k].addr
                           /\ nodes'[k].num_elem = nodes[k].num_elem
                           /\ nodes'[k].uuid = nodes[k].uuid
      BY <1>0, <2>1 DEF Node
    <3> QED BY <3>1, <3>2, Zenon
  <2>3. Table'
    BY <2>2, TableKept, Zenon
  <2>4. nodes'[i].num_elem = 1
    BY <2>1, <2>2, Zenon DEF Table
  <2> QED BY <1>0, <1>a, <2>1, <2>2, <2>3, <2>4, Zenon DEF Typed, TypeOK
<1>2. ASSUME NEW i \in Slots, BeginDelete(i) PROVE Table' /\ Typed'
  <2>1. /\ i \in Live(nodes)
        /\ caller' = [step |-> "find", slot |-> i, clear |-> TRUE, at |-> 0]
        /\ UNCHANGED <<nodes, prov_node, updates, pending, queued, worker, flash, load>>
    BY <1>2, Zenon DEF BeginDelete
  <2>2. nodes[i].num_elem = 1
    BY <2>1, Zenon DEF Table
  <2> QED BY <1>0, <1>a, <2>1, <2>2, Zenon DEF Table, Typed, TypeOK
<1>3. CASE CallerFinds
  <2> DEFINE j == cdb_node_update_find(updates, Target.addr)
             v == IF caller.clear THEN NoItem ELSE node_val(Target)
  <2>1. /\ caller.step = "find"
        /\ UNCHANGED <<nodes, prov_node, updates, pending, queued, worker, load>>
        /\ \/ /\ j = NULL /\ caller' = [caller EXCEPT !.step = "end"]
              /\ flash' = [flash EXCEPT ![Target.addr] = v]
           \/ /\ j # NULL /\ UNCHANGED flash
              /\ \E t \in {"mark", "addr"} : caller' = [caller EXCEPT !.at = j, !.step = t]
    BY <1>3, Zenon DEF CallerFinds
  <2>2. Target.addr \in Addresses /\ v \in Item \cup {NoItem}
    <3>1. caller.slot \in Slots /\ nodes[caller.slot].num_elem = 1
      BY <1>0, <2>1, Zenon DEF Typed
    <3>2. node_val(Target) \in Item
      BY <3>1, ItemOf, Zenon DEF Target
    <3>3. Target.addr \in Addresses
      BY <1>0, <3>1, Zenon DEF Target, Node, Addresses
    <3> QED BY <3>2, <3>3, Zenon
  <2>3. j # NULL => j \in Slots
    BY <2>2, UpdateFind, Zenon
  <2> HIDE DEF j, v
  <2>4. flash' \in [Addresses -> Item \cup {NoItem}]
    BY <1>0, <2>1, <2>2, Zenon DEF TypeOK
  <2>5. /\ caller' \in [step : {"idle", "find", "addr", "mark", "end"}, slot : Slots,
                        clear : BOOLEAN, at : Slots]
        /\ caller'.slot = caller.slot
    BY <1>0, <2>1, <2>3, Zenon
  <2> QED BY <1>0, <2>1, <2>4, <2>5, Zenon DEF Table, Typed, TypeOK
<1>4. CASE CallerSetsAddr
  <2>1. /\ caller.step = "addr" /\ caller' = [caller EXCEPT !.step = "mark"]
        /\ updates' = [updates EXCEPT ![caller.at].addr = nodes[caller.slot].addr]
        /\ UNCHANGED <<nodes, prov_node, pending, queued, worker, flash, load>>
    BY <1>4, Zenon DEF CallerSetsAddr, Target
  <2>2. nodes[caller.slot].addr \in 0 .. UNICAST_MAX
    BY <1>0, Zenon DEF Node
  <2>3. updates' \in [Slots -> [addr : 0 .. UNICAST_MAX, clear : BOOLEAN]]
    BY <1>0, <2>1, <2>2 DEF TypeOK
  <2> QED BY <1>0, <2>1, <2>3, Zenon DEF Table, Typed, TypeOK
<1>5. CASE CallerMarks
  <2>1. /\ caller.step = "mark" /\ caller' = [caller EXCEPT !.step = "end"]
        /\ updates' = [updates EXCEPT ![caller.at].clear = caller.clear]
        /\ pending' = TRUE /\ queued' = TRUE
        /\ UNCHANGED <<nodes, prov_node, worker, flash, load>>
    BY <1>5, Zenon DEF CallerMarks, schedule_cdb_store
  <2>2. updates' \in [Slots -> [addr : 0 .. UNICAST_MAX, clear : BOOLEAN]]
    BY <1>0, <2>1 DEF TypeOK
  <2> QED BY <1>0, <2>1, <2>2, Zenon DEF Table, Typed, TypeOK
<1>6. CASE CallerEnds
  <2>1. /\ caller' = IdleCaller
        /\ nodes' = IF caller.clear THEN [nodes EXCEPT ![caller.slot].addr = UNASSIGNED] ELSE nodes
        /\ UNCHANGED <<prov_node, updates, pending, queued, worker, flash, load>>
    BY <1>6, Zenon DEF CallerEnds, node_del
  <2>2. /\ nodes' \in [Slots -> Node]
        /\ \A k \in Slots : /\ nodes'[k].addr \in {nodes[k].addr, UNASSIGNED}
                            /\ nodes'[k].num_elem = nodes[k].num_elem
                            /\ nodes'[k].uuid = nodes[k].uuid
    BY <1>0, <2>1, NodesAssumption DEF Node, UNASSIGNED
  <2>3. Table'
    BY <2>2, TableKept, Zenon
  <2> QED BY <1>0, <1>a, <2>1, <2>2, <2>3, Zenon DEF Typed, TypeOK, IdleCaller
<1> QED BY <1>1, <1>2, <1>3, <1>4, <1>5, <1>6, Zenon

\* The work queue.
LEMMA WorkerTyped ==
    ASSUME OneElement, Table, Typed, Worker, UNCHANGED env
    PROVE  Table' /\ Typed'
<1> DEFINE W == [phase : {"idle", "scan", "write"}, i : 0 .. NODE_COUNT,
                 addr : 0 .. UNICAST_MAX, item : Item \cup {NoItem}]
           U == [Slots -> [addr : 0 .. UNICAST_MAX, clear : BOOLEAN]]
<1>0. TypeOK /\ nodes \in [Slots -> Node] /\ worker \in W /\ updates \in U
  BY Zenon DEF Typed, Table, TypeOK
<1>a. /\ NODE_COUNT \in Nat /\ Slots = 0 .. NODE_COUNT - 1
      /\ 0 \in Addresses /\ Addresses = 0 .. UNICAST_MAX
  BY NodesAssumption DEF Addresses, Slots
<1>b. \A k \in 0 .. NODE_COUNT : [IdleWorker EXCEPT !.phase = "scan", !.i = k] \in W
  BY <1>a, Zenon DEF IdleWorker, UNASSIGNED, Addresses
<1>c. worker.i \in Slots => /\ NextUpdate \in W /\ NextUpdate.phase = "scan"
                            /\ NextUpdate.item = NoItem
  <2>1. worker.i \in Slots => worker.i + 1 \in 0 .. NODE_COUNT
    BY <1>a
  <2>2. worker.i \in Slots => NextUpdate \in W
    BY <1>b, <2>1, Zenon DEF NextUpdate
  <2>3. NextUpdate.phase = "scan" /\ NextUpdate.item = NoItem
    BY Zenon DEF NextUpdate, IdleWorker
  <2> QED BY <2>2, <2>3, Zenon
<1>d. IdleWorker \in W /\ IdleWorker.phase = "idle"
  BY <1>a DEF IdleWorker, UNASSIGNED
<1>e. ASSUME updates' \in U, worker' \in W, pending' \in BOOLEAN, queued' \in BOOLEAN,
             flash' \in [Addresses -> Item \cup {NoItem}],
             UNCHANGED <<nodes, prov_node, caller, load>>,
             worker'.phase = "scan" => worker'.item = NoItem,
             worker'.phase = "write" => worker'.i \in Slots,
             worker'.phase = "idle" => worker' = IdleWorker
      PROVE  Table' /\ Typed'
  BY <1>0, <1>e, Zenon DEF Table, Typed, TypeOK
<1>1. CASE WorkerStart
  <2>1. /\ UNCHANGED <<nodes, prov_node, updates, caller, flash, load>>
        /\ pending' = FALSE /\ queued' = FALSE /\ worker.phase = "idle"
        /\ worker' = worker \/ worker' = [IdleWorker EXCEPT !.phase = "scan"]
    BY <1>1, Zenon DEF WorkerStart
  <2>2. [IdleWorker EXCEPT !.phase = "scan"] \in W
    BY <1>a DEF IdleWorker, UNASSIGNED
  <2>3. /\ [IdleWorker EXCEPT !.phase = "scan"].phase = "scan"
        /\ [IdleWorker EXCEPT !.phase = "scan"].item = NoItem
    BY Zenon DEF IdleWorker
  <2> QED BY <1>0, <1>e, <2>1, <2>2, <2>3, Zenon DEF Typed, TypeOK
<1>2. CASE WorkerScan
  <2>0. /\ worker.phase = "scan"
        /\ UNCHANGED <<nodes, prov_node, pending, queued, caller, flash, load>>
    BY <1>2, Zenon DEF WorkerScan
  <2>1. CASE worker.i = NODE_COUNT
    BY <1>0, <1>2, <1>d, <1>e, <2>0, <2>1, Zenon DEF WorkerScan, TypeOK
  <2>2. CASE worker.i # NODE_COUNT
    <3> DEFINE u == updates[worker.i]
               node == node_get(nodes, u.addr)
    <3>1. worker.i \in Slots /\ u.addr \in Addresses /\ u.clear \in BOOLEAN
      BY <1>0, <1>a, <2>2
    <3>2. \/ worker' = NextUpdate /\ UNCHANGED updates
          \/ /\ worker' = [worker EXCEPT !.phase = "write", !.addr = u.addr]
             /\ UNCHANGED updates
          \/ /\ u.addr # UNASSIGNED /\ node # NULL /\ UNCHANGED updates
             /\ worker' = [worker EXCEPT !.phase = "write", !.addr = nodes[node].addr,
                                         !.item = node_val(nodes[node])]
          \/ /\ worker' = NextUpdate
             /\ updates' = [updates EXCEPT ![worker.i].addr = UNASSIGNED]
      BY <1>2, <2>2, <3>1, Zenon DEF WorkerScan
    <3>3. u.addr # UNASSIGNED /\ node # NULL =>
            nodes[node].addr \in Addresses /\ node_val(nodes[node]) \in Item
      <4> SUFFICES ASSUME u.addr # UNASSIGNED, node # NULL
                   PROVE  nodes[node].addr \in Addresses /\ node_val(nodes[node]) \in Item
        BY Zenon
      <4>1. node \in Live(nodes)
        BY <3>1, NodeGet, Zenon
      <4> HIDE DEF node
      <4>2. node \in Slots /\ nodes[node].num_elem = 1
        BY <4>1, Zenon DEF Live, Table
      <4>3. node_val(nodes[node]) \in Item
        BY <4>2, ItemOf, Zenon
      <4> QED BY <1>0, <4>2, <4>3, Zenon DEF Node, Addresses
    <3> HIDE DEF node
    <3>4. updates' \in U
      <4>1. [updates EXCEPT ![worker.i].addr = UNASSIGNED] \in U
        BY <1>0, <1>a, <3>1 DEF UNASSIGNED
      <4> HIDE DEF U
      <4> QED BY <1>0, <3>2, <4>1, Zenon
    <3>5. /\ worker' \in W /\ worker'.phase \in {"scan", "write"}
          /\ worker'.phase = "scan" => worker'.item = NoItem
          /\ worker'.phase = "write" => worker'.i \in Slots
      BY <1>0, <1>a, <1>c, <3>1, <3>2, <3>3, Zenon
    <3> QED BY <1>0, <1>e, <2>0, <3>4, <3>5, Zenon DEF TypeOK
  <2> QED BY <2>1, <2>2, Zenon
<1>3. CASE WorkerWrites
  <2>1. /\ worker.i \in Slots /\ worker' = NextUpdate
        /\ flash' = [flash EXCEPT ![worker.addr] = worker.item]
        /\ updates' = [updates EXCEPT ![worker.i].addr = UNASSIGNED]
        /\ UNCHANGED <<nodes, prov_node, pending, queued, caller, load>>
    BY <1>3, Zenon DEF WorkerWrites, Typed
  <2>2. updates' \in U
    BY <1>0, <1>a, <2>1, Zenon DEF UNASSIGNED
  <2>3. flash' \in [Addresses -> Item \cup {NoItem}]
    BY <1>0, <1>a, <2>1, Zenon DEF TypeOK
  <2> QED BY <1>0, <1>c, <1>e, <2>1, <2>2, <2>3, Zenon DEF TypeOK
<1> QED BY <1>1, <1>2, <1>3, Zenon DEF Worker

\* What a restart leaves in RAM.
Empty ==
    /\ nodes = InitNodes /\ prov_node = NULL /\ updates = [i \in Slots |-> NoUpdate]
    /\ pending = FALSE /\ queued = FALSE /\ worker = IdleWorker /\ caller = IdleCaller
    /\ flash \in [Addresses -> Item \cup {NoItem}] /\ load \subseteq Addresses /\ env \in ENVS

\* A restart, and the start.
LEMMA EmptyTyped ==
    Empty => Table /\ Typed /\ Live(nodes) = {}
<1> SUFFICES ASSUME Empty PROVE Table /\ Typed /\ Live(nodes) = {}
  BY Zenon
<1> USE DEF Empty
<1>1. NODE_COUNT \in Nat /\ 0 \in Slots /\ 0 \in Addresses /\ Addresses = 0 .. UNICAST_MAX
  BY NodesAssumption DEF Slots, Addresses
<1>2. Live(nodes) = {}
  BY Zenon DEF Live, InitNodes
<1>3. nodes \in [Slots -> Node]
  BY NodesAssumption DEF InitNodes, Node, UNASSIGNED
<1>4. Table
  <2>1. \A i \in Slots : nodes[i].num_elem = 0
    BY Zenon DEF InitNodes
  <2> QED BY <1>2, <1>3, <2>1 DEF Table
<1>5. updates \in [Slots -> [addr : 0 .. UNICAST_MAX, clear : BOOLEAN]]
  BY <1>1, Zenon DEF NoUpdate, UNASSIGNED
<1>6. worker \in [phase : {"idle", "scan", "write"}, i : 0 .. NODE_COUNT,
                  addr : 0 .. UNICAST_MAX, item : Item \cup {NoItem}]
      /\ worker.phase = "idle"
  BY <1>1 DEF IdleWorker, UNASSIGNED
<1>7. caller \in [step : {"idle", "find", "addr", "mark", "end"}, slot : Slots,
                  clear : BOOLEAN, at : Slots]
      /\ caller.step = "idle"
  BY <1>1, Zenon DEF IdleCaller
<1> QED BY <1>2, <1>3, <1>4, <1>5, <1>6, <1>7, Zenon DEF Typed, TypeOK

-----------------------------------------------------------------------------
(* settings_load.                                                          *)

\* The items and the slots can be counted.
LEMMA Finite ==
    /\ IsFiniteSet(Items) /\ Items \subseteq Addresses
    /\ IsFiniteSet(Slots) /\ Cardinality(Slots) = NODE_COUNT
    /\ NODE_COUNT \in Nat /\ Cardinality(Items) \in Nat
<1>1. IsFiniteSet(Slots) /\ Cardinality(Slots) = NODE_COUNT /\ NODE_COUNT \in Nat
  BY FS_Interval, NodesAssumption DEF Slots
<1>2. IsFiniteSet(Addresses)
  BY FS_Interval, NodesAssumption DEF Addresses
<1>3. Items \subseteq Addresses
  BY Zenon DEF Items
<1>4. IsFiniteSet(Items)
  BY <1>2, <1>3, FS_Subset, Zenon
<1> QED BY <1>1, <1>3, <1>4, FS_CardinalityType, Zenon

\* An item that is still to be read finds a slot, if there are not more items than
\* slots and the nodes in the table are those of items read before.
LEMMA RoomLeft ==
    ASSUME Table, Fits, Mirrors, load \subseteq Items, NEW a \in load
    PROVE  Live(nodes) # Slots
<1> SUFFICES ASSUME Live(nodes) = Slots PROVE FALSE
  BY Zenon
<1> DEFINE T == Items \ {a}
           f == [i \in Slots |-> nodes[i].addr]
<1>1. IsFiniteSet(T) /\ Cardinality(T) < Cardinality(Slots)
  <2>1. IsFiniteSet(T) /\ Cardinality(T) = Cardinality(Items) - 1
    BY Finite, FS_RemoveElement, Zenon
  <2> HIDE DEF T
  <2> QED BY <2>1, Finite DEF Fits
<1>2. f \in [Slots -> T]
  BY Zenon DEF Mirrors, HasItem
<1>3. \A i \in Slots : f[i] = nodes[i].addr
  BY Zenon
<1> HIDE DEF T, f
<1>4. \E i, j \in Slots : i # j /\ f[i] = f[j]
  BY <1>1, <1>2, Finite, FS_PigeonHole, Zenon
<1> QED BY <1>3, <1>4, Zenon DEF Table

\* The table after an item was read, in terms of the slot that was filled.
LEMMA SetFacts ==
    ASSUME OneElement, Table, Typed, load \subseteq Items, NEW a \in load, cdb_node_set(a)
    PROVE  /\ load' = load \ {a} /\ a \in Items /\ flash[a] \in Item
           /\ UNCHANGED <<prov_node, updates, pending, queued, worker, caller, flash>>
           /\ \/ UNCHANGED nodes /\ node_get(nodes, a) = NULL
                 /\ (a # UNASSIGNED => alloc_slot(nodes, a, 1) = NULL)
              \/ \E i \in Slots : /\ node_get(nodes, a) = i
                                  /\ nodes' = [nodes EXCEPT ![i] = Restored(nodes[i], flash[a])]
              \/ \E i \in Slots \ Live(nodes), b \in Addresses :
                   /\ a # UNASSIGNED => b = a
                   /\ b # UNASSIGNED /\ \A k \in Live(nodes) : nodes[k].addr # b
                   /\ nodes' = [nodes EXCEPT ![i] =
                        [addr |-> b, num_elem |-> 1, uuid |-> flash[a].uuid,
                         configured |-> flash[a].configured]]
<1> DEFINE item == flash[a]
           b == AddrFor(nodes, a, 1)
           old == node_get(nodes, a)
<1>1. a \in Items /\ a \in Addresses /\ item \in Item
  BY Zenon DEF Items, Typed, TypeOK
<1>2. item.num_elem = 1 /\ item.uuid \in Uuids /\ item.configured \in BOOLEAN
  BY <1>1 DEF Item, OneElement
<1>3. old = NULL \/ old \in Slots
  BY FirstSlot, Zenon DEF node_get
<1>4. b \in Addresses /\ (a # UNASSIGNED => b = a)
  <2> DEFINE free == {c \in Addresses : addr_is_free(nodes, c, 1) = "OK"}
  <2>1. UNICAST_MAX \in Nat /\ free \in SUBSET (0 .. UNICAST_MAX)
    BY NodesAssumption, Zenon DEF Addresses
  <2>2. free # {} => FirstOf(free) \in free
    BY <2>1, FirstOfIsLeast, Zenon
  <2> QED BY <1>1, <2>2, Zenon DEF AddrFor
<1>5. /\ load' = load \ {a}
      /\ UNCHANGED <<prov_node, updates, pending, queued, worker, caller, flash>>
      /\ LET ns == IF old # NULL THEN nodes ELSE node_alloc(nodes, item.uuid, b, 1)
             i == IF old # NULL THEN old ELSE alloc_slot(nodes, b, 1)
         IN  nodes' = IF i = NULL THEN nodes ELSE [ns EXCEPT ![i] = Restored(ns[i], item)]
  BY <1>2, Zenon DEF cdb_node_set
<1> HIDE DEF item, b, old
<1>6. CASE old # NULL
  BY <1>1, <1>3, <1>5, <1>6, Zenon DEF item, old
<1>7. CASE old = NULL /\ alloc_slot(nodes, b, 1) = NULL
  BY <1>1, <1>4, <1>5, <1>7, Zenon DEF item, old
<1>8. CASE old = NULL /\ alloc_slot(nodes, b, 1) # NULL
  <2> DEFINE i == alloc_slot(nodes, b, 1)
             ns == node_alloc(nodes, item.uuid, b, 1)
             r == [addr |-> b, num_elem |-> 1, uuid |-> item.uuid, configured |-> FALSE]
             q == [addr |-> b, num_elem |-> 1, uuid |-> item.uuid, configured |-> item.configured]
  <2>1. /\ i \in Slots \ Live(nodes) /\ b # UNASSIGNED /\ ns = [nodes EXCEPT ![i] = r]
        /\ \A k \in Live(nodes) : nodes[k].addr # b
    BY <1>2, <1>4, <1>8, AllocFacts, Zenon
  <2>2. nodes' = [ns EXCEPT ![i] = Restored(ns[i], item)]
    BY <1>5, <1>8, Zenon
  <2>3. Restored(r, item) = q
    <3>1. (FALSE \/ item.configured) = item.configured
      BY <1>2, Zenon
    <3>2. Restored(r, item) = [r EXCEPT !.uuid = item.uuid, !.configured = item.configured]
      BY <3>1, Zenon DEF Restored
    <3> QED BY <3>2, Zenon
  <2> HIDE DEF i, ns, r, q
  <2>4. nodes' = [nodes EXCEPT ![i] = q]
    BY <2>1, <2>2, <2>3, Zenon DEF Table
  <2> QED BY <1>1, <1>4, <1>5, <2>1, <2>4, Zenon DEF item, q
<1> QED BY <1>6, <1>7, <1>8, Zenon

\* settings_load keeps the types, also with an item under address 0.
LEMMA LoadTyped ==
    ASSUME OneElement, Table, Typed, Loading, NEW a \in load, cdb_node_set(a), UNCHANGED env
    PROVE  Table' /\ Typed'
<1>0. /\ TypeOK /\ nodes \in [Slots -> Node] /\ load \subseteq Items
      /\ caller.step = "idle" /\ prov_node = NULL
  BY Zenon DEF Typed, Table, Loading
<1>1. /\ load' = load \ {a} /\ flash[a] \in Item
      /\ UNCHANGED <<prov_node, updates, pending, queued, worker, caller, flash>>
  BY <1>0, SetFacts, Zenon
<1>2. Table'
  <2>1. CASE UNCHANGED nodes
    BY <2>1, Zenon DEF Table
  <2>2. ASSUME NEW i \in Slots, nodes' = [nodes EXCEPT ![i] = Restored(nodes[i], flash[a])]
        PROVE  Table'
    <3> DEFINE r == Restored(nodes[i], flash[a])
    <3>1. /\ r \in Node /\ r.addr = nodes[i].addr /\ r.num_elem = nodes[i].num_elem
          /\ r.uuid \in Uuids
      BY <1>0, <1>1, ZenonT(40) DEF Restored, Node, Item
    <3> HIDE DEF r
    <3>2. nodes' = [nodes EXCEPT ![i] = r]
      BY <2>2, Zenon DEF r
    <3> QED BY <1>0, <3>1, <3>2, TableKept, Zenon
  <2>3. ASSUME NEW i \in Slots \ Live(nodes), NEW b \in Addresses, b # UNASSIGNED,
               \A k \in Live(nodes) : nodes[k].addr # b,
               nodes' = [nodes EXCEPT ![i] =
                        [addr |-> b, num_elem |-> 1, uuid |-> flash[a].uuid,
                         configured |-> flash[a].configured]]
        PROVE  Table'
    <3>1. flash[a].uuid \in Uuids /\ flash[a].configured \in BOOLEAN
      BY <1>1, Zenon DEF Item
    <3> QED BY <2>3, <3>1, TableFill, Zenon
  <2> QED BY <1>0, <2>1, <2>2, <2>3, SetFacts, Zenon
<1> QED BY <1>0, <1>1, <1>2, Zenon DEF Table, Typed, TypeOK

\* With room for all items, the one that is read becomes a node.
LEMMA LoadMirrors ==
    ASSUME OneElement, Table, Typed, Mirrors, Fits, load \subseteq Items, NEW a \in load,
           cdb_node_set(a)
    PROVE  Mirrors'
<1>1. /\ load' = load \ {a} /\ flash' = flash /\ flash[a] \in Item
      /\ a \in Items /\ a # UNASSIGNED /\ a \in Addresses
  BY SetFacts, Zenon DEF Fits, Items
<1>2. \A i \in Live(nodes) : nodes[i].addr # a
  BY Zenon DEF Mirrors
<1>3. alloc_slot(nodes, a, 1) # NULL
  BY <1>1, <1>2, RoomLeft, AllocSucceeds, Zenon
<1>4. node_get(nodes, a) = NULL
  BY <1>1, <1>2, NodeGet, Zenon
<1>5. NULL \notin Slots
  BY NodesAssumption DEF Slots, NULL
<1>6. PICK i \in Slots \ Live(nodes) :
        nodes' = [nodes EXCEPT ![i] =
                    [addr |-> a, num_elem |-> 1, uuid |-> flash[a].uuid,
                     configured |-> flash[a].configured]]
  BY <1>1, <1>3, <1>4, <1>5, SetFacts, Zenon
<1>7. /\ flash[a].num_elem = 1 /\ flash[a].uuid \in Uuids /\ flash[a].configured \in BOOLEAN
      /\ flash[a] = [num_elem |-> 1, uuid |-> flash[a].uuid, configured |-> flash[a].configured]
  BY <1>1 DEF Item, OneElement
<1> DEFINE q == [addr |-> a, num_elem |-> 1, uuid |-> flash[a].uuid,
                 configured |-> flash[a].configured]
<1>8. /\ Live(nodes') = Live(nodes) \cup {i} /\ nodes'[i] = q
      /\ \A k \in Slots \ {i} : nodes'[k] = nodes[k]
  <2> DEFINE u == flash[a].uuid
             c == flash[a].configured
  <2>1. u \in Uuids /\ c \in BOOLEAN
    BY <1>7, Zenon
  <2>2. nodes' = [nodes EXCEPT ![i] =
                    [addr |-> a, num_elem |-> 1, uuid |-> u, configured |-> c]]
    BY <1>6, Zenon
  <2> HIDE DEF u, c
  <2>3. /\ Live(nodes') = Live(nodes) \cup {i}
        /\ nodes'[i] = [addr |-> a, num_elem |-> 1, uuid |-> u, configured |-> c]
        /\ \A k \in Slots \ {i} : nodes'[k] = nodes[k]
    BY <1>1, <1>2, <2>1, <2>2, TableFill, ZenonT(40)
  <2> QED BY <2>3, Zenon DEF u, c
<1>9. q.addr = a /\ node_val(q) = flash[a]
  BY <1>7, Zenon DEF node_val
<1>10. Items' = Items /\ Live(nodes) \subseteq Slots
  BY <1>1, Zenon DEF Items, Live
<1> HIDE DEF q
<1>11. \A k \in Live(nodes') : HasItem(k)' /\ nodes'[k].addr \notin load'
  <2>1. HasItem(i)' /\ nodes'[i].addr \notin load'
    BY <1>1, <1>8, <1>9, <1>10, Zenon DEF HasItem
  <2>2. ASSUME NEW k \in Live(nodes) PROVE HasItem(k)' /\ nodes'[k].addr \notin load'
    <3>1. nodes'[k] = nodes[k]
      BY <1>6, <1>8, <1>10, Zenon
    <3> QED BY <1>1, <1>10, <3>1, Zenon DEF Mirrors, HasItem
  <2> QED BY <1>8, <2>1, <2>2, Zenon
<1>12. \A c \in Items' \ load' : \E k \in Live(nodes') : nodes'[k].addr = c
  <2> TAKE c \in Items' \ load'
  <2>1. CASE c = a
    BY <1>8, <1>9, <2>1, Zenon
  <2>2. CASE c # a
    <3>1. PICK k \in Live(nodes) : nodes[k].addr = c
      BY <1>1, <1>10, <2>2, Zenon DEF Mirrors
    <3>2. nodes'[k] = nodes[k]
      BY <1>6, <1>8, <1>10, Zenon
    <3> QED BY <1>8, <3>1, <3>2, Zenon
  <2> QED BY <2>1, <2>2, Zenon
<1> QED BY <1>11, <1>12, Zenon DEF Mirrors

\* Every step keeps the table, the types and the progress of settings_load.
LEMMA StoreStep ==
    ASSUME OneElement, StoreInv, [Next]_vars
    PROVE  StoreInv'
<1>0. Table /\ Typed /\ Loading /\ Restoring /\ TypeOK
  BY Zenon DEF StoreInv, Typed
<1>1. ASSUME load' = {}, Table', Typed' PROVE StoreInv'
  BY <1>1, Zenon DEF StoreInv, Loading, Restoring
<1>2. CASE UNCHANGED vars
  <2>1. UNCHANGED <<nodes, prov_node, updates, pending, queued, worker, caller, flash, load, env>>
    BY <1>2, Zenon DEF vars, ram
  <2>2. Table' /\ TypeOK'
    BY <1>0, <2>1 DEF Table, TypeOK
  <2>3. Typed'
    BY <1>0, <2>1, <2>2, Zenon DEF Typed
  <2>4. Items' = Items
    BY <2>1, Zenon DEF Items
  <2>5. Loading'
    BY <1>0, <2>1, <2>4, Zenon DEF Loading
  <2>6. Restoring'
    BY <1>0, <2>1, <2>4, Zenon DEF Restoring, Mirrors, Fits, HasItem
  <2> QED BY <2>2, <2>3, <2>5, <2>6, Zenon DEF StoreInv
<1>3. ASSUME UNCHANGED env,
             \/ \E u \in Uuids, a \in Addresses, n \in 1 .. ELEM_MAX : AllocNode(u, a, n)
             \/ prov_complete \/ reset_state
      PROVE  StoreInv'
  <2>1. load' = {}
    BY <1>3, Zenon DEF AllocNode, prov_complete, reset_state, RxMay, Running
  <2> QED BY <1>0, <1>1, <1>3, <2>1, RxTyped, Zenon
<1>4. ASSUME UNCHANGED env,
             \/ \E i \in Slots : BeginConfigure(i) \/ BeginDelete(i)
             \/ CallerFinds \/ CallerSetsAddr \/ CallerMarks \/ CallerEnds
      PROVE  StoreInv'
  <2>1. load' = {}
    BY <1>4, Zenon DEF BeginConfigure, BeginDelete, CallerFinds, CallerSetsAddr, CallerMarks, CallerEnds,
       MainMay, Running
  <2> QED BY <1>0, <1>1, <1>4, <2>1, MainTyped, Zenon
<1>5. ASSUME UNCHANGED env, Worker PROVE StoreInv'
  <2>1. load' = {}
    BY <1>0, <1>5, Zenon DEF Worker, WorkerStart, WorkerScan, WorkerWrites, Running, Loading
  <2> QED BY <1>0, <1>1, <1>5, <2>1, WorkerTyped, Zenon
<1>6. ASSUME UNCHANGED env, Restart PROVE StoreInv'
  <2>1. /\ nodes' = InitNodes /\ prov_node' = NULL /\ updates' = [i \in Slots |-> NoUpdate]
        /\ pending' = FALSE /\ queued' = FALSE /\ worker' = IdleWorker /\ caller' = IdleCaller
        /\ load' = Items /\ flash' = flash
    BY <1>6, Zenon DEF Restart
  <2>2. Items' = Items /\ Items \subseteq Addresses
    BY <2>1, Zenon DEF Items
  <2>3. Table' /\ Typed' /\ Live(nodes') = {}
    <3>1. flash' \in [Addresses -> Item \cup {NoItem}] /\ load' \subseteq Addresses /\ env' \in ENVS
      BY <1>0, <1>6, <2>1, <2>2, Zenon DEF TypeOK
    <3>2. Empty'
      BY <2>1, <3>1, Zenon DEF Empty
    <3>3. (Table /\ Typed /\ Live(nodes) = {})'
      BY <3>2, EmptyTyped, PTL
    <3> QED BY <3>3, Zenon
  <2>4. Loading'
    BY <2>1, <2>2, Zenon DEF Loading, IdleWorker, IdleCaller
  <2>5. Mirrors'
    BY <2>1, <2>2, <2>3, Zenon DEF Mirrors
  <2> QED BY <2>3, <2>4, <2>5, Zenon DEF StoreInv, Restoring
<1>7. ASSUME UNCHANGED env, NEW a \in load, cdb_node_set(a) PROVE StoreInv'
  <2>1. load \subseteq Items
    BY <1>0, <1>7, Zenon DEF Loading
  <2>2. /\ load' = load \ {a}
        /\ UNCHANGED <<prov_node, updates, pending, queued, worker, caller, flash>>
    BY <1>0, <1>7, <2>1, SetFacts, Zenon
  <2>3. Items' = Items
    BY <2>2, Zenon DEF Items
  <2>4. Fits' => Mirrors'
    <3>1. Fits' => Fits
      BY <2>3, Zenon DEF Fits
    <3> QED BY <1>0, <1>7, <2>1, <3>1, LoadMirrors, Zenon DEF Restoring
  <2>5. Loading'
    BY <1>0, <1>7, <2>2, <2>3, Zenon DEF Loading
  <2> QED BY <1>0, <1>7, <2>4, <2>5, LoadTyped, Zenon DEF StoreInv, Restoring
<1> QED BY <1>2, <1>3, <1>4, <1>5, <1>6, <1>7, Zenon DEF Next, Load

\* At the start storage is empty.
LEMMA InitStore ==
    Init => StoreInv
<1> SUFFICES ASSUME Init PROVE StoreInv
  BY Zenon
<1>1. Empty /\ load = {}
  BY Zenon DEF Init, Empty
<1> QED BY <1>1, EmptyTyped, Zenon DEF StoreInv, Loading, Restoring

\* A node, from its address and its item.
LEMMA NodeOfItem ==
    ASSUME NEW r \in Node, NEW b, NEW f, r.addr = b, f = node_val(r)
    PROVE  r = [addr |-> b, num_elem |-> f.num_elem, uuid |-> f.uuid,
                configured |-> f.configured]
BY Zenon DEF node_val, Node

\* The last item is read.
LEMMA LastItem ==
    ASSUME OneElement, StoreInv, Next, load # {}, load' = {}, Fits
    PROVE  /\ \A a \in Items : \E i \in Slots :
                nodes'[i] = [addr |-> a, num_elem |-> flash[a].num_elem,
                             uuid |-> flash[a].uuid, configured |-> flash[a].configured]
           /\ {nodes'[i].addr : i \in Live(nodes')} \subseteq Items
<1>0. Table /\ Typed /\ Mirrors /\ load \subseteq Items /\ worker.phase = "idle"
  BY Zenon DEF StoreInv, Restoring, Loading
<1>1. PICK a \in load : cdb_node_set(a)
  BY <1>0, Zenon DEF Next, Load, AllocNode, prov_complete, reset_state, BeginConfigure, BeginDelete,
     CallerFinds, CallerSetsAddr, CallerMarks, CallerEnds, Worker, WorkerStart, WorkerScan,
     WorkerWrites, Restart, RxMay, MainMay, Running
<1>2. Mirrors' /\ Table' /\ flash' = flash
  <2>1. Table'
    BY <1>0, <1>1, LoadTyped, Zenon DEF StoreInv, Next
  <2> QED BY <1>0, <1>1, <2>1, LoadMirrors, SetFacts, Zenon
<1>3. Items' = Items /\ Live(nodes') \subseteq Slots
  BY <1>2, Zenon DEF Items, Live
<1>4. ASSUME NEW b \in Items
      PROVE  \E i \in Slots :
                nodes'[i] = [addr |-> b, num_elem |-> flash[b].num_elem,
                             uuid |-> flash[b].uuid, configured |-> flash[b].configured]
  <2>1. PICK i \in Live(nodes') : nodes'[i].addr = b
    BY <1>2, <1>3, Zenon DEF Mirrors
  <2>2. flash[b] = node_val(nodes'[i]) /\ i \in Slots /\ nodes'[i] \in Node
    BY <1>2, <1>3, <2>1, Zenon DEF Mirrors, HasItem, Table
  <2>3. nodes'[i] = [addr |-> b, num_elem |-> flash[b].num_elem,
                     uuid |-> flash[b].uuid, configured |-> flash[b].configured]
    BY <2>1, <2>2, NodeOfItem
  <2> QED BY <2>2, <2>3, Zenon
<1>5. {nodes'[i].addr : i \in Live(nodes')} \subseteq Items
  BY <1>2, <1>3, Zenon DEF Mirrors, HasItem
<1> QED BY <1>4, <1>5, Zenon

\* A restart at any moment restores every node that has an item, in any order of the
\* items, and nothing else (cdb_node_set), for any number of slots, addresses and
\* boards: also in the environments where stores overlap with flash writes, nodes are
\* deleted, or main configures the node of a link that is then lost.
THEOREM ItemsRestored ==
    ASSUME ELEM_MAX = 1
    PROVE  Spec => RestartRestoresItems
<1>0. OneElement
  BY Zenon DEF OneElement
<1>1. StoreInv /\ [Next]_vars => StoreInv'
  BY <1>0, StoreStep, Zenon
<1>2. StoreInv /\ [Next]_vars =>
        [/\ load # {} /\ load' = {}
         /\ Cardinality(Items) <= NODE_COUNT
         /\ UNASSIGNED \notin Items
         => /\ \A a \in Items : \E i \in Slots :
                 nodes'[i] = [addr |-> a, num_elem |-> flash[a].num_elem,
                              uuid |-> flash[a].uuid,
                              configured |-> flash[a].configured]
            /\ {nodes'[i].addr : i \in Live(nodes')} \subseteq Items]_vars
  BY <1>0, LastItem, Zenon DEF Fits
<1> QED BY <1>1, <1>2, InitStore, PTL DEF Spec, RestartRestoresItems

-----------------------------------------------------------------------------
(* Storage follows the table.                                              *)

Following == OwnedInv /\ PassInv /\ AheadInv

\* Nothing changes for the nodes that are to be in storage.
LEMMA SameStored ==
    ASSUME Following, Stored' = Stored, \A i \in Stored : nodes'[i] = nodes[i],
           UNCHANGED <<updates, pending, queued, worker, caller, flash, load>>,
           prov_node' # NULL => prov_node' \in Live(nodes')
    PROVE  Following'
<1>1. Items' = Items /\ Running' = Running /\ Fits' = Fits
  BY Zenon DEF Items, Running, Fits
<1>2. \A a : Owned(a)' <=> Owned(a)
  BY Zenon DEF Owned
<1>3. OwnedInv'
  BY <1>1, <1>2, Zenon DEF Following, OwnedInv
<1>4. PassInv'
  BY Zenon DEF Following, PassInv
<1>5. \A i \in Stored : Ahead(i) => Ahead(i)'
  BY <1>1, Zenon DEF Ahead, HasItem
<1> QED BY <1>1, <1>3, <1>4, <1>5, Zenon DEF Following, AheadInv

\* The receive thread.
LEMMA RxFollows ==
    ASSUME OneElement, StoreInv, Following, env = "calm",
           \/ \E u \in Uuids, a \in Addresses, n \in 1 .. ELEM_MAX : AllocNode(u, a, n)
           \/ prov_complete \/ reset_state
    PROVE  Following'
<1>0. /\ Table /\ Typed /\ TypeOK /\ nodes \in [Slots -> Node] /\ Live(nodes) \subseteq Slots
      /\ NULL \notin Slots
  BY NodesAssumption DEF StoreInv, Table, Typed, Live, Slots, NULL
<1>1. ASSUME NEW u \in Uuids, NEW a \in Addresses, NEW n \in 1 .. ELEM_MAX, AllocNode(u, a, n)
      PROVE  Following'
  <2> DEFINE s == alloc_slot(nodes, a, 1)
  <2>1. /\ prov_node = NULL /\ nodes' = node_alloc(nodes, u, a, 1) /\ s # NULL /\ prov_node' = s
        /\ UNCHANGED <<updates, pending, queued, worker, caller, flash, load>>
    <3>1. n = 1
      BY DEF OneElement
    <3> QED BY <1>1, <3>1, Zenon DEF AllocNode
  <2>2. /\ s \in Slots \ Live(nodes) /\ Live(nodes') = Live(nodes) \cup {s}
        /\ \A i \in Slots \ {s} : nodes'[i] = nodes[i]
    BY <1>0, <2>1, TableAlloc, Zenon
  <2> HIDE DEF s
  <2>3. Stored' = Stored /\ Stored = Live(nodes)
    BY <1>0, <2>1, <2>2, Zenon DEF Stored
  <2> QED BY <1>0, <2>1, <2>2, <2>3, SameStored, Zenon
<1>2. CASE reset_state
  <2>1. /\ prov_node \in Slots /\ nodes' = [nodes EXCEPT ![prov_node].addr = UNASSIGNED]
        /\ prov_node' = NULL
        /\ UNCHANGED <<updates, pending, queued, worker, caller, flash, load>>
    BY <1>0, <1>2, Zenon DEF reset_state, node_del, TypeOK
  <2>2. \A i \in Slots \ {prov_node} : nodes'[i] = nodes[i]
    BY <1>0, <2>1, Zenon
  <2>3. nodes'[prov_node].addr = UNASSIGNED
    BY <1>0, <2>1, Zenon DEF Node
  <2>4. Stored' = Stored
    BY <1>0, <2>1, <2>2, <2>3, Zenon DEF Stored, Live
  <2> QED BY <1>0, <2>1, <2>2, <2>4, SameStored, Zenon DEF Stored
<1>3. CASE prov_complete
  <2>a. PICK p \in Live(nodes) : p = prov_node
    BY <1>3, Zenon DEF prov_complete, Following, OwnedInv
  <2>b. PICK a : a = nodes[p].addr
    BY Zenon
  <2> DEFINE j == cdb_node_update_find(updates, a)
  <2>1. /\ prov_node' = NULL /\ worker.phase = "idle" /\ load = {}
        /\ UNCHANGED <<nodes, worker, caller, load>>
        /\ bt_mesh_store_cdb_node(nodes[p])
    BY <1>3, <2>a, Zenon DEF prov_complete, RxMay, FLASH_BLOCKS, Running
  <2>2. a \in Addresses /\ a # UNASSIGNED /\ node_val(nodes[p]) \in Item
    <3>1. p \in Slots /\ nodes[p].num_elem = 1
      BY <1>0, <2>a, Zenon DEF Table
    <3>2. node_val(nodes[p]) \in Item
      BY <1>0, <3>1, ItemOf, Zenon
    <3> QED BY <1>0, <2>b, <3>1, <3>2, Zenon DEF Live, Node, Addresses
  <2>3. Stored' = Live(nodes) /\ Stored \subseteq Live(nodes) /\ p \notin Stored
    BY <1>0, <2>1, <2>a, Zenon DEF Stored
  <2>4. \A b : Owned(b) => Owned(b)'
    BY <2>1, <2>3, Zenon DEF Owned
  <2>5. Owned(a)'
    BY <2>1, <2>3, <2>b, Zenon DEF Owned
  <2>6. NoItem \notin Item
    BY DEF NoItem, Item
  <2>7. CASE j = NULL
    <3>1. /\ flash' = [flash EXCEPT ![a] = node_val(nodes[p])]
          /\ UNCHANGED <<updates, pending, queued>>
      BY <2>1, <2>7, <2>b, Zenon DEF bt_mesh_store_cdb_node
    <3>2. flash'[a] = node_val(nodes[p]) /\ \A b \in Addresses \ {a} : flash'[b] = flash[b]
      BY <1>0, <2>2, <3>1, Zenon DEF TypeOK
    <3>3. Items' = Items \cup {a}
      BY <2>2, <2>6, <3>2, Zenon DEF Items
    <3>4. OwnedInv'
      <4>1. flash'[UNASSIGNED] = NoItem
        <5>1. flash[UNASSIGNED] = NoItem
          BY Zenon DEF Following, OwnedInv
        <5>2. UNASSIGNED \in Addresses \ {a}
          BY <2>2, NodesAssumption DEF Addresses, UNASSIGNED
        <5> QED BY <3>2, <5>1, <5>2, Zenon
      <4>2. caller.slot \in Stored => caller.slot \in Stored'
        BY <2>3, Zenon
      <4> QED BY <2>1, <2>4, <2>5, <3>1, <3>3, <4>1, <4>2, Zenon DEF Following, OwnedInv, Running
    <3>5. PassInv'
      BY <2>1, <3>1, Zenon DEF Following, PassInv
    <3>6. \A i \in Stored : Ahead(i) => Ahead(i)'
      <4> TAKE i \in Stored
      <4>1. nodes[i].addr # a /\ nodes[i].addr \in Addresses
        BY <1>0, <2>3, <2>b, Zenon DEF Table, Node, Addresses
      <4>2. HasItem(i) => HasItem(i)'
        BY <2>1, <3>2, <3>3, <4>1, Zenon DEF HasItem
      <4> QED BY <2>1, <3>1, <4>2, Zenon DEF Ahead
    <3>7. Ahead(p)'
      BY <2>1, <2>b, <3>2, <3>3, Zenon DEF Ahead, HasItem
    <3> QED BY <2>1, <2>3, <2>a, <3>4, <3>5, <3>6, <3>7, Zenon DEF Following, AheadInv, Running, Stored
  <2>8. CASE j # NULL
    <3>1. /\ updates' = [updates EXCEPT ![j] = [addr |-> a, clear |-> FALSE]]
          /\ pending' = TRUE /\ queued' = TRUE /\ flash' = flash
      BY <2>1, <2>8, <2>b, Zenon DEF bt_mesh_store_cdb_node, schedule_cdb_store
    <3>2. j \in Slots /\ updates[j].addr \in {a, UNASSIGNED}
      BY <1>0, <2>2, <2>8, UpdateFind, Zenon
    <3> HIDE DEF j
    <3>3. /\ updates'[j].addr = a /\ updates'[j].clear = FALSE
          /\ \A k \in Slots \ {j} : updates'[k] = updates[k]
      BY <1>0, <3>1, <3>2, Zenon DEF TypeOK
    <3>4. Items' = Items
      BY <3>1, Zenon DEF Items
    <3>5. OwnedInv'
      <4>1. \A k \in Slots : updates'[k].addr # UNASSIGNED => Owned(updates[k].addr)'
        BY <2>4, <2>5, <3>3, Zenon DEF Following, OwnedInv
      <4>2. caller.slot \in Stored => caller.slot \in Stored'
        BY <2>3, Zenon
      <4> QED BY <2>1, <2>4, <3>1, <3>4, <4>1, <4>2, Zenon DEF Following, OwnedInv, Running
    <3>6. PassInv'
      BY <2>1, <3>1, <3>2, <3>3, Zenon DEF Following, PassInv
    <3>7. \A i \in Stored : Ahead(i) => Ahead(i)'
      <4> TAKE i \in Stored
      <4>1. HasItem(i) => HasItem(i)'
        BY <2>1, <3>1, <3>4, Zenon DEF HasItem
      <4>2. nodes[i].addr # UNASSIGNED
        BY <2>3, Zenon DEF Live
      <4>3. (\E k \in Slots : updates[k].addr = nodes[i].addr) =>
              \E k \in Slots : updates'[k].addr = nodes'[i].addr
        BY <2>1, <3>2, <3>3, <4>2, Zenon
      <4> QED BY <2>1, <4>1, <4>3, Zenon DEF Ahead
    <3>8. Ahead(p)'
      BY <2>1, <2>b, <3>2, <3>3, Zenon DEF Ahead
    <3> QED BY <2>1, <2>3, <2>a, <3>5, <3>6, <3>7, <3>8, Zenon DEF Following, AheadInv, Running, Stored
  <2> QED BY <2>7, <2>8, Zenon
<1> QED BY <1>1, <1>2, <1>3, Zenon

\* The main thread sets the flag of a node, and stores it.
LEMMA MainFollows ==
    ASSUME OneElement, StoreInv, Following, env = "calm",
           \/ \E i \in Slots : BeginConfigure(i) \/ BeginDelete(i)
           \/ CallerFinds \/ CallerSetsAddr \/ CallerMarks \/ CallerEnds
    PROVE  Following'
<1>0. /\ Table /\ Typed /\ TypeOK /\ nodes \in [Slots -> Node] /\ Live(nodes) \subseteq Slots
      /\ Stored \subseteq Live(nodes)
  BY Zenon DEF StoreInv, Table, Typed, Live, Stored
<1>1. load = {} /\ worker.phase = "idle" /\ ~queued /\ UNCHANGED <<prov_node, worker, load>>
  BY Zenon DEF BeginConfigure, BeginDelete, CallerFinds, CallerSetsAddr, CallerMarks, CallerEnds,
     MainMay, FLASH_BLOCKS, Running
<1>2. /\ \A j \in Slots : \/ updates[j].addr = UNASSIGNED
                          \/ caller.step = "mark" /\ j = caller.at
      /\ \A j \in Slots : updates[j].clear = FALSE
  BY <1>1, Zenon DEF Following, PassInv
<1>3. \A i \in Stored : nodes[i].addr # UNASSIGNED /\ nodes[i].addr \in Addresses
  BY <1>0, Zenon DEF Live, Node, Addresses
<1>4. ASSUME NEW i \in Slots, BeginConfigure(i) PROVE Following'
  <2>1. /\ i \in Stored /\ nodes' = [nodes EXCEPT ![i].configured = TRUE]
        /\ caller' = [step |-> "find", slot |-> i, clear |-> FALSE, at |-> 0]
        /\ caller.step = "idle"
        /\ UNCHANGED <<updates, pending, queued, flash>>
    BY <1>4, Zenon DEF BeginConfigure, EARLY, Stored
  <2>2. \A k \in Slots : nodes'[k].addr = nodes[k].addr /\ (k # i => nodes'[k] = nodes[k])
    BY <1>0, <2>1, Zenon DEF Node
  <2>3. Live(nodes') = Live(nodes) /\ Stored' = Stored
    BY <1>1, <2>2, Zenon DEF Live, Stored
  <2>4. \A a : Owned(a)' <=> Owned(a)
    BY <1>0, <2>2, <2>3, Zenon DEF Owned
  <2>5. Items' = Items
    BY <2>1, Zenon DEF Items
  <2>6. OwnedInv'
    BY <1>1, <2>1, <2>3, <2>4, <2>5, Zenon DEF Following, OwnedInv, Running
  <2>7. PassInv'
    BY <1>1, <1>2, <2>1, Zenon DEF Following, PassInv
  <2>8. \A k \in Stored : Ahead(k)'
    <3>1. Ahead(i)'
      BY <2>1, Zenon DEF Ahead
    <3>2. ASSUME NEW k \in Stored, k # i PROVE Ahead(k)'
      <4>1. nodes'[k] = nodes[k]
        BY <1>0, <2>2, <3>2, Zenon
      <4>2. HasItem(k)
        BY <1>1, <1>2, <1>3, <2>1, Zenon DEF Following, AheadInv, Ahead, Running
      <4>3. HasItem(k)'
        BY <2>1, <2>5, <4>1, <4>2 DEF HasItem
      <4> QED BY <4>3, Zenon DEF Ahead
    <3> QED BY <3>1, <3>2, Zenon
  <2> QED BY <2>3, <2>6, <2>7, <2>8, Zenon DEF Following, AheadInv
<1>5. ASSUME NEW i \in Slots, BeginDelete(i) PROVE Following'
  BY <1>5, Zenon DEF BeginDelete, DELETES
<1>6. ASSUME UNCHANGED nodes, \A a \in Items' : a \in Items \/ Owned(a),
             flash'[UNASSIGNED] = NoItem,
             \A j \in Slots : updates'[j].addr # UNASSIGNED => Owned(updates[j].addr)',
             caller'.step # "idle" => caller'.slot \in Stored /\ caller'.clear = FALSE
      PROVE  OwnedInv' /\ Stored' = Stored
  <2>1. Stored' = Stored /\ \A a : Owned(a)' <=> Owned(a)
    BY <1>1, <1>6, Zenon DEF Stored, Owned
  <2> QED BY <1>1, <1>6, <2>1, Zenon DEF Following, OwnedInv, Running
<1>7. CASE CallerFinds
  <2> DEFINE t == caller.slot
             a == nodes[t].addr
             j == cdb_node_update_find(updates, a)
  <2>1. /\ caller.step = "find" /\ UNCHANGED <<nodes, updates, pending, queued>>
        /\ t \in Stored /\ caller.clear = FALSE
    BY <1>7, Zenon DEF CallerFinds, Following, OwnedInv
  <2>2. a \in Addresses /\ a # UNASSIGNED /\ node_val(nodes[t]) \in Item
    BY <1>0, <1>3, <2>1, ItemOf, Zenon DEF Table
  <2>3. NoItem \notin Item
    BY DEF NoItem, Item
  <2>4. \A k \in Slots : updates[k].addr = UNASSIGNED
    BY <1>2, <2>1, Zenon
  <2>5. PassInv'
    BY <1>1, <2>1, <2>4, Zenon DEF Following, PassInv
  <2>6. CASE j = NULL
    <3>1. /\ caller' = [caller EXCEPT !.step = "end"]
          /\ flash' = [flash EXCEPT ![a] = node_val(nodes[t])]
      BY <1>7, <2>1, <2>6, Zenon DEF CallerFinds, Target
    <3>2. flash'[a] = node_val(nodes[t]) /\ \A b \in Addresses \ {a} : flash'[b] = flash[b]
      BY <1>0, <2>2, <3>1, Zenon DEF TypeOK
    <3>3. Items' = Items \cup {a}
      BY <2>2, <2>3, <3>2, Zenon DEF Items
    <3>4. OwnedInv' /\ Stored' = Stored
      <4>1. \A b \in Items' : b \in Items \/ Owned(b)
        BY <2>1, <3>3, Zenon DEF Owned
      <4>2. flash'[UNASSIGNED] = NoItem
        <5>1. flash[UNASSIGNED] = NoItem
          BY Zenon DEF Following, OwnedInv
        <5>2. UNASSIGNED \in Addresses \ {a}
          BY <2>2, NodesAssumption DEF Addresses, UNASSIGNED
        <5> QED BY <3>2, <5>1, <5>2, Zenon
      <4>3. caller'.slot = t /\ caller'.clear = FALSE
        BY <1>0, <2>1, <3>1, Zenon DEF TypeOK
      <4> QED BY <1>6, <2>1, <2>4, <4>1, <4>2, <4>3, Zenon
    <3>5. ASSUME NEW i \in Stored PROVE Ahead(i)'
      <4>1. CASE i = t
        BY <2>1, <3>2, <3>3, <4>1, Zenon DEF Ahead, HasItem
      <4>2. CASE i # t
        <5>1. nodes[i].addr # a /\ nodes[i].addr \in Addresses
          BY <1>0, <1>3, <2>1, <4>2, Zenon DEF Table
        <5>2. HasItem(i)
          BY <1>1, <1>3, <2>4, <4>2, Zenon DEF Following, AheadInv, Ahead, Running
        <5>3. HasItem(i)'
          BY <2>1, <3>2, <3>3, <5>1, <5>2, Zenon DEF HasItem
        <5> QED BY <5>3, Zenon DEF Ahead
      <4> QED BY <4>1, <4>2, Zenon
    <3> QED BY <2>5, <3>4, <3>5, Zenon DEF Following, AheadInv
  <2>7. CASE j # NULL
    <3>1. j \in Slots /\ updates[j].addr # a
      BY <1>0, <2>2, <2>4, <2>7, UpdateFind, Zenon
    <3>2. caller' = [caller EXCEPT !.at = j, !.step = "addr"] /\ flash' = flash
      BY <1>7, <2>7, <3>1, Zenon DEF CallerFinds, Target
    <3> HIDE DEF j
    <3>3. caller'.step = "addr" /\ caller'.slot = t /\ caller'.clear = FALSE
      BY <1>0, <2>1, <3>2, Zenon DEF TypeOK
    <3>4. Items' = Items /\ flash'[UNASSIGNED] = NoItem
      BY <3>2, Zenon DEF Items, Following, OwnedInv
    <3>5. OwnedInv' /\ Stored' = Stored
      BY <1>6, <2>1, <2>4, <3>3, <3>4, Zenon
    <3>6. ASSUME NEW i \in Stored PROVE Ahead(i)'
      <4>1. HasItem(i) => HasItem(i)'
        BY <2>1, <3>2, <3>4, Zenon DEF HasItem
      <4>2. HasItem(i) \/ i = t
        BY <1>1, <1>3, <2>4, Zenon DEF Following, AheadInv, Ahead, Running
      <4> QED BY <3>3, <4>1, <4>2, Zenon DEF Ahead
    <3> QED BY <2>5, <3>5, <3>6, Zenon DEF Following, AheadInv
  <2> QED BY <2>6, <2>7, Zenon
<1>8. CASE CallerSetsAddr
  <2>0. PICK c \in Slots : c = caller.at
    BY <1>0, Zenon DEF TypeOK
  <2>1. /\ caller.step = "addr" /\ caller' = [caller EXCEPT !.step = "mark"]
        /\ updates' = [updates EXCEPT ![c].addr = nodes[caller.slot].addr]
        /\ UNCHANGED <<nodes, pending, queued, flash>>
        /\ caller.slot \in Stored /\ caller.clear = FALSE
    BY <1>8, <2>0, Zenon DEF CallerSetsAddr, Target, Following, OwnedInv
  <2>2. /\ caller'.step = "mark" /\ caller'.slot = caller.slot
        /\ caller'.clear = FALSE /\ caller'.at = c
    BY <1>0, <2>0, <2>1, Zenon DEF TypeOK
  <2>3. /\ updates'[c].addr = nodes[caller.slot].addr /\ updates'[c].clear = FALSE
        /\ \A k \in Slots \ {c} : updates'[k] = updates[k] /\ updates[k].addr = UNASSIGNED
    BY <1>0, <1>2, <2>0, <2>1 DEF TypeOK
  <2>4. Items' = Items /\ flash'[UNASSIGNED] = NoItem
    BY <2>1, Zenon DEF Items, Following, OwnedInv
  <2>5. OwnedInv' /\ Stored' = Stored
    <3>1. \A k \in Slots : updates'[k].addr # UNASSIGNED =>
                             updates'[k].addr = nodes[caller.slot].addr
      BY <2>3, Zenon
    <3>2. Stored' = Stored
      BY <1>1, <2>1, Zenon DEF Stored
    <3>3. \A k \in Slots : updates'[k].addr # UNASSIGNED => Owned(updates[k].addr)'
      BY <2>1, <3>1, <3>2, Zenon DEF Owned
    <3> QED BY <1>6, <2>1, <2>2, <2>4, <3>3, Zenon
  <2>6. PassInv'
    BY <1>1, <1>2, <2>1, <2>2, <2>3 DEF Following, PassInv
  <2>7. ASSUME NEW i \in Stored PROVE Ahead(i)'
    <3>1. HasItem(i) => HasItem(i)'
      BY <2>1, <2>4, Zenon DEF HasItem
    <3>2. HasItem(i) \/ i = caller.slot
      BY <1>1, <1>2, <1>3, <2>1, Zenon DEF Following, AheadInv, Ahead, Running
    <3>3. i = caller.slot => updates'[c].addr = nodes'[i].addr
      BY <2>1, <2>3, Zenon
    <3> QED BY <2>0, <3>1, <3>2, <3>3, Zenon DEF Ahead
  <2> QED BY <2>5, <2>6, <2>7, Zenon DEF Following, AheadInv
<1>9. CASE CallerMarks
  <2>0. PICK c \in Slots : c = caller.at
    BY <1>0, Zenon DEF TypeOK
  <2>1. /\ caller.step = "mark" /\ caller' = [caller EXCEPT !.step = "end"]
        /\ updates' = [updates EXCEPT ![c].clear = caller.clear]
        /\ pending' = TRUE /\ queued' = TRUE /\ UNCHANGED <<nodes, flash>>
        /\ caller.slot \in Stored /\ caller.clear = FALSE
    BY <1>9, <2>0, Zenon DEF CallerMarks, schedule_cdb_store, Following, OwnedInv
  <2>2. caller'.step = "end" /\ caller'.slot = caller.slot /\ caller'.clear = FALSE
    BY <1>0, <2>1, Zenon DEF TypeOK
  <2>3. \A k \in Slots : updates'[k].addr = updates[k].addr /\ updates'[k].clear = FALSE
    BY <1>0, <1>2, <2>0, <2>1 DEF TypeOK
  <2>4. Items' = Items /\ flash'[UNASSIGNED] = NoItem
    BY <2>1, Zenon DEF Items, Following, OwnedInv
  <2>5. OwnedInv' /\ Stored' = Stored
    <3>1. Stored' = Stored
      BY <1>1, <2>1, Zenon DEF Stored
    <3>2. \A k \in Slots : updates'[k].addr # UNASSIGNED => Owned(updates[k].addr)'
      BY <2>1, <2>3, <3>1 DEF Owned, Following, OwnedInv
    <3> QED BY <1>6, <2>1, <2>2, <2>4, <3>2, Zenon
  <2>6. PassInv'
    BY <1>1, <2>1, <2>3, Zenon DEF Following, PassInv
  <2>7. ASSUME NEW i \in Stored PROVE Ahead(i)'
    <3>1. HasItem(i) => HasItem(i)'
      BY <2>1, <2>4, Zenon DEF HasItem
    <3> QED BY <1>1, <2>1, <2>3, <3>1 DEF Following, AheadInv, Ahead, Running
  <2> QED BY <2>5, <2>6, <2>7, Zenon DEF Following, AheadInv
<1>10. CASE CallerEnds
  <2>1. /\ caller.step = "end" /\ caller' = IdleCaller
        /\ UNCHANGED <<nodes, updates, pending, queued, flash>>
    BY <1>10, Zenon DEF CallerEnds, Following, OwnedInv
  <2>2. caller'.step = "idle"
    BY <2>1, Zenon DEF IdleCaller
  <2>3. Items' = Items /\ flash'[UNASSIGNED] = NoItem
    BY <2>1, Zenon DEF Items, Following, OwnedInv
  <2>4. OwnedInv' /\ Stored' = Stored
    <3>1. \A k \in Slots : updates'[k].addr = UNASSIGNED
      BY <1>2, <2>1, Zenon
    <3> QED BY <1>6, <2>1, <2>2, <2>3, <3>1, Zenon
  <2>5. PassInv'
    BY <1>1, <1>2, <2>1, Zenon DEF Following, PassInv
  <2>6. ASSUME NEW i \in Stored PROVE Ahead(i)'
    <3>1. HasItem(i) => HasItem(i)'
      BY <2>1, <2>3, Zenon DEF HasItem
    <3> QED BY <1>1, <2>1, <3>1, Zenon DEF Following, AheadInv, Ahead, Running
  <2> QED BY <2>4, <2>5, <2>6, Zenon DEF Following, AheadInv
<1> QED BY <1>4, <1>5, <1>7, <1>8, <1>9, <1>10, Zenon

\* The work queue writes what its updates stand for.
LEMMA WorkerFollows ==
    ASSUME OneElement, StoreInv, Following, Worker
    PROVE  Following'
<1>0. /\ Table /\ Typed /\ TypeOK /\ nodes \in [Slots -> Node] /\ Live(nodes) \subseteq Slots
      /\ Stored \subseteq Live(nodes) /\ Stored' = Stored
      /\ UNCHANGED <<nodes, prov_node, caller, load>> /\ load = {}
  BY Zenon DEF StoreInv, Table, Typed, Live, Stored, Worker, WorkerStart, WorkerScan, WorkerWrites,
     Running, Loading
<1>1. \A i \in Stored : nodes[i].addr # UNASSIGNED /\ nodes[i].addr \in Addresses
  BY <1>0, Zenon DEF Live, Node, Addresses
<1>2. \A a : Owned(a)' <=> Owned(a)
  BY <1>0, Zenon DEF Owned
<1>3. NODE_COUNT \in Nat /\ Slots = 0 .. NODE_COUNT - 1 /\ worker.i \in 0 .. NODE_COUNT
  BY <1>0, NodesAssumption, Zenon DEF Slots, TypeOK
<1>4. ASSUME UNCHANGED <<updates, flash>> PROVE OwnedInv' /\ AheadInv'
  <2>1. Items' = Items
    BY <1>4, Zenon DEF Items
  <2>2. OwnedInv'
    BY <1>0, <1>2, <1>4, <2>1, Zenon DEF Following, OwnedInv, Running
  <2>3. \A i \in Stored : Ahead(i) => Ahead(i)'
    BY <1>0, <1>4, <2>1, Zenon DEF Ahead, HasItem
  <2> QED BY <1>0, <2>2, <2>3, Zenon DEF Following, AheadInv, Running
<1>5. CASE WorkerStart
  <2>1. /\ worker' = [IdleWorker EXCEPT !.phase = "scan"] /\ queued' = FALSE
        /\ UNCHANGED <<updates, flash>>
    BY <1>5, Zenon DEF WorkerStart, Following, PassInv
  <2>2. worker'.phase = "scan" /\ worker'.i = 0
    BY <2>1, Zenon DEF IdleWorker
  <2>3. PassInv'
    BY <1>3, <2>1, <2>2 DEF Following, PassInv
  <2> QED BY <1>4, <2>1, <2>3, Zenon DEF Following
<1>6. CASE WorkerScan
  <2>0. worker.phase = "scan" /\ ~queued /\ UNCHANGED <<pending, queued, flash>>
    BY <1>6, Zenon DEF WorkerScan, Following, PassInv
  <2>1. CASE worker.i = NODE_COUNT
    <3>1. worker' = IdleWorker /\ worker'.phase = "idle" /\ UNCHANGED updates
      BY <1>6, <2>1 DEF WorkerScan, IdleWorker
    <3>2. \A j \in Slots : updates[j].addr = UNASSIGNED
      BY <1>3, <2>0, <2>1 DEF Following, PassInv
    <3>3. PassInv'
      BY <2>0, <3>1, <3>2, Zenon DEF Following, PassInv
    <3> QED BY <1>4, <2>0, <3>1, <3>3, Zenon DEF Following
  <2>2. CASE worker.i # NODE_COUNT
    <3> DEFINE u == updates[worker.i]
               node == node_get(nodes, u.addr)
    <3>1. worker.i \in Slots /\ u.addr \in Addresses /\ u.clear = FALSE
      BY <1>0, <1>3, <2>2 DEF TypeOK, Following, PassInv, Addresses
    <3>2. CASE u.addr = UNASSIGNED
      <4>1. worker' = NextUpdate /\ UNCHANGED updates
        BY <1>6, <2>2, <3>2, Zenon DEF WorkerScan
      <4>2. worker'.phase = "scan" /\ worker'.i = worker.i + 1
        BY <4>1, Zenon DEF NextUpdate, IdleWorker
      <4>3. \A j \in Slots : j < worker.i + 1 => updates[j].addr = UNASSIGNED
        <5>1. \A j \in Slots : j < worker.i => updates[j].addr = UNASSIGNED
          BY <2>0, Zenon DEF Following, PassInv
        <5>2. \A j \in Slots : j < worker.i + 1 => j < worker.i \/ j = worker.i
          BY <1>3, <3>1
        <5> QED BY <3>2, <5>1, <5>2, Zenon
      <4>4. PassInv'
        BY <2>0, <4>1, <4>2, <4>3, Zenon DEF Following, PassInv
      <4> QED BY <1>4, <2>0, <4>1, <4>4, Zenon DEF Following
    <3>3. CASE u.addr # UNASSIGNED
      <4>1. PICK k \in Stored : nodes[k].addr = u.addr
        BY <3>1, <3>3, Zenon DEF Following, OwnedInv, Owned
      <4>2. node = k /\ k \in Live(nodes)
        BY <1>0, <3>1, <3>3, <4>1, NodeGet, Zenon
      <4>3. node # NULL
        BY <1>0, <4>2, NodesAssumption DEF Slots, NULL
      <4>4. /\ UNCHANGED updates
            /\ worker' = [worker EXCEPT !.phase = "write", !.addr = nodes[node].addr,
                                        !.item = node_val(nodes[node])]
        BY <1>6, <2>2, <3>1, <3>3, <4>3, Zenon DEF WorkerScan
      <4>5. /\ worker'.phase = "write" /\ worker'.i = worker.i /\ worker'.addr = nodes[k].addr
            /\ worker'.item = node_val(nodes[k])
        BY <1>0, <4>2, <4>4, Zenon DEF TypeOK
      <4>6. PassInv'
        BY <1>0, <2>0, <3>1, <4>1, <4>4, <4>5, Zenon DEF Following, PassInv
      <4> QED BY <1>4, <2>0, <4>4, <4>6, Zenon DEF Following
    <3> QED BY <3>2, <3>3, Zenon
  <2> QED BY <2>1, <2>2, Zenon
<1>7. CASE WorkerWrites
  <2>1. PICK w \in Slots, a \in Addresses : w = worker.i /\ a = worker.addr
    BY <1>0, <1>7, Zenon DEF WorkerWrites, Typed, TypeOK, Addresses
  <2>2. PICK k \in Stored : nodes[k].addr = a /\ worker.item = node_val(nodes[k])
    BY <1>7, <2>1, Zenon DEF WorkerWrites, Following, PassInv
  <2>3. /\ worker.phase = "write" /\ ~queued /\ UNCHANGED <<pending, queued>>
        /\ updates[w].addr = a /\ worker' = NextUpdate
        /\ flash' = [flash EXCEPT ![a] = node_val(nodes[k])]
        /\ updates' = [updates EXCEPT ![w].addr = UNASSIGNED]
    BY <1>7, <2>1, <2>2, Zenon DEF WorkerWrites, Following, PassInv
  <2>4. flash'[a] = node_val(nodes[k]) /\ \A b \in Addresses \ {a} : flash'[b] = flash[b]
    BY <1>0, <2>3, Zenon DEF TypeOK
  <2>5. /\ updates'[w].addr = UNASSIGNED /\ updates'[w].clear = FALSE
        /\ \A j \in Slots \ {w} : updates'[j] = updates[j]
    BY <1>0, <2>3, Zenon DEF TypeOK, Following, PassInv
  <2>6. worker'.phase = "scan" /\ worker'.i = w + 1
    BY <2>1, <2>3, Zenon DEF NextUpdate, IdleWorker
  <2>7. Items' = Items \cup {a} /\ a # UNASSIGNED
    <3>1. node_val(nodes[k]) \in Item
      BY <1>0, <2>2, ItemOf, Zenon DEF Table
    <3>2. NoItem \notin Item
      BY DEF NoItem, Item
    <3> QED BY <1>1, <2>2, <2>4, <3>1, <3>2, Zenon DEF Items
  <2>8. OwnedInv'
    <3>1. Owned(a)
      BY <2>2, Zenon DEF Owned
    <3>2. flash'[UNASSIGNED] = NoItem
      BY <2>4, <2>7, NodesAssumption DEF Following, OwnedInv, Addresses, UNASSIGNED
    <3>3. \A j \in Slots : updates'[j].addr # UNASSIGNED => Owned(updates[j].addr)'
      BY <1>0, <2>5 DEF Following, OwnedInv, Owned
    <3> QED BY <1>0, <1>2, <2>7, <3>1, <3>2, <3>3, Zenon DEF Following, OwnedInv, Running
  <2>9. PassInv'
    <3>1. \A j \in Slots : j < w + 1 => updates'[j].addr = UNASSIGNED
      BY <1>3, <2>1, <2>3, <2>5 DEF Following, PassInv
    <3> QED BY <2>3, <2>5, <2>6, <3>1, Zenon DEF Following, PassInv
  <2>10. ASSUME NEW i \in Stored PROVE Ahead(i)'
    <3>1. CASE i = k
      BY <1>0, <2>2, <2>4, <2>7, <3>1, Zenon DEF Ahead, HasItem
    <3>2. CASE i # k
      <4>1. nodes[i].addr # a /\ nodes[i].addr \in Addresses
        BY <1>0, <1>1, <2>2, <3>2, Zenon DEF Table
      <4>2. HasItem(i) => HasItem(i)'
        BY <1>0, <2>4, <2>7, <4>1, Zenon DEF HasItem
      <4>3. \A j \in Slots : updates[j].addr = nodes[i].addr => updates'[j].addr = nodes'[i].addr
        BY <1>0, <2>3, <2>5, <4>1, Zenon
      <4> QED BY <1>0, <4>2, <4>3, Zenon DEF Following, AheadInv, Ahead, Running
    <3> QED BY <3>1, <3>2, Zenon
  <2> QED BY <1>0, <2>8, <2>9, <2>10, Zenon DEF Following, AheadInv
<1> QED BY <1>5, <1>6, <1>7, Zenon DEF Worker

\* The items of nodes of the table are not more than its slots.
LEMMA OwnedFit ==
    ASSUME Table, \A a \in Items : Owned(a), UNASSIGNED \notin Items
    PROVE  Fits
<1> SUFFICES ASSUME ~(Cardinality(Items) <= NODE_COUNT) PROVE FALSE
  BY Zenon DEF Fits
<1> DEFINE f == [a \in Items |-> CHOOSE i \in Stored : nodes[i].addr = a]
<1>1. \A a \in Items : f[a] \in Stored /\ nodes[f[a]].addr = a
  BY Zenon DEF Owned
<1>2. f \in [Items -> Slots]
  BY <1>1, Zenon DEF Stored, Live
<1> HIDE DEF f
<1>3. Cardinality(Slots) < Cardinality(Items)
  BY Finite
<1>4. \E a, b \in Items : a # b /\ f[a] = f[b]
  BY <1>2, <1>3, Finite, FS_PigeonHole, Zenon
<1> QED BY <1>1, <1>4, Zenon

\* A restart drops all updates.
LEMMA RestartFollows ==
    ASSUME StoreInv, Following, Restart
    PROVE  Following'
<1>1. /\ nodes' = InitNodes /\ prov_node' = NULL /\ updates' = [i \in Slots |-> NoUpdate]
      /\ pending' = FALSE /\ queued' = FALSE /\ worker' = IdleWorker /\ caller' = IdleCaller
      /\ load' = Items /\ flash' = flash /\ Running
  BY Zenon DEF Restart
<1>2. Items' = Items
  BY <1>1, Zenon DEF Items
<1>3. Stored' = {}
  BY <1>1, Zenon DEF Stored, Live, InitNodes
<1>4. \A j \in Slots : updates'[j].addr = UNASSIGNED /\ updates'[j].clear = FALSE
  BY <1>1, Zenon DEF NoUpdate
<1>5. worker'.phase = "idle" /\ caller'.step = "idle"
  BY <1>1, Zenon DEF IdleWorker, IdleCaller
<1>6. Fits'
  <2>1. UNASSIGNED \notin Items
    BY Zenon DEF Items, Following, OwnedInv
  <2>2. Fits
    BY <1>1, <2>1, OwnedFit, Zenon DEF StoreInv, Following, OwnedInv
  <2> QED BY <1>2, <2>2, Zenon DEF Fits
<1>7. OwnedInv'
  BY <1>1, <1>2, <1>4, <1>5, <1>6, Zenon DEF Following, OwnedInv, Running
<1>8. PassInv'
  BY <1>1, <1>4, <1>5, Zenon DEF PassInv
<1> QED BY <1>3, <1>7, <1>8, Zenon DEF Following, AheadInv

\* settings_load ends with the nodes that are stored.
LEMMA LoadFollows ==
    ASSUME OneElement, StoreInv, Following, NEW a \in load, cdb_node_set(a)
    PROVE  Following'
<1>0. /\ Table /\ Typed /\ load \subseteq Items /\ worker.phase = "idle" /\ caller.step = "idle"
      /\ prov_node = NULL /\ ~queued /\ \A j \in Slots : updates[j] = NoUpdate
  BY Zenon DEF StoreInv, Loading
<1>1. Fits /\ Mirrors
  BY Zenon DEF Following, OwnedInv, Running, StoreInv, Restoring
<1>2. /\ Mirrors' /\ load' = load \ {a}
      /\ UNCHANGED <<prov_node, updates, pending, queued, worker, caller, flash>>
  BY <1>0, <1>1, LoadMirrors, SetFacts, Zenon
<1>3. Items' = Items /\ Fits'
  BY <1>1, <1>2, Zenon DEF Items, Fits
<1>4. \A j \in Slots : updates[j].addr = UNASSIGNED /\ updates[j].clear = FALSE
  BY <1>0 DEF NoUpdate
<1>5. Stored' = Live(nodes')
  BY <1>0, <1>2, NodesAssumption DEF Stored, Live, Slots, NULL
<1>6. load' = {} => \A b \in Items' : Owned(b)'
  BY <1>2, <1>3, <1>5, Zenon DEF Mirrors, Owned
<1>7. OwnedInv'
  BY <1>0, <1>2, <1>3, <1>4, <1>6, Zenon DEF Following, OwnedInv, Running
<1>8. PassInv'
  BY <1>0, <1>2, <1>4, Zenon DEF PassInv
<1>9. \A i \in Stored' : Ahead(i)'
  BY <1>2, <1>5, Zenon DEF Mirrors, Ahead
<1> QED BY <1>7, <1>8, <1>9, Zenon DEF Following, AheadInv

\* Every step, when flash writes keep the processor.
LEMMA FollowingStep ==
    ASSUME OneElement, StoreInv, CalmInv, [Next]_vars
    PROVE  CalmInv'
<1>0. env' = env
  BY Zenon DEF Next, vars
<1> SUFFICES ASSUME env = "calm", Following PROVE Following'
  BY <1>0, Zenon DEF CalmInv, Following
<1>1. CASE UNCHANGED vars
  <2>1. Stored' = Stored /\ Live(nodes') = Live(nodes)
    BY <1>1, Zenon DEF vars, ram, Stored
  <2> QED BY <1>1, <2>1, SameStored, Zenon DEF vars, ram, Following, OwnedInv
<1>2. CASE \/ \E u \in Uuids, a \in Addresses, n \in 1 .. ELEM_MAX : AllocNode(u, a, n)
           \/ prov_complete \/ reset_state
  BY <1>2, RxFollows, Zenon
<1>3. CASE \/ \E i \in Slots : BeginConfigure(i) \/ BeginDelete(i)
           \/ CallerFinds \/ CallerSetsAddr \/ CallerMarks \/ CallerEnds
  BY <1>3, MainFollows, Zenon
<1>4. CASE Worker
  BY <1>4, WorkerFollows, Zenon
<1>5. CASE Restart
  BY <1>5, RestartFollows, Zenon
<1>6. CASE Load
  BY <1>6, LoadFollows, Zenon DEF Load
<1> QED BY <1>1, <1>2, <1>3, <1>4, <1>5, <1>6, Zenon DEF Next

\* At the start there is nothing to store.
LEMMA InitFollows ==
    Init => CalmInv
<1> SUFFICES ASSUME Init PROVE OwnedInv /\ PassInv /\ AheadInv
  BY Zenon DEF CalmInv
<1>1. Items = {} /\ UNASSIGNED \in Addresses /\ flash[UNASSIGNED] = NoItem
  BY NodesAssumption DEF Init, Items, Addresses, UNASSIGNED
<1>2. Stored = {}
  BY Zenon DEF Init, Stored, Live, InitNodes
<1>3. \A j \in Slots : updates[j].addr = UNASSIGNED /\ updates[j].clear = FALSE
  BY Zenon DEF Init, NoUpdate
<1>4. worker.phase = "idle" /\ caller.step = "idle" /\ ~queued /\ Running /\ prov_node = NULL
  BY Zenon DEF Init, IdleWorker, IdleCaller, Running
<1> QED BY <1>1, <1>2, <1>3, <1>4, Zenon DEF OwnedInv, PassInv, AheadInv

\* When all is done, no update is left, and every node has its item.
LEMMA MatchesFromInv ==
    ASSUME StoreInv, CalmInv
    PROVE  FlashMatchesTable
<1> SUFFICES ASSUME env = "calm", Quiescent, NEW a \in Addresses \ {UNASSIGNED}
             PROVE  LET owner == {i \in Slots \ {prov_node} : nodes[i].addr = a}
                    IN  IF owner = {} THEN flash[a] = NoItem
                        ELSE \A i \in owner : /\ flash[a].num_elem = nodes[i].num_elem
                                              /\ flash[a].uuid = nodes[i].uuid
                                              /\ flash[a].configured = nodes[i].configured
  BY Zenon DEF FlashMatchesTable
<1>1. /\ OwnedInv /\ PassInv /\ AheadInv
      /\ Running /\ worker.phase = "idle" /\ ~queued /\ caller.step = "idle"
  BY Zenon DEF CalmInv, Quiescent
<1>2. \A i \in Slots \ {prov_node} : nodes[i].addr = a => i \in Stored
  BY Zenon DEF Stored, Live
<1>3. \A j \in Slots : updates[j].addr = UNASSIGNED
  BY <1>1, Zenon DEF PassInv
<1>4. ASSUME NEW i \in Slots \ {prov_node}, nodes[i].addr = a
      PROVE  flash[a] = node_val(nodes[i])
  BY <1>1, <1>2, <1>3, <1>4, Zenon DEF AheadInv, Ahead, HasItem
<1>5. ASSUME \A i \in Slots \ {prov_node} : nodes[i].addr # a PROVE flash[a] = NoItem
  BY <1>1, <1>5, Zenon DEF OwnedInv, Owned, Items, Stored, Live
<1>6. ASSUME NEW i \in Slots \ {prov_node}, nodes[i].addr = a
      PROVE  /\ flash[a].num_elem = nodes[i].num_elem
             /\ flash[a].uuid = nodes[i].uuid
             /\ flash[a].configured = nodes[i].configured
  <2>1. flash[a] = [num_elem |-> nodes[i].num_elem, uuid |-> nodes[i].uuid,
                    configured |-> nodes[i].configured]
    BY <1>4, <1>6, Zenon DEF node_val
  <2>2. nodes[i].configured \in BOOLEAN
    BY Zenon DEF StoreInv, Table, Node
  <2> QED BY <2>1, <2>2
<1> DEFINE owner == {i \in Slots \ {prov_node} : nodes[i].addr = a}
<1>7. CASE owner = {}
  BY <1>5, <1>7, Zenon
<1>8. CASE owner # {}
  BY <1>6, <1>8, Zenon
<1> QED BY <1>7, <1>8, Zenon

\* Every completed store is in storage once the work queue is idle, with the flags the
\* node has by then, and nothing else is stored, for any number of slots, addresses and
\* boards (bt_mesh_store_cdb_node, store_pending_cdb_nodes): no update is overwritten or
\* freed before it is carried out, although main is preempted between the steps of a
\* store, and one that finds all updates in use is written at once.
THEOREM StorageFollows ==
    ASSUME ELEM_MAX = 1
    PROVE  Spec => []FlashMatchesTable
<1>0. OneElement
  BY Zenon DEF OneElement
<1>1. StoreInv /\ [Next]_vars => StoreInv'
  BY <1>0, StoreStep, Zenon
<1>2. StoreInv /\ CalmInv /\ [Next]_vars => CalmInv'
  BY <1>0, FollowingStep, Zenon
<1>3. StoreInv /\ CalmInv => FlashMatchesTable
  BY MatchesFromInv, Zenon
<1> QED BY <1>1, <1>2, <1>3, InitStore, InitFollows, PTL DEF Spec
=============================================================================

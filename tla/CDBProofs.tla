----------------------------- MODULE CDBProofs -----------------------------
(***************************************************************************)
(* Proofs about the configuration database, for every number of slots and  *)
(* every address space: addresses never overlap, and an allocation that    *)
(* asks for the lowest free address gets it within the iterations the loop *)
(* allows itself.                                                          *)
(***************************************************************************)
EXTENDS CDBProps, FiniteSets, FiniteSetTheorems, WellFoundedInduction, TLAPS

----------------------------------------------------------------------------
(* Arithmetic and least elements. *)

\* The uint16_t arithmetic of addr_is_free does not wrap on the addresses it is
\* used with.
LEMMA NoWrap ==
    ASSUME NEW x \in Nat, x < 2 * (UNICAST_MAX + 1)
    PROVE  Uint16(x) = x
BY NodesAssumption DEF Uint16

\* A non-empty set of slot numbers has a least element, so FirstOf is the slot a
\* loop over the array meets first.
LEMMA FirstOfIsLeast ==
    ASSUME NEW n \in Nat, NEW S \in SUBSET (0 .. n), S # {}
    PROVE  FirstOf(S) \in S /\ \A j \in S : FirstOf(S) <= j
<1> DEFINE T == {0 .. i : i \in S}
           WF == FiniteSubsetsOf(0 .. n)
<1>1. IsWellFoundedOn(StrictSubsetOrdering(0 .. n), WF)
  BY FS_StrictSubsetOrderingWellFounded
<1>2. T \subseteq WF
  <2>1. ASSUME NEW i \in S PROVE 0 .. i \in WF
    <3>1. IsFiniteSet(0 .. i)
      BY FS_Interval
    <3> QED BY <3>1 DEF FiniteSubsetsOf
  <2> QED BY <2>1
<1>0. T # {}
  OBVIOUS
<1>3. PICK x \in T : \A y \in T : ~ (<<y, x>> \in StrictSubsetOrdering(0 .. n))
  BY <1>0, <1>1, <1>2, WFMin, Zenon
<1>4. PICK i \in S : x = 0 .. i
  OBVIOUS
<1>5. ASSUME NEW j \in S, j < i PROVE FALSE
  <2>1. <<0 .. j, x>> \in StrictSubsetOrdering(0 .. n)
    BY <1>4, <1>5, SMT DEF StrictSubsetOrdering
  <2> QED BY <2>1, <1>3
<1>6. \A j \in S : i <= j
  BY <1>5, SMT
<1> QED BY <1>6 DEF FirstOf

\* The first free or first conflicting slot is one of the slots it was chosen from.
LEMMA FirstSlot ==
    ASSUME NEW S \in SUBSET Slots, S # {}
    PROVE  FirstOf(S) \in S
<1>1. NODE_COUNT - 1 \in Nat /\ S \in SUBSET (0 .. NODE_COUNT - 1)
  BY NodesAssumption DEF Slots
<1> QED BY <1>1, FirstOfIsLeast, Zenon

----------------------------------------------------------------------------
(* The inductive invariant. *)

\* Every live node holds a non-empty range that ends inside the unicast range.
RangesValid ==
    \A i \in Live(nodes) :
        /\ nodes[i].uuid \in Uuids
        /\ nodes[i].num_elem >= 1
        /\ nodes[i].addr + nodes[i].num_elem - 1 <= UNICAST_MAX

\* The live nodes the search has jumped over.
Passed == {i \in Live(nodes) : nodes[i].addr + nodes[i].num_elem - 1 < search.addr}

\* While the loop runs, no address below the candidate fits, and every iteration
\* has jumped over a node of its own.
SearchInv ==
    search.on =>
        /\ search.uuid \in Uuids
        /\ search.addr >= 1
        /\ \A a \in 1 .. search.addr - 1 : a \notin FreeStarts(search.num_elem)
        /\ search.i <= Cardinality(Passed)

IInv == TypeOK /\ RangesValid /\ NodesDisjoint /\ SearchInv

----------------------------------------------------------------------------
(* What the operators of the node table return. *)

\* The end of a range addr_is_free looks at, without wrapping.
LEMMA EndValue ==
    ASSUME NEW a \in 1 .. UNICAST_MAX + 1, NEW n \in 0 .. ELEM_MAX
    PROVE  End(a, n) = a + n - 1
<1>1. a + n - 1 \in Nat /\ a + n - 1 < 2 * (UNICAST_MAX + 1)
  BY NodesAssumption
<1> QED BY <1>1, NoWrap DEF End

\* addr_is_free answers 0 exactly for a non-empty unicast range that meets the
\* range of no live node.
LEMMA FreeRange ==
    ASSUME TypeOK, RangesValid,
           NEW a \in 1 .. UNICAST_MAX + 1, NEW n \in 0 .. ELEM_MAX,
           addr_is_free(nodes, a, n) = "OK"
    PROVE  /\ n >= 1 /\ a + n - 1 <= UNICAST_MAX
           /\ \A i \in Live(nodes) : (a .. a + n - 1) \cap Elements(nodes[i]) = {}
<1>1. ValidRange(a, n) /\ Conflicts(nodes, a, n) = {}
  BY DEF addr_is_free
<1>2. n >= 1 /\ a + n - 1 <= UNICAST_MAX
  BY <1>1, EndValue, NodesAssumption DEF ValidRange, IsUnicast
<1>3. ASSUME NEW i \in Live(nodes)
      PROVE  (a .. a + n - 1) \cap Elements(nodes[i]) = {}
  <2>1. /\ nodes[i].addr \in 1 .. UNICAST_MAX /\ nodes[i].num_elem \in 0 .. ELEM_MAX
    BY <1>3, NodesAssumption DEF TypeOK, Live, Node, UNASSIGNED
  <2>2. End(nodes[i].addr, nodes[i].num_elem) = nodes[i].addr + nodes[i].num_elem - 1
    BY <2>1, EndValue, NodesAssumption
  <2>3. a + n - 1 < nodes[i].addr \/ a > nodes[i].addr + nodes[i].num_elem - 1
    BY <1>1, <1>3, <2>2, EndValue DEF Conflicts
  <2> QED BY <2>1, <2>3, NodesAssumption DEF Elements
<1> QED BY <1>2, <1>3

\* A conflict that addr_is_free reports is with a live node whose range meets the
\* wanted one; next is the address after that node.
LEMMA ConflictRange ==
    ASSUME TypeOK, RangesValid,
           NEW a \in 1 .. UNICAST_MAX + 1, NEW n \in 0 .. ELEM_MAX,
           addr_is_free(nodes, a, n) = "EAGAIN"
    PROVE  \E i \in Live(nodes) :
              /\ NextAddr(nodes, a, n) = nodes[i].addr + nodes[i].num_elem
              /\ n >= 1 /\ nodes[i].addr <= a + n - 1
              /\ a <= nodes[i].addr + nodes[i].num_elem - 1
<1>1. ValidRange(a, n) /\ Conflicts(nodes, a, n) # {}
  BY DEF addr_is_free
<1> DEFINE i == FirstOf(Conflicts(nodes, a, n))
<1>2. i \in Conflicts(nodes, a, n) /\ i \in Live(nodes)
  BY <1>1, FirstSlot DEF Conflicts, Live
<1> HIDE DEF i
<1>3. nodes[i].addr \in 1 .. UNICAST_MAX /\ nodes[i].num_elem \in 0 .. ELEM_MAX
  BY <1>2, NodesAssumption DEF TypeOK, Live, Node, UNASSIGNED
<1>4. /\ nodes[i].num_elem >= 1
      /\ nodes[i].addr + nodes[i].num_elem - 1 <= UNICAST_MAX
  BY <1>2 DEF RangesValid
<1>5. End(nodes[i].addr, nodes[i].num_elem) = nodes[i].addr + nodes[i].num_elem - 1
  BY <1>3, EndValue, NodesAssumption
<1>6. Uint16(nodes[i].addr + nodes[i].num_elem) = nodes[i].addr + nodes[i].num_elem
  BY <1>3, <1>4, NoWrap, NodesAssumption
<1>7. NextAddr(nodes, a, n) = nodes[i].addr + nodes[i].num_elem
  BY <1>3, <1>5, <1>6, NodesAssumption DEF NextAddr, i
<1>8. /\ nodes[i].addr <= a + n - 1
      /\ a <= nodes[i].addr + nodes[i].num_elem - 1
  BY <1>2, <1>3, <1>5, EndValue, NodesAssumption DEF Conflicts
<1>9. n >= 1
  BY <1>1, NodesAssumption DEF ValidRange
<1> QED BY <1>2, <1>7, <1>8, <1>9

----------------------------------------------------------------------------
(* What the operations do to the node table. *)

\* Filling the first free slot with a free range keeps ranges valid and disjoint.
LEMMA FillKeepsTable ==
    ASSUME TypeOK, RangesValid, NodesDisjoint,
           NEW u \in Uuids, NEW a \in 1 .. UNICAST_MAX, NEW n \in 0 .. ELEM_MAX,
           addr_is_free(nodes, a, n) = "OK", FreeSlots(nodes) # {},
           nodes' = fill_slot(nodes, u, a, n)
    PROVE  nodes' \in [Slots -> Node] /\ RangesValid' /\ NodesDisjoint'
<1> DEFINE s == FirstOf(FreeSlots(nodes))
           new == [addr |-> a, num_elem |-> n, uuid |-> u, configured |-> FALSE]
<1>1. s \in Slots /\ s \notin Live(nodes)
  BY FirstSlot DEF FreeSlots
<1>2. nodes' = [nodes EXCEPT ![s] = new]
  BY DEF fill_slot
<1> HIDE DEF s
<1>3. nodes' \in [Slots -> Node]
  BY <1>1, <1>2, NodesAssumption DEF TypeOK, Node
<1>4. /\ n >= 1 /\ a + n - 1 <= UNICAST_MAX
      /\ \A i \in Live(nodes) : (a .. a + n - 1) \cap Elements(nodes[i]) = {}
  BY FreeRange, NodesAssumption
<1>5. /\ Live(nodes') = Live(nodes) \cup {s}
      /\ nodes'[s] = new
      /\ \A i \in Live(nodes) : nodes'[i] = nodes[i]
  BY <1>1, <1>2, NodesAssumption DEF TypeOK, Live, UNASSIGNED
<1>6. RangesValid'
  BY <1>4, <1>5 DEF RangesValid
<1>7. NodesDisjoint'
  <2>1. Elements(new) = a .. a + n - 1
    BY DEF Elements
  <2>2. \A i \in Live(nodes) : /\ Elements(nodes'[i]) \cap Elements(nodes'[s]) = {}
                               /\ Elements(nodes'[s]) \cap Elements(nodes'[i]) = {}
    BY <1>4, <1>5, <2>1
  <2> QED BY <1>5, <2>2 DEF NodesDisjoint, Elements
<1> QED BY <1>3, <1>6, <1>7

\* Deleting nodes, one or all, keeps ranges valid and disjoint.
LEMMA DeleteKeepsTable ==
    ASSUME TypeOK, RangesValid, NodesDisjoint,
           nodes' \in [Slots -> Node],
           \A i \in Live(nodes') : i \in Live(nodes) /\ nodes'[i] = nodes[i]
    PROVE  RangesValid' /\ NodesDisjoint'
<1>1. RangesValid'
  BY DEF RangesValid
<1>2. NodesDisjoint'
  BY DEF NodesDisjoint, Elements
<1> QED BY <1>1, <1>2

----------------------------------------------------------------------------
(* The search. *)

\* Sets of slots are finite and no larger than the array.
LEMMA SlotSets ==
    ASSUME NEW S \in SUBSET Slots
    PROVE  /\ IsFiniteSet(S) /\ Cardinality(S) \in Nat
           /\ Cardinality(S) <= NODE_COUNT
<1>1. IsFiniteSet(Slots) /\ Cardinality(Slots) = NODE_COUNT
  BY FS_Interval, NodesAssumption DEF Slots
<1>2. IsFiniteSet(S) /\ Cardinality(S) <= Cardinality(Slots)
  BY <1>1, FS_Subset
<1> QED BY <1>1, <1>2, FS_CardinalityType

\* The limit of NODE_COUNT + 2 iterations is never reached.
LEMMA LimitUnreached ==
    ASSUME IInv, search.on
    PROVE  search.i <= NODE_COUNT
<1>1. Passed \in SUBSET Slots
  BY DEF Passed, Live
<1>2. search.i <= Cardinality(Passed) /\ search.i \in Nat
  BY NodesAssumption DEF IInv, SearchInv, TypeOK
<1> QED BY <1>1, <1>2, SlotSets, NodesAssumption

\* One iteration: everything below the next candidate is taken or does not fit,
\* and the conflicting node is one more that has been passed.
LEMMA StepKeepsSearch ==
    ASSUME IInv, SearchStep
    PROVE  /\ search'.addr \in 1 .. UNICAST_MAX + 1
           /\ search'.i \in 0 .. NODE_COUNT + 2
           /\ SearchInv'
<1> DEFINE a == search.addr
           n == search.num_elem
<1>1. /\ TypeOK /\ RangesValid /\ search.on /\ a \in 1 .. UNICAST_MAX + 1
      /\ n \in 0 .. ELEM_MAX /\ search.i \in Nat /\ search.uuid \in Uuids
      /\ \A b \in 1 .. a - 1 : b \notin FreeStarts(n)
      /\ search.i <= Cardinality(Passed)
  BY NodesAssumption DEF IInv, SearchInv, TypeOK, SearchStep
<1>2. addr_is_free(nodes, a, n) = "EAGAIN"
  BY DEF SearchStep, ProbeResult
<1>3. PICK i \in Live(nodes) :
          /\ NextAddr(nodes, a, n) = nodes[i].addr + nodes[i].num_elem
          /\ n >= 1 /\ nodes[i].addr <= a + n - 1
          /\ a <= nodes[i].addr + nodes[i].num_elem - 1
  BY <1>1, <1>2, ConflictRange
<1> DEFINE next == nodes[i].addr + nodes[i].num_elem
<1>4. /\ nodes' = nodes
      /\ search' = [search EXCEPT !.i = search.i + 1, !.addr = next]
  BY <1>3 DEF SearchStep
<1>5. /\ nodes[i].addr \in 1 .. UNICAST_MAX /\ nodes[i].num_elem \in 1 .. ELEM_MAX
      /\ next \in 1 .. UNICAST_MAX + 1 /\ a < next
  BY <1>1, <1>3, NodesAssumption DEF TypeOK, RangesValid, Live, Node, UNASSIGNED
<1>6. /\ search'.addr = next /\ search'.i = search.i + 1
      /\ search'.num_elem = n /\ search'.uuid = search.uuid /\ search'.on
  BY <1>1, <1>4 DEF TypeOK
<1>7. \A b \in 1 .. next - 1 : b \notin FreeStarts(n)
  <2>1. ASSUME NEW b \in a .. next - 1 PROVE b \notin FreeStarts(n)
    <3> DEFINE c == IF b < nodes[i].addr THEN nodes[i].addr ELSE b
    <3>1. c \in b .. b + n - 1 /\ c \in Elements(nodes[i])
      BY <1>1, <1>3, <1>5, <2>1, NodesAssumption DEF Elements
    <3> QED BY <3>1 DEF FreeStarts
  <2> QED BY <1>1, <1>5, <2>1
<1>8. search.i + 1 <= Cardinality(Passed')
  <2>1. Passed' = {j \in Live(nodes) : nodes[j].addr + nodes[j].num_elem - 1 < next}
    BY <1>4, <1>6 DEF Passed
  <2>2. Passed \cup {i} \subseteq Passed' /\ i \notin Passed
    <3>1. i \notin Passed /\ i \in Passed'
      BY <1>1, <1>3, <1>5, <2>1 DEF Passed
    <3>2. ASSUME NEW j \in Passed PROVE j \in Passed'
      <4>1. j \in Live(nodes) /\ nodes[j].addr + nodes[j].num_elem - 1 < a
        BY <3>2 DEF Passed
      <4>2. nodes[j].addr \in Nat /\ nodes[j].num_elem \in Nat
        BY <1>1, <4>1, NodesAssumption DEF TypeOK, Live, Node
      <4>3. nodes[j].addr + nodes[j].num_elem - 1 < next
        BY <1>1, <1>5, <4>1, <4>2
      <4> QED BY <2>1, <4>1, <4>3, Zenon
    <3> QED BY <3>1, <3>2
  <2>3. Passed \in SUBSET Slots /\ Passed' \in SUBSET Slots
    BY <1>4 DEF Passed, Live
  <2>4. IsFiniteSet(Passed) /\ IsFiniteSet(Passed') /\ Cardinality(Passed) \in Nat
    BY <2>3, SlotSets
  <2>5. Cardinality(Passed \cup {i}) = Cardinality(Passed) + 1
    BY <2>2, <2>4, FS_AddElement
  <2>6. Cardinality(Passed \cup {i}) <= Cardinality(Passed')
    BY <2>2, <2>4, FS_Subset
  <2>7. Cardinality(Passed') \in Nat
    BY <2>3, SlotSets
  <2> QED BY <1>1, <2>4, <2>5, <2>6, <2>7
<1>9. SearchInv'
  BY <1>1, <1>4, <1>5, <1>6, <1>7, <1>8 DEF SearchInv, FreeStarts
<1>10. search'.i \in 0 .. NODE_COUNT + 2
  BY <1>1, <1>6, NodesAssumption DEF SearchStep, TypeOK
<1> QED BY <1>5, <1>6, <1>9, <1>10

\* When the loop ends, it leaves the lowest address that fits, or UNASSIGNED when
\* none does.
LEMMA SearchFindsLowest ==
    ASSUME IInv, search.on, SearchOver
    PROVE  /\ FindsLowestFree
           /\ Found # UNASSIGNED =>
                 /\ Found = search.addr /\ search.addr \in 1 .. UNICAST_MAX
                 /\ addr_is_free(nodes, search.addr, search.num_elem) = "OK"
<1> DEFINE a == search.addr
           n == search.num_elem
<1>1. /\ TypeOK /\ RangesValid /\ a \in 1 .. UNICAST_MAX + 1
      /\ n \in 0 .. ELEM_MAX /\ search.i \in Nat
      /\ \A b \in 1 .. a - 1 : b \notin FreeStarts(n)
  BY NodesAssumption DEF IInv, SearchInv, TypeOK
<1>2. search.i < NODE_COUNT + 2
  BY <1>1, LimitUnreached, NodesAssumption
<1>3. addr_is_free(nodes, a, n) \in {"OK", "EINVAL"}
  BY <1>2, NodesAssumption DEF SearchOver, ProbeResult, addr_is_free
<1>4. CASE addr_is_free(nodes, a, n) = "OK"
  <2>1. Found = a
    BY <1>4 DEF Found, ProbeResult
  <2>2. /\ n >= 1 /\ a + n - 1 <= UNICAST_MAX
        /\ \A i \in Live(nodes) : (a .. a + n - 1) \cap Elements(nodes[i]) = {}
    BY <1>1, <1>4, FreeRange
  <2>3. a \in 1 .. UNICAST_MAX
    BY <1>1, <2>2, NodesAssumption
  <2>4. a \in FreeStarts(n)
    BY <2>2, <2>3 DEF FreeStarts
  <2>5. \A b \in FreeStarts(n) : b \in 1 .. UNICAST_MAX /\ a <= b
    BY <1>1, NodesAssumption DEF FreeStarts
  <2>6. LowestFree(n) = a
    BY <1>1, <2>4, <2>5 DEF LowestFree, FirstOf
  <2> QED BY <1>4, <2>1, <2>3, <2>6 DEF FindsLowestFree
<1>5. CASE addr_is_free(nodes, a, n) = "EINVAL"
  <2>1. Found = UNASSIGNED
    BY <1>2, <1>5 DEF Found, ProbeResult
  <2>2. ~ValidRange(a, n)
    BY <1>5 DEF addr_is_free
  <2>3. n = 0 \/ a + n - 1 > UNICAST_MAX
    <3>1. End(a, n) = a + n - 1
      BY <1>1, EndValue
    <3> QED BY <1>1, <2>2, <3>1, NodesAssumption DEF ValidRange, IsUnicast
  <2>4. ASSUME n # 0 PROVE LowestFree(n) = UNASSIGNED
    <3>1. ASSUME NEW b \in FreeStarts(n) PROVE FALSE
      <4>1. b \in 1 .. UNICAST_MAX /\ b + n - 1 <= UNICAST_MAX
        BY <3>1 DEF FreeStarts
      <4> QED BY <1>1, <2>3, <2>4, <3>1, <4>1, NodesAssumption
    <3> QED BY <3>1 DEF LowestFree
  <2> QED BY <2>1, <2>4 DEF FindsLowestFree
<1> QED BY <1>3, <1>4, <1>5

----------------------------------------------------------------------------
(* The invariant is inductive. *)

\* The empty database has the invariant.
LEMMA InitInv == Init => IInv
<1> SUFFICES ASSUME Init PROVE IInv
  OBVIOUS
<1>1. nodes \in [Slots -> Node] /\ Live(nodes) = {}
  BY NodesAssumption DEF Init, InitNodes, Node, Live, UNASSIGNED
<1>2. TypeOK
  <2>1. search \in [on : BOOLEAN, uuid : Uuids \cup {NoUuid},
                    num_elem : 0 .. ELEM_MAX, addr : 0 .. UNICAST_MAX + 1,
                    i : 0 .. NODE_COUNT + 2]
    BY NodesAssumption DEF Init, NoSearch
  <2>2. /\ valid \in BOOLEAN
        /\ subnets \in [SubnetSlots -> NetIdxs \cup {KEY_UNUSED}]
        /\ app_keys \in [AppKeySlots -> [net_idx : NetIdxs \cup {KEY_UNUSED},
                                         app_idx : AppIdxs]]
    BY KeysAssumption DEF Init
  <2> QED BY <1>1, <2>1, <2>2 DEF TypeOK
<1> QED BY <1>1, <1>2 DEF Init, IInv, RangesValid, NodesDisjoint, SearchInv, NoSearch

\* A call other than the search keeps it.
LEMMA ApiCallKeepsInv ==
    ASSUME IInv, ~search.on, ApiCall, UNCHANGED search
    PROVE  IInv'
<1>1. SearchInv' /\ TypeOK /\ RangesValid /\ NodesDisjoint
  BY DEF IInv, SearchInv
<1>2. CASE bt_mesh_cdb_create
  <2>1. TypeOK'
    BY <1>1, <1>2, KeysAssumption
       DEF TypeOK, bt_mesh_cdb_create, SubnetsWith, KEY_PRIMARY
  <2> QED BY <1>1, <1>2, <2>1 DEF bt_mesh_cdb_create, IInv, RangesValid, NodesDisjoint
<1>3. CASE bt_mesh_cdb_clear
  <2>1. nodes' \in [Slots -> Node] /\ Live(nodes') = {}
    <3>1. nodes' = [i \in Slots |-> [nodes[i] EXCEPT !.addr = UNASSIGNED]]
      BY <1>3 DEF bt_mesh_cdb_clear
    <3>2. \A i \in Slots : nodes'[i] \in Node /\ nodes'[i].addr = UNASSIGNED
      <4> SUFFICES ASSUME NEW i \in Slots
                   PROVE  nodes'[i] \in Node /\ nodes'[i].addr = UNASSIGNED
        OBVIOUS
      <4>1. nodes'[i] = [nodes[i] EXCEPT !.addr = UNASSIGNED] /\ nodes[i] \in Node
        BY <1>1, <3>1 DEF TypeOK
      <4> QED BY <4>1, NodesAssumption DEF Node, UNASSIGNED
    <3>3. nodes' \in [Slots -> Node]
      BY <3>1, <3>2, Zenon
    <3> QED BY <3>2, <3>3 DEF Live
  <2>2. TypeOK'
    BY <1>1, <1>3, <2>1, KeysAssumption
       DEF TypeOK, bt_mesh_cdb_clear, AppKeyDeleted, UNASSIGNED, KEY_PRIMARY
  <2> QED BY <1>1, <2>1, <2>2, DeleteKeepsTable DEF IInv
<1>4. ASSUME NEW net \in NetIdxs, bt_mesh_cdb_subnet_alloc(net) PROVE IInv'
  BY <1>1, <1>4 DEF TypeOK, bt_mesh_cdb_subnet_alloc, SubnetsWith, IInv, RangesValid,
                    NodesDisjoint
<1>5. ASSUME NEW i \in SubnetSlots, bt_mesh_cdb_subnet_del(i) PROVE IInv'
  BY <1>1, <1>5 DEF TypeOK, bt_mesh_cdb_subnet_del, IInv, RangesValid, NodesDisjoint
<1>6. ASSUME NEW u \in Uuids, NEW a \in 1 .. UNICAST_MAX + 1, NEW n \in 0 .. ELEM_MAX,
             bt_mesh_cdb_node_alloc(u, a, n)
      PROVE  IInv'
  <2>1. /\ addr_is_free(nodes, a, n) = "OK" /\ FreeSlots(nodes) # {}
        /\ nodes' = fill_slot(nodes, u, a, n)
    BY <1>6 DEF bt_mesh_cdb_node_alloc, alloc_slot, node_alloc
  <2>2. a \in 1 .. UNICAST_MAX
    BY <1>1, <2>1, FreeRange, NodesAssumption
  <2>3. nodes' \in [Slots -> Node] /\ RangesValid' /\ NodesDisjoint'
    BY <1>1, <2>1, <2>2, FillKeepsTable
  <2> QED BY <1>1, <1>6, <2>3 DEF TypeOK, bt_mesh_cdb_node_alloc, IInv
<1>7. ASSUME NEW i \in Slots, bt_mesh_cdb_node_del(i) PROVE IInv'
  <2>1. nodes' \in [Slots -> Node]
    BY <1>1, <1>7, NodesAssumption
       DEF TypeOK, bt_mesh_cdb_node_del, node_del, Node, UNASSIGNED
  <2>2. \A j \in Live(nodes') : j \in Live(nodes) /\ nodes'[j] = nodes[j]
    BY <1>1, <1>7 DEF TypeOK, bt_mesh_cdb_node_del, node_del, Live
  <2>3. RangesValid' /\ NodesDisjoint'
    BY <1>1, <2>1, <2>2, DeleteKeepsTable
  <2> QED BY <1>1, <1>7, <2>1, <2>3 DEF TypeOK, bt_mesh_cdb_node_del, IInv
<1>8. ASSUME NEW net \in NetIdxs, NEW app \in AppIdxs,
             bt_mesh_cdb_app_key_alloc(net, app)
      PROVE  IInv'
  BY <1>1, <1>8 DEF TypeOK, bt_mesh_cdb_app_key_alloc, IInv, RangesValid, NodesDisjoint
<1>9. ASSUME NEW i \in AppKeySlots, bt_mesh_cdb_app_key_del(i) PROVE IInv'
  BY <1>1, <1>9, KeysAssumption
     DEF TypeOK, bt_mesh_cdb_app_key_del, AppKeyDeleted, UNASSIGNED, KEY_PRIMARY, IInv,
         RangesValid, NodesDisjoint
<1> QED BY <1>2, <1>3, <1>4, <1>5, <1>6, <1>7, <1>8, <1>9 DEF ApiCall

\* Every step keeps it.
LEMMA NextInv == IInv /\ [Next]_vars => IInv'
<1> SUFFICES ASSUME IInv, [Next]_vars PROVE IInv'
  OBVIOUS
<1>1. TypeOK /\ RangesValid /\ NodesDisjoint /\ SearchInv
  BY DEF IInv
<1>2. CASE ~search.on /\ ApiCall /\ UNCHANGED search
  BY <1>2, ApiCallKeepsInv
<1>3. ASSUME NEW u \in Uuids, NEW n \in 0 .. ELEM_MAX, find_lowest_free_addr(u, n)
      PROVE  IInv'
  <2>1. TypeOK'
    BY <1>1, <1>3, NodesAssumption DEF TypeOK, find_lowest_free_addr
  <2>2. RangesValid' /\ NodesDisjoint'
    BY <1>1, <1>3 DEF RangesValid, NodesDisjoint, find_lowest_free_addr
  <2>3. Passed' \in SUBSET Slots
    BY DEF Passed, Live
  <2>4. Cardinality(Passed') \in Nat
    BY <2>3, SlotSets
  <2>5. SearchInv'
    BY <1>3, <2>4 DEF SearchInv, find_lowest_free_addr
  <2> QED BY <2>1, <2>2, <2>5 DEF IInv
<1>4. CASE SearchStep
  <2>1. TypeOK'
    <3>1. search'.addr \in 1 .. UNICAST_MAX + 1 /\ search'.i \in 0 .. NODE_COUNT + 2
      BY <1>4, StepKeepsSearch
    <3>2. search' \in [on : BOOLEAN, uuid : Uuids \cup {NoUuid},
                       num_elem : 0 .. ELEM_MAX, addr : 0 .. UNICAST_MAX + 1,
                       i : 0 .. NODE_COUNT + 2]
      <4> DEFINE stepped == [search EXCEPT !.i = search.i + 1]
      <4>1. search' = [stepped EXCEPT
                         !.addr = NextAddr(nodes, search.addr, search.num_elem)]
        BY <1>4 DEF SearchStep
      <4>2. stepped \in [on : BOOLEAN, uuid : Uuids \cup {NoUuid},
                         num_elem : 0 .. ELEM_MAX, addr : 0 .. UNICAST_MAX + 1,
                         i : 0 .. NODE_COUNT + 2]
        BY <1>1, <1>4, NodesAssumption DEF TypeOK, SearchStep
      <4> HIDE DEF stepped
      <4> QED BY <3>1, <4>1, <4>2, NodesAssumption
    <3> QED BY <1>1, <1>4, <3>2 DEF TypeOK, SearchStep
  <2>2. RangesValid' /\ NodesDisjoint'
    BY <1>1, <1>4 DEF RangesValid, NodesDisjoint, SearchStep
  <2> QED BY <1>4, <2>1, <2>2, StepKeepsSearch DEF IInv
<1>5. CASE SearchReturns
  <2>1. search.uuid \in Uuids /\ search.num_elem \in 0 .. ELEM_MAX
    BY <1>1, <1>5 DEF SearchInv, TypeOK, SearchReturns
  <2>2. nodes' \in [Slots -> Node] /\ RangesValid' /\ NodesDisjoint'
    <3>1. CASE Found # UNASSIGNED /\ FreeSlots(nodes) # {}
      <4>1. /\ Found \in 1 .. UNICAST_MAX
            /\ addr_is_free(nodes, Found, search.num_elem) = "OK"
        BY <1>5, <3>1, SearchFindsLowest DEF SearchReturns
      <4>2. nodes' = fill_slot(nodes, search.uuid, Found, search.num_elem)
        BY <1>5, <3>1 DEF SearchReturns
      <4> HIDE DEF Found
      <4> QED BY <1>1, <2>1, <3>1, <4>1, <4>2, FillKeepsTable
    <3>2. CASE ~(Found # UNASSIGNED /\ FreeSlots(nodes) # {})
      <4>1. nodes' = nodes
        BY <1>5, <3>2 DEF SearchReturns
      <4> QED BY <1>1, <4>1 DEF TypeOK, RangesValid, NodesDisjoint
    <3> QED BY <3>1, <3>2
  <2>3. TypeOK' /\ SearchInv'
    BY <1>1, <1>5, <2>2, NodesAssumption DEF TypeOK, SearchInv, SearchReturns, NoSearch
  <2> QED BY <2>2, <2>3 DEF IInv
<1>6. CASE UNCHANGED vars
  BY <1>1, <1>6 DEF vars, IInv, TypeOK, RangesValid, NodesDisjoint, SearchInv, Passed,
                    FreeStarts
<1> QED BY <1>2, <1>3, <1>4, <1>5, <1>6 DEF Next

\* The inductive invariant holds throughout.
LEMMA InvariantHolds == Spec => []IInv
BY InitInv, NextInv, PTL DEF Spec

\* Type correctness, for every size of the tables.
THEOREM TypeCorrect == Spec => []TypeOK
<1>1. IInv => TypeOK
  BY DEF IInv
<1> QED BY <1>1, InvariantHolds, PTL

\* addr_is_free and find_lowest_free_addr keep the addresses of any two nodes of
\* the database apart, for every node count and every size of the address space.
THEOREM NoSharedAddress == Spec => []NodesDisjoint
<1>1. IInv => NodesDisjoint
  BY DEF IInv
<1> QED BY <1>1, InvariantHolds, PTL

\* find_lowest_free_addr returns the lowest address that fits, and the comment's
\* "maximum of node count + 2" iterations suffices, for every node table.
THEOREM LowestFreeFound == Spec => []FindsLowestFree
<1>1. IInv => FindsLowestFree
  BY SearchFindsLowest DEF FindsLowestFree
<1> QED BY <1>1, InvariantHolds, PTL

----------------------------------------------------------------------------
(* Subnets. *)

\* bt_mesh_cdb_subnet_alloc fills a slot that no subnet uses, with an index that
\* no slot holds, so the indexes stay apart.
LEMMA AllocKeepsSubnets ==
    ASSUME TypeOK, SubnetsUnique, NEW net \in NetIdxs, CanAllocSubnet(net),
           subnets' = SubnetsWith(net)
    PROVE  SubnetsUnique'
<1>1. UnusedSubnets \in SUBSET (0 .. SUBNET_COUNT - 1) /\ UnusedSubnets # {}
      /\ SUBNET_COUNT - 1 \in Nat
  BY KeysAssumption DEF UnusedSubnets, SubnetSlots, CanAllocSubnet
<1>2. FirstOf(UnusedSubnets) \in UnusedSubnets
  BY <1>1, FirstOfIsLeast, Zenon
<1>3. PICK k \in SubnetSlots : subnets' = [subnets EXCEPT ![k] = net]
  BY <1>2 DEF UnusedSubnets, SubnetsWith
<1>4. subnets'[k] = net /\ \A j \in SubnetSlots \ {k} : subnets'[j] = subnets[j]
  BY <1>3 DEF TypeOK
<1>5. \A j \in SubnetSlots : subnets[j] # net
  BY DEF CanAllocSubnet
<1> QED BY <1>4, <1>5 DEF SubnetsUnique

\* Whatever creates, clears, allocations and deletions come, two slots never hold
\* the same NetIdx (bt_mesh_cdb_subnet_alloc), for every number of slots.
THEOREM NoSharedNetIdx == Spec => []SubnetsUnique
<1>1. Init => SubnetsUnique
  BY DEF Init, SubnetsUnique
<1>2. IInv /\ SubnetsUnique /\ [Next]_vars => SubnetsUnique'
  <2> SUFFICES ASSUME IInv, SubnetsUnique, [Next]_vars PROVE SubnetsUnique'
    OBVIOUS
  <2>0. TypeOK
    BY DEF IInv
  <2>1. CASE bt_mesh_cdb_create
    BY <2>0, <2>1, AllocKeepsSubnets, KeysAssumption DEF bt_mesh_cdb_create, SubnetsUnique
  <2>2. CASE bt_mesh_cdb_clear
    BY <2>2 DEF bt_mesh_cdb_clear, SubnetsUnique
  <2>3. ASSUME NEW net \in NetIdxs, bt_mesh_cdb_subnet_alloc(net) PROVE SubnetsUnique'
    BY <2>0, <2>3, AllocKeepsSubnets DEF bt_mesh_cdb_subnet_alloc
  <2>4. ASSUME NEW k \in SubnetSlots, bt_mesh_cdb_subnet_del(k) PROVE SubnetsUnique'
    <3>1. /\ subnets'[k] = KEY_UNUSED
          /\ \A j \in SubnetSlots \ {k} : subnets'[j] = subnets[j]
      BY <2>0, <2>4 DEF bt_mesh_cdb_subnet_del, TypeOK
    <3> QED BY <3>1 DEF SubnetsUnique
  <2>5. CASE UNCHANGED subnets
    BY <2>5 DEF SubnetsUnique
  <2> QED BY <2>1, <2>2, <2>3, <2>4, <2>5
       DEF Next, ApiCall, vars, bt_mesh_cdb_node_alloc, bt_mesh_cdb_node_del,
           bt_mesh_cdb_app_key_alloc, bt_mesh_cdb_app_key_del, find_lowest_free_addr,
           SearchStep, SearchReturns
<1> QED BY <1>1, <1>2, InvariantHolds, PTL DEF Spec

----------------------------------------------------------------------------
(* Steps of the node table, and the abstract pool. *)

\* A step leaves the table alone, fills a free slot with a free range, deletes one
\* node, or deletes them all.
LEMMA TableSteps ==
    ASSUME IInv, [Next]_vars
    PROVE  \/ nodes' = nodes
           \/ \E u \in Uuids, a \in 1 .. UNICAST_MAX, n \in 0 .. ELEM_MAX :
                 /\ addr_is_free(nodes, a, n) = "OK" /\ FreeSlots(nodes) # {}
                 /\ nodes' = fill_slot(nodes, u, a, n)
           \/ \E i \in Live(nodes) : nodes' = node_del(nodes, i)
           \/ Live(nodes') = {}
<1>1. TypeOK /\ RangesValid /\ SearchInv
  BY DEF IInv
<1>2. ASSUME NEW u \in Uuids, NEW a \in 1 .. UNICAST_MAX + 1, NEW n \in 0 .. ELEM_MAX,
             bt_mesh_cdb_node_alloc(u, a, n)
      PROVE  /\ a \in 1 .. UNICAST_MAX /\ addr_is_free(nodes, a, n) = "OK"
             /\ FreeSlots(nodes) # {} /\ nodes' = fill_slot(nodes, u, a, n)
  <2>1. /\ addr_is_free(nodes, a, n) = "OK" /\ FreeSlots(nodes) # {}
        /\ nodes' = fill_slot(nodes, u, a, n)
    BY <1>2 DEF bt_mesh_cdb_node_alloc, alloc_slot, node_alloc
  <2> QED BY <1>1, <2>1, FreeRange, NodesAssumption
<1>3. CASE SearchReturns
  <2>1. search.uuid \in Uuids /\ search.num_elem \in 0 .. ELEM_MAX
    BY <1>1, <1>3 DEF SearchInv, TypeOK, SearchReturns
  <2>2. \/ nodes' = nodes
        \/ /\ Found # UNASSIGNED /\ FreeSlots(nodes) # {}
           /\ nodes' = fill_slot(nodes, search.uuid, Found, search.num_elem)
    BY <1>3 DEF SearchReturns
  <2>3. Found # UNASSIGNED => /\ Found \in 1 .. UNICAST_MAX
                              /\ addr_is_free(nodes, Found, search.num_elem) = "OK"
    BY <1>3, SearchFindsLowest DEF SearchReturns
  <2> HIDE DEF Found
  <2> QED BY <2>1, <2>2, <2>3
<1>4. ASSUME NEW i \in Slots, bt_mesh_cdb_node_del(i)
      PROVE  i \in Live(nodes) /\ nodes' = node_del(nodes, i)
  BY <1>4 DEF bt_mesh_cdb_node_del
<1>5. CASE bt_mesh_cdb_clear
  <2>1. \A i \in Slots : nodes'[i] = [nodes[i] EXCEPT !.addr = UNASSIGNED]
                         /\ nodes[i] \in Node
    BY <1>1, <1>5 DEF bt_mesh_cdb_clear, TypeOK
  <2>2. \A i \in Slots : nodes'[i].addr = UNASSIGNED
    BY <2>1 DEF Node
  <2> QED BY <2>2 DEF Live
<1>6. CASE ApiCall
  BY <1>2, <1>4, <1>5, <1>6
     DEF ApiCall, bt_mesh_cdb_create, bt_mesh_cdb_subnet_alloc, bt_mesh_cdb_subnet_del,
         bt_mesh_cdb_app_key_alloc, bt_mesh_cdb_app_key_del
<1>7. CASE UNCHANGED nodes
  BY <1>7
<1> QED BY <1>3, <1>6, <1>7 DEF Next, find_lowest_free_addr, SearchStep, vars

\* An allocation never overwrites a live node, whatever was deleted before it.
THEOREM AllocationSparesLiveNodes == Spec => LiveNodesStable
<1>1. IInv /\ [Next]_vars =>
          [\A i \in Live(nodes) : nodes'[i] = nodes[i] \/ i \notin Live(nodes')]_vars
  <2> SUFFICES ASSUME IInv, [Next]_vars, NEW i \in Live(nodes)
               PROVE  nodes'[i] = nodes[i] \/ i \notin Live(nodes')
    OBVIOUS
  <2>1. i \in Slots /\ nodes \in [Slots -> Node]
    BY DEF IInv, TypeOK, Live
  <2>2. ASSUME NEW u, NEW a, NEW n, FreeSlots(nodes) # {},
               nodes' = fill_slot(nodes, u, a, n)
        PROVE  nodes'[i] = nodes[i]
    <3>1. FirstOf(FreeSlots(nodes)) \in FreeSlots(nodes)
      BY <2>2, FirstSlot DEF FreeSlots
    <3> QED BY <2>1, <2>2, <3>1 DEF fill_slot, FreeSlots
  <2>3. ASSUME NEW j \in Live(nodes), nodes' = node_del(nodes, j)
        PROVE  nodes'[i] = nodes[i] \/ i \notin Live(nodes')
    BY <2>1, <2>3 DEF node_del, Live, Node
  <2> QED BY <2>2, <2>3, TableSteps
<1> QED BY <1>1, InvariantHolds, PTL DEF Spec, LiveNodesStable

\* Every step of the table is a step of the pool of address grants, or none.
LEMMA TableStepIsPoolStep ==
    ASSUME IInv, [Next]_vars
    PROVE  [Pool!Next]_({GrantOf(nodes[i]) : i \in Live(nodes)})
<1> DEFINE grants == {GrantOf(nodes[i]) : i \in Live(nodes)}
<1>1. TypeOK /\ RangesValid /\ NodesDisjoint /\ nodes \in [Slots -> Node]
  BY DEF IInv, TypeOK
<1>2. \A i \in Live(nodes) :
          i \in Slots /\ nodes[i].addr \in 1 .. UNICAST_MAX /\ nodes[i].num_elem \in Nat
  BY <1>1, NodesAssumption DEF TypeOK, Live, Node, UNASSIGNED
<1>3. CASE nodes' = nodes
  BY <1>3
<1>4. ASSUME NEW u \in Uuids, NEW a \in 1 .. UNICAST_MAX, NEW n \in 0 .. ELEM_MAX,
             addr_is_free(nodes, a, n) = "OK", FreeSlots(nodes) # {},
             nodes' = fill_slot(nodes, u, a, n)
      PROVE  Pool!Assign
  <2> DEFINE s == FirstOf(FreeSlots(nodes))
             new == [addr |-> a, num_elem |-> n, uuid |-> u, configured |-> FALSE]
             g == [uuid |-> u, first |-> a, last |-> a + n - 1]
  <2>1. s \in Slots /\ s \notin Live(nodes)
    BY <1>4, FirstSlot DEF FreeSlots
  <2>2. nodes' = [nodes EXCEPT ![s] = new]
    BY <1>4 DEF fill_slot
  <2> HIDE DEF s
  <2>3. /\ Live(nodes') = Live(nodes) \cup {s} /\ nodes'[s] = new
        /\ \A i \in Live(nodes) : nodes'[i] = nodes[i]
    BY <1>1, <2>1, <2>2, NodesAssumption DEF Live, UNASSIGNED
  <2>4. GrantOf(new) = g
    BY DEF GrantOf
  <2>5. grants' = grants \cup {g}
    <3>1. grants' = {GrantOf(nodes'[i]) : i \in Live(nodes')}
      BY DEF GrantOf
    <3>2. \A i \in Live(nodes) : GrantOf(nodes'[i]) = GrantOf(nodes[i])
      BY <2>3
    <3>3. GrantOf(nodes'[s]) = g
      BY <2>3, <2>4
    <3>4. Live(nodes') = Live(nodes) \cup {s}
      BY <2>3
    <3> HIDE DEF g
    <3>5. ASSUME NEW h PROVE h \in grants' <=> h \in grants \cup {g}
      BY <3>1, <3>2, <3>3, <3>4, Zenon
    <3> QED BY <3>5, Zenon
  <2>6. /\ n >= 1 /\ a + n - 1 <= UNICAST_MAX
        /\ \A i \in Live(nodes) : (a .. a + n - 1) \cap Elements(nodes[i]) = {}
    BY <1>1, <1>4, FreeRange, NodesAssumption
  <2>7. g \in Pool!Grant /\ g.first <= g.last
    BY <2>6, NodesAssumption DEF Pool!Grant
  <2>8. \A h \in grants : Pool!Range(g) \cap Pool!Range(h) = {}
    BY <2>6 DEF Pool!Range, Elements, GrantOf
  <2> QED BY <2>5, <2>7, <2>8 DEF Pool!Assign
<1>5. ASSUME NEW i \in Live(nodes), nodes' = node_del(nodes, i)
      PROVE  Pool!Release
  <2>1. Live(nodes') = Live(nodes) \ {i} /\ \A j \in Live(nodes) \ {i} : nodes'[j] = nodes[j]
    BY <1>1, <1>2, <1>5 DEF node_del, Live, Node
  <2>2. ASSUME NEW j \in Live(nodes), j # i PROVE GrantOf(nodes[j]) # GrantOf(nodes[i])
    <3>1. nodes[i].addr \in Elements(nodes[i]) /\ nodes[j].addr \in Elements(nodes[j])
      BY <1>1, <1>2 DEF Elements, RangesValid
    <3>2. nodes[i].addr # nodes[j].addr
      BY <1>1, <2>2, <3>1 DEF NodesDisjoint
    <3> QED BY <3>2 DEF GrantOf
  <2>3. grants' = grants \ {GrantOf(nodes[i])}
    <3>1. grants' = {GrantOf(nodes'[j]) : j \in Live(nodes')}
      BY DEF GrantOf
    <3>2. \A j \in Live(nodes) \ {i} : GrantOf(nodes'[j]) = GrantOf(nodes[j])
      BY <2>1
    <3> QED BY <2>1, <2>2, <3>1, <3>2, Zenon
  <2> QED BY <2>3 DEF Pool!Release
<1>6. CASE Live(nodes') = {}
  <2>1. grants' = {}
    BY <1>6
  <2> QED BY <2>1 DEF Pool!Next, Pool!Reset
<1> QED BY <1>3, <1>4, <1>5, <1>6, TableSteps DEF Pool!Next

\* The configuration database implements the abstract pool: an address range is
\* granted only while it is free, and taken back only by a deletion or a clear.
THEOREM DatabaseImplementsPool == Spec => ImplementsPool
<1>1. Init => Pool!Init
  BY NodesAssumption DEF Init, InitNodes, Live, UNASSIGNED, Pool!Init
<1> QED BY <1>1, TableStepIsPoolStep, InvariantHolds, PTL DEF Spec, ImplementsPool, Pool!Spec

=============================================================================

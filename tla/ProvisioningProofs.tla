------------------------- MODULE ProvisioningProofs -------------------------
(***************************************************************************)
(* Proofs about the provisioner, for any number of boards, slots, failures *)
(* and slow links: the nodes of completed boards are never deleted, though *)
(* prov_device.node is not reset with its link.  That holds as long as     *)
(* bt_mesh_pb_adv_open is not called while a link is being opened whose    *)
(* LINK_ACTIVE was cleared by the link before: one slow link cannot bring  *)
(* that about, two can.  Under the same condition addresses and names are  *)
(* distinct; and with no slow link only provisioned boards are configured. *)
(***************************************************************************)
EXTENDS Provisioning, TLAPS

-----------------------------------------------------------------------------
(* The inductive invariant.                                                *)

\* main does not give prov_device another board while a link is being opened.
OpensAlone == pc = "open" /\ ~link.active => link.bearer # "opening"

\* The types, as far as they are needed.
Typed ==
    /\ nodes \in [Slots -> Node]
    /\ record_count \in Nat
    /\ slot \in 0 .. NODE_COUNT
    /\ pc \in {"app_key", "bind", "flag", "name", "record"} => slot \in Slots
    /\ prov_device \in [node : Slots \cup {NULL}, uuid : Devices \cup {NoUuid}, addr : Nat]
    /\ link \in [active : BOOLEAN, slow : BOOLEAN,
                 bearer : {"idle", "opening", "open", "closing"},
                 expect : ReplyTypes \cup {"INVITE", "NO_PDU"}]
    /\ dev \in [Devices -> [link : {"none", "up", "stale"},
                            expect : RequestTypes \cup {"NO_PDU"},
                            addr : 0 .. UNICAST_MAX, app_key : BOOLEAN,
                            bound : BOOLEAN, name : Nat]]
    /\ added \in [Devices -> 0 .. UNICAST_MAX]
    /\ node_uuid \in Devices \cup {NoUuid}
    /\ sems \in [unprov : Nat, added : Nat]

\* A PROV_FAILED PDU has reset the link, and the bearer has still to time out.
Ended == link.bearer = "open" /\ link.expect = "INVITE"

\* The link goes through the protocol.
Exchanging == link.bearer = "open" /\ link.expect # "INVITE"

\* The link that runs is that of prov_device.uuid: no other board has it up, and
\* main does not change it.
LinkInv ==
    /\ link.bearer \in {"idle", "opening"} \/ Ended => pdu = NoPdu
    /\ Exchanging \/ link.bearer = "closing" => link.active
    /\ Exchanging => prov_device.uuid \in Devices /\ link.expect \in ReplyTypes
    /\ link.bearer = "closing" => pdu = NoPdu /\ link.expect = "NO_PDU"
    /\ pc = "link_open" => link.bearer = "idle" \/ Ended
    /\ \A d \in Devices : dev[d].link = "up" =>
         /\ link.bearer # "idle"
         /\ Ended \/ prov_device.uuid = d

\* The PDU in flight is the request or the reply of the round, and a board that
\* reports PROV_COMPLETE has its address.
PduInv ==
    /\ pdu \in {NoPdu} \cup [to : {"dev"}, type : RequestTypes]
                       \cup [to : {"prov"}, type : ReplyTypes \cup {"FAILED"}]
    /\ pdu.to = "dev" => link.expect = Replies[Round(Requests, pdu.type)]
    /\ pdu.to = "prov" /\ pdu.type # "FAILED" => link.expect = pdu.type
    /\ pdu.to = "prov" /\ pdu.type = "COMPLETE" => dev[prov_device.uuid].addr # UNASSIGNED

\* prov_device.node is the node of the link, or points at a slot that is free.
NodeInv ==
    /\ nodes[0].uuid = Self /\ nodes[0].addr = SELF_ADDRESS
    /\ prov_device.node # 0
    /\ prov_device.node # NULL /\ nodes[prov_device.node].addr # UNASSIGNED =>
         /\ (Exchanging /\ link.expect # "CAPABILITIES") \/ link.bearer = "closing"
         /\ nodes[prov_device.node].uuid = prov_device.uuid
         /\ added[prov_device.uuid] = UNASSIGNED
    /\ Exchanging /\ link.expect # "CAPABILITIES" =>
         prov_device.node # NULL /\ nodes[prov_device.node].addr # UNASSIGNED

\* A board that has its address is not asked again: the main thread is not on its
\* way to open a link to it, and the link it has, if any, is at its end.
BoardInv ==
    \A d \in Devices : dev[d].addr # UNASSIGNED =>
      /\ ~BeaconPending(d)
      /\ prov_device.uuid = d =>
           /\ pc # "link_open" /\ link.bearer # "opening"
           /\ Exchanging => /\ link.expect = "COMPLETE" /\ dev[d].expect = "NO_PDU"
                            /\ pdu.to = "prov"
                            /\ dev[d].addr = nodes[prov_device.node].addr

\* What prov_complete reported.
AddedInv ==
    \A d \in Devices : added[d] # UNASSIGNED =>
      /\ dev[d].addr = added[d]
      /\ \E i \in Slots : nodes[i].uuid = d /\ nodes[i].addr = added[d]

\* Every node in the table has one element and an address of its own.
AddressInv ==
    /\ \A i \in Live(nodes) : nodes[i].num_elem = 1
    /\ \A i, j \in Live(nodes) : nodes[i].addr = nodes[j].addr => i = j

IInv == Typed /\ LinkInv /\ PduInv /\ NodeInv /\ BoardInv /\ AddedInv /\ AddressInv

\* What is needed of numbers, and is proved at the end of the module: the first of some
\* slots (FirstOf), and what snprintf makes of a number (FirstDigits).
NumberFacts ==
    /\ \A n \in Nat : \A S \in SUBSET (0 .. n) :
         S # {} => FirstOf(S) \in S /\ \A j \in S : FirstOf(S) <= j
    /\ \A n, max \in Nat : FirstDigits(n, max) \in Nat
    /\ \A max \in Nat : \A n \in 1 .. max : FirstDigits(n, max) = n

-----------------------------------------------------------------------------
(* The rounds of the protocol, and the node table. *)

\* The requests and the replies of the five rounds.
LEMMA RoundFacts ==
    /\ RequestTypes = {"INVITE", "PUB_KEY", "CONFIRM", "RANDOM", "DATA"}
    /\ ReplyTypes = {"CAPABILITIES", "PUB_KEY", "CONFIRM", "RANDOM", "COMPLETE"}
    /\ Replies[Round(Requests, "INVITE")] = "CAPABILITIES"
    /\ Requests[Round(Requests, "INVITE") + 1] = "PUB_KEY"
    /\ Replies[Round(Requests, "PUB_KEY")] = "PUB_KEY"
    /\ Requests[Round(Requests, "PUB_KEY") + 1] = "CONFIRM"
    /\ Replies[Round(Requests, "CONFIRM")] = "CONFIRM"
    /\ Requests[Round(Requests, "CONFIRM") + 1] = "RANDOM"
    /\ Replies[Round(Requests, "RANDOM")] = "RANDOM"
    /\ Requests[Round(Requests, "RANDOM") + 1] = "DATA"
    /\ Replies[Round(Requests, "DATA")] = "COMPLETE"
    /\ Replies[Round(Replies, "PUB_KEY") + 1] = "CONFIRM"
    /\ Requests[Round(Replies, "PUB_KEY") + 1] = "CONFIRM"
    /\ Replies[Round(Replies, "CONFIRM") + 1] = "RANDOM"
    /\ Requests[Round(Replies, "CONFIRM") + 1] = "RANDOM"
    /\ Replies[Round(Replies, "RANDOM") + 1] = "COMPLETE"
    /\ Requests[Round(Replies, "RANDOM") + 1] = "DATA"
<1>1. /\ Requests[1] = "INVITE" /\ Requests[2] = "PUB_KEY" /\ Requests[3] = "CONFIRM"
      /\ Requests[4] = "RANDOM" /\ Requests[5] = "DATA"
  BY Zenon DEF Requests
<1>2. /\ Replies[1] = "CAPABILITIES" /\ Replies[2] = "PUB_KEY" /\ Replies[3] = "CONFIRM"
      /\ Replies[4] = "RANDOM" /\ Replies[5] = "COMPLETE"
  BY Zenon DEF Replies
<1>3. Round(Requests, "INVITE") = 1
  BY <1>1 DEF Round
<1>4. Round(Requests, "PUB_KEY") = 2
  BY <1>1 DEF Round
<1>5. Round(Requests, "CONFIRM") = 3
  BY <1>1 DEF Round
<1>6. Round(Requests, "RANDOM") = 4
  BY <1>1 DEF Round
<1>7. Round(Requests, "DATA") = 5
  BY <1>1 DEF Round
<1>8. Round(Replies, "PUB_KEY") = 2
  BY <1>2 DEF Round
<1>9. Round(Replies, "CONFIRM") = 3
  BY <1>2 DEF Round
<1>10. Round(Replies, "RANDOM") = 4
  BY <1>2 DEF Round
<1>11. 1 .. 5 = {1, 2, 3, 4, 5}
  OBVIOUS
<1>12. /\ RequestTypes = {"INVITE", "PUB_KEY", "CONFIRM", "RANDOM", "DATA"}
       /\ ReplyTypes = {"CAPABILITIES", "PUB_KEY", "CONFIRM", "RANDOM", "COMPLETE"}
  BY <1>1, <1>2, <1>11 DEF RequestTypes, ReplyTypes
<1> QED BY <1>1, <1>2, <1>3, <1>4, <1>5, <1>6, <1>7, <1>8, <1>9, <1>10, <1>12

\* The first free or first conflicting slot is one of the slots it was chosen from.
LEMMA FirstSlot ==
    ASSUME NumberFacts, NEW S \in SUBSET Slots, S # {}
    PROVE  FirstOf(S) \in S
<1>1. NODE_COUNT - 1 \in Nat /\ S \in SUBSET (0 .. NODE_COUNT - 1)
  BY NodesAssumption DEF Slots
<1> QED BY <1>1, Zenon DEF NumberFacts

\* bt_mesh_cdb_node_alloc in a table of nodes with one element: nothing, or a node
\* in a free slot, with an address that no node of the table has.
LEMMA AllocFacts ==
    ASSUME NumberFacts, NEW ns \in [Slots -> Node], \A j \in Live(ns) : ns[j].num_elem = 1,
           NEW u \in Uuids, NEW a \in Nat,
           NEW k, k = alloc_slot(ns, a, 1),
           NEW t, t = node_alloc(ns, u, a, 1)
    PROVE  \/ k = NULL /\ t = ns
           \/ /\ k \in Slots /\ k # NULL /\ ns[k].addr = UNASSIGNED
              /\ a \in 1 .. UNICAST_MAX
              /\ \A j \in Live(ns) : ns[j].addr # a
              /\ t \in [Slots -> Node]
              /\ t[k] = [addr |-> a, num_elem |-> 1, uuid |-> u, configured |-> FALSE]
              /\ \A j \in Slots : j # k => t[j] = ns[j]
<1>1. CASE ~(addr_is_free(ns, a, 1) = "OK" /\ FreeSlots(ns) # {})
  BY <1>1, Zenon DEF alloc_slot, node_alloc
<1>2. CASE addr_is_free(ns, a, 1) = "OK" /\ FreeSlots(ns) # {}
  <2>1. k = FirstOf(FreeSlots(ns))
    BY <1>2, Zenon DEF alloc_slot
  <2>2. k \in FreeSlots(ns)
    BY <1>2, <2>1, FirstSlot, Zenon DEF FreeSlots
  <2>3. k \in Slots /\ k # NULL /\ ns[k].addr = UNASSIGNED
    BY <2>2, NodesAssumption DEF FreeSlots, Live, Slots, NULL
  <2>4. t = [ns EXCEPT ![k] = [addr |-> a, num_elem |-> 1, uuid |-> u,
                               configured |-> FALSE]]
    BY <2>1, <2>3, Zenon DEF node_alloc, fill_slot
  <2>5. ValidRange(a, 1) /\ Conflicts(ns, a, 1) = {}
    BY <1>2, Zenon DEF addr_is_free
  <2>6. a \in 1 .. UNICAST_MAX
    BY <2>5, NodesAssumption DEF ValidRange, IsUnicast
  <2>7. \A b \in 1 .. UNICAST_MAX : End(b, 1) = b
    BY NodesAssumption DEF End, Uint16
  <2>8. ASSUME NEW j \in Live(ns) PROVE ns[j].addr # a
    <3>1. ns[j].addr \in 1 .. UNICAST_MAX /\ ns[j].num_elem = 1
      BY NodesAssumption DEF Live, Node, UNASSIGNED
    <3>2. End(a, 1) = a /\ End(ns[j].addr, ns[j].num_elem) = ns[j].addr
      BY <2>6, <2>7, <3>1, Zenon
    <3> QED BY <2>5, <2>6, <3>1, <3>2 DEF Conflicts
  <2>9. [addr |-> a, num_elem |-> 1, uuid |-> u, configured |-> FALSE] \in Node
    BY <2>6, NodesAssumption DEF Node
  <2> QED BY <2>3, <2>4, <2>6, <2>8, <2>9, Zenon
<1> QED BY <1>1, <1>2, Zenon

-----------------------------------------------------------------------------
(* The invariant holds at the start. *)

\* The table at the start: the board itself, in the first slot.
LEMMA InitTable ==
    ASSUME NumberFacts, Init
    PROVE  /\ nodes \in [Slots -> Node]
           /\ nodes[0] = [addr |-> SELF_ADDRESS, num_elem |-> 1, uuid |-> Self,
                          configured |-> FALSE]
           /\ Live(nodes) \subseteq {0}
<1>1. InitNodes \in [Slots -> Node] /\ Live(InitNodes) = {}
  BY NodesAssumption DEF InitNodes, Node, Live, UNASSIGNED
<1>2. 0 \in Slots /\ SELF_ADDRESS \in Nat /\ Self \in Uuids
  BY NodesAssumption, ProvisioningAssumption DEF Slots
<1>3. addr_is_free(InitNodes, SELF_ADDRESS, 1) = "OK"
  <2>1. End(SELF_ADDRESS, 1) = SELF_ADDRESS
    BY NodesAssumption, ProvisioningAssumption DEF End, Uint16
  <2> QED BY <1>1, <2>1, NodesAssumption, ProvisioningAssumption
          DEF addr_is_free, ValidRange, IsUnicast, Conflicts
<1>4. FreeSlots(InitNodes) = Slots
  BY <1>1, Zenon DEF FreeSlots
<1>5. FirstOf(Slots) = 0
  <2>1. NODE_COUNT - 1 \in Nat
    BY NodesAssumption
  <2>2. FirstOf(Slots) \in Slots /\ \A j \in Slots : FirstOf(Slots) <= j
    BY <1>2, <2>1, Zenon DEF NumberFacts, Slots
  <2> QED BY <1>2, <2>2 DEF Slots
<1>6. nodes = [InitNodes EXCEPT ![0] = [addr |-> SELF_ADDRESS, num_elem |-> 1,
                                        uuid |-> Self, configured |-> FALSE]]
  BY <1>2, <1>3, <1>4, <1>5, NodesAssumption
  DEF Init, node_alloc, alloc_slot, fill_slot, NULL
<1>7. [addr |-> SELF_ADDRESS, num_elem |-> 1, uuid |-> Self, configured |-> FALSE] \in Node
  BY <1>2, NodesAssumption, ProvisioningAssumption DEF Node
<1> QED BY <1>1, <1>2, <1>6, <1>7, Zenon DEF Live, InitNodes

\* Nothing else has happened.
LEMMA InitInv ==
    ASSUME NumberFacts
    PROVE  Init => IInv
<1> SUFFICES ASSUME Init PROVE IInv
  BY Zenon
<1>8. /\ nodes \in [Slots -> Node]
      /\ nodes[0] = [addr |-> SELF_ADDRESS, num_elem |-> 1, uuid |-> Self,
                     configured |-> FALSE]
      /\ Live(nodes) \subseteq {0}
  BY InitTable, Zenon
<1>9. Typed
  BY <1>8, RoundFacts, NodesAssumption, ProvisioningAssumption
  DEF Init, Typed, UNASSIGNED
<1>10. LinkInv /\ PduInv
  BY RoundFacts, Zenon DEF Init, LinkInv, PduInv, Ended, Exchanging, NoPdu
<1>11. NodeInv /\ AddressInv
  BY <1>8, NodesAssumption DEF Init, NodeInv, AddressInv, Exchanging, NULL
<1>12. BoardInv /\ AddedInv
  BY Zenon DEF Init, BoardInv, AddedInv
<1> QED BY <1>9, <1>10, <1>11, <1>12, Zenon DEF IInv

-----------------------------------------------------------------------------
(* The steps of the main thread. *)

\* Who is in which slot stays.
SameNodes ==
    /\ nodes' \in [Slots -> Node]
    /\ \A i \in Slots : /\ nodes'[i].addr = nodes[i].addr
                        /\ nodes'[i].uuid = nodes[i].uuid
                        /\ nodes'[i].num_elem = nodes[i].num_elem

\* The steps of main that do not open a link.
LoopStep ==
    reset_unprov \/ reset_added \/ check_unconfigured \/ configure_node \/ take_unprov

\* Marking a node as configured does not move it.
LEMMA MarkFacts ==
    ASSUME nodes \in [Slots -> Node], NEW i \in Slots,
           nodes' = [nodes EXCEPT ![i].configured = TRUE]
    PROVE  SameNodes
BY Zenon DEF SameNodes, Node

\* What a step of the loop leaves alone: the link, the boards, and who is where.
LEMMA LoopStepFacts ==
    ASSUME IInv, LoopStep
    PROVE  /\ SameNodes /\ UNCHANGED <<linkVars, dev, added, node_uuid>>
           /\ record_count' \in Nat /\ slot' \in 0 .. NODE_COUNT
           /\ sems' \in [unprov : Nat, added : Nat]
           /\ pc' \in {"app_key", "bind", "flag", "name", "record"} => slot' \in Slots
           /\ pc' # "link_open"
           /\ \A d \in Devices : BeaconPending(d)' => BeaconPending(d)
<1>0. Typed
  BY Zenon DEF IInv
<1>1. nodes' = nodes => SameNodes
  BY <1>0, Zenon DEF SameNodes, Typed
<1>2. CASE reset_unprov
  BY <1>0, <1>1, <1>2 DEF reset_unprov, Goto, Typed, linkVars, BeaconPending
<1>3. CASE reset_added
  BY <1>0, <1>1, <1>3, NodesAssumption
  DEF reset_added, Goto, Typed, linkVars, BeaconPending
<1>4. CASE check_unconfigured
  <2>1. UNCHANGED <<linkVars, dev, added, node_uuid, record_count, sems>>
    BY <1>4, Zenon DEF check_unconfigured
  <2>2. /\ slot' \in 0 .. NODE_COUNT /\ (pc' = "app_key" => slot' \in Slots)
        /\ pc = "foreach" /\ pc' \in {"foreach", "app_key", "wait_unprov"}
    <3>1. slot \in 0 .. NODE_COUNT /\ NODE_COUNT \in Nat /\ Slots = 0 .. NODE_COUNT - 1
      BY <1>0, NodesAssumption, Zenon DEF Typed, Slots
    <3> QED BY <1>4, <3>1 DEF check_unconfigured, Goto
  <2>3. SameNodes
    <3>1. CASE nodes' = nodes
      BY <1>1, <3>1, Zenon
    <3>2. CASE /\ slot # NODE_COUNT
               /\ nodes' = [nodes EXCEPT ![slot].configured = TRUE]
      <4>1. slot \in Slots
        BY <1>0, <3>2, NodesAssumption DEF Typed, Slots
      <4> QED BY <1>0, <3>2, <4>1, MarkFacts, Zenon DEF Typed
    <3> QED BY <1>4, <3>1, <3>2, Zenon DEF check_unconfigured
  <2> QED BY <1>0, <2>1, <2>2, <2>3, Zenon DEF BeaconPending, Typed
<1>5. CASE configure_node
  <2>1. UNCHANGED <<linkVars, dev, added, node_uuid, sems>>
    BY <1>5, Zenon DEF configure_node
  <2>2. CASE /\ pc \in DOMAIN StepAfter /\ Goto(StepAfter[pc])
             /\ UNCHANGED <<slot, record_count, nodes>>
    <3>1. pc \in {"app_key", "bind", "name"} /\ pc' \in {"bind", "flag", "record"}
      BY <2>2 DEF StepAfter, Goto
    <3> QED BY <1>0, <1>1, <2>1, <2>2, <3>1, Zenon DEF BeaconPending, Typed
  <2>3. CASE /\ pc = "flag" /\ Goto("name")
             /\ nodes' = [nodes EXCEPT ![slot].configured = TRUE]
             /\ UNCHANGED <<slot, record_count>>
    <3>1. slot \in Slots
      BY <1>0, <2>3, Zenon DEF Typed
    <3>2. SameNodes
      BY <1>0, <2>3, <3>1, MarkFacts, Zenon DEF Typed
    <3> QED BY <1>0, <2>1, <2>3, <3>1, <3>2, Zenon DEF BeaconPending, Typed, Goto
  <2>4. CASE /\ pc = "record" /\ Goto("foreach") /\ record_count' = record_count + 1
             /\ slot' = slot + 1 /\ UNCHANGED nodes
    BY <1>0, <1>1, <2>1, <2>4, NodesAssumption DEF BeaconPending, Typed, Goto, Slots
  <2> QED BY <1>5, <2>2, <2>3, <2>4, Zenon DEF configure_node
<1>6. CASE take_unprov
  BY <1>0, <1>1, <1>6
  DEF take_unprov, Goto, Typed, linkVars, MainWaits, BeaconPending
<1> QED BY <1>2, <1>3, <1>4, <1>5, <1>6, Zenon DEF LoopStep

\* Then the same slots are in use, for the same boards and addresses.
LEMMA SlotsKept ==
    ASSUME Typed, SameNodes
    PROVE  /\ Live(nodes)' = Live(nodes) /\ nodes' \in [Slots -> Node]
           /\ \A i \in Slots : /\ nodes'[i].addr = nodes[i].addr
                               /\ nodes'[i].uuid = nodes[i].uuid
                               /\ nodes'[i].num_elem = nodes[i].num_elem
BY Zenon DEF Live, SameNodes

\* The loop may scan, configure and wait whatever the link does.
LEMMA LoopStepInv ==
    ASSUME IInv, LoopStep
    PROVE  IInv'
<1>1. /\ SameNodes /\ UNCHANGED <<linkVars, dev, added, node_uuid>>
      /\ record_count' \in Nat /\ slot' \in 0 .. NODE_COUNT
      /\ sems' \in [unprov : Nat, added : Nat]
      /\ pc' \in {"app_key", "bind", "flag", "name", "record"} => slot' \in Slots
      /\ pc' # "link_open"
      /\ \A d \in Devices : BeaconPending(d)' => BeaconPending(d)
  BY LoopStepFacts, Zenon
<1>2. UNCHANGED <<prov_device, link, pdu>>
  BY <1>1, Zenon DEF linkVars
<1>3. Typed /\ LinkInv /\ PduInv /\ NodeInv /\ BoardInv /\ AddedInv /\ AddressInv
  BY Zenon DEF IInv
<1>4. /\ Live(nodes)' = Live(nodes) /\ nodes' \in [Slots -> Node]
      /\ \A i \in Slots : /\ nodes'[i].addr = nodes[i].addr
                          /\ nodes'[i].uuid = nodes[i].uuid
                          /\ nodes'[i].num_elem = nodes[i].num_elem
  BY <1>1, <1>3, SlotsKept, Zenon
<1>5. Typed'
  BY <1>1, <1>2, <1>3, <1>4, Zenon DEF Typed
<1>6. LinkInv' /\ PduInv'
  BY <1>1, <1>2, <1>3, Zenon DEF LinkInv, PduInv, Ended, Exchanging
<1>7. NodeInv'
  <2>1. 0 \in Slots /\ prov_device.node \in Slots \cup {NULL}
    BY <1>3, NodesAssumption DEF Slots, Typed
  <2> QED BY <1>1, <1>2, <1>3, <1>4, <2>1, Zenon DEF NodeInv, Exchanging
<1>8. BoardInv'
  <2>1. prov_device.node \in Slots \cup {NULL}
    BY <1>3, Zenon DEF Typed
  <2> SUFFICES ASSUME NEW d \in Devices, dev'[d].addr # UNASSIGNED
               PROVE  /\ ~BeaconPending(d)'
                      /\ prov_device'.uuid = d =>
                           /\ pc' # "link_open" /\ link'.bearer # "opening"
                           /\ Exchanging' =>
                                /\ link'.expect = "COMPLETE" /\ dev'[d].expect = "NO_PDU"
                                /\ pdu'.to = "prov"
                                /\ dev'[d].addr = nodes'[prov_device'.node].addr
    BY Zenon DEF BoardInv
  <2>2. dev[d].addr # UNASSIGNED
    BY <1>1, Zenon
  <2>3. CASE Exchanging /\ prov_device.uuid = d
    <3>1. link.expect = "COMPLETE" /\ prov_device.node \in Slots
      BY <1>3, <2>1, <2>2, <2>3, Zenon DEF BoardInv, NodeInv
    <3> QED BY <1>1, <1>2, <1>3, <1>4, <2>2, <2>3, <3>1, Zenon DEF BoardInv, Exchanging
  <2>4. CASE ~(Exchanging /\ prov_device.uuid = d)
    BY <1>1, <1>2, <1>3, <2>2, <2>4, Zenon DEF BoardInv, Exchanging
  <2> QED BY <2>3, <2>4, Zenon
<1>9. AddedInv' /\ AddressInv'
  <2>1. Live(nodes) \subseteq Slots
    BY Zenon DEF Live
  <2> QED BY <1>1, <1>3, <1>4, <2>1 DEF AddedInv, AddressInv
<1> QED BY <1>5, <1>6, <1>7, <1>8, <1>9, Zenon DEF IInv

\* bt_mesh_pb_adv_open: prov_device gets another board only when no link runs.
LEMMA OpenFacts ==
    ASSUME Open
    PROVE  /\ pc = "open" /\ UNCHANGED <<slot, record_count, nodes, dev_key, pdu, dev, msgs,
                                         added, sems, node_uuid, slow>>
           /\ \/ pc' = "reset_unprov" /\ UNCHANGED <<link, prov_device>>
              \/ /\ pc' = "link_open" /\ ~link.active
                 /\ link' = [link EXCEPT !.active = TRUE]
                 /\ \E u \in {node_uuid, NoUuid} :
                      prov_device' = [prov_device EXCEPT !.uuid = u,
                                        !.addr = FirstDigit(record_count)]
<1>1. PICK u \in {node_uuid, NoUuid} : pb_adv_open(u)
  BY Zenon DEF Open
<1> QED BY <1>1, Zenon DEF pb_adv_open, MainWaits, Goto

\* A link is only opened when none runs, so the board that has one keeps it.
LEMMA OpenInv ==
    ASSUME NumberFacts, IInv, OpensAlone, Open
    PROVE  IInv'
<1>1. Typed /\ LinkInv /\ PduInv /\ NodeInv /\ BoardInv /\ AddedInv /\ AddressInv
  BY Zenon DEF IInv
<1>2. pc = "open" /\ UNCHANGED <<slot, record_count, nodes, pdu, dev, added, sems, node_uuid>>
  BY OpenFacts, Zenon
<1>3. AddedInv' /\ AddressInv'
  BY <1>1, <1>2, Zenon DEF AddedInv, AddressInv, Live
<1>4. CASE pc' = "reset_unprov" /\ UNCHANGED <<link, prov_device>>
  <2>1. Typed' /\ LinkInv' /\ PduInv'
    BY <1>1, <1>2, <1>4 DEF Typed, LinkInv, PduInv, Ended, Exchanging
  <2>2. NodeInv' /\ BoardInv'
    BY <1>1, <1>2, <1>4, Zenon DEF NodeInv, BoardInv, Exchanging, BeaconPending
  <2> QED BY <1>3, <2>1, <2>2, Zenon DEF IInv
<1>5. ASSUME NEW u \in {node_uuid, NoUuid}, pc' = "link_open", ~link.active,
             link' = [link EXCEPT !.active = TRUE],
             prov_device' = [prov_device EXCEPT !.uuid = u,
                               !.addr = FirstDigit(record_count)]
      PROVE  IInv'
  <2>1. /\ link' \in [active : BOOLEAN, slow : BOOLEAN,
                      bearer : {"idle", "opening", "open", "closing"},
                      expect : ReplyTypes \cup {"INVITE", "NO_PDU"}]
        /\ link'.bearer = link.bearer /\ link'.expect = link.expect /\ link'.active
    BY <1>1, <1>5, Zenon DEF Typed
  <2>2. link.bearer = "idle" \/ Ended
    BY <1>1, <1>2, <1>5, Zenon DEF OpensAlone, LinkInv, Exchanging, Ended, Typed
  <2>3. FirstDigit(record_count) \in Nat
    BY <1>1, Zenon DEF NumberFacts, Typed, FirstDigit
  <2>4. /\ prov_device'.uuid = u /\ prov_device'.node = prov_device.node
        /\ prov_device' \in [node : Slots \cup {NULL}, uuid : Devices \cup {NoUuid},
                             addr : Nat]
    BY <1>1, <1>5, <2>3, Zenon DEF Typed
  <2>5. Typed'
    BY <1>1, <1>2, <1>5, <2>1, <2>4, Zenon DEF Typed
  <2>6. LinkInv' /\ PduInv'
    <3>1. pdu = NoPdu
      BY <1>1, <2>2, Zenon DEF LinkInv
    <3>2. LinkInv'
      BY <1>1, <1>2, <2>1, <2>2, Zenon DEF LinkInv, Ended, Exchanging
    <3>3. PduInv'
      BY <1>2, <3>1, Zenon DEF PduInv, NoPdu
    <3> QED BY <3>2, <3>3, Zenon
  <2>7. NodeInv'
    BY <1>1, <1>2, <2>1, <2>2, <2>4, Zenon DEF NodeInv, Ended, Exchanging
  <2>8. BoardInv'
    <3> SUFFICES ASSUME NEW d \in Devices, dev[d].addr # UNASSIGNED
                 PROVE  ~BeaconPending(d)' /\ prov_device'.uuid # d
      BY <1>2, Zenon DEF BoardInv
    <3>1. ~BeaconPending(d)
      BY <1>1, Zenon DEF BoardInv
    <3>2. node_uuid # d
      BY <1>2, <3>1, Zenon DEF BeaconPending
    <3> QED BY <1>2, <1>5, <2>4, <3>2, NodesAssumption, Zenon DEF BeaconPending, Devices
  <2> QED BY <1>3, <2>5, <2>6, <2>7, <2>8, Zenon DEF IInv
<1> QED BY <1>4, <1>5, OpenFacts, Zenon

\* prov_link_open starts the bearer, or finds it in use and gives up.
LEMMA LinkOpenInv ==
    ASSUME IInv, link_open
    PROVE  IInv'
<1>1. Typed /\ LinkInv /\ PduInv /\ NodeInv /\ BoardInv /\ AddedInv /\ AddressInv
  BY Zenon DEF IInv
<1>2. /\ pc = "link_open" /\ pc' \in {"reset_unprov", "wait_added"}
      /\ UNCHANGED <<slot, record_count, nodes, pdu, dev, added, sems, node_uuid, prov_device>>
  BY Zenon DEF link_open, MainWaits, Goto
<1>3. AddedInv' /\ AddressInv'
  BY <1>1, <1>2, Zenon DEF AddedInv, AddressInv, Live
<1>4. \/ /\ link.bearer # "idle" /\ link'.bearer = link.bearer
      \/ link.bearer = "idle" /\ link'.bearer = "opening"
  BY <1>1, Zenon DEF link_open, Typed
<1>5. /\ link'.expect = link.expect
      /\ link' \in [active : BOOLEAN, slow : BOOLEAN,
                    bearer : {"idle", "opening", "open", "closing"},
                    expect : ReplyTypes \cup {"INVITE", "NO_PDU"}]
  BY <1>1, ZenonT(40) DEF link_open, Typed
<1>6. Typed'
  BY <1>1, <1>2, <1>5, Zenon DEF Typed
<1>7. LinkInv' /\ PduInv'
  BY <1>1, <1>2, <1>4, <1>5, Zenon DEF LinkInv, PduInv, Ended, Exchanging
<1>8. NodeInv' /\ BoardInv'
  BY <1>1, <1>2, <1>4, <1>5, Zenon DEF NodeInv, BoardInv, LinkInv, Ended, Exchanging, BeaconPending
<1> QED BY <1>3, <1>6, <1>7, <1>8, Zenon DEF IInv

\* The end of the wait marks the link and leaves it alone.
LEMMA TakeAddedInv ==
    ASSUME IInv, take_added
    PROVE  IInv'
<1>1. Typed /\ LinkInv /\ PduInv /\ NodeInv /\ BoardInv /\ AddedInv /\ AddressInv
  BY Zenon DEF IInv
<1>2. /\ pc = "wait_added" /\ pc' = "reset_unprov"
      /\ UNCHANGED <<slot, record_count, nodes, pdu, dev, added, node_uuid, prov_device>>
      /\ sems' \in [unprov : Nat, added : Nat] /\ sems'.unprov = sems.unprov
  BY <1>1 DEF take_added, MainWaits, Goto, Typed
<1>3. /\ link'.bearer = link.bearer /\ link'.expect = link.expect
      /\ link'.active = link.active
      /\ link' \in [active : BOOLEAN, slow : BOOLEAN,
                    bearer : {"idle", "opening", "open", "closing"},
                    expect : ReplyTypes \cup {"INVITE", "NO_PDU"}]
  BY <1>1, Zenon DEF take_added, Typed
<1>4. Typed' /\ AddedInv' /\ AddressInv'
  BY <1>1, <1>2, <1>3 DEF Typed, AddedInv, AddressInv, Live
<1>5. LinkInv' /\ PduInv'
  BY <1>1, <1>2, <1>3 DEF LinkInv, PduInv, Ended, Exchanging
<1>6. NodeInv' /\ BoardInv'
  BY <1>1, <1>2, <1>3, Zenon DEF NodeInv, BoardInv, Exchanging, BeaconPending
<1> QED BY <1>4, <1>5, <1>6, Zenon DEF IInv

-----------------------------------------------------------------------------
(* The steps of the link. *)

\* reset_state deletes the node that prov_device.node points at, if it is one.
LEMMA ResetFacts ==
    ASSUME Typed, NEW t, reset_state(t)
    PROVE  /\ nodes' \in [Slots -> Node]
           /\ \A i \in Slots : /\ nodes'[i].uuid = nodes[i].uuid
                               /\ nodes'[i].num_elem = nodes[i].num_elem
                               /\ nodes'[i].addr \in {nodes[i].addr, UNASSIGNED}
                               /\ i # prov_device.node => nodes'[i] = nodes[i]
           /\ prov_device.node # NULL => nodes'[prov_device.node].addr = UNASSIGNED
           /\ link' = [active |-> FALSE, slow |-> link.slow, bearer |-> t,
                       expect |-> "INVITE"]
<1>1. link' = [active |-> FALSE, slow |-> link.slow, bearer |-> t, expect |-> "INVITE"]
  BY Zenon DEF reset_state
<1>2. CASE prov_device.node = NULL
  BY <1>1, <1>2, Zenon DEF reset_state, Typed
<1>3. CASE prov_device.node # NULL
  <2>1. prov_device.node \in Slots
    BY <1>3, Zenon DEF Typed
  <2>2. nodes' = [nodes EXCEPT ![prov_device.node].addr = UNASSIGNED]
    BY <1>3, Zenon DEF reset_state, node_del
  <2>3. nodes \in [Slots -> Node] /\ UNASSIGNED \in 0 .. UNICAST_MAX
    BY NodesAssumption DEF Typed, UNASSIGNED
  <2> HIDE DEF Typed
  <2> QED BY <1>1, <2>1, <2>2, <2>3 DEF Node
<1> QED BY <1>2, <1>3, Zenon

\* The reset of a link deletes the node of a board that has not been added, and
\* no other.
LEMMA ResetInv ==
    ASSUME IInv, NEW t \in {"idle", "opening", "open", "closing"}, reset_state(t),
           t \in {"idle", "open"},
           UNCHANGED <<mainVars, sems, prov_device, added>>, pdu' = NoPdu,
           dev' \in [Devices -> [link : {"none", "up", "stale"},
                                 expect : RequestTypes \cup {"NO_PDU"},
                                 addr : 0 .. UNICAST_MAX, app_key : BOOLEAN,
                                 bound : BOOLEAN, name : Nat]],
           \A d \in Devices : dev'[d].addr = dev[d].addr,
           t = "idle" => \A d \in Devices : dev'[d].link # "up",
           t = "open" => link.bearer = "open"
    PROVE  IInv'
<1>1. Typed /\ LinkInv /\ PduInv /\ NodeInv /\ BoardInv /\ AddedInv /\ AddressInv
  BY Zenon DEF IInv
<1>2. /\ nodes' \in [Slots -> Node]
      /\ \A i \in Slots : /\ nodes'[i].uuid = nodes[i].uuid
                          /\ nodes'[i].num_elem = nodes[i].num_elem
                          /\ nodes'[i].addr \in {nodes[i].addr, UNASSIGNED}
                          /\ i # prov_device.node => nodes'[i] = nodes[i]
      /\ prov_device.node # NULL => nodes'[prov_device.node].addr = UNASSIGNED
      /\ link' = [active |-> FALSE, slow |-> link.slow, bearer |-> t,
                  expect |-> "INVITE"]
  BY <1>1, ResetFacts, Zenon
<1>3. UNCHANGED <<pc, slot, node_uuid, record_count>>
  BY Zenon DEF mainVars
<1>4. link'.bearer = t /\ link'.expect = "INVITE" /\ ~link'.active /\ link'.slow = link.slow
  BY <1>2, Zenon
<1>5. Typed'
  BY <1>1, <1>2, <1>3, Zenon DEF Typed
<1>6. LinkInv' /\ PduInv'
  BY <1>1, <1>3, <1>4, Zenon DEF LinkInv, PduInv, Ended, Exchanging, NoPdu
<1>7. NodeInv'
  <2>1. 0 \in Slots
    BY NodesAssumption DEF Slots
  <2> QED BY <1>1, <1>2, <1>4, <2>1, Zenon DEF NodeInv, Exchanging
<1>8. BoardInv'
  BY <1>1, <1>3, <1>4, Zenon DEF BoardInv, Exchanging, BeaconPending
<1>9. AddedInv'
  <2> SUFFICES ASSUME NEW d \in Devices, added[d] # UNASSIGNED
               PROVE  /\ dev'[d].addr = added[d]
                      /\ \E i \in Slots : nodes'[i].uuid = d /\ nodes'[i].addr = added[d]
    BY Zenon DEF AddedInv
  <2>1. PICK i \in Slots : nodes[i].uuid = d /\ nodes[i].addr = added[d]
    BY <1>1, Zenon DEF AddedInv
  <2>2. i # prov_device.node
    BY <1>1, <2>1, NodesAssumption DEF NodeInv, NULL, Slots
  <2> QED BY <1>1, <1>2, <2>1, <2>2 DEF AddedInv
<1>10. AddressInv'
  BY <1>1, <1>2 DEF AddressInv, Live
<1> QED BY <1>5, <1>6, <1>7, <1>8, <1>9, <1>10, Zenon DEF IInv

\* close_link, at the end of the close message or of a timeout.
LEMMA CloseInv ==
    ASSUME IInv, close_link
    PROVE  IInv'
<1>1. Typed
  BY Zenon DEF IInv
<1>2. /\ reset_state("idle") /\ pdu' = NoPdu
      /\ UNCHANGED <<mainVars, sems, prov_device, added>>
      /\ dev' = [d \in Devices |->
                   IF dev[d].link = "up" THEN [dev[d] EXCEPT !.link = "stale"]
                   ELSE dev[d]]
  BY Zenon DEF close_link
<1>3. /\ dev' \in [Devices -> [link : {"none", "up", "stale"},
                               expect : RequestTypes \cup {"NO_PDU"},
                               addr : 0 .. UNICAST_MAX, app_key : BOOLEAN,
                               bound : BOOLEAN, name : Nat]]
      /\ \A d \in Devices : dev'[d].addr = dev[d].addr /\ dev'[d].link # "up"
  <2>1. dev \in [Devices -> [link : {"none", "up", "stale"},
                             expect : RequestTypes \cup {"NO_PDU"},
                             addr : 0 .. UNICAST_MAX, app_key : BOOLEAN,
                             bound : BOOLEAN, name : Nat]]
    BY <1>1, Zenon DEF Typed
  <2> QED BY <1>2, <2>1
<1> QED BY <1>2, <1>3, ResetInv, Zenon

\* A PROV_FAILED PDU, which ends the exchange and leaves the bearer open.
LEMMA ProvFailedInv ==
    ASSUME IInv, prov_failed
    PROVE  IInv'
<1>1. Typed /\ LinkInv
  BY Zenon DEF IInv
<1>2. /\ reset_state(link.bearer) /\ pdu' = NoPdu /\ pdu.to = "prov"
      /\ UNCHANGED <<mainVars, sems, prov_device, added, dev>>
  BY Zenon DEF prov_failed
<1>3. link.bearer = "open"
  BY <1>1, <1>2 DEF LinkInv, Typed, NoPdu
<1>4. reset_state("open")
  BY <1>2, <1>3, Zenon
<1> QED BY <1>1, <1>2, <1>3, <1>4, ResetInv, Zenon DEF Typed

\* A PDU is in flight only while a link goes through the protocol.
LEMMA PduFacts ==
    ASSUME IInv, pdu.to \in {"dev", "prov"}
    PROVE  /\ link.bearer = "open" /\ link.expect # "INVITE" /\ link.active
           /\ Exchanging /\ ~Ended /\ pc # "link_open"
           /\ prov_device.uuid \in Devices /\ link.expect \in ReplyTypes
<1>1. Typed /\ LinkInv
  BY Zenon DEF IInv
<1> QED BY <1>1 DEF LinkInv, Typed, Ended, Exchanging, NoPdu

\* LINK_ACK: the board that answered is the one that was asked.
LEMMA LinkAckInv ==
    ASSUME IInv, link_ack
    PROVE  IInv'
<1>1. Typed /\ LinkInv /\ PduInv /\ NodeInv /\ BoardInv /\ AddedInv /\ AddressInv
  BY Zenon DEF IInv
<1>2. /\ link.bearer = "opening" /\ pdu' = [to |-> "dev", type |-> "INVITE"]
      /\ UNCHANGED <<pc, slot, node_uuid, record_count, sems, nodes, prov_device, dev, added>>
  BY Zenon DEF link_ack, mainVars
<1>3. PICK d \in Devices : dev[d].link = "up"
  BY Zenon DEF link_ack
<1>4. /\ link' \in [active : BOOLEAN, slow : BOOLEAN,
                    bearer : {"idle", "opening", "open", "closing"},
                    expect : ReplyTypes \cup {"INVITE", "NO_PDU"}]
      /\ link'.bearer = "open" /\ link'.expect = "CAPABILITIES" /\ link'.active
  BY <1>1, RoundFacts, Zenon DEF link_ack, Typed
<1>5. prov_device.uuid = d
  BY <1>1, <1>2, <1>3, Zenon DEF LinkInv, Ended
<1>6. Typed' /\ AddedInv' /\ AddressInv'
  BY <1>1, <1>2, <1>4 DEF Typed, AddedInv, AddressInv, Live
<1>7. LinkInv' /\ PduInv'
  BY <1>1, <1>2, <1>4, <1>5, RoundFacts DEF LinkInv, PduInv, Ended, Exchanging
<1>8. NodeInv' /\ BoardInv'
  BY <1>1, <1>2, <1>4, Zenon DEF NodeInv, BoardInv, Exchanging, BeaconPending
<1> QED BY <1>6, <1>7, <1>8, Zenon DEF IInv

\* prov_fail and the close of the link, whatever has been exchanged.
LEMMA ClosingFacts ==
    ASSUME Typed, link' = Closing
    PROVE  /\ link' \in [active : BOOLEAN, slow : BOOLEAN,
                         bearer : {"idle", "opening", "open", "closing"},
                         expect : ReplyTypes \cup {"INVITE", "NO_PDU"}]
           /\ link'.bearer = "closing" /\ link'.expect = "NO_PDU"
           /\ link'.active = link.active /\ link'.slow = link.slow
BY Zenon DEF Typed, Closing

\* An error in a handler of the provisioner closes the link.
LEMMA ProvFailInv ==
    ASSUME IInv, prov_fail
    PROVE  IInv'
<1>1. Typed /\ LinkInv /\ PduInv /\ NodeInv /\ BoardInv /\ AddedInv /\ AddressInv
  BY Zenon DEF IInv
<1>2. /\ pdu.to = "prov" /\ pdu' = NoPdu /\ link' = Closing
      /\ UNCHANGED <<pc, slot, node_uuid, record_count, sems, nodes, prov_device, dev, added>>
  BY Zenon DEF prov_fail, mainVars
<1>3. /\ link.bearer = "open" /\ Exchanging /\ ~Ended /\ pc # "link_open" /\ link.active
  BY <1>2, PduFacts, Zenon
<1>4. /\ link' \in [active : BOOLEAN, slow : BOOLEAN,
                    bearer : {"idle", "opening", "open", "closing"},
                    expect : ReplyTypes \cup {"INVITE", "NO_PDU"}]
      /\ link'.bearer = "closing" /\ link'.expect = "NO_PDU" /\ link'.active
  BY <1>1, <1>2, <1>3, ClosingFacts, Zenon
<1>5. Typed' /\ AddedInv' /\ AddressInv'
  BY <1>1, <1>2, <1>4 DEF Typed, AddedInv, AddressInv, Live
<1>6. LinkInv' /\ PduInv'
  BY <1>1, <1>2, <1>3, <1>4, Zenon DEF LinkInv, PduInv, Ended, Exchanging, NoPdu
<1>7. NodeInv' /\ BoardInv'
  BY <1>1, <1>2, <1>3, <1>4, Zenon DEF NodeInv, BoardInv, Exchanging, BeaconPending
<1> QED BY <1>5, <1>6, <1>7, Zenon DEF IInv

\* A round that the provisioner has the reply of, and the request of the next.
LEMMA NextRequestInv ==
    ASSUME IInv, NEW t \in {"PUB_KEY", "CONFIRM", "RANDOM"}, NextRequest(t)
    PROVE  IInv'
<1>1. Typed /\ LinkInv /\ PduInv /\ NodeInv /\ BoardInv /\ AddedInv /\ AddressInv
  BY Zenon DEF IInv
<1>2. /\ pdu.to = "prov" /\ link.expect = t
      /\ UNCHANGED <<pc, slot, node_uuid, record_count, sems, nodes, prov_device, dev, added>>
  BY Zenon DEF NextRequest, Expected, mainVars
<1>3. /\ link.bearer = "open" /\ Exchanging /\ ~Ended /\ pc # "link_open" /\ link.active
      /\ prov_device.uuid \in Devices
  BY <1>2, PduFacts, Zenon
<1>4. PICK r \in {"CONFIRM", "RANDOM", "DATA"} :
        /\ pdu' = [to |-> "dev", type |-> r]
        /\ link' = [link EXCEPT !.expect = Replies[Round(Requests, r)]]
  BY RoundFacts, Zenon DEF NextRequest
<1>5. /\ Replies[Round(Requests, r)] \in ReplyTypes \ {"CAPABILITIES"}
      /\ r \in RequestTypes
  BY RoundFacts, Zenon
<1>6. /\ link' \in [active : BOOLEAN, slow : BOOLEAN,
                    bearer : {"idle", "opening", "open", "closing"},
                    expect : ReplyTypes \cup {"INVITE", "NO_PDU"}]
      /\ link'.bearer = "open" /\ link'.active
      /\ link'.expect = Replies[Round(Requests, r)]
  BY <1>1, <1>3, <1>4, <1>5, Zenon DEF Typed
<1>7. link'.expect \in ReplyTypes \ {"CAPABILITIES"} /\ link'.expect # "INVITE"
  BY <1>5, <1>6, RoundFacts, Zenon
<1>8. Typed' /\ AddedInv' /\ AddressInv'
  BY <1>1, <1>2, <1>6 DEF Typed, AddedInv, AddressInv, Live
<1>9. LinkInv'
  BY <1>1, <1>2, <1>3, <1>6, <1>7, Zenon DEF LinkInv, Ended, Exchanging
<1>10. PduInv'
  BY <1>4, <1>5, <1>6, Zenon DEF PduInv
<1>11. NodeInv' /\ BoardInv'
  BY <1>1, <1>2, <1>3, <1>6, <1>7, Zenon DEF NodeInv, BoardInv, Exchanging, BeaconPending
<1> QED BY <1>8, <1>9, <1>10, <1>11, Zenon DEF IInv

\* prov_capabilities takes a free slot for a board that is not in the table, or
\* gives up.
LEMMA CapabilitiesInv ==
    ASSUME NumberFacts, IInv, prov_capabilities
    PROVE  IInv'
<1> DEFINE k == alloc_slot(nodes, prov_device.addr, 1)
           u == prov_device.uuid
<1>1. Typed /\ LinkInv /\ PduInv /\ NodeInv /\ BoardInv /\ AddedInv /\ AddressInv
  BY Zenon DEF IInv
<1>2. /\ pdu.to = "prov" /\ link.expect = "CAPABILITIES"
      /\ prov_device' = [prov_device EXCEPT !.node = k]
      /\ nodes' = node_alloc(nodes, u, prov_device.addr, 1)
      /\ \/ k = NULL /\ link' = Closing /\ pdu' = NoPdu
         \/ /\ k # NULL /\ link' = [link EXCEPT !.expect = "PUB_KEY"]
            /\ pdu' = [to |-> "dev", type |-> "PUB_KEY"]
      /\ UNCHANGED <<pc, slot, node_uuid, record_count, sems, dev, added>>
  BY Zenon DEF prov_capabilities, Expected, mainVars
<1>3. /\ link.bearer = "open" /\ Exchanging /\ ~Ended /\ pc # "link_open" /\ link.active
      /\ u \in Devices /\ u \in Uuids
  BY <1>2, PduFacts, Zenon DEF Devices
<1>4. dev[u].addr = UNASSIGNED /\ added[u] = UNASSIGNED
  BY <1>1, <1>2, <1>3, Zenon DEF BoardInv, AddedInv
<1>5. \/ k = NULL /\ nodes' = nodes
      \/ /\ k \in Slots /\ k # NULL /\ nodes[k].addr = UNASSIGNED
         /\ prov_device.addr \in 1 .. UNICAST_MAX
         /\ \A j \in Live(nodes) : nodes[j].addr # prov_device.addr
         /\ nodes' \in [Slots -> Node]
         /\ nodes'[k] = [addr |-> prov_device.addr, num_elem |-> 1, uuid |-> u,
                         configured |-> FALSE]
         /\ \A j \in Slots : j # k => nodes'[j] = nodes[j]
  <2>1. nodes \in [Slots -> Node] /\ prov_device.addr \in Nat
    BY <1>1, Zenon DEF Typed
  <2>2. \A j \in Live(nodes) : nodes[j].num_elem = 1
    BY <1>1, Zenon DEF AddressInv
  <2> QED BY <1>2, <1>3, <2>1, <2>2, AllocFacts
<1> HIDE DEF k, u
<1>6. CASE k = NULL
  <2>1. nodes' = nodes /\ pdu' = NoPdu
    BY <1>2, <1>5, <1>6, Zenon
  <2>2. /\ link' \in [active : BOOLEAN, slow : BOOLEAN,
                      bearer : {"idle", "opening", "open", "closing"},
                      expect : ReplyTypes \cup {"INVITE", "NO_PDU"}]
        /\ link'.bearer = "closing" /\ link'.expect = "NO_PDU" /\ link'.active
    BY <1>1, <1>2, <1>3, <1>6, ClosingFacts, Zenon
  <2>3. /\ prov_device'.node = NULL /\ prov_device'.uuid = prov_device.uuid
        /\ prov_device' \in [node : Slots \cup {NULL}, uuid : Devices \cup {NoUuid},
                             addr : Nat]
    BY <1>1, <1>2, <1>6, Zenon DEF Typed
  <2>4. Typed' /\ AddedInv' /\ AddressInv'
    BY <1>1, <1>2, <2>1, <2>2, <2>3 DEF Typed, AddedInv, AddressInv, Live
  <2>5. LinkInv' /\ PduInv'
    BY <1>1, <1>2, <1>3, <2>1, <2>2, <2>3, Zenon DEF LinkInv, PduInv, Ended, Exchanging, NoPdu
  <2>6. NodeInv' /\ BoardInv'
    BY <1>1, <1>2, <1>3, <2>1, <2>2, <2>3, NodesAssumption
    DEF NodeInv, BoardInv, Exchanging, BeaconPending, NULL
  <2> QED BY <2>4, <2>5, <2>6, Zenon DEF IInv
<1>7. CASE k # NULL
  <2>1. /\ k \in Slots /\ nodes[k].addr = UNASSIGNED /\ prov_device.addr \in 1 .. UNICAST_MAX
        /\ nodes' \in [Slots -> Node]
        /\ nodes'[k].addr = prov_device.addr /\ nodes'[k].uuid = u
        /\ nodes'[k].num_elem = 1 /\ nodes'[k].addr # UNASSIGNED
        /\ \A j \in Slots : j # k => nodes'[j] = nodes[j]
    BY <1>5, <1>7 DEF UNASSIGNED
  <2>2. /\ link' \in [active : BOOLEAN, slow : BOOLEAN,
                      bearer : {"idle", "opening", "open", "closing"},
                      expect : ReplyTypes \cup {"INVITE", "NO_PDU"}]
        /\ link'.bearer = "open" /\ link'.expect = "PUB_KEY" /\ link'.active
    BY <1>1, <1>2, <1>3, <1>7, RoundFacts DEF Typed
  <2>3. /\ prov_device'.node = k /\ prov_device'.uuid = u
        /\ prov_device' \in [node : Slots \cup {NULL}, uuid : Devices \cup {NoUuid},
                             addr : Nat]
    BY <1>1, <1>2, <1>7, <2>1, Zenon DEF Typed, u
  <2>4. Typed'
    BY <1>1, <1>2, <2>1, <2>2, <2>3, Zenon DEF Typed
  <2>5. AddressInv'
    <3>1. Live(nodes)' = Live(nodes) \cup {k}
      BY <2>1, Zenon DEF Live
    <3>2. Live(nodes) \subseteq Slots /\ k \notin Live(nodes)
      BY <2>1, Zenon DEF Live
    <3>3. \A j \in Live(nodes) : nodes[j].addr # prov_device.addr /\ nodes'[j] = nodes[j]
      BY <1>5, <1>7, <3>2, Zenon
    <3> QED BY <1>1, <2>1, <3>1, <3>2, <3>3 DEF AddressInv
  <2>6. AddedInv'
    BY <1>1, <1>2, <2>1 DEF AddedInv
  <2>7. LinkInv'
    BY <1>1, <1>2, <1>3, <2>2, <2>3, RoundFacts DEF LinkInv, Ended, Exchanging, u
  <2>8. PduInv'
    BY <1>2, <1>7, <2>2, RoundFacts DEF PduInv
  <2>9. NodeInv'
    <3>1. 0 \in Slots /\ nodes[0].addr # UNASSIGNED
      BY <1>1, NodesAssumption, ProvisioningAssumption DEF Slots, NodeInv, UNASSIGNED
    <3>2. k # 0
      BY <2>1, <3>1, Zenon
    <3>3. nodes'[0] = nodes[0] /\ nodes'[k].uuid = u /\ nodes'[k].addr # UNASSIGNED
      BY <2>1, <3>1, <3>2, Zenon
    <3>4. /\ prov_device'.node # NULL /\ prov_device'.node # 0 /\ Exchanging'
          /\ link'.expect # "CAPABILITIES"
      BY <1>7, <2>2, <2>3, <3>2, Zenon DEF Exchanging
    <3>5. added'[prov_device'.uuid] = UNASSIGNED
      BY <1>2, <1>4, <2>3, Zenon
    <3>6. nodes[0].uuid = Self /\ nodes[0].addr = SELF_ADDRESS
      BY <1>1, Zenon DEF NodeInv
    <3> QED BY <2>3, <3>3, <3>4, <3>5, <3>6, Zenon DEF NodeInv
  <2>10. BoardInv'
    BY <1>1, <1>2, <1>4, <2>3, Zenon DEF BoardInv, BeaconPending
  <2> QED BY <2>4, <2>5, <2>6, <2>7, <2>8, <2>9, <2>10, Zenon DEF IInv
<1> QED BY <1>6, <1>7, Zenon

\* prov_complete reports the board of the link, whose node it lets go.
LEMMA CompleteInv ==
    ASSUME IInv, prov_complete
    PROVE  IInv'
<1> DEFINE n == prov_device.node
           u == prov_device.uuid
<1>1. Typed /\ LinkInv /\ PduInv /\ NodeInv /\ BoardInv /\ AddedInv /\ AddressInv
  BY Zenon DEF IInv
<1>2. /\ pdu.to = "prov" /\ pdu.type = "COMPLETE" /\ link.expect = "COMPLETE"
      /\ prov_device' = [prov_device EXCEPT !.node = NULL]
      /\ link' = Closing /\ pdu' = NoPdu
      /\ added' = [added EXCEPT ![nodes[n].uuid] = nodes[n].addr]
      /\ UNCHANGED <<pc, slot, node_uuid, record_count, nodes, dev>>
      /\ sems' = [sems EXCEPT !.added = Give(@)]
  BY Zenon DEF prov_complete, Expected, mainVars, ForgetNode
<1>3. /\ link.bearer = "open" /\ Exchanging /\ ~Ended /\ pc # "link_open" /\ link.active
      /\ u \in Devices
  BY <1>2, PduFacts, Zenon
<1>4. /\ n # NULL /\ n \in Slots /\ nodes[n].addr # UNASSIGNED /\ nodes[n].uuid = u
      /\ nodes[n].addr \in 0 .. UNICAST_MAX
  BY <1>1, <1>2, <1>3, Zenon DEF NodeInv, Typed, Node
<1>5. dev[u].addr = nodes[n].addr
  BY <1>1, <1>2, <1>3, Zenon DEF PduInv, BoardInv
<1>6. /\ link' \in [active : BOOLEAN, slow : BOOLEAN,
                    bearer : {"idle", "opening", "open", "closing"},
                    expect : ReplyTypes \cup {"INVITE", "NO_PDU"}]
      /\ link'.bearer = "closing" /\ link'.expect = "NO_PDU" /\ link'.active
  BY <1>1, <1>2, <1>3, ClosingFacts, Zenon
<1>7. /\ prov_device'.node = NULL /\ prov_device'.uuid = prov_device.uuid
      /\ prov_device' \in [node : Slots \cup {NULL}, uuid : Devices \cup {NoUuid},
                           addr : Nat]
  BY <1>1, <1>2, Zenon DEF Typed
<1>8. /\ added' \in [Devices -> 0 .. UNICAST_MAX] /\ added'[u] = nodes[n].addr
      /\ \A d \in Devices : d # u => added'[d] = added[d]
  BY <1>1, <1>2, <1>3, <1>4, Zenon DEF Typed
<1>9. Typed'
  <2>1. sems' \in [unprov : Nat, added : Nat]
    BY <1>1, <1>2, ProvisioningAssumption DEF Typed, Give
  <2> QED BY <1>1, <1>2, <1>6, <1>7, <1>8, <2>1, Zenon DEF Typed
<1>10. AddedInv' /\ AddressInv'
  BY <1>1, <1>2, <1>4, <1>5, <1>8 DEF AddedInv, AddressInv, Live
<1>11. LinkInv' /\ PduInv'
  BY <1>1, <1>2, <1>3, <1>6, <1>7, Zenon DEF LinkInv, PduInv, Ended, Exchanging, NoPdu
<1>12. NodeInv'
  BY <1>1, <1>2, <1>6, <1>7, NodesAssumption DEF NodeInv, Exchanging, NULL
<1>13. sems'.unprov = sems.unprov
  BY <1>1, <1>2, Zenon DEF Typed
<1>14. BoardInv'
  BY <1>1, <1>2, <1>3, <1>6, <1>7, <1>13, Zenon DEF BoardInv, Exchanging, BeaconPending
<1> QED BY <1>9, <1>10, <1>11, <1>12, <1>14, Zenon DEF IInv

-----------------------------------------------------------------------------
(* The steps of the boards. *)

\* A beacon comes from a board without an address.
LEMMA BeaconInv ==
    ASSUME IInv, NEW d \in Devices, unprovisioned_beacon(d)
    PROVE  IInv'
<1>1. Typed /\ LinkInv /\ PduInv /\ NodeInv /\ BoardInv /\ AddedInv /\ AddressInv
  BY Zenon DEF IInv
<1>2. /\ dev[d].addr = UNASSIGNED /\ node_uuid' = d
      /\ UNCHANGED <<pc, slot, record_count, nodes, prov_device, link, pdu, dev, added>>
      /\ sems' \in [unprov : Nat, added : Nat]
  BY <1>1, ProvisioningAssumption DEF unprovisioned_beacon, linkVars, Give, Typed
<1>3. Typed' /\ AddedInv' /\ AddressInv'
  <2>1. Typed'
    BY <1>1, <1>2, Zenon DEF Typed
  <2>2. AddedInv' /\ AddressInv'
    BY <1>1, <1>2, Zenon DEF AddedInv, AddressInv, Live
  <2> QED BY <2>1, <2>2, Zenon
<1>4. LinkInv' /\ PduInv' /\ NodeInv'
  <2>1. LinkInv'
    BY <1>1, <1>2, Zenon DEF LinkInv, Ended, Exchanging
  <2>2. PduInv'
    BY <1>1, <1>2, Zenon DEF PduInv
  <2>3. NodeInv'
    BY <1>1, <1>2, Zenon DEF NodeInv, Exchanging
  <2> QED BY <2>1, <2>2, <2>3, Zenon
<1>5. BoardInv'
  BY <1>1, <1>2, Zenon DEF BoardInv, Exchanging, BeaconPending
<1> QED BY <1>3, <1>4, <1>5, Zenon DEF IInv

\* What a board does to its own state.
Board == [link : {"none", "up", "stale"}, expect : RequestTypes \cup {"NO_PDU"},
          addr : 0 .. UNICAST_MAX, app_key : BOOLEAN, bound : BOOLEAN, name : Nat]

\* The link of a board comes up or goes down.
LEMMA BoardLinkInv ==
    ASSUME IInv, NEW d \in Devices, DeviceLinkOpen(d) \/ DeviceLinkClosed(d)
    PROVE  IInv'
<1>1. Typed /\ LinkInv /\ PduInv /\ NodeInv /\ BoardInv /\ AddedInv /\ AddressInv
  BY Zenon DEF IInv
<1>2. /\ UNCHANGED <<pc, slot, record_count, node_uuid, nodes, prov_device, link, pdu, added>>
      /\ UNCHANGED sems
  BY Zenon DEF DeviceLinkOpen, DeviceLinkClosed, DeviceVars, mainVars
<1>3. /\ dev' \in [Devices -> Board]
      /\ \A e \in Devices : dev'[e].addr = dev[e].addr /\ (e # d => dev'[e] = dev[e])
      /\ \/ dev'[d].link = "none" /\ dev'[d].expect = "NO_PDU"
         \/ dev'[d].link = "up" /\ link.bearer = "opening" /\ prov_device.uuid = d
  <2>1. dev \in [Devices -> Board]
    BY <1>1, Zenon DEF Typed, Board
  <2>2. CASE DeviceLinkOpen(d)
    <3>1. /\ dev' = [dev EXCEPT ![d].link = "up", ![d].expect = "INVITE"]
          /\ link.bearer = "opening" /\ prov_device.uuid = d
      BY <2>2, Zenon DEF DeviceLinkOpen
    <3>2. "INVITE" \in RequestTypes
      BY RoundFacts
    <3>3. [dev[d] EXCEPT !.link = "up", !.expect = "INVITE"] \in Board
      BY <2>1, <3>2 DEF Board
    <3>4. dev' = [dev EXCEPT ![d] = [dev[d] EXCEPT !.link = "up", !.expect = "INVITE"]]
      BY <2>1, <3>1
    <3>5. /\ dev' \in [Devices -> Board]
          /\ \A e \in Devices : e # d => dev'[e] = dev[e]
      BY <2>1, <3>3, <3>4
    <3>6. dev'[d].link = "up" /\ dev'[d].addr = dev[d].addr
      BY <2>1, <3>4 DEF Board
    <3> QED BY <3>1, <3>5, <3>6, Zenon
  <2>3. CASE DeviceLinkClosed(d)
    <3>1. dev' = [dev EXCEPT ![d].link = "none", ![d].expect = "NO_PDU"]
      BY <2>3, Zenon DEF DeviceLinkClosed
    <3> QED BY <2>1, <3>1, ZenonT(40) DEF Board
  <2> QED BY <2>2, <2>3, Zenon
<1>4. Typed' /\ AddedInv' /\ AddressInv'
  <2>1. Typed'
    BY <1>1, <1>2, <1>3, ZenonT(40) DEF Typed, Board
  <2>2. AddedInv'
    BY <1>1, <1>2, <1>3, Zenon DEF AddedInv
  <2>3. AddressInv'
    BY <1>1, <1>2, Zenon DEF AddressInv, Live
  <2> QED BY <2>1, <2>2, <2>3, Zenon
<1>5. LinkInv'
  BY <1>1, <1>2, <1>3 DEF LinkInv, Ended, Exchanging
<1>6. PduInv'
  <2>1. pdu.to = "prov" => prov_device.uuid \in Devices
    BY PduFacts, Zenon
  <2> QED BY <1>1, <1>2, <1>3, <2>1, Zenon DEF PduInv
<1>7. NodeInv'
  BY <1>1, <1>2, Zenon DEF NodeInv, Exchanging
<1>8. BoardInv'
  <2> SUFFICES ASSUME NEW e \in Devices, dev'[e].addr # UNASSIGNED
               PROVE  /\ ~BeaconPending(e)'
                      /\ prov_device'.uuid = e =>
                           /\ pc' # "link_open" /\ link'.bearer # "opening"
                           /\ Exchanging' =>
                                /\ link'.expect = "COMPLETE" /\ dev'[e].expect = "NO_PDU"
                                /\ pdu'.to = "prov"
                                /\ dev'[e].addr = nodes'[prov_device'.node].addr
    BY Zenon DEF BoardInv
  <2>1. dev[e].addr # UNASSIGNED /\ dev'[e].addr = dev[e].addr
    BY <1>3, Zenon
  <2>2. prov_device.uuid = e => dev'[e].expect \in {"NO_PDU", dev[e].expect}
    BY <1>1, <1>3, <2>1, Zenon DEF BoardInv
  <2> QED BY <1>1, <1>2, <2>1, <2>2, Zenon DEF BoardInv, Exchanging, BeaconPending
<1> QED BY <1>4, <1>5, <1>6, <1>7, <1>8, Zenon DEF IInv

\* A board answers a request: only the board of the link does, and only one that
\* has no address.
LEMMA ExchangeFacts ==
    ASSUME IInv, NEW d \in Devices, pdu.to = "dev", dev[d].link = "up"
    PROVE  /\ prov_device.uuid = d /\ dev[d].addr = UNASSIGNED /\ Exchanging
           /\ link.active /\ pc # "link_open"
           /\ pdu.type \in RequestTypes /\ link.expect = Replies[Round(Requests, pdu.type)]
<1>1. Typed /\ LinkInv /\ PduInv /\ BoardInv
  BY Zenon DEF IInv
<1>2. /\ Exchanging /\ ~Ended /\ link.active /\ pc # "link_open"
  BY PduFacts, Zenon
<1>3. prov_device.uuid = d
  BY <1>1, <1>2, Zenon DEF LinkInv
<1>4. dev[d].addr = UNASSIGNED
  BY <1>1, <1>2, <1>3, Zenon DEF BoardInv
<1> QED BY <1>1, <1>2, <1>3, <1>4 DEF PduInv, NoPdu

\* The replies that leave the board without an address, and PROV_FAILED.
LEMMA BoardReplyInv ==
    ASSUME IInv, NEW d \in Devices, DeviceReplies(d) \/ DeviceFails(d)
    PROVE  IInv'
<1>1. Typed /\ LinkInv /\ PduInv /\ NodeInv /\ BoardInv /\ AddedInv /\ AddressInv
  BY Zenon DEF IInv
<1>2. /\ UNCHANGED <<pc, slot, record_count, node_uuid, nodes, prov_device, link, added, sems>>
      /\ pdu.to = "dev" /\ dev[d].link = "up"
      /\ \E e \in RequestTypes \cup {"NO_PDU"} : dev' = [dev EXCEPT ![d].expect = e]
      /\ \/ pdu' = [to |-> "prov", type |-> "FAILED"]
         \/ \E t \in RequestTypes \ {"DATA"} :
              /\ pdu.type = t
              /\ pdu' = [to |-> "prov", type |-> Replies[Round(Requests, t)]]
  <2>1. CASE DeviceFails(d)
    BY <2>1, Zenon DEF DeviceFails, DeviceVars, mainVars
  <2>2. CASE DeviceReplies(d)
    <3>1. PICK t \in RequestTypes \ {"DATA"} :
            /\ DeviceHandles(d, t)
            /\ dev' = [dev EXCEPT ![d].expect = Requests[Round(Requests, t) + 1]]
      BY <2>2, Zenon DEF DeviceReplies
    <3>2. Requests[Round(Requests, t) + 1] \in RequestTypes
      BY RoundFacts
    <3> QED BY <3>1, <3>2, Zenon DEF DeviceHandles, DeviceVars, mainVars
  <2> QED BY <2>1, <2>2, Zenon
<1>3. /\ prov_device.uuid = d /\ dev[d].addr = UNASSIGNED /\ Exchanging
      /\ pdu.type \in RequestTypes /\ link.expect = Replies[Round(Requests, pdu.type)]
  BY <1>2, ExchangeFacts, Zenon
<1>4. /\ dev' \in [Devices -> Board]
      /\ \A e \in Devices : /\ dev'[e].addr = dev[e].addr /\ dev'[e].link = dev[e].link
                            /\ (e # d => dev'[e] = dev[e])
  BY <1>1, <1>2 DEF Typed, Board
<1>5. Typed' /\ AddedInv' /\ AddressInv'
  BY <1>1, <1>2, <1>4 DEF Typed, AddedInv, AddressInv, Live, Board
<1>6. LinkInv'
  BY <1>1, <1>2, <1>3, <1>4 DEF LinkInv, Ended, Exchanging
<1>7. PduInv'
  BY <1>2, <1>3, RoundFacts DEF PduInv
<1>8. NodeInv' /\ BoardInv'
  BY <1>1, <1>2, <1>3, <1>4 DEF NodeInv, BoardInv, Exchanging, BeaconPending
<1> QED BY <1>5, <1>6, <1>7, <1>8, Zenon DEF IInv

\* The board takes the address of the node that the link holds.
LEMMA BoardProvisionedInv ==
    ASSUME IInv, NEW d \in Devices, DeviceProvisioned(d)
    PROVE  IInv'
<1> DEFINE a == nodes[prov_device.node].addr
<1>1. Typed /\ LinkInv /\ PduInv /\ NodeInv /\ BoardInv /\ AddedInv /\ AddressInv
  BY Zenon DEF IInv
<1>2. /\ UNCHANGED <<pc, slot, record_count, node_uuid, nodes, prov_device, link, added, sems>>
      /\ pdu.to = "dev" /\ pdu.type = "DATA" /\ dev[d].link = "up" /\ ~BeaconPending(d)
      /\ dev' = [dev EXCEPT ![d].expect = "NO_PDU", ![d].addr = a]
      /\ pdu' = [to |-> "prov", type |-> "COMPLETE"]
  BY RoundFacts, Zenon DEF DeviceProvisioned, DeviceHandles, DeviceVars, mainVars
<1>3. /\ prov_device.uuid = d /\ dev[d].addr = UNASSIGNED /\ Exchanging
      /\ link.active /\ pc # "link_open" /\ link.expect = "COMPLETE"
  BY <1>2, ExchangeFacts, RoundFacts
<1>4. a \in 0 .. UNICAST_MAX /\ a # UNASSIGNED
  <2>1. prov_device.node \in Slots /\ a # UNASSIGNED
    BY <1>1, <1>3, Zenon DEF NodeInv, Typed
  <2> QED BY <1>1, <2>1, Zenon DEF Typed, Node
<1>5. added[d] = UNASSIGNED
  BY <1>1, <1>3, Zenon DEF AddedInv
<1> HIDE DEF a
<1>6. /\ dev' \in [Devices -> Board]
      /\ \A e \in Devices : dev'[e].link = dev[e].link /\ (e # d => dev'[e] = dev[e])
      /\ dev'[d].addr = a /\ dev'[d].expect = "NO_PDU"
  <2> DEFINE r == [dev[d] EXCEPT !.expect = "NO_PDU", !.addr = a]
  <2>1. dev \in [Devices -> Board]
    BY <1>1, Zenon DEF Typed, Board
  <2>2. /\ r \in Board /\ r.link = dev[d].link /\ r.addr = a /\ r.expect = "NO_PDU"
    BY <1>4, <2>1, Zenon DEF Board
  <2>3. dev' = [dev EXCEPT ![d] = r]
    BY <1>2, <2>1, Zenon DEF Board
  <2> HIDE DEF r
  <2> QED BY <2>1, <2>2, <2>3, Zenon
<1>7. Typed' /\ AddedInv' /\ AddressInv'
  BY <1>1, <1>2, <1>5, <1>6 DEF Typed, AddedInv, AddressInv, Live, Board
<1>8. LinkInv'
  BY <1>1, <1>2, <1>3, <1>6, Zenon DEF LinkInv, Ended, Exchanging
<1>9. PduInv'
  BY <1>2, <1>3, <1>4, <1>6, RoundFacts DEF PduInv
<1>10. NodeInv'
  BY <1>1, <1>2, Zenon DEF NodeInv, Exchanging
<1>11. BoardInv'
  <2>1. a = nodes'[prov_device'.node].addr
    BY <1>2, Zenon DEF a
  <2> QED BY <1>1, <1>2, <1>3, <1>6, <2>1 DEF BoardInv, Exchanging, BeaconPending
<1> QED BY <1>7, <1>8, <1>9, <1>10, <1>11, Zenon DEF IInv

\* The mesh messages in flight.
Message == [kind : {"app_key", "bind", "Q"}, dst : 0 .. UNICAST_MAX,
            key : Uuids \cup {NoUuid}, name : Nat]

MsgTyped == dev_key \in [Slots -> Uuids \cup {NoUuid}] /\ msgs \in Seq(Message)

\* A message that is taken out leaves the others.
LEMMA RemoveFacts ==
    ASSUME msgs \in Seq(Message), NEW i \in DOMAIN msgs
    PROVE  /\ RemoveMsg(i) \in Seq(Message) /\ msgs[i] \in Message
           /\ \A j \in DOMAIN RemoveMsg(i) : \E k \in DOMAIN msgs : RemoveMsg(i)[j] = msgs[k]
<1> DEFINE s == SubSeq(msgs, 1, i - 1)
           t == SubSeq(msgs, i + 1, Len(msgs))
<1>1. i \in 1 .. Len(msgs) /\ Len(msgs) \in Nat /\ DOMAIN msgs = 1 .. Len(msgs)
  OBVIOUS
<1>2. /\ s \in Seq(Message) /\ Len(s) = i - 1 /\ \A j \in 1 .. i - 1 : s[j] = msgs[j]
  BY <1>1
<1>3. /\ t \in Seq(Message) /\ Len(t) = Len(msgs) - i
      /\ \A j \in 1 .. Len(msgs) - i : t[j] = msgs[i + j]
  BY <1>1
<1>6. RemoveMsg(i) = s \o t
  BY Zenon DEF RemoveMsg
<1> HIDE DEF s, t
<1>4. /\ s \o t \in Seq(Message) /\ Len(s \o t) = Len(msgs) - 1
      /\ \A j \in 1 .. Len(msgs) - 1 :
           (s \o t)[j] = IF j <= i - 1 THEN s[j] ELSE t[j - (i - 1)]
  <2>1. /\ s \o t \in Seq(Message) /\ Len(s \o t) = Len(s) + Len(t)
        /\ \A j \in 1 .. Len(s) + Len(t) :
             (s \o t)[j] = IF j <= Len(s) THEN s[j] ELSE t[j - Len(s)]
    <3>1. s \in Seq(Message) /\ t \in Seq(Message)
      BY <1>2, <1>3, Zenon
    <3>2. s \o t \in Seq(Message)
      BY <3>1
    <3>3. Len(s \o t) = Len(s) + Len(t)
      BY <3>1
    <3>4. \A j \in 1 .. Len(s) + Len(t) :
            (s \o t)[j] = IF j <= Len(s) THEN s[j] ELSE t[j - Len(s)]
      BY <3>1
    <3> QED BY <3>2, <3>3, <3>4, Zenon
  <2>2. Len(s) = i - 1 /\ Len(s) + Len(t) = Len(msgs) - 1
    BY <1>1, <1>2, <1>3
  <2> QED BY <2>1, <2>2, Zenon
<1>5. ASSUME NEW j \in DOMAIN (s \o t) PROVE \E k \in DOMAIN msgs : (s \o t)[j] = msgs[k]
  <2>1. j \in 1 .. Len(msgs) - 1
    BY <1>1, <1>4
  <2>2. CASE j <= i - 1
    BY <1>1, <1>2, <1>4, <2>1, <2>2
  <2>3. CASE ~(j <= i - 1)
    <3>0. j - (i - 1) \in 1 .. Len(msgs) - i
      BY <1>1, <2>1, <2>3
    <3>1. (s \o t)[j] = t[j - (i - 1)] /\ j - (i - 1) \in 1 .. Len(msgs) - i
      BY <1>4, <2>1, <2>3, <3>0, Zenon
    <3>2. t[j - (i - 1)] = msgs[i + (j - (i - 1))]
      BY <1>3, <3>1, Zenon
    <3>3. i + (j - (i - 1)) \in DOMAIN msgs
      BY <1>1, <3>1
    <3> QED BY <3>1, <3>2, <3>3, Zenon
  <2> QED BY <2>2, <2>3, Zenon
<1>7. msgs[i] \in Message
  BY <1>1
<1> QED BY <1>4, <1>5, <1>6, <1>7, Zenon

\* A mesh message changes what a board is configured with, and nothing else.
LEMMA DeliveredFacts ==
    ASSUME Typed, NEW m \in Message, dev' = Delivered(m)
    PROVE  /\ dev' \in [Devices -> Board]
           /\ \A d \in Devices :
                /\ dev'[d].link = dev[d].link /\ dev'[d].expect = dev[d].expect
                /\ dev'[d].addr = dev[d].addr
                /\ dev'[d].app_key = (dev[d].app_key \/ (/\ Receives(d, m)
                                                         /\ m.kind = "app_key" /\ m.key = d))
                /\ dev'[d].bound => dev[d].bound \/ dev[d].app_key
                /\ dev'[d].name # dev[d].name =>
                     /\ Receives(d, m) /\ m.kind = "Q" /\ dev[d].bound
                     /\ dev'[d].name = m.name
<1> DEFINE F(d) == CASE Receives(d, m) /\ m.kind = "app_key" /\ m.key = d ->
                          [dev[d] EXCEPT !.app_key = TRUE]
                     [] Receives(d, m) /\ m.kind = "bind" /\ m.key = d ->
                          [dev[d] EXCEPT !.bound = dev[d].app_key]
                     [] Receives(d, m) /\ m.kind = "Q" /\ dev[d].bound ->
                          [dev[d] EXCEPT !.name = m.name]
                     [] OTHER -> dev[d]
<1>1. dev' = [d \in Devices |-> F(d)]
  BY Zenon DEF Delivered
<1>2. dev \in [Devices -> Board] /\ m.name \in Nat
  BY Zenon DEF Typed, Board, Message
<1>3. ASSUME NEW d \in Devices
      PROVE  /\ F(d) \in Board
             /\ F(d).link = dev[d].link /\ F(d).expect = dev[d].expect
             /\ F(d).addr = dev[d].addr
             /\ F(d).app_key = (dev[d].app_key \/ (/\ Receives(d, m)
                                                   /\ m.kind = "app_key" /\ m.key = d))
             /\ F(d).bound => dev[d].bound \/ dev[d].app_key
             /\ F(d).name # dev[d].name =>
                  /\ Receives(d, m) /\ m.kind = "Q" /\ dev[d].bound
                  /\ F(d).name = m.name
  <2> DEFINE r == dev[d]
  <2>0. r \in Board
    BY <1>2, Zenon
  <2>1. CASE Receives(d, m) /\ m.kind = "app_key" /\ m.key = d
    <3>1. F(d) = [r EXCEPT !.app_key = TRUE]
      BY <2>1, Zenon
    <3> QED BY <2>0, <2>1, <3>1, Zenon DEF Board
  <2>2. CASE Receives(d, m) /\ m.kind = "bind" /\ m.key = d
    <3>1. F(d) = [r EXCEPT !.bound = r.app_key]
      BY <2>2, Zenon
    <3> QED BY <2>0, <2>2, <3>1, Zenon DEF Board
  <2>3. CASE Receives(d, m) /\ m.kind = "Q" /\ dev[d].bound
    <3>1. F(d) = [r EXCEPT !.name = m.name]
      BY <2>3, Zenon
    <3> QED BY <1>2, <2>0, <2>3, <3>1, Zenon DEF Board
  <2>4. CASE /\ ~(Receives(d, m) /\ m.kind = "app_key" /\ m.key = d)
             /\ ~(Receives(d, m) /\ m.kind = "bind" /\ m.key = d)
             /\ ~(Receives(d, m) /\ m.kind = "Q" /\ dev[d].bound)
    <3>1. F(d) = r
      BY <2>4, Zenon
    <3> QED BY <2>0, <2>4, <3>1, Zenon DEF Board
  <2> QED BY <2>1, <2>2, <2>3, <2>4, Zenon
<1> HIDE DEF F
<1>4. \A d \in Devices : dev'[d] = F(d)
  BY <1>1, Zenon
<1>5. dev' \in [Devices -> Board]
  BY <1>1, <1>3
<1> QED BY <1>3, <1>4, <1>5, ZenonT(40)

\* A message that arrives or is lost does not touch the link or the addresses.
LEMMA MessageInv ==
    ASSUME IInv, MsgTyped, Deliver \/ Lose
    PROVE  IInv'
<1>1. Typed /\ LinkInv /\ PduInv /\ NodeInv /\ BoardInv /\ AddedInv /\ AddressInv
  BY Zenon DEF IInv
<1>2. /\ UNCHANGED <<pc, slot, record_count, node_uuid, nodes, prov_device, link, pdu, added>>
      /\ UNCHANGED sems
  BY Zenon DEF Deliver, Lose, mainVars, linkVars
<1>3. /\ dev' \in [Devices -> Board]
      /\ \A d \in Devices : /\ dev'[d].link = dev[d].link /\ dev'[d].expect = dev[d].expect
                            /\ dev'[d].addr = dev[d].addr
  <2>1. CASE dev' = dev
    BY <1>1, <2>1, Zenon DEF Typed, Board
  <2>2. ASSUME NEW i \in DOMAIN msgs, dev' = Delivered(msgs[i])
        PROVE  <1>3!1 /\ <1>3!2
    <3>1. msgs[i] \in Message
      BY <2>2, RemoveFacts, Zenon DEF MsgTyped
    <3> QED BY <1>1, <2>2, <3>1, DeliveredFacts, Zenon
  <2> QED BY <2>1, <2>2, Zenon DEF Deliver, Lose
<1>4. Typed' /\ AddedInv' /\ AddressInv'
  <2>1. Typed'
    BY <1>1, <1>2, <1>3, ZenonT(40) DEF Typed, Board
  <2>2. AddedInv'
    BY <1>1, <1>2, <1>3, Zenon DEF AddedInv
  <2>3. AddressInv'
    BY <1>1, <1>2, Zenon DEF AddressInv, Live
  <2> QED BY <2>1, <2>2, <2>3, Zenon
<1>5. LinkInv'
  BY <1>1, <1>2, <1>3, Zenon DEF LinkInv, Ended, Exchanging
<1>6. PduInv'
  <2>1. pdu.to = "prov" => prov_device.uuid \in Devices
    BY PduFacts, Zenon
  <2> QED BY <1>1, <1>2, <1>3, <2>1, Zenon DEF PduInv
<1>7. NodeInv'
  BY <1>1, <1>2, Zenon DEF NodeInv, Exchanging
<1>8. BoardInv'
  BY <1>1, <1>2, <1>3, Zenon DEF BoardInv, Exchanging, BeaconPending
<1> QED BY <1>4, <1>5, <1>6, <1>7, <1>8, Zenon DEF IInv

-----------------------------------------------------------------------------
(* The messages in flight. *)

\* A step of configure_node sends one message to the node, or none.
LEMMA SendFacts ==
    ASSUME NumberFacts, Typed, MsgTyped, configure_node
    PROVE  /\ UNCHANGED <<dev_key, dev>> /\ slot \in Slots
           /\ \/ pc \in {"flag", "record"} /\ UNCHANGED msgs
              \/ \E m \in Message :
                   /\ msgs' = Append(msgs, m) /\ pc' # "app_key"
                   /\ m.dst = nodes[slot].addr /\ UNCHANGED <<nodes, record_count>>
                   /\ \/ m.kind = pc /\ pc \in {"app_key", "bind"} /\ pc' \in {"bind", "flag"}
                      \/ /\ m.kind = "Q" /\ pc = "name" /\ pc' = "record"
                         /\ m.name = NameOf(record_count)
<1>1. UNCHANGED <<dev_key, dev>>
  BY Zenon DEF configure_node
<1>2. slot \in Slots /\ nodes[slot].addr \in 0 .. UNICAST_MAX
      /\ dev_key[slot] \in Uuids \cup {NoUuid} /\ NameOf(record_count) \in Nat
  <2>1. pc \in {"app_key", "bind", "flag", "name", "record"}
    BY Zenon DEF configure_node, StepAfter
  <2>2. slot \in Slots
    BY <2>1, Zenon DEF Typed
  <2> QED BY <2>2, Zenon DEF NumberFacts, Typed, MsgTyped, Node, NameOf
<1>3. CASE /\ pc \in DOMAIN StepAfter /\ Send(Sends(pc)) /\ Goto(StepAfter[pc])
           /\ UNCHANGED <<slot, record_count, nodes>>
  <2> DEFINE k == Sends(pc)
             m == [kind |-> k, dst |-> nodes[slot].addr,
                   key |-> IF k = "Q" THEN NoUuid ELSE dev_key[slot],
                   name |-> IF k = "Q" THEN NameOf(record_count) ELSE 0]
  <2>1. /\ pc \in {"app_key", "bind", "name"} /\ pc' = StepAfter[pc]
        /\ msgs' = Append(msgs, m)
    BY <1>3, Zenon DEF StepAfter, Send, Goto
  <2>2. k = (IF pc = "name" THEN "Q" ELSE pc)
    BY Zenon DEF Sends
  <2>3. pc' = (IF pc = "app_key" THEN "bind" ELSE IF pc = "bind" THEN "flag" ELSE "record")
    BY <2>1 DEF StepAfter
  <2> HIDE DEF k
  <2>4. m \in Message /\ m.dst = nodes[slot].addr /\ m.kind = k
        /\ (k = "Q" => m.name = NameOf(record_count))
    BY <1>2, <2>1, <2>2, Zenon DEF Message
  <2> HIDE DEF m
  <2> QED BY <1>1, <1>2, <1>3, <2>1, <2>2, <2>3, <2>4, Zenon
<1>4. CASE pc \in {"flag", "record"} /\ UNCHANGED msgs
  BY <1>1, <1>2, <1>4, Zenon
<1> QED BY <1>3, <1>4, Zenon DEF configure_node

\* Every step but the ones of the list below leaves the messages and keys alone.
LEMMA MsgTypedNext ==
    ASSUME NumberFacts, IInv, MsgTyped, Next
    PROVE  MsgTyped'
<1>1. Typed
  BY Zenon DEF IInv
<1>2. CASE UNCHANGED <<dev_key, msgs>>
  BY <1>2, Zenon DEF MsgTyped
<1>3. CASE configure_node
  <2>1. UNCHANGED dev_key
    BY <1>1, <1>3, SendFacts, Zenon
  <2>2. msgs' = msgs \/ \E m \in Message : msgs' = Append(msgs, m)
    BY <1>1, <1>3, SendFacts, Zenon
  <2> QED BY <2>1, <2>2 DEF MsgTyped
<1>4. CASE Deliver \/ Lose
  <2>1. PICK i \in DOMAIN msgs : msgs' = RemoveMsg(i)
    BY <1>4, Zenon DEF Deliver, Lose
  <2>2. RemoveMsg(i) \in Seq(Message)
    BY RemoveFacts, Zenon DEF MsgTyped
  <2>3. UNCHANGED dev_key
    BY <1>4, Zenon DEF Deliver, Lose
  <2> QED BY <2>1, <2>2, <2>3, Zenon DEF MsgTyped
<1>5. ASSUME NEW t, reset_state(t), UNCHANGED msgs PROVE MsgTyped'
  <2>1. prov_device.node \in Slots \cup {NULL}
    BY <1>1, Zenon DEF Typed
  <2> QED BY <1>5, <2>1, Zenon DEF reset_state, MsgTyped
<1>6. CASE LinkTimeout \/ LinkClosed \/ prov_failed
  BY <1>5, <1>6, Zenon DEF LinkTimeout, LinkClosed, prov_failed, close_link
<1>7. CASE prov_random
  <2>1. /\ dev_key' = [dev_key EXCEPT ![prov_device.node] = prov_device.uuid]
        /\ UNCHANGED msgs
    BY <1>7, Zenon DEF prov_random, NextRequest
  <2>2. prov_device.uuid \in Uuids \cup {NoUuid}
    BY <1>1, Zenon DEF Typed, Devices
  <2> QED BY <2>1, <2>2, Zenon DEF MsgTyped
<1>8. CASE reset_unprov \/ reset_added \/ check_unconfigured \/ take_unprov
  BY <1>2, <1>8, Zenon DEF reset_unprov, reset_added, check_unconfigured, take_unprov, MainWaits
<1>9. CASE Open \/ link_open \/ take_added
  BY <1>2, <1>9, Zenon DEF Open, pb_adv_open, link_open, take_added, MainWaits
<1>10. CASE link_ack \/ prov_capabilities \/ prov_complete \/ prov_fail
  BY <1>2, <1>10, Zenon DEF link_ack, prov_capabilities, prov_complete, prov_fail
<1>11. CASE prov_pub_key \/ prov_confirm
  BY <1>2, <1>11, Zenon DEF prov_pub_key, prov_confirm, NextRequest
<1>12. ASSUME NEW d \in Devices,
              \/ unprovisioned_beacon(d) \/ DeviceLinkOpen(d) \/ DeviceLinkClosed(d)
              \/ DeviceReplies(d) \/ DeviceProvisioned(d) \/ DeviceFails(d)
       PROVE  MsgTyped'
  BY <1>2, <1>12, Zenon DEF unprovisioned_beacon, DeviceLinkOpen, DeviceLinkClosed, DeviceReplies,
     DeviceProvisioned, DeviceFails, DeviceHandles, DeviceVars
<1> QED BY <1>3, <1>4, <1>6, <1>7, <1>8, <1>9, <1>10, <1>11, <1>12, Zenon
        DEF Next, MainThread, Link, Boards

-----------------------------------------------------------------------------
(* The induction, and the nodes of completed boards. *)

\* Every step keeps the invariant, as long as links are opened alone.
LEMMA NextInv ==
    ASSUME NumberFacts, IInv, MsgTyped, OpensAlone, Next
    PROVE  IInv'
<1>1. CASE MainThread
  BY <1>1, LoopStepInv, OpenInv, LinkOpenInv, TakeAddedInv, Zenon DEF MainThread, LoopStep
<1>2. CASE Link
  <2>1. CASE prov_pub_key \/ prov_confirm \/ prov_random
    BY <2>1, NextRequestInv, Zenon DEF prov_pub_key, prov_confirm, prov_random
  <2>2. CASE LinkTimeout \/ LinkClosed
    BY <2>2, CloseInv, Zenon DEF LinkTimeout, LinkClosed
  <2> QED BY <1>2, <2>1, <2>2, LinkAckInv, CapabilitiesInv, CompleteInv, ProvFailInv,
             ProvFailedInv, Zenon DEF Link
<1>3. CASE Boards
  BY <1>3, BeaconInv, BoardLinkInv, BoardReplyInv, BoardProvisionedInv, MessageInv, Zenon
  DEF Boards
<1> QED BY <1>1, <1>2, <1>3, Zenon DEF Next

\* A step that changes nothing.
LEMMA StutterInv ==
    ASSUME IInv, MsgTyped, UNCHANGED vars
    PROVE  IInv' /\ MsgTyped'
<1>1. UNCHANGED <<pc, slot, node_uuid, record_count, sems, nodes, dev_key, prov_device, link,
                  pdu, dev, msgs, added>>
  BY Zenon DEF vars, mainVars, linkVars
<1>2. Typed' /\ LinkInv' /\ PduInv'
  <2>1. Typed'
    BY <1>1, ZenonT(40) DEF IInv, Typed
  <2>2. LinkInv'
    BY <1>1, Zenon DEF IInv, LinkInv, Ended, Exchanging
  <2>3. PduInv'
    BY <1>1, Zenon DEF IInv, PduInv
  <2> QED BY <2>1, <2>2, <2>3, Zenon
<1>3. NodeInv' /\ BoardInv' /\ AddedInv' /\ AddressInv'
  BY <1>1, Zenon DEF IInv, NodeInv, BoardInv, AddedInv, AddressInv, Live, Exchanging, BeaconPending
<1>4. MsgTyped'
  BY <1>1, Zenon DEF MsgTyped
<1> QED BY <1>2, <1>3, <1>4, Zenon DEF IInv

\* Nothing has been sent at the start.
LEMMA InitMsgs ==
    Init => MsgTyped
<1> SUFFICES ASSUME Init PROVE MsgTyped
  BY Zenon
<1>1. dev_key \in [Slots -> Uuids \cup {NoUuid}]
  BY ProvisioningAssumption, Zenon DEF Init
<1>2. msgs \in Seq(Message)
  BY DEF Init
<1> QED BY <1>1, <1>2, Zenon DEF MsgTyped

\* The invariant contains what is promised about completed boards.
LEMMA KeptFromInv ==
    IInv => CompletedNodesKept
BY Zenon DEF IInv, AddedInv, NodeInv, CompletedNodesKept

-----------------------------------------------------------------------------
(* Slow links: how main can run while a link does. *)

\* The places of the loop after it has reset the semaphores.
AfterReset == {"foreach", "app_key", "bind", "flag", "name", "record", "wait_unprov",
               "open", "link_open"}

Running == link.bearer \in {"opening", "open"}

\* main runs beside a link, or finds the semaphore of an earlier link, only after a
\* slow one.  LINK_ACTIVE can be clear where main opens a link only if the link
\* before it was slow, and has just ended.
SlowInv ==
    /\ pc \in Pcs
    /\ slow \in 0 .. SLOW_LINKS
    /\ Running /\ (pc # "wait_added" \/ sems.added > 0) => slow < SLOW_LINKS
    /\ pc \in AfterReset /\ sems.added > 0 => slow < SLOW_LINKS
    /\ pc \in AfterReset /\ Running => sems.added = 0
    /\ pc = "link_open" /\ ~link.active => sems.added = 0 /\ slow < SLOW_LINKS
    /\ link.bearer = "opening" /\ ~link.active => slow < SLOW_LINKS

\* With one slow link at most, main stays in its wait while such a link is opened.
AloneInv == link.bearer = "opening" /\ ~link.active => pc = "wait_added" /\ sems.added = 0

\* The steps of the loop.
LEMMA LoopStepSlow ==
    ASSUME IInv, SlowInv, LoopStep
    PROVE  SlowInv' /\ (AloneInv => AloneInv')
<1>0. sems.added \in Nat
  BY Zenon DEF IInv, Typed
<1>1. UNCHANGED <<link, slow>>
  BY Zenon DEF LoopStep, reset_unprov, reset_added, check_unconfigured, configure_node,
     take_unprov, linkVars
<1>2. /\ pc # "link_open" /\ pc' # "link_open" /\ pc # "wait_added" /\ pc' # "wait_added"
      /\ pc' \in Pcs
      /\ \/ sems'.added = sems.added /\ (pc \in AfterReset \/ pc' \notin AfterReset)
         \/ sems'.added = 0
  <2>1. CASE reset_unprov
    BY <2>1, Zenon DEF reset_unprov, Goto, AfterReset, Pcs, IInv, Typed
  <2>2. CASE reset_added
    BY <2>2, Zenon DEF reset_added, Goto, AfterReset, Pcs, IInv, Typed
  <2>3. CASE check_unconfigured
    BY <2>3, Zenon DEF check_unconfigured, Goto, AfterReset, Pcs
  <2>4. CASE configure_node
    BY <2>4 DEF configure_node, Goto, StepAfter, AfterReset, Pcs
  <2>5. CASE take_unprov
    BY <2>5, Zenon DEF take_unprov, Goto, AfterReset, Pcs, IInv, Typed
  <2> QED BY <2>1, <2>2, <2>3, <2>4, <2>5, Zenon DEF LoopStep
<1> QED BY <1>0, <1>1, <1>2 DEF SlowInv, AloneInv, Running

\* The steps that open a link and wait for it.
LEMMA OpeningSlow ==
    ASSUME IInv, SlowInv, Open \/ link_open \/ take_added
    PROVE  SlowInv' /\ (AloneInv /\ SLOW_LINKS <= 1 => AloneInv')
<1>0. /\ sems.added \in Nat /\ Typed /\ LinkInv /\ SLOW_LINKS \in Nat
      /\ link \in [active : BOOLEAN, slow : BOOLEAN,
                   bearer : {"idle", "opening", "open", "closing"},
                   expect : ReplyTypes \cup {"INVITE", "NO_PDU"}]
  BY ProvisioningAssumption, Zenon DEF IInv, Typed
<1>1. CASE Open
  <2>1. /\ pc = "open" /\ UNCHANGED <<sems, slow>>
        /\ \/ pc' = "reset_unprov" /\ UNCHANGED link
           \/ /\ pc' = "link_open" /\ link'.active /\ link'.bearer = link.bearer
    BY <1>0, <1>1, OpenFacts, Zenon
  <2> QED BY <1>0, <2>1, Zenon DEF SlowInv, AloneInv, Running, AfterReset, Pcs
<1>2. CASE link_open
  <2>1. /\ pc = "link_open" /\ UNCHANGED <<sems, slow>>
        /\ \/ /\ link.bearer = "idle" /\ pc' = "wait_added"
              /\ link'.bearer = "opening" /\ link'.active = link.active
           \/ /\ link.bearer # "idle" /\ pc' = "reset_unprov" /\ link'.bearer = link.bearer
    BY <1>0, <1>2, Zenon DEF link_open, Goto
  <2>2. link.bearer = "idle" \/ link.bearer = "open"
    BY <1>0, <2>1, Zenon DEF LinkInv, Ended
  <2> QED BY <1>0, <2>1, <2>2, Zenon DEF SlowInv, AloneInv, Running, AfterReset, Pcs
<1>3. CASE take_added
  <2>1. /\ pc = "wait_added" /\ pc' = "reset_unprov"
        /\ link'.bearer = link.bearer /\ link'.active = link.active
        /\ \/ sems.added > 0 /\ sems'.added = sems.added - 1 /\ slow' = slow
           \/ /\ sems.added = 0 /\ sems'.added = 0
              /\ link.bearer # "idle" => slow > 0 /\ slow' = slow - 1
              /\ link.bearer = "idle" => slow' = slow
    BY <1>0, <1>3, Zenon DEF take_added, Goto, Typed
  <2> QED BY <1>0, <2>1 DEF SlowInv, AloneInv, Running, AfterReset, Pcs
<1> QED BY <1>1, <1>2, <1>3, Zenon

\* The end of a link, while main is anywhere.
LEMMA EndingSlow ==
    ASSUME IInv, SlowInv, LinkTimeout \/ LinkClosed \/ prov_failed \/ prov_fail
    PROVE  SlowInv' /\ (AloneInv => AloneInv')
<1>0. Typed /\ LinkInv
  BY Zenon DEF IInv
<1>1. UNCHANGED <<pc, sems, slow>>
  BY Zenon DEF LinkTimeout, LinkClosed, close_link, prov_failed, prov_fail, mainVars
<1>2. CASE LinkTimeout \/ LinkClosed
  <2>1. link'.bearer = "idle" /\ (Running \/ link.bearer = "closing")
    BY <1>2 DEF LinkTimeout, LinkClosed, close_link, reset_state, Running
  <2>2. pc = "link_open" => Running \/ link.bearer = "idle"
    BY <1>0, Zenon DEF LinkInv, Ended, Running
  <2> QED BY <1>1, <2>1, <2>2, Zenon DEF SlowInv, AloneInv, Running, AfterReset
<1>3. CASE prov_failed \/ prov_fail
  <2>1. pdu.to = "prov" /\ pc # "link_open" /\ link.bearer = "open"
    BY <1>3, PduFacts, Zenon DEF prov_failed, prov_fail
  <2>2. link'.bearer \in {"open", "closing"}
    <3>1. CASE prov_failed
      BY <2>1, <3>1, Zenon DEF prov_failed, reset_state
    <3>2. CASE prov_fail
      BY <1>0, <3>2, ClosingFacts, Zenon DEF prov_fail
    <3> QED BY <1>3, <3>1, <3>2, Zenon
  <2> QED BY <1>1, <2>1, <2>2, Zenon DEF SlowInv, AloneInv, Running
<1> QED BY <1>2, <1>3, Zenon

\* The other steps of the link.
LEMMA LinkSlow ==
    ASSUME IInv, SlowInv,
           \/ link_ack \/ prov_capabilities \/ prov_complete
           \/ prov_pub_key \/ prov_confirm \/ prov_random
    PROVE  SlowInv' /\ (AloneInv => AloneInv')
<1>0. Typed /\ LinkInv /\ sems.added \in Nat
  BY Zenon DEF IInv, Typed
<1>1. CASE link_ack
  <2>1. /\ UNCHANGED <<pc, sems, slow>> /\ link.bearer = "opening"
        /\ link'.bearer = "open" /\ link'.active
    BY <1>0, <1>1, Zenon DEF link_ack, mainVars, Typed
  <2> QED BY <2>1, Zenon DEF SlowInv, AloneInv, Running
<1>2. CASE prov_complete
  <2>1. /\ UNCHANGED <<pc, slow>> /\ pdu.to = "prov" /\ link' = Closing
    BY <1>2, Zenon DEF prov_complete, Expected, mainVars
  <2>2. pc # "link_open" /\ link.bearer = "open"
    BY <2>1, PduFacts, Zenon
  <2>3. link'.bearer = "closing"
    BY <1>0, <2>1, ClosingFacts, Zenon
  <2> QED BY <2>1, <2>2, <2>3, Zenon DEF SlowInv, AloneInv, Running, AfterReset
<1>3. CASE prov_capabilities \/ prov_pub_key \/ prov_confirm \/ prov_random
  <2>1. UNCHANGED <<pc, sems, slow>> /\ pdu.to = "prov"
    BY <1>3, Zenon DEF prov_capabilities, prov_pub_key, prov_confirm, prov_random, NextRequest,
       Expected, mainVars
  <2>2. pc # "link_open" /\ link.bearer = "open"
    BY <2>1, PduFacts, Zenon
  <2>3. link'.bearer \in {"open", "closing"}
    <3>1. CASE link' = Closing
      BY <1>0, <3>1, ClosingFacts, Zenon
    <3>2. ASSUME NEW e, link' = [link EXCEPT !.expect = e] PROVE link'.bearer = link.bearer
      BY <1>0, <3>2, Zenon DEF Typed
    <3> QED BY <1>3, <2>2, <3>1, <3>2, Zenon
            DEF prov_capabilities, prov_pub_key, prov_confirm, prov_random, NextRequest
  <2> QED BY <2>1, <2>2, <2>3, Zenon DEF SlowInv, AloneInv, Running
<1> QED BY <1>1, <1>2, <1>3, Zenon

\* The boards do not touch the loop, the link or sem_node_added.
LEMMA BoardsFacts ==
    ASSUME Typed, Boards
    PROVE  /\ UNCHANGED <<pc, slot, record_count, nodes, dev_key, prov_device, link, slow, added>>
           /\ sems'.added = sems.added
<1>1. CASE Deliver \/ Lose
  BY <1>1, Zenon DEF Deliver, Lose, mainVars, linkVars
<1>2. ASSUME NEW d \in Devices, unprovisioned_beacon(d)
      PROVE  /\ UNCHANGED <<pc, slot, record_count, nodes, dev_key, prov_device, link, slow, added>>
             /\ sems'.added = sems.added
  BY <1>2, Zenon DEF unprovisioned_beacon, linkVars, Typed
<1>3. ASSUME NEW d \in Devices,
             \/ DeviceLinkOpen(d) \/ DeviceLinkClosed(d)
             \/ DeviceReplies(d) \/ DeviceProvisioned(d) \/ DeviceFails(d)
      PROVE  UNCHANGED DeviceVars
  BY <1>3, Zenon DEF DeviceLinkOpen, DeviceLinkClosed, DeviceReplies, DeviceProvisioned, DeviceFails,
     DeviceHandles
<1> QED BY <1>1, <1>2, <1>3, Zenon DEF Boards, DeviceVars, mainVars

\* Every step keeps both.
LEMMA SlowNext ==
    ASSUME IInv, SlowInv, Next
    PROVE  SlowInv' /\ (AloneInv /\ SLOW_LINKS <= 1 => AloneInv')
<1>1. CASE Boards
  <2>1. UNCHANGED <<pc, link, slow>> /\ sems'.added = sems.added
    BY <1>1, BoardsFacts, Zenon DEF IInv
  <2> QED BY <2>1, Zenon DEF SlowInv, AloneInv, Running
<1>2. CASE MainThread
  BY <1>2, LoopStepSlow, OpeningSlow, Zenon DEF MainThread, LoopStep
<1>3. CASE Link
  BY <1>3, EndingSlow, LinkSlow, ZenonT(40) DEF Link
<1> QED BY <1>1, <1>2, <1>3, Zenon DEF Next

\* At the start no link has been slow.
LEMMA InitSlow ==
    Init => SlowInv /\ AloneInv
<1> SUFFICES ASSUME Init PROVE SlowInv /\ AloneInv
  BY Zenon
<1>1. /\ pc = "reset_unprov" /\ link.bearer = "idle" /\ slow = SLOW_LINKS
  BY Zenon DEF Init
<1>2. slow \in 0 .. SLOW_LINKS
  BY <1>1, ProvisioningAssumption
<1>3. ~Running /\ pc \notin AfterReset /\ pc # "link_open" /\ link.bearer # "opening"
  BY <1>1, Zenon DEF Running, AfterReset
<1>4. pc \in Pcs
  BY <1>1, Zenon DEF Pcs
<1> QED BY <1>2, <1>3, <1>4, Zenon DEF SlowInv, AloneInv

\* A step that changes nothing.
LEMMA StutterSlow ==
    ASSUME SlowInv, UNCHANGED vars
    PROVE  SlowInv' /\ (AloneInv => AloneInv')
BY Zenon DEF SlowInv, AloneInv, Running, vars, mainVars, linkVars

\* The invariant of the slow links gives the one of the links that are opened.
LEMMA AloneFromInv ==
    AloneInv => OpensAlone
BY Zenon DEF AloneInv, OpensAlone

\* What the proofs below start from.
Base == IInv /\ MsgTyped /\ SlowInv

-----------------------------------------------------------------------------
(* Every node in the table is of a board that has been added or has the link. *)

HeldLive == prov_device.node # NULL /\ nodes[prov_device.node].addr # UNASSIGNED

\* Without a slow link, main stays in its wait while a link holds a node.
HeldInv ==
    /\ HeldLive => (pc = "wait_added" /\ sems.added = 0) \/ slow < SLOW_LINKS
    /\ \A i \in Live(nodes) :
         \/ i = 0 \/ i = prov_device.node
         \/ nodes[i].uuid \in Devices /\ added[nodes[i].uuid] # UNASSIGNED

\* The only flag a step of the loop changes is that of the node it is at.
LEMMA FlagFacts ==
    ASSUME IInv, LoopStep
    PROVE  \A i \in Slots :
             nodes'[i].configured # nodes[i].configured =>
               /\ i = slot /\ nodes'[i].configured
               /\ \/ pc = "flag" /\ pc' = "name"
                  \/ pc = "foreach" /\ nodes[i].addr = SELF_ADDRESS
<1>1. Typed
  BY Zenon DEF IInv
<1>2. CASE nodes' = nodes
  BY <1>2, Zenon
<1>3. ASSUME slot \in Slots, nodes' = [nodes EXCEPT ![slot].configured = TRUE],
             NEW i \in Slots, nodes'[i].configured # nodes[i].configured
      PROVE  i = slot /\ nodes'[i].configured
  <2>1. nodes \in [Slots -> Node]
    BY <1>1, Zenon DEF Typed
  <2>2. i # slot => nodes'[i] = nodes[i]
    BY <1>3, <2>1, Zenon
  <2>3. nodes'[slot].configured
    BY <1>3, <2>1, Zenon DEF Node
  <2> QED BY <1>3, <2>2, <2>3, Zenon
<1>4. CASE reset_unprov \/ reset_added \/ take_unprov
  BY <1>2, <1>4, Zenon DEF reset_unprov, reset_added, take_unprov, MainWaits
<1>5. CASE check_unconfigured
  <2>1. \/ nodes' = nodes
        \/ /\ pc = "foreach" /\ nodes[slot].addr = SELF_ADDRESS /\ slot # NODE_COUNT
           /\ nodes' = [nodes EXCEPT ![slot].configured = TRUE]
    BY <1>5, Zenon DEF check_unconfigured
  <2>2. slot # NODE_COUNT => slot \in Slots
    BY <1>1, NodesAssumption DEF Typed, Slots
  <2> QED BY <1>2, <1>3, <2>1, <2>2, Zenon
<1>6. CASE configure_node
  <2>1. \/ nodes' = nodes
        \/ /\ pc = "flag" /\ pc' = "name"
           /\ nodes' = [nodes EXCEPT ![slot].configured = TRUE]
    BY <1>6, Zenon DEF configure_node, Goto
  <2>2. pc = "flag" => slot \in Slots
    BY <1>1, Zenon DEF Typed
  <2> QED BY <1>2, <1>3, <2>1, <2>2, Zenon
<1> QED BY <1>4, <1>5, <1>6, Zenon DEF LoopStep

\* Without a slow link, only nodes that node_added reported are marked.
MarkInv == HeldInv /\ (SLOW_LINKS = 0 => ConfiguresProvisioned)

\* Steps that keep prov_device.node, the slots, and what was reported.
LEMMA MarkKept ==
    ASSUME IInv, HeldInv, SameNodes, added' = added,
           prov_device'.node = prov_device.node,
           (pc' = pc /\ sems'.added = sems.added) \/ pc # "wait_added" \/ slow' < slow
           \/ sems.added > 0 \/ ~HeldLive,
           slow' <= slow, slow \in 0 .. SLOW_LINKS, slow' \in Nat
    PROVE  HeldInv'
<1>1. /\ Live(nodes)' = Live(nodes) /\ nodes' \in [Slots -> Node]
      /\ \A i \in Slots : nodes'[i].addr = nodes[i].addr /\ nodes'[i].uuid = nodes[i].uuid
  BY SlotsKept, Zenon DEF IInv
<1>2. Live(nodes) \subseteq Slots
  BY Zenon DEF Live
<1>3. \A i \in Live(nodes)' : /\ \/ i = 0 \/ i = prov_device'.node
                                 \/ /\ nodes'[i].uuid \in Devices
                                    /\ added'[nodes'[i].uuid] # UNASSIGNED
  BY <1>1, <1>2, Zenon DEF HeldInv
<1>4. HeldLive' => HeldLive
  BY <1>1 DEF HeldLive, IInv, Typed
<1>5. slow < SLOW_LINKS => slow' < SLOW_LINKS
  BY ProvisioningAssumption
<1>6. HeldLive' => (pc' = "wait_added" /\ sems'.added = 0) \/ slow' < SLOW_LINKS
  BY <1>4, <1>5, ProvisioningAssumption DEF HeldInv
<1> QED BY <1>3, <1>6, Zenon DEF HeldInv

\* The main thread.
LEMMA MainMark ==
    ASSUME Base, MarkInv, MainThread
    PROVE  MarkInv'
<1>0. IInv /\ SlowInv /\ HeldInv /\ Typed /\ slow \in 0 .. SLOW_LINKS /\ SLOW_LINKS \in Nat
  BY ProvisioningAssumption, Zenon DEF Base, MarkInv, IInv, SlowInv
<1>1. CASE LoopStep
  <2>1. SameNodes /\ UNCHANGED <<added, prov_device, slow>> /\ pc # "wait_added"
    <3>1. UNCHANGED slow /\ pc # "wait_added"
      BY <1>1, Zenon DEF LoopStep, reset_unprov, reset_added, check_unconfigured, configure_node,
         take_unprov, StepAfter
    <3> QED BY <1>0, <1>1, <3>1, LoopStepFacts, Zenon DEF linkVars
  <2>2. HeldInv'
    BY <1>0, <2>1, MarkKept
  <2>3. ASSUME SLOW_LINKS = 0, ConfiguresProvisioned,
               NEW i \in Live(nodes)', nodes'[i].configured
        PROVE  nodes'[i].uuid = Self \/ added'[nodes'[i].uuid] # UNASSIGNED
    <3>1. /\ i \in Live(nodes) /\ i \in Slots /\ nodes'[i].uuid = nodes[i].uuid
      BY <1>0, <2>1, <2>3, SlotsKept, Zenon DEF Live
    <3>2. CASE nodes[i].configured
      BY <2>1, <2>3, <3>1, <3>2, Zenon DEF ConfiguresProvisioned
    <3>3. i # prov_device.node
      BY <1>0, <2>1, <2>3, <3>1, NodesAssumption DEF HeldInv, HeldLive, Live, Slots, NULL
    <3>4. i = 0 => nodes[i].uuid = Self
      BY <1>0, Zenon DEF IInv, NodeInv
    <3> QED BY <1>0, <2>1, <3>1, <3>3, <3>4, Zenon DEF HeldInv
  <2> QED BY <2>2, <2>3, Zenon DEF MarkInv, ConfiguresProvisioned
<1>2. ASSUME nodes' = nodes, UNCHANGED added, prov_device'.node = prov_device.node,
             pc # "wait_added" \/ slow' < slow \/ sems.added > 0 \/ ~HeldLive,
             slow' <= slow, slow' \in Nat
      PROVE  MarkInv'
  <2>1. SameNodes
    BY <1>0, <1>2, Zenon DEF SameNodes, Typed
  <2>2. HeldInv'
    BY <1>0, <1>2, <2>1, MarkKept, Zenon
  <2> QED BY <1>2, <2>2, Zenon DEF MarkInv, ConfiguresProvisioned, Live
<1>3. CASE Open
  <2>1. /\ pc = "open" /\ UNCHANGED <<nodes, added, slow>>
        /\ prov_device'.node = prov_device.node
    BY <1>0, <1>3, OpenFacts, Zenon DEF Typed
  <2> QED BY <1>0, <1>2, <2>1
<1>4. CASE link_open
  <2>1. pc = "link_open" /\ UNCHANGED <<nodes, added, slow, prov_device>>
    BY <1>4, Zenon DEF link_open, MainWaits
  <2> QED BY <1>0, <1>2, <2>1
<1>5. CASE take_added
  <2>1. UNCHANGED <<nodes, added, prov_device>>
    BY <1>5, Zenon DEF take_added, MainWaits
  <2>2. HeldLive => link.bearer # "idle"
    BY <1>0, Zenon DEF IInv, NodeInv, HeldLive, Exchanging
  <2>3. \/ sems.added > 0 /\ slow' = slow
        \/ link.bearer # "idle" /\ slow > 0 /\ slow' = slow - 1
        \/ link.bearer = "idle" /\ slow' = slow
    BY <1>5, Zenon DEF take_added
  <2> QED BY <1>0, <1>2, <2>1, <2>2, <2>3
<1> QED BY <1>1, <1>3, <1>4, <1>5, Zenon DEF MainThread, LoopStep

\* A free slot becomes the node of the link.
TakesSlot(k) ==
    /\ k \in Slots /\ nodes[k].addr = UNASSIGNED /\ prov_device'.node = k
    /\ prov_device.addr # UNASSIGNED
    /\ \A j \in Live(nodes) : nodes[j].addr # prov_device.addr
    /\ nodes'[k].addr = prov_device.addr /\ nodes'[k].uuid = prov_device.uuid
    /\ ~nodes'[k].configured
    /\ \A j \in Slots : j # k => nodes'[j] = nodes[j]
    /\ Live(nodes)' = Live(nodes) \cup {k}

\* What prov_capabilities does to the table.
LEMMA CapabilitiesFacts ==
    ASSUME NumberFacts, IInv, prov_capabilities
    PROVE  /\ Exchanging /\ link.expect = "CAPABILITIES" /\ ~HeldLive
           /\ UNCHANGED <<pc, slot, record_count, sems, slow, added, dev, msgs>>
           /\ \/ /\ nodes' = nodes /\ prov_device'.node = NULL
                 /\ link'.bearer = "closing"
              \/ \E k \in Slots : TakesSlot(k) /\ link'.expect = "PUB_KEY"
<1> DEFINE k == alloc_slot(nodes, prov_device.addr, 1)
<1>1. Typed /\ NodeInv /\ AddressInv
  BY Zenon DEF IInv
<1>2. /\ pdu.to = "prov" /\ link.expect = "CAPABILITIES"
      /\ prov_device' = [prov_device EXCEPT !.node = k]
      /\ nodes' = node_alloc(nodes, prov_device.uuid, prov_device.addr, 1)
      /\ \/ k = NULL /\ link' = Closing
         \/ k # NULL /\ link' = [link EXCEPT !.expect = "PUB_KEY"]
      /\ UNCHANGED <<pc, slot, record_count, sems, slow, added, dev, msgs>>
  BY Zenon DEF prov_capabilities, Expected, mainVars
<1>3. Exchanging /\ prov_device.uuid \in Devices /\ prov_device.uuid \in Uuids
  BY <1>2, PduFacts, Zenon DEF Devices
<1>4. ~HeldLive
  BY <1>1, <1>2, <1>3, Zenon DEF NodeInv, HeldLive, Exchanging
<1>5. \/ k = NULL /\ nodes' = nodes
      \/ /\ k \in Slots /\ k # NULL /\ nodes[k].addr = UNASSIGNED
         /\ prov_device.addr \in 1 .. UNICAST_MAX
         /\ \A j \in Live(nodes) : nodes[j].addr # prov_device.addr
         /\ nodes' \in [Slots -> Node]
         /\ nodes'[k] = [addr |-> prov_device.addr, num_elem |-> 1,
                         uuid |-> prov_device.uuid, configured |-> FALSE]
         /\ \A j \in Slots : j # k => nodes'[j] = nodes[j]
  <2>1. nodes \in [Slots -> Node] /\ prov_device.addr \in Nat
    BY <1>1, Zenon DEF Typed
  <2>2. \A j \in Live(nodes) : nodes[j].num_elem = 1
    BY <1>1, Zenon DEF AddressInv
  <2> QED BY <1>2, <1>3, <2>1, <2>2, AllocFacts
<1>6. prov_device'.node = k
  BY <1>1, <1>2, Zenon DEF Typed
<1> HIDE DEF k
<1>7. CASE k = NULL
  <2>1. link'.bearer = "closing"
    BY <1>1, <1>2, <1>7, ClosingFacts, Zenon
  <2> QED BY <1>2, <1>3, <1>4, <1>5, <1>6, <1>7, <2>1, Zenon
<1>8. CASE k # NULL
  <2>1. link'.expect = "PUB_KEY"
    BY <1>1, <1>2, <1>8, Zenon DEF Typed
  <2>2. /\ k \in Slots /\ nodes[k].addr = UNASSIGNED /\ prov_device.addr # UNASSIGNED
        /\ \A j \in Live(nodes) : nodes[j].addr # prov_device.addr
        /\ nodes'[k].addr = prov_device.addr /\ nodes'[k].uuid = prov_device.uuid
        /\ ~nodes'[k].configured
        /\ \A j \in Slots : j # k => nodes'[j] = nodes[j]
    BY <1>5, <1>8 DEF UNASSIGNED
  <2>3. Live(nodes)' = Live(nodes) \cup {k}
    BY <2>2, Zenon DEF Live
  <2>4. TakesSlot(k)
    BY <1>6, <2>2, <2>3, Zenon DEF TakesSlot
  <2> QED BY <1>2, <1>3, <1>4, <2>1, <2>2, <2>4, Zenon
<1> QED BY <1>7, <1>8, Zenon

\* What the other steps of the link do to it.
LEMMA LinkFacts ==
    ASSUME IInv, Link, ~prov_capabilities
    PROVE  /\ UNCHANGED <<pc, slot, record_count, msgs, slow>>
           /\ \/ /\ UNCHANGED <<nodes, prov_device, added, sems>>
                 /\ \/ link.bearer = "opening" /\ link_ack
                    \/ link'.bearer = "closing"
                    \/ /\ link'.bearer # "opening"
                       /\ link'.expect \in {"CONFIRM", "RANDOM", "COMPLETE"}
              \/ prov_complete
              \/ /\ UNCHANGED <<prov_device, added, sems>> /\ \E t : reset_state(t)
                 /\ link'.expect = "INVITE" /\ link'.bearer # "opening"
<1>0. Typed
  BY Zenon DEF IInv
<1>1. CASE link_ack
  BY <1>1, Zenon DEF link_ack, mainVars
<1>2. CASE prov_complete
  BY <1>2, Zenon DEF prov_complete, mainVars
<1>3. CASE prov_fail
  <2>1. link' = Closing /\ UNCHANGED <<pc, slot, record_count, msgs, slow, nodes,
                                       prov_device, added, sems>>
    BY <1>3, Zenon DEF prov_fail, mainVars
  <2> QED BY <1>0, <2>1, ClosingFacts, Zenon
<1>4. CASE prov_pub_key \/ prov_confirm \/ prov_random
  <2>1. PICK t \in {"PUB_KEY", "CONFIRM", "RANDOM"} : NextRequest(t)
    BY <1>4, Zenon DEF prov_pub_key, prov_confirm, prov_random
  <2>2. /\ UNCHANGED <<pc, slot, record_count, msgs, slow, nodes, prov_device, added, sems>>
        /\ link' = [link EXCEPT !.expect = Replies[Round(Replies, t) + 1]]
        /\ pdu.to = "prov"
    BY <2>1, Zenon DEF NextRequest, Expected, mainVars
  <2>3. Replies[Round(Replies, t) + 1] \in {"CONFIRM", "RANDOM", "COMPLETE"}
    BY RoundFacts, Zenon
  <2>4. link'.expect \in {"CONFIRM", "RANDOM", "COMPLETE"} /\ link'.bearer = "open"
    BY <1>0, <2>2, <2>3, PduFacts, Zenon DEF Typed
  <2> QED BY <2>2, <2>4, Zenon
<1>5. CASE prov_failed
  <2>1. /\ UNCHANGED <<pc, slot, record_count, msgs, slow, prov_device, added, sems>>
        /\ reset_state(link.bearer) /\ pdu.to = "prov"
    BY <1>5, Zenon DEF prov_failed, mainVars
  <2>2. link'.expect = "INVITE" /\ link'.bearer = link.bearer
    BY <2>1, Zenon DEF reset_state
  <2>3. link.bearer = "open"
    BY <2>1, PduFacts, Zenon
  <2> QED BY <2>1, <2>2, <2>3, Zenon
<1>6. CASE LinkTimeout \/ LinkClosed
  <2>1. close_link
    BY <1>6, Zenon DEF LinkTimeout, LinkClosed
  <2>2. /\ UNCHANGED <<pc, slot, record_count, msgs, slow, prov_device, added, sems>>
        /\ reset_state("idle")
    BY <2>1, Zenon DEF close_link, mainVars
  <2>3. link'.expect = "INVITE" /\ link'.bearer = "idle"
    BY <2>2, Zenon DEF reset_state
  <2> QED BY <2>2, <2>3, Zenon
<1> QED BY <1>1, <1>2, <1>3, <1>4, <1>5, <1>6, Zenon DEF Link

\* A reset leaves the slots that are still in use as they were.
LEMMA ResetLive ==
    ASSUME Typed, NEW t, reset_state(t)
    PROVE  /\ Live(nodes)' \subseteq Live(nodes) \ {prov_device.node}
           /\ Live(nodes) \ {prov_device.node} \subseteq Live(nodes)'
           /\ \A i \in Live(nodes)' : nodes'[i] = nodes[i]
           /\ \A i \in Slots : nodes'[i].addr \in {nodes[i].addr, UNASSIGNED}
           /\ HeldLive' => prov_device'.node # prov_device.node
<1>1. /\ \A i \in Slots : /\ i # prov_device.node => nodes'[i] = nodes[i]
                          /\ nodes'[i].addr \in {nodes[i].addr, UNASSIGNED}
      /\ prov_device.node # NULL => nodes'[prov_device.node].addr = UNASSIGNED
  BY ResetFacts, Zenon
<1>2. NULL \notin Slots
  BY NodesAssumption DEF NULL, Slots
<1> QED BY <1>1, <1>2, Zenon DEF Live, HeldLive

\* The link.
LEMMA LinkMark ==
    ASSUME NumberFacts, Base, MarkInv, Link
    PROVE  MarkInv'
<1>0. /\ IInv /\ SlowInv /\ HeldInv /\ Typed /\ NodeInv
      /\ slow \in 0 .. SLOW_LINKS /\ SLOW_LINKS \in Nat /\ sems.added \in Nat
  BY ProvisioningAssumption, Zenon DEF Base, MarkInv, IInv, SlowInv, Typed
<1>1. CASE prov_capabilities
  <2>1. /\ Exchanging /\ ~HeldLive /\ UNCHANGED <<pc, sems, slow, added>>
        /\ \/ nodes' = nodes /\ prov_device'.node = NULL
           \/ \E k \in Slots : TakesSlot(k)
    BY <1>0, <1>1, CapabilitiesFacts, Zenon
  <2>2. ASSUME NEW i \in Live(nodes), i # 0
        PROVE  nodes[i].uuid \in Devices /\ added[nodes[i].uuid] # UNASSIGNED
    <3>1. i # prov_device.node
      BY <2>1, <2>2, NodesAssumption DEF HeldLive, Live, Slots, NULL
    <3> QED BY <1>0, <2>2, <3>1, Zenon DEF HeldInv
  <2>3. CASE nodes' = nodes /\ prov_device'.node = NULL
    <3>1. Live(nodes)' = Live(nodes) /\ ~HeldLive'
      BY <2>3, Zenon DEF Live, HeldLive
    <3> QED BY <2>1, <2>2, <2>3, <3>1, Zenon DEF MarkInv, HeldInv, ConfiguresProvisioned
  <2>4. ASSUME NEW k \in Slots, TakesSlot(k) PROVE MarkInv'
    <3>1. /\ Live(nodes)' = Live(nodes) \cup {k} /\ prov_device'.node = k
          /\ \A j \in Slots : j # k => nodes'[j] = nodes[j]
          /\ k \notin Live(nodes) /\ ~nodes'[k].configured
      BY <2>4, Zenon DEF TakesSlot, Live
    <3>2. Live(nodes) \subseteq Slots
      BY Zenon DEF Live
    <3>3. (pc = "wait_added" /\ sems.added = 0) \/ slow < SLOW_LINKS
      BY <1>0, <2>1 DEF SlowInv, Running, Exchanging
    <3>4. HeldInv'
      BY <2>1, <2>2, <3>1, <3>2, <3>3, Zenon DEF HeldInv
    <3>5. ConfiguresProvisioned => ConfiguresProvisioned'
      BY <2>1, <3>1, <3>2, ZenonT(40) DEF ConfiguresProvisioned
    <3> QED BY <3>4, <3>5, Zenon DEF MarkInv
  <2> QED BY <2>1, <2>3, <2>4, Zenon
<1>2. CASE UNCHANGED <<pc, slow, nodes, prov_device, added, sems>>
  BY <1>2, Zenon DEF MarkInv, HeldInv, HeldLive, ConfiguresProvisioned, Live
<1>3. CASE prov_complete
  <2>1. /\ pdu.to = "prov" /\ link.expect = "COMPLETE" /\ UNCHANGED nodes
        /\ prov_device' = [prov_device EXCEPT !.node = NULL]
        /\ added' = [added EXCEPT ![nodes[prov_device.node].uuid] =
                                     nodes[prov_device.node].addr]
    BY <1>3, Zenon DEF prov_complete, Expected, ForgetNode
  <2>2. Exchanging /\ prov_device.uuid \in Devices
    BY <1>0, <2>1, PduFacts, Zenon
  <2>3. HeldLive /\ nodes[prov_device.node].uuid = prov_device.uuid
    BY <1>0, <2>1, <2>2, Zenon DEF NodeInv, HeldLive
  <2>4. /\ added'[prov_device.uuid] # UNASSIGNED
        /\ \A d \in Devices : added[d] # UNASSIGNED => added'[d] # UNASSIGNED
    BY <1>0, <2>1, <2>2, <2>3, Zenon DEF Typed, HeldLive
  <2>5. prov_device'.node = NULL /\ Live(nodes)' = Live(nodes)
    BY <1>0, <2>1, Zenon DEF Typed, Live
  <2>6. HeldInv'
    BY <1>0, <2>1, <2>2, <2>3, <2>4, <2>5, Zenon DEF HeldInv, HeldLive
  <2>7. ASSUME ConfiguresProvisioned PROVE ConfiguresProvisioned'
    <3> SUFFICES ASSUME NEW i \in Live(nodes)', nodes'[i].configured
                 PROVE  nodes'[i].uuid = Self \/ added'[nodes'[i].uuid] # UNASSIGNED
      BY Zenon DEF ConfiguresProvisioned
    <3>1. i \in Live(nodes) /\ nodes[i].configured /\ nodes'[i] = nodes[i]
      BY <2>1, <2>5, Zenon
    <3>2. i = 0 \/ nodes[i].uuid = prov_device.uuid \/ nodes[i].uuid \in Devices
      BY <1>0, <2>3, <3>1, Zenon DEF HeldInv
    <3>3. i = 0 => nodes[i].uuid = Self
      BY <1>0, Zenon DEF NodeInv
    <3> QED BY <2>4, <2>7, <3>1, <3>2, <3>3, Zenon DEF ConfiguresProvisioned
  <2> QED BY <2>6, <2>7, Zenon DEF MarkInv
<1>4. ASSUME NEW t, reset_state(t), UNCHANGED <<pc, slow, prov_device, added, sems>>
      PROVE  MarkInv'
  <2>1. /\ Live(nodes)' \subseteq Live(nodes) \ {prov_device.node}
        /\ \A i \in Live(nodes)' : nodes'[i] = nodes[i]
        /\ ~HeldLive'
    BY <1>0, <1>4, ResetLive, Zenon
  <2> QED BY <1>4, <2>1, Zenon DEF MarkInv, HeldInv, ConfiguresProvisioned
<1> QED BY <1>0, <1>1, <1>2, <1>3, <1>4, LinkFacts, ZenonT(40)

\* Every step.
LEMMA MarkNext ==
    ASSUME NumberFacts, Base, MarkInv, [Next]_vars
    PROVE  MarkInv'
<1>1. CASE UNCHANGED <<pc, slow, nodes, prov_device, added>> /\ sems'.added = sems.added
  BY <1>1, Zenon DEF MarkInv, HeldInv, HeldLive, ConfiguresProvisioned, Live
<1>2. CASE Boards
  BY <1>1, <1>2, BoardsFacts, Zenon DEF Base, IInv
<1>3. CASE UNCHANGED vars
  BY <1>1, <1>3, Zenon DEF vars, mainVars, linkVars
<1> QED BY <1>2, <1>3, MainMark, LinkMark, Zenon DEF Next

\* No node but the provisioner's is in the table at the start.
LEMMA InitMark ==
    ASSUME NumberFacts
    PROVE  Init => MarkInv
<1> SUFFICES ASSUME Init PROVE MarkInv
  BY Zenon
<1>1. IInv /\ ~HeldLive
  BY InitInv, Zenon DEF Init, HeldLive
<1>2. Live(nodes) \subseteq {0}
  BY InitTable, Zenon
<1> QED BY <1>1, <1>2, Zenon DEF MarkInv, HeldInv, ConfiguresProvisioned, IInv, NodeInv

-----------------------------------------------------------------------------
(* Addresses and names: both come from record_count. *)

\* The steps of configure_node.
Configuring == {"app_key", "bind", "flag", "name", "record"}

\* A link that has not come to prov_capabilities.
Early == link.bearer = "opening" \/ (Exchanging /\ link.expect = "CAPABILITIES")

\* record_count is the address of the one node that may have to be configured, and of
\* the next node that a link allocates, unless that address is in use by then.  The
\* address of the provisioner is never passed.
RecordInv ==
    /\ record_count \in 1 .. SELF_ADDRESS
    /\ pc \in Configuring =>
         record_count < SELF_ADDRESS /\ nodes[slot].addr \in {UNASSIGNED, record_count}
    /\ \A i \in Live(nodes) : i = 0 \/ nodes[i].configured \/ nodes[i].addr = record_count
    /\ pc \in {"name", "record"} /\ slot \in Live(nodes) => nodes[slot].configured
    /\ pc \in Configuring /\ slot \notin Live(nodes) =>
         ~Early /\ \A i \in Live(nodes) : i = 0 \/ nodes[i].configured
    /\ Early \/ pc = "link_open" =>
         \/ prov_device.addr = record_count
         \/ \E i \in Live(nodes) : nodes[i].addr = prov_device.addr

\* The step of the loop that counts a record.
LEMMA CountRecord ==
    ASSUME IInv, RecordInv, pc = "record", pc' = "foreach", record_count' = record_count + 1,
           UNCHANGED <<nodes, link, prov_device>>
    PROVE  RecordInv'
<1>0. Typed /\ AddressInv
  BY Zenon DEF IInv
<1>1. Live(nodes)' = Live(nodes) /\ Early' = Early /\ Live(nodes) \subseteq Slots
  BY Zenon DEF Live, Early, Exchanging
<1>2. /\ record_count < SELF_ADDRESS /\ nodes[slot].addr \in {UNASSIGNED, record_count}
      /\ slot \in Slots
  BY <1>0, Zenon DEF RecordInv, Configuring, Typed
<1>3. record_count' \in 1 .. SELF_ADDRESS
  BY <1>2, ProvisioningAssumption DEF RecordInv
<1>4. ASSUME NEW i \in Live(nodes) PROVE i = 0 \/ nodes[i].configured
  <2>1. CASE slot \notin Live(nodes)
    BY <2>1, Zenon DEF RecordInv, Configuring
  <2>2. CASE slot \in Live(nodes)
    <3>1. nodes[slot].addr = record_count /\ nodes[slot].configured
      BY <1>2, <2>2, Zenon DEF RecordInv, Live
    <3>2. nodes[i].addr = record_count => i = slot
      BY <1>0, <1>4, <2>2, <3>1, Zenon DEF AddressInv
    <3> QED BY <1>4, <3>1, <3>2, Zenon DEF RecordInv
  <2> QED BY <2>1, <2>2, Zenon
<1>5. ASSUME Early PROVE \E i \in Live(nodes) : nodes[i].addr = prov_device.addr
  <2>1. slot \in Live(nodes)
    BY <1>5, Zenon DEF RecordInv, Configuring
  <2>2. nodes[slot].addr = record_count
    BY <1>2, <2>1, Zenon DEF Live
  <2> QED BY <1>5, <2>1, <2>2, Zenon DEF RecordInv
<1> QED BY <1>1, <1>3, <1>4, <1>5, Zenon DEF RecordInv, Configuring

\* The steps of the loop.
LEMMA LoopStepRecord ==
    ASSUME IInv, RecordInv, LoopStep
    PROVE  RecordInv'
<1>0. Typed /\ AddressInv /\ NodeInv
  BY Zenon DEF IInv
<1>1. SameNodes /\ UNCHANGED <<link, prov_device>>
  BY LoopStepFacts, Zenon DEF linkVars
<1>2. /\ Live(nodes)' = Live(nodes) /\ Live(nodes) \subseteq Slots
      /\ \A i \in Slots : nodes'[i].addr = nodes[i].addr
      /\ Early' = Early
  BY <1>0, <1>1, SlotsKept, Zenon DEF Live, Early, Exchanging
<1>3. \A i \in Slots : nodes[i].configured => nodes'[i].configured
  BY FlagFacts, Zenon
<1>4. CASE pc = "record"
  <2>1. pc' = "foreach" /\ record_count' = record_count + 1 /\ UNCHANGED nodes
    BY <1>4, Zenon DEF LoopStep, reset_unprov, reset_added, check_unconfigured, configure_node,
       take_unprov, Goto, StepAfter
  <2> QED BY <1>1, <1>4, <2>1, CountRecord, Zenon
<1>5. CASE reset_unprov \/ reset_added \/ take_unprov
  <2>1. UNCHANGED <<record_count, nodes>> /\ pc' \notin Configuring /\ pc' # "link_open"
    BY <1>5, Zenon DEF reset_unprov, reset_added, take_unprov, MainWaits, Goto, Configuring
  <2> QED BY <1>1, <1>2, <2>1, Zenon DEF RecordInv, Configuring
<1>6. CASE check_unconfigured
  <2>1. UNCHANGED record_count /\ pc = "foreach"
    BY <1>6, Zenon DEF check_unconfigured
  <2>2. CASE pc' \in {"foreach", "wait_unprov"}
    BY <1>1, <1>2, <1>3, <2>1, <2>2, Zenon DEF RecordInv, Configuring
  <2>3. CASE pc' = "app_key"
    <3>1. /\ slot # NODE_COUNT /\ nodes[slot].addr # UNASSIGNED /\ ~nodes[slot].configured
          /\ nodes[slot].addr # SELF_ADDRESS /\ UNCHANGED <<slot, nodes>>
      BY <1>6, <2>1, <2>3, Zenon DEF check_unconfigured, Goto
    <3>2. slot \in Live(nodes) /\ slot # 0
      <4>1. slot \in 0 .. NODE_COUNT /\ slot # 0
        BY <1>0, <3>1, Zenon DEF Typed, NodeInv
      <4>2. slot \in Slots
        BY <3>1, <4>1, NodesAssumption DEF Slots
      <4> QED BY <3>1, <4>1, <4>2, Zenon DEF Live
    <3>3. nodes[slot].addr = record_count /\ record_count < SELF_ADDRESS
      <4>1. nodes[slot].addr = record_count /\ record_count \in 1 .. SELF_ADDRESS
        BY <3>1, <3>2, Zenon DEF RecordInv
      <4>2. record_count # SELF_ADDRESS
        BY <3>1, <4>1, Zenon
      <4> QED BY <4>1, <4>2, ProvisioningAssumption
    <3> QED BY <1>1, <1>2, <2>1, <2>3, <3>1, <3>2, <3>3, Zenon DEF RecordInv, Configuring
  <2> QED BY <1>6, <2>1, <2>2, <2>3, Zenon DEF check_unconfigured, Goto
<1>7. CASE configure_node /\ pc # "record"
  <2>1. /\ UNCHANGED <<record_count, slot>> /\ pc \in Configuring
        /\ pc' \in Configuring /\ (pc' = "record" => pc = "name")
        /\ pc' # "link_open"
    BY <1>7 DEF configure_node, StepAfter, Goto, Configuring
  <2>2. slot \in Slots
    BY <1>0, <2>1, Zenon DEF Typed, Configuring
  <2>3. pc' = "name" => nodes'[slot].configured
    <3>1. pc' = "name" => nodes' = [nodes EXCEPT ![slot].configured = TRUE]
      BY <1>7 DEF configure_node, StepAfter, Goto
    <3> QED BY <1>0, <2>2, <3>1 DEF Typed, Node
  <2>4. pc' \in {"name", "record"} /\ slot \in Live(nodes) => nodes'[slot].configured
    BY <1>3, <2>1, <2>2, <2>3, Zenon DEF RecordInv
  <2>5. \A i \in Live(nodes) : nodes[i].configured => nodes'[i].configured
    BY <1>2, <1>3, Zenon
  <2> QED BY <1>1, <1>2, <2>1, <2>2, <2>4, <2>5, Zenon DEF RecordInv
<1> QED BY <1>4, <1>5, <1>6, <1>7, Zenon DEF LoopStep

\* The steps that open a link: its address is record_count.
LEMMA OpeningRecord ==
    ASSUME NumberFacts, IInv, RecordInv, SELF_ADDRESS <= 9, Open \/ link_open \/ take_added
    PROVE  RecordInv'
<1>0. Typed
  BY Zenon DEF IInv
<1>1. UNCHANGED <<record_count, nodes>>
  BY OpenFacts, Zenon DEF link_open, take_added, MainWaits
<1>2. Live(nodes)' = Live(nodes)
  BY <1>1, Zenon DEF Live
<1>3. pc' \in {"reset_unprov", "link_open", "wait_added"}
  BY OpenFacts, Zenon DEF link_open, take_added, Goto
<1>4. Early' \/ pc' = "link_open" =>
        \/ prov_device'.addr = record_count
        \/ (Early \/ pc = "link_open") /\ prov_device' = prov_device
  <2>1. CASE Open
    <3>1. CASE pc' = "link_open"
      <4>1. FirstDigit(record_count) = record_count
        <5>1. record_count \in 1 .. 9 /\ 9 \in Nat
          BY ProvisioningAssumption DEF RecordInv
        <5> QED BY <5>1, Zenon DEF NumberFacts, FirstDigit
      <4> QED BY <1>0, <2>1, <3>1, <4>1, OpenFacts, Zenon DEF Typed
    <3>2. CASE pc' # "link_open"
      BY <2>1, <3>2, OpenFacts, Zenon DEF Early, Exchanging
    <3> QED BY <3>1, <3>2, Zenon
  <2>2. CASE link_open
    BY <2>2, Zenon DEF link_open
  <2>3. CASE take_added
    <3>1. /\ UNCHANGED prov_device /\ link'.bearer = link.bearer
          /\ link'.expect = link.expect /\ pc' = "reset_unprov"
      BY <1>0, <2>3, Zenon DEF take_added, Goto, Typed
    <3> QED BY <3>1, Zenon DEF Early, Exchanging
  <2> QED BY <2>1, <2>2, <2>3, Zenon
<1> QED BY <1>1, <1>2, <1>3, <1>4, Zenon DEF RecordInv, Configuring

\* The steps of the link: a node that it allocates has the address record_count.
LEMMA LinkRecord ==
    ASSUME NumberFacts, IInv, RecordInv, Link
    PROVE  RecordInv'
<1>0. /\ Typed /\ AddressInv /\ NodeInv /\ LinkInv /\ Live(nodes) \subseteq Slots
      /\ (pc \in Configuring => slot \in Slots)
  BY Zenon DEF IInv, Live, Typed, Configuring
<1>1. CASE prov_capabilities
  <2>1. /\ Early /\ UNCHANGED <<pc, slot, record_count>>
        /\ \/ nodes' = nodes /\ link'.bearer = "closing"
           \/ \E k \in Slots : TakesSlot(k) /\ link'.expect = "PUB_KEY"
    BY <1>1, CapabilitiesFacts, Zenon DEF Early
  <2>2. pc # "link_open" /\ link.bearer = "open"
    BY <1>1, PduFacts, Zenon DEF prov_capabilities, Expected
  <2>3. CASE nodes' = nodes /\ link'.bearer = "closing"
    <3>1. ~Early' /\ Live(nodes)' = Live(nodes)
      BY <2>3, Zenon DEF Early, Exchanging, Live
    <3> QED BY <2>1, <2>2, <2>3, <3>1, Zenon DEF RecordInv
  <2>4. ASSUME NEW k \in Slots, TakesSlot(k), link'.expect = "PUB_KEY" PROVE RecordInv'
    <3>1. /\ Live(nodes)' = Live(nodes) \cup {k}
          /\ \A j \in Live(nodes) : nodes[j].addr # prov_device.addr
          /\ nodes'[k].addr = prov_device.addr
          /\ \A j \in Slots : j # k => nodes'[j] = nodes[j]
          /\ k \notin Live(nodes)
      BY <2>4, ZenonT(40) DEF TakesSlot, Live
    <3>2. prov_device.addr = record_count
      BY <2>1, <3>1, Zenon DEF RecordInv
    <3>3. pc \notin Configuring
      <4>1. SUFFICES ASSUME pc \in Configuring PROVE FALSE
        BY Zenon
      <4>2. slot \in Live(nodes)
        BY <2>1, <4>1, ZenonT(40) DEF RecordInv
      <4>3. nodes[slot].addr = record_count
        BY <4>1, <4>2, Zenon DEF RecordInv, Live
      <4> QED BY <3>1, <3>2, <4>2, <4>3, Zenon
    <3>4. ~Early'
      <4>1. link'.bearer = "open"
        <5>1. link' = Closing => link'.expect = "NO_PDU"
          BY <1>0, ClosingFacts, Zenon
        <5>2. link' = [link EXCEPT !.expect = "PUB_KEY"]
          BY <1>1, <2>4, <5>1, Zenon DEF prov_capabilities
        <5> QED BY <1>0, <2>2, <5>2, Zenon DEF Typed
      <4> QED BY <2>4, <4>1, Zenon DEF Early
    <3>5. \A i \in Live(nodes)' : i = 0 \/ nodes'[i].configured \/ nodes'[i].addr = record_count
      BY <1>0, <3>1, <3>2, Zenon DEF RecordInv
    <3>6. pc \notin {"name", "record"}
      BY <3>3, Zenon DEF Configuring
    <3> QED BY <2>1, <2>2, <3>3, <3>4, <3>5, <3>6, Zenon DEF RecordInv
  <2> QED BY <2>1, <2>3, <2>4, Zenon
<1>2. ASSUME ~prov_capabilities, UNCHANGED <<pc, slot, record_count, nodes>>,
             prov_device'.addr = prov_device.addr, Early' => Early
      PROVE  RecordInv'
  <2>1. Live(nodes)' = Live(nodes)
    BY <1>2, Zenon DEF Live
  <2> QED BY <1>2, <2>1, Zenon DEF RecordInv
<1>3. CASE prov_complete
  <2>1. /\ UNCHANGED <<pc, slot, record_count, nodes>> /\ link' = Closing
        /\ prov_device' = [prov_device EXCEPT !.node = NULL] /\ link.expect = "COMPLETE"
    BY <1>3, Zenon DEF prov_complete, mainVars, ForgetNode, Expected
  <2>2. ~Early' /\ prov_device'.addr = prov_device.addr
    BY <1>0, <2>1, ClosingFacts, Zenon DEF Early, Exchanging, Typed
  <2>3. ~prov_capabilities
    BY <2>1, Zenon DEF prov_capabilities, Expected
  <2> QED BY <1>2, <2>1, <2>2, <2>3, Zenon
<1>4. ASSUME NEW t, reset_state(t), UNCHANGED <<pc, slot, record_count, prov_device>>, ~Early'
      PROVE  RecordInv'
  <2>1. /\ Live(nodes)' \subseteq Live(nodes) \ {prov_device.node}
        /\ Live(nodes) \ {prov_device.node} \subseteq Live(nodes)'
        /\ \A i \in Live(nodes)' : nodes'[i] = nodes[i]
        /\ \A i \in Slots : nodes'[i].addr \in {nodes[i].addr, UNASSIGNED}
    BY <1>0, <1>4, ResetLive, ZenonT(40)
  <2>2. pc = "link_open" => prov_device.node \notin Live(nodes)
    <3>1. NULL \notin Slots
      BY NodesAssumption DEF Slots, NULL
    <3>2. pc = "link_open" => ~Exchanging /\ link.bearer # "closing"
      BY <1>0, Zenon DEF LinkInv, Ended, Exchanging
    <3> QED BY <1>0, <3>1, <3>2, Zenon DEF NodeInv, Live
  <2>3. ASSUME pc \in Configuring, slot \notin Live(nodes)', NEW i \in Live(nodes)'
        PROVE  i = 0 \/ nodes'[i].configured
    <3>1. CASE slot \notin Live(nodes)
      BY <2>1, <2>3, <3>1, Zenon DEF RecordInv
    <3>2. CASE slot \in Live(nodes)
      <4>1. nodes[slot].addr = record_count
        BY <2>3, <3>2, ZenonT(40) DEF RecordInv, Live
      <4>2. nodes[i].addr # record_count
        BY <1>0, <2>1, <2>3, <3>2, <4>1, Zenon DEF AddressInv
      <4> QED BY <2>1, <2>3, <4>2, Zenon DEF RecordInv
    <3> QED BY <3>1, <3>2, Zenon
  <2>4. pc \in Configuring => nodes'[slot].addr \in {UNASSIGNED, record_count}
    BY <1>0, <2>1, Zenon DEF RecordInv
  <2>5. pc = "link_open" => \/ prov_device.addr = record_count
                            \/ \E i \in Live(nodes)' : nodes'[i].addr = prov_device.addr
    BY <2>1, <2>2 DEF RecordInv
  <2>6. pc \in {"name", "record"} /\ slot \in Live(nodes)' => nodes'[slot].configured
    BY <2>1, Zenon DEF RecordInv
  <2>7. \A i \in Live(nodes)' : i = 0 \/ nodes'[i].configured \/ nodes'[i].addr = record_count
    BY <2>1, Zenon DEF RecordInv
  <2> QED BY <1>4, <2>3, <2>4, <2>5, <2>6, <2>7, Zenon DEF RecordInv
<1>5. CASE ~prov_capabilities
  <2>1. UNCHANGED <<pc, slot, record_count>>
    BY <1>5, LinkFacts, Zenon
  <2>2. CASE /\ UNCHANGED <<nodes, prov_device>>
             /\ \/ link.bearer = "opening"
                \/ link'.bearer = "closing"
                \/ link'.bearer # "opening" /\ link'.expect \in {"CONFIRM", "RANDOM", "COMPLETE"}
    BY <1>2, <1>5, <2>1, <2>2, Zenon DEF Early, Exchanging
  <2>3. CASE /\ UNCHANGED prov_device /\ \E t : reset_state(t)
             /\ link'.expect = "INVITE" /\ link'.bearer # "opening"
    <3>1. ~Early'
      BY <2>3, Zenon DEF Early, Exchanging
    <3> QED BY <1>4, <2>1, <2>3, <3>1, Zenon
  <2> QED BY <1>3, <1>5, <2>2, <2>3, LinkFacts, Zenon
<1> QED BY <1>1, <1>5, Zenon

\* Every step, and the start.
LEMMA RecordNext ==
    ASSUME NumberFacts, Base, RecordInv, SELF_ADDRESS <= 9, [Next]_vars
    PROVE  RecordInv'
<1>0. IInv /\ Typed
  BY Zenon DEF Base, IInv
<1>1. CASE UNCHANGED <<pc, slot, record_count, nodes, prov_device, link>>
  BY <1>1, Zenon DEF RecordInv, Early, Exchanging, Live
<1>2. CASE Boards
  BY <1>0, <1>1, <1>2, BoardsFacts, Zenon
<1>3. CASE UNCHANGED vars
  BY <1>1, <1>3, Zenon DEF vars, mainVars, linkVars
<1>4. CASE MainThread
  BY <1>0, <1>4, LoopStepRecord, OpeningRecord, Zenon DEF MainThread, LoopStep
<1> QED BY <1>0, <1>2, <1>3, <1>4, LinkRecord, Zenon DEF Next

\* At the start nothing is recorded, and the provisioner is the only node.
LEMMA InitRecord ==
    ASSUME NumberFacts
    PROVE  Init => RecordInv
<1> SUFFICES ASSUME Init PROVE RecordInv
  BY Zenon
<1>1. Live(nodes) \subseteq {0}
  BY InitTable, Zenon
<1>2. pc = "reset_unprov" /\ record_count = 1 /\ link.bearer = "idle"
  BY Zenon DEF Init
<1>3. ~Early /\ pc \notin Configuring \cup {"link_open", "name", "record"}
  BY <1>2, Zenon DEF Early, Exchanging, Configuring
<1>4. record_count \in 1 .. SELF_ADDRESS
  BY <1>2, ProvisioningAssumption
<1>5. \A i \in Live(nodes) : i = 0
  BY <1>1, Zenon
<1> QED BY <1>3, <1>4, <1>5, ZenonT(40) DEF RecordInv

\* The addresses for which the application key has been sent.
Taken(a) == \/ a < record_count
            \/ a = record_count /\ pc \in {"bind", "flag", "name", "record"}

InFlight == {msgs[i] : i \in DOMAIN msgs}
KeyMsgs == {m \in InFlight : m.kind = "app_key" /\ m.dst # UNASSIGNED}

\* The application key is sent once to an address, so one board at most gets it there,
\* and the name that it is sent is its address.
KeyInv ==
    /\ \A m \in KeyMsgs : Taken(m.dst)
    /\ \A d \in Devices : dev[d].app_key => dev[d].addr # UNASSIGNED /\ Taken(dev[d].addr)
    /\ \A m, n \in KeyMsgs : m.dst = n.dst => m.key = n.key
    /\ \A m \in KeyMsgs, d \in Devices :
         dev[d].app_key /\ dev[d].addr = m.dst => m.key = d
    /\ \A d, e \in Devices :
         dev[d].app_key /\ dev[e].app_key /\ dev[d].addr = dev[e].addr => d = e
    /\ \A m \in InFlight : m.kind = "Q" => m.dst \in {UNASSIGNED, m.name}
    /\ \A d \in Devices : dev[d].bound => dev[d].app_key
    /\ \A d \in Devices : dev[d].name # 0 => dev[d].app_key /\ dev[d].name = dev[d].addr

\* The messages in flight are messages.
LEMMA FlightTyped ==
    ASSUME MsgTyped
    PROVE  /\ \A m \in InFlight : m \in Message
           /\ \A m \in KeyMsgs : m \in InFlight /\ m.dst \in Nat
<1>1. \A m \in InFlight : m \in Message
  <2>1. msgs \in Seq(Message)
    BY Zenon DEF MsgTyped
  <2> QED BY <2>1 DEF InFlight
<1>2. \A m \in Message : m.dst \in Nat
  BY NodesAssumption DEF Message
<1> QED BY <1>1, <1>2, Zenon DEF KeyMsgs

\* One that is sent is added to them.
LEMMA FlightMore ==
    ASSUME MsgTyped, NEW m \in Message, msgs' = Append(msgs, m)
    PROVE  InFlight' = InFlight \cup {m}
<1>1. msgs \in Seq(Message)
  BY Zenon DEF MsgTyped
<1>2. /\ Len(msgs) \in Nat /\ DOMAIN msgs = 1 .. Len(msgs)
      /\ DOMAIN msgs' = 1 .. Len(msgs) + 1
      /\ \A i \in 1 .. Len(msgs) : msgs'[i] = msgs[i]
      /\ msgs'[Len(msgs) + 1] = m
  BY <1>1
<1>3. \A i : i \in DOMAIN msgs' <=> i \in DOMAIN msgs \/ i = Len(msgs) + 1
  BY <1>2
<1>4. ASSUME NEW q PROVE q \in InFlight' <=> q \in InFlight \/ q = m
  <2>1. q \in InFlight' <=> \E i \in DOMAIN msgs' : q = msgs'[i]
    BY Zenon DEF InFlight
  <2>2. q \in InFlight <=> \E i \in DOMAIN msgs : q = msgs[i]
    BY Zenon DEF InFlight
  <2> QED BY <1>2, <1>3, <2>1, <2>2, Zenon
<1> QED BY <1>4, Zenon

\* One that arrives or is lost was one of them, and none is added.
LEMMA FlightLess ==
    ASSUME MsgTyped, NEW i \in DOMAIN msgs, msgs' = RemoveMsg(i)
    PROVE  /\ InFlight' \subseteq InFlight
           /\ msgs[i] \in Message /\ msgs[i] \in InFlight
<1>1. msgs \in Seq(Message)
  BY Zenon DEF MsgTyped
<1>2. \A j \in DOMAIN msgs' : \E k \in DOMAIN msgs : msgs'[j] = msgs[k]
  BY <1>1, RemoveFacts, Zenon
<1>3. msgs[i] \in Message
  BY <1>1
<1>4. msgs[i] \in InFlight
  BY Zenon DEF InFlight
<1>5. ASSUME NEW q \in InFlight' PROVE q \in InFlight
  <2>1. PICK j \in DOMAIN msgs' : q = msgs'[j]
    BY Zenon DEF InFlight
  <2>2. PICK k \in DOMAIN msgs : msgs'[j] = msgs[k]
    BY <1>2, Zenon
  <2> QED BY <2>1, <2>2, Zenon DEF InFlight
<1> QED BY <1>3, <1>4, <1>5, Zenon

\* An address stays taken.
LEMMA TakenStays ==
    ASSUME NumberFacts, IInv, Next, NEW a \in Nat, Taken(a)
    PROVE  Taken(a)'
<1>0. record_count \in Nat /\ Typed
  BY Zenon DEF IInv, Typed
<1>1. CASE UNCHANGED <<pc, record_count>>
  BY <1>1, Zenon DEF Taken
<1>2. CASE UNCHANGED record_count /\ pc \notin {"bind", "flag", "name", "record"}
  BY <1>2, Zenon DEF Taken
<1>3. CASE Boards
  BY <1>0, <1>1, <1>3, BoardsFacts, Zenon
<1>4. CASE Link
  BY <1>1, <1>4, LinkFacts, CapabilitiesFacts, Zenon
<1>5. CASE configure_node
  <2>1. CASE pc = "record"
    BY <1>0, <1>5, <2>1 DEF configure_node, StepAfter, Taken
  <2>2. CASE pc # "record"
    <3>1. UNCHANGED record_count /\ pc' \in {"bind", "flag", "name", "record"}
      BY <1>5, <2>2 DEF configure_node, StepAfter, Goto
    <3> QED BY <3>1, Zenon DEF Taken
  <2> QED BY <2>1, <2>2, Zenon
<1>6. CASE MainThread /\ ~configure_node
  BY <1>2, <1>6, Zenon DEF MainThread, reset_unprov, reset_added, check_unconfigured, take_unprov,
     Open, pb_adv_open, link_open, take_added, MainWaits
<1> QED BY <1>3, <1>4, <1>5, <1>6, Zenon DEF Next

\* The configuration of a board, apart from its link.
SameBoard(d) == /\ dev'[d].addr = dev[d].addr /\ dev'[d].app_key = dev[d].app_key
                /\ dev'[d].bound = dev[d].bound /\ dev'[d].name = dev[d].name

\* Steps that configure no board and send nothing, or lose a message.
LEMMA KeyKept ==
    ASSUME NumberFacts, IInv, MsgTyped, KeyInv, Next, \A d \in Devices : SameBoard(d),
           InFlight' \subseteq InFlight
    PROVE  KeyInv'
<1>1. \A a \in Nat : Taken(a) => Taken(a)'
  BY TakenStays, Zenon
<1>2. KeyMsgs' \subseteq KeyMsgs
  BY Zenon DEF KeyMsgs
<1>4. \A m \in KeyMsgs : m.dst \in Nat
  BY FlightTyped, Zenon
<1>5. \A d \in Devices : dev[d].addr \in Nat
  BY DEF IInv, Typed
<1>6. \A m \in KeyMsgs' : Taken(m.dst)'
  BY <1>1, <1>2, <1>4, Zenon DEF KeyInv
<1>7. \A d \in Devices : dev'[d].app_key =>
                           dev'[d].addr # UNASSIGNED /\ Taken(dev[d].addr)'
  <2> SUFFICES ASSUME NEW d \in Devices, dev'[d].app_key
               PROVE  dev'[d].addr # UNASSIGNED /\ Taken(dev[d].addr)'
    BY Zenon
  <2> DEFINE a == dev[d].addr
  <2>1. SameBoard(d) /\ a \in Nat
    BY <1>5, Zenon
  <2>2. dev'[d].addr = a /\ a # UNASSIGNED /\ Taken(a)
    BY <2>1, ZenonT(40) DEF KeyInv, SameBoard
  <2> QED BY <1>1, <2>1, <2>2, Zenon
<1>8. /\ \A m \in KeyMsgs', d \in Devices :
           dev'[d].app_key /\ dev'[d].addr = m.dst => m.key = d
      /\ \A d, e \in Devices :
           dev'[d].app_key /\ dev'[e].app_key /\ dev'[d].addr = dev'[e].addr => d = e
  <2>1. \A d \in Devices : dev'[d].app_key = dev[d].app_key /\ dev'[d].addr = dev[d].addr
    BY Zenon DEF SameBoard
  <2>2. ASSUME NEW m \in KeyMsgs', NEW d \in Devices, dev'[d].app_key, dev'[d].addr = m.dst
        PROVE  m.key = d
    <3>1. m \in KeyMsgs /\ dev[d].app_key /\ dev[d].addr = m.dst
      BY <1>2, <2>1, <2>2, Zenon
    <3> QED BY <3>1, Zenon DEF KeyInv
  <2>3. ASSUME NEW d \in Devices, NEW e \in Devices, dev'[d].app_key, dev'[e].app_key,
               dev'[d].addr = dev'[e].addr
        PROVE  d = e
    <3>1. dev[d].app_key /\ dev[e].app_key /\ dev[d].addr = dev[e].addr
      BY <2>1, <2>3, Zenon
    <3> QED BY <3>1, Zenon DEF KeyInv
  <2> QED BY <2>2, <2>3, Zenon
<1>9. /\ \A m, n \in KeyMsgs' : m.dst = n.dst => m.key = n.key
      /\ \A m \in InFlight' : m.kind = "Q" => m.dst \in {UNASSIGNED, m.name}
  BY <1>2, Zenon DEF KeyInv
<1>10. /\ \A d \in Devices : dev'[d].bound => dev'[d].app_key
       /\ \A d \in Devices : dev'[d].name # 0 => dev'[d].app_key /\ dev'[d].name = dev'[d].addr
  BY Zenon DEF KeyInv, SameBoard
<1> QED BY <1>6, <1>7, <1>8, <1>9, <1>10, Zenon DEF KeyInv

\* configure_node: the application key goes to an address for the first time, and the
\* name to the address that it is.
LEMMA SendKey ==
    ASSUME NumberFacts, IInv, MsgTyped, RecordInv, KeyInv, SELF_ADDRESS <= 9, configure_node
    PROVE  KeyInv'
<1>0. /\ Typed /\ Next /\ \A d \in Devices : dev[d].addr \in Nat
  BY DEF IInv, Typed, Next, MainThread
<1>1. /\ UNCHANGED dev
      /\ \/ UNCHANGED msgs
         \/ \E m \in Message :
              /\ msgs' = Append(msgs, m) /\ pc' # "app_key"
              /\ m.dst = nodes[slot].addr /\ UNCHANGED <<nodes, record_count>>
              /\ \/ m.kind = pc /\ pc \in {"app_key", "bind"} /\ pc' \in {"bind", "flag"}
                 \/ /\ m.kind = "Q" /\ pc = "name" /\ pc' = "record"
                    /\ m.name = NameOf(record_count)
  BY <1>0, SendFacts, Zenon
<1>2. CASE UNCHANGED msgs
  <2>1. InFlight' = InFlight /\ \A d \in Devices : SameBoard(d)
    BY <1>1, <1>2, Zenon DEF InFlight, SameBoard
  <2> QED BY <1>0, <2>1, KeyKept, Zenon
<1>3. ASSUME NEW m \in Message, msgs' = Append(msgs, m), UNCHANGED record_count,
             m.dst = nodes[slot].addr,
             \/ m.kind = pc /\ pc \in {"app_key", "bind"} /\ pc' \in {"bind", "flag"}
             \/ m.kind = "Q" /\ pc = "name" /\ pc' = "record" /\ m.name = NameOf(record_count)
      PROVE  KeyInv'
  <2>1. InFlight' = InFlight \cup {m}
    BY <1>3, FlightMore, Zenon
  <2>2. \A n \in KeyMsgs : n.dst \in Nat
    BY FlightTyped, Zenon
  <2>3. \A a \in Nat : Taken(a) => Taken(a)'
    BY <1>0, TakenStays, Zenon
  <2>4. m.dst \in {UNASSIGNED, record_count}
    BY <1>3, Zenon DEF RecordInv, Configuring
  <2>5. CASE m.kind = "app_key"
    <3>1. pc = "app_key" /\ pc' \in {"bind", "flag"}
      BY <1>3, <2>5, Zenon
    <3>2. KeyMsgs' \subseteq KeyMsgs \cup {m} /\ KeyMsgs \subseteq InFlight
      BY <2>1, Zenon DEF KeyMsgs
    <3>3. m \in KeyMsgs' => m.dst = record_count
      BY <2>4, Zenon DEF KeyMsgs
    <3>4. record_count \in Nat /\ ~Taken(record_count) /\ Taken(record_count)'
      BY <1>3, <3>1 DEF RecordInv, Taken
    <3>5. \A n \in KeyMsgs : n.dst \in Nat /\ n.dst # record_count
      BY <2>2, <3>4, ZenonT(40) DEF KeyInv
    <3>6. \A d \in Devices : dev[d].app_key => dev[d].addr # record_count
      BY <3>4 DEF KeyInv
    <3>7. \A n \in KeyMsgs' : Taken(n.dst)'
      <4> SUFFICES ASSUME NEW n \in KeyMsgs' PROVE Taken(n.dst)'
        BY Zenon
      <4>1. CASE n \in KeyMsgs
        BY <2>3, <3>5, <4>1, Zenon DEF KeyInv
      <4>2. CASE n = m
        BY <1>3, <3>1, <3>3, <4>2, Zenon DEF Taken
      <4> QED BY <3>2, <4>1, <4>2, Zenon
    <3>8. \A n, o \in KeyMsgs' : n.dst = o.dst => n.key = o.key
      BY <3>2, <3>3, <3>5, ZenonT(40) DEF KeyInv
    <3>9. \A n \in KeyMsgs', d \in Devices :
            dev[d].app_key /\ dev[d].addr = n.dst => n.key = d
      BY <3>2, <3>3, <3>6, Zenon DEF KeyInv
    <3>10. \A n \in InFlight' : n.kind = "Q" => n.dst \in {UNASSIGNED, n.name}
      BY <2>1, <2>5, Zenon DEF KeyInv
    <3> QED BY <1>0, <1>1, <2>3, <3>7, <3>8, <3>9, <3>10, Zenon DEF KeyInv
  <2>6. CASE m.kind # "app_key"
    <3>1. KeyMsgs' = KeyMsgs
      BY <2>1, <2>6, Zenon DEF KeyMsgs
    <3>2. m.kind = "Q" => m.dst \in {UNASSIGNED, m.name}
      <4>1. record_count \in 1 .. 99 /\ 99 \in Nat
        BY ProvisioningAssumption DEF RecordInv
      <4>2. NameOf(record_count) = record_count
        BY <4>1, Zenon DEF NumberFacts, NameOf
      <4> QED BY <1>3, <2>4, <4>2, Zenon
    <3>3. \A n \in InFlight' : n.kind = "Q" => n.dst \in {UNASSIGNED, n.name}
      BY <2>1, <3>2, Zenon DEF KeyInv
    <3> QED BY <1>0, <1>1, <2>2, <2>3, <3>1, <3>3, Zenon DEF KeyInv
  <2> QED BY <2>5, <2>6, Zenon
<1> QED BY <1>1, <1>2, <1>3, Zenon

\* A message arrives.
LEMMA DeliverKey ==
    ASSUME NumberFacts, IInv, MsgTyped, KeyInv, Deliver
    PROVE  KeyInv'
<1>0. Typed /\ Next /\ \A d \in Devices : dev[d].addr \in Nat
  BY DEF IInv, Typed, Next, Boards
<1>1. PICK i \in DOMAIN msgs : dev' = Delivered(msgs[i]) /\ msgs' = RemoveMsg(i)
  BY Zenon DEF Deliver
<1> DEFINE m == msgs[i]
<1>2. m \in Message /\ m \in InFlight
  BY <1>1, FlightLess, Zenon
<1>3. InFlight' \subseteq InFlight
  BY <1>1, FlightLess, Zenon
<1>4. KeyMsgs' \subseteq KeyMsgs /\ \A n \in KeyMsgs : n.dst \in Nat
  BY <1>3, FlightTyped, Zenon DEF KeyMsgs
<1>5. \A d \in Devices :
        /\ dev'[d].addr = dev[d].addr
        /\ dev'[d].app_key = (dev[d].app_key \/ (/\ Receives(d, m)
                                                 /\ m.kind = "app_key" /\ m.key = d))
        /\ dev'[d].bound => dev[d].bound \/ dev[d].app_key
        /\ dev'[d].name # dev[d].name =>
             /\ Receives(d, m) /\ m.kind = "Q" /\ dev[d].bound
             /\ dev'[d].name = m.name
  BY <1>0, <1>1, <1>2, DeliveredFacts, Zenon
<1> HIDE DEF m
<1>6. \A a \in Nat : Taken(a) => Taken(a)'
  BY <1>0, TakenStays, Zenon
<1>7. ASSUME NEW d \in Devices, dev'[d].app_key
      PROVE  \/ dev[d].app_key
             \/ m \in KeyMsgs /\ m.key = d /\ m.dst = dev[d].addr
  BY <1>2, <1>5, <1>7, Zenon DEF KeyMsgs, Receives
<1>8. \A d \in Devices : dev[d].app_key => dev'[d].app_key
  BY <1>5, Zenon
<1>9. \A d \in Devices : dev'[d].app_key => dev'[d].addr # UNASSIGNED /\ Taken(dev[d].addr)
  <2> SUFFICES ASSUME NEW d \in Devices, dev'[d].app_key
               PROVE  dev'[d].addr # UNASSIGNED /\ Taken(dev[d].addr)
    BY Zenon
  <2>1. dev'[d].addr = dev[d].addr
    BY <1>5, Zenon
  <2>2. CASE dev[d].app_key
    BY <2>1, <2>2, Zenon DEF KeyInv
  <2>3. CASE m \in KeyMsgs /\ m.dst = dev[d].addr
    BY <2>1, <2>3, Zenon DEF KeyInv, KeyMsgs
  <2> QED BY <1>7, <2>2, <2>3, Zenon
<1>10. \A n \in KeyMsgs', d \in Devices :
         dev'[d].app_key /\ dev'[d].addr = n.dst => n.key = d
  <2> SUFFICES ASSUME NEW n \in KeyMsgs', NEW d \in Devices,
                      dev'[d].app_key, dev'[d].addr = n.dst
               PROVE  n.key = d
    BY Zenon
  <2>1. n \in KeyMsgs /\ dev[d].addr = n.dst
    BY <1>4, <1>5, Zenon
  <2>2. CASE dev[d].app_key
    BY <2>1, <2>2, Zenon DEF KeyInv
  <2>3. CASE m \in KeyMsgs /\ m.key = d /\ m.dst = dev[d].addr
    <3>1. n.dst = m.dst
      BY <2>1, <2>3, Zenon
    <3>2. n.key = m.key
      BY <2>1, <2>3, <3>1, Zenon DEF KeyInv
    <3> QED BY <2>3, <3>2, Zenon
  <2> QED BY <1>7, <2>2, <2>3, Zenon
<1>11. \A d, e \in Devices :
         dev'[d].app_key /\ dev'[e].app_key /\ dev'[d].addr = dev'[e].addr => d = e
  <2> SUFFICES ASSUME NEW d \in Devices, NEW e \in Devices, dev'[d].app_key,
                      dev'[e].app_key, dev'[d].addr = dev'[e].addr
               PROVE  d = e
    BY Zenon
  <2>1. dev[d].addr = dev[e].addr
    BY <1>5, Zenon
  <2>2. CASE dev[d].app_key /\ dev[e].app_key
    BY <2>1, <2>2, Zenon DEF KeyInv
  <2>3. ASSUME NEW f \in Devices, NEW g \in Devices, dev'[f].app_key,
               dev[f].addr = dev[g].addr, m \in KeyMsgs, m.key = g, m.dst = dev[g].addr
        PROVE  f = g
    <3>1. dev[f].addr = m.dst
      BY <2>3, Zenon
    <3>2. CASE dev[f].app_key
      <4>1. m.key = f
        BY <2>3, <3>1, <3>2, Zenon DEF KeyInv
      <4> QED BY <2>3, <4>1, Zenon
    <3>3. CASE m.key = f
      BY <2>3, <3>3, Zenon
    <3> QED BY <1>7, <2>3, <3>2, <3>3, Zenon
  <2>4. CASE m \in KeyMsgs /\ m.key = d /\ m.dst = dev[d].addr
    BY <2>1, <2>3, <2>4, Zenon
  <2>5. CASE m \in KeyMsgs /\ m.key = e /\ m.dst = dev[e].addr
    BY <2>1, <2>3, <2>5, Zenon
  <2> QED BY <1>7, <2>2, <2>4, <2>5, Zenon
<1>12. \A d \in Devices : dev'[d].bound => dev'[d].app_key
  BY <1>5, <1>8, Zenon DEF KeyInv
<1>13. ASSUME NEW d \in Devices, dev'[d].name # 0
       PROVE  dev'[d].app_key /\ dev'[d].name = dev'[d].addr
  <2>1. CASE dev'[d].name = dev[d].name
    BY <1>5, <1>8, <1>13, <2>1, Zenon DEF KeyInv
  <2>2. CASE dev'[d].name # dev[d].name
    <3>1. Receives(d, m) /\ m.kind = "Q" /\ dev[d].bound /\ dev'[d].name = m.name
      BY <1>5, <2>2, Zenon
    <3>2. m.dst = dev[d].addr /\ m.dst = m.name
      BY <1>2, <3>1, Zenon DEF Receives, KeyInv
    <3> QED BY <1>5, <1>8, <3>1, <3>2, Zenon DEF KeyInv
  <2> QED BY <2>1, <2>2, Zenon
<1>14. \A n \in KeyMsgs' : Taken(n.dst)'
  BY <1>4, <1>6, Zenon DEF KeyInv
<1>15. \A d \in Devices : dev'[d].app_key => Taken(dev[d].addr)'
  <2> SUFFICES ASSUME NEW d \in Devices, dev'[d].app_key PROVE Taken(dev[d].addr)'
    BY Zenon
  <2> DEFINE a == dev[d].addr
  <2>1. Taken(a) /\ a \in Nat /\ dev'[d].addr = a
    BY <1>0, <1>5, <1>9, Zenon
  <2> QED BY <1>6, <2>1, Zenon
<1> QED BY <1>3, <1>4, <1>9, <1>10, <1>11, <1>12, <1>13, <1>14, <1>15, ZenonT(40) DEF KeyInv

\* A board that gets its address has no key yet.
LEMMA ProvisionedKey ==
    ASSUME NumberFacts, IInv, MsgTyped, KeyInv, NEW d \in Devices, DeviceProvisioned(d)
    PROVE  KeyInv'
<1>0. /\ Typed /\ Next /\ \A e \in Devices : dev[e].addr \in Nat
  BY DEF IInv, Typed, Next, Boards
<1>1. /\ UNCHANGED msgs /\ pdu.to = "dev" /\ dev[d].link = "up"
      /\ dev' = [dev EXCEPT ![d].expect = "NO_PDU",
                            ![d].addr = nodes[prov_device.node].addr]
  BY Zenon DEF DeviceProvisioned, DeviceHandles, DeviceVars
<1>2. dev[d].addr = UNASSIGNED
  BY <1>1, ExchangeFacts, Zenon
<1>3. ~dev[d].app_key /\ ~dev[d].bound /\ dev[d].name = 0
  BY <1>2, Zenon DEF KeyInv
<1>4. \A e \in Devices : /\ e # d => dev'[e] = dev[e]
                         /\ dev'[e].app_key = dev[e].app_key
                         /\ dev'[e].bound = dev[e].bound
                         /\ dev'[e].name = dev[e].name
  <2>1. dev \in [Devices -> Board]
    BY <1>0, Zenon DEF Typed, Board
  <2> QED BY <1>1, <2>1, Zenon DEF Board
<1>5. \A e \in Devices : dev'[e].app_key \/ dev'[e].bound \/ dev'[e].name # 0 =>
                           e # d /\ dev'[e] = dev[e]
  BY <1>3, <1>4, Zenon
<1>6. InFlight' = InFlight /\ KeyMsgs' = KeyMsgs
  BY <1>1, Zenon DEF InFlight, KeyMsgs
<1>7. \A a \in Nat : Taken(a) => Taken(a)'
  BY <1>0, TakenStays, Zenon
<1>8. \A m \in KeyMsgs : m.dst \in Nat
  BY FlightTyped, Zenon
<1>9. \A e \in Devices : dev'[e].app_key => dev'[e].addr # UNASSIGNED /\ Taken(dev[e].addr)'
  <2> SUFFICES ASSUME NEW e \in Devices, dev'[e].app_key
               PROVE  dev'[e].addr # UNASSIGNED /\ Taken(dev[e].addr)'
    BY Zenon
  <2> DEFINE a == dev[e].addr
  <2>1. dev[e].app_key /\ dev'[e].addr = a /\ a \in Nat /\ a # UNASSIGNED /\ Taken(a)
    BY <1>0, <1>5, Zenon DEF KeyInv
  <2> QED BY <1>7, <2>1, Zenon
<1>10. \A m \in KeyMsgs' : Taken(m.dst)'
  BY <1>6, <1>7, <1>8, ZenonT(40) DEF KeyInv
<1>11. /\ \A m \in KeyMsgs', e \in Devices :
            dev'[e].app_key /\ dev'[e].addr = m.dst => m.key = e
       /\ \A e, f \in Devices :
            dev'[e].app_key /\ dev'[f].app_key /\ dev'[e].addr = dev'[f].addr => e = f
  <2>1. \A e \in Devices : dev'[e].app_key => dev[e].app_key /\ dev'[e].addr = dev[e].addr
    BY <1>5, Zenon
  <2>2. ASSUME NEW m \in KeyMsgs', NEW e \in Devices, dev'[e].app_key, dev'[e].addr = m.dst
        PROVE  m.key = e
    <3>1. m \in KeyMsgs /\ dev[e].app_key /\ dev[e].addr = m.dst
      BY <1>6, <2>1, <2>2, Zenon
    <3> QED BY <3>1, Zenon DEF KeyInv
  <2>3. ASSUME NEW e \in Devices, NEW f \in Devices, dev'[e].app_key, dev'[f].app_key,
               dev'[e].addr = dev'[f].addr
        PROVE  e = f
    <3>1. dev[e].app_key /\ dev[f].app_key /\ dev[e].addr = dev[f].addr
      BY <2>1, <2>3, Zenon
    <3> QED BY <3>1, Zenon DEF KeyInv
  <2> QED BY <2>2, <2>3, Zenon
<1>12. /\ \A m, n \in KeyMsgs' : m.dst = n.dst => m.key = n.key
       /\ \A m \in InFlight' : m.kind = "Q" => m.dst \in {UNASSIGNED, m.name}
  BY <1>6, Zenon DEF KeyInv
<1>13. \A e \in Devices :
         /\ dev'[e].bound => dev'[e].app_key
         /\ dev'[e].name # 0 => dev'[e].app_key /\ dev'[e].name = dev'[e].addr
  BY <1>5, Zenon DEF KeyInv
<1> QED BY <1>9, <1>10, <1>11, <1>12, <1>13, Zenon DEF KeyInv

\* Every step, and the start.
LEMMA KeyNext ==
    ASSUME NumberFacts, Base, RecordInv, KeyInv, SELF_ADDRESS <= 9, [Next]_vars
    PROVE  KeyInv'
<1>0. IInv /\ MsgTyped /\ Typed
  BY Zenon DEF Base, IInv
<1>1. CASE UNCHANGED vars
  <2>1. UNCHANGED <<dev, msgs, pc, record_count>>
    BY <1>1, Zenon DEF vars, mainVars
  <2>2. InFlight' = InFlight /\ KeyMsgs' = KeyMsgs
    BY <2>1, Zenon DEF InFlight, KeyMsgs
  <2> QED BY <2>1, <2>2, Zenon DEF KeyInv, Taken
<1>2. ASSUME Next, UNCHANGED <<dev, msgs>> PROVE KeyInv'
  BY <1>0, <1>2, KeyKept, Zenon DEF SameBoard, InFlight
<1>3. CASE MainThread
  <2>1. CASE configure_node
    BY <1>0, <2>1, SendKey, Zenon
  <2>2. CASE ~configure_node
    BY <1>2, <1>3, <2>2, Zenon DEF Next, MainThread, reset_unprov, reset_added, check_unconfigured,
       take_unprov, Open, pb_adv_open, link_open, take_added, MainWaits
  <2> QED BY <2>1, <2>2, Zenon
<1>4. ASSUME Next, UNCHANGED msgs, \A d \in Devices : SameBoard(d) PROVE KeyInv'
  BY <1>0, <1>4, KeyKept, Zenon DEF InFlight
<1>5. CASE Link
  <2>1. CASE LinkTimeout \/ LinkClosed
    <3>1. close_link /\ UNCHANGED msgs
      BY <2>1, Zenon DEF LinkTimeout, LinkClosed, close_link
    <3>2. \A d \in Devices : SameBoard(d)
      BY <1>0, <3>1 DEF close_link, SameBoard, Typed
    <3> QED BY <1>4, <1>5, <3>1, <3>2, Zenon DEF Next
  <2>2. CASE ~(LinkTimeout \/ LinkClosed)
    BY <1>2, <1>5, <2>2, Zenon DEF Next, Link, link_ack, prov_capabilities, prov_complete,
       prov_fail, prov_failed, prov_pub_key, prov_confirm, prov_random, NextRequest
  <2> QED BY <2>1, <2>2, Zenon
<1>6. CASE Deliver
  BY <1>0, <1>6, DeliverKey, Zenon
<1>7. CASE Lose
  <2>1. /\ UNCHANGED dev /\ \E i \in DOMAIN msgs : msgs' = RemoveMsg(i)
    BY <1>7, Zenon DEF Lose
  <2>2. InFlight' \subseteq InFlight
    BY <1>0, <2>1, FlightLess, Zenon
  <2>3. Next
    BY <1>7, Zenon DEF Next, Boards
  <2> QED BY <1>0, <2>1, <2>2, <2>3, KeyKept, Zenon DEF SameBoard
<1>8. ASSUME NEW d \in Devices,
             \/ unprovisioned_beacon(d) \/ DeviceLinkOpen(d) \/ DeviceLinkClosed(d)
             \/ DeviceReplies(d) \/ DeviceFails(d)
      PROVE  KeyInv'
  <2>1. Next
    BY <1>8, Zenon DEF Next, Boards
  <2>2. /\ UNCHANGED msgs
        /\ \/ UNCHANGED dev
           \/ \E l, e : dev' = [dev EXCEPT ![d].link = l, ![d].expect = e]
           \/ \E e : dev' = [dev EXCEPT ![d].expect = e]
    BY <1>8, Zenon DEF unprovisioned_beacon, DeviceLinkOpen, DeviceLinkClosed, DeviceReplies,
       DeviceFails, DeviceHandles, DeviceVars
  <2>3. \A e \in Devices : SameBoard(e)
    <3>1. dev \in [Devices -> Board]
      BY <1>0, Zenon DEF Typed, Board
    <3>2. CASE UNCHANGED dev
      BY <3>2, Zenon DEF SameBoard
    <3>3. CASE \E l, x : dev' = [dev EXCEPT ![d].link = l, ![d].expect = x]
      BY <3>1, <3>3 DEF SameBoard, Board
    <3>4. CASE \E x : dev' = [dev EXCEPT ![d].expect = x]
      BY <3>1, <3>4 DEF SameBoard, Board
    <3> QED BY <2>2, <3>2, <3>3, <3>4, Zenon
  <2> QED BY <1>4, <2>1, <2>2, <2>3, Zenon
<1>9. CASE Boards
  BY <1>0, <1>6, <1>7, <1>8, <1>9, ProvisionedKey, Zenon DEF Boards
<1> QED BY <1>1, <1>3, <1>5, <1>9, Zenon DEF Next

\* At the start no board has a key, and no message is in flight.
LEMMA InitKey ==
    Init => KeyInv
<1> SUFFICES ASSUME Init PROVE KeyInv
  BY Zenon
<1>1. msgs = <<>> /\ \A d \in Devices : ~dev[d].app_key /\ ~dev[d].bound /\ dev[d].name = 0
  BY Zenon DEF Init
<1>2. InFlight = {} /\ KeyMsgs = {}
  BY <1>1 DEF InFlight, KeyMsgs
<1> QED BY <1>1, <1>2, ZenonT(40) DEF KeyInv

\* Two nodes of the table have different addresses, and a board keeps its own.
LEMMA DistinctFromInv ==
    IInv /\ KeyInv => IdentitiesDistinct
<1> SUFFICES ASSUME IInv, KeyInv, NEW d \in Devices, NEW e \in Devices, d # e
             PROVE  /\ added[d] # UNASSIGNED => added[d] # added[e] /\ added[d] # SELF_ADDRESS
                    /\ dev[d].name # 0 => dev[d].name # dev[e].name
  BY Zenon DEF IdentitiesDistinct
<1>1. Typed /\ AddedInv /\ AddressInv /\ NodeInv /\ 0 \in Slots
  BY NodesAssumption DEF IInv, Slots
<1>2. ASSUME added[d] # UNASSIGNED
      PROVE  added[d] # added[e] /\ added[d] # SELF_ADDRESS
  <2>1. PICK i \in Slots : nodes[i].uuid = d /\ nodes[i].addr = added[d]
    BY <1>1, <1>2, Zenon DEF AddedInv
  <2>2. i \in Live(nodes)
    BY <1>2, <2>1, Zenon DEF Live
  <2>3. added[d] # added[e]
    <3> SUFFICES ASSUME added[d] = added[e] PROVE FALSE
      BY Zenon
    <3>1. PICK j \in Slots : nodes[j].uuid = e /\ nodes[j].addr = added[e]
      BY <1>1, <1>2, Zenon DEF AddedInv
    <3>2. j \in Live(nodes)
      BY <1>2, <3>1, Zenon DEF Live
    <3> QED BY <1>1, <2>1, <2>2, <3>1, <3>2, Zenon DEF AddressInv
  <2>4. added[d] # SELF_ADDRESS
    <3>1. 0 \in Live(nodes) /\ nodes[0].addr = SELF_ADDRESS /\ nodes[0].uuid = Self
      BY <1>1, ProvisioningAssumption DEF NodeInv, Live, UNASSIGNED
    <3> QED BY <1>1, <2>1, <2>2, <3>1, Zenon DEF AddressInv, Devices
  <2> QED BY <2>3, <2>4, Zenon
<1>3. dev[d].name # 0 => dev[d].name # dev[e].name
  BY Zenon DEF KeyInv
<1> QED BY <1>2, <1>3, Zenon

-----------------------------------------------------------------------------
(* The facts about numbers, from the facts of the library about finite sets. *)

INSTANCE FiniteSetTheorems

\* A non-empty set of slot numbers has a least element, so FirstOf is the slot a
\* loop over the array meets first.
LEMMA FirstOfIsLeast ==
    ASSUME NEW n \in Nat, NEW S \in SUBSET (0 .. n), S # {}
    PROVE  FirstOf(S) \in S /\ \A j \in S : FirstOf(S) <= j
<1> DEFINE T == {0 .. i : i \in S}
           WF == FiniteSubsetsOf(0 .. n)
<1>1. IsWellFoundedOn(StrictSubsetOrdering(0 .. n), WF)
  BY FS_StrictSubsetOrderingWellFounded, Zenon
<1>2. T \subseteq WF
  <2>1. ASSUME NEW i \in S PROVE 0 .. i \in WF
    <3>1. IsFiniteSet(0 .. i)
      BY FS_Interval
    <3> QED BY <3>1 DEF FiniteSubsetsOf
  <2> QED BY <2>1, Zenon
<1>0. T # {}
  BY Zenon
<1>3. PICK x \in T : \A y \in T : ~ (<<y, x>> \in StrictSubsetOrdering(0 .. n))
  BY <1>0, <1>1, <1>2, WFMin, Zenon
<1>4. PICK i \in S : x = 0 .. i
  BY Zenon
<1>5. ASSUME NEW j \in S, j < i PROVE FALSE
  <2>1. <<0 .. j, x>> \in StrictSubsetOrdering(0 .. n)
    BY <1>4, <1>5, SMT DEF StrictSubsetOrdering
  <2> QED BY <2>1, <1>3, Zenon
<1>6. \A j \in S : i <= j
  BY <1>5, SMT
<1> QED BY <1>6, Zenon DEF FirstOf

\* What snprintf leaves of a number is a number.
LEMMA DigitsType ==
    ASSUME NEW n \in Nat, NEW max \in Nat
    PROVE  FirstDigits(n, max) \in Nat
<1> DEFINE S == {x \in 1 .. max :
                   \E p \in PowersOfTen : x <= n \div p /\ n \div p <= max}
<1>1. IsFiniteSet(1 .. max)
  BY FS_Interval
<1>2. S \subseteq 1 .. max
  BY Zenon
<1>3. IsFiniteSet(S)
  BY <1>1, <1>2, FS_Subset, Zenon
<1>4. Cardinality(S) \in Nat
  BY <1>3, FS_CardinalityType, Zenon
<1> QED BY <1>4, Zenon DEF FirstDigits

\* What fits the buffer of snprintf is left as it is.
LEMMA SmallDigits ==
    ASSUME NEW max \in Nat, NEW n \in 1 .. max
    PROVE  FirstDigits(n, max) = n
<1> DEFINE S == {x \in 1 .. max :
                   \E p \in PowersOfTen : x <= n \div p /\ n \div p <= max}
<1>1. \A p \in PowersOfTen : n \div p <= n /\ n \div p \in Int
  BY DEF PowersOfTen
<1>2. 1 \in PowersOfTen /\ n \div 1 = n
  BY DEF PowersOfTen
<1>3. S = 1 .. n
  <2>1. ASSUME NEW x \in S PROVE x \in 1 .. n
    BY <1>1
  <2>2. ASSUME NEW x \in 1 .. n PROVE x \in S
    <3>1. x \in 1 .. max /\ x <= n /\ n <= max
      OBVIOUS
    <3> QED BY <1>2, <3>1, Zenon
  <2> QED BY <2>1, <2>2, Zenon
<1>4. Cardinality(1 .. n) = n
  BY FS_Interval
<1> QED BY <1>3, <1>4, Zenon DEF FirstDigits

\* The facts about numbers that the lemmas above assume.
LEMMA NumberFactsHold == NumberFacts
BY FirstOfIsLeast, DigitsType, SmallDigits, Zenon DEF NumberFacts

-----------------------------------------------------------------------------
(* The theorems. *)

\* As long as links are opened alone, the pointer that reset_state leaves behind
\* (provisioner.c: prov_device.node) never deletes the node of a board that
\* prov_complete reported, nor the provisioner's own, for any number of boards,
\* slots, failures and slow links.
THEOREM KeptWhileAlone ==
    Spec /\ []OpensAlone => []CompletedNodesKept
<1>1. Init => IInv /\ MsgTyped
  BY NumberFactsHold, InitInv, InitMsgs, Zenon
<1>2. IInv /\ MsgTyped /\ OpensAlone /\ [Next]_vars => IInv' /\ MsgTyped'
  BY NumberFactsHold, NextInv, MsgTypedNext, StutterInv, Zenon
<1> QED BY <1>1, <1>2, KeptFromInv, PTL DEF Spec

\* With at most one slow link, bt_mesh_pb_adv_open is never called while a link is
\* being opened: LINK_ACTIVE stops it, or main is still in its wait.
LEMMA OpenedAlone ==
    ASSUME SLOW_LINKS <= 1
    PROVE  Spec => []OpensAlone
<1> DEFINE J == IInv /\ MsgTyped /\ SlowInv /\ AloneInv
<1>1. Init => J
  BY NumberFactsHold, InitInv, InitMsgs, InitSlow, Zenon
<1>2. J /\ [Next]_vars => J'
  <2>1. ASSUME J, Next PROVE J'
    BY <2>1, NumberFactsHold, NextInv, MsgTypedNext, SlowNext, AloneFromInv, ZenonT(40)
  <2>2. ASSUME J, UNCHANGED vars PROVE J'
    BY <2>2, StutterInv, StutterSlow, Zenon
  <2> QED BY <2>1, <2>2, Zenon
<1>3. J => OpensAlone
  BY AloneFromInv, Zenon
<1> HIDE DEF J
<1> QED BY <1>1, <1>2, <1>3, PTL DEF Spec

\* With at most one slow link, the node of a board that prov_complete reported, and
\* the provisioner's own, stay in the table under the address that the board has,
\* whatever other links do (bt_mesh_cdb_node_del in reset_state of provisioner.c).
THEOREM NodesKept ==
    ASSUME SLOW_LINKS <= 1
    PROVE  Spec => []CompletedNodesKept
BY KeptWhileAlone, OpenedAlone, PTL

\* The invariants so far, as long as links are opened alone.
LEMMA BaseHolds ==
    Spec /\ []OpensAlone => []Base
<1>1. Init => Base
  BY NumberFactsHold, InitInv, InitMsgs, InitSlow, Zenon DEF Base
<1>2. Base /\ OpensAlone /\ [Next]_vars => Base'
  <2>1. ASSUME Base, OpensAlone, Next PROVE Base'
    BY <2>1, NumberFactsHold, NextInv, MsgTypedNext, SlowNext, ZenonT(40) DEF Base
  <2>2. ASSUME Base, UNCHANGED vars PROVE Base'
    BY <2>2, StutterInv, StutterSlow, Zenon DEF Base
  <2> QED BY <2>1, <2>2, Zenon
<1> QED BY <1>1, <1>2, PTL DEF Spec

\* When no link outlasts the wait of mesh_start, check_unconfigured configures only
\* nodes that node_added has reported, for any number of boards and failures.
THEOREM OnlyProvisionedConfigured ==
    ASSUME SLOW_LINKS = 0
    PROVE  Spec => []ConfiguresProvisioned
<1>1. SLOW_LINKS <= 1
  OBVIOUS
<1>2. Spec => []OpensAlone
  BY <1>1, OpenedAlone, Zenon
<1>3. MarkInv => ConfiguresProvisioned
  BY Zenon DEF MarkInv
<1>4. Init => MarkInv
  BY NumberFactsHold, InitMark, Zenon
<1>5. Base /\ MarkInv /\ [Next]_vars => MarkInv'
  BY NumberFactsHold, MarkNext, Zenon
<1> QED BY <1>2, <1>3, <1>4, <1>5, BaseHolds, PTL DEF Spec

\* As long as links are opened alone, no two boards that prov_complete reported share
\* an address, and no two boards have the same name, for any number of boards, slots,
\* failures, slow links and lost messages.  The addresses and names are taken from the
\* same counter at different times (mesh.c: mesh_start and configure_node).
THEOREM DistinctWhileAlone ==
    ASSUME SELF_ADDRESS <= 9
    PROVE  Spec /\ []OpensAlone => []IdentitiesDistinct
<1>1. Base /\ RecordInv /\ [Next]_vars => RecordInv'
  BY NumberFactsHold, RecordNext, Zenon
<1>2. Base /\ RecordInv /\ KeyInv /\ [Next]_vars => KeyInv'
  BY NumberFactsHold, KeyNext, Zenon
<1>3. Base /\ KeyInv => IdentitiesDistinct
  BY DistinctFromInv, Zenon DEF Base
<1>4. Init => RecordInv
  BY NumberFactsHold, InitRecord, Zenon
<1> QED BY <1>1, <1>2, <1>3, <1>4, BaseHolds, InitKey, PTL DEF Spec

\* With at most one slow link, the identities are distinct.
THEOREM Distinct ==
    ASSUME SELF_ADDRESS <= 9, SLOW_LINKS <= 1
    PROVE  Spec => []IdentitiesDistinct
BY DistinctWhileAlone, OpenedAlone, PTL

=============================================================================


---------------------------- MODULE Provisioning ----------------------------
(***************************************************************************)
(* The provisioner board: the loop of mesh_start (Project/Provisioner/src/ *)
(* mesh.c) on the main thread, and the provisioning link (provisioner.c,   *)
(* prov.c, pb_adv.c) on the Bluetooth receive thread and the system work   *)
(* queue, both of which preempt the main thread.  They share the node      *)
(* table of the configuration database, two semaphores and the UUID of the *)
(* last beacon.  The boards to be provisioned follow prov_device.c.        *)
(*                                                                         *)
(* The provisioning PDUs of a link form an alternating request and reply   *)
(* protocol; the segments and acknowledgements that carry a PDU are left   *)
(* out, and a link may time out at any point instead.  START and the       *)
(* PUB_KEY sent when START is acknowledged are one request.                *)
(***************************************************************************)
EXTENDS CDBNodes, FiniteSets, Sequences

CONSTANTS
    Self,          \* the provisioner's own UUID
    SELF_ADDRESS,  \* its hard-coded address, 6
    SEM_LIMIT,     \* the limit of both semaphores, 5
    SLOW_LINKS,    \* how many links may outlast the 10 s wait of mesh_start
    FAILURES,      \* how many links may fail by an error or a silent peer
    LOSSY,         \* mesh messages may be lost and overtake each other
    MSG_MAX        \* bound: mesh messages in flight

ASSUME ProvisioningAssumption ==
    /\ Self \in Uuids
    /\ SELF_ADDRESS \in 1 .. UNICAST_MAX
    /\ SEM_LIMIT \in Nat \ {0}
    /\ SLOW_LINKS \in Nat
    /\ FAILURES \in Nat
    /\ LOSSY \in BOOLEAN
    /\ MSG_MAX \in Nat \ {0}

Devices == Uuids \ {Self}

VARIABLES
    pc,             \* where the main thread is in mesh_start
    slot,           \* loop index of bt_mesh_cdb_node_foreach
    sems,           \* sem_unprov_beacon and sem_node_added
    node_uuid,      \* UUID of the last unprovisioned beacon
    record_count,
    nodes,          \* bt_mesh_cdb.nodes
    dev_key,        \* dev_key of each slot: the device it was derived with
    prov_device,    \* provisioner.c: node (a slot or NULL), uuid, addr
    link,           \* LINK_ACTIVE, the PB-ADV link, expect, and a slow mark
    pdu,            \* the provisioning PDU in flight
    dev,            \* the other boards
    msgs,           \* mesh messages in flight from the provisioner
    slow,           \* slow links still to come
    fails,          \* failures still to come
    added           \* history: the address node_added reported per device

mainVars == <<pc, slot, node_uuid, record_count>>
linkVars == <<prov_device, link, pdu>>
vars == <<mainVars, sems, nodes, dev_key, linkVars, dev, msgs, slow, fails, added>>

NoPdu == [to |-> "none", type |-> "NO_PDU"]
Requests == <<"INVITE", "PUB_KEY", "CONFIRM", "RANDOM", "DATA">>
Replies == <<"CAPABILITIES", "PUB_KEY", "CONFIRM", "RANDOM", "COMPLETE">>
RequestTypes == {Requests[i] : i \in 1 .. 5}
ReplyTypes == {Replies[i] : i \in 1 .. 5}
Round(seq, t) == CHOOSE i \in 1 .. 5 : seq[i] = t

Pcs == {"reset_unprov", "reset_added", "foreach", "app_key", "bind", "flag",
        "name", "record", "wait_unprov", "open", "link_open", "wait_added"}

TypeOK ==
    /\ pc \in Pcs
    /\ slot \in 0 .. NODE_COUNT
    /\ pc \in {"app_key", "bind", "flag", "name", "record"} => slot \in Slots
    /\ sems \in [unprov : 0 .. SEM_LIMIT, added : 0 .. SEM_LIMIT]
    /\ node_uuid \in Uuids \cup {NoUuid}
    /\ record_count \in Nat \ {0}
    /\ nodes \in [Slots -> Node]
    /\ dev_key \in [Slots -> Uuids \cup {NoUuid}]
    /\ prov_device \in [node : Slots \cup {NULL}, uuid : Uuids \cup {NoUuid},
                        addr : 0 .. UNICAST_MAX]
    /\ link \in [active : BOOLEAN, slow : BOOLEAN,
                 bearer : {"idle", "opening", "open", "closing"},
                 expect : ReplyTypes \cup {"INVITE", "NO_PDU"}]
    /\ pdu \in {NoPdu} \cup [to : {"dev"}, type : RequestTypes]
                       \cup [to : {"prov"}, type : ReplyTypes \cup {"FAILED"}]
    /\ dev \in [Devices -> [link : {"none", "up", "stale"},
                            expect : RequestTypes \cup {"NO_PDU"},
                            addr : 0 .. UNICAST_MAX, app_key : BOOLEAN,
                            bound : BOOLEAN, name : Nat]]
    /\ msgs \in Seq([kind : {"app_key", "bind", "Q"}, dst : 0 .. UNICAST_MAX,
                     key : Uuids \cup {NoUuid}, name : Nat])
    /\ slow \in 0 .. SLOW_LINKS
    /\ fails \in 0 .. FAILURES
    /\ added \in [Devices -> 0 .. UNICAST_MAX]

\* bt_ready has created the database and provisioned the board itself, which
\* put it in the first slot.
Init ==
    /\ pc = "reset_unprov"
    /\ slot = 0
    /\ sems = [unprov |-> 0, added |-> 0]
    /\ node_uuid = NoUuid
    /\ record_count = 1
    /\ nodes = node_alloc(InitNodes, Self, SELF_ADDRESS, 1)
    /\ dev_key = [i \in Slots |-> IF i = 0 THEN Self ELSE NoUuid]
    /\ prov_device = [node |-> NULL, uuid |-> NoUuid, addr |-> UNASSIGNED]
    /\ link = [active |-> FALSE, slow |-> FALSE, bearer |-> "idle",
               expect |-> "NO_PDU"]
    /\ pdu = NoPdu
    /\ dev = [d \in Devices |-> [link |-> "none", expect |-> "NO_PDU",
                                 addr |-> UNASSIGNED, app_key |-> FALSE,
                                 bound |-> FALSE, name |-> 0]]
    /\ msgs = <<>>
    /\ slow = SLOW_LINKS
    /\ fails = FAILURES
    /\ added = [d \in Devices |-> UNASSIGNED]

-----------------------------------------------------------------------------
(* The provisioning link.                                                  *)

\* Mutant: the half-provisioned node stays in the table.
reset_state_Keep(t) ==
    /\ nodes' = nodes
    /\ dev_key' = dev_key
    /\ link' = [active |-> FALSE, slow |-> link.slow, bearer |-> t,
                expect |-> "INVITE"]

\* provisioner.c reset_state and bt_mesh_prov_reset_state: the node of the
\* link is deleted, all flags are cleared and expect becomes 0, which is
\* PROV_INVITE.  prov_device.node keeps pointing at the slot.
reset_state(t) ==
    /\ nodes' = IF prov_device.node = NULL THEN nodes
                ELSE node_del(nodes, prov_device.node)
    /\ dev_key' = IF prov_device.node = NULL THEN dev_key
                  ELSE [dev_key EXCEPT ![prov_device.node] = NoUuid]
    /\ link' = [active |-> FALSE, slow |-> link.slow, bearer |-> t,
                expect |-> "INVITE"]

\* A node that the current link allocated and has neither lost nor completed.
Held ==
    /\ link.bearer # "idle"
    /\ prov_device.node # NULL
    /\ nodes[prov_device.node].addr # UNASSIGNED

\* close_link: the peer's link, if still open, no longer matches link.id.
close_link ==
    /\ reset_state("idle")
    /\ pdu' = NoPdu
    /\ dev' = [d \in Devices |->
                 IF dev[d].link = "up" THEN [dev[d] EXCEPT !.link = "stale"]
                 ELSE dev[d]]
    /\ UNCHANGED <<mainVars, sems, prov_device, msgs, slow, added>>

\* One of the failures the run allows.
Failure == fails > 0 /\ fails' = fails - 1

\* The close message has been repeated for CLOSING_TIMEOUT.
LinkClosed == link.bearer = "closing" /\ close_link /\ UNCHANGED fails

\* No board answers LINK_OPEN, or the board reported a failure.
Dead ==
    \/ link.bearer = "opening" /\ \A d \in Devices :
         prov_device.uuid = d => dev[d].link = "stale"
    \/ link.bearer = "open" /\ link.expect = "INVITE"

\* Mutant: only the link that is being opened times out.
LinkTimeout_OpeningOnly ==
    /\ link.bearer = "opening"
    /\ IF Dead \/ link.slow THEN UNCHANGED fails ELSE ~Held /\ Failure
    /\ close_link

\* TRANSACTION_TIMEOUT in prov_retransmit, or protocol_timeout.
LinkTimeout ==
    /\ link.bearer \in {"opening", "open"}
    /\ IF Dead \/ link.slow THEN UNCHANGED fails ELSE ~Held /\ Failure
    /\ close_link

\* prov_fail and prov_link_close of the provisioner.
Closing == [link EXCEPT !.expect = "NO_PDU", !.bearer = "closing"]

link_ack ==
    /\ link.bearer = "opening"
    /\ \E d \in Devices : dev[d].link = "up"
    /\ link' = [link EXCEPT !.bearer = "open", !.active = TRUE,
                            !.expect = "CAPABILITIES"]
    /\ pdu' = [to |-> "dev", type |-> "INVITE"]
    /\ UNCHANGED <<mainVars, sems, nodes, dev_key, prov_device, dev, msgs,
                   slow, fails, added>>

\* A reply whose type is not the expected one closes the link, and so does an
\* error in the handler; on a closing link nothing is left to do.
prov_fail ==
    /\ pdu.to = "prov"
    /\ pdu.type # "FAILED"
    /\ IF pdu.type = link.expect THEN pdu.type # "COMPLETE" /\ Failure
       ELSE UNCHANGED fails
    /\ pdu' = NoPdu
    /\ link' = Closing
    /\ UNCHANGED <<mainVars, sems, nodes, dev_key, prov_device, dev, msgs,
                   slow, added>>

\* A PROV_FAILED PDU is taken in every state, and leaves the bearer alone.
prov_failed ==
    /\ pdu.to = "prov"
    /\ pdu.type = "FAILED"
    /\ reset_state(link.bearer)
    /\ pdu' = NoPdu
    /\ UNCHANGED <<mainVars, sems, prov_device, dev, msgs, slow, fails, added>>

Expected(t) == pdu.to = "prov" /\ pdu.type = t /\ link.expect = t

\* prov_capabilities: a slot of the table is taken for the device now, long
\* before the device has an address.
prov_capabilities ==
    LET node == alloc_slot(nodes, prov_device.addr, 1)
    IN  /\ Expected("CAPABILITIES")
        /\ prov_device' = [prov_device EXCEPT !.node = node]
        /\ nodes' = node_alloc(nodes, prov_device.uuid, prov_device.addr, 1)
        /\ IF node = NULL
           THEN link' = Closing /\ pdu' = NoPdu
           ELSE /\ link' = [link EXCEPT !.expect = "PUB_KEY"]
                /\ pdu' = [to |-> "dev", type |-> "PUB_KEY"]
        /\ UNCHANGED <<mainVars, sems, dev_key, dev, msgs, slow, fails, added>>

\* The expected reply t is in, and the next request goes out.
NextRequest(t) ==
    /\ Expected(t)
    /\ link' = [link EXCEPT !.expect = Replies[Round(Replies, t) + 1]]
    /\ pdu' = [to |-> "dev", type |-> Requests[Round(Replies, t) + 1]]
    /\ UNCHANGED <<mainVars, sems, nodes, prov_device, dev, msgs, slow, fails, added>>

\* With the device's public key the DH key is made and send_confirm runs.
prov_pub_key == NextRequest("PUB_KEY") /\ UNCHANGED dev_key

\* prov_confirm ends in send_random.
prov_confirm == NextRequest("CONFIRM") /\ UNCHANGED dev_key

\* prov_random ends in send_prov_data, which derives the device key.
prov_random ==
    /\ NextRequest("RANDOM")
    /\ dev_key' = [dev_key EXCEPT ![prov_device.node] = prov_device.uuid]

Give(s) == IF s < SEM_LIMIT THEN s + 1 ELSE s

\* Mutant: the pointer to the completed node is kept.
ForgetNode_Kept(p) == p

ForgetNode(p) == [p EXCEPT !.node = NULL]

\* prov_complete, and node_added of mesh.c, which it calls.
prov_complete ==
    LET node == nodes[prov_device.node]
    IN  /\ Expected("COMPLETE")
        /\ prov_device' = ForgetNode(prov_device)
        /\ link' = Closing
        /\ pdu' = NoPdu
        /\ sems' = [sems EXCEPT !.added = Give(@)]
        /\ added' = [added EXCEPT ![node.uuid] = node.addr]
        /\ UNCHANGED <<mainVars, nodes, dev_key, dev, msgs, slow, fails>>

-----------------------------------------------------------------------------
(* The other boards.                                                       *)

DeviceVars == <<mainVars, sems, nodes, dev_key, prov_device, link, msgs, slow,
                added>>

\* A board that is not provisioned sends beacons unless it has a link.
unprovisioned_beacon(d) ==
    /\ dev[d].addr = UNASSIGNED
    /\ dev[d].link = "none"
    /\ node_uuid' = d
    /\ sems' = [sems EXCEPT !.unprov = Give(@)]
    /\ UNCHANGED <<pc, slot, record_count, nodes, dev_key, linkVars, dev, msgs,
                   slow, fails, added>>

\* pb_adv.c link_open.
DeviceLinkOpen(d) ==
    /\ link.bearer = "opening"
    /\ prov_device.uuid = d
    /\ dev[d].link = "none"
    /\ dev' = [dev EXCEPT ![d].link = "up", ![d].expect = "INVITE"]
    /\ UNCHANGED <<DeviceVars, pdu, fails>>

\* link_close, or the protocol timer of the board.
DeviceLinkClosed(d) ==
    /\ \/ dev[d].link = "up" /\ link.bearer = "closing"
       \/ dev[d].link = "up" /\ (link.slow \/ dev[d].expect = "NO_PDU")
       \/ dev[d].link = "stale"
    /\ dev' = [dev EXCEPT ![d].link = "none", ![d].expect = "NO_PDU"]
    /\ UNCHANGED <<DeviceVars, pdu, fails>>

\* The main thread is on its way to use a beacon of d.
BeaconPending(d) ==
    /\ node_uuid = d
    /\ \/ pc = "open"
       \/ sems.unprov > 0 /\ pc \notin {"reset_unprov", "link_open", "wait_added"}

\* The board with the open link handles a request of type t that it expects.
DeviceHandles(d, t) ==
    /\ pdu = [to |-> "dev", type |-> t]
    /\ dev[d].link = "up"
    /\ dev[d].expect = t
    /\ pdu' = [to |-> "prov", type |-> Replies[Round(Requests, t)]]
    /\ UNCHANGED <<DeviceVars, fails>>

\* prov_invite, prov_start with prov_pub_key, prov_confirm and prov_random of
\* prov_device.c.
DeviceReplies(d) ==
    \E t \in RequestTypes \ {"DATA"} :
      /\ DeviceHandles(d, t)
      /\ dev' = [dev EXCEPT ![d].expect = Requests[Round(Requests, t) + 1]]

\* prov_data sends PROV_COMPLETE before it provisions the board with the
\* address of the provisioner's table.  Five rounds of PDUs take longer than
\* the main thread needs to use a beacon that the board sent before them.
DeviceProvisioned(d) ==
    /\ ~BeaconPending(d)
    /\ DeviceHandles(d, "DATA")
    /\ dev' = [dev EXCEPT ![d].expect = "NO_PDU",
                          ![d].addr = nodes[prov_device.node].addr]

\* prov_fail of the board: an error in a handler.
DeviceFails(d) ==
    /\ pdu.to = "dev"
    /\ dev[d].link = "up"
    /\ Failure
    /\ pdu' = [to |-> "prov", type |-> "FAILED"]
    /\ dev' = [dev EXCEPT ![d].expect = "NO_PDU"]
    /\ UNCHANGED DeviceVars

\* A configuration message needs the device key of the slot it was sent for,
\* the bind needs the application key, and Q needs the bound model.
Receives(d, m) == m.dst # UNASSIGNED /\ dev[d].addr = m.dst

Delivered(m) ==
    [d \in Devices |->
       CASE Receives(d, m) /\ m.kind = "app_key" /\ m.key = d ->
              [dev[d] EXCEPT !.app_key = TRUE]
         [] Receives(d, m) /\ m.kind = "bind" /\ m.key = d ->
              [dev[d] EXCEPT !.bound = dev[d].app_key]
         [] Receives(d, m) /\ m.kind = "Q" /\ dev[d].bound ->
              [dev[d] EXCEPT !.name = m.name]
         [] OTHER -> dev[d]]

RemoveMsg(i) == SubSeq(msgs, 1, i - 1) \o SubSeq(msgs, i + 1, Len(msgs))

Deliver ==
    /\ \E i \in IF LOSSY THEN DOMAIN msgs ELSE {1} \cap DOMAIN msgs :
         dev' = Delivered(msgs[i]) /\ msgs' = RemoveMsg(i)
    /\ UNCHANGED <<mainVars, sems, nodes, dev_key, linkVars, slow, fails, added>>

Lose ==
    /\ LOSSY
    /\ \E i \in DOMAIN msgs : msgs' = RemoveMsg(i)
    /\ UNCHANGED <<mainVars, sems, nodes, dev_key, linkVars, dev, slow, fails,
                   added>>

-----------------------------------------------------------------------------
(* The main thread.                                                        *)

Goto(p) == pc' = p

reset_unprov ==
    /\ pc = "reset_unprov"
    /\ sems' = [sems EXCEPT !.unprov = 0]
    /\ Goto("reset_added")
    /\ UNCHANGED <<slot, node_uuid, record_count, nodes, dev_key, linkVars, dev,
                   msgs, slow, fails, added>>

reset_added ==
    /\ pc = "reset_added"
    /\ sems' = [sems EXCEPT !.added = 0]
    /\ slot' = 0
    /\ Goto("foreach")
    /\ UNCHANGED <<node_uuid, record_count, nodes, dev_key, linkVars, dev, msgs,
                   slow, fails, added>>

\* check_unconfigured on the next allocated slot; the R messages it sends
\* about a configured node are in module Gossip.
check_unconfigured ==
    /\ pc = "foreach"
    /\ IF slot = NODE_COUNT THEN Goto("wait_unprov") /\ UNCHANGED <<slot, nodes>>
       ELSE IF nodes[slot].addr = UNASSIGNED \/ nodes[slot].configured
       THEN slot' = slot + 1 /\ UNCHANGED <<pc, nodes>>
       ELSE IF nodes[slot].addr = SELF_ADDRESS          \* configure_self
       THEN /\ nodes' = [nodes EXCEPT ![slot].configured = TRUE]
            /\ slot' = slot + 1
            /\ UNCHANGED pc
       ELSE Goto("app_key") /\ UNCHANGED <<slot, nodes>>
    /\ UNCHANGED <<node_uuid, record_count, sems, dev_key, linkVars, dev, msgs,
                   slow, fails, added>>

\* snprintf cuts the last digits of n, a number of at most ten digits, that its
\* buffer has no room for.  The number that is left, at most max, is the count of
\* the numbers up to it.
PowersOfTen == {1, 10, 100, 1000, 10000, 100000, 1000000, 10000000, 100000000,
                1000000000}

FirstDigits(n, max) ==
    Cardinality({x \in 1 .. max :
                   \E p \in PowersOfTen : x <= n \div p /\ n \div p <= max})

\* Mutant: the buffer has no room for the number.
NameOf_Cut(n) == 1

\* The number of "N%d", of which node_name[4] holds two digits.
NameOf(n) == FirstDigits(n, 99)

Send(kind) ==
    /\ Len(msgs) < MSG_MAX
    /\ msgs' = Append(msgs, [kind |-> kind, dst |-> nodes[slot].addr,
                             key |-> IF kind = "Q" THEN NoUuid ELSE dev_key[slot],
                             name |-> IF kind = "Q" THEN NameOf(record_count) ELSE 0])

\* Mutant: the model is bound before the board has the key.
Sends_BindFirst(p) ==
    CASE p = "app_key" -> "bind" [] p = "bind" -> "app_key" [] p = "name" -> "Q"

\* The message that a step of configure_node sends, and the step after it.
Sends(p) == IF p = "name" THEN "Q" ELSE p
StepAfter == [app_key |-> "bind", bind |-> "flag", name |-> "record"]

\* configure_node, one step for each thing it does with the node; nothing it
\* sends is waited for, and the slot may change under it.
configure_node ==
    /\ \/ /\ pc \in DOMAIN StepAfter
          /\ Send(Sends(pc))
          /\ Goto(StepAfter[pc])
          /\ UNCHANGED <<slot, record_count, nodes>>
       \/ /\ pc = "flag" /\ Goto("name")
          /\ nodes' = [nodes EXCEPT ![slot].configured = TRUE]
          /\ UNCHANGED <<slot, record_count, msgs>>
       \/ /\ pc = "record" /\ Goto("foreach")
          /\ record_count' = record_count + 1
          /\ slot' = slot + 1
          /\ UNCHANGED <<nodes, msgs>>
    /\ UNCHANGED <<node_uuid, sems, dev_key, linkVars, dev, slow, fails, added>>

MainWaits == <<slot, record_count, nodes, dev_key, pdu, dev, msgs, added>>

take_unprov ==
    /\ pc = "wait_unprov"
    /\ \/ /\ sems.unprov > 0
          /\ sems' = [sems EXCEPT !.unprov = @ - 1]
          /\ Goto("open")
       \/ sems.unprov = 0 /\ UNCHANGED sems /\ Goto("reset_unprov")
    /\ UNCHANGED <<MainWaits, node_uuid, prov_device, link, slow, fails>>

\* The address is the first decimal digit of record_count, which is what fits
\* record_count_str[2].
FirstDigit(n) == FirstDigits(n, 9)

\* bt_mesh_pb_adv_open up to the call of link_open.
pb_adv_open(uuid) ==
    /\ pc = "open"
    /\ IF link.active THEN Goto("reset_unprov") /\ UNCHANGED <<link, prov_device>>
       ELSE /\ link' = [link EXCEPT !.active = TRUE]
            /\ prov_device' = [prov_device EXCEPT !.uuid = uuid,
                                 !.addr = FirstDigit(record_count)]
            /\ Goto("link_open")
    /\ UNCHANGED <<MainWaits, sems, node_uuid, slow>>

\* A beacon of another board that arrives while the UUID is copied leaves a
\* mixture of both, which is no board's UUID.
Open ==
    \/ pb_adv_open(node_uuid) /\ UNCHANGED fails
    \/ /\ \E d \in Devices \ {node_uuid} : dev[d].addr = UNASSIGNED
       /\ Failure
       /\ pb_adv_open(NoUuid)

\* prov_link_open of pb_adv.c.
link_open ==
    /\ pc = "link_open"
    /\ IF link.bearer # "idle"
       THEN link' = [link EXCEPT !.active = FALSE] /\ Goto("reset_unprov")
       ELSE link' = [link EXCEPT !.bearer = "opening", !.slow = FALSE]
            /\ Goto("wait_added")
    /\ UNCHANGED <<MainWaits, sems, node_uuid, prov_device, slow, fails>>

\* Mutant: the wait for node_added has no time limit.
take_added_Forever ==
    /\ pc = "wait_added"
    /\ sems.added > 0
    /\ sems' = [sems EXCEPT !.added = @ - 1]
    /\ Goto("reset_unprov")
    /\ UNCHANGED <<MainWaits, node_uuid, prov_device, link, slow, fails>>

\* After 10 s without node_added the loop goes on, whatever the link does.
take_added ==
    /\ pc = "wait_added"
    /\ \/ /\ sems.added > 0
          /\ sems' = [sems EXCEPT !.added = @ - 1]
          /\ UNCHANGED <<link, slow>>
       \/ /\ sems.added = 0
          /\ link.bearer # "idle" => slow > 0
          /\ link' = [link EXCEPT !.slow = link.bearer # "idle"]
          /\ slow' = IF link.bearer # "idle" THEN slow - 1 ELSE slow
          /\ UNCHANGED sems
    /\ Goto("reset_unprov")
    /\ UNCHANGED <<MainWaits, node_uuid, prov_device, fails>>

-----------------------------------------------------------------------------
MainThread ==
    \/ reset_unprov \/ reset_added \/ check_unconfigured \/ configure_node
    \/ take_unprov \/ Open \/ link_open \/ take_added

Link ==
    \/ link_ack \/ prov_capabilities \/ prov_complete
    \/ prov_pub_key \/ prov_confirm \/ prov_random
    \/ prov_fail \/ prov_failed \/ LinkTimeout \/ LinkClosed

Boards ==
    \/ \E d \in Devices :
         \/ unprovisioned_beacon(d) \/ DeviceLinkOpen(d) \/ DeviceLinkClosed(d)
         \/ DeviceReplies(d) \/ DeviceProvisioned(d) \/ DeviceFails(d)
    \/ Deliver \/ Lose

Next == MainThread \/ Link \/ Boards

\* A beacon is sent every 5 s, so a loop that waits 5 s for one again and again
\* meets one.  Threads, timers and work items run when they are due, and a
\* message or PDU that is neither lost nor overtaken by a timeout arrives.
Fairness ==
    /\ WF_vars(MainThread)
    /\ WF_vars(Link)
    /\ SF_vars(pc = "wait_unprov" /\ \E d \in Devices : unprovisioned_beacon(d))
    /\ WF_vars(\E d \in Devices :
                 \/ DeviceLinkOpen(d) \/ DeviceReplies(d)
                 \/ DeviceProvisioned(d) \/ DeviceLinkClosed(d))
    /\ WF_vars(Deliver)

Spec == Init /\ [][Next]_vars /\ Fairness

-----------------------------------------------------------------------------
(* Properties.                                                             *)

\* A node that prov_complete reported stays in the table under the address the
\* board was given: the reset of a later link, through the pointer that
\* reset_state leaves behind, never deletes it.  The same holds for the
\* provisioner's own node.
CompletedNodesKept ==
    /\ \A d \in Devices : added[d] # UNASSIGNED =>
         /\ dev[d].addr = added[d]
         /\ \E i \in Slots : nodes[i].uuid = d /\ nodes[i].addr = added[d]
    /\ nodes[0].uuid = Self /\ nodes[0].addr = SELF_ADDRESS

\* No two boards that prov_complete reported share an address or, once named by
\* their Q message, a name.
IdentitiesDistinct ==
    \A d, e \in Devices : d # e =>
      /\ added[d] # UNASSIGNED => added[d] # added[e] /\ added[d] # SELF_ADDRESS
      /\ dev[d].name # 0 => dev[d].name # dev[e].name

\* check_unconfigured configures provisioned nodes: a board's slot is marked
\* configured only after node_added reported the board.
ConfiguresProvisioned ==
    \A i \in Live(nodes) :
      nodes[i].configured => nodes[i].uuid = Self \/ added[nodes[i].uuid] # UNASSIGNED

\* Every link comes to an end, so the next board can be served.
LinkCloses == link.bearer # "idle" ~> link.bearer = "idle"

\* The loop of mesh_start never hangs: it keeps coming back to its scan.
LoopGoesOn == []<>(pc = "wait_unprov")

\* Every board ends up provisioned, recorded in the table and named.
AllConfigured ==
    <>[](\A d \in Devices : added[d] # UNASSIGNED /\ dev[d].name # 0)

=============================================================================

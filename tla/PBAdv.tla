-------------------------------- MODULE PBAdv --------------------------------
(***************************************************************************)
(* The provisioning bearer PB-ADV (subsys/bluetooth/mesh/pb_adv.c) between *)
(* the provisioner and one board, under the PDU exchange of provisioner.c  *)
(* and prov_device.c: links that are opened, acknowledged and closed, PDUs *)
(* cut into segments, acknowledgements, retransmission and the two timers. *)
(*                                                                         *)
(* Every advertisement goes through the queue of the sender's advertiser,  *)
(* in order; the one at the head is on the air and may be lost or, as it   *)
(* is repeated, be received more than once.  A PDU is its type and the     *)
(* link it was sent on, and its check sum is that, too.  The protocol      *)
(* timer is left implicit: it may run out where nothing else can happen,   *)
(* and TIMEOUTS times where it can.                                        *)
(***************************************************************************)
EXTENDS Integers, Sequences, SequencesExt, FiniteSets, FiniteSetsExt

CONSTANTS
    LINKS,     \* links that the provisioner opens
    LOSSES,    \* advertisements that may be lost
    REPEATS,   \* advertisements received twice, and retransmissions of what
               \* is answered already
    TIMEOUTS,  \* timeouts on a link that still works, as under interference
    NOBUFS     \* times that the pool of advertising buffers runs empty

ASSUME PBAdvAssumption == {LINKS, LOSSES, REPEATS, TIMEOUTS, NOBUFS} \subseteq Nat

START_PAYLOAD_MAX == 20
CONT_PAYLOAD_MAX == 23
RX_BUF_SIZE == 65
TX_BUFS == 3
XACT_ID_MAX == 127
XACT_ID_NVAL == 255
SEG_NVAL == 0 .. 7      \* all bits of link.rx.seg

P == "provisioner"
D == "device"
Ends == {P, D}
Peer(e) == IF e = P THEN D ELSE P

\* The length of each PDU, its type included.
PduLen == [INVITE |-> 2, CAPABILITIES |-> 12, START |-> 6, PUB_KEY |-> 65,
           CONFIRM |-> 17, RANDOM |-> 17, DATA |-> 34, COMPLETE |-> 1,
           FAILED |-> 2]
Pdus == DOMAIN PduLen
NO_PDU == "NO_PDU"
NoData == <<0, NO_PDU>>

VARIABLES
    ep,      \* each end: struct pb_adv, the provisioning state over it, and
             \* the advertiser's queue (air) and free buffers (free, which is
             \* only used within a handler)
    left     \* links still to be opened, and what may still go wrong

vars == <<ep, left>>

Packet == [link : 0 .. LINKS, gpc : {"START", "CONT", "ACK", "OPEN", "LINK_ACK", "CLOSE"},
           xact : 0 .. 255, seg : 0 .. TX_BUFS, len : 0 .. RX_BUF_SIZE,
           data : (0 .. LINKS) \X (Pdus \cup {NO_PDU})]

\* rx.seg holds the segments that are missing.
EndState ==
    [link : 0 .. LINKS, active : BOOLEAN, acked : BOOLEAN, closing : BOOLEAN,
     invalid : BOOLEAN, ack_pending : BOOLEAN, pending_ack : 0 .. 255,
     rx : [id : 0 .. 255, seg : SUBSET SEG_NVAL, last : 0 .. 255,
           len : 0 .. RX_BUF_SIZE, fcs : (0 .. LINKS) \X (Pdus \cup {NO_PDU}),
           data : [0 .. TX_BUFS - 1 -> (0 .. LINKS) \X (Pdus \cup {NO_PDU})]],
     tx : [id : 0 .. 255, buf : Seq(Packet), cb : {"none", "start_sent", "public_key_sent"}],
     expect : Pdus \cup {NO_PDU}, dh : BOOLEAN, provisioned : BOOLEAN,
     refused : BOOLEAN, sent : Seq(Pdus), got : Seq(Pdus),
     air : Seq(Packet), free : {0}]

\* The types; in particular every segment that is received falls in rx_buf.
TypeOK ==
    /\ DOMAIN ep = Ends /\ \A e \in Ends : ep[e] \in EndState
    /\ left \in [links : 0 .. LINKS, losses : 0 .. LOSSES, repeats : 0 .. REPEATS,
                 timeouts : 0 .. TIMEOUTS, nobufs : 0 .. NOBUFS]

NoRx == [id |-> XACT_ID_NVAL, seg |-> {}, last |-> 0, len |-> 0, fcs |-> NoData,
         data |-> [i \in 0 .. TX_BUFS - 1 |-> NoData]]

\* The board has called prov_link_accept.
Init ==
    /\ ep = [e \in Ends |->
         [link |-> 0, active |-> FALSE, acked |-> FALSE, closing |-> FALSE,
          invalid |-> FALSE, ack_pending |-> FALSE, pending_ack |-> 0,
          rx |-> IF e = P THEN NoRx ELSE [NoRx EXCEPT !.id = XACT_ID_MAX],
          tx |-> [id |-> XACT_ID_NVAL, buf |-> <<>>, cb |-> "none"],
          expect |-> "INVITE", dh |-> FALSE, provisioned |-> FALSE,
          refused |-> FALSE, sent |-> <<>>, got |-> <<>>,
          air |-> <<>>, free |-> 0]]
    /\ left = [links |-> LINKS, losses |-> LOSSES, repeats |-> REPEATS,
               timeouts |-> TIMEOUTS, nobufs |-> NOBUFS]

-----------------------------------------------------------------------------
(* Sending.  The operators below take the state of one end, and return it. *)

next_transaction_id(id) ==
    ((id + 1) % (XACT_ID_MAX + 1)) + (XACT_ID_MAX + 1) * (id \div (XACT_ID_MAX + 1))

last_seg(len) ==
    IF len <= START_PAYLOAD_MAX THEN 0
    ELSE 1 + ((len - START_PAYLOAD_MAX) \div CONT_PAYLOAD_MAX)

\* Buffers that are still in the queue are cancelled; the one on the air is not.
free_segments(s) ==
    [s EXCEPT !.tx.buf = <<>>,
              !.air = IF @ = <<>> THEN @ ELSE
                      <<Head(@)>> \o SelectSeq(Tail(@), LAMBDA p : ~Contains(s.tx.buf, p))]

prov_clear_tx(s) == free_segments(s)

gen_prov_ack_send(s, x) ==
    IF s.ack_pending /\ s.pending_ack = x THEN s
    ELSE IF s.free = 0 THEN [s EXCEPT !.ack_pending = FALSE]
    ELSE [s EXCEPT !.ack_pending = TRUE,
                   !.pending_ack = IF s.ack_pending THEN @ ELSE x,
                   !.free = @ - 1,
                   !.air = Append(@, [link |-> s.link, gpc |-> "ACK", xact |-> x,
                                      seg |-> 0, len |-> 0, data |-> NoData])]

bearer_ctl_send(s, op, reliable) ==
    LET c == prov_clear_tx(s)
        p == [link |-> s.link, gpc |-> op, xact |-> 0, seg |-> 0, len |-> 0,
              data |-> NoData]
    IN  IF s.free = 0 THEN c
        ELSE [c EXCEPT !.free = @ - 1, !.air = Append(@, p),
                       !.tx.buf = IF reliable THEN <<p>> ELSE @]

\* The packets of a PDU.  seg of a START is the index of the last segment and
\* len the length of the PDU; len of a CONT is its own.
Segments(link, id, t) ==
    LET n == PduLen[t]
        more == n - START_PAYLOAD_MAX
        conts == IF more <= 0 THEN 0
                 ELSE (more + CONT_PAYLOAD_MAX - 1) \div CONT_PAYLOAD_MAX
    IN  [i \in 1 .. conts + 1 |->
           [link |-> link, xact |-> id, data |-> <<link, t>>,
            gpc |-> IF i = 1 THEN "START" ELSE "CONT",
            seg |-> IF i = 1 THEN last_seg(n) ELSE i - 1,
            len |-> IF i = 1 THEN n
                    ELSE Min({CONT_PAYLOAD_MAX, more - (i - 2) * CONT_PAYLOAD_MAX})]]

\* Returns the buffers that it got when the pool runs empty half way, but the
\* transaction number is used up.
prov_send_adv(s, t, cb) ==
    LET c == prov_clear_tx(s)
        id == next_transaction_id(s.tx.id)
        segs == Segments(s.link, id, t)
    IN  IF s.free = 0 THEN c
        ELSE IF s.free < Len(segs)
        THEN [c EXCEPT !.tx.id = id, !.tx.cb = cb, !.free = 0]
        ELSE [c EXCEPT !.tx = [id |-> id, buf |-> segs, cb |-> cb],
                       !.free = @ - Len(segs), !.air = @ \o segs,
                       !.sent = Append(@, t)]

\* bt_mesh_prov_send succeeded: what follows it in the callers.
Sent(s, t) == s.free >= Len(Segments(s.link, 0, t))
SendThenExpect(s, t, next) ==
    LET r == prov_send_adv(s, t, "none")
    IN  IF Sent(s, t) THEN [r EXCEPT !.expect = next] ELSE r

-----------------------------------------------------------------------------
(* The provisioning protocol over the bearer.                              *)

prov_link_close(s) ==
    LET c == [s EXCEPT !.expect = NO_PDU]
    IN  IF s.closing THEN c
        ELSE bearer_ctl_send([c EXCEPT !.closing = TRUE], "CLOSE", TRUE)

\* role->error: the provisioner closes the link, the board sends PROV_FAILED.
RoleError(e, s) ==
    IF e = P THEN prov_link_close(s)
    ELSE prov_send_adv([s EXCEPT !.expect = NO_PDU], "FAILED", "none")

\* The handlers of the PDUs that each role accepts (role->op).
ProvisionerOp(s, t) ==
    CASE t = "CAPABILITIES" -> prov_send_adv(s, "START", "start_sent")
      [] t = "PUB_KEY" -> [prov_clear_tx(s) EXCEPT !.dh = TRUE]
      [] t = "CONFIRM" -> SendThenExpect(s, "RANDOM", "RANDOM")
      [] t = "RANDOM" -> SendThenExpect(s, "DATA", "COMPLETE")
      [] t = "COMPLETE" -> prov_link_close(s)
      [] t = "FAILED" -> [s EXCEPT !.expect = "INVITE"]

DeviceOp(s, t) ==
    CASE t = "INVITE" -> SendThenExpect(s, "CAPABILITIES", "START")
      [] t = "START" -> [s EXCEPT !.expect = "PUB_KEY"]
      [] t = "PUB_KEY" -> [s EXCEPT !.dh = TRUE]
      [] t = "CONFIRM" -> SendThenExpect(s, "CONFIRM", "RANDOM")
      [] t = "RANDOM" -> SendThenExpect(s, "RANDOM", "DATA")
      [] t = "DATA" -> IF Sent(s, "COMPLETE")
                       THEN [prov_send_adv(s, "COMPLETE", "none")
                               EXCEPT !.expect = NO_PDU, !.provisioned = TRUE]
                       ELSE prov_send_adv(s, "COMPLETE", "none")

\* A PDU that is not expected is an error; FAILED always is, at the provisioner.
prov_recv(e, s, t) ==
    LET g == [s EXCEPT !.got = Append(@, t)]
    IN  IF t # s.expect /\ ~(e = P /\ t = "FAILED")
        THEN [RoleError(e, g) EXCEPT !.refused = TRUE]
        ELSE IF e = P THEN ProvisionerOp(g, t) ELSE DeviceOp(g, t)

\* The callback of a PDU that was sent: on the board it only sets a flag.
tx_cb(e, s) ==
    CASE e = P /\ s.tx.cb = "start_sent" -> prov_send_adv(s, "PUB_KEY", "public_key_sent")
      [] e = P /\ s.tx.cb = "public_key_sent" -> [s EXCEPT !.expect = "PUB_KEY"]
      [] OTHER -> s

\* prov_dh_key_cb: the provisioner's goes on to send_confirm, the board's to
\* send_pub_key.
prov_dh_key_cb(e, s) ==
    IF e = P THEN SendThenExpect(s, "CONFIRM", "CONFIRM")
    ELSE LET r == prov_send_adv(s, "PUB_KEY", "public_key_sent")
         IN  IF Sent(s, "PUB_KEY") THEN [r EXCEPT !.expect = "CONFIRM"] ELSE r

-----------------------------------------------------------------------------
(* Receiving.                                                              *)

prov_failed(e, s) == [RoleError(e, s) EXCEPT !.invalid = TRUE]

prov_msg_recv(e, s) ==
    LET whole == \A i \in 0 .. s.rx.last : s.rx.data[i] = s.rx.fcs
        a == gen_prov_ack_send(s, s.rx.id)
    IN  IF ~whole THEN s
        ELSE IF s.invalid THEN prov_failed(e, a)
        ELSE prov_recv(e, a, s.rx.data[0][2])

\* What gen_prov_start does with a start segment that it does not turn away.
TakeStart(e, s, p) ==
    LET n == [s EXCEPT !.rx.len = p.len, !.rx.id = p.xact, !.rx.fcs = p.data]
        c == [prov_clear_tx(n) EXCEPT !.rx.last = p.seg]
        here == SEG_NVAL \ s.rx.seg
        missing == (IF s.rx.seg = {} THEN SEG_NVAL ELSE s.rx.seg) \cap 1 .. p.seg
        r == [c EXCEPT !.rx.seg = missing, !.rx.data[0] = p.data]
    IN  IF p.seg > 0 /\ p.len <= START_PAYLOAD_MAX THEN prov_failed(e, n)
        ELSE IF 0 \in s.rx.seg /\ (here = {} \/ Max(here) > p.seg) THEN prov_failed(e, c)
        ELSE IF missing = {} THEN prov_msg_recv(e, r) ELSE r

\* Mutant: the first segment of the PDU that was received last starts it anew.
gen_prov_start_Anew(e, s, p) ==
    IF p.xact = s.rx.id
    THEN IF 0 \notin s.rx.seg /\ s.rx.seg # {} THEN s ELSE TakeStart(e, s, p)
    ELSE IF p.xact # next_transaction_id(s.rx.id) THEN s
    ELSE TakeStart(e, s, p)

gen_prov_start(e, s, p) ==
    IF p.xact = s.rx.id
    THEN IF s.rx.seg = {}
         THEN IF s.ack_pending THEN s ELSE gen_prov_ack_send(s, p.xact)
         ELSE IF 0 \notin s.rx.seg THEN s ELSE TakeStart(e, s, p)
    ELSE IF p.xact # next_transaction_id(s.rx.id) THEN s
    ELSE TakeStart(e, s, p)

gen_prov_cont(e, s, p) ==
    LET startLost == s.rx.seg = {} /\ p.xact = next_transaction_id(s.rx.id)
        c == IF startLost
             THEN prov_clear_tx([s EXCEPT !.rx.id = p.xact, !.rx.len = 0,
                                          !.rx.seg = SEG_NVAL, !.rx.last = 255])
             ELSE s
        r == [c EXCEPT !.rx.data[p.seg] = p.data, !.rx.seg = @ \ {p.seg}]
        expectLen == (c.rx.len - START_PAYLOAD_MAX - (c.rx.last - 1) * CONT_PAYLOAD_MAX) % 256
    IN  IF s.rx.seg = {} /\ p.xact = s.rx.id
        THEN IF s.ack_pending THEN s ELSE gen_prov_ack_send(s, p.xact)
        ELSE IF p.xact # c.rx.id THEN c
        ELSE IF p.seg > c.rx.last THEN prov_failed(e, c)
        ELSE IF p.seg \notin c.rx.seg THEN c
        ELSE IF p.seg = c.rx.last /\ 0 \notin r.rx.seg /\ expectLen # p.len
        THEN prov_failed(e, r)
        ELSE IF r.rx.seg = {} THEN prov_msg_recv(e, r) ELSE r

gen_prov_ack(e, s, p) ==
    IF s.tx.buf = <<>> \/ p.xact # s.tx.id THEN s
    ELSE tx_cb(e, IF s.closing THEN s ELSE prov_clear_tx(s))

\* close_link: the provisioner clears everything, the board accepts another
\* provisioning attempt; both reset the provisioning state.
close_link(e, s) ==
    LET c == prov_clear_tx(s)
        d == [c EXCEPT !.link = 0, !.active = FALSE, !.acked = FALSE, !.closing = FALSE,
                       !.invalid = FALSE, !.ack_pending = FALSE,
                       !.pending_ack = XACT_ID_NVAL, !.expect = "INVITE", !.rx.len = 0]
    IN  IF e = P
        THEN [d EXCEPT !.rx = [NoRx EXCEPT !.data = d.rx.data],
                       !.tx = [id |-> 0, buf |-> <<>>, cb |-> "none"]]
        ELSE [d EXCEPT !.rx.id = XACT_ID_MAX, !.tx.id = XACT_ID_NVAL]

link_open(s, p) ==
    IF s.active THEN bearer_ctl_send(s, "LINK_ACK", FALSE)
    ELSE [bearer_ctl_send([s EXCEPT !.link = p.link, !.active = TRUE, !.rx.len = 0],
                          "LINK_ACK", FALSE) EXCEPT !.expect = "INVITE"]

link_ack(s) ==
    IF s.acked THEN s
    ELSE SendThenExpect(prov_clear_tx([s EXCEPT !.acked = TRUE]), "INVITE", "CAPABILITIES")

\* The checks of bt_mesh_pb_adv_recv and gen_prov_recv: an end without a link
\* takes a LINK_OPEN only, and the provisioner without a link has no callbacks.
bt_mesh_pb_adv_recv(e, s, p) ==
    IF IF s.active THEN s.link # p.link ELSE e = P \/ p.gpc # "OPEN" THEN s
    ELSE CASE p.gpc = "START" -> gen_prov_start(e, s, p)
           [] p.gpc = "CONT" -> gen_prov_cont(e, s, p)
           [] p.gpc = "ACK" -> gen_prov_ack(e, s, p)
           [] p.gpc = "OPEN" -> link_open(s, p)
           [] p.gpc = "LINK_ACK" -> link_ack(s)
           [] p.gpc = "CLOSE" -> close_link(e, s)

-----------------------------------------------------------------------------
(* Actions.                                                                *)

\* A handler runs with the buffers that are free: enough, or too few for what
\* it sends.  An acknowledgement or control message takes one, a PDU up to 3.
Plenty == 1 + TX_BUFS
Bufs == {Plenty} \cup (IF left.nobufs > 0 THEN 0 .. 2 ELSE {})
LeftAfter(n) == [left EXCEPT !.nobufs = IF n = Plenty THEN @ ELSE @ - 1]

OnAir(e) == ep[e].air # <<>>

\* The acknowledgement at the head of the queue still has its callback to run.
AckToStart(e) ==
    /\ OnAir(e)
    /\ Head(ep[e].air).gpc = "ACK"
    /\ ep[e].ack_pending
    /\ Head(ep[e].air).xact = ep[e].pending_ack

\* ack_complete: the advertiser starts to send the acknowledgement.
ack_complete(e) ==
    /\ AckToStart(e)
    /\ ep' = [ep EXCEPT ![e].ack_pending = FALSE]
    /\ UNCHANGED left

\* The advertisement at the head of the queue of the other end is received; the
\* advertiser may send it again (again).
Receive(e, again) ==
    LET f == Peer(e) IN
    /\ OnAir(f)
    /\ ~AckToStart(f)
    /\ again => left.repeats > 0
    /\ \E n \in Bufs :
         LET s == bt_mesh_pb_adv_recv(e, [ep[e] EXCEPT !.free = n], Head(ep[f].air)) IN
         /\ ep' = [ep EXCEPT ![e] = [s EXCEPT !.free = 0],
                             ![f].air = IF again THEN @ ELSE Tail(@)]
         /\ left' = [LeftAfter(n) EXCEPT !.repeats = IF again THEN @ - 1 ELSE @]

\* The advertisement at the head of the queue is not received.
Lose(e) ==
    /\ OnAir(e)
    /\ ~AckToStart(e)
    /\ left.losses > 0
    /\ ep' = [ep EXCEPT ![e].air = Tail(@)]
    /\ left' = [left EXCEPT !.losses = @ - 1]

\* bt_mesh_provision_adv and prov_link_open, on a beacon of the board.
prov_link_open ==
    /\ left.links > 0
    /\ ~ep[P].active
    /\ ~ep[D].active /\ ~ep[D].provisioned
    /\ \E n \in Bufs :
         LET s == [ep[P] EXCEPT !.active = TRUE, !.link = LINKS + 1 - left.links,
                                !.tx.id = XACT_ID_MAX, !.rx.id = XACT_ID_NVAL,
                                !.rx.len = 0, !.free = n, !.sent = <<>>, !.got = <<>>]
         IN  /\ ep' = [ep EXCEPT ![P] = [bearer_ctl_send(s, "OPEN", TRUE) EXCEPT !.free = 0],
                                 ![D].sent = <<>>, ![D].got = <<>>]
             /\ left' = [LeftAfter(n) EXCEPT !.links = @ - 1]

\* bt_dh_key_gen has computed the shared secret.
DhKey(e) ==
    /\ ep[e].dh
    /\ \E n \in Bufs :
         LET s == prov_dh_key_cb(e, [ep[e] EXCEPT !.dh = FALSE, !.free = n]) IN
         /\ ep' = [ep EXCEPT ![e] = [s EXCEPT !.free = 0]]
         /\ left' = LeftAfter(n)

\* The retransmission timer, which buf_sent arms when the last buffer is sent.
RetransmitDue(e) ==
    /\ ep[e].active
    /\ ep[e].tx.buf # <<>>
    /\ \A p \in Range(ep[e].tx.buf) : ~Contains(ep[e].air, p)

\* Mutant: only the first buffer is sent again.
prov_retransmit_FirstOnly(e) ==
    LET early == \E f \in Ends : OnAir(f) \/ ep[f].dh IN
    /\ RetransmitDue(e)
    /\ early => left.repeats > 0
    /\ ep' = [ep EXCEPT ![e].air = Append(@, ep[e].tx.buf[1])]
    /\ left' = [left EXCEPT !.repeats = IF early THEN @ - 1 ELSE @]

\* It is due when nothing is on the way that could answer, or early.
prov_retransmit(e) ==
    LET early == \E f \in Ends : OnAir(f) \/ ep[f].dh IN
    /\ RetransmitDue(e)
    /\ early => left.repeats > 0
    /\ ep' = [ep EXCEPT ![e].air = @ \o ep[e].tx.buf]
    /\ left' = [left EXCEPT !.repeats = IF early THEN @ - 1 ELSE @]

\* prov_retransmit after CLOSING_TIMEOUT.
Closed(e) ==
    /\ RetransmitDue(e)
    /\ ep[e].closing
    /\ ep' = [ep EXCEPT ![e] = close_link(e, @)]
    /\ UNCHANGED left

\* The other end has left the link, or never had it.
PeerGone(e) ==
    /\ ep[Peer(e)].link # ep[e].link
    /\ \A p \in Range(ep[e].tx.buf) : p.gpc # "OPEN"

\* Neither end has anything to do or to wait for.
Quiet == \A e \in Ends : ~OnAir(e) /\ ep[e].tx.buf = <<>> /\ ~ep[e].dh

\* A timeout of e that the state of the link calls for, or one of TIMEOUTS.
Timeout(e, due) ==
    /\ ep[e].active
    /\ \A f \in Ends : ~ep[f].dh
    /\ due \/ left.timeouts > 0
    /\ left' = [left EXCEPT !.timeouts = IF due THEN @ ELSE @ - 1]

\* Mutant: only LINK_OPEN is ever given up.
GiveUp_OpenOnly(e) ==
    /\ RetransmitDue(e)
    /\ ~ep[e].closing /\ ~ep[e].acked
    /\ Timeout(e, PeerGone(e))
    /\ ep' = [ep EXCEPT ![e] = close_link(e, @)]

\* prov_retransmit after TRANSACTION_TIMEOUT.
GiveUp(e) ==
    /\ RetransmitDue(e)
    /\ ~ep[e].closing
    /\ Timeout(e, PeerGone(e))
    /\ ep' = [ep EXCEPT ![e] = close_link(e, @)]

\* Mutant: the segments of a PDU that is half received are kept.
protocol_timeout_KeepSegments(e) ==
    /\ ep[e].tx.buf = <<>>
    /\ Timeout(e, Quiet \/ PeerGone(e))
    /\ ep' = [ep EXCEPT ![e] = close_link(e, @)]

protocol_timeout(e) ==
    /\ ep[e].tx.buf = <<>>
    /\ Timeout(e, Quiet \/ PeerGone(e))
    /\ ep' = [ep EXCEPT ![e] = close_link(e, [@ EXCEPT !.rx.seg = {}])]

Next ==
    \/ prov_link_open
    \/ \E e \in Ends :
         \/ ack_complete(e) \/ Lose(e)
         \/ \E again \in BOOLEAN : Receive(e, again)
         \/ DhKey(e)
         \/ prov_retransmit(e) \/ Closed(e) \/ GiveUp(e)
         \/ protocol_timeout(e)

\* The advertiser sends what is queued and the peer listens; keys are computed;
\* the timers run, so that a link on which nothing else happens, or on which the
\* same PDU is sent again and again in vain, is given up.
Fairness ==
    \A e \in Ends :
        /\ WF_vars(ack_complete(e) \/ Receive(Peer(e), FALSE))
        /\ WF_vars(DhKey(e) \/ (prov_retransmit(e) /\ UNCHANGED left))
        /\ SF_vars((Closed(e) \/ GiveUp(e) \/ protocol_timeout(e)) /\ UNCHANGED left)

Spec == Init /\ [][Next]_vars /\ Fairness

-----------------------------------------------------------------------------
(* Properties.                                                             *)

\* A link between two healthy ends is never marked invalid: no loss, repetition
\* or lack of buffers makes an end see a malformed or mixed-up PDU.
NeverInvalid == \A e \in Ends : ~ep[e].invalid

Channel == INSTANCE PduChannel
             WITH sent <- [e \in Ends |-> ep[e].sent], got <- [e \in Ends |-> ep[e].got]

\* The bearer implements PduChannel: on each link the PDUs of one end are
\* handed to the other in order and once.
ImplementsChannel == Channel!Init /\ [][Channel!Next]_Channel!channel

\* A PDU that was sent is handed to the other end, unless an end gave up: losses
\* alone are repaired by retransmission.
PdusArrive ==
    \A e \in Ends :
        (Len(ep[e].sent) > Len(ep[Peer(e)].got)) ~>
            \/ Len(ep[e].sent) = Len(ep[Peer(e)].got)
            \/ left.timeouts < TIMEOUTS \/ left.nobufs < NOBUFS
            \/ \E f \in Ends : ep[f].refused

\* Both ends leave every link.
LinksEnd == \A e \in Ends : ep[e].active ~> ~ep[e].active
=============================================================================

----------------------------- MODULE Transport ------------------------------
(***************************************************************************)
(* Segmentation and reassembly of the lower transport layer (transport.c): *)
(* messages that need several segments, from one node to another.  A       *)
(* message takes one of the seg_tx contexts, its segments go through the   *)
(* queue of the advertiser, whose callbacks start the retransmission       *)
(* timer, and the receiver acknowledges the segments it has.               *)
(*                                                                         *)
(* main sends, and may be preempted in send_seg.  The receive thread, the  *)
(* advertiser and the work queue are cooperative: their handlers are       *)
(* single steps.  Segments and acknowledgements are lost and overtake each *)
(* other.                                                                  *)
(***************************************************************************)
EXTENDS Integers, Sequences, FiniteSets, FiniteSetsExt

CONSTANTS
    MESSAGES,   \* messages that main sends, in this order
    SEG_N,      \* the last segment of a message
    CONTEXTS,   \* CONFIG_BT_MESH_TX_SEG_MSG_COUNT
    ATTEMPTS,   \* SEG_RETRANSMIT_ATTEMPTS
    ON_AIR,     \* bound: segments on their way at the same time
    ON_AIR_ACKS \* bound: acknowledgements on their way at the same time

ASSUME TransportAssumption ==
    /\ {MESSAGES, SEG_N} \subseteq Nat
    /\ {CONTEXTS, ATTEMPTS, ON_AIR, ON_AIR_ACKS} \subseteq Nat \ {0}

VARIABLES
    caller,     \* where main is in send_seg, and what it has found
    tx,         \* seg_tx of the sender
    adv,        \* the queue of the advertiser; the first one may be on the air
    air,        \* segments on their way, in the order in which they were sent
    acks,       \* acknowledgements on their way
    rx,         \* the first free seg_rx context of the receiver
    delivered,  \* the messages the receiver has passed on
    ended,      \* what the sender was told about each message
    mishaps     \* what has happened that the protocol does not withstand

vars == <<caller, tx, adv, air, acks, rx, delivered, ended, mishaps>>

Msgs == 1 .. MESSAGES
Ctxs == 1 .. CONTEXTS
Segs == 0 .. SEG_N
Free == [msg |-> 0, nack |-> {}, pending |-> 0, attempts |-> 0,
         blocked |-> FALSE, sending |-> FALSE, timer |-> FALSE]
Returned == [at |-> "returned", msg |-> 0, ctx |-> 1, blocked |-> FALSE,
             seg_o |-> 0]
NoRx == [msg |-> 0, block |-> {}, in_use |-> FALSE, timer |-> FALSE]

\* The types, and: the receiver's timer runs for an incomplete message, an
\* acknowledgement is never empty (trans_ack takes that for "SDU canceled"), and
\* only a context in use is blocked or has segments.
TypeOK ==
    /\ caller \in [at : {"returned", "found", "loop", "checked"}, msg : 0 .. MESSAGES,
                   ctx : Ctxs, blocked : BOOLEAN, seg_o : 0 .. SEG_N]
    /\ tx \in [Ctxs -> [msg : 0 .. MESSAGES, nack : SUBSET Segs, pending : 0 .. 255,
                        attempts : 0 .. ATTEMPTS, blocked : BOOLEAN,
                        sending : BOOLEAN, timer : BOOLEAN]]
    /\ \A c \in Ctxs : tx[c].nack = {} => tx[c].msg = 0 /\ ~tx[c].blocked
    /\ acks \subseteq [msg : Msgs, block : SUBSET Segs \ {{}}]
    /\ rx \in [msg : 0 .. MESSAGES, block : SUBSET Segs, in_use : BOOLEAN, timer : BOOLEAN]
    /\ rx.timer = rx.in_use /\ (rx.in_use => rx.block \notin {{}, Segs})
    /\ ended \in [Msgs -> {"not yet", "ok", "timeout", "busy"}]
    /\ mishaps \subseteq {"stale", "late", "missed", "evicted"}

Init ==
    /\ caller = Returned
    /\ tx = [c \in Ctxs |-> Free]
    /\ adv = <<>> /\ air = <<>> /\ acks = {}
    /\ rx = NoRx
    /\ delivered = <<>>
    /\ ended = [m \in Msgs |-> "not yet"]
    /\ mishaps = {}

-----------------------------------------------------------------------------
(* The sender.                                                             *)

Busy(t) == {c \in Ctxs : t[c].nack # {}}
Buffer(c, m, s) == [ctx |-> c, msg |-> m, seg |-> s, sending |-> FALSE]

\* Mutant: blocked messages are forgotten.
seg_tx_complete_NoUnblock(t, c) == [t EXCEPT ![c] = Free]

\* seg_tx_complete without the callback: of the messages that are blocked, the
\* one that was sent first is next, and the context is free.
seg_tx_complete(t, c) ==
    LET blocked == {t[d].msg : d \in {d \in Ctxs \ {c} : t[d].blocked}}
    IN  [d \in Ctxs |->
           IF d = c THEN [Free EXCEPT !.sending = t[c].sending]
           ELSE IF t[d].blocked /\ t[d].msg = Min(blocked)
                THEN [t[d] EXCEPT !.blocked = FALSE, !.timer = TRUE]
           ELSE t[d]]

\* The loop over the segments: those in S, first to last.
InOrder(S) ==
    CHOOSE q \in [1 .. Cardinality(S) -> S] : \A i, j \in DOMAIN q : i < j => q[i] < q[j]

\* seg_tx_send_unacked: every segment that is not acknowledged goes to the
\* advertiser once more; or the message has failed.
seg_tx_send_unacked(t, c) ==
    LET again == InOrder(t[c].nack)
        pending == (t[c].pending + Len(again)) % 256
    IN  IF t[c].attempts = 0
        THEN /\ tx' = seg_tx_complete(t, c)
             /\ ended' = [ended EXCEPT ![t[c].msg] = "timeout"]
             /\ UNCHANGED adv
        ELSE /\ adv' = adv \o [i \in DOMAIN again |-> Buffer(c, t[c].msg, again[i])]
             /\ tx' = [t EXCEPT ![c].pending = pending, ![c].attempts = @ - 1,
                                ![c].sending = FALSE,
                                ![c].timer = @ \/ pending = 0]
             /\ UNCHANGED ended

\* seg_retransmit, when the timer has run.
seg_retransmit(c) ==
    /\ tx[c].timer
    /\ LET t == [tx EXCEPT ![c].timer = FALSE]
       IN  IF tx[c].nack = {} THEN tx' = t /\ UNCHANGED <<adv, ended>>
           ELSE seg_tx_send_unacked(t, c)
    /\ UNCHANGED <<caller, air, acks, rx, delivered, mishaps>>

-----------------------------------------------------------------------------
(* main in send_seg; any of the other threads may preempt it.              *)

\* It looks for a free context, and whether a message is in progress.
Find ==
    LET next == {m \in Msgs : \A n \in m .. MESSAGES :
                                ended[n] = "not yet" /\ \A c \in Ctxs : tx[c].msg # n}
        free == Ctxs \ Busy(tx)
    IN  /\ caller = Returned /\ next # {}
        /\ IF free = {}
           THEN /\ ended' = [ended EXCEPT ![Min(next)] = "busy"]
                /\ UNCHANGED caller
           ELSE /\ caller' = [at |-> "found", msg |-> Min(next), ctx |-> Min(free),
                              blocked |-> Busy(tx) # {}, seg_o |-> 0]
                /\ UNCHANGED ended
        /\ UNCHANGED <<tx, adv, air, acks, rx, delivered, mishaps>>

\* Mutant: a message does not wait for the one before.
Fill_NotBlocked ==
    /\ caller.at = "found"
    /\ tx' = [tx EXCEPT ![caller.ctx] =
          [msg |-> caller.msg, nack |-> Segs, pending |-> 0,
           attempts |-> ATTEMPTS, blocked |-> FALSE, sending |-> TRUE,
           timer |-> FALSE]]
    /\ caller' = [caller EXCEPT !.at = "loop"]
    /\ UNCHANGED <<adv, air, acks, rx, delivered, ended, mishaps>>

\* It fills in the context with what it has found, and begins to send unless it
\* found that the message is blocked.
Fill ==
    /\ caller.at = "found"
    /\ tx' = [tx EXCEPT ![caller.ctx] =
          [msg |-> caller.msg, nack |-> Segs, pending |-> 0,
           attempts |-> ATTEMPTS, blocked |-> caller.blocked,
           sending |-> ~caller.blocked, timer |-> FALSE]]
    /\ caller' = IF caller.blocked THEN Returned ELSE [caller EXCEPT !.at = "loop"]
    /\ mishaps' = mishaps \cup (IF caller.blocked /\ Busy(tx) = {} THEN {"late"} ELSE {})
    /\ UNCHANGED <<adv, air, acks, rx, delivered, ended>>

\* seg_tx_send_unacked as main runs it: one segment at a time.  After the last
\* one it looks whether all of them have been sent already.
Loop ==
    LET c == caller.ctx
        o == caller.seg_o
        sends == o \in tx[c].nack
        pending == (tx[c].pending + IF sends THEN 1 ELSE 0) % 256
    IN  /\ caller.at = "loop"
        /\ adv' = IF sends THEN Append(adv, Buffer(c, tx[c].msg, o)) ELSE adv
        /\ IF o < SEG_N
           THEN /\ tx' = [tx EXCEPT ![c].pending = pending]
                /\ caller' = [caller EXCEPT !.seg_o = o + 1]
           ELSE /\ tx' = [tx EXCEPT ![c].pending = pending, ![c].attempts = @ - 1,
                                    ![c].timer = (pending = 0)]
                /\ caller' = [caller EXCEPT !.at = "checked"]
        /\ UNCHANGED <<air, acks, rx, delivered, ended, mishaps>>

\* It clears the flag and returns.
Finish ==
    /\ caller.at = "checked"
    /\ tx' = [tx EXCEPT ![caller.ctx].sending = FALSE]
    /\ caller' = Returned
    /\ UNCHANGED <<adv, air, acks, rx, delivered, ended, mishaps>>

-----------------------------------------------------------------------------
(* Acknowledgements.                                                       *)

\* Mutant: the acknowledgement is taken for the message being sent.
seg_tx_lookup_Any(m) == {c \in Busy(tx) : ~tx[c].blocked}

seg_tx_lookup(m) == {c \in Ctxs : tx[c].msg = m}

\* trans_ack.  An acknowledgement for a message that has no context is dropped.
trans_ack(a) ==
    LET match == seg_tx_lookup(a.msg)
    IN  /\ a \in acks
        /\ acks' = acks \ {a}
        /\ IF match = {} THEN UNCHANGED <<tx, adv, ended>>
           ELSE LET c == Min(match)
                    t == [tx EXCEPT ![c].nack = @ \ a.block, ![c].timer = FALSE]
                IN  IF t[c].nack # {} THEN seg_tx_send_unacked(t, c)
                    ELSE /\ tx' = seg_tx_complete(t, c)
                         /\ ended' = [ended EXCEPT ![tx[c].msg] = "ok"]
                         /\ UNCHANGED adv
        /\ UNCHANGED <<caller, air, rx, delivered, mishaps>>

-----------------------------------------------------------------------------
(* The advertiser.                                                         *)

\* A segment goes on the air ...
AdvStart ==
    /\ adv # <<>> /\ ~Head(adv).sending
    /\ Len(air) < ON_AIR
    /\ adv' = [adv EXCEPT ![1].sending = TRUE]
    /\ air' = Append(air, [msg |-> Head(adv).msg, seg |-> Head(adv).seg])
    /\ UNCHANGED <<caller, tx, acks, rx, delivered, ended, mishaps>>

schedule_retransmit(c) ==
    LET pending == (tx[c].pending - 1) % 256
    IN  tx' = IF tx[c].nack = {} THEN tx
              ELSE [tx EXCEPT ![c].pending = pending,
                              ![c].timer = @ \/ (pending = 0 /\ ~tx[c].sending)]

\* ... and has been sent: seg_sent is called for the context, whatever message
\* uses it by then.
AdvEnd ==
    LET c == Head(adv).ctx
    IN  /\ adv # <<>> /\ Head(adv).sending
        /\ adv' = Tail(adv)
        /\ schedule_retransmit(c)
        /\ mishaps' = mishaps
             \cup (IF tx[c].msg \notin {0, Head(adv).msg} THEN {"stale"} ELSE {})
             \cup (IF caller.at = "checked" /\ caller.ctx = c /\ tx[c].pending = 1
                   THEN {"missed"} ELSE {})
        /\ UNCHANGED <<caller, air, acks, rx, delivered, ended>>

-----------------------------------------------------------------------------
(* The receiver.                                                           *)

send_ack(m, block) ==
    /\ Cardinality(acks) < ON_AIR_ACKS
    /\ acks' = acks \cup {[msg |-> m, block |-> block]}

\* Mutant: a complete message is not remembered.
seg_rx_find_Forgets(m) == IF rx.in_use /\ rx.msg >= m THEN rx.msg ELSE 0

\* seg_rx_find: the message of the context, if it is this one or a newer one.
seg_rx_find(m) == IF rx.msg >= m THEN rx.msg ELSE 0

\* The context after a segment; it is free, and remembered, when it was the last.
Received(m, block) ==
    [msg |-> m, block |-> block, in_use |-> block # Segs, timer |-> block # Segs]

\* The segments that are still on their way when the i-th has arrived or is lost.
Without(s, i) == SubSeq(s, 1, i - 1) \o SubSeq(s, i + 1, Len(s))

\* trans_seg.  Segments that were sent before the one that completed a message
\* are behind the replay protection list, and dropped.
trans_seg(i) ==
    LET s == air[i]
        found == seg_rx_find(s.msg)
        block == (IF found = s.msg THEN rx.block ELSE {}) \cup {s.seg}
        Drop == UNCHANGED <<rx, acks, delivered>> /\ air' = Without(air, i)
    IN  /\ CASE found > s.msg -> Drop
             [] found = s.msg /\ ~rx.in_use /\ rx.block = Segs ->
                  /\ send_ack(s.msg, Segs)
                  /\ air' = SubSeq(air, i + 1, Len(air))
                  /\ UNCHANGED <<rx, delivered>>
             [] found = s.msg /\ ~rx.in_use /\ rx.block # Segs -> Drop
             [] found = s.msg /\ rx.in_use /\ s.seg \in rx.block -> Drop
             [] OTHER ->
                  /\ rx' = Received(s.msg, block)
                  /\ IF block # Segs
                     THEN air' = Without(air, i) /\ UNCHANGED <<acks, delivered>>
                     ELSE /\ air' = SubSeq(air, i + 1, Len(air))
                          /\ send_ack(s.msg, Segs)
                          /\ delivered' = Append(delivered, s.msg)
        /\ UNCHANGED <<caller, tx, adv, ended, mishaps>>

\* seg_ack, on the timer of the receiver, which runs for longer than main takes
\* to queue the segments of a message.
seg_ack ==
    /\ rx.timer /\ caller.at # "loop"
    /\ send_ack(rx.msg, rx.block)
    /\ UNCHANGED <<caller, tx, adv, air, rx, delivered, ended, mishaps>>

\* The incomplete timer: the sender has given up long before.
Incomplete ==
    /\ rx.timer
    /\ \A c \in Ctxs : tx[c].msg # rx.msg
    /\ \A i \in DOMAIN air : air[i].msg # rx.msg
    /\ \A i \in DOMAIN adv : adv[i].msg # rx.msg
    /\ rx' = [rx EXCEPT !.in_use = FALSE, !.timer = FALSE]
    /\ UNCHANGED <<caller, tx, adv, air, acks, delivered, ended, mishaps>>

\* Another source takes the free context for a message of its own, once.
Other ==
    /\ rx.msg # 0 /\ ~rx.in_use /\ "evicted" \notin mishaps
    /\ rx' = NoRx
    /\ mishaps' = mishaps \cup {"evicted"}
    /\ UNCHANGED <<caller, tx, adv, air, acks, delivered, ended>>

\* A segment or an acknowledgement is lost.
LoseSegment ==
    /\ \E i \in DOMAIN air : air' = Without(air, i)
    /\ UNCHANGED <<caller, tx, adv, acks, rx, delivered, ended, mishaps>>

LoseAck ==
    /\ \E a \in acks : acks' = acks \ {a}
    /\ UNCHANGED <<caller, tx, adv, air, rx, delivered, ended, mishaps>>

Main == Find \/ Fill \/ Loop \/ Finish
Radio == AdvStart \/ AdvEnd
Timers == \E c \in Ctxs : seg_retransmit(c)
Segment == \E i \in DOMAIN air : trans_seg(i)
Ack == \E a \in acks : trans_ack(a)

Next ==
    \/ Main \/ Radio \/ Timers \/ Segment \/ Ack \/ seg_ack
    \/ Incomplete \/ Other \/ LoseSegment \/ LoseAck

\* The threads of the sender go on and its timers fire, and segments
\* arrive or are lost.  That anything arrives is not assumed.
Spec ==
    /\ Init /\ [][Next]_vars
    /\ WF_vars(Main) /\ WF_vars(Radio) /\ WF_vars(Timers)
    /\ WF_vars(Segment \/ LoseSegment)

-----------------------------------------------------------------------------
(* Properties.                                                             *)

\* The receiver passes on every message at most once, and in the order in which
\* they were sent, though segments are repeated with new sequence numbers and
\* acknowledgements are lost (seg_rx_find and the blocked contexts), unless a
\* message of another source takes the context of a complete one.
OnceInOrder ==
    "evicted" \notin mishaps =>
        \A i, j \in DOMAIN delivered : i < j => delivered[i] < delivered[j]

\* The sender is told "ok" only for a message that was passed on: segments are
\* acknowledged for the message they belong to, in whatever context it is.
OkMeansDelivered ==
    \A m \in Msgs : ended[m] = "ok" => \E i \in DOMAIN delivered : delivered[i] = m

\* The receiver gives up the segments it has of a message for a newer one only if
\* the sender has given up that message too: seg_rx_find takes the new message as
\* a sign that it has, and send_seg blocks the new one until then.
KeepsIncomplete ==
    [][rx.in_use /\ rx'.msg # rx.msg => \A c \in Ctxs : tx[c].msg # rx.msg]_vars

\* A message does not stay in its context: the sender is told in the end, also
\* if nothing arrives (seg_sent starts the timer, seg_tx_unblock_check the next
\* message), unless a late callback was counted for the next message in the
\* context, main found a message in progress that has ended since, or the last
\* callback came after main had looked and before it cleared the flag.
MessagesEnd ==
    \A m \in Msgs : (\E c \in Ctxs : tx[c].msg = m) ~>
        ended[m] # "not yet" \/ mishaps \cap {"stale", "late", "missed"} # {}
=============================================================================

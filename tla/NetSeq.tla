------------------------------- MODULE NetSeq -------------------------------
(***************************************************************************)
(* The nonces of a mesh node: IV index and sequence number (net.c), and    *)
(* how they survive a restart (settings.c).  A message is encrypted with   *)
(* the pair of the transmit IV index and the sequence number; the stack    *)
(* takes a pair only once.                                                 *)
(*                                                                         *)
(* The sequence number is stored when it reaches a multiple of STORE_RATE, *)
(* and the system work queue sleeps in every write.  The receive thread is *)
(* cooperative: it runs when the work queue sleeps or has nothing to do.   *)
(* The steps between taking a sequence number and encrypting are one step. *)
(***************************************************************************)
EXTENDS Integers, FiniteSets

CONSTANTS
    STORE_RATE,     \* CONFIG_BT_MESH_SEQ_STORE_RATE
    SEQ_LIMIT,      \* IV_UPDATE_SEQ_LIMIT
    MIN_HOURS,      \* BT_MESH_IVU_MIN_HOURS, in ticks of the timer
    IV_MAX,         \* bound: IV indexes
    SEQ_MAX,        \* bound: sequence numbers
    RESTARTS,       \* bound: restarts
    TRANSFERS       \* bound: segmented transfers

ASSUME NetSeqAssumption ==
    /\ {STORE_RATE, MIN_HOURS} \subseteq Nat \ {0}
    /\ {SEQ_LIMIT, IV_MAX, SEQ_MAX, RESTARTS, TRANSFERS} \subseteq Nat

VARIABLES
    node,       \* the node: see Node
    pend,       \* BT_MESH_IV_PENDING and BT_MESH_SEQ_PENDING
    queued,     \* pending_store is on the work queue
    pass,       \* the pass of store_pending: the item it writes, and the value
    flash,      \* bt/mesh/IV and bt/mesh/Seq
    last,       \* the highest pair that a message was sent with
    cut,        \* a restart has dropped what was still to be stored
    left        \* restarts and transfers that may still come

vars == <<node, pend, queued, pass, flash, last, cut, left>>

Saved == [iv : 0 .. IV_MAX, prog : BOOLEAN, dur : 0 .. MIN_HOURS]
Node == [iv : 0 .. IV_MAX,          \* iv_index
         prog : BOOLEAN,            \* BT_MESH_IVU_IN_PROGRESS
         dur : 0 .. MIN_HOURS,      \* ivu_duration
         timer : BOOLEAN,           \* ivu_timer is running
         seq : 0 .. SEQ_MAX + STORE_RATE,
         transfers : 0 .. 2,        \* seg_tx contexts in use
         deferred : BOOLEAN]        \* BT_MESH_IVU_PENDING

\* The types.
TypeOK ==
    /\ node \in Node
    /\ pend \subseteq {"IV", "Seq"} /\ {queued, cut} \subseteq BOOLEAN
    /\ pass.item \in {"none", "IV", "Seq"} /\ pass.at \in 0 .. 2
    /\ flash.IV \in Saved /\ flash.Seq \in 0 .. SEQ_MAX + STORE_RATE
    /\ last \in (0 .. IV_MAX) \X (0 .. SEQ_MAX + STORE_RATE)
    /\ left.restarts \in 0 .. RESTARTS /\ left.transfers \in 0 .. TRANSFERS

Idle == [at |-> 0, item |-> "none", value |-> <<>>]
TxIv(n) == IF n.prog THEN n.iv - 1 ELSE n.iv
Below(p, q) == p[1] < q[1] \/ (p[1] = q[1] /\ p[2] < q[2])
IvVal(n) == [iv |-> n.iv, prog |-> n.prog, dur |-> n.dur]

\* A node that was just provisioned into a network at IV index 2, which may be
\* in the middle of an IV update, and has stored so.  No message was sent yet;
\* <<0, 0>> stands for that.
Init ==
    /\ \E prog \in BOOLEAN :
         node = [iv |-> 2, prog |-> prog, dur |-> MIN_HOURS, timer |-> FALSE,
                 seq |-> 0, transfers |-> 0, deferred |-> FALSE]
    /\ pend = {} /\ queued = FALSE /\ pass = Idle
    /\ flash = [IV |-> IvVal(node), Seq |-> 0]
    /\ last = <<0, 0>>
    /\ cut = FALSE
    /\ left = [restarts |-> RESTARTS, transfers |-> TRANSFERS]

-----------------------------------------------------------------------------
(* IV update.                                                              *)

Refused(n) == [node |-> n, store |-> {}]

\* The do_update part of bt_mesh_net_iv_update.
DoUpdate(n, iv, upd) ==
    [node |-> [n EXCEPT !.iv = iv, !.prog = upd, !.dur = 0, !.timer = TRUE,
                        !.seq = IF upd THEN @ ELSE 0],
     store |-> {"IV", "Seq"}]

\* Mutant: a transfer does not defer the return to normal operation.
Changed_NoDefer(n, iv, upd) ==
    IF n.dur < MIN_HOURS THEN Refused(n) ELSE DoUpdate(n, iv, upd)

\* Not too early, and on the way to normal operation not during a transfer.
Changed(n, iv, upd) ==
    IF n.dur < MIN_HOURS THEN Refused(n)
    ELSE IF ~upd /\ n.transfers > 0 THEN Refused([n EXCEPT !.deferred = TRUE])
    ELSE DoUpdate(n, iv, upd)

\* bt_mesh_net_iv_update: the node it leaves, and what it stores.  An index that
\* is further ahead than one, but not too far, is IV index recovery.
net_iv_update(n, iv, upd) ==
    CASE n.prog -> IF iv # n.iv \/ upd THEN Refused(n) ELSE Changed(n, iv, upd)
      [] ~n.prog /\ iv \in n.iv + 2 .. n.iv + 42 -> DoUpdate([n EXCEPT !.seq = 0], iv, upd)
      [] ~n.prog /\ iv = n.iv + 1 /\ upd -> Changed(n, iv, upd)
      [] OTHER -> Refused(n)

\* schedule_store: these items do not wait.
Store(items) ==
    /\ pend' = pend \cup items
    /\ queued' = (queued \/ items # {})

-----------------------------------------------------------------------------
(* The node.                                                               *)

\* The receive thread, or main, is running.
Runs == pass.at = 0 \/ pass.item # "none"
Update(iv, upd) ==
    LET r == net_iv_update(node, iv, upd) IN node' = r.node /\ Store(r.store)

\* bt_mesh_next_seq and the encryption that follows: the pair is complete only
\* when an IV update may have been started.
next_seq ==
    LET used == node.seq
        n == [node EXCEPT !.seq = @ + 1]
        start == ~n.prog /\ n.seq > SEQ_LIMIT /\ n.iv < IV_MAX
        r == IF start THEN net_iv_update(n, n.iv + 1, TRUE) ELSE Refused(n)
        pair == <<TxIv(r.node), used>>
    IN  /\ Runs /\ used < SEQ_MAX
        /\ node' = r.node
        /\ Store(r.store \cup (IF n.seq % STORE_RATE = 0 THEN {"Seq"} ELSE {}))
        /\ last' = IF Below(last, pair) THEN pair ELSE last
        /\ UNCHANGED <<pass, flash, cut, left>>

\* secure_beacon_recv: a beacon of the network, with its IV index and its flag.
beacon_recv(iv, upd) ==
    /\ Runs
    /\ Update(iv, upd)
    /\ UNCHANGED <<pass, flash, last, cut, left>>

\* A segmented transfer takes a context ...
SegBegin ==
    /\ Runs
    /\ node.transfers < 2 /\ left.transfers > 0
    /\ node' = [node EXCEPT !.transfers = @ + 1]
    /\ left' = [left EXCEPT !.transfers = @ - 1]
    /\ UNCHANGED <<pend, queued, pass, flash, last, cut>>

\* Mutant: the deferred change is not taken up.
seg_tx_reset_Forgets ==
    /\ Runs /\ node.transfers > 0
    /\ node' = [node EXCEPT !.transfers = @ - 1]
    /\ UNCHANGED <<pend, queued, pass, flash, last, cut, left>>

\* ... and gives it back: seg_tx_reset then does the change that was deferred,
\* which another transfer may defer again.
seg_tx_reset ==
    LET n == [node EXCEPT !.transfers = @ - 1, !.deferred = FALSE]
        r == IF node.deferred THEN net_iv_update(n, n.iv, FALSE) ELSE Refused(n)
    IN  /\ Runs /\ node.transfers > 0
        /\ node' = r.node /\ Store(r.store)
        /\ UNCHANGED <<pass, flash, last, cut, left>>

\* The timer, on the work queue.  It runs for hours, a store does not.
ivu_refresh ==
    LET n == [node EXCEPT !.dur = @ + 1, !.timer = node.dur + 1 < MIN_HOURS]
        r == IF n.dur >= MIN_HOURS /\ n.prog THEN net_iv_update(n, n.iv, FALSE)
             ELSE [node |-> n, store |-> {"IV"}]
    IN  /\ node.timer /\ pass.at = 0 /\ ~queued
        /\ node' = r.node /\ Store(r.store)
        /\ UNCHANGED <<pass, flash, last, cut, left>>

-----------------------------------------------------------------------------
(* The work queue: store_pending writes IV, then Seq.                      *)

Take(item, at) ==
    /\ pass.item = "none" /\ pass.at < at
    /\ pass.at > 0 \/ queued
    /\ item \in pend /\ (at = 1 \/ pass.at = 1 \/ "IV" \notin pend)
    /\ queued' = (queued /\ pass.at > 0)
    /\ pend' = pend \ {item}
    /\ pass' = [at |-> at, item |-> item,
                value |-> IF item = "IV" THEN IvVal(node) ELSE node.seq]
    /\ UNCHANGED <<node, flash, last, cut, left>>

Written ==
    /\ pass.item # "none"
    /\ flash' = [flash EXCEPT ![pass.item] = pass.value]
    /\ pass' = [pass EXCEPT !.item = "none"]
    /\ UNCHANGED <<node, pend, queued, last, cut, left>>

PassEnds ==
    /\ pass.item = "none"
    /\ \/ pass.at = 2
       \/ pass.at = 1 /\ "Seq" \notin pend
       \/ pass.at = 0 /\ queued /\ pend = {}
    /\ queued' = (queued /\ pass.at > 0)
    /\ pass' = Idle
    /\ UNCHANGED <<node, pend, flash, last, cut, left>>

store_pending == Take("IV", 1) \/ Take("Seq", 2) \/ Written \/ PassEnds

-----------------------------------------------------------------------------
(* A restart.                                                              *)

\* Mutant: the sequence number goes on where it was stored.
seq_set_AsStored(seq) == seq

\* seq_set: past every number that may have been used since the last store.
seq_set(seq) == seq + (STORE_RATE - (seq % STORE_RATE)) - 1

\* Power is lost at any time; settings_load and mesh_commit follow.
Restart ==
    /\ left.restarts > 0
    /\ left' = [left EXCEPT !.restarts = @ - 1]
    /\ cut' = (cut \/ pend # {} \/ pass.at > 0)
    /\ node' = [iv |-> flash.IV.iv, prog |-> flash.IV.prog, dur |-> flash.IV.dur,
                timer |-> flash.IV.dur < MIN_HOURS, seq |-> seq_set(flash.Seq),
                transfers |-> 0, deferred |-> FALSE]
    /\ pend' = {} /\ queued' = FALSE /\ pass' = Idle
    /\ UNCHANGED <<flash, last>>

Next ==
    \/ next_seq
    \/ \E iv \in 0 .. IV_MAX, upd \in BOOLEAN : beacon_recv(iv, upd)
    \/ SegBegin \/ seg_tx_reset
    \/ ivu_refresh \/ store_pending
    \/ Restart

\* The work queue runs what is queued, timers fire, and a transfer ends: it is
\* acknowledged or runs out of attempts.
Spec == Init /\ [][Next]_vars
        /\ WF_vars(store_pending) /\ WF_vars(ivu_refresh) /\ WF_vars(seg_tx_reset)

-----------------------------------------------------------------------------
(* Properties.                                                             *)

NextNonce == <<TxIv(node), node.seq>>

\* The next message has a nonce above all that were used, also after restarts
\* and through IV updates, if no restart dropped what was still to be stored:
\* the sequence number is set to 0 only when the transmit IV index grows, and
\* seq_set goes past what was used since the last store.
NoncesFresh == ~cut => Below(last, NextNonce)

\* An IV update that a node has entered ends: the timer takes it back to normal
\* operation, if need be after the transfers that defer it, or after a restart
\* that has dropped timer and deferral.  A node that was provisioned during an
\* update has no timer, and neither if it loses power before it stores the next.
UpdateEnds == (node.prog /\ node.dur < MIN_HOURS) ~> (~node.prog \/ cut)

TransferStep ==
    /\ node.transfers > 0 /\ node'.transfers > 0
    /\ node'.iv <= node.iv + 1 /\ left'.restarts = left.restarts
    => TxIv(node') = TxIv(node)

\* A segmented transfer goes on with the IV index it began with: the change to
\* normal operation waits for it.  Only IV index recovery and a restart do not.
TransferKeepsIv == [][TransferStep]_vars
=============================================================================

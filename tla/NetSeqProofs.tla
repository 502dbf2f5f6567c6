---------------------------- MODULE NetSeqProofs ----------------------------
(***************************************************************************)
(* Proofs about the nonces of a node, for every store rate, every limit    *)
(* and any number of restarts: a nonce is never used twice, and a          *)
(* segmented transfer keeps the IV index it began with.                    *)
(***************************************************************************)
EXTENDS NetSeq, TLAPS

----------------------------------------------------------------------------
(* What is stored and how it is read back. *)

\* seq_set gives the last number before a multiple of the store rate.
LEMMA NextMultiple ==
    ASSUME NEW s \in Nat
    PROVE  /\ seq_set(s) \in Nat /\ s <= seq_set(s)
           /\ (seq_set(s) + 1) % STORE_RATE = 0
<1> DEFINE R == STORE_RATE
           q == s \div R
<1>1. R \in Nat \ {0}
  BY NetSeqAssumption
<1>2. s % R \in 0 .. R - 1 /\ q \in Nat /\ s = (R * q) + (s % R)
  BY <1>1
<1>3. seq_set(s) + 1 = R * (q + 1) /\ seq_set(s) \in Nat /\ s <= seq_set(s)
  BY <1>1, <1>2 DEF seq_set
<1>4. ASSUME NEW p \in Nat PROVE (R * p) % R = 0
  BY <1>1, <1>4, SMTT(30)
<1> QED BY <1>2, <1>3, <1>4

\* The types that the proofs need; the bounds of the model are not among them.
WNode == [iv : Nat, prog : BOOLEAN, dur : Nat, timer : BOOLEAN, seq : Nat,
          transfers : Nat, deferred : BOOLEAN]
WSaved == [iv : Nat, prog : BOOLEAN, dur : Nat]

Types ==
    /\ node \in WNode
    /\ pend \subseteq {"IV", "Seq"}
    /\ pass = [at |-> pass.at, item |-> pass.item, value |-> pass.value]
    /\ pass.at \in 0 .. 2 /\ pass.item \in {"none", "IV", "Seq"}
    /\ pass.item = "IV" => pass.value \in WSaved
    /\ pass.item = "Seq" => pass.value \in Nat
    /\ pass.at = 0 => pass.item = "none"
    /\ flash \in [IV : WSaved, Seq : Nat]
    /\ last \in Int \X Nat
    /\ cut \in BOOLEAN

\* What a restart would find once the item being written is written.
StoredIv == IF pass.item = "IV" THEN pass.value ELSE flash.IV
StoredSeq == IF pass.item = "Seq" THEN pass.value ELSE flash.Seq

\* An item that is not pending is good enough to go on from: the IV item gives
\* the IV index that messages are sent with, and the number read back is not
\* below the next one to use.
Covered ==
    /\ "IV" \notin pend => TxIv(StoredIv) = TxIv(node)
    /\ "Seq" \notin pend => node.seq <= seq_set(StoredSeq)

NInv == Types /\ Covered /\ NoncesFresh

----------------------------------------------------------------------------
(* bt_mesh_net_iv_update. *)

Sent(n) == <<TxIv(n), n.seq>>
AtMost(p, q) == Below(p, q) \/ p = q

\* The fields that do_update sets.
LEMMA DoUpdateFields ==
    ASSUME NEW n \in WNode, NEW iv \in Nat, NEW upd \in BOOLEAN
    PROVE  /\ DoUpdate(n, iv, upd).store = {"IV", "Seq"}
           /\ DoUpdate(n, iv, upd).node \in WNode
           /\ DoUpdate(n, iv, upd).node.iv = iv
           /\ DoUpdate(n, iv, upd).node.prog = upd
           /\ DoUpdate(n, iv, upd).node.seq = IF upd THEN n.seq ELSE 0
           /\ DoUpdate(n, iv, upd).node.transfers = n.transfers
<1> DEFINE m == [n EXCEPT !.iv = iv, !.prog = upd, !.dur = 0, !.timer = TRUE,
                          !.seq = IF upd THEN n.seq ELSE 0]
<1>1. n.seq \in Nat
  BY DEF WNode
<1>2. m \in WNode /\ m.iv = iv /\ m.prog = upd /\ m.transfers = n.transfers
  BY <1>1 DEF WNode
<1>3. m.seq = IF upd THEN n.seq ELSE 0
  BY DEF WNode
<1>4. DoUpdate(n, iv, upd) = [node |-> m, store |-> {"IV", "Seq"}]
  BY Zenon DEF DoUpdate
<1> HIDE DEF m
<1> QED BY <1>2, <1>3, <1>4

\* The result r of an update of n.
Grown(n, r) ==
    /\ r.node \in WNode
    /\ AtMost(Sent(n), Sent(r.node))
    /\ \/ r.store = {"IV", "Seq"}
       \/ r.store = {} /\ TxIv(r.node) = TxIv(n) /\ r.node.seq = n.seq

\* do_update leaves such a result if the transmit index grows, or stays together
\* with the sequence number.
LEMMA GrownBy ==
    ASSUME NEW n \in WNode, NEW m \in WNode, NEW iv \in Nat, NEW upd \in BOOLEAN,
           \/ TxIv(n) < (IF upd THEN iv - 1 ELSE iv)
           \/ TxIv(n) = (IF upd THEN iv - 1 ELSE iv) /\ upd /\ m.seq = n.seq
    PROVE  Grown(n, DoUpdate(m, iv, upd))
<1> DEFINE u == DoUpdate(m, iv, upd)
<1>1. /\ u.store = {"IV", "Seq"} /\ u.node \in WNode
      /\ u.node.iv = iv /\ u.node.prog = upd
      /\ u.node.seq = IF upd THEN m.seq ELSE 0
  BY DoUpdateFields
<1> HIDE DEF u
<1>2. TxIv(u.node) = IF upd THEN iv - 1 ELSE iv
  BY <1>1 DEF TxIv
<1>3. TxIv(n) \in Int /\ n.seq \in Nat /\ m.seq \in Nat
  BY DEF TxIv, WNode
<1>4. AtMost(Sent(n), Sent(u.node))
  BY <1>1, <1>2, <1>3 DEF AtMost, Below, Sent
<1> QED BY <1>1, <1>4 DEF Grown, u

\* It never takes a node to a lower nonce, and unless it stores both items it
\* leaves index, flag and sequence number alone.
LEMMA UpdateGrows ==
    ASSUME NEW n \in WNode, NEW iv \in Nat, NEW upd \in BOOLEAN
    PROVE  Grown(n, net_iv_update(n, iv, upd))
<1>1. Grown(n, Refused(n)) /\ Grown(n, Refused([n EXCEPT !.deferred = TRUE]))
  BY DEF WNode, Refused, Grown, Sent, AtMost, Below, TxIv
<1>2. CASE n.prog
  <2>1. CASE iv # n.iv \/ upd
    BY <1>1, <1>2, <2>1 DEF net_iv_update
  <2>2. CASE iv = n.iv /\ ~upd
    <3>1. Grown(n, DoUpdate(n, iv, upd))
      BY <1>2, <2>2, GrownBy DEF WNode, TxIv
    <3> QED BY <1>1, <1>2, <2>2, <3>1 DEF net_iv_update, Changed
  <2> QED BY <2>1, <2>2
<1>3. CASE ~n.prog /\ iv \in n.iv + 2 .. n.iv + 42
  <2>1. Grown(n, DoUpdate([n EXCEPT !.seq = 0], iv, upd))
    <3>1. [n EXCEPT !.seq = 0] \in WNode
      BY DEF WNode
    <3>2. TxIv(n) = n.iv /\ n.iv \in Nat
      BY <1>3 DEF WNode, TxIv
    <3> QED BY <1>3, <3>1, <3>2, GrownBy
  <2>2. net_iv_update(n, iv, upd) = DoUpdate([n EXCEPT !.seq = 0], iv, upd)
    BY <1>3 DEF net_iv_update, WNode
  <2> QED BY <2>1, <2>2
<1>4. CASE ~n.prog /\ iv = n.iv + 1 /\ upd
  <2>1. Grown(n, DoUpdate(n, iv, upd))
    <3>1. TxIv(n) = n.iv /\ n.iv \in Nat
      BY <1>4 DEF WNode, TxIv
    <3>2. TxIv(n) = (IF upd THEN iv - 1 ELSE iv) /\ upd
      BY <1>4, <3>1
    <3> QED BY <3>2, GrownBy, Zenon
  <2>2. net_iv_update(n, iv, upd) = Changed(n, iv, upd)
    BY <1>4 DEF net_iv_update, WNode
  <2> QED BY <1>1, <1>4, <2>1, <2>2 DEF Changed
<1>5. CASE ~n.prog /\ ~(iv \in n.iv + 2 .. n.iv + 42) /\ ~(iv = n.iv + 1 /\ upd)
  BY <1>1, <1>5 DEF net_iv_update
<1> QED BY <1>2, <1>3, <1>4, <1>5 DEF WNode

----------------------------------------------------------------------------
(* The inductive invariant. *)

\* Below is a strict order on nonces.
LEMMA BelowAtMost ==
    ASSUME NEW p \in Int \X Nat, NEW q \in Int \X Nat, NEW r \in Int \X Nat,
           Below(p, q), AtMost(q, r)
    PROVE  Below(p, r)
BY DEF Below, AtMost

LEMMA SentType ==
    ASSUME NEW n \in WNode
    PROVE  /\ Sent(n) \in Int \X Nat /\ TxIv(n) \in Int /\ n.seq \in Nat
           /\ Sent(n)[1] = TxIv(n) /\ Sent(n)[2] = n.seq
BY DEF WNode, Sent, TxIv

\* A step that moves the node and leaves the store alone keeps Covered: what it
\* moves it stores, except for a sequence number that is no multiple of the rate.
LEMMA NodeMoves ==
    ASSUME Types, Covered, node' \in WNode, UNCHANGED <<pass, flash>>,
           pend \subseteq pend',
           "IV" \in pend' \/ TxIv(node') = TxIv(node),
           \/ "Seq" \in pend'
           \/ node'.seq = node.seq
           \/ node'.seq = node.seq + 1 /\ node'.seq % STORE_RATE # 0
    PROVE  Covered'
<1>1. UNCHANGED <<StoredIv, StoredSeq>>
  BY DEF StoredIv, StoredSeq
<1>2. "IV" \notin pend' => TxIv(StoredIv)' = TxIv(node)'
  BY <1>1 DEF Covered, TxIv
<1>3. ASSUME "Seq" \notin pend' PROVE node'.seq <= seq_set(StoredSeq)
  <2>1. node.seq <= seq_set(StoredSeq) /\ node.seq \in Nat
    BY <1>3 DEF Covered, Types, WNode
  <2>2. StoredSeq \in Nat
    BY DEF Types, StoredSeq
  <2>3. seq_set(StoredSeq) \in Nat /\ (seq_set(StoredSeq) + 1) % STORE_RATE = 0
    BY <2>2, NextMultiple
  <2>4. CASE node.seq < seq_set(StoredSeq)
    BY <1>3, <2>1, <2>3, <2>4
  <2>5. CASE node.seq = seq_set(StoredSeq)
    BY <1>3, <2>1, <2>3, <2>5
  <2> QED BY <2>1, <2>3, <2>4, <2>5
<1>4. "Seq" \notin pend' => node'.seq <= seq_set(StoredSeq')
  BY <1>1, <1>3
<1> QED BY <1>2, <1>4 DEF Covered, seq_set

\* A step of the node that changes it to the result of an update, and stores at
\* least what the update stores, keeps the invariant.
LEMMA UpdateKeeps ==
    ASSUME NInv, NEW r, NEW m \in WNode, NEW items \in SUBSET {"IV", "Seq"},
           TxIv(m) = TxIv(node), m.seq = node.seq, Grown(m, r),
           r.store \subseteq items, node' = r.node, Store(items),
           UNCHANGED <<pass, flash, last, cut>>
    PROVE  NInv'
<1>1. /\ node' \in WNode /\ AtMost(Sent(m), Sent(node'))
      /\ r.store = {"IV", "Seq"} \/ (TxIv(node') = TxIv(m) /\ node'.seq = m.seq)
  BY DEF Grown
<1>2. pend \subseteq pend' /\ items \subseteq pend' /\ pend' \subseteq {"IV", "Seq"}
  BY DEF Store, NInv, Types
<1>3. Types'
  BY <1>1, <1>2 DEF NInv, Types
<1>4. Covered'
  BY <1>1, <1>2, NodeMoves DEF NInv
<1>5. NoncesFresh'
  <2>1. Sent(m) = Sent(node)
    BY DEF Sent
  <2>2. Sent(node) \in Int \X Nat /\ Sent(node') \in Int \X Nat /\ last \in Int \X Nat
    BY <1>1, SentType DEF NInv, Types
  <2>3. ~cut => Below(last, Sent(node))
    BY DEF NInv, NoncesFresh, NextNonce, Sent
  <2>4. ~cut => Below(last, Sent(node'))
    BY <1>1, <2>1, <2>2, <2>3, BelowAtMost
  <2> QED BY <2>4 DEF NoncesFresh, NextNonce, Sent, TxIv
<1> QED BY <1>3, <1>4, <1>5 DEF NInv

\* A node that is refused is its own result.
LEMMA RefusedGrown ==
    ASSUME NEW n \in WNode
    PROVE  Grown(n, Refused(n)) /\ Refused(n).store = {} /\ Refused(n).node = n
BY DEF Grown, Refused, AtMost

LEMMA InitInv == Init => NInv
<1> SUFFICES ASSUME Init PROVE NInv
  OBVIOUS
<1>1. Types
  <2>1. node \in WNode
    BY NetSeqAssumption DEF Init, WNode
  <2>2. IvVal(node) \in WSaved
    BY <2>1 DEF IvVal, WNode, WSaved
  <2>3. flash \in [IV : WSaved, Seq : Nat] /\ last \in Int \X Nat
    BY <2>2 DEF Init
  <2>4. pend = {} /\ cut = FALSE
    BY DEF Init
  <2>5. /\ pass = [at |-> pass.at, item |-> pass.item, value |-> pass.value]
        /\ pass.at = 0 /\ pass.item = "none"
    BY DEF Init, Idle
  <2>6. pass.at \in 0 .. 2 /\ pass.item # "IV" /\ pass.item # "Seq"
    BY <2>5
  <2> QED BY <2>1, <2>3, <2>4, <2>5, <2>6, Zenon DEF Types
<1>2. Covered
  <2>1. 0 <= seq_set(0)
    BY NextMultiple
  <2>2. StoredIv = IvVal(node) /\ StoredSeq = 0 /\ node.seq = 0
    BY DEF Init, StoredIv, StoredSeq, Idle
  <2>3. TxIv(IvVal(node)) = TxIv(node)
    BY DEF TxIv, IvVal
  <2> QED BY <2>1, <2>2, <2>3 DEF Covered
<1>3. NoncesFresh
  BY DEF Init, NoncesFresh, NextNonce, TxIv, Below
<1> QED BY <1>1, <1>2, <1>3 DEF NInv

----------------------------------------------------------------------------
(* The steps. *)

LEMMA NextSeqKeeps == NInv /\ next_seq => NInv'
<1> SUFFICES ASSUME NInv, next_seq PROVE NInv'
  OBVIOUS
<1> DEFINE n == [node EXCEPT !.seq = @ + 1]
           start == ~n.prog /\ n.seq > SEQ_LIMIT /\ n.iv < IV_MAX
           r == IF start THEN net_iv_update(n, n.iv + 1, TRUE) ELSE Refused(n)
           pair == <<TxIv(r.node), node.seq>>
           items == r.store \cup (IF n.seq % STORE_RATE = 0 THEN {"Seq"} ELSE {})
<1>1. /\ node' = r.node /\ Store(items)
      /\ last' = IF Below(last, pair) THEN pair ELSE last
      /\ UNCHANGED <<pass, flash, cut>>
  BY Zenon DEF next_seq
<1>2. /\ n \in WNode /\ n.seq = node.seq + 1 /\ TxIv(n) = TxIv(node)
      /\ n.iv + 1 \in Nat /\ node.seq \in Nat /\ n.iv = node.iv /\ n.prog = node.prog
      /\ TxIv(node) \in Int
  BY DEF NInv, Types, WNode, TxIv
<1>3. Grown(n, r)
  BY <1>2, UpdateGrows, RefusedGrown
<1>4. TxIv(r.node) = TxIv(node) /\ r.node.seq = node.seq + 1
  <2>1. CASE start
    <3>1. net_iv_update(n, n.iv + 1, TRUE) = Changed(n, n.iv + 1, TRUE)
      BY <1>2, <2>1 DEF net_iv_update, WNode
    <3>2. \/ r = Refused(n)
          \/ r = DoUpdate(n, n.iv + 1, TRUE)
      BY <2>1, <3>1 DEF Changed
    <3> HIDE DEF n
    <3>3. /\ DoUpdate(n, n.iv + 1, TRUE).node.iv = n.iv + 1
          /\ DoUpdate(n, n.iv + 1, TRUE).node.prog = TRUE
          /\ DoUpdate(n, n.iv + 1, TRUE).node.seq = n.seq
      BY <1>2, DoUpdateFields
    <3>4. TxIv(DoUpdate(n, n.iv + 1, TRUE).node) = n.iv
      <4>1. n.iv \in Nat
        BY <1>2 DEF WNode
      <4>2. TxIv(DoUpdate(n, n.iv + 1, TRUE).node) = (n.iv + 1) - 1
        BY <3>3, Zenon DEF TxIv
      <4>3. (n.iv + 1) - 1 = n.iv
        BY <4>1
      <4> QED BY <4>2, <4>3, Zenon
    <3>5. TxIv(n) = n.iv
      BY <2>1 DEF TxIv
    <3> HIDE DEF r
    <3> QED BY <1>2, <3>2, <3>3, <3>4, <3>5, RefusedGrown
  <2>2. CASE ~start
    BY <1>2, <2>2, RefusedGrown
  <2> QED BY <2>1, <2>2
<1>5. /\ node' \in WNode /\ TxIv(node') = TxIv(node) /\ node'.seq = node.seq + 1
      /\ n.seq % STORE_RATE = 0 => "Seq" \in items
      /\ items \subseteq {"IV", "Seq"}
  BY <1>1, <1>3, <1>4 DEF Grown
<1> HIDE DEF r, items
<1>6. pend \subseteq pend' /\ items \subseteq pend' /\ pend' \subseteq {"IV", "Seq"}
  BY <1>1, <1>5 DEF Store, NInv, Types
<1>7. Covered'
  BY <1>1, <1>2, <1>5, <1>6, NodeMoves DEF NInv
<1>8. last' \in Int \X Nat /\ (~cut => last' = <<TxIv(node), node.seq>>)
  BY <1>1, <1>2, <1>4 DEF NInv, Types, NoncesFresh, NextNonce
<1>9. Types'
  BY <1>1, <1>5, <1>6, <1>8 DEF NInv, Types
<1>10. NoncesFresh'
  <2>1. ~cut => Below(last', <<TxIv(node'), node'.seq>>)
    BY <1>2, <1>5, <1>8 DEF Below
  <2> QED BY <1>1, <2>1 DEF NoncesFresh, NextNonce, TxIv
<1> QED BY <1>7, <1>9, <1>10 DEF NInv
LEMMA BeaconKeeps ==
    ASSUME NInv, NEW iv \in Nat, NEW upd \in BOOLEAN, beacon_recv(iv, upd)
    PROVE  NInv'
<1> DEFINE r == net_iv_update(node, iv, upd)
<1>1. node' = r.node /\ Store(r.store) /\ UNCHANGED <<pass, flash, last, cut>>
  BY Zenon DEF beacon_recv, Update
<1>2. node \in WNode
  BY DEF NInv, Types
<1>3. Grown(node, r)
  BY <1>2, UpdateGrows
<1> HIDE DEF r
<1>4. r.store \in SUBSET {"IV", "Seq"}
  BY <1>3 DEF Grown
<1> QED BY <1>1, <1>2, <1>3, <1>4, UpdateKeeps

LEMMA SegBeginKeeps == NInv /\ SegBegin => NInv'
<1> SUFFICES ASSUME NInv, SegBegin PROVE NInv'
  OBVIOUS
<1>1. /\ node' \in WNode /\ TxIv(node') = TxIv(node) /\ node'.seq = node.seq
      /\ UNCHANGED <<pend, pass, flash, last, cut>>
  BY DEF SegBegin, NInv, Types, WNode, TxIv
<1>2. Types'
  BY <1>1 DEF NInv, Types
<1>3. Covered'
  BY <1>1, NodeMoves DEF NInv
<1>4. NoncesFresh'
  BY <1>1 DEF NInv, NoncesFresh, NextNonce, TxIv, Below
<1> QED BY <1>2, <1>3, <1>4 DEF NInv

LEMMA SegResetKeeps == NInv /\ seg_tx_reset => NInv'
<1> SUFFICES ASSUME NInv, seg_tx_reset PROVE NInv'
  OBVIOUS
<1> DEFINE n == [node EXCEPT !.transfers = @ - 1, !.deferred = FALSE]
           r == IF node.deferred THEN net_iv_update(n, n.iv, FALSE) ELSE Refused(n)
<1>1. node' = r.node /\ Store(r.store) /\ UNCHANGED <<pass, flash, last, cut>>
  BY Zenon DEF seg_tx_reset
<1>2. node \in WNode /\ node.transfers > 0
  BY DEF NInv, Types, seg_tx_reset
<1>3. n \in WNode /\ TxIv(n) = TxIv(node) /\ n.seq = node.seq /\ n.iv \in Nat
  <2>1. node.transfers - 1 \in Nat
    BY <1>2 DEF WNode
  <2>2. n \in WNode
    BY <1>2, <2>1 DEF WNode
  <2>3. n.iv = node.iv /\ n.prog = node.prog /\ n.seq = node.seq
    BY <1>2 DEF WNode
  <2>4. n.iv \in Nat
    BY <1>2, <2>3 DEF WNode
  <2> HIDE DEF n
  <2> QED BY <2>2, <2>3, <2>4, Zenon DEF TxIv
<1> HIDE DEF n
<1>4. Grown(n, r)
  BY <1>3, UpdateGrows, RefusedGrown
<1> HIDE DEF r
<1>5. r.store \in SUBSET {"IV", "Seq"}
  BY <1>4 DEF Grown
<1> QED BY <1>1, <1>3, <1>4, <1>5, UpdateKeeps

LEMMA RefreshKeeps == NInv /\ ivu_refresh => NInv'
<1> SUFFICES ASSUME NInv, ivu_refresh PROVE NInv'
  OBVIOUS
<1> DEFINE n == [node EXCEPT !.dur = @ + 1, !.timer = node.dur + 1 < MIN_HOURS]
           end == n.dur >= MIN_HOURS /\ n.prog
           r == IF end THEN net_iv_update(n, n.iv, FALSE)
                ELSE [node |-> n, store |-> {"IV"}]
<1>1. node' = r.node /\ Store(r.store) /\ UNCHANGED <<pass, flash, last, cut>>
  BY Zenon DEF ivu_refresh
<1>2. n \in WNode /\ TxIv(n) = TxIv(node) /\ n.seq = node.seq /\ n.iv \in Nat
  <2>1. node \in WNode
    BY DEF NInv, Types
  <2>2. node.dur + 1 \in Nat /\ (node.dur + 1 < MIN_HOURS) \in BOOLEAN
    BY <2>1 DEF WNode
  <2>3. n \in WNode
    BY <2>1, <2>2, Zenon DEF WNode
  <2>4. n.iv = node.iv /\ n.prog = node.prog /\ n.seq = node.seq
    BY <2>1 DEF WNode
  <2>5. n.iv \in Nat
    BY <2>1, <2>4 DEF WNode
  <2> HIDE DEF n
  <2> QED BY <2>3, <2>4, <2>5, Zenon DEF TxIv
<1> HIDE DEF n
<1>3. CASE end
  <2> DEFINE u == net_iv_update(n, n.iv, FALSE)
  <2>1. node' = u.node /\ Store(u.store)
    BY <1>1, <1>3
  <2>2. Grown(n, u)
    BY <1>2, UpdateGrows
  <2> HIDE DEF u
  <2>3. u.store \in SUBSET {"IV", "Seq"}
    BY <2>2 DEF Grown
  <2> QED BY <1>1, <1>2, <2>1, <2>2, <2>3, UpdateKeeps
<1>4. CASE ~end
  <2>1. node' = n /\ Store({"IV"})
    BY <1>1, <1>4
  <2> QED BY <1>1, <1>2, <2>1, UpdateKeeps, RefusedGrown
<1> QED BY <1>3, <1>4

LEMMA TakeKeeps ==
    ASSUME NInv, NEW item \in {"IV", "Seq"}, NEW at \in 1 .. 2, Take(item, at)
    PROVE  NInv'
<1>1. /\ pend' = pend \ {item} /\ UNCHANGED <<node, flash, last, cut>>
      /\ pass'.at = at /\ pass'.item = item /\ pass.item = "none"
      /\ pass' = [at |-> pass'.at, item |-> pass'.item, value |-> pass'.value]
  BY DEF Take
<1>2. pass'.value = IF item = "IV" THEN IvVal(node) ELSE node.seq
  BY Zenon DEF Take
<1>3. node \in WNode /\ IvVal(node) \in WSaved /\ node.seq \in Nat
  BY DEF NInv, Types, WNode, IvVal, WSaved
<1>4. Types'
  <2>1. item = "IV" => pass'.value \in WSaved
    BY <1>2, <1>3
  <2>2. item = "Seq" => pass'.value \in Nat
    BY <1>2, <1>3
  <2>3. pass'.at \in 0 .. 2 /\ pass'.at # 0
    BY <1>1
  <2>4. pend' \subseteq {"IV", "Seq"} /\ pass'.item \in {"none", "IV", "Seq"}
    BY <1>1 DEF NInv, Types
  <2> QED BY <1>1, <2>1, <2>2, <2>3, <2>4, Zenon DEF NInv, Types
<1>5. Covered'
  <2>1. CASE item = "IV"
    <3>1. StoredIv' = IvVal(node) /\ StoredSeq' = StoredSeq
      BY <1>1, <1>2, <2>1 DEF StoredIv, StoredSeq
    <3>2. TxIv(IvVal(node)) = TxIv(node)
      BY DEF TxIv, IvVal
    <3>3. TxIv(StoredIv)' = TxIv(node)'
      BY <1>1, <3>1, <3>2 DEF TxIv
    <3>4. "Seq" \notin pend' => node'.seq <= seq_set(StoredSeq')
      BY <1>1, <2>1, <3>1 DEF NInv, Covered
    <3> QED BY <3>3, <3>4 DEF Covered, seq_set
  <2>2. CASE item = "Seq"
    <3>1. StoredIv' = StoredIv /\ StoredSeq' = node.seq
      BY <1>1, <1>2, <2>2 DEF StoredIv, StoredSeq
    <3>2. "IV" \notin pend' => TxIv(StoredIv)' = TxIv(node)'
      BY <1>1, <2>2, <3>1 DEF NInv, Covered, TxIv
    <3>3. node'.seq <= seq_set(StoredSeq')
      BY <1>1, <1>3, <3>1, NextMultiple
    <3> QED BY <3>2, <3>3 DEF Covered, seq_set
  <2> QED BY <2>1, <2>2
<1>6. NoncesFresh'
  BY <1>1 DEF NInv, NoncesFresh, NextNonce, TxIv, Below
<1> QED BY <1>4, <1>5, <1>6 DEF NInv
LEMMA WrittenKeeps == NInv /\ Written => NInv'
<1> SUFFICES ASSUME NInv, Written PROVE NInv'
  OBVIOUS
<1>1. UNCHANGED <<node, pend, last, cut>> /\ pass.item \in {"IV", "Seq"}
  BY DEF Written, NInv, Types
<1>2. /\ pass'.at = pass.at /\ pass'.item = "none" /\ pass.at \in 0 .. 2
      /\ pass' = [at |-> pass'.at, item |-> pass'.item, value |-> pass'.value]
  <2>1. /\ pass = [at |-> pass.at, item |-> pass.item, value |-> pass.value]
        /\ pass.at \in 0 .. 2
    BY DEF NInv, Types
  <2>2. pass' = [pass EXCEPT !.item = "none"]
    BY DEF Written
  <2> QED BY <2>1, <2>2
<1>3. /\ flash' \in [IV : WSaved, Seq : Nat]
      /\ flash'.IV = StoredIv /\ flash'.Seq = StoredSeq
  <2>1. /\ flash' = [flash EXCEPT ![pass.item] = pass.value]
        /\ flash \in [IV : WSaved, Seq : Nat]
    BY DEF Written, NInv, Types
  <2>2. CASE pass.item = "IV"
    BY <2>1, <2>2 DEF NInv, Types, StoredIv, StoredSeq
  <2>3. CASE pass.item = "Seq"
    BY <2>1, <2>3 DEF NInv, Types, StoredIv, StoredSeq
  <2> QED BY <1>1, <2>2, <2>3
<1>4. Types'
  <2>1. pass'.at \in 0 .. 2 /\ pass'.item # "IV" /\ pass'.item # "Seq"
    BY <1>2
  <2> QED BY <1>1, <1>2, <1>3, <2>1, Zenon DEF NInv, Types
<1>5. Covered'
  <2>1. StoredIv' = StoredIv /\ StoredSeq' = StoredSeq
    BY <1>2, <1>3 DEF StoredIv, StoredSeq
  <2> QED BY <1>1, <2>1 DEF NInv, Covered, TxIv, seq_set
<1>6. NoncesFresh'
  BY <1>1 DEF NInv, NoncesFresh, NextNonce, TxIv, Below
<1> QED BY <1>4, <1>5, <1>6 DEF NInv

LEMMA PassEndsKeeps == NInv /\ PassEnds => NInv'
<1> SUFFICES ASSUME NInv, PassEnds PROVE NInv'
  OBVIOUS
<1>1. /\ UNCHANGED <<node, pend, flash, last, cut>> /\ pass.item = "none"
      /\ pass' = [at |-> pass'.at, item |-> pass'.item, value |-> pass'.value]
      /\ pass'.at = 0 /\ pass'.item = "none"
  BY DEF PassEnds, Idle
<1>2. Types'
  <2>1. pass'.at \in 0 .. 2 /\ pass'.item # "IV" /\ pass'.item # "Seq"
    BY <1>1
  <2> QED BY <1>1, <2>1, Zenon DEF NInv, Types
<1>3. Covered'
  <2>1. StoredIv' = StoredIv /\ StoredSeq' = StoredSeq
    BY <1>1 DEF StoredIv, StoredSeq
  <2> QED BY <1>1, <2>1 DEF NInv, Covered, TxIv, seq_set
<1>4. NoncesFresh'
  BY <1>1 DEF NInv, NoncesFresh, NextNonce, TxIv, Below
<1> QED BY <1>2, <1>3, <1>4 DEF NInv

\* With nothing left to store, what a restart reads is Covered.
LEMMA RestartKeeps == NInv /\ Restart => NInv'
<1> SUFFICES ASSUME NInv, Restart PROVE NInv'
  OBVIOUS
<1>1. /\ UNCHANGED <<flash, last>> /\ pend' = {}
      /\ pass' = [at |-> pass'.at, item |-> pass'.item, value |-> pass'.value]
      /\ pass'.at = 0 /\ pass'.item = "none"
  BY DEF Restart, Idle
<1>2. flash.IV \in WSaved /\ flash.Seq \in Nat /\ flash \in [IV : WSaved, Seq : Nat]
  BY DEF NInv, Types
<1>3. seq_set(flash.Seq) \in Nat /\ flash.Seq <= seq_set(flash.Seq)
  BY <1>2, NextMultiple
<1>4. /\ node' \in WNode /\ node'.iv = flash.IV.iv /\ node'.prog = flash.IV.prog
      /\ node'.seq = seq_set(flash.Seq)
  <2>1. (flash.IV.dur < MIN_HOURS) \in BOOLEAN
    OBVIOUS
  <2>2. node' = [iv |-> flash.IV.iv, prog |-> flash.IV.prog, dur |-> flash.IV.dur,
                 timer |-> flash.IV.dur < MIN_HOURS, seq |-> seq_set(flash.Seq),
                 transfers |-> 0, deferred |-> FALSE]
    BY DEF Restart
  <2> QED BY <1>2, <1>3, <2>1, <2>2 DEF WNode, WSaved
<1>5. TxIv(node') = TxIv(flash.IV)
  BY <1>4, Zenon DEF TxIv
<1>6. cut' \in BOOLEAN /\ (~cut' => ~cut /\ pend = {} /\ pass.at = 0)
  <2>1. cut' = (cut \/ pend # {} \/ pass.at > 0) /\ pass.at \in 0 .. 2
    BY DEF Restart, NInv, Types
  <2>2. ~(pass.at > 0) => pass.at = 0
    BY <2>1
  <2>3. cut \in BOOLEAN /\ (pass.at > 0) \in BOOLEAN
    BY DEF NInv, Types
  <2> QED BY <2>1, <2>2, <2>3, Zenon
<1>7. Types'
  <2>1. pass'.at \in 0 .. 2 /\ pass'.item # "IV" /\ pass'.item # "Seq"
    BY <1>1
  <2>2. last' \in Int \X Nat /\ flash' \in [IV : WSaved, Seq : Nat]
    BY <1>1, <1>2 DEF NInv, Types
  <2> QED BY <1>1, <1>4, <1>6, <2>1, <2>2, Zenon DEF Types
<1>8. Covered'
  <2>1. StoredIv' = flash.IV /\ StoredSeq' = flash.Seq
    BY <1>1 DEF StoredIv, StoredSeq
  <2>2. TxIv(StoredIv)' = TxIv(node)'
    BY <1>5, <2>1, Zenon DEF TxIv
  <2>3. node'.seq <= seq_set(StoredSeq')
    BY <1>3, <1>4, <2>1
  <2> QED BY <2>2, <2>3 DEF Covered, seq_set
<1>9. ASSUME ~cut' PROVE Below(last, Sent(node'))
  <2>1. StoredIv = flash.IV /\ StoredSeq = flash.Seq
    BY <1>6, <1>9 DEF NInv, Types, StoredIv, StoredSeq
  <2>2. TxIv(node') = TxIv(node) /\ node.seq <= node'.seq
    BY <1>4, <1>5, <1>6, <1>9, <2>1 DEF NInv, Covered
  <2>3. Below(last, Sent(node)) /\ last \in Int \X Nat /\ node \in WNode
    BY <1>6, <1>9 DEF NInv, NoncesFresh, NextNonce, Sent, Types
  <2>4. AtMost(Sent(node), Sent(node'))
    <3>1. node.seq \in Nat /\ node'.seq \in Nat /\ TxIv(node) \in Int
      BY <1>4, <2>3, SentType
    <3>2. CASE node.seq = node'.seq
      BY <2>2, <3>2 DEF AtMost, Sent
    <3>3. CASE node.seq < node'.seq
      BY <2>2, <3>3, <1>4, <2>3, SentType DEF AtMost, Below
    <3> QED BY <2>2, <3>1, <3>2, <3>3
  <2> QED BY <1>4, <2>3, <2>4, SentType, BelowAtMost
<1>10. NoncesFresh'
  BY <1>1, <1>9 DEF NoncesFresh, NextNonce, Sent, TxIv
<1> QED BY <1>7, <1>8, <1>10 DEF NInv
LEMMA NextInv == NInv /\ [Next]_vars => NInv'
<1> SUFFICES ASSUME NInv, [Next]_vars PROVE NInv'
  OBVIOUS
<1>1. CASE \E iv \in 0 .. IV_MAX, upd \in BOOLEAN : beacon_recv(iv, upd)
  BY <1>1, BeaconKeeps
<1>2. CASE store_pending
  BY <1>2, TakeKeeps, WrittenKeeps, PassEndsKeeps DEF store_pending
<1>3. CASE UNCHANGED vars
  BY <1>3 DEF vars, NInv, Types, Covered, StoredIv, StoredSeq, NoncesFresh,
              NextNonce, TxIv, seq_set, Below
<1> QED BY <1>1, <1>2, <1>3, NextSeqKeeps, SegBeginKeeps, SegResetKeeps,
           RefreshKeeps, RestartKeeps DEF Next

\* A node never sends two messages with the same IV index and sequence number:
\* the next pair is above all used ones, for every store rate (seq_set) and for
\* any order of IV updates, transfers, stores and restarts, as long as no restart
\* comes before an item that schedule_store was asked for is written.
THEOREM NoncesNeverRepeat == Spec => []NoncesFresh
<1>1. NInv => NoncesFresh
  BY DEF NInv
<1> QED BY <1>1, InitInv, NextInv, PTL DEF Spec

----------------------------------------------------------------------------
(* Segmented transfers. *)

\* An update leaves the transfers alone, and while there are any it changes the
\* transmit index only by more than one.
LEMMA UpdateWaits ==
    ASSUME NEW n \in WNode, NEW iv \in Nat, NEW upd \in BOOLEAN,
           n.transfers > 0, net_iv_update(n, iv, upd).node.iv <= n.iv + 1
    PROVE  TxIv(net_iv_update(n, iv, upd).node) = TxIv(n)
<1>1. /\ TxIv(Refused(n).node) = TxIv(n)
      /\ TxIv(Refused([n EXCEPT !.deferred = TRUE]).node) = TxIv(n)
  BY DEF WNode, Refused, TxIv
<1>2. CASE n.prog
  BY <1>1, <1>2 DEF net_iv_update, Changed
<1>3. CASE ~n.prog /\ iv \in n.iv + 2 .. n.iv + 42
  <2>1. net_iv_update(n, iv, upd) = DoUpdate([n EXCEPT !.seq = 0], iv, upd)
    BY <1>3 DEF net_iv_update, WNode
  <2>2. [n EXCEPT !.seq = 0] \in WNode /\ n.iv \in Nat
    BY DEF WNode
  <2>3. net_iv_update(n, iv, upd).node.iv = iv
    BY <2>1, <2>2, DoUpdateFields
  <2> QED BY <1>3, <2>2, <2>3
<1>4. CASE ~n.prog /\ iv = n.iv + 1 /\ upd
  <2>1. net_iv_update(n, iv, upd) = Changed(n, iv, upd)
    BY <1>4 DEF net_iv_update, WNode
  <2>2. DoUpdate(n, iv, upd).node.iv = iv /\ DoUpdate(n, iv, upd).node.prog
    BY <1>4, DoUpdateFields
  <2>3. TxIv(DoUpdate(n, iv, upd).node) = iv - 1
    BY <2>2, Zenon DEF TxIv
  <2>4. iv - 1 = n.iv
    BY <1>4 DEF WNode
  <2>5. TxIv(n) = n.iv
    BY <1>4 DEF TxIv
  <2> QED BY <1>1, <1>4, <2>1, <2>3, <2>4, <2>5 DEF Changed
<1>5. CASE ~n.prog /\ ~(iv \in n.iv + 2 .. n.iv + 42) /\ ~(iv = n.iv + 1 /\ upd)
  BY <1>1, <1>5 DEF net_iv_update
<1> QED BY <1>2, <1>3, <1>4, <1>5 DEF WNode

\* The number of transfers after an update is the number before.
LEMMA UpdateTransfers ==
    ASSUME NEW n \in WNode, NEW iv \in Nat, NEW upd \in BOOLEAN
    PROVE  net_iv_update(n, iv, upd).node.transfers = n.transfers
<1>1. /\ Refused(n).node.transfers = n.transfers
      /\ Refused([n EXCEPT !.deferred = TRUE]).node.transfers = n.transfers
  BY DEF WNode, Refused
<1>2. DoUpdate(n, iv, upd).node.transfers = n.transfers
  BY DoUpdateFields
<1>3. DoUpdate([n EXCEPT !.seq = 0], iv, upd).node.transfers = n.transfers
  <2> DEFINE m == [n EXCEPT !.seq = 0]
  <2>1. m \in WNode /\ m.transfers = n.transfers
    BY DEF WNode
  <2> HIDE DEF m
  <2>2. DoUpdate(m, iv, upd).node.transfers = n.transfers
    BY <2>1, DoUpdateFields
  <2> QED BY <2>2 DEF m
<1>4. Changed(n, iv, upd).node.transfers = n.transfers
  BY <1>1, <1>2 DEF Changed
<1> QED BY <1>1, <1>3, <1>4 DEF net_iv_update, WNode
\* A restart is told from the other steps by the count of restarts.
LeftType == left \in [restarts : Nat, transfers : Nat]

LEMMA LeftInv == LeftType /\ [Next]_vars => LeftType'
<1> SUFFICES ASSUME LeftType, [Next]_vars PROVE LeftType'
  OBVIOUS
<1>1. CASE UNCHANGED left
  BY <1>1 DEF LeftType
<1>2. CASE SegBegin
  BY <1>2 DEF SegBegin, LeftType
<1>3. CASE Restart
  BY <1>3 DEF Restart, LeftType
<1> QED BY <1>1, <1>2, <1>3 DEF Next, next_seq, beacon_recv, seg_tx_reset, vars,
           ivu_refresh, store_pending, Take, Written, PassEnds

LEMMA StepKeepsIv == NInv /\ LeftType /\ [Next]_vars => [TransferStep]_vars
<1> SUFFICES ASSUME NInv, LeftType, Next,
                    node.transfers > 0, node'.transfers > 0,
                    node'.iv <= node.iv + 1, left'.restarts = left.restarts
             PROVE  TxIv(node') = TxIv(node)
  BY DEF TransferStep
<1>w. node \in WNode
  BY DEF NInv, Types
<1>1. CASE next_seq
  <2> DEFINE n == [node EXCEPT !.seq = @ + 1]
             start == ~n.prog /\ n.seq > SEQ_LIMIT /\ n.iv < IV_MAX
             r == IF start THEN net_iv_update(n, n.iv + 1, TRUE) ELSE Refused(n)
  <2>1. node' = r.node
    BY <1>1, Zenon DEF next_seq
  <2>2. n \in WNode /\ n.iv = node.iv /\ n.iv + 1 \in Nat
        /\ n.prog = node.prog /\ n.transfers = node.transfers
    BY <1>w DEF WNode
  <2> HIDE DEF n
  <2>3. TxIv(n) = TxIv(node)
    BY <2>2, Zenon DEF TxIv
  <2>4. CASE start
    BY <2>1, <2>2, <2>3, <2>4, UpdateWaits
  <2>5. CASE ~start
    BY <2>1, <2>2, <2>3, <2>5, RefusedGrown
  <2> QED BY <2>4, <2>5
<1>2. CASE \E iv \in 0 .. IV_MAX, upd \in BOOLEAN : beacon_recv(iv, upd)
  <2> PICK iv \in 0 .. IV_MAX, upd \in BOOLEAN : beacon_recv(iv, upd)
    BY <1>2
  <2>1. node' = net_iv_update(node, iv, upd).node /\ iv \in Nat
    BY DEF beacon_recv, Update
  <2> QED BY <1>w, <2>1, UpdateWaits
<1>3. CASE SegBegin
  BY <1>w, <1>3 DEF SegBegin, WNode, TxIv
<1>4. CASE seg_tx_reset
  <2> DEFINE n == [node EXCEPT !.transfers = @ - 1, !.deferred = FALSE]
             r == IF node.deferred THEN net_iv_update(n, n.iv, FALSE) ELSE Refused(n)
  <2>1. node' = r.node
    BY <1>4, Zenon DEF seg_tx_reset
  <2>2. node.transfers - 1 \in Nat
    BY <1>w DEF WNode
  <2>3. n \in WNode /\ n.iv = node.iv /\ n.iv \in Nat /\ n.prog = node.prog
    BY <1>w, <2>2 DEF WNode
  <2> HIDE DEF n
  <2>4. TxIv(n) = TxIv(node)
    BY <2>3, Zenon DEF TxIv
  <2>5. CASE node.deferred
    <3>1. n.transfers = node'.transfers
      BY <2>1, <2>3, <2>5, UpdateTransfers
    <3> QED BY <2>1, <2>3, <2>4, <2>5, <3>1, UpdateWaits
  <2>6. CASE ~node.deferred
    BY <2>1, <2>3, <2>4, <2>6, RefusedGrown
  <2> QED BY <2>5, <2>6
<1>5. CASE ivu_refresh
  <2> DEFINE n == [node EXCEPT !.dur = @ + 1, !.timer = node.dur + 1 < MIN_HOURS]
             end == n.dur >= MIN_HOURS /\ n.prog
             r == IF end THEN net_iv_update(n, n.iv, FALSE)
                  ELSE [node |-> n, store |-> {"IV"}]
  <2>1. node' = r.node
    BY <1>5, Zenon DEF ivu_refresh
  <2>2. node.dur + 1 \in Nat /\ (node.dur + 1 < MIN_HOURS) \in BOOLEAN
    BY <1>w DEF WNode
  <2>3. n \in WNode
    BY <1>w, <2>2, Zenon DEF WNode
  <2>4. n.iv = node.iv /\ n.iv \in Nat /\ n.prog = node.prog
        /\ n.transfers = node.transfers
    BY <1>w DEF WNode
  <2> HIDE DEF n
  <2>5. TxIv(n) = TxIv(node)
    BY <2>4, Zenon DEF TxIv
  <2>6. CASE end
    BY <2>1, <2>3, <2>4, <2>5, <2>6, UpdateWaits
  <2>7. CASE ~end
    BY <2>1, <2>5, <2>7
  <2> QED BY <2>6, <2>7
<1>6. CASE store_pending
  BY <1>6 DEF store_pending, Take, Written, PassEnds
<1>7. CASE Restart
  BY <1>7 DEF Restart, LeftType
<1> QED BY <1>1, <1>2, <1>3, <1>4, <1>5, <1>6, <1>7 DEF Next

\* A segmented transfer goes on with the IV index it began with, for every value
\* of the constants: bt_mesh_net_iv_update defers the return to normal operation
\* while bt_mesh_tx_in_progress, however many transfers overlap and whichever of
\* beacon, timer or seg_tx_reset asks for it.
THEOREM TransfersKeepIv == Spec => TransferKeepsIv
<1>1. Init => LeftType
  BY NetSeqAssumption DEF Init, LeftType
<1> QED BY <1>1, InitInv, NextInv, LeftInv, StepKeepsIv, PTL DEF Spec, TransferKeepsIv
=============================================================================

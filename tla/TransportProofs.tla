-------------------------- MODULE TransportProofs ---------------------------
(***************************************************************************)
(* Proofs about module Transport, for any number of messages, segments,    *)
(* contexts and attempts.                                                  *)
(***************************************************************************)
EXTENDS Transport, TLAPS

-----------------------------------------------------------------------------
(* The inductive invariants.                                               *)

Context == [msg : 0 .. MESSAGES, nack : SUBSET Segs, pending : 0 .. 255,
            attempts : Int, blocked : BOOLEAN, sending : BOOLEAN, timer : BOOLEAN]
Contexts == [Ctxs -> Context]
Caller == [at : {"returned", "found", "loop", "checked"}, msg : 0 .. MESSAGES,
           ctx : Ctxs, blocked : BOOLEAN, seg_o : Segs]
Queued == [ctx : Ctxs, msg : Msgs, seg : Segs, sending : BOOLEAN]
OnAir == [msg : Msgs, seg : Segs]
Receiver == [msg : 0 .. MESSAGES, block : SUBSET Segs, in_use : BOOLEAN, timer : BOOLEAN]

\* A context has a message as long as it has segments.
InUse(t) == \A c \in Ctxs : /\ t[c].nack = {} <=> t[c].msg = 0
                            /\ t[c].nack = {} => ~t[c].blocked

Typed ==
    /\ caller \in Caller /\ (caller.at = "found" => caller.msg \in Msgs)
    /\ tx \in Contexts /\ InUse(tx)
    /\ adv \in Seq(Queued) /\ air \in Seq(OnAir)
    /\ acks \subseteq [msg : Msgs, block : SUBSET Segs]
    /\ rx \in Receiver /\ (rx.in_use => rx.block # Segs)
    /\ (rx.timer \/ rx.in_use => rx.msg # 0)
    /\ delivered \in Seq(Msgs)
    /\ ended \in [Msgs -> {"not yet", "ok", "timeout", "busy"}]
    /\ mishaps \subseteq {"stale", "late", "missed", "evicted"}

\* What has been passed on is older than the message of the receiver's context,
\* or it is that message and the context remembers that it is complete.
InOrderInv ==
    "evicted" \notin mishaps =>
      /\ \A i, j \in DOMAIN delivered : i < j => delivered[i] < delivered[j]
      /\ \A i \in DOMAIN delivered :
           \/ delivered[i] < rx.msg
           \/ delivered[i] = rx.msg /\ rx.block = Segs

-----------------------------------------------------------------------------
(* The operators.                                                          *)

\* What is needed of numbers, and is proved at the end of the module: the first of some
\* contexts or messages (Min), and the segments that are sent again (InOrder).
NumberFacts ==
    /\ \A S \in SUBSET Nat : S # {} => Min(S) \in S /\ \A y \in S : Min(S) <= y
    /\ \A S \in SUBSET Segs :
         Cardinality(S) \in Nat /\ InOrder(S) \in [1 .. Cardinality(S) -> S]

\* Min of a set of numbers is the least.
LEMMA MinIn ==
    ASSUME NumberFacts, NEW S \in SUBSET Nat, S # {}
    PROVE  Min(S) \in S /\ \A y \in S : Min(S) <= y
BY Zenon DEF NumberFacts

\* InOrder lists the segments.
LEMMA InOrderFacts ==
    ASSUME NumberFacts, NEW S \in SUBSET Segs
    PROVE  /\ Cardinality(S) \in Nat
           /\ InOrder(S) \in [1 .. Cardinality(S) -> S]
BY Zenon DEF NumberFacts

\* The constants.
LEMMA Constants ==
    /\ MESSAGES \in Nat /\ SEG_N \in Nat /\ CONTEXTS \in Nat \ {0} /\ ATTEMPTS \in Nat
    /\ Segs # {} /\ Segs \in SUBSET Nat
    /\ 0 \in Segs /\ SEG_N \in Segs /\ 1 \in Ctxs /\ Ctxs \in SUBSET Nat
    /\ \A m \in Msgs : m \in Nat /\ m # 0 /\ m \in 0 .. MESSAGES
    /\ \A m \in 0 .. MESSAGES : m \in Nat /\ (m # 0 => m \in Msgs)
<1>1. /\ MESSAGES \in Nat /\ SEG_N \in Nat /\ CONTEXTS \in Nat \ {0} /\ ATTEMPTS \in Nat
  BY TransportAssumption, Zenon
<1> QED BY <1>1 DEF Segs, Ctxs, Msgs

\* The fields of a context.
LEMMA ContextFields ==
    ASSUME NEW t \in Contexts, NEW c \in Ctxs
    PROVE  /\ t[c] \in Context
           /\ t[c].msg \in 0 .. MESSAGES /\ t[c].nack \in SUBSET Segs
           /\ t[c].pending \in 0 .. 255 /\ t[c].attempts \in Int
           /\ t[c].blocked \in BOOLEAN /\ t[c].sending \in BOOLEAN
           /\ t[c].timer \in BOOLEAN /\ t[c].pending \in Nat
BY DEF Contexts, Context

\* Of all contexts only c changes between t and u, and it keeps its message.
Touched(t, u, c) ==
    /\ u \in Contexts
    /\ \A d \in Ctxs : /\ u[d].msg = t[d].msg /\ u[d].blocked = t[d].blocked
                       /\ u[d].nack \subseteq t[d].nack
                       /\ u[d].nack = {} <=> t[d].nack = {}
                       /\ d # c => u[d] = t[d]

\* The message of c ends; the oldest of those that wait for it may be sent.
Completed(t, u, c) ==
    /\ u \in Contexts
    /\ u[c].msg = 0 /\ u[c].nack = {} /\ ~u[c].blocked /\ ~u[c].timer
    /\ \A d \in Ctxs \ {c} :
         /\ u[d].msg = t[d].msg /\ u[d].nack = t[d].nack /\ u[d].pending = t[d].pending
         /\ u[d].blocked => t[d].blocked /\ u[d].timer = t[d].timer
         /\ t[d].blocked /\ ~u[d].blocked =>
              \A e \in Ctxs \ {c} : t[e].blocked => t[d].msg <= t[e].msg
         /\ t[d].blocked /\ u[d].blocked =>
              \E e \in Ctxs \ {c} : t[e].blocked /\ ~u[e].blocked /\ t[e].msg # t[d].msg

\* Touched and Completed only look at the message, the segments and the flags.
LEMMA TouchedTouched ==
    ASSUME NEW t, NEW u, NEW v, NEW c \in Ctxs, Touched(t, u, c), Touched(u, v, c)
    PROVE  Touched(t, v, c)
BY Zenon DEF Touched

\* A context that is written and then given up is given up.
LEMMA TouchedCompleted ==
    ASSUME NEW t, NEW u, NEW v, NEW c \in Ctxs, Touched(t, u, c), Completed(u, v, c)
    PROVE  Completed(t, v, c)
BY DEF Touched, Completed

\* What seg_tx_complete does.
LEMMA CompleteFacts ==
    ASSUME NumberFacts, NEW t \in Contexts, NEW c \in Ctxs
    PROVE  Completed(t, seg_tx_complete(t, c), c)
<1> DEFINE B == {t[d].msg : d \in {d \in Ctxs \ {c} : t[d].blocked}}
<1> DEFINE v(d) == IF d = c THEN [Free EXCEPT !.sending = t[c].sending]
                   ELSE IF t[d].blocked /\ t[d].msg = Min(B)
                        THEN [t[d] EXCEPT !.blocked = FALSE, !.timer = TRUE]
                   ELSE t[d]
<1> DEFINE u == [d \in Ctxs |-> v(d)]
<1>1. u = seg_tx_complete(t, c)
  BY Zenon DEF seg_tx_complete
<1>2. /\ v(c) \in Context /\ v(c).msg = 0 /\ v(c).nack = {} /\ v(c).blocked = FALSE
      /\ v(c).timer = FALSE
  <2>1. v(c) = [msg |-> 0, nack |-> {}, pending |-> 0, attempts |-> 0,
                blocked |-> FALSE, sending |-> t[c].sending, timer |-> FALSE]
    BY Zenon DEF Free
  <2> HIDE DEF v
  <2> QED BY <2>1, ContextFields, Constants DEF Context
<1>3. ASSUME NEW d \in Ctxs \ {c}
      PROVE  /\ v(d) \in Context /\ v(d).msg = t[d].msg /\ v(d).nack = t[d].nack
             /\ v(d).pending = t[d].pending
             /\ t[d].blocked /\ t[d].msg = Min(B) => v(d).blocked = FALSE
             /\ ~(t[d].blocked /\ t[d].msg = Min(B)) => v(d) = t[d]
  <2>1. t[d] \in Context
    BY ContextFields, Zenon
  <2>2. CASE t[d].blocked /\ t[d].msg = Min(B)
    <3>1. v(d) = [t[d] EXCEPT !.blocked = FALSE, !.timer = TRUE]
      BY <2>2, Zenon
    <3> HIDE DEF v
    <3> QED BY <2>1, <2>2, <3>1, ZenonT(40) DEF Context
  <2>3. CASE ~(t[d].blocked /\ t[d].msg = Min(B))
    <3>1. v(d) = t[d]
      BY <2>3, Zenon
    <3> QED BY <2>1, <2>3, <3>1, Zenon
  <2> QED BY <2>2, <2>3, Zenon
<1>4. B \in SUBSET Nat
  BY ContextFields, Constants, ZenonT(40)
<1>5. ASSUME NEW d \in Ctxs \ {c}, t[d].blocked
      PROVE  /\ Min(B) <= t[d].msg
             /\ \E e \in Ctxs \ {c} : t[e].blocked /\ t[e].msg = Min(B)
  <2>1. t[d].msg \in B
    BY <1>5, Zenon
  <2> HIDE DEF B
  <2>2. Min(B) \in B /\ \A y \in B : Min(B) <= y
    BY <1>4, <2>1, MinIn, Zenon
  <2> QED BY <2>1, <2>2, Zenon DEF B
<1> HIDE DEF v, B
<1>6. u \in Contexts
  BY <1>2, <1>3, Zenon DEF Contexts
<1>7. \A d \in Ctxs : u[d] = v(d)
  BY Zenon
<1> HIDE DEF u
<1>8. ASSUME NEW d \in Ctxs \ {c}
      PROVE  /\ u[d].msg = t[d].msg /\ u[d].nack = t[d].nack /\ u[d].pending = t[d].pending
             /\ u[d].blocked => t[d].blocked /\ u[d].timer = t[d].timer
             /\ t[d].blocked /\ ~u[d].blocked =>
                  \A e \in Ctxs \ {c} : t[e].blocked => t[d].msg <= t[e].msg
             /\ t[d].blocked /\ u[d].blocked =>
                  \E e \in Ctxs \ {c} : t[e].blocked /\ ~u[e].blocked /\ t[e].msg # t[d].msg
  <2>1. CASE t[d].blocked /\ t[d].msg = Min(B)
    BY <1>3, <1>5, <1>7, <2>1, Zenon
  <2>2. CASE ~(t[d].blocked /\ t[d].msg = Min(B))
    <3>1. u[d] = t[d]
      BY <1>3, <1>7, <2>2, Zenon
    <3>2. ASSUME t[d].blocked
          PROVE  \E e \in Ctxs \ {c} : t[e].blocked /\ ~u[e].blocked /\ t[e].msg # t[d].msg
      <4>1. PICK e \in Ctxs \ {c} : t[e].blocked /\ t[e].msg = Min(B)
        BY <1>5, <3>2, Zenon
      <4>2. u[e].blocked = FALSE
        BY <1>3, <1>7, <4>1, Zenon
      <4> QED BY <2>2, <3>2, <4>1, <4>2, Zenon
    <3> QED BY <3>1, <3>2, Zenon
  <2> QED BY <2>1, <2>2, Zenon
<1> QED BY <1>1, <1>2, <1>6, <1>7, <1>8, Zenon DEF Completed

\* A context that is written and keeps its message.
Write(t, c, r) == [t EXCEPT ![c] = r]

\* Only the context that is written changes.
LEMMA WriteFacts ==
    ASSUME NEW t \in Contexts, NEW c \in Ctxs, NEW r \in Context
    PROVE  /\ Write(t, c, r) \in Contexts /\ Write(t, c, r)[c] = r
           /\ \A d \in Ctxs : d # c => Write(t, c, r)[d] = t[d]
BY Zenon DEF Contexts, Write

\* A context that is written and keeps its message has been touched only.
LEMMA TouchFacts ==
    ASSUME NEW t \in Contexts, NEW c \in Ctxs, NEW r \in Context,
           r.msg = t[c].msg, r.blocked = t[c].blocked, r.nack \subseteq t[c].nack,
           (r.nack = {}) <=> (t[c].nack = {})
    PROVE  Touched(t, Write(t, c, r), c) /\ Write(t, c, r)[c] = r
BY WriteFacts DEF Touched

\* The context after its segments have been queued once more.
Again(k, pending) ==
    [k EXCEPT !.pending = pending, !.attempts = @ - 1, !.sending = FALSE,
              !.timer = @ \/ pending = 0]

\* A context whose segments go to the advertiser again keeps its message.
LEMMA Resent ==
    ASSUME NEW k \in Context, NEW p \in 0 .. 255
    PROVE  /\ Again(k, p) \in Context /\ Again(k, p).msg = k.msg
           /\ Again(k, p).blocked = k.blocked /\ Again(k, p).nack = k.nack
<1> DEFINE a == k.attempts - 1
<1> DEFINE b == k.timer \/ p = 0
<1>1. Again(k, p) = [k EXCEPT !.pending = p, !.attempts = a, !.sending = FALSE, !.timer = b]
  BY Zenon DEF Context, Again
<1>2. a \in Int /\ b \in BOOLEAN
  BY DEF Context
<1> HIDE DEF a, b
<1>3. Again(k, p) = [msg |-> k.msg, nack |-> k.nack, pending |-> p, attempts |-> a,
                     blocked |-> k.blocked, sending |-> FALSE, timer |-> b]
  BY <1>1, Zenon DEF Context
<1>4. /\ k.msg \in 0 .. MESSAGES /\ k.nack \in SUBSET Segs /\ k.blocked \in BOOLEAN
  BY Zenon DEF Context
<1> QED BY <1>2, <1>3, <1>4 DEF Context

\* A counter of one byte.
LEMMA Byte == \A x \in Int : x % 256 \in 0 .. 255
OBVIOUS

\* adv' is adv with buffers of context c for message m behind it.
Queues(c, m) ==
    /\ adv' \in Seq(Queued)
    /\ \A i \in DOMAIN adv' : \/ i \in DOMAIN adv /\ adv'[i] = adv[i]
                              \/ adv'[i].ctx = c /\ adv'[i].msg = m

\* What seg_tx_send_unacked does: the message has failed, or its segments are in
\* the queue once more.
LEMMA UnackedFacts ==
    ASSUME NumberFacts, NEW t \in Contexts, InUse(t), NEW c \in Ctxs, t[c].nack # {},
           adv \in Seq(Queued), seg_tx_send_unacked(t, c)
    PROVE  \/ /\ Completed(t, tx', c) /\ UNCHANGED adv
              /\ ended' = [ended EXCEPT ![t[c].msg] = "timeout"]
           \/ /\ Touched(t, tx', c) /\ tx'[c].nack = t[c].nack
              /\ Queues(c, t[c].msg) /\ UNCHANGED ended
<1> DEFINE again == InOrder(t[c].nack)
<1> DEFINE n == Cardinality(t[c].nack)
<1> DEFINE pending == (t[c].pending + Len(again)) % 256
<1>1. CASE t[c].attempts = 0
  <2>1. /\ tx' = seg_tx_complete(t, c) /\ UNCHANGED adv
        /\ ended' = [ended EXCEPT ![t[c].msg] = "timeout"]
    BY <1>1, Zenon DEF seg_tx_send_unacked
  <2> QED BY <2>1, CompleteFacts, Zenon
<1>2. CASE t[c].attempts # 0
  <2>0. t[c] \in Context /\ t[c].msg \in Msgs
    BY ContextFields, Constants DEF InUse
  <2>10. t[c].pending \in Nat
    BY ContextFields, Zenon
  <2>1. n \in Nat /\ again \in [1 .. n -> t[c].nack]
    <3>1. t[c].nack \in SUBSET Segs
      BY ContextFields, Zenon
    <3> QED BY <3>1, InOrderFacts, Zenon
  <2> DEFINE more == [i \in DOMAIN again |-> Buffer(c, t[c].msg, again[i])]
  <2>2. /\ adv' = adv \o more /\ UNCHANGED ended
        /\ tx' = [t EXCEPT ![c].pending = pending, ![c].attempts = @ - 1,
                           ![c].sending = FALSE, ![c].timer = @ \/ pending = 0]
    BY <1>2, Zenon DEF seg_tx_send_unacked
  <2>3. Len(again) \in Nat /\ DOMAIN again = 1 .. n /\ pending \in 0 .. 255
    <3>1. again \in Seq(t[c].nack) /\ DOMAIN again = 1 .. n
      BY <2>1
    <3>2. Len(again) \in Nat
      BY <3>1
    <3> HIDE DEF again
    <3>3. t[c].pending + Len(again) \in Int
      BY <2>10, <3>2
    <3> QED BY <3>1, <3>2, <3>3, Byte, Zenon
  <2>4. ASSUME NEW i \in 1 .. n
        PROVE  /\ Buffer(c, t[c].msg, again[i]) \in Queued
               /\ Buffer(c, t[c].msg, again[i]).ctx = c
               /\ Buffer(c, t[c].msg, again[i]).msg = t[c].msg
    <3>1. again[i] \in Segs
      BY <2>1, ContextFields
    <3> HIDE DEF again
    <3> QED BY <2>0, <3>1, Zenon DEF Buffer, Queued
  <2> HIDE DEF again
  <2>5. /\ more \in Seq(Queued) /\ Len(more) = n
        /\ \A i \in 1 .. n : more[i].ctx = c /\ more[i].msg = t[c].msg
    <3>1. more \in [1 .. n -> Queued]
      BY <2>3, <2>4, Zenon
    <3>2. \A i \in 1 .. n : more[i].ctx = c /\ more[i].msg = t[c].msg
      BY <2>3, <2>4, Zenon
    <3> HIDE DEF more, n
    <3>3. more \in Seq(Queued) /\ DOMAIN more = 1 .. n
      BY <2>1, <3>1
    <3> QED BY <2>1, <3>2, <3>3
  <2> HIDE DEF more, n, pending
  <2>6. Queues(c, t[c].msg)
    <3>1. adv' \in Seq(Queued) /\ Len(adv') = Len(adv) + n /\ Len(adv) \in Nat
      BY <2>1, <2>2, <2>5
    <3>2. \A i \in 1 .. Len(adv) + n :
            adv'[i] = IF i <= Len(adv) THEN adv[i] ELSE more[i - Len(adv)]
      BY <2>2, <2>5
    <3>3. DOMAIN adv' = 1 .. Len(adv) + n /\ DOMAIN adv = 1 .. Len(adv)
      BY <3>1
    <3>4. ASSUME NEW i \in DOMAIN adv'
          PROVE  \/ i \in DOMAIN adv /\ adv'[i] = adv[i]
                 \/ adv'[i].ctx = c /\ adv'[i].msg = t[c].msg
      <4>1. CASE i <= Len(adv)
        BY <3>1, <3>2, <3>3, <4>1
      <4>2. CASE ~(i <= Len(adv))
        <5>1. i - Len(adv) \in 1 .. n /\ adv'[i] = more[i - Len(adv)]
          BY <2>1, <3>1, <3>2, <3>3, <4>2
        <5> QED BY <2>5, <5>1, Zenon
      <4> QED BY <4>1, <4>2, Zenon
    <3> QED BY <3>1, <3>4, Zenon DEF Queues
  <2> DEFINE r == Again(t[c], pending)
  <2>7. tx' = Write(t, c, r)
    BY <2>2, Zenon DEF Contexts, Write, Again
  <2>8. r \in Context /\ r.msg = t[c].msg /\ r.blocked = t[c].blocked /\ r.nack = t[c].nack
    BY <2>0, <2>3, Resent, ZenonT(40)
  <2> HIDE DEF r
  <2>9. Touched(t, tx', c) /\ tx'[c] = r
    BY <2>7, <2>8, TouchFacts, Zenon
  <2> QED BY <2>2, <2>6, <2>8, <2>9, Zenon
<1> QED BY <1>1, <1>2, Zenon

\* What a step of the sender does to the context c and to the queue, and to what
\* is known of its message: it goes on, or it ends with result r.
GoesOn(c) ==
    Touched(tx, tx', c) /\ Queues(c, tx[c].msg) /\ UNCHANGED ended

EndsWith(c, r) ==
    /\ tx[c].nack # {} /\ Completed(tx, tx', c) /\ UNCHANGED adv
    /\ ended' = [ended EXCEPT ![tx[c].msg] = r]

\* An unchanged queue.
LEMMA QueuesNothing ==
    ASSUME adv \in Seq(Queued), UNCHANGED adv, NEW c, NEW m
    PROVE  Queues(c, m)
BY Zenon DEF Queues

\* What seg_retransmit does.
LEMMA RetransmitFacts ==
    ASSUME NumberFacts, Typed, NEW c \in Ctxs, seg_retransmit(c)
    PROVE  /\ tx[c].timer
           /\ (GoesOn(c) /\ tx'[c].nack = tx[c].nack) \/ EndsWith(c, "timeout")
<1> DEFINE r == [tx[c] EXCEPT !.timer = FALSE]
<1> DEFINE t == Write(tx, c, r)
<1>1. /\ tx[c].timer
      /\ IF tx[c].nack = {} THEN tx' = t /\ UNCHANGED <<adv, ended>>
         ELSE seg_tx_send_unacked(t, c)
  <2>1. t = [tx EXCEPT ![c].timer = FALSE]
    BY Zenon DEF Typed, Contexts, Write
  <2> QED BY <2>1, Zenon DEF seg_retransmit
<1>2. r \in Context /\ r.msg = tx[c].msg /\ r.blocked = tx[c].blocked /\ r.nack = tx[c].nack
  <2>1. tx[c] \in Context
    BY ContextFields, Zenon DEF Typed
  <2> QED BY <2>1, Zenon DEF Context
<1> HIDE DEF r
<1>3. Touched(tx, t, c) /\ t[c] = r
  <2>1. tx \in Contexts
    BY Zenon DEF Typed
  <2> QED BY <1>2, <2>1, TouchFacts, Zenon
<1>4. t \in Contexts /\ InUse(t)
  BY <1>3, Zenon DEF Touched, InUse, Typed
<1> HIDE DEF t
<1>5. CASE tx[c].nack = {}
  BY <1>1, <1>2, <1>3, <1>5, QueuesNothing, Zenon DEF GoesOn, Typed
<1>6. CASE tx[c].nack # {}
  <2>1. \/ /\ Completed(t, tx', c) /\ UNCHANGED adv
           /\ ended' = [ended EXCEPT ![t[c].msg] = "timeout"]
        \/ /\ Touched(t, tx', c) /\ tx'[c].nack = t[c].nack
           /\ Queues(c, t[c].msg) /\ UNCHANGED ended
    BY <1>1, <1>2, <1>3, <1>4, <1>6, UnackedFacts, Zenon DEF Typed
  <2> QED BY <1>1, <1>2, <1>3, <1>6, <2>1, TouchedTouched, TouchedCompleted, Zenon
          DEF GoesOn, EndsWith
<1> QED BY <1>5, <1>6, Zenon

\* Completed looks at the other contexts only.
LEMMA CompletedOthers ==
    ASSUME NEW t, NEW u, NEW v, NEW c \in Ctxs, \A d \in Ctxs \ {c} : u[d] = t[d],
           Completed(u, v, c)
    PROVE  Completed(t, v, c)
BY DEF Completed

\* The context after an acknowledgement of the segments in block.
Acked(k, block) == [k EXCEPT !.nack = @ \ block, !.timer = FALSE]

\* A context that is acknowledged in part keeps its message.
LEMMA AckedFacts ==
    ASSUME NEW k \in Context, NEW block
    PROVE  /\ Acked(k, block) \in Context /\ Acked(k, block).msg = k.msg
           /\ Acked(k, block).blocked = k.blocked
           /\ Acked(k, block).nack = k.nack \ block
<1> DEFINE n == k.nack \ block
<1>1. Acked(k, block) = [k EXCEPT !.nack = n, !.timer = FALSE]
  BY Zenon DEF Context, Acked
<1>2. n \in SUBSET Segs
  BY Zenon DEF Context
<1> HIDE DEF n
<1>3. Acked(k, block) \in Context /\ Acked(k, block).msg = k.msg
      /\ Acked(k, block).blocked = k.blocked /\ Acked(k, block).nack = n
  <2>1. Acked(k, block) = [msg |-> k.msg, nack |-> n, pending |-> k.pending,
                           attempts |-> k.attempts, blocked |-> k.blocked,
                           sending |-> k.sending, timer |-> FALSE]
    BY <1>1, Zenon DEF Context
  <2>2. /\ k.msg \in 0 .. MESSAGES /\ k.pending \in 0 .. 255 /\ k.attempts \in Int
        /\ k.blocked \in BOOLEAN /\ k.sending \in BOOLEAN
    BY Zenon DEF Context
  <2> QED BY <1>2, <2>1, <2>2 DEF Context
<1> QED BY <1>3, Zenon DEF n

\* What trans_ack does.
LEMMA TransAckFacts ==
    ASSUME NumberFacts, Typed, NEW a \in acks, trans_ack(a)
    PROVE  \/ UNCHANGED <<tx, adv, ended>>
           \/ \E c \in Ctxs :
                /\ tx[c].msg = a.msg /\ tx[c].nack # {}
                /\ \/ GoesOn(c) /\ tx'[c].nack = tx[c].nack \ a.block
                   \/ EndsWith(c, "timeout")
                   \/ EndsWith(c, "ok") /\ tx[c].nack \subseteq a.block
<1> DEFINE match == seg_tx_lookup(a.msg)
<1>1. CASE match = {}
  BY <1>1, Zenon DEF trans_ack
<1>2. CASE match # {}
  <2> DEFINE c == Min(match)
  <2>1. c \in Ctxs /\ tx[c].msg = a.msg
    <3>1. match \in SUBSET Nat /\ match \in SUBSET Ctxs /\ \A d \in match : tx[d].msg = a.msg
      BY Constants, Zenon DEF seg_tx_lookup
    <3> HIDE DEF match
    <3> QED BY <1>2, <3>1, MinIn, Zenon
  <2> DEFINE r == Acked(tx[c], a.block)
  <2> DEFINE t == Write(tx, c, r)
  <2>2. IF t[c].nack # {} THEN seg_tx_send_unacked(t, c)
        ELSE /\ tx' = seg_tx_complete(t, c)
             /\ ended' = [ended EXCEPT ![tx[c].msg] = "ok"]
             /\ UNCHANGED adv
    <3>1. t = [tx EXCEPT ![c].nack = @ \ a.block, ![c].timer = FALSE]
      BY Zenon DEF Typed, Contexts, Write, Acked
    <3> QED BY <1>2, <3>1, Zenon DEF trans_ack
  <2> HIDE DEF c, match
  <2>3. tx \in Contexts /\ tx[c] \in Context /\ tx[c].nack # {} /\ a.msg \in Msgs
    BY <2>1, ContextFields, Constants, Zenon DEF Typed, InUse
  <2>4. /\ r \in Context /\ r.msg = tx[c].msg /\ r.blocked = tx[c].blocked
        /\ r.nack = tx[c].nack \ a.block
    BY <2>3, AckedFacts, Zenon
  <2> HIDE DEF r
  <2>5. t \in Contexts /\ t[c] = r /\ \A d \in Ctxs \ {c} : t[d] = tx[d]
    BY <2>1, <2>3, <2>4, WriteFacts
  <2>6. CASE r.nack # {}
    <3>1. Touched(tx, t, c)
      BY <2>1, <2>3, <2>4, <2>6, TouchFacts, Zenon
    <3> HIDE DEF t
    <3>2. InUse(t)
      BY <3>1, Zenon DEF Touched, InUse, Typed
    <3>3. \/ /\ Completed(t, tx', c) /\ UNCHANGED adv
             /\ ended' = [ended EXCEPT ![t[c].msg] = "timeout"]
          \/ /\ Touched(t, tx', c) /\ tx'[c].nack = t[c].nack
             /\ Queues(c, t[c].msg) /\ UNCHANGED ended
      BY <2>1, <2>2, <2>5, <2>6, <3>2, UnackedFacts, Zenon DEF Typed
    <3>4. CASE Completed(t, tx', c) /\ UNCHANGED adv
               /\ ended' = [ended EXCEPT ![t[c].msg] = "timeout"]
      <4>1. EndsWith(c, "timeout")
        BY <2>1, <2>3, <2>4, <2>5, <3>1, <3>4, TouchedCompleted, Zenon DEF EndsWith
      <4> QED BY <2>1, <2>3, <4>1, Zenon
    <3>5. CASE /\ Touched(t, tx', c) /\ tx'[c].nack = t[c].nack
               /\ Queues(c, t[c].msg) /\ UNCHANGED ended
      <4>1. GoesOn(c)
        BY <2>1, <2>4, <2>5, <3>1, <3>5, TouchedTouched, Zenon DEF GoesOn
      <4> QED BY <2>1, <2>3, <2>4, <2>5, <3>5, <4>1, Zenon
    <3> QED BY <3>3, <3>4, <3>5, Zenon
  <2>7. CASE r.nack = {}
    <3> HIDE DEF t
    <3>1. Completed(t, tx', c) /\ ended' = [ended EXCEPT ![tx[c].msg] = "ok"] /\ UNCHANGED adv
      BY <2>1, <2>2, <2>5, <2>7, CompleteFacts, Zenon
    <3>2. Completed(tx, tx', c)
      BY <2>1, <2>5, <3>1, CompletedOthers, Zenon
    <3>3. EndsWith(c, "ok") /\ tx[c].nack \subseteq a.block
      BY <2>3, <2>4, <2>7, <3>1, <3>2, Zenon DEF EndsWith
    <3> QED BY <2>1, <2>3, <3>3, Zenon
  <2> QED BY <2>6, <2>7, Zenon
<1> QED BY <1>1, <1>2, Zenon

\* The context after main has queued a segment, and after the last one.
Counted(k, p) == [k EXCEPT !.pending = p]
LastCounted(k, p) == [k EXCEPT !.pending = p, !.attempts = @ - 1, !.timer = (p = 0)]
NotSending(k) == [k EXCEPT !.sending = FALSE]

\* Counting a segment keeps the message of the context.
LEMMA CountedFacts ==
    ASSUME NEW k \in Context, NEW p \in 0 .. 255
    PROVE  /\ Counted(k, p) \in Context /\ Counted(k, p).msg = k.msg
           /\ Counted(k, p).blocked = k.blocked /\ Counted(k, p).nack = k.nack
           /\ LastCounted(k, p) \in Context /\ LastCounted(k, p).msg = k.msg
           /\ LastCounted(k, p).blocked = k.blocked /\ LastCounted(k, p).nack = k.nack
           /\ NotSending(k) \in Context /\ NotSending(k).msg = k.msg
           /\ NotSending(k).blocked = k.blocked /\ NotSending(k).nack = k.nack
<1>1. /\ Counted(k, p) \in Context /\ Counted(k, p).msg = k.msg
      /\ Counted(k, p).blocked = k.blocked /\ Counted(k, p).nack = k.nack
  BY Zenon DEF Context, Counted
<1>2. /\ LastCounted(k, p) \in Context /\ LastCounted(k, p).msg = k.msg
      /\ LastCounted(k, p).blocked = k.blocked /\ LastCounted(k, p).nack = k.nack
  <2> DEFINE a == k.attempts - 1
  <2> DEFINE b == (p = 0)
  <2>1. LastCounted(k, p) = [k EXCEPT !.pending = p, !.attempts = a, !.timer = b]
    BY Zenon DEF Context, LastCounted
  <2>2. a \in Int /\ b \in BOOLEAN
    BY DEF Context
  <2> HIDE DEF a, b
  <2>3. LastCounted(k, p) = [msg |-> k.msg, nack |-> k.nack, pending |-> p, attempts |-> a,
                             blocked |-> k.blocked, sending |-> k.sending, timer |-> b]
    BY <2>1, Zenon DEF Context
  <2>4. /\ k.msg \in 0 .. MESSAGES /\ k.nack \in SUBSET Segs /\ k.blocked \in BOOLEAN
        /\ k.sending \in BOOLEAN
    BY Zenon DEF Context
  <2> QED BY <2>2, <2>3, <2>4 DEF Context
<1>3. /\ NotSending(k) \in Context /\ NotSending(k).msg = k.msg
      /\ NotSending(k).blocked = k.blocked /\ NotSending(k).nack = k.nack
  BY ZenonT(40) DEF Context, NotSending
<1> QED BY <1>1, <1>2, <1>3, Zenon

\* What the loop of main does.
LEMMA LoopFacts ==
    ASSUME Typed, Loop
    PROVE  LET c == caller.ctx IN
           /\ c \in Ctxs /\ GoesOn(c) /\ tx'[c].nack = tx[c].nack
           /\ caller.at = "loop" /\ caller' \in Caller
           /\ caller'.at \in {"loop", "checked"} /\ caller'.ctx = c
<1> DEFINE c == caller.ctx
<1> DEFINE o == caller.seg_o
<1> DEFINE sends == o \in tx[c].nack
<1> DEFINE p == (tx[c].pending + IF sends THEN 1 ELSE 0) % 256
<1>1. /\ caller.at = "loop" /\ UNCHANGED ended
      /\ adv' = IF sends THEN Append(adv, Buffer(c, tx[c].msg, o)) ELSE adv
      /\ IF o < SEG_N
         THEN /\ tx' = [tx EXCEPT ![c].pending = p]
              /\ caller' = [caller EXCEPT !.seg_o = o + 1]
         ELSE /\ tx' = [tx EXCEPT ![c].pending = p, ![c].attempts = @ - 1,
                                  ![c].timer = (p = 0)]
              /\ caller' = [caller EXCEPT !.at = "checked"]
  BY Zenon DEF Loop
<1>2. c \in Ctxs /\ o \in Segs /\ caller \in Caller /\ tx \in Contexts
  BY ZenonT(40) DEF Typed, Caller
<1> HIDE DEF c, o
<1>3. tx[c] \in Context /\ p \in 0 .. 255
  <2>1. tx[c].pending \in Nat /\ tx[c] \in Context
    BY <1>2, ContextFields, Zenon
  <2>2. tx[c].pending + (IF sends THEN 1 ELSE 0) \in Int
    BY <2>1
  <2> QED BY <2>1, <2>2, Byte, ZenonT(40)
<1>4. sends => tx[c].msg \in Msgs
  BY <1>2, ContextFields, Constants, Zenon DEF Typed, InUse
<1>5. Queues(c, tx[c].msg)
  <2>1. CASE ~sends
    BY <1>1, <2>1, QueuesNothing, Zenon DEF Typed
  <2>2. CASE sends
    <3> DEFINE b == Buffer(c, tx[c].msg, o)
    <3>1. b \in Queued /\ b.ctx = c /\ b.msg = tx[c].msg
      BY <1>2, <1>4, <2>2, Zenon DEF Buffer, Queued
    <3>2. adv' = Append(adv, b) /\ adv \in Seq(Queued)
      BY <1>1, <2>2, Zenon DEF Typed
    <3> HIDE DEF b
    <3> QED BY <3>1, <3>2 DEF Queues
  <2> QED BY <2>1, <2>2, Zenon
<1> HIDE DEF p
<1>6. CASE o < SEG_N
  <2> DEFINE r == Counted(tx[c], p)
  <2>1. tx' = Write(tx, c, r)
    BY <1>1, <1>2, <1>6, Zenon DEF Contexts, Write, Counted
  <2>5. /\ r \in Context /\ r.msg = tx[c].msg /\ r.blocked = tx[c].blocked
        /\ r.nack = tx[c].nack
    BY <1>3, CountedFacts, Zenon
  <2> HIDE DEF r
  <2>2. Touched(tx, tx', c) /\ tx'[c].nack = tx[c].nack
    BY <1>2, <2>1, <2>5, TouchFacts, Zenon
  <2>3. o + 1 \in Segs
    BY <1>2, <1>6, Constants DEF Segs
  <2>4. /\ caller' \in Caller /\ caller'.at = "loop" /\ caller'.ctx = caller.ctx
    BY <1>1, <1>2, <1>6, <2>3, Zenon DEF Caller
  <2> QED BY <1>1, <1>2, <1>5, <2>2, <2>4, Zenon DEF GoesOn, c
<1>7. CASE ~(o < SEG_N)
  <2> DEFINE r == LastCounted(tx[c], p)
  <2>1. tx' = Write(tx, c, r)
    BY <1>1, <1>2, <1>7, Zenon DEF Contexts, Write, LastCounted
  <2>5. /\ r \in Context /\ r.msg = tx[c].msg /\ r.blocked = tx[c].blocked
        /\ r.nack = tx[c].nack
    BY <1>3, CountedFacts, ZenonT(40)
  <2> HIDE DEF r
  <2>2. Touched(tx, tx', c) /\ tx'[c].nack = tx[c].nack
    BY <1>2, <2>1, <2>5, TouchFacts, Zenon
  <2>4. /\ caller' \in Caller /\ caller'.at = "checked" /\ caller'.ctx = caller.ctx
    BY <1>1, <1>2, <1>7, Zenon DEF Caller
  <2> QED BY <1>1, <1>2, <1>5, <2>2, <2>4, Zenon DEF GoesOn, c
<1> QED BY <1>6, <1>7, Zenon

\* What the end of send_seg does.
LEMMA FinishFacts ==
    ASSUME Typed, Finish
    PROVE  LET c == caller.ctx IN
           /\ c \in Ctxs /\ GoesOn(c) /\ tx'[c].nack = tx[c].nack
           /\ caller' = Returned
<1> DEFINE c == caller.ctx
<1>1. c \in Ctxs /\ tx \in Contexts /\ tx[c] \in Context
  BY ContextFields, Zenon DEF Typed, Caller
<1> DEFINE r == NotSending(tx[c])
<1>2. tx' = Write(tx, c, r) /\ caller' = Returned /\ UNCHANGED <<adv, ended>>
  BY <1>1, Zenon DEF Finish, Contexts, Write, NotSending
<1> HIDE DEF c
<1>3. Touched(tx, tx', c) /\ tx'[c].nack = tx[c].nack
  <2>1. 0 \in 0 .. 255
    OBVIOUS
  <2>2. /\ r \in Context /\ r.msg = tx[c].msg /\ r.blocked = tx[c].blocked
        /\ r.nack = tx[c].nack
    BY <1>1, <2>1, CountedFacts, Zenon
  <2> HIDE DEF r
  <2> QED BY <1>1, <1>2, <2>2, TouchFacts, Zenon
<1>4. Queues(c, tx[c].msg)
  BY <1>2, QueuesNothing, Zenon DEF Typed
<1> QED BY <1>1, <1>2, <1>3, <1>4, Zenon DEF GoesOn, c

\* The context after the callback of a buffer.
Sent(k, p) == [k EXCEPT !.pending = p, !.timer = @ \/ (p = 0 /\ ~k.sending)]

\* The callback of a buffer keeps the message, and starts the timer only at zero.
LEMMA SentFacts ==
    ASSUME NEW k \in Context, NEW p \in 0 .. 255
    PROVE  /\ Sent(k, p) \in Context /\ Sent(k, p).msg = k.msg
           /\ Sent(k, p).blocked = k.blocked /\ Sent(k, p).nack = k.nack
           /\ Sent(k, p).pending = p
           /\ (Sent(k, p).timer => k.timer \/ p = 0)
<1> DEFINE b == k.timer \/ (p = 0 /\ ~k.sending)
<1>1. Sent(k, p) = [k EXCEPT !.pending = p, !.timer = b]
  BY Zenon DEF Context, Sent
<1>2. b \in BOOLEAN /\ (b => k.timer \/ p = 0)
  BY Zenon DEF Context
<1> HIDE DEF b
<1>3. Sent(k, p) = [msg |-> k.msg, nack |-> k.nack, pending |-> p,
                    attempts |-> k.attempts, blocked |-> k.blocked,
                    sending |-> k.sending, timer |-> b]
  BY <1>1, Zenon DEF Context
<1>4. /\ k.msg \in 0 .. MESSAGES /\ k.nack \in SUBSET Segs /\ k.attempts \in Int
      /\ k.blocked \in BOOLEAN /\ k.sending \in BOOLEAN
  BY Zenon DEF Context
<1> QED BY <1>2, <1>3, <1>4 DEF Context

\* What seg_sent does: the queue moves up, and the context counts.
LEMMA AdvEndFacts ==
    ASSUME Typed, AdvEnd
    PROVE  LET c == adv[1].ctx IN
           /\ Len(adv) # 0 /\ c \in Ctxs /\ adv' = Tail(adv) /\ adv' \in Seq(Queued)
           /\ Touched(tx, tx', c) /\ tx'[c].nack = tx[c].nack
           /\ tx[c].nack # {} =>
                /\ tx'[c].pending = (tx[c].pending - 1) % 256
                /\ (tx'[c].timer => tx[c].timer \/ tx'[c].pending = 0)
           /\ mishaps' \subseteq {"stale", "late", "missed", "evicted"}
           /\ "evicted" \in mishaps => "evicted" \in mishaps'
           /\ "evicted" \in mishaps' => "evicted" \in mishaps
<1> DEFINE c == adv[1].ctx
<1>0. adv \in Seq(Queued) /\ tx \in Contexts
  BY Zenon DEF Typed
<1>1. adv # <<>> /\ adv' = Tail(adv) /\ Head(adv) = adv[1]
  BY <1>0 DEF AdvEnd
<1>2. Len(adv) # 0 /\ 1 \in DOMAIN adv /\ adv[1] \in Queued /\ adv' \in Seq(Queued)
  BY <1>0, <1>1
<1>3. c \in Ctxs
  BY <1>2, Zenon DEF Queued
<1>4. schedule_retransmit(c)
  BY <1>1, Zenon DEF AdvEnd
<1> HIDE DEF c
<1>5. tx[c] \in Context
  BY <1>0, <1>3, ContextFields, Zenon
<1>6. CASE tx[c].nack = {}
  <2>1. tx' = tx
    BY <1>4, <1>6, Zenon DEF schedule_retransmit
  <2>2. Touched(tx, tx', c)
    BY <1>0, <2>1, Zenon DEF Touched
  <2> QED BY <1>1, <1>2, <1>3, <1>6, <2>1, <2>2, Zenon DEF c, AdvEnd, Typed
<1>7. CASE tx[c].nack # {}
  <2> DEFINE p == (tx[c].pending - 1) % 256
  <2>1. p \in 0 .. 255
    <3>1. tx[c].pending - 1 \in Int
      BY <1>0, <1>3, ContextFields
    <3> QED BY <3>1, Byte, Zenon
  <2> DEFINE r == Sent(tx[c], p)
  <2>4. tx' = [tx EXCEPT ![c].pending = p, ![c].timer = @ \/ (p = 0 /\ ~tx[c].sending)]
    BY <1>4, <1>7, Zenon DEF schedule_retransmit
  <2> HIDE DEF p
  <2>2. tx' = Write(tx, c, r)
    BY <1>0, <1>3, <2>4, Zenon DEF Contexts, Write, Sent
  <2>5. /\ r \in Context /\ r.msg = tx[c].msg /\ r.blocked = tx[c].blocked
        /\ r.nack = tx[c].nack /\ r.pending = p /\ (r.timer => tx[c].timer \/ p = 0)
    <3> DEFINE k == tx[c]
    <3>1. k \in Context
      BY <1>5, Zenon
    <3> HIDE DEF k
    <3>2. /\ Sent(k, p) \in Context /\ Sent(k, p).msg = k.msg
          /\ Sent(k, p).blocked = k.blocked /\ Sent(k, p).nack = k.nack
          /\ Sent(k, p).pending = p
          /\ (Sent(k, p).timer => k.timer \/ p = 0)
      BY <2>1, <3>1, SentFacts, Zenon
    <3> QED BY <3>2, Zenon DEF k, r
  <2> HIDE DEF r
  <2>3. /\ Touched(tx, tx', c) /\ tx'[c].nack = tx[c].nack /\ tx'[c].pending = p
        /\ tx'[c].timer => tx[c].timer \/ p = 0
    BY <1>0, <1>3, <2>2, <2>5, TouchFacts, Zenon
  <2> QED BY <1>1, <1>2, <1>3, <1>7, <2>3, Zenon DEF p, c, AdvEnd, Typed
<1> QED BY <1>6, <1>7, Zenon

\* What the start of send_seg finds: a message that no context has, newer than any
\* it has taken up, and a free context, or none.
LEMMA FindFacts ==
    ASSUME NumberFacts, Typed, Find
    PROVE  /\ caller = Returned
           /\ \/ /\ UNCHANGED caller
                 /\ \E m \in Msgs : /\ \A c \in Ctxs : tx[c].msg # m
                                    /\ ended' = [ended EXCEPT ![m] = "busy"]
              \/ /\ UNCHANGED ended /\ caller' \in Caller
                 /\ caller'.at = "found" /\ caller'.msg \in Msgs
                 /\ \A n \in caller'.msg .. MESSAGES :
                      ended[n] = "not yet" /\ \A c \in Ctxs : tx[c].msg # n
                 /\ tx[caller'.ctx].nack = {}
                 /\ (~caller'.blocked => Busy(tx) = {})
<1> DEFINE next == {m \in Msgs : \A n \in m .. MESSAGES :
                                   ended[n] = "not yet" /\ \A c \in Ctxs : tx[c].msg # n}
<1> DEFINE free == Ctxs \ Busy(tx)
<1>1. /\ caller = Returned /\ next # {}
      /\ IF free = {}
         THEN /\ ended' = [ended EXCEPT ![Min(next)] = "busy"]
              /\ UNCHANGED caller
         ELSE /\ caller' = [at |-> "found", msg |-> Min(next), ctx |-> Min(free),
                            blocked |-> Busy(tx) # {}, seg_o |-> 0]
              /\ UNCHANGED ended
  BY Zenon DEF Find
<1>2. next \in SUBSET Nat /\ next \in SUBSET Msgs /\ free \in SUBSET Nat
  BY Constants, Zenon
<1> DEFINE m == Min(next)
<1>3. m \in next
  <2> HIDE DEF next
  <2> QED BY <1>1, <1>2, MinIn, Zenon
<1>4. /\ m \in Msgs /\ m \in 0 .. MESSAGES
      /\ \A n \in m .. MESSAGES : ended[n] = "not yet" /\ \A c \in Ctxs : tx[c].msg # n
  BY <1>3, Constants, Zenon
<1> HIDE DEF m
<1>5. CASE free = {}
  <2>1. m \in m .. MESSAGES
    <3>1. m \in 0 .. MESSAGES /\ MESSAGES \in Nat
      BY <1>4, Constants, Zenon
    <3> QED BY ONLY <3>1
  <2>2. \A c \in Ctxs : tx[c].msg # m
    BY <1>4, <2>1, Zenon
  <2> QED BY <1>1, <1>4, <1>5, <2>2, Zenon DEF m
<1>6. CASE free # {}
  <2> DEFINE f == Min(free)
  <2>1. f \in free
    <3> HIDE DEF free
    <3> QED BY <1>2, <1>6, MinIn, Zenon
  <2>2. f \in Ctxs /\ tx[f].nack = {}
    BY <2>1, Zenon DEF Busy
  <2> DEFINE b == (Busy(tx) # {})
  <2>3. /\ caller' = [at |-> "found", msg |-> m, ctx |-> f, blocked |-> b, seg_o |-> 0]
        /\ UNCHANGED ended
    BY <1>1, <1>6, Zenon DEF m
  <2>4. b \in BOOLEAN /\ (~b => Busy(tx) = {})
    BY Zenon
  <2> HIDE DEF f, b
  <2>5. /\ caller' \in Caller /\ caller'.at = "found" /\ caller'.msg = m /\ caller'.ctx = f
        /\ caller'.blocked = b
    BY <1>4, <2>2, <2>3, <2>4, Constants, Zenon DEF Caller
  <2> QED BY <1>1, <1>4, <2>2, <2>3, <2>4, <2>5, Zenon
<1> QED BY <1>5, <1>6, Zenon

\* What send_seg fills in.
Filled == [msg |-> caller.msg, nack |-> Segs, pending |-> 0,
           attempts |-> ATTEMPTS, blocked |-> caller.blocked,
           sending |-> ~caller.blocked, timer |-> FALSE]

\* What Fill does: only the context that main has found changes.
LEMMA FillFacts ==
    ASSUME Typed, Fill
    PROVE  LET c == caller.ctx IN
           /\ caller.at = "found" /\ caller.msg \in Msgs /\ c \in Ctxs
           /\ tx' \in Contexts /\ \A d \in Ctxs : d # c => tx'[d] = tx[d]
           /\ tx'[c].msg = caller.msg /\ tx'[c].nack = Segs /\ tx'[c].pending = 0
           /\ tx'[c].blocked = caller.blocked /\ ~tx'[c].timer
           /\ caller' \in Caller /\ caller'.at \in {"returned", "loop"}
           /\ (caller'.at = "loop" => ~caller.blocked /\ caller'.ctx = c)
           /\ mishaps' \subseteq {"stale", "late", "missed", "evicted"}
           /\ "evicted" \in mishaps' <=> "evicted" \in mishaps
<1> DEFINE c == caller.ctx
<1>1. /\ caller.at = "found" /\ caller.msg \in Msgs /\ c \in Ctxs /\ tx \in Contexts
      /\ caller \in Caller /\ caller.blocked \in BOOLEAN
  BY Zenon DEF Typed, Fill, Caller
<1>2. tx' = Write(tx, c, Filled)
  BY Zenon DEF Fill, Write, Filled
<1>3. /\ Filled \in Context /\ Filled.msg = caller.msg /\ Filled.nack = Segs
      /\ Filled.pending = 0 /\ Filled.blocked = caller.blocked /\ Filled.timer = FALSE
  <2> DEFINE m == caller.msg
  <2> DEFINE b == caller.blocked
  <2> DEFINE s == ~caller.blocked
  <2>1. Filled = [msg |-> m, nack |-> Segs, pending |-> 0, attempts |-> ATTEMPTS,
                  blocked |-> b, sending |-> s, timer |-> FALSE]
    BY Zenon DEF Filled
  <2>2. m \in 0 .. MESSAGES /\ b \in BOOLEAN /\ s \in BOOLEAN /\ ATTEMPTS \in Int
    BY <1>1, Constants
  <2> HIDE DEF m, b, s
  <2>3. Filled \in Context /\ Filled.msg = m /\ Filled.nack = Segs
        /\ Filled.pending = 0 /\ Filled.blocked = b /\ Filled.timer = FALSE
    BY <2>1, <2>2 DEF Context
  <2> QED BY <2>3, Zenon DEF m, b
<1>4. /\ tx' \in Contexts /\ tx'[c] = Filled /\ \A d \in Ctxs : d # c => tx'[d] = tx[d]
  BY <1>1, <1>2, <1>3, WriteFacts
<1>5. /\ caller' \in Caller /\ caller'.at \in {"returned", "loop"}
      /\ (caller'.at = "loop" => ~caller.blocked /\ caller'.ctx = c)
  <2>1. CASE caller.blocked
    BY <1>1, <2>1, Constants DEF Fill, Returned, Caller
  <2>2. CASE ~caller.blocked
    BY <1>1, <2>2, Zenon DEF Fill, Caller
  <2> QED BY <2>1, <2>2, Zenon
<1>6. /\ mishaps' \subseteq {"stale", "late", "missed", "evicted"}
      /\ "evicted" \in mishaps' <=> "evicted" \in mishaps
  BY Zenon DEF Fill, Typed
<1> HIDE DEF c
<1>7. /\ tx'[c].msg = caller.msg /\ tx'[c].nack = Segs /\ tx'[c].pending = 0
      /\ tx'[c].blocked = caller.blocked /\ ~tx'[c].timer
  BY <1>3, <1>4, Zenon
<1> QED BY <1>1, <1>4, <1>5, <1>6, <1>7, Zenon DEF c

\* A segment goes on the air; the queue keeps the context and message of each.
LEMMA AdvStartFacts ==
    ASSUME Typed, AdvStart
    PROVE  /\ adv' \in Seq(Queued) /\ DOMAIN adv' = DOMAIN adv /\ 1 \in DOMAIN adv
           /\ \A i \in DOMAIN adv : adv'[i].ctx = adv[i].ctx /\ adv'[i].msg = adv[i].msg
           /\ air' \in Seq(OnAir)
           /\ \A i \in DOMAIN air' : \/ i \in DOMAIN air /\ air'[i] = air[i]
                                     \/ air'[i].msg = adv[1].msg
<1>1. /\ adv \in Seq(Queued) /\ air \in Seq(OnAir) /\ adv # <<>>
      /\ adv' = [adv EXCEPT ![1].sending = TRUE]
      /\ air' = Append(air, [msg |-> Head(adv).msg, seg |-> Head(adv).seg])
  BY Zenon DEF Typed, AdvStart
<1>2. 1 \in DOMAIN adv /\ Head(adv) = adv[1] /\ adv[1] \in Queued
  BY <1>1
<1> DEFINE b == [adv[1] EXCEPT !.sending = TRUE]
<1>3. b \in Queued /\ b.ctx = adv[1].ctx /\ b.msg = adv[1].msg
  BY <1>2, Zenon DEF Queued
<1>4. adv' = [adv EXCEPT ![1] = b]
  BY <1>1, <1>2, Zenon
<1> HIDE DEF b
<1>5. /\ adv' \in Seq(Queued) /\ DOMAIN adv' = DOMAIN adv
      /\ \A i \in DOMAIN adv : adv'[i] = IF i = 1 THEN b ELSE adv[i]
  <2>1. adv' \in Seq(Queued)
    <3>1. Len(adv) \in Nat /\ adv \in [1 .. Len(adv) -> Queued]
      BY <1>1
    <3>2. adv' \in [1 .. Len(adv) -> Queued]
      BY <1>3, <1>4, <3>1, Zenon
    <3> QED BY <3>1, <3>2
  <2> QED BY <1>4, <2>1, Zenon
<1> DEFINE s == [msg |-> adv[1].msg, seg |-> adv[1].seg]
<1>6. s \in OnAir /\ s.msg = adv[1].msg
  BY <1>2, Zenon DEF Queued, OnAir
<1>7. air' = Append(air, s)
  BY <1>1, <1>2, Zenon
<1> HIDE DEF s
<1>8. /\ air' \in Seq(OnAir)
      /\ \A i \in DOMAIN air' : \/ i \in DOMAIN air /\ air'[i] = air[i]
                                \/ air'[i].msg = adv[1].msg
  BY <1>1, <1>6, <1>7
<1> QED BY <1>2, <1>3, <1>5, <1>8, Zenon

\* The segments on their way become fewer.
Fewer ==
    /\ air' \in Seq(OnAir)
    /\ \A i \in DOMAIN air' : \E j \in DOMAIN air : air'[i] = air[j]

\* A segment that arrives or is lost leaves no others on the air than before.
LEMMA FewerFacts ==
    ASSUME air \in Seq(OnAir), NEW i \in DOMAIN air,
           \/ air' = Without(air, i)
           \/ air' = SubSeq(air, i + 1, Len(air))
    PROVE  Fewer
<1> DEFINE R == {air[j] : j \in DOMAIN air}
<1>1. /\ Len(air) \in Nat /\ DOMAIN air = 1 .. Len(air)
      /\ i \in Nat /\ 1 <= i /\ i <= Len(air)
  OBVIOUS
<1>2. air \in Seq(R) /\ R \subseteq OnAir
  <2>1. air \in [1 .. Len(air) -> R]
    BY <1>1
  <2>2. R \subseteq OnAir
    BY <1>1
  <2> HIDE DEF R
  <2> QED BY <1>1, <2>1, <2>2
<1> HIDE DEF R
<1>3. SubSeq(air, i + 1, Len(air)) \in Seq(R)
  BY <1>1, <1>2
<1>4. SubSeq(air, 1, i - 1) \in Seq(R)
  BY <1>1, <1>2
<1>5. Without(air, i) \in Seq(R)
  <2>1. Without(air, i) = SubSeq(air, 1, i - 1) \o SubSeq(air, i + 1, Len(air))
    BY Zenon DEF Without
  <2> QED BY <1>3, <1>4, <2>1
<1>6. air' \in Seq(R)
  BY <1>3, <1>5, Zenon
<1>7. \A k \in DOMAIN air' : air'[k] \in R
  BY <1>6
<1>8. air' \in Seq(OnAir)
  <2>1. DOMAIN air' = 1 .. Len(air') /\ Len(air') \in Nat
    BY <1>6
  <2>2. air' \in [1 .. Len(air') -> OnAir]
    BY <1>2, <1>6, <1>7, <2>1
  <2> QED BY <2>1, <2>2
<1> QED BY <1>7, <1>8, Zenon DEF Fewer, R

\* What trans_seg does with a segment of message m: it is dropped, or acknowledged
\* again, or the first of a newer message or one that was missing.
LEMMA TransSegFacts ==
    ASSUME Typed, NEW i \in DOMAIN air, trans_seg(i)
    PROVE  LET m == air[i].msg
               ack == [msg |-> m, block |-> Segs]
           IN  /\ m \in Msgs /\ Fewer
               /\ \/ UNCHANGED <<rx, acks, delivered>>
                  \/ /\ rx.msg = m /\ rx.block = Segs
                     /\ acks' = acks \cup {ack} /\ UNCHANGED <<rx, delivered>>
                  \/ /\ rx.msg < m \/ (rx.msg = m /\ rx.in_use)
                     /\ \E b \in SUBSET Segs :
                          /\ rx' = Received(m, b) /\ (rx.msg = m => rx.block \subseteq b)
                          /\ \/ b # Segs /\ UNCHANGED <<acks, delivered>>
                             \/ /\ b = Segs /\ acks' = acks \cup {ack}
                                /\ delivered' = Append(delivered, m)
<1> DEFINE s == air[i]
<1> DEFINE m == s.msg
<1> DEFINE ack == [msg |-> m, block |-> Segs]
<1> DEFINE found == seg_rx_find(m)
<1> DEFINE block == (IF found = m THEN rx.block ELSE {}) \cup {s.seg}
<1>1. /\ m \in Msgs /\ m \in Nat /\ m # 0 /\ s.seg \in Segs
      /\ rx.msg \in Nat /\ rx.block \in SUBSET Segs /\ air \in Seq(OnAir)
  <2>0. air \in Seq(OnAir)
    BY Zenon DEF Typed
  <2>1. s \in OnAir
    BY <2>0
  <2> QED BY <2>0, <2>1, Constants, Zenon DEF Typed, OnAir, Receiver
<1>2. \/ UNCHANGED <<rx, acks, delivered>> /\ air' = Without(air, i)
      \/ /\ found = m /\ rx.block = Segs /\ acks' = acks \cup {ack}
         /\ air' = SubSeq(air, i + 1, Len(air)) /\ UNCHANGED <<rx, delivered>>
      \/ /\ ~(found > m) /\ (found = m => rx.in_use)
         /\ rx' = Received(m, block)
         /\ IF block # Segs
            THEN air' = Without(air, i) /\ UNCHANGED <<acks, delivered>>
            ELSE /\ air' = SubSeq(air, i + 1, Len(air))
                 /\ acks' = acks \cup {ack}
                 /\ delivered' = Append(delivered, m)
  <2>1. CASE found > m
    <3>1. found # m
      BY <1>1, <2>1
    <3> QED BY <2>1, <3>1, Zenon DEF trans_seg
  <2>2. CASE ~(found > m) /\ found = m /\ ~rx.in_use /\ rx.block = Segs
    BY <2>2, Zenon DEF trans_seg, send_ack
  <2>3. CASE ~(found > m) /\ found = m /\ ~rx.in_use /\ rx.block # Segs
    BY <2>3, Zenon DEF trans_seg
  <2>4. CASE ~(found > m) /\ found = m /\ rx.in_use /\ s.seg \in rx.block
    BY <2>4, Zenon DEF trans_seg
  <2>5. CASE ~(found > m) /\ ~(found = m /\ ~rx.in_use) /\ ~(found = m /\ s.seg \in rx.block)
    BY <2>5, Zenon DEF trans_seg, send_ack
  <2> QED BY <2>1, <2>2, <2>3, <2>4, <2>5, Zenon
<1>3. Fewer
  BY <1>1, <1>2, FewerFacts, Zenon
<1>4. /\ found = m => rx.msg = m
      /\ rx.msg = m => found = m
      /\ ~(found > m) => rx.msg <= m
  BY <1>1 DEF seg_rx_find
<1>5. block \in SUBSET Segs /\ (rx.msg = m => rx.block \subseteq block)
  BY <1>1, <1>4, Zenon
<1> HIDE DEF found, block, ack, m
<1>6. CASE UNCHANGED <<rx, acks, delivered>> /\ air' = Without(air, i)
  BY <1>1, <1>3, <1>6, Zenon DEF m
<1>7. CASE /\ found = m /\ rx.block = Segs /\ acks' = acks \cup {ack}
           /\ air' = SubSeq(air, i + 1, Len(air)) /\ UNCHANGED <<rx, delivered>>
  BY <1>1, <1>3, <1>4, <1>7, Zenon DEF m, ack
<1>8. CASE /\ ~(found > m) /\ (found = m => rx.in_use)
           /\ rx' = Received(m, block)
           /\ IF block # Segs
              THEN air' = Without(air, i) /\ UNCHANGED <<acks, delivered>>
              ELSE /\ air' = SubSeq(air, i + 1, Len(air))
                   /\ acks' = acks \cup {ack}
                   /\ delivered' = Append(delivered, m)
  <2>1. rx.msg < m \/ (rx.msg = m /\ rx.in_use)
    BY <1>1, <1>4, <1>8
  <2>2. \E b \in SUBSET Segs :
          /\ rx' = Received(m, b) /\ (rx.msg = m => rx.block \subseteq b)
          /\ \/ b # Segs /\ UNCHANGED <<acks, delivered>>
             \/ /\ b = Segs /\ acks' = acks \cup {ack}
                /\ delivered' = Append(delivered, m)
    BY <1>5, <1>8, Zenon
  <2> QED BY <1>1, <1>3, <2>1, <2>2, Zenon DEF m, ack
<1> QED BY <1>2, <1>6, <1>7, <1>8, Zenon

-----------------------------------------------------------------------------
(* Types.                                                                  *)

\* The contexts stay well-formed.
LEMMA UseKept ==
    ASSUME NEW t \in Contexts, InUse(t), NEW u, NEW c \in Ctxs,
           Touched(t, u, c) \/ Completed(t, u, c)
    PROVE  u \in Contexts /\ InUse(u)
<1>1. CASE Touched(t, u, c)
  BY <1>1, Zenon DEF Touched, InUse
<1>2. CASE Completed(t, u, c)
  <2>1. ASSUME NEW d \in Ctxs
        PROVE  (u[d].nack = {} <=> u[d].msg = 0) /\ (u[d].nack = {} => ~u[d].blocked)
    <3>1. CASE d = c
      BY <1>2, <3>1, Zenon DEF Completed
    <3>2. CASE d # c
      <4>1. u[d].msg = t[d].msg /\ u[d].nack = t[d].nack /\ (u[d].blocked => t[d].blocked)
        BY <1>2, <3>2, Zenon DEF Completed
      <4> QED BY <4>1, Zenon DEF InUse
    <3> QED BY <3>1, <3>2, Zenon
  <2> QED BY <1>2, <2>1, Zenon DEF Completed, InUse
<1> QED BY <1>1, <1>2, Zenon

\* What a message ends with.
Results == {"not yet", "ok", "timeout", "busy"}

\* Only the message that ends gets a result.
LEMMA EndedFacts ==
    ASSUME Typed, NEW m \in Msgs, NEW r \in Results, ended' = [ended EXCEPT ![m] = r]
    PROVE  /\ ended' \in [Msgs -> Results] /\ ended'[m] = r
           /\ \A n \in Msgs : n # m => ended'[n] = ended[n]
BY Zenon DEF Typed, Results

\* A step of the sender keeps the types of the contexts, the queue and the results.
LEMMA SenderTyped ==
    ASSUME Typed, NEW c \in Ctxs, NEW r \in Results, GoesOn(c) \/ EndsWith(c, r)
    PROVE  /\ tx' \in Contexts /\ InUse(tx') /\ adv' \in Seq(Queued)
           /\ ended' \in [Msgs -> Results]
<1>1. tx \in Contexts /\ InUse(tx)
  BY Zenon DEF Typed
<1>2. tx' \in Contexts /\ InUse(tx')
  BY <1>1, UseKept, Zenon DEF GoesOn, EndsWith
<1>3. adv' \in Seq(Queued)
  BY Zenon DEF GoesOn, EndsWith, Queues, Typed
<1>4. ended' \in [Msgs -> Results]
  <2>1. CASE GoesOn(c)
    BY <2>1, Zenon DEF GoesOn, Typed, Results
  <2>2. CASE EndsWith(c, r)
    <3>1. tx[c].msg \in Msgs
      BY <1>1, <2>2, ContextFields, Constants, Zenon DEF InUse, EndsWith
    <3> QED BY <2>2, <3>1, EndedFacts, ZenonT(40) DEF EndsWith
  <2> QED BY <2>1, <2>2, Zenon
<1> QED BY <1>2, <1>3, <1>4, Zenon

\* The receiver's context after a segment.
LEMMA ReceivedFacts ==
    ASSUME NEW m \in Msgs, NEW b \in SUBSET Segs
    PROVE  /\ Received(m, b) \in Receiver /\ Received(m, b).msg = m
           /\ Received(m, b).block = b /\ Received(m, b).in_use = (b # Segs)
<1> DEFINE u == (b # Segs)
<1>1. Received(m, b) = [msg |-> m, block |-> b, in_use |-> u, timer |-> u]
  BY Zenon DEF Received
<1>2. u \in BOOLEAN
  BY Zenon
<1> HIDE DEF u
<1>3. /\ Received(m, b) \in Receiver /\ Received(m, b).msg = m
      /\ Received(m, b).block = b /\ Received(m, b).in_use = u
  BY <1>1, <1>2, Constants DEF Receiver
<1> QED BY <1>3, Zenon DEF u

\* The types.
LEMMA TypedInit == Init => Typed
<1> SUFFICES ASSUME Init PROVE Typed
  BY Zenon
<1>1. Free \in Context /\ Free.nack = {} /\ Free.msg = 0 /\ ~Free.blocked
  BY Constants DEF Free, Context
<1>2. tx \in Contexts /\ InUse(tx)
  BY <1>1, Zenon DEF Init, Contexts, InUse
<1>0. 0 \in 0 .. MESSAGES /\ 1 \in Ctxs /\ 0 \in Segs
  BY Constants
<1>3. caller \in Caller /\ caller.at = "returned"
  BY <1>0, Zenon DEF Init, Returned, Caller
<1>4. rx \in Receiver /\ rx.in_use = FALSE /\ rx.timer = FALSE
  BY <1>0, Zenon DEF Init, NoRx, Receiver
<1>5. adv \in Seq(Queued) /\ air \in Seq(OnAir) /\ delivered \in Seq(Msgs)
  <2>1. adv = <<>> /\ air = <<>> /\ delivered = <<>>
    BY Zenon DEF Init
  <2>2. <<>> \in Seq(Queued) /\ <<>> \in Seq(OnAir) /\ <<>> \in Seq(Msgs)
    OBVIOUS
  <2> QED BY <2>1, <2>2, Zenon
<1> QED BY <1>2, <1>3, <1>4, <1>5, Zenon DEF Init, Typed

\* Every step keeps the types.
LEMMA TypedStep ==
    ASSUME NumberFacts, Typed, [Next]_vars
    PROVE  Typed'
<1>0. /\ Returned \in Caller /\ Returned.at = "returned"
      /\ NoRx \in Receiver /\ NoRx.in_use = FALSE /\ NoRx.timer = FALSE
  <2>1. 0 \in 0 .. MESSAGES /\ 1 \in Ctxs /\ 0 \in Segs
    BY Constants
  <2> QED BY <2>1, Zenon DEF Returned, Caller, NoRx, Receiver
<1>1. CASE Find
  <2>1. /\ ended' \in [Msgs -> Results] /\ caller' \in Caller
        /\ (caller'.at = "found" => caller'.msg \in Msgs)
    <3>1. CASE /\ UNCHANGED caller
               /\ \E m \in Msgs : ended' = [ended EXCEPT ![m] = "busy"]
      <4>1. PICK m \in Msgs : ended' = [ended EXCEPT ![m] = "busy"]
        BY <3>1, Zenon
      <4>2. ended' \in [Msgs -> Results]
        BY <4>1, EndedFacts, Zenon DEF Results
      <4> QED BY <3>1, <4>2, Zenon DEF Typed
    <3>2. CASE UNCHANGED ended /\ caller' \in Caller /\ caller'.msg \in Msgs
      BY <3>2, Zenon DEF Typed, Results
    <3> QED BY <1>1, <3>1, <3>2, FindFacts, Zenon
  <2> QED BY <1>1, <2>1, Zenon DEF Find, Typed, Results
<1>2. CASE Fill
  <2> DEFINE c == caller.ctx
  <2>1. /\ c \in Ctxs /\ tx' \in Contexts /\ tx'[c].nack = Segs /\ tx'[c].msg = caller.msg
        /\ caller.msg \in Msgs /\ \A d \in Ctxs : d # c => tx'[d] = tx[d]
    BY <1>2, FillFacts, Zenon
  <2>2. /\ caller' \in Caller /\ caller'.at # "found"
        /\ mishaps' \subseteq {"stale", "late", "missed", "evicted"}
    BY <1>2, FillFacts, Zenon
  <2> HIDE DEF c
  <2>3. InUse(tx')
    BY <2>1, Constants, Zenon DEF InUse, Typed
  <2> QED BY <1>2, <2>1, <2>2, <2>3, Zenon DEF Fill, Typed
<1>3. CASE Loop
  <2>1. /\ caller.ctx \in Ctxs /\ GoesOn(caller.ctx) /\ caller' \in Caller
        /\ caller'.at # "found"
    BY <1>3, LoopFacts, Zenon
  <2>2. /\ tx' \in Contexts /\ InUse(tx') /\ adv' \in Seq(Queued)
        /\ ended' \in [Msgs -> Results]
    BY <2>1, SenderTyped, Zenon DEF Results
  <2> QED BY <1>3, <2>1, <2>2, Zenon DEF Loop, Typed, Results
<1>4. CASE Finish
  <2>1. /\ caller.ctx \in Ctxs /\ GoesOn(caller.ctx) /\ caller' = Returned
    BY <1>4, FinishFacts, Zenon
  <2>2. /\ tx' \in Contexts /\ InUse(tx') /\ adv' \in Seq(Queued)
        /\ ended' \in [Msgs -> Results]
    BY <2>1, SenderTyped, Zenon DEF Results
  <2>3. caller' \in Caller /\ caller'.at # "found"
    BY <1>0, <2>1, Zenon
  <2> QED BY <1>4, <2>2, <2>3, Zenon DEF Finish, Typed, Results
<1>5. CASE AdvStart
  <2>1. adv' \in Seq(Queued) /\ air' \in Seq(OnAir)
    BY <1>5, AdvStartFacts, Zenon
  <2> QED BY <1>5, <2>1, Zenon DEF AdvStart, Typed
<1>6. CASE AdvEnd
  <2> DEFINE c == adv[1].ctx
  <2>1. /\ c \in Ctxs /\ adv' \in Seq(Queued) /\ Touched(tx, tx', c)
        /\ mishaps' \subseteq {"stale", "late", "missed", "evicted"}
    BY <1>6, AdvEndFacts, Zenon
  <2> HIDE DEF c
  <2>2. tx' \in Contexts /\ InUse(tx')
    <3>1. tx \in Contexts /\ InUse(tx)
      BY Zenon DEF Typed
    <3> QED BY <2>1, <3>1, UseKept, Zenon
  <2> QED BY <1>6, <2>1, <2>2, Zenon DEF AdvEnd, Typed
<1>7. ASSUME NEW c \in Ctxs, seg_retransmit(c) PROVE Typed'
  <2>1. GoesOn(c) \/ EndsWith(c, "timeout")
    BY <1>7, RetransmitFacts, Zenon
  <2>2. /\ tx' \in Contexts /\ InUse(tx') /\ adv' \in Seq(Queued)
        /\ ended' \in [Msgs -> Results]
    BY <2>1, SenderTyped, Zenon DEF Results
  <2> QED BY <1>7, <2>2, Zenon DEF seg_retransmit, Typed, Results
<1>8. ASSUME NEW i \in DOMAIN air, trans_seg(i) PROVE Typed'
  <2> DEFINE m == air[i].msg
  <2> DEFINE ack == [msg |-> m, block |-> Segs]
  <2>1. m \in Msgs /\ air' \in Seq(OnAir)
    BY <1>8, TransSegFacts, Zenon DEF Fewer
  <2>2. \/ UNCHANGED <<rx, acks, delivered>>
        \/ acks' = acks \cup {ack} /\ UNCHANGED <<rx, delivered>>
        \/ \E b \in SUBSET Segs :
             /\ rx' = Received(m, b)
             /\ \/ b # Segs /\ UNCHANGED <<acks, delivered>>
                \/ /\ b = Segs /\ acks' = acks \cup {ack}
                   /\ delivered' = Append(delivered, m)
    BY <1>8, TransSegFacts, Zenon
  <2>3. ack \in [msg : Msgs, block : SUBSET Segs]
    BY <2>1, Zenon
  <2> HIDE DEF ack, m
  <2>4. /\ acks' \subseteq [msg : Msgs, block : SUBSET Segs] /\ delivered' \in Seq(Msgs)
    <3>1. delivered \in Seq(Msgs)
      BY Zenon DEF Typed
    <3>2. Append(delivered, m) \in Seq(Msgs)
      BY <2>1, <3>1
    <3>3. acks' = acks \/ acks' = acks \cup {ack}
      BY <2>2, Zenon
    <3>4. delivered' = delivered \/ delivered' = Append(delivered, m)
      BY <2>2, Zenon
    <3> QED BY <2>3, <3>1, <3>2, <3>3, <3>4, Zenon DEF Typed
  <2>5. rx' \in Receiver /\ (rx'.in_use => rx'.block # Segs)
        /\ (rx'.timer \/ rx'.in_use => rx'.msg # 0)
    <3>1. CASE UNCHANGED rx
      BY <3>1, Zenon DEF Typed
    <3>2. CASE \E b \in SUBSET Segs : rx' = Received(m, b)
      <4>1. PICK b \in SUBSET Segs : rx' = Received(m, b)
        BY <3>2, Zenon
      <4>2. /\ rx' \in Receiver /\ rx'.msg = m /\ rx'.block = b /\ rx'.in_use = (b # Segs)
        BY <2>1, <4>1, ReceivedFacts
      <4>3. m # 0
        BY <2>1, Constants, Zenon
      <4> QED BY <4>2, <4>3, Zenon
    <3> QED BY <2>2, <3>1, <3>2, Zenon
  <2> QED BY <1>8, <2>1, <2>4, <2>5, Zenon DEF trans_seg, Typed
<1>9. ASSUME NEW a \in acks, trans_ack(a) PROVE Typed'
  <2>1. \/ UNCHANGED <<tx, adv, ended>>
        \/ \E c \in Ctxs : GoesOn(c) \/ EndsWith(c, "timeout") \/ EndsWith(c, "ok")
    BY <1>9, TransAckFacts, Zenon
  <2>2. /\ tx' \in Contexts /\ InUse(tx') /\ adv' \in Seq(Queued)
        /\ ended' \in [Msgs -> Results]
    <3>1. CASE UNCHANGED <<tx, adv, ended>>
      BY <3>1, Zenon DEF Typed, Results
    <3>2. CASE \E c \in Ctxs : GoesOn(c) \/ EndsWith(c, "timeout") \/ EndsWith(c, "ok")
      BY <3>2, SenderTyped, Zenon DEF Results
    <3> QED BY <2>1, <3>1, <3>2, Zenon
  <2> QED BY <1>9, <2>2, Zenon DEF trans_ack, Typed, Results
<1>10. CASE seg_ack
  <2>1. rx.msg \in Msgs /\ rx.block \in SUBSET Segs
    BY <1>10, Constants, Zenon DEF seg_ack, Typed, Receiver
  <2> DEFINE ack == [msg |-> rx.msg, block |-> rx.block]
  <2>2. ack \in [msg : Msgs, block : SUBSET Segs]
    BY <2>1, Zenon
  <2>3. acks' = acks \cup {ack}
    BY <1>10, Zenon DEF seg_ack, send_ack
  <2> HIDE DEF ack
  <2> QED BY <1>10, <2>2, <2>3, Zenon DEF seg_ack, Typed
<1>11. CASE Incomplete
  <2>1. rx' \in Receiver /\ rx'.in_use = FALSE /\ rx'.timer = FALSE
    BY <1>11, Zenon DEF Incomplete, Typed, Receiver
  <2> QED BY <1>11, <2>1, Zenon DEF Incomplete, Typed
<1>12. CASE Other
  BY <1>0, <1>12, Zenon DEF Other, Typed
<1>13. CASE LoseSegment
  <2>1. Fewer
    BY <1>13, FewerFacts, Zenon DEF LoseSegment, Typed
  <2> QED BY <1>13, <2>1, Zenon DEF LoseSegment, Typed, Fewer
<1>14. CASE LoseAck
  BY <1>14, Zenon DEF LoseAck, Typed
<1>15. CASE UNCHANGED vars
  BY <1>15, Zenon DEF vars, Typed, InUse
<1> QED BY <1>1, <1>2, <1>3, <1>4, <1>5, <1>6, <1>7, <1>8, <1>9, <1>10, <1>11, <1>12,
           <1>13, <1>14, <1>15, Zenon
        DEF Next, Main, Radio, Timers, Segment, Ack

-----------------------------------------------------------------------------
(* Once, and in order.                                                     *)

\* Every step keeps the order of what is passed on.
LEMMA InOrderStep == Typed /\ InOrderInv /\ [Next]_vars => InOrderInv'
<1> SUFFICES ASSUME Typed, InOrderInv, [Next]_vars, "evicted" \notin mishaps'
             PROVE  /\ \A i, j \in DOMAIN delivered' : i < j => delivered'[i] < delivered'[j]
                    /\ \A i \in DOMAIN delivered' :
                         \/ delivered'[i] < rx'.msg
                         \/ delivered'[i] = rx'.msg /\ rx'.block = Segs
  BY Zenon DEF InOrderInv
<1>0. "evicted" \notin mishaps
  BY FillFacts, AdvEndFacts, Zenon
     DEF Next, vars, Main, Radio, Timers, Segment, Ack, Find, Loop, Finish, AdvStart,
         seg_retransmit, trans_seg, trans_ack, seg_ack, Incomplete, Other, LoseSegment, LoseAck
<1>1. /\ \A i, j \in DOMAIN delivered : i < j => delivered[i] < delivered[j]
      /\ \A i \in DOMAIN delivered :
           \/ delivered[i] < rx.msg
           \/ delivered[i] = rx.msg /\ rx.block = Segs
  BY <1>0, Zenon DEF InOrderInv
<1>2. CASE UNCHANGED delivered /\ rx'.msg = rx.msg /\ rx'.block = rx.block
  BY <1>1, <1>2, Zenon
<1>3. ASSUME NEW i \in DOMAIN air, trans_seg(i)
      PROVE  /\ \A k, j \in DOMAIN delivered' : k < j => delivered'[k] < delivered'[j]
             /\ \A k \in DOMAIN delivered' :
                  \/ delivered'[k] < rx'.msg
                  \/ delivered'[k] = rx'.msg /\ rx'.block = Segs
  <2> DEFINE m == air[i].msg
  <2>1. /\ m \in Msgs /\ m \in Nat
        /\ \/ UNCHANGED <<rx, delivered>>
           \/ /\ rx.msg < m \/ (rx.msg = m /\ rx.in_use)
              /\ \E b \in SUBSET Segs :
                   /\ rx' = Received(m, b)
                   /\ \/ b # Segs /\ UNCHANGED delivered
                      \/ b = Segs /\ delivered' = Append(delivered, m)
    BY <1>3, TransSegFacts, Constants, Zenon
  <2> HIDE DEF m
  <2>2. CASE UNCHANGED <<rx, delivered>>
    BY <1>1, <2>2, Zenon
  <2>3. ASSUME rx.msg < m \/ (rx.msg = m /\ rx.in_use),
               NEW b \in SUBSET Segs, rx' = Received(m, b),
               \/ b # Segs /\ UNCHANGED delivered
               \/ b = Segs /\ delivered' = Append(delivered, m)
        PROVE  /\ \A k, j \in DOMAIN delivered' : k < j => delivered'[k] < delivered'[j]
               /\ \A k \in DOMAIN delivered' :
                    \/ delivered'[k] < rx'.msg
                    \/ delivered'[k] = rx'.msg /\ rx'.block = Segs
    <3>1. rx'.msg = m /\ rx'.block = b
      BY <2>1, <2>3, ReceivedFacts, Zenon
    <3>2. /\ delivered \in Seq(Msgs) /\ rx.msg \in Nat
          /\ \A k \in DOMAIN delivered : delivered[k] \in Nat
      <4>1. delivered \in Seq(Msgs) /\ rx.msg \in Nat
        BY Constants, Zenon DEF Typed, Receiver
      <4>2. \A k \in DOMAIN delivered : delivered[k] \in Msgs
        BY <4>1
      <4> QED BY <4>1, <4>2, Constants, Zenon
    <3>3. ASSUME NEW k \in DOMAIN delivered PROVE delivered[k] < m
      <4>1. CASE rx.msg < m
        BY <1>1, <2>1, <3>2, <4>1
      <4>2. CASE rx.msg = m /\ rx.in_use
        <5>1. rx.block # Segs
          BY <4>2, Zenon DEF Typed
        <5> QED BY <1>1, <4>2, <5>1, Zenon
      <4> QED BY <2>3, <4>1, <4>2, Zenon
    <3>4. CASE b # Segs /\ UNCHANGED delivered
      BY <1>1, <3>1, <3>3, <3>4, Zenon
    <3>5. CASE b = Segs /\ delivered' = Append(delivered, m)
      <4> DEFINE n == Len(delivered)
      <4>1. /\ n \in Nat /\ DOMAIN delivered = 1 .. n /\ DOMAIN delivered' = 1 .. n + 1
            /\ delivered'[n + 1] = m
            /\ \A k \in 1 .. n : delivered'[k] = delivered[k]
        BY <2>1, <3>2, <3>5
      <4> HIDE DEF n
      <4>2. ASSUME NEW k \in DOMAIN delivered', NEW j \in DOMAIN delivered', k < j
            PROVE  delivered'[k] < delivered'[j]
        <5>1. k \in 1 .. n /\ (j = n + 1 \/ j \in 1 .. n)
          BY <4>1, <4>2
        <5> QED BY <1>1, <3>3, <4>1, <4>2, <5>1, Zenon
      <4>3. ASSUME NEW k \in DOMAIN delivered' PROVE delivered'[k] < m \/ delivered'[k] = m
        <5>1. k = n + 1 \/ k \in 1 .. n
          BY <4>1
        <5> QED BY <3>3, <4>1, <5>1, Zenon
      <4> QED BY <3>1, <3>5, <4>2, <4>3, Zenon
    <3> QED BY <2>3, <3>4, <3>5, Zenon
  <2> QED BY <2>1, <2>2, <2>3, Zenon
<1>4. CASE Incomplete
  <2>1. UNCHANGED delivered /\ rx'.msg = rx.msg /\ rx'.block = rx.block
    BY <1>4, Zenon DEF Incomplete, Typed, Receiver
  <2> QED BY <1>2, <2>1, Zenon
<1>5. CASE Other
  BY <1>5, Zenon DEF Other
<1>6. CASE ~Segment /\ ~Incomplete /\ ~Other
  <2>1. UNCHANGED <<rx, delivered>>
    BY <1>6, Zenon DEF Next, vars, Main, Radio, Timers, Ack, Find, Fill, Loop, Finish, AdvStart,
         AdvEnd, seg_retransmit, trans_ack, seg_ack, LoseSegment, LoseAck
  <2> QED BY <1>2, <2>1, Zenon
<1> QED BY <1>3, <1>4, <1>5, <1>6, Zenon DEF Segment

-----------------------------------------------------------------------------
(***************************************************************************)
(* Proofs about the sender of module Transport and the acknowledgements,   *)
(* for any number of messages, segments, contexts and attempts.            *)
(***************************************************************************)

(* The inductive invariants.                                               *)

\* One message is sent at a time, in the order in which main took them up; the
\* others wait with a stopped timer, and the callbacks of what their contexts sent
\* before are too few to start it.
Turns(t) ==
    /\ \A c, d \in Busy(t) : t[c].msg = t[d].msg => c = d
    /\ \A c, d \in Busy(t) : ~t[c].blocked /\ ~t[d].blocked => c = d
    /\ \A c, d \in Busy(t) : ~t[c].blocked /\ t[d].blocked => t[c].msg < t[d].msg

Waiting(t) ==
    \A c \in Ctxs : t[c].blocked =>
      /\ ~t[c].timer
      /\ \A i \in DOMAIN adv : adv[i].ctx = c => i <= (t[c].pending - 1) % 256

CallerInv ==
    /\ caller.at = "found" =>
         /\ ended[caller.msg] = "not yet"
         /\ tx[caller.ctx].nack = {}
         /\ \A c \in Ctxs : tx[c].msg < caller.msg
         /\ ~caller.blocked => Busy(tx) = {}
    /\ caller.at \in {"loop", "checked"} => ~tx[caller.ctx].blocked

\* m has been sent: no message that waits is older, nor one still to come.
SentMsg(m) ==
    /\ \A c \in Busy(tx) : m <= tx[c].msg /\ (tx[c].blocked => m # tx[c].msg)
    /\ caller.at = "found" => m < caller.msg
    /\ ended[m] # "not yet" \/ \E c \in Ctxs : tx[c].msg = m

SentInv ==
    /\ \A i \in DOMAIN adv : SentMsg(adv[i].msg)
    /\ \A i \in DOMAIN air : SentMsg(air[i].msg)
    /\ \A a \in acks : SentMsg(a.msg)
    /\ rx.msg # 0 => SentMsg(rx.msg)

NotYet == \A c \in Busy(tx) : ended[tx[c].msg] = "not yet"

SenderInv == Turns(tx) /\ Waiting(tx) /\ CallerInv /\ SentInv /\ NotYet

\* The receiver has every segment that is acknowledged.
PassedOn(m) == \E i \in DOMAIN delivered : delivered[i] = m

\* The segments of message m that are not in nack have been acknowledged.
Acknowledged(m, nack) ==
    \/ PassedOn(m)
    \/ /\ rx.msg = m /\ rx.in_use /\ Segs \ nack \subseteq rx.block
       /\ \A a \in acks : a.msg = m => a.block \subseteq rx.block
    \/ /\ rx.msg # m /\ nack = Segs
       /\ \A a \in acks : a.msg # m

AckInv ==
    /\ rx.msg # 0 /\ rx.block = Segs => PassedOn(rx.msg)
    /\ \A m \in Msgs : ended[m] = "ok" => PassedOn(m)
    /\ \A c \in Busy(tx) : Acknowledged(tx[c].msg, tx[c].nack)

\* The buffers of the advertiser, CONFIG_BT_MESH_ADV_BUF_COUNT, are fewer.
FewBuffers == Len(adv) <= 255

-----------------------------------------------------------------------------
(* The sender.                                                             *)

\* The contexts of the sender take turns.
LEMMA TurnsTouched ==
    ASSUME NEW t, NEW u, NEW c \in Ctxs, Turns(t), Touched(t, u, c)
    PROVE  Turns(u) /\ Busy(u) = Busy(t)
<1>1. Busy(u) = Busy(t)
  BY Zenon DEF Touched, Busy
<1>2. \A d \in Busy(t) : d \in Ctxs /\ u[d].msg = t[d].msg /\ u[d].blocked = t[d].blocked
  BY Zenon DEF Touched, Busy
<1> QED BY <1>1, <1>2, Zenon DEF Turns

\* When a message ends, the next one is unblocked, and still only one is sent.
LEMMA TurnsCompleted ==
    ASSUME NEW t \in Contexts, InUse(t), NEW u, NEW c \in Ctxs, Turns(t),
           t[c].nack # {}, ~t[c].blocked, Completed(t, u, c)
    PROVE  /\ Turns(u) /\ Busy(u) = Busy(t) \ {c}
           /\ \A d \in Busy(u) : u[d].msg = t[d].msg /\ u[d].nack = t[d].nack
           /\ \A d \in Ctxs : u[d].blocked => t[d].blocked
<1>1. Busy(u) = Busy(t) \ {c} /\ c \in Busy(t)
  BY Zenon DEF Completed, Busy
<1>2. ASSUME NEW d \in Busy(u)
      PROVE  /\ d \in Ctxs \ {c} /\ d \in Busy(t)
             /\ u[d].msg = t[d].msg /\ u[d].nack = t[d].nack
             /\ t[d].msg \in Nat /\ t[d].blocked
  <2>1. d \in Ctxs \ {c} /\ d \in Busy(t)
    BY <1>1, Zenon DEF Busy
  <2>2. u[d].msg = t[d].msg /\ u[d].nack = t[d].nack
    BY <2>1, Zenon DEF Completed
  <2>3. t[d].msg \in Nat
    BY <2>1, ContextFields, Constants, Zenon
  <2>4. t[d].blocked
    BY <1>1, <2>1, Zenon DEF Turns
  <2> QED BY <2>1, <2>2, <2>3, <2>4, Zenon
<1>3. ASSUME NEW d \in Busy(u), NEW e \in Busy(u), ~u[d].blocked
      PROVE  t[d].msg <= t[e].msg
  BY <1>2, <1>3, Zenon DEF Completed
<1>4. ASSUME NEW d \in Busy(u), NEW e \in Busy(u), ~u[d].blocked, ~u[e].blocked
      PROVE  d = e
  <2>1. t[d].msg <= t[e].msg /\ t[e].msg <= t[d].msg
    BY <1>3, <1>4, Zenon
  <2>2. t[d].msg = t[e].msg
    BY <1>2, <2>1
  <2> QED BY <1>2, <2>2, Zenon DEF Turns
<1>5. ASSUME NEW d \in Busy(u), NEW e \in Busy(u), ~u[d].blocked, u[e].blocked
      PROVE  u[d].msg < u[e].msg
  <2>1. t[d].msg <= t[e].msg /\ d # e
    BY <1>3, <1>5, Zenon
  <2>2. t[d].msg # t[e].msg
    BY <1>2, <2>1, Zenon DEF Turns
  <2>3. t[d].msg < t[e].msg
    BY <1>2, <2>1, <2>2
  <2> QED BY <1>2, <2>3, Zenon
<1>6. \A d, e \in Busy(u) : u[d].msg = u[e].msg => d = e
  BY <1>2 DEF Turns
<1>7. Turns(u)
  BY <1>4, <1>5, <1>6, Zenon DEF Turns
<1>8. \A d \in Ctxs : u[d].blocked => t[d].blocked
  BY Zenon DEF Completed
<1> QED BY <1>1, <1>2, <1>7, <1>8, Zenon

\* SentMsg of the next state.
StillSent(m) ==
    /\ \A c \in Busy(tx') : m <= tx'[c].msg /\ (tx'[c].blocked => m # tx'[c].msg)
    /\ (caller'.at = "found" => m < caller'.msg)
    /\ ended'[m] # "not yet" \/ \E c \in Ctxs : tx'[c].msg = m

\* A message that has been sent stays one.
LEMMA SentTouched ==
    ASSUME NEW m \in Msgs, SentMsg(m), NEW c \in Ctxs, Turns(tx), Touched(tx, tx', c),
           UNCHANGED ended, caller'.at = "found" => UNCHANGED caller
    PROVE  StillSent(m)
<1>1. Busy(tx') = Busy(tx)
  BY TurnsTouched, Zenon
<1>2. \A d \in Ctxs : tx'[d].msg = tx[d].msg /\ tx'[d].blocked = tx[d].blocked
  BY Zenon DEF Touched
<1>3. \A d \in Busy(tx) : d \in Ctxs
  BY Zenon DEF Busy
<1> QED BY <1>1, <1>2, <1>3, Zenon DEF SentMsg, StillSent

\* What has been sent stays so when a message ends: it is not newer than the next.
LEMMA SentEnds ==
    ASSUME Typed, NEW m \in Msgs, SentMsg(m), NEW c \in Ctxs, NEW r \in Results \ {"not yet"},
           Turns(tx), ~tx[c].blocked, EndsWith(c, r), UNCHANGED caller
    PROVE  StillSent(m)
<1>0. tx \in Contexts /\ InUse(tx) /\ tx[c].nack # {} /\ Completed(tx, tx', c)
  BY Zenon DEF Typed, EndsWith
<1>1. /\ Busy(tx') = Busy(tx) \ {c}
      /\ \A d \in Busy(tx') : tx'[d].msg = tx[d].msg
      /\ \A d \in Ctxs : tx'[d].blocked => tx[d].blocked
  <2>1. /\ Busy(tx') = Busy(tx) \ {c}
        /\ \A d \in Busy(tx') : tx'[d].msg = tx[d].msg /\ tx'[d].nack = tx[d].nack
        /\ \A d \in Ctxs : tx'[d].blocked => tx[d].blocked
    BY <1>0, TurnsCompleted, Zenon
  <2> QED BY <2>1, Zenon
<1>2. tx[c].msg \in Msgs
  BY <1>0, ContextFields, Constants, Zenon DEF InUse
<1>3. ended'[tx[c].msg] = r /\ \A n \in Msgs : n # tx[c].msg => ended'[n] = ended[n]
  BY <1>2, EndedFacts, Zenon DEF EndsWith
<1>4. ended'[m] # "not yet" \/ \E d \in Ctxs : tx'[d].msg = m
  <2>1. CASE m = tx[c].msg
    BY <1>3, <2>1, Zenon
  <2>2. CASE m # tx[c].msg
    <3>1. CASE ended[m] # "not yet"
      BY <1>3, <2>2, <3>1, Zenon
    <3>2. CASE \E d \in Ctxs : tx[d].msg = m
      BY <1>0, <2>2, <3>2, Zenon DEF Completed
    <3> QED BY <3>1, <3>2, Zenon DEF SentMsg
  <2> QED BY <2>1, <2>2, Zenon
<1>5. \A d \in Busy(tx') : d \in Ctxs
  BY Zenon DEF Busy
<1> QED BY <1>1, <1>4, <1>5, Zenon DEF SentMsg, StillSent

\* What has been sent stays so when main takes up a message, which is newer.
LEMMA SentFind ==
    ASSUME NumberFacts, Typed, NEW m \in Msgs, SentMsg(m), Find
    PROVE  StillSent(m)
<1>0. UNCHANGED tx /\ caller = Returned
  BY Zenon DEF Find
<1>1. ASSUME UNCHANGED caller, NEW n \in Msgs, ended' = [ended EXCEPT ![n] = "busy"]
      PROVE  StillSent(m)
  <2>1. ended'[n] = "busy" /\ \A k \in Msgs : k # n => ended'[k] = ended[k]
    BY <1>1, EndedFacts, Zenon DEF Results
  <2> QED BY <1>0, <1>1, <2>1, Zenon DEF SentMsg, StillSent, Busy
<1>2. ASSUME UNCHANGED ended, caller'.msg \in Msgs,
             \A n \in caller'.msg .. MESSAGES :
               ended[n] = "not yet" /\ \A c \in Ctxs : tx[c].msg # n
      PROVE  StillSent(m)
  <2>1. m \notin caller'.msg .. MESSAGES
    BY <1>2, Zenon DEF SentMsg
  <2>2. m < caller'.msg
    <3>1. m \in 0 .. MESSAGES /\ caller'.msg \in 0 .. MESSAGES /\ MESSAGES \in Nat
      BY <1>2, Constants, Zenon
    <3> QED BY ONLY <2>1, <3>1
  <2> QED BY <1>0, <1>2, <2>2, Zenon DEF SentMsg, StillSent, Busy
<1> QED BY <1>1, <1>2, FindFacts, Zenon

\* What has been sent stays so when main fills in the context it has found.
LEMMA SentFill ==
    ASSUME Typed, CallerInv, NEW m \in Msgs, SentMsg(m), Fill
    PROVE  StillSent(m)
<1> DEFINE c == caller.ctx
<1>1. /\ caller.at = "found" /\ c \in Ctxs /\ UNCHANGED ended
      /\ \A d \in Ctxs : d # c => tx'[d] = tx[d]
      /\ tx'[c].msg = caller.msg /\ caller'.at # "found" /\ caller.msg \in Msgs
  BY FillFacts, Zenon DEF Fill
<1>2. m < caller.msg /\ m # caller.msg /\ m <= caller.msg /\ tx[c].nack = {}
  <2>1. m < caller.msg /\ tx[c].nack = {}
    BY <1>1, Zenon DEF SentMsg, CallerInv
  <2>2. m \in Nat /\ caller.msg \in Nat
    BY <1>1, Constants, Zenon
  <2> QED BY <2>1, <2>2
<1> HIDE DEF c
<1>3. tx[c].msg # m
  BY <1>1, <1>2, Constants, Zenon DEF Typed, InUse
<1>4. ASSUME NEW d \in Busy(tx')
      PROVE  m <= tx'[d].msg /\ (tx'[d].blocked => m # tx'[d].msg)
  <2>1. CASE d = c
    BY <1>1, <1>2, <2>1, Zenon
  <2>2. CASE d # c
    BY <1>1, <2>2, Zenon DEF Busy, SentMsg
  <2> QED BY <2>1, <2>2, Zenon
<1>5. ended'[m] # "not yet" \/ \E d \in Ctxs : tx'[d].msg = m
  BY <1>1, <1>3, Zenon DEF SentMsg
<1> QED BY <1>1, <1>4, <1>5, Zenon DEF StillSent

\* The message of the context that may send has been sent.
LEMMA SentNew ==
    ASSUME Typed, CallerInv, Turns(tx), NEW c \in Busy(tx), ~tx[c].blocked
    PROVE  SentMsg(tx[c].msg)
<1>1. c \in Ctxs /\ tx[c].msg \in Nat
  BY ContextFields, Constants, Zenon DEF Busy, Typed
<1>2. ASSUME NEW d \in Busy(tx)
      PROVE  tx[c].msg <= tx[d].msg /\ (tx[d].blocked => tx[c].msg # tx[d].msg)
  <2>0. tx[d].msg \in Nat /\ tx[d].blocked \in BOOLEAN
    BY ContextFields, Constants, Zenon DEF Busy, Typed
  <2>1. CASE tx[d].blocked
    <3>1. tx[c].msg < tx[d].msg
      BY <2>1, Zenon DEF Turns
    <3> QED BY <1>1, <2>0, <3>1
  <2>2. CASE ~tx[d].blocked
    <3>1. c = d
      BY <2>2, Zenon DEF Turns
    <3> QED BY <1>1, <2>2, <3>1
  <2> QED BY <2>1, <2>2, Zenon
<1> QED BY <1>1, <1>2, Zenon DEF SentMsg, CallerInv

\* The messages that wait go on waiting.
LEMMA WaitingGoesOn ==
    ASSUME Waiting(tx), NEW c \in Ctxs, ~tx[c].blocked, GoesOn(c)
    PROVE  Waiting(tx)'
<1> SUFFICES ASSUME NEW d \in Ctxs, tx'[d].blocked
             PROVE  /\ ~tx'[d].timer
                    /\ \A i \in DOMAIN adv' : adv'[i].ctx = d =>
                                                i <= (tx'[d].pending - 1) % 256
  BY Zenon DEF Waiting
<1>1. d # c /\ tx'[d] = tx[d]
  BY Zenon DEF GoesOn, Touched
<1>2. \A i \in DOMAIN adv' : adv'[i].ctx = d => i \in DOMAIN adv /\ adv'[i] = adv[i]
  BY <1>1, Zenon DEF GoesOn, Queues
<1> QED BY <1>1, <1>2 DEF Waiting

\* The contexts that still wait when a message ends have not been written.
LEMMA WaitingEnds ==
    ASSUME Waiting(tx), NEW c \in Ctxs, NEW r, EndsWith(c, r)
    PROVE  Waiting(tx)'
<1> SUFFICES ASSUME NEW d \in Ctxs, tx'[d].blocked
             PROVE  /\ ~tx'[d].timer
                    /\ \A i \in DOMAIN adv' : adv'[i].ctx = d =>
                                                i <= (tx'[d].pending - 1) % 256
  BY Zenon DEF Waiting
<1>1. adv' = adv /\ d # c
  BY Zenon DEF EndsWith, Completed
<1>2. tx[d].blocked /\ tx'[d].timer = tx[d].timer /\ tx'[d].pending = tx[d].pending
  BY <1>1, Zenon DEF EndsWith, Completed
<1> QED BY <1>1, <1>2 DEF Waiting

\* A counter that is large enough for every place in the queue stays so, and is
\* not 0, when the queue moves up by one.
LEMMA Shift ==
    ASSUME NEW p \in 0 .. 255, NEW i \in Nat, 1 <= i, i <= (p - 1) % 256
    PROVE  (p - 1) % 256 # 0 /\ i - 1 <= (((p - 1) % 256) - 1) % 256
OBVIOUS

\* A counter at 0 goes on with 255.
LEMMA BelowZero == \A p \in 0 .. 255 : p < 1 => (p - 1) % 256 = 255
OBVIOUS

\* A callback for a context that waits does not bring its count to zero.
LEMMA WaitingAdvEnd ==
    ASSUME Typed, Waiting(tx), AdvEnd
    PROVE  Waiting(tx)'
<1> SUFFICES ASSUME NEW d \in Ctxs, tx'[d].blocked
             PROVE  /\ ~tx'[d].timer
                    /\ \A i \in DOMAIN adv' : adv'[i].ctx = d =>
                                                i <= (tx'[d].pending - 1) % 256
  BY Zenon DEF Waiting
<1> DEFINE c == adv[1].ctx
<1> DEFINE p == tx[d].pending
<1>1. /\ Len(adv) # 0 /\ c \in Ctxs /\ adv' = Tail(adv) /\ Touched(tx, tx', c)
      /\ tx[c].nack # {} => /\ tx'[c].pending = (tx[c].pending - 1) % 256
                            /\ (tx'[c].timer => tx[c].timer \/ tx'[c].pending = 0)
  BY AdvEndFacts, Zenon
<1>2. tx[d].blocked /\ tx[d].nack # {} /\ (d # c => tx'[d] = tx[d])
  BY <1>1, Zenon DEF Touched, Typed, InUse
<1>3. ~tx[d].timer /\ \A i \in DOMAIN adv : adv[i].ctx = d => i <= (p - 1) % 256
  BY <1>2, Zenon DEF Waiting
<1>4. p \in 0 .. 255 /\ 1 \in DOMAIN adv
  <2>1. tx \in Contexts /\ adv \in Seq(Queued)
    BY Zenon DEF Typed
  <2>2. p \in 0 .. 255
    BY <2>1, ContextFields, Zenon
  <2>3. DOMAIN adv = 1 .. Len(adv) /\ Len(adv) \in Nat
    BY <2>1
  <2>4. 1 \in 1 .. Len(adv)
    BY <1>1, <2>3
  <2> QED BY <2>2, <2>3, <2>4, Zenon
<1>5. ASSUME NEW i \in DOMAIN adv', adv'[i].ctx = d
      PROVE  i \in Nat /\ 1 <= i + 1 /\ i + 1 <= (p - 1) % 256
  <2>1. adv \in Seq(Queued)
    BY Zenon DEF Typed
  <2>2. i \in Nat /\ i + 1 \in DOMAIN adv /\ adv'[i] = adv[i + 1]
    BY <1>1, <2>1
  <2> QED BY <1>3, <1>5, <2>2
<1> HIDE DEF c, p
<1>6. CASE d # c
  <2>1. tx'[d] = tx[d]
    BY <1>2, <1>6, Zenon
  <2>2. ASSUME NEW i \in DOMAIN adv', adv'[i].ctx = d PROVE i <= (p - 1) % 256
    <3>1. i \in Nat /\ i + 1 <= (p - 1) % 256 /\ (p - 1) % 256 \in 0 .. 255
      BY <1>4, <1>5, <2>2, Byte
    <3> QED BY ONLY <3>1
  <2> QED BY <1>3, <2>1, <2>2 DEF p
<1>7. CASE d = c
  <2>1. tx'[d].pending = (p - 1) % 256 /\ (tx'[d].timer => tx[d].timer \/ tx'[d].pending = 0)
    BY <1>1, <1>2, <1>7, Zenon DEF p
  <2>2. 1 <= (p - 1) % 256
    BY <1>3, <1>4, <1>7, Zenon DEF c
  <2>3. (p - 1) % 256 # 0
    BY <1>4, <2>2, Shift
  <2>4. ASSUME NEW i \in DOMAIN adv', adv'[i].ctx = d
        PROVE  i <= (((p - 1) % 256) - 1) % 256
    <3>1. i + 1 \in Nat /\ i \in Nat /\ 1 <= i + 1 /\ i + 1 <= (p - 1) % 256
      BY <1>5, <2>4
    <3>2. (i + 1) - 1 <= (((p - 1) % 256) - 1) % 256
      BY <1>4, <3>1, Shift
    <3>3. (i + 1) - 1 = i
      BY ONLY <3>1
    <3> QED BY <3>2, <3>3, Zenon
  <2> QED BY <1>3, <2>1, <2>3, <2>4
<1> QED BY <1>6, <1>7, Zenon

\* The start of a buffer changes no context that waits.
LEMMA WaitingAdvStart ==
    ASSUME Typed, Waiting(tx), AdvStart
    PROVE  Waiting(tx)'
BY AdvStartFacts DEF Waiting, AdvStart

\* A message that has to wait finds at most 255 buffers in the queue.
LEMMA WaitingFill ==
    ASSUME Typed, Waiting(tx), FewBuffers, Fill
    PROVE  Waiting(tx)'
<1> SUFFICES ASSUME NEW d \in Ctxs, tx'[d].blocked
             PROVE  /\ ~tx'[d].timer
                    /\ \A i \in DOMAIN adv' : adv'[i].ctx = d =>
                                                i <= (tx'[d].pending - 1) % 256
  BY Zenon DEF Waiting
<1> DEFINE c == caller.ctx
<1>1. /\ UNCHANGED adv /\ tx'[c].pending = 0 /\ ~tx'[c].timer
      /\ (d # c => tx'[d] = tx[d])
  BY FillFacts, Zenon DEF Fill
<1> HIDE DEF c
<1>2. CASE d # c
  BY <1>1, <1>2 DEF Waiting
<1>3. CASE d = c
  <2>1. (tx'[d].pending - 1) % 256 = 255
    <3>1. tx'[d].pending \in 0 .. 255 /\ tx'[d].pending < 1
      BY <1>1, <1>3
    <3> QED BY <3>1, BelowZero
  <2>2. \A i \in DOMAIN adv : i <= 255
    <3>1. adv \in Seq(Queued) /\ Len(adv) <= 255
      BY Zenon DEF Typed, FewBuffers
    <3>2. DOMAIN adv = 1 .. Len(adv) /\ Len(adv) \in Nat
      BY <3>1
    <3> QED BY ONLY <3>1, <3>2
  <2> QED BY <1>1, <1>3, <2>1, <2>2
<1> QED BY <1>2, <1>3, Zenon

\* What main has found stays true until it fills in the context.
LEMMA CallerTouched ==
    ASSUME CallerInv, Turns(tx), NEW c \in Ctxs, Touched(tx, tx', c), caller \in Caller,
           UNCHANGED ended,
           \/ UNCHANGED caller
           \/ caller'.at = "returned"
           \/ /\ caller.at = "loop" /\ caller'.at \in {"loop", "checked"}
              /\ caller'.ctx = caller.ctx
    PROVE  CallerInv'
<1>1. Busy(tx') = Busy(tx)
  BY TurnsTouched, Zenon
<1>2. caller.ctx \in Ctxs
  BY Zenon DEF Caller
<1>3. \A d \in Ctxs : /\ tx'[d].msg = tx[d].msg /\ tx'[d].blocked = tx[d].blocked
                      /\ (tx[d].nack = {} => tx'[d].nack = {})
  BY Zenon DEF Touched
<1>4. CASE UNCHANGED caller
  <2>1. ASSUME caller.at = "found"
        PROVE  /\ ended'[caller.msg] = "not yet" /\ tx'[caller.ctx].nack = {}
               /\ \A d \in Ctxs : tx'[d].msg < caller.msg
               /\ (~caller.blocked => Busy(tx') = {})
    BY <1>1, <1>2, <1>3, <2>1, Zenon DEF CallerInv
  <2>2. caller.at \in {"loop", "checked"} => ~tx'[caller.ctx].blocked
    BY <1>2, <1>3, Zenon DEF CallerInv
  <2> QED BY <1>4, <2>1, <2>2, Zenon DEF CallerInv
<1>5. CASE caller'.at = "returned"
  BY <1>5, Zenon DEF CallerInv
<1>6. CASE /\ caller.at = "loop" /\ caller'.at \in {"loop", "checked"}
           /\ caller'.ctx = caller.ctx
  <2>1. ~tx'[caller.ctx].blocked
    BY <1>2, <1>3, <1>6, Zenon DEF CallerInv
  <2> QED BY <1>6, <2>1, Zenon DEF CallerInv
<1> QED BY <1>4, <1>5, <1>6, Zenon

\* What main has found is still free when another thread ends a message.
LEMMA CallerEnds ==
    ASSUME Typed, CallerInv, Turns(tx), NEW c \in Ctxs, NEW r \in Results,
           ~tx[c].blocked, EndsWith(c, r), UNCHANGED caller
    PROVE  CallerInv'
<1>0. tx \in Contexts /\ InUse(tx) /\ tx[c].nack # {} /\ Completed(tx, tx', c)
  BY Zenon DEF Typed, EndsWith
<1>1. caller.ctx \in Ctxs /\ (caller.at = "found" => caller.msg \in Msgs)
  BY Zenon DEF Typed, Caller
<1>2. /\ Busy(tx') = Busy(tx) \ {c}
      /\ \A d \in Ctxs : tx'[d].blocked => tx[d].blocked
  BY <1>0, TurnsCompleted, Zenon
<1>3. \A d \in Ctxs : tx'[d].msg = tx[d].msg \/ tx'[d].msg = 0
  BY <1>0, Zenon DEF Completed
<1>4. \A d \in Ctxs : tx[d].nack = {} => tx'[d].nack = {}
  BY <1>0, Zenon DEF Completed
<1>5. tx[c].msg \in Msgs
  BY <1>0, ContextFields, Constants, Zenon DEF InUse
<1>6. \A n \in Msgs : n # tx[c].msg => ended'[n] = ended[n]
  BY <1>5, EndedFacts, Zenon DEF EndsWith
<1>7. ASSUME caller.at = "found"
      PROVE  /\ ended'[caller.msg] = "not yet" /\ tx'[caller.ctx].nack = {}
             /\ \A d \in Ctxs : tx'[d].msg < caller.msg
             /\ (~caller.blocked => Busy(tx') = {})
  <2>1. /\ ended[caller.msg] = "not yet" /\ tx[caller.ctx].nack = {}
        /\ \A d \in Ctxs : tx[d].msg < caller.msg
        /\ (~caller.blocked => Busy(tx) = {})
    BY <1>7, Zenon DEF CallerInv
  <2>2. caller.msg \in Nat /\ caller.msg # 0 /\ caller.msg \in Msgs /\ tx[c].msg \in Nat
    BY <1>1, <1>5, <1>7, Constants, Zenon
  <2>3. 0 < caller.msg /\ caller.msg # tx[c].msg
    <3>1. tx[c].msg < caller.msg
      BY <2>1, Zenon
    <3> QED BY ONLY <2>2, <3>1
  <2>4. ended'[caller.msg] = "not yet"
    BY <1>6, <2>1, <2>2, <2>3, Zenon
  <2>5. \A d \in Ctxs : tx'[d].msg < caller.msg
    BY <1>3, <2>1, <2>3, Zenon
  <2> QED BY <1>1, <1>2, <1>4, <2>1, <2>4, <2>5, Zenon
<1>8. caller.at \in {"loop", "checked"} => ~tx'[caller.ctx].blocked
  BY <1>1, <1>2, Zenon DEF CallerInv
<1> QED BY <1>7, <1>8, Zenon DEF CallerInv

\* Find finds a context for a message that is newer than all others.
LEMMA CallerFind ==
    ASSUME NumberFacts, Typed, Find
    PROVE  CallerInv'
<1>0. UNCHANGED tx /\ caller = Returned
  BY Zenon DEF Find
<1>1. CASE UNCHANGED caller
  BY <1>0, <1>1, Zenon DEF CallerInv, Returned
<1>2. ASSUME caller' \in Caller, caller'.at = "found", caller'.msg \in Msgs, UNCHANGED ended,
             \A n \in caller'.msg .. MESSAGES :
               ended[n] = "not yet" /\ \A c \in Ctxs : tx[c].msg # n,
             tx[caller'.ctx].nack = {}, ~caller'.blocked => Busy(tx) = {}
      PROVE  CallerInv'
  <2> DEFINE m == caller'.msg
  <2>1. m \in m .. MESSAGES
    <3>1. m \in 0 .. MESSAGES /\ MESSAGES \in Nat
      BY <1>2, Constants, Zenon
    <3> QED BY ONLY <3>1
  <2>2. ASSUME NEW c \in Ctxs PROVE tx[c].msg < m
    <3>1. tx[c].msg \in 0 .. MESSAGES /\ m \in 0 .. MESSAGES /\ MESSAGES \in Nat
      BY <1>2, ContextFields, Constants, Zenon DEF Typed
    <3>2. tx[c].msg \notin m .. MESSAGES
      BY <1>2, Zenon
    <3> QED BY ONLY <3>1, <3>2
  <2> QED BY <1>0, <1>2, <2>1, <2>2, Zenon DEF CallerInv, Busy
<1> QED BY <1>1, <1>2, FindFacts, Zenon

\* Fill leaves main with a context that is not blocked, if it goes on.
LEMMA CallerFill ==
    ASSUME Typed, Fill
    PROVE  CallerInv'
BY FillFacts, Zenon DEF CallerInv

\* The message that main fills in is newer than all others, and waits for them.
LEMMA TurnsFill ==
    ASSUME Typed, CallerInv, Turns(tx), Fill
    PROVE  /\ Turns(tx') /\ Busy(tx') = Busy(tx) \cup {caller.ctx}
           /\ caller.ctx \notin Busy(tx)
           /\ \A d \in Busy(tx) : tx'[d] = tx[d] /\ tx[d].msg < caller.msg
<1> DEFINE c == caller.ctx
<1>1. /\ caller.at = "found" /\ c \in Ctxs /\ caller.msg \in Msgs
      /\ \A d \in Ctxs : d # c => tx'[d] = tx[d]
      /\ tx'[c].msg = caller.msg /\ tx'[c].nack = Segs /\ tx'[c].blocked = caller.blocked
  BY FillFacts, Zenon
<1>2. /\ tx[c].nack = {} /\ \A d \in Ctxs : tx[d].msg < caller.msg
      /\ (~caller.blocked => Busy(tx) = {})
  BY <1>1, Zenon DEF CallerInv
<1> HIDE DEF c
<1>3. Busy(tx') = Busy(tx) \cup {c} /\ c \notin Busy(tx)
  BY <1>1, <1>2, Constants, Zenon DEF Busy
<1>4. ASSUME NEW d \in Busy(tx)
      PROVE  /\ tx'[d] = tx[d] /\ tx[d].msg < caller.msg /\ tx[d].msg # caller.msg
             /\ caller.blocked
  <2>1. d \in Ctxs /\ d # c
    BY <1>3, Zenon DEF Busy
  <2>2. tx[d].msg \in Nat /\ caller.msg \in Nat
    BY <1>1, <2>1, ContextFields, Constants, Zenon DEF Typed
  <2>3. tx[d].msg < caller.msg
    BY <1>2, <2>1, Zenon
  <2>4. tx[d].msg # caller.msg
    BY ONLY <2>2, <2>3
  <2> QED BY <1>1, <1>2, <2>1, <2>3, <2>4, Zenon
<1>5. \A d, e \in Busy(tx') : tx'[d].msg = tx'[e].msg => d = e
  BY <1>1, <1>3, <1>4 DEF Turns
<1>6. \A d, e \in Busy(tx') : ~tx'[d].blocked /\ ~tx'[e].blocked => d = e
  BY <1>1, <1>3, <1>4, Zenon DEF Turns
<1>7. \A d, e \in Busy(tx') : ~tx'[d].blocked /\ tx'[e].blocked => tx'[d].msg < tx'[e].msg
  BY <1>1, <1>3, <1>4, Zenon DEF Turns
<1> QED BY <1>3, <1>4, <1>5, <1>6, <1>7, Zenon DEF Turns, c

\* Where the messages that have been sent come from.
LEMMA SentAll ==
    ASSUME Typed, SentInv, \A m \in Msgs : SentMsg(m) => StillSent(m),
           \A i \in DOMAIN adv' : \/ \E j \in DOMAIN adv : adv'[i].msg = adv[j].msg
                                  \/ StillSent(adv'[i].msg),
           \A i \in DOMAIN air' : \/ \E j \in DOMAIN air : air'[i].msg = air[j].msg
                                  \/ \E j \in DOMAIN adv : air'[i].msg = adv[j].msg,
           \A a \in acks' : \/ a \in acks
                            \/ a.msg = rx.msg /\ rx.msg # 0
                            \/ \E j \in DOMAIN air : a.msg = air[j].msg,
           \/ rx'.msg \in {0, rx.msg}
           \/ \E j \in DOMAIN air : rx'.msg = air[j].msg
    PROVE  SentInv'
<1>0. adv \in Seq(Queued) /\ air \in Seq(OnAir)
  BY Zenon DEF Typed
<1>1. \A j \in DOMAIN adv : adv[j].msg \in Msgs
  <2>1. \A j \in DOMAIN adv : adv[j] \in Queued
    BY <1>0
  <2> QED BY <2>1, Zenon DEF Queued
<1>2. \A j \in DOMAIN air : air[j].msg \in Msgs
  <2>1. \A j \in DOMAIN air : air[j] \in OnAir
    BY <1>0
  <2> QED BY <2>1, Zenon DEF OnAir
<1>3. (\A a \in acks : a.msg \in Msgs) /\ (rx.msg # 0 => rx.msg \in Msgs)
  BY Constants, Zenon DEF Typed, Receiver
<1>4. /\ \A j \in DOMAIN adv : StillSent(adv[j].msg)
      /\ \A j \in DOMAIN air : StillSent(air[j].msg)
      /\ \A a \in acks : StillSent(a.msg)
      /\ rx.msg # 0 => StillSent(rx.msg)
  BY <1>1, <1>2, <1>3, Zenon DEF SentInv
<1>5. /\ \A i \in DOMAIN adv' : StillSent(adv'[i].msg)
      /\ \A i \in DOMAIN air' : StillSent(air'[i].msg)
      /\ \A a \in acks' : StillSent(a.msg)
      /\ rx'.msg # 0 => StillSent(rx'.msg)
  BY <1>4, Zenon
<1> QED BY <1>5, Zenon DEF SentInv, SentMsg, StillSent

\* The sender's invariant when the message of a context goes on, or ends.
LEMMA SenderGoesOn ==
    ASSUME Typed, SenderInv, NEW c \in Ctxs, ~tx[c].blocked, GoesOn(c),
           UNCHANGED <<air, rx>>, acks' \subseteq acks,
           \/ UNCHANGED caller
           \/ caller'.at = "returned"
           \/ /\ caller.at = "loop" /\ caller'.at \in {"loop", "checked"}
              /\ caller'.ctx = caller.ctx
    PROVE  SenderInv'
<1>0. /\ Turns(tx) /\ Waiting(tx) /\ CallerInv /\ SentInv /\ NotYet /\ caller \in Caller
      /\ tx \in Contexts /\ InUse(tx)
  BY Zenon DEF SenderInv, Typed
<1>1. Touched(tx, tx', c) /\ Queues(c, tx[c].msg) /\ UNCHANGED ended
  BY Zenon DEF GoesOn
<1>2. Turns(tx') /\ Busy(tx') = Busy(tx)
  BY <1>0, <1>1, TurnsTouched, Zenon
<1>3. Waiting(tx)'
  BY <1>0, WaitingGoesOn, Zenon
<1>4. CallerInv'
  BY <1>0, <1>1, CallerTouched, Zenon
<1>5. caller'.at = "found" => UNCHANGED caller
  BY Zenon
<1>6. \A m \in Msgs : SentMsg(m) => StillSent(m)
  BY <1>0, <1>1, <1>5, SentTouched, Zenon
<1>7. ASSUME NEW i \in DOMAIN adv'
      PROVE  \/ \E j \in DOMAIN adv : adv'[i].msg = adv[j].msg
             \/ StillSent(adv'[i].msg)
  <2>1. CASE i \in DOMAIN adv /\ adv'[i] = adv[i]
    BY <2>1, Zenon
  <2>2. CASE adv'[i].msg = tx[c].msg
    <3>1. adv'[i].msg \in Msgs
      <4>1. adv' \in Seq(Queued)
        BY <1>1, Zenon DEF Queues
      <4>2. adv'[i] \in Queued
        BY <4>1
      <4> QED BY <4>2, Zenon DEF Queued
    <3>2. tx[c].msg \in Msgs /\ c \in Busy(tx)
      BY <1>0, <2>2, <3>1, Constants, Zenon DEF InUse, Busy
    <3>3. SentMsg(tx[c].msg)
      BY <1>0, <3>2, SentNew, Zenon
    <3> QED BY <1>6, <2>2, <3>2, <3>3, Zenon
  <2> QED BY <1>1, <2>1, <2>2, Zenon DEF Queues
<1>8. SentInv'
  BY <1>0, <1>6, <1>7, SentAll, Zenon
<1>9. NotYet'
  BY <1>0, <1>1, <1>2, Zenon DEF NotYet, Touched, Busy
<1> QED BY <1>2, <1>3, <1>4, <1>8, <1>9, Zenon DEF SenderInv

\* The sender's invariant when a message ends.
LEMMA SenderEnds ==
    ASSUME Typed, SenderInv, NEW c \in Ctxs, NEW r \in Results \ {"not yet"},
           ~tx[c].blocked, EndsWith(c, r), UNCHANGED <<air, rx, caller>>, acks' \subseteq acks
    PROVE  SenderInv'
<1>0. /\ Turns(tx) /\ Waiting(tx) /\ CallerInv /\ SentInv /\ NotYet
      /\ tx \in Contexts /\ InUse(tx)
  BY Zenon DEF SenderInv, Typed
<1>1. tx[c].nack # {} /\ Completed(tx, tx', c) /\ UNCHANGED adv
  BY Zenon DEF EndsWith
<1>2. /\ Turns(tx') /\ Busy(tx') = Busy(tx) \ {c}
      /\ \A d \in Busy(tx') : tx'[d].msg = tx[d].msg /\ tx'[d].nack = tx[d].nack
  BY <1>0, <1>1, TurnsCompleted, Zenon
<1>3. Waiting(tx)'
  BY <1>0, WaitingEnds, Zenon
<1>4. CallerInv'
  BY <1>0, CallerEnds, Zenon
<1>5. \A m \in Msgs : SentMsg(m) => StillSent(m)
  BY <1>0, SentEnds, Zenon
<1>6. SentInv'
  BY <1>0, <1>1, <1>5, SentAll, Zenon
<1>7. NotYet'
  <2> SUFFICES ASSUME NEW d \in Busy(tx') PROVE ended'[tx'[d].msg] = "not yet"
    BY Zenon DEF NotYet
  <2>1. d \in Busy(tx) /\ d # c /\ c \in Busy(tx) /\ d \in Ctxs /\ tx'[d].msg = tx[d].msg
    BY <1>1, <1>2, Zenon DEF Busy
  <2>2. tx[d].msg # tx[c].msg /\ ended[tx[d].msg] = "not yet"
    BY <1>0, <2>1, Zenon DEF Turns, NotYet
  <2>3. tx[d].msg \in Msgs /\ tx[c].msg \in Msgs
    BY <1>0, <1>1, <2>1, ContextFields, Constants, Zenon DEF InUse, Busy
  <2>4. \A n \in Msgs : n # tx[c].msg => ended'[n] = ended[n]
    BY <2>3, EndedFacts, Zenon DEF EndsWith
  <2> QED BY <2>1, <2>2, <2>3, <2>4, Zenon
<1> QED BY <1>2, <1>3, <1>4, <1>6, <1>7, Zenon DEF SenderInv

\* A context whose timer has run, or that gets an acknowledgement, does not wait.
LEMMA MaySend ==
    ASSUME Typed, SenderInv, NEW c \in Ctxs
    PROVE  /\ tx[c].timer => ~tx[c].blocked
           /\ \A a \in acks : a.msg = tx[c].msg /\ tx[c].nack # {} => ~tx[c].blocked
<1>1. tx[c].timer => ~tx[c].blocked
  BY Zenon DEF SenderInv, Waiting
<1>2. ASSUME NEW a \in acks, a.msg = tx[c].msg, tx[c].nack # {} PROVE ~tx[c].blocked
  <2>1. SentMsg(a.msg) /\ c \in Busy(tx)
    BY <1>2, Zenon DEF SenderInv, SentInv, Busy
  <2> QED BY <1>2, <2>1, Zenon DEF SentMsg
<1> QED BY <1>1, <1>2, Zenon

\* The sender's invariant when the sender does nothing.
LEMMA SenderSame ==
    ASSUME Typed, SenderInv, UNCHANGED <<caller, tx, adv, ended>>,
           \A i \in DOMAIN air' : \E j \in DOMAIN air : air'[i].msg = air[j].msg,
           \A a \in acks' : \/ a \in acks
                            \/ a.msg = rx.msg /\ rx.msg # 0
                            \/ \E j \in DOMAIN air : a.msg = air[j].msg,
           \/ rx'.msg \in {0, rx.msg}
           \/ \E j \in DOMAIN air : rx'.msg = air[j].msg
    PROVE  SenderInv'
<1>1. Turns(tx)' /\ Waiting(tx)' /\ CallerInv' /\ NotYet'
  BY ZenonT(40) DEF SenderInv, Turns, Waiting, CallerInv, NotYet, Busy
<1>2. \A m \in Msgs : SentMsg(m) => StillSent(m)
  BY Zenon DEF SentMsg, StillSent, Busy
<1>3. SentInv
  BY Zenon DEF SenderInv
<1>4. SentInv'
  BY <1>2, <1>3, SentAll, Zenon
<1> QED BY <1>1, <1>4, Zenon DEF SenderInv

\* The sender's invariant when main takes up a message.
LEMMA SenderFind ==
    ASSUME NumberFacts, Typed, SenderInv, Find
    PROVE  SenderInv'
<1>0. UNCHANGED <<tx, adv, air, acks, rx>>
  BY Zenon DEF Find
<1>1. Turns(tx)' /\ Waiting(tx)'
  BY <1>0 DEF SenderInv, Turns, Waiting, Busy
<1>2. CallerInv'
  BY CallerFind, Zenon
<1>3. SentInv'
  BY <1>0, SentFind, SentAll, Zenon DEF SenderInv
<1>4. NotYet'
  <2>1. CASE UNCHANGED ended
    BY <1>0, <2>1, Zenon DEF SenderInv, NotYet, Busy
  <2>2. ASSUME NEW m \in Msgs, \A c \in Ctxs : tx[c].msg # m, ended' = [ended EXCEPT ![m] = "busy"]
        PROVE  NotYet'
    <3> SUFFICES ASSUME NEW d \in Busy(tx) PROVE ended'[tx[d].msg] = "not yet"
      BY <1>0, Zenon DEF NotYet, Busy
    <3>1. d \in Ctxs /\ tx[d].nack # {} /\ ended[tx[d].msg] = "not yet"
      BY Zenon DEF SenderInv, NotYet, Busy
    <3>2. tx[d].msg \in Msgs /\ tx[d].msg # m
      BY <2>2, <3>1, ContextFields, Constants, Zenon DEF Typed, InUse
    <3>3. \A n \in Msgs : n # m => ended'[n] = ended[n]
      BY <2>2, EndedFacts, Zenon DEF Results
    <3> QED BY <3>1, <3>2, <3>3, Zenon
  <2> QED BY <2>1, <2>2, FindFacts, Zenon
<1> QED BY <1>1, <1>2, <1>3, <1>4, Zenon DEF SenderInv

\* The sender's invariant when main fills in a context.
LEMMA SenderFill ==
    ASSUME Typed, SenderInv, FewBuffers, Fill
    PROVE  SenderInv'
<1>0. /\ UNCHANGED <<adv, air, acks, rx, ended>> /\ caller.at = "found"
      /\ Turns(tx) /\ Waiting(tx) /\ CallerInv /\ SentInv /\ NotYet
  BY Zenon DEF Fill, SenderInv
<1>1. /\ Turns(tx') /\ Busy(tx') = Busy(tx) \cup {caller.ctx}
      /\ \A d \in Busy(tx) : tx'[d] = tx[d] /\ tx[d].msg < caller.msg
  BY <1>0, TurnsFill, Zenon
<1>2. Waiting(tx)' /\ CallerInv'
  BY <1>0, WaitingFill, CallerFill, Zenon
<1>3. SentInv'
  <2>1. \A m \in Msgs : SentMsg(m) => StillSent(m)
    BY <1>0, SentFill, Zenon
  <2> QED BY <1>0, <2>1, SentAll, Zenon
<1>4. tx'[caller.ctx].msg = caller.msg /\ ended[caller.msg] = "not yet"
  BY <1>0, FillFacts, Zenon DEF CallerInv
<1>5. NotYet'
  BY <1>0, <1>1, <1>4, Zenon DEF NotYet
<1> QED BY <1>1, <1>2, <1>3, <1>5, Zenon DEF SenderInv

\* The sender's invariant at the callback of a buffer.
LEMMA SenderAdvEnd ==
    ASSUME Typed, SenderInv, AdvEnd
    PROVE  SenderInv'
<1> DEFINE c == adv[1].ctx
<1>0. /\ UNCHANGED <<caller, air, acks, rx, ended>> /\ caller \in Caller
      /\ Turns(tx) /\ Waiting(tx) /\ CallerInv /\ SentInv /\ NotYet /\ adv \in Seq(Queued)
  BY Zenon DEF AdvEnd, SenderInv, Typed
<1>1. c \in Ctxs /\ Touched(tx, tx', c) /\ adv' = Tail(adv) /\ Len(adv) # 0
  BY AdvEndFacts, Zenon
<1> HIDE DEF c
<1>2. Turns(tx') /\ Busy(tx') = Busy(tx)
  BY <1>0, <1>1, TurnsTouched, Zenon
<1>3. Waiting(tx)' /\ CallerInv'
  BY <1>0, <1>1, WaitingAdvEnd, CallerTouched, Zenon
<1>4. \A m \in Msgs : SentMsg(m) => StillSent(m)
  BY <1>0, <1>1, SentTouched, Zenon
<1>5. \A i \in DOMAIN adv' : \E j \in DOMAIN adv : adv'[i].msg = adv[j].msg
  <2>1. \A i \in DOMAIN adv' : i + 1 \in DOMAIN adv /\ adv'[i] = adv[i + 1]
    BY <1>0, <1>1
  <2> QED BY <2>1, Zenon
<1>6. SentInv'
  BY <1>0, <1>4, <1>5, SentAll, Zenon
<1>7. NotYet'
  BY <1>0, <1>1, <1>2, ZenonT(40) DEF NotYet, Touched, Busy
<1> QED BY <1>2, <1>3, <1>6, <1>7, Zenon DEF SenderInv

\* The sender's invariant when a buffer goes on the air.
LEMMA SenderAdvStart ==
    ASSUME Typed, SenderInv, AdvStart
    PROVE  SenderInv'
<1>0. /\ UNCHANGED <<caller, tx, acks, rx, ended>> /\ SentInv /\ Waiting(tx)
  BY Zenon DEF AdvStart, SenderInv
<1>1. Turns(tx)' /\ CallerInv' /\ NotYet'
  BY <1>0, Zenon DEF SenderInv, Turns, CallerInv, NotYet, Busy
<1>2. Waiting(tx)'
  BY <1>0, WaitingAdvStart, Zenon
<1>3. \A m \in Msgs : SentMsg(m) => StillSent(m)
  BY <1>0, Zenon DEF SentMsg, StillSent, Busy
<1>4. SentInv'
  <2>1. /\ \A i \in DOMAIN adv' : \E j \in DOMAIN adv : adv'[i].msg = adv[j].msg
        /\ \A i \in DOMAIN air' : \/ \E j \in DOMAIN air : air'[i].msg = air[j].msg
                                  \/ \E j \in DOMAIN adv : air'[i].msg = adv[j].msg
    BY AdvStartFacts, Zenon
  <2> QED BY <1>0, <1>3, <2>1, SentAll, Zenon
<1> QED BY <1>1, <1>2, <1>4, Zenon DEF SenderInv

\* The sender's invariant holds initially.
LEMMA SenderInit == Init => SenderInv
<1> SUFFICES ASSUME Init PROVE SenderInv
  BY Zenon
<1>1. Busy(tx) = {} /\ \A c \in Ctxs : tx[c].blocked = FALSE
  BY Zenon DEF Init, Busy, Free
<1>2. caller.at = "returned"
  BY Zenon DEF Init, Returned
<1>3. adv = <<>> /\ air = <<>> /\ acks = {} /\ rx.msg = 0
  BY Zenon DEF Init, NoRx
<1>4. DOMAIN adv = {} /\ DOMAIN air = {}
  BY ONLY <1>3
<1>5. Turns(tx) /\ NotYet
  BY <1>1, Zenon DEF Turns, NotYet
<1>6. Waiting(tx)
  BY <1>1, Zenon DEF Waiting
<1>7. CallerInv
  BY <1>2, Zenon DEF CallerInv
<1>8. SentInv
  BY <1>3, <1>4, Zenon DEF SentInv
<1> QED BY <1>5, <1>6, <1>7, <1>8, Zenon DEF SenderInv

\* Every step keeps the sender's invariant.
LEMMA SenderStep ==
    ASSUME NumberFacts, Typed, SenderInv, FewBuffers, [Next]_vars
    PROVE  SenderInv'
<1>1. CASE Find
  BY <1>1, SenderFind, Zenon
<1>2. CASE Fill
  BY <1>2, SenderFill, Zenon
<1>3. CASE Loop
  <2>1. /\ caller.ctx \in Ctxs /\ GoesOn(caller.ctx) /\ caller.at = "loop"
        /\ caller'.at \in {"loop", "checked"} /\ caller'.ctx = caller.ctx
    BY <1>3, LoopFacts, Zenon
  <2>2. ~tx[caller.ctx].blocked /\ UNCHANGED <<air, rx, acks>>
    BY <1>3, <2>1, Zenon DEF SenderInv, CallerInv, Loop
  <2> QED BY <2>1, <2>2, SenderGoesOn, Zenon
<1>4. CASE Finish
  <2>1. caller.ctx \in Ctxs /\ GoesOn(caller.ctx) /\ caller'.at = "returned"
    BY <1>4, FinishFacts DEF Returned
  <2>2. ~tx[caller.ctx].blocked /\ UNCHANGED <<air, rx, acks>>
    BY <1>4, Zenon DEF SenderInv, CallerInv, Finish
  <2> QED BY <2>1, <2>2, SenderGoesOn, Zenon
<1>5. CASE AdvStart
  BY <1>5, SenderAdvStart, Zenon
<1>6. CASE AdvEnd
  BY <1>6, SenderAdvEnd, Zenon
<1>7. ASSUME NEW c \in Ctxs, seg_retransmit(c) PROVE SenderInv'
  <2>1. tx[c].timer /\ (GoesOn(c) \/ EndsWith(c, "timeout"))
    BY <1>7, RetransmitFacts, Zenon
  <2>2. ~tx[c].blocked
    BY <2>1, MaySend, Zenon
  <2>3. UNCHANGED <<caller, air, rx, acks>>
    BY <1>7, Zenon DEF seg_retransmit
  <2>4. "timeout" \in Results \ {"not yet"}
    BY Zenon DEF Results
  <2> QED BY <2>1, <2>2, <2>3, <2>4, SenderGoesOn, SenderEnds, Zenon
<1>8. ASSUME NEW i \in DOMAIN air, trans_seg(i) PROVE SenderInv'
  <2> DEFINE m == air[i].msg
  <2>1. UNCHANGED <<caller, tx, adv, ended>>
    BY <1>8, Zenon DEF trans_seg
  <2>2. \A k \in DOMAIN air' : \E j \in DOMAIN air : air'[k].msg = air[j].msg
    BY <1>8, TransSegFacts, Zenon DEF Fewer
  <2>3. /\ m \in Msgs
        /\ \/ UNCHANGED acks
           \/ acks' = acks \cup {[msg |-> m, block |-> Segs]}
        /\ \/ UNCHANGED rx
           \/ \E b \in SUBSET Segs : rx' = Received(m, b)
    BY <1>8, TransSegFacts, Zenon
  <2>4. \A a \in acks' : a \in acks \/ a.msg = m
    BY <2>3
  <2>5. rx' = rx \/ rx'.msg = m
    BY <2>3, ReceivedFacts
  <2> QED BY <2>1, <2>2, <2>4, <2>5, SenderSame, Zenon
<1>9. ASSUME NEW a \in acks, trans_ack(a) PROVE SenderInv'
  <2>0. UNCHANGED <<caller, air, rx>> /\ acks' \subseteq acks
    BY <1>9, Zenon DEF trans_ack
  <2>1. CASE UNCHANGED <<tx, adv, ended>>
    BY <2>0, <2>1, SenderSame, Zenon
  <2>2. ASSUME NEW c \in Ctxs, tx[c].msg = a.msg, tx[c].nack # {},
               GoesOn(c) \/ EndsWith(c, "timeout") \/ EndsWith(c, "ok")
        PROVE  SenderInv'
    <3>1. ~tx[c].blocked
      BY <2>2, MaySend, Zenon
    <3>2. {"timeout", "ok"} \subseteq Results \ {"not yet"}
      BY Zenon DEF Results
    <3> QED BY <2>0, <2>2, <3>1, <3>2, SenderGoesOn, SenderEnds, Zenon
  <2> QED BY <1>9, <2>1, <2>2, TransAckFacts, Zenon
<1>10. CASE seg_ack
  <2>1. UNCHANGED <<caller, tx, adv, ended, air, rx>> /\ rx.msg # 0
    BY <1>10, Zenon DEF seg_ack, Typed
  <2>2. \A a \in acks' : a \in acks \/ a.msg = rx.msg
    BY <1>10 DEF seg_ack, send_ack
  <2> QED BY <2>1, <2>2, SenderSame, Zenon
<1>11. CASE Incomplete
  <2>1. UNCHANGED <<caller, tx, adv, ended, air, acks>> /\ rx'.msg = rx.msg
    BY <1>11, Zenon DEF Incomplete, Typed, Receiver
  <2> QED BY <2>1, SenderSame, Zenon
<1>12. CASE Other
  <2>1. UNCHANGED <<caller, tx, adv, ended, air, acks>> /\ rx'.msg = 0
    BY <1>12, Zenon DEF Other, NoRx
  <2> QED BY <2>1, SenderSame, Zenon
<1>13. CASE LoseSegment
  <2>1. Fewer
    BY <1>13, FewerFacts, Zenon DEF LoseSegment, Typed
  <2>2. UNCHANGED <<caller, tx, adv, ended, acks, rx>>
    BY <1>13, Zenon DEF LoseSegment
  <2> QED BY <2>1, <2>2, SenderSame, Zenon DEF Fewer
<1>14. CASE LoseAck
  <2>1. UNCHANGED <<caller, tx, adv, ended, air, rx>> /\ acks' \subseteq acks
    BY <1>14, Zenon DEF LoseAck
  <2> QED BY <2>1, SenderSame, Zenon
<1>15. CASE UNCHANGED vars
  BY <1>15, SenderSame, Zenon DEF vars
<1> QED BY <1>1, <1>2, <1>3, <1>4, <1>5, <1>6, <1>7, <1>8, <1>9, <1>10, <1>11, <1>12,
           <1>13, <1>14, <1>15, Zenon
        DEF Next, Main, Radio, Timers, Segment, Ack

-----------------------------------------------------------------------------
(* Acknowledgements.                                                       *)

\* PassedOn and Acknowledged of the next state.
StillPassedOn(m) == \E i \in DOMAIN delivered' : delivered'[i] = m

StillAcknowledged(m, nack) ==
    \/ StillPassedOn(m)
    \/ /\ rx'.msg = m /\ rx'.in_use /\ Segs \ nack \subseteq rx'.block
       /\ \A a \in acks' : a.msg = m => a.block \subseteq rx'.block
    \/ /\ rx'.msg # m /\ nack = Segs
       /\ \A a \in acks' : a.msg # m

\* AckInv of the next state, from its parts.
LEMMA AckNext ==
    ASSUME rx'.msg # 0 /\ rx'.block = Segs => StillPassedOn(rx'.msg),
           \A m \in Msgs : ended'[m] = "ok" => StillPassedOn(m),
           \A c \in Busy(tx') : StillAcknowledged(tx'[c].msg, tx'[c].nack)
    PROVE  AckInv'
BY Zenon DEF AckInv, Acknowledged, PassedOn, StillAcknowledged, StillPassedOn

\* The sender goes on, or takes note of an acknowledgement.
LEMMA AckSender ==
    ASSUME AckInv, UNCHANGED <<rx, delivered>>, acks' \subseteq acks,
           \A m \in Msgs : ended'[m] = "ok" => ended[m] = "ok" \/ PassedOn(m),
           \A c \in Busy(tx') :
             /\ c \in Busy(tx) /\ tx'[c].msg = tx[c].msg
             /\ \/ tx'[c].nack = tx[c].nack
                \/ \E a \in acks : a.msg = tx[c].msg /\ tx'[c].nack = tx[c].nack \ a.block
    PROVE  AckInv'
<1>1. \A m : PassedOn(m) => StillPassedOn(m)
  BY Zenon DEF PassedOn, StillPassedOn
<1>2. /\ rx'.msg # 0 /\ rx'.block = Segs => StillPassedOn(rx'.msg)
      /\ \A m \in Msgs : ended'[m] = "ok" => StillPassedOn(m)
  BY <1>1, Zenon DEF AckInv
<1>3. ASSUME NEW c \in Busy(tx') PROVE StillAcknowledged(tx'[c].msg, tx'[c].nack)
  <2> DEFINE m == tx[c].msg
  <2> DEFINE n == tx[c].nack
  <2>1. tx'[c].msg = m /\ Acknowledged(m, n)
    BY Zenon DEF AckInv
  <2>2. CASE tx'[c].nack = n
    BY <1>1, <2>1, <2>2, Zenon DEF Acknowledged, StillAcknowledged
  <2>3. ASSUME NEW a \in acks, a.msg = m, tx'[c].nack = n \ a.block
        PROVE  StillAcknowledged(tx'[c].msg, tx'[c].nack)
    <3>1. CASE PassedOn(m)
      BY <1>1, <2>1, <3>1, Zenon DEF StillAcknowledged
    <3>2. CASE /\ rx.msg = m /\ rx.in_use /\ Segs \ n \subseteq rx.block
               /\ \A b \in acks : b.msg = m => b.block \subseteq rx.block
      <4>1. a.block \subseteq rx.block
        BY <2>3, <3>2, Zenon
      <4>2. Segs \ (n \ a.block) \subseteq rx.block
        BY <3>2, <4>1, Zenon
      <4>3. \A b \in acks' : b.msg = m => b.block \subseteq rx.block
        BY <3>2, Zenon
      <4> QED BY <2>1, <2>3, <3>2, <4>2, <4>3, Zenon DEF StillAcknowledged
    <3>3. CASE \A b \in acks : b.msg # m
      BY <2>3, <3>3, Zenon
    <3> QED BY <2>1, <3>1, <3>2, <3>3, Zenon DEF Acknowledged
  <2> QED BY <2>2, <2>3, Zenon
<1> QED BY <1>2, <1>3, AckNext, Zenon

\* A message that ends "ok" has been passed on.
LEMMA AckedPassedOn ==
    ASSUME Typed, AckInv, NEW c \in Busy(tx), NEW a \in acks, a.msg = tx[c].msg,
           tx[c].nack \subseteq a.block
    PROVE  PassedOn(tx[c].msg)
<1>1. Acknowledged(tx[c].msg, tx[c].nack)
  BY Zenon DEF AckInv
<1>2. CASE /\ rx.msg = tx[c].msg /\ rx.in_use /\ Segs \ tx[c].nack \subseteq rx.block
           /\ \A b \in acks : b.msg = tx[c].msg => b.block \subseteq rx.block
  <2>1. rx.block \in SUBSET Segs /\ rx.block # Segs
    BY <1>2, Zenon DEF Typed, Receiver
  <2>2. a.block \subseteq rx.block
    BY <1>2, Zenon
  <2>3. Segs \subseteq rx.block
    BY <1>2, <2>2, Zenon
  <2> QED BY <2>1, <2>3, Zenon
<1> QED BY <1>1, <1>2, Zenon DEF Acknowledged

\* A message that has just got its context has not been acknowledged.
LEMMA AckFill ==
    ASSUME Typed, SenderInv, AckInv, Fill
    PROVE  AckInv'
<1> DEFINE c == caller.ctx
<1>0. UNCHANGED <<rx, delivered, acks, ended>> /\ caller.at = "found"
  BY Zenon DEF Fill
<1>1. /\ Busy(tx') = Busy(tx) \cup {c} /\ \A d \in Busy(tx) : tx'[d] = tx[d]
  BY TurnsFill, Zenon DEF SenderInv
<1>2. tx'[c].msg = caller.msg /\ tx'[c].nack = Segs /\ caller.msg \in Msgs
  BY FillFacts, Zenon
<1> HIDE DEF c
<1>3. \A m \in Msgs : m < caller.msg => m # caller.msg
  BY <1>2, Constants
<1>4. rx.msg # caller.msg /\ \A a \in acks : a.msg # caller.msg
  <2>1. \A a \in acks : a.msg \in Msgs /\ a.msg < caller.msg
    BY <1>0, Zenon DEF SenderInv, SentInv, SentMsg, Typed
  <2>2. rx.msg # 0 => rx.msg \in Msgs /\ rx.msg < caller.msg
    BY <1>0, Constants, Zenon DEF SenderInv, SentInv, SentMsg, Typed, Receiver
  <2>3. caller.msg # 0
    BY <1>2, Constants, Zenon
  <2> QED BY <1>3, <2>1, <2>2, <2>3, Zenon
<1>5. \A m : PassedOn(m) => StillPassedOn(m)
  BY <1>0, Zenon DEF PassedOn, StillPassedOn
<1>6. /\ rx'.msg # 0 /\ rx'.block = Segs => StillPassedOn(rx'.msg)
      /\ \A m \in Msgs : ended'[m] = "ok" => StillPassedOn(m)
  BY <1>0, <1>5, Zenon DEF AckInv
<1>7. ASSUME NEW d \in Busy(tx') PROVE StillAcknowledged(tx'[d].msg, tx'[d].nack)
  <2>1. CASE d = c
    BY <1>0, <1>2, <1>4, <2>1, Zenon DEF StillAcknowledged
  <2>2. CASE d \in Busy(tx)
    <3>1. Acknowledged(tx[d].msg, tx[d].nack) /\ tx'[d] = tx[d]
      BY <1>1, <2>2, Zenon DEF AckInv
    <3> QED BY <1>0, <1>5, <3>1, Zenon DEF Acknowledged, StillAcknowledged
  <2> QED BY <1>1, <2>1, <2>2, Zenon
<1> QED BY <1>6, <1>7, AckNext, Zenon

\* A segment arrives for the message of the receiver's context or a newer one: then
\* no context has the older one any more.
LEMMA NotReplaced ==
    ASSUME Typed, SenderInv, NEW i \in DOMAIN air, rx.msg < air[i].msg, rx.msg # 0
    PROVE  \A c \in Ctxs : tx[c].msg # rx.msg
<1>1. air[i].msg \in Nat /\ rx.msg \in Nat
  <2>1. air \in Seq(OnAir)
    BY Zenon DEF Typed
  <2>2. air[i] \in OnAir
    BY <2>1
  <2> QED BY <2>2, Constants, Zenon DEF OnAir, Typed, Receiver
<1>2. SentMsg(air[i].msg)
  BY Zenon DEF SenderInv, SentInv
<1>3. ASSUME NEW c \in Ctxs, tx[c].msg = rx.msg PROVE FALSE
  <2>1. c \in Busy(tx)
    BY <1>3, Zenon DEF Busy, Typed, InUse
  <2>2. air[i].msg <= rx.msg
    BY <1>2, <1>3, <2>1, Zenon DEF SentMsg
  <2> QED BY <1>1, <2>2
<1> QED BY <1>3, Zenon

\* A segment that is received keeps what has been acknowledged.
LEMMA AckTransSeg ==
    ASSUME Typed, SenderInv, AckInv, NEW i \in DOMAIN air, trans_seg(i)
    PROVE  AckInv'
<1> DEFINE m == air[i].msg
<1> DEFINE ack == [msg |-> m, block |-> Segs]
<1>0. UNCHANGED <<tx, ended>>
  BY Zenon DEF trans_seg
<1>1. /\ m \in Msgs /\ m # 0
      /\ \/ UNCHANGED <<rx, acks, delivered>>
         \/ /\ rx.msg = m /\ rx.block = Segs
            /\ acks' = acks \cup {ack} /\ UNCHANGED <<rx, delivered>>
         \/ /\ rx.msg < m \/ (rx.msg = m /\ rx.in_use)
            /\ \E b \in SUBSET Segs :
                 /\ rx' = Received(m, b) /\ (rx.msg = m => rx.block \subseteq b)
                 /\ \/ b # Segs /\ UNCHANGED <<acks, delivered>>
                    \/ /\ b = Segs /\ acks' = acks \cup {ack}
                       /\ delivered' = Append(delivered, m)
  BY TransSegFacts, Constants, Zenon
<1>2. ack.msg = m /\ ack.block = Segs
  BY Zenon
<1>3. rx.msg < m /\ rx.msg # 0 => \A c \in Ctxs : tx[c].msg # rx.msg
  BY NotReplaced, Zenon
<1> HIDE DEF m, ack
<1>4. CASE UNCHANGED <<rx, acks, delivered>>
  BY <1>0, <1>4, AckSender, Zenon DEF Busy
<1>5. CASE /\ rx.msg = m /\ rx.block = Segs
           /\ acks' = acks \cup {ack} /\ UNCHANGED <<rx, delivered>>
  <2>1. \A n : PassedOn(n) => StillPassedOn(n)
    BY <1>5, Zenon DEF PassedOn, StillPassedOn
  <2>2. PassedOn(m)
    BY <1>1, <1>5, Zenon DEF AckInv
  <2>3. /\ rx'.msg # 0 /\ rx'.block = Segs => StillPassedOn(rx'.msg)
        /\ \A n \in Msgs : ended'[n] = "ok" => StillPassedOn(n)
    BY <1>0, <1>5, <2>1, Zenon DEF AckInv
  <2>4. ASSUME NEW c \in Busy(tx') PROVE StillAcknowledged(tx'[c].msg, tx'[c].nack)
    <3>1. Acknowledged(tx[c].msg, tx[c].nack) /\ UNCHANGED tx
      BY <1>0, Zenon DEF AckInv, Busy
    <3>2. CASE tx[c].msg = m
      BY <2>1, <2>2, <3>1, <3>2, Zenon DEF StillAcknowledged
    <3>3. CASE tx[c].msg # m
      BY <1>2, <1>5, <2>1, <3>1, <3>3, Zenon DEF Acknowledged, StillAcknowledged
    <3> QED BY <3>2, <3>3, Zenon
  <2> QED BY <2>3, <2>4, AckNext, Zenon
<1>6. ASSUME rx.msg < m \/ (rx.msg = m /\ rx.in_use), NEW b \in SUBSET Segs,
             rx' = Received(m, b), rx.msg = m => rx.block \subseteq b,
             \/ b # Segs /\ UNCHANGED <<acks, delivered>>
             \/ /\ b = Segs /\ acks' = acks \cup {ack}
                /\ delivered' = Append(delivered, m)
      PROVE  AckInv'
  <2>1. rx'.msg = m /\ rx'.block = b /\ rx'.in_use = (b # Segs)
    BY <1>1, <1>6, ReceivedFacts
  <2>2. /\ \A n : PassedOn(n) => StillPassedOn(n)
        /\ b = Segs => StillPassedOn(m)
    <3>1. CASE b # Segs
      BY <1>6, <3>1, Zenon DEF PassedOn, StillPassedOn
    <3>2. CASE b = Segs
      <4>1. delivered' = Append(delivered, m) /\ delivered \in Seq(Msgs)
        BY <1>6, <3>2, Zenon DEF Typed
      <4>2. /\ Len(delivered) \in Nat /\ DOMAIN delivered = 1 .. Len(delivered)
            /\ DOMAIN delivered' = 1 .. Len(delivered) + 1
            /\ delivered'[Len(delivered) + 1] = m
            /\ \A k \in 1 .. Len(delivered) : delivered'[k] = delivered[k]
        BY <1>1, <4>1
      <4>3. Len(delivered) + 1 \in DOMAIN delivered' /\ DOMAIN delivered \subseteq DOMAIN delivered'
        BY <4>2
      <4> QED BY <4>2, <4>3, Zenon DEF PassedOn, StillPassedOn
    <3> QED BY <3>1, <3>2, Zenon
  <2>3. /\ rx'.msg # 0 /\ rx'.block = Segs => StillPassedOn(rx'.msg)
        /\ \A n \in Msgs : ended'[n] = "ok" => StillPassedOn(n)
    BY <1>0, <2>1, <2>2, Zenon DEF AckInv
  <2>4. ASSUME NEW c \in Busy(tx') PROVE StillAcknowledged(tx'[c].msg, tx'[c].nack)
    <3>1. Acknowledged(tx[c].msg, tx[c].nack) /\ UNCHANGED tx /\ c \in Ctxs /\ c \in Busy(tx)
      BY <1>0, Zenon DEF AckInv, Busy
    <3>2. CASE PassedOn(tx[c].msg) \/ (tx[c].msg = m /\ b = Segs)
      BY <2>2, <3>1, <3>2, Zenon DEF StillAcknowledged
    <3>3. CASE tx[c].msg = m /\ b # Segs /\ ~PassedOn(tx[c].msg)
      <4>1. UNCHANGED acks /\ rx'.in_use
        BY <1>6, <2>1, <3>3, Zenon
      <4>2. CASE /\ rx.msg = m /\ Segs \ tx[c].nack \subseteq rx.block
                 /\ \A a \in acks : a.msg = m => a.block \subseteq rx.block
        <5>1. rx.block \subseteq b
          BY <1>6, <4>2, Zenon
        <5>2. /\ Segs \ tx[c].nack \subseteq b
              /\ \A a \in acks : a.msg = m => a.block \subseteq b
          BY <4>2, <5>1, Zenon
        <5> QED BY <2>1, <3>1, <3>3, <4>1, <5>2, Zenon DEF StillAcknowledged
      <4>3. CASE tx[c].nack = Segs /\ \A a \in acks : a.msg # m
        BY <2>1, <3>1, <3>3, <4>1, <4>3, Zenon DEF StillAcknowledged
      <4> QED BY <3>1, <3>3, <4>2, <4>3, Zenon DEF Acknowledged
    <3>4. CASE tx[c].msg # m /\ ~PassedOn(tx[c].msg)
      <4>1. ~(rx.msg = tx[c].msg /\ rx.in_use)
        <5> SUFFICES ASSUME rx.msg = tx[c].msg, rx.in_use PROVE FALSE
          BY Zenon
        <5>1. rx.msg < m /\ rx.msg # 0
          BY <1>6, <3>4, Zenon DEF Typed
        <5> QED BY <1>3, <3>1, <5>1, Zenon
      <4>2. tx[c].nack = Segs /\ \A a \in acks : a.msg # tx[c].msg
        BY <3>1, <3>4, <4>1, Zenon DEF Acknowledged
      <4>3. \A a \in acks' : a.msg # tx[c].msg
        BY <1>2, <1>6, <3>4, <4>2, Zenon
      <4> QED BY <2>1, <3>1, <3>4, <4>2, <4>3, Zenon DEF StillAcknowledged
    <3> QED BY <3>2, <3>3, <3>4, Zenon
  <2> QED BY <2>3, <2>4, AckNext, Zenon
<1> QED BY <1>1, <1>4, <1>5, <1>6, Zenon

\* The timers of the receiver, and another source, keep what has been acknowledged.
LEMMA AckReceiver ==
    ASSUME Typed, AckInv, seg_ack \/ Incomplete \/ Other
    PROVE  AckInv'
<1>0. UNCHANGED <<tx, delivered, ended>>
  BY Zenon DEF seg_ack, Incomplete, Other
<1>1. \A n : PassedOn(n) => StillPassedOn(n)
  BY <1>0, Zenon DEF PassedOn, StillPassedOn
<1>2. \A n \in Msgs : ended'[n] = "ok" => StillPassedOn(n)
  BY <1>0, <1>1, Zenon DEF AckInv
<1>3. CASE seg_ack
  <2> DEFINE ack == [msg |-> rx.msg, block |-> rx.block]
  <2>1. acks' = acks \cup {ack} /\ UNCHANGED rx
    BY <1>3, Zenon DEF seg_ack, send_ack
  <2>2. ack.msg = rx.msg /\ ack.block = rx.block
    BY Zenon
  <2> HIDE DEF ack
  <2>3. rx'.msg # 0 /\ rx'.block = Segs => StillPassedOn(rx'.msg)
    BY <1>1, <2>1, Zenon DEF AckInv
  <2>4. ASSUME NEW c \in Busy(tx') PROVE StillAcknowledged(tx'[c].msg, tx'[c].nack)
    <3>1. Acknowledged(tx[c].msg, tx[c].nack) /\ UNCHANGED tx
      BY <1>0, Zenon DEF AckInv, Busy
    <3> QED BY <1>1, <2>1, <2>2, <3>1, Zenon DEF Acknowledged, StillAcknowledged
  <2> QED BY <1>2, <2>3, <2>4, AckNext, Zenon
<1>4. CASE Incomplete
  <2>1. rx'.msg = rx.msg /\ rx'.block = rx.block /\ UNCHANGED acks
    BY <1>4, Zenon DEF Incomplete, Typed, Receiver
  <2>2. rx'.msg # 0 /\ rx'.block = Segs => StillPassedOn(rx'.msg)
    BY <1>1, <2>1, Zenon DEF AckInv
  <2>3. ASSUME NEW c \in Busy(tx') PROVE StillAcknowledged(tx'[c].msg, tx'[c].nack)
    <3>1. /\ Acknowledged(tx[c].msg, tx[c].nack) /\ UNCHANGED tx
          /\ rx.msg # tx[c].msg
      BY <1>0, <1>4, Zenon DEF AckInv, Busy, Incomplete
    <3> QED BY <1>1, <2>1, <3>1, Zenon DEF Acknowledged, StillAcknowledged
  <2> QED BY <1>2, <2>2, <2>3, AckNext, Zenon
<1>5. CASE Other
  <2>1. rx'.msg = 0 /\ ~rx.in_use /\ UNCHANGED acks
    BY <1>5, Zenon DEF Other, NoRx
  <2>2. ASSUME NEW c \in Busy(tx') PROVE StillAcknowledged(tx'[c].msg, tx'[c].nack)
    <3>1. /\ Acknowledged(tx[c].msg, tx[c].nack) /\ UNCHANGED tx
          /\ tx[c].msg # 0
      BY <1>0, Zenon DEF AckInv, Busy, Typed, InUse
    <3> QED BY <1>1, <2>1, <3>1, Zenon DEF Acknowledged, StillAcknowledged
  <2> QED BY <1>2, <2>1, <2>2, AckNext, Zenon
<1> QED BY <1>3, <1>4, <1>5, Zenon

\* A step of the sender.
LEMMA AckGoesOn ==
    ASSUME SenderInv, AckInv, NEW c \in Ctxs, Touched(tx, tx', c), tx'[c].nack = tx[c].nack,
           UNCHANGED <<rx, delivered, acks, ended>>
    PROVE  AckInv'
<1>1. Busy(tx') = Busy(tx)
  BY TurnsTouched, Zenon DEF SenderInv
<1>2. \A d \in Busy(tx) : d \in Ctxs /\ tx'[d].msg = tx[d].msg /\ tx'[d].nack = tx[d].nack
  BY Zenon DEF Busy, Touched
<1> QED BY <1>1, <1>2, AckSender, Zenon

\* A message that ends with "ok" has been passed on, and the others are as before.
LEMMA AckEnds ==
    ASSUME Typed, SenderInv, AckInv, NEW c \in Ctxs, ~tx[c].blocked, NEW r \in Results,
           EndsWith(c, r), r = "ok" => PassedOn(tx[c].msg),
           UNCHANGED <<rx, delivered>>, acks' \subseteq acks
    PROVE  AckInv'
<1>1. tx \in Contexts /\ InUse(tx) /\ tx[c].nack # {} /\ Completed(tx, tx', c) /\ Turns(tx)
  BY Zenon DEF EndsWith, SenderInv, Typed
<1>2. /\ Busy(tx') = Busy(tx) \ {c}
      /\ \A d \in Busy(tx') : tx'[d].msg = tx[d].msg /\ tx'[d].nack = tx[d].nack
  BY <1>1, TurnsCompleted, Zenon
<1>3. tx[c].msg \in Msgs
  BY <1>1, ContextFields, Constants, Zenon DEF InUse
<1>4. ended'[tx[c].msg] = r /\ \A n \in Msgs : n # tx[c].msg => ended'[n] = ended[n]
  BY <1>3, EndedFacts, Zenon DEF EndsWith
<1>5. \A m \in Msgs : ended'[m] = "ok" => ended[m] = "ok" \/ PassedOn(m)
  BY <1>4, Zenon
<1> QED BY <1>2, <1>5, AckSender, Zenon

\* Every step keeps the invariant of the acknowledgements.
LEMMA AckStep ==
    ASSUME NumberFacts, Typed, SenderInv, AckInv, [Next]_vars
    PROVE  AckInv'
<1>1. CASE Find
  <2>1. UNCHANGED <<tx, rx, delivered, acks>>
    BY <1>1, Zenon DEF Find
  <2>2. \A m \in Msgs : ended'[m] = "ok" => ended[m] = "ok"
    <3>1. ASSUME NEW n \in Msgs, ended' = [ended EXCEPT ![n] = "busy"]
          PROVE  \A m \in Msgs : ended'[m] = "ok" => ended[m] = "ok"
      <4>1. ended'[n] = "busy" /\ \A k \in Msgs : k # n => ended'[k] = ended[k]
        BY <3>1, EndedFacts, Zenon DEF Results
      <4> QED BY <4>1, Zenon
    <3> QED BY <1>1, <3>1, FindFacts, Zenon
  <2> QED BY <2>1, <2>2, AckSender, Zenon DEF Busy
<1>2. CASE Fill
  BY <1>2, AckFill, Zenon
<1>3. CASE Loop
  <2>1. /\ caller.ctx \in Ctxs /\ GoesOn(caller.ctx)
        /\ tx'[caller.ctx].nack = tx[caller.ctx].nack
    BY <1>3, LoopFacts, Zenon
  <2> QED BY <1>3, <2>1, AckGoesOn, Zenon DEF Loop, GoesOn
<1>4. CASE Finish
  <2>1. /\ caller.ctx \in Ctxs /\ GoesOn(caller.ctx)
        /\ tx'[caller.ctx].nack = tx[caller.ctx].nack
    BY <1>4, FinishFacts, Zenon
  <2> QED BY <1>4, <2>1, AckGoesOn, Zenon DEF Finish, GoesOn
<1>5. CASE AdvStart
  BY <1>5, AckSender, Zenon DEF AdvStart, Busy
<1>6. CASE AdvEnd
  <2>1. /\ adv[1].ctx \in Ctxs /\ Touched(tx, tx', adv[1].ctx)
        /\ tx'[adv[1].ctx].nack = tx[adv[1].ctx].nack
    BY <1>6, AdvEndFacts, Zenon
  <2> QED BY <1>6, <2>1, AckGoesOn, Zenon DEF AdvEnd
<1>7. ASSUME NEW c \in Ctxs, seg_retransmit(c) PROVE AckInv'
  <2>1. tx[c].timer /\ ((GoesOn(c) /\ tx'[c].nack = tx[c].nack) \/ EndsWith(c, "timeout"))
    BY <1>7, RetransmitFacts, Zenon
  <2>2. ~tx[c].blocked
    BY <2>1, MaySend, Zenon
  <2>3. UNCHANGED <<rx, delivered, acks>>
    BY <1>7, Zenon DEF seg_retransmit
  <2>4. "timeout" \in Results
    BY Zenon DEF Results
  <2>5. CASE GoesOn(c) /\ tx'[c].nack = tx[c].nack
    BY <2>3, <2>5, AckGoesOn, Zenon DEF GoesOn
  <2>6. CASE EndsWith(c, "timeout")
    BY <2>2, <2>3, <2>4, <2>6, AckEnds, Zenon
  <2> QED BY <2>1, <2>5, <2>6, Zenon
<1>8. ASSUME NEW i \in DOMAIN air, trans_seg(i) PROVE AckInv'
  BY <1>8, AckTransSeg, Zenon
<1>9. ASSUME NEW a \in acks, trans_ack(a) PROVE AckInv'
  <2>0. UNCHANGED <<rx, delivered>> /\ acks' \subseteq acks
    BY <1>9, Zenon DEF trans_ack
  <2>1. CASE UNCHANGED <<tx, ended>>
    BY <2>0, <2>1, AckSender, Zenon DEF Busy
  <2>2. ASSUME NEW c \in Ctxs, tx[c].msg = a.msg, tx[c].nack # {},
               \/ GoesOn(c) /\ tx'[c].nack = tx[c].nack \ a.block
               \/ EndsWith(c, "timeout")
               \/ EndsWith(c, "ok") /\ tx[c].nack \subseteq a.block
        PROVE  AckInv'
    <3>1. ~tx[c].blocked
      BY <2>2, MaySend, Zenon
    <3>2. "timeout" \in Results /\ "ok" \in Results
      BY Zenon DEF Results
    <3>3. CASE GoesOn(c) /\ tx'[c].nack = tx[c].nack \ a.block
      <4>1. Busy(tx') = Busy(tx) /\ UNCHANGED ended
        BY <3>3, TurnsTouched, Zenon DEF SenderInv, GoesOn
      <4>2. \A d \in Busy(tx) : /\ d \in Ctxs /\ tx'[d].msg = tx[d].msg
                                /\ d # c => tx'[d].nack = tx[d].nack
        BY <3>3, Zenon DEF Busy, Touched, GoesOn
      <4> QED BY <2>0, <2>2, <3>3, <4>1, <4>2, AckSender, ZenonT(40)
    <3>4. CASE EndsWith(c, "timeout")
      BY <2>0, <3>1, <3>2, <3>4, AckEnds, Zenon
    <3>5. CASE EndsWith(c, "ok") /\ tx[c].nack \subseteq a.block
      <4>1. PassedOn(tx[c].msg)
        BY <2>2, <3>5, AckedPassedOn, Zenon DEF Busy
      <4> QED BY <2>0, <3>1, <3>2, <3>5, <4>1, AckEnds, Zenon
    <3> QED BY <2>2, <3>3, <3>4, <3>5, Zenon
  <2> QED BY <1>9, <2>1, <2>2, TransAckFacts, Zenon
<1>10. CASE seg_ack \/ Incomplete \/ Other
  BY <1>10, AckReceiver, Zenon
<1>11. CASE LoseSegment
  BY <1>11, AckSender, Zenon DEF LoseSegment, Busy
<1>12. CASE LoseAck
  <2>1. UNCHANGED <<tx, rx, delivered, ended>> /\ acks' \subseteq acks
    BY <1>12, Zenon DEF LoseAck
  <2> QED BY <2>1, AckSender, Zenon DEF Busy
<1>13. CASE UNCHANGED vars
  BY <1>13, AckSender, Zenon DEF vars, Busy
<1> QED BY <1>1, <1>2, <1>3, <1>4, <1>5, <1>6, <1>7, <1>8, <1>9, <1>10, <1>11, <1>12,
           <1>13, ZenonT(40)
        DEF Next, Main, Radio, Timers, Segment, Ack

-----------------------------------------------------------------------------
(* The facts about numbers, from the facts of the library about finite sets. *)

INSTANCE FiniteSetTheorems

\* Min of a set of numbers is the least: they are well-founded.
LEMMA MinIsLeast ==
    ASSUME NEW S \in SUBSET Nat, S # {}
    PROVE  Min(S) \in S /\ \A y \in S : Min(S) <= y
<1> DEFINE R == {p \in Nat \X Nat : p[1] < p[2]}
<1>0. OpToRel(<, Nat) = R
  BY Zenon DEF OpToRel
<1>1. IsWellFoundedOn(R, Nat)
  BY <1>0, NatLessThanWellFounded, Zenon
<1> HIDE DEF R
<1>2. PICK x \in S : \A y \in S : ~ (<<y, x>> \in R)
  BY <1>1, WFMin, Zenon
<1>3. ASSUME NEW y \in S PROVE x <= y
  <2>1. <<y, x>> \notin R /\ x \in Nat /\ y \in Nat
    BY <1>2, Zenon
  <2>2. ~(y < x)
    BY <2>1, Zenon DEF R
  <2> QED BY <2>1, <2>2
<1>4. \E z \in S : \A y \in S : z <= y
  BY <1>3, Zenon
<1> QED BY <1>4, Zenon DEF Min

\* InOrder is a sequence of the elements: the place of an element is the number of
\* those that are not greater.
LEMMA InOrderLists ==
    ASSUME NEW S \in SUBSET Nat, IsFiniteSet(S)
    PROVE  /\ Cardinality(S) \in Nat
           /\ InOrder(S) \in [1 .. Cardinality(S) -> S]
<1> DEFINE n == Cardinality(S)
<1> DEFINE below(x) == {y \in S : y <= x}
<1> DEFINE rank == [x \in S |-> Cardinality(below(x))]
<1>1. n \in Nat
  BY FS_CardinalityType, Zenon
<1>2. ASSUME NEW x \in S
      PROVE  IsFiniteSet(below(x)) /\ rank[x] \in 1 .. n
  <2>1. IsFiniteSet(below(x)) /\ Cardinality(below(x)) <= n
    BY FS_Subset, Zenon
  <2>2. Cardinality(below(x)) \in Nat
    BY <2>1, FS_CardinalityType, Zenon
  <2>3. x \in below(x)
    OBVIOUS
  <2>4. Cardinality(below(x)) # 0
    BY <2>1, <2>3, FS_EmptySet, Zenon
  <2> HIDE DEF below
  <2>5. rank[x] = Cardinality(below(x))
    BY Zenon
  <2> QED BY <1>1, <2>1, <2>2, <2>4, <2>5
<1>3. ASSUME NEW x \in S, NEW y \in S, x < y PROVE rank[x] < rank[y]
  <2>1. /\ \A z \in S : z <= x => z <= y
        /\ y <= y /\ ~(y <= x)
    BY <1>3
  <2>6. below(x) \in SUBSET below(y) /\ y \in below(y) /\ y \notin below(x)
    BY <2>1, Zenon
  <2>2. IsFiniteSet(below(y))
    BY <1>2, Zenon
  <2>3. rank[x] = Cardinality(below(x)) /\ rank[y] = Cardinality(below(y))
    BY Zenon
  <2>5. rank[x] \in Nat /\ rank[y] \in Nat
    BY <1>1, <1>2
  <2> HIDE DEF below, rank
  <2>4. Cardinality(below(x)) <= Cardinality(below(y)) /\ Cardinality(below(x)) # Cardinality(below(y))
    BY <2>2, <2>6, FS_Subset, Zenon
  <2> QED BY <2>3, <2>4, <2>5
<1>4. rank \in [S -> 1 .. n]
  BY <1>2, Zenon
<1> HIDE DEF rank, n
<1>5. rank \in Injection(S, 1 .. n)
  BY <1>3, <1>4 DEF Injection, IsInjective
<1>6. IsFiniteSet(1 .. n) /\ Cardinality(1 .. n) = n
  BY <1>1, FS_Interval
<1>7. rank \in Surjection(S, 1 .. n)
  <2>1. Cardinality(S) = Cardinality(1 .. n)
    BY <1>6, Zenon DEF n
  <2> QED BY <1>5, <1>6, <2>1, FS_Injection
<1>8. \A i \in 1 .. n : \E x \in S : rank[x] = i
  BY <1>7, Zenon DEF Surjection
<1> DEFINE q == [i \in 1 .. n |-> CHOOSE x \in S : rank[x] = i]
<1>9. \A i \in 1 .. n : q[i] \in S /\ rank[q[i]] = i
  BY <1>8, Zenon
<1>10. q \in [1 .. n -> S] /\ DOMAIN q = 1 .. n
  BY <1>9, Zenon
<1> HIDE DEF q
<1>11. ASSUME NEW i \in DOMAIN q, NEW j \in DOMAIN q, i < j PROVE q[i] < q[j]
  <2>1. /\ q[i] \in Nat /\ q[j] \in Nat /\ rank[q[i]] = i /\ rank[q[j]] = j
        /\ q[i] \in S /\ q[j] \in S /\ i \in Nat /\ j \in Nat
    <3>1. i \in 1 .. n /\ j \in 1 .. n
      BY <1>10, Zenon
    <3>2. q[i] \in S /\ q[j] \in S /\ rank[q[i]] = i /\ rank[q[j]] = j
      BY <1>9, <3>1, Zenon
    <3>3. i \in Nat /\ j \in Nat
      BY <1>1, <3>1
    <3> QED BY <3>2, <3>3, Zenon
  <2>2. q[j] < q[i] => FALSE
    BY <1>3, <1>11, <2>1
  <2>3. q[i] # q[j]
    BY <1>11, <2>1
  <2> QED BY <2>1, <2>2, <2>3
<1>12. \E p \in [1 .. n -> S] : \A i, j \in DOMAIN p : i < j => p[i] < p[j]
  BY <1>10, <1>11, Zenon
<1> QED BY <1>1, <1>12 DEF InOrder, n

\* The facts about numbers that the lemmas above assume.
LEMMA NumberFactsHold == NumberFacts
<1>1. ASSUME NEW S \in SUBSET Segs PROVE S \in SUBSET Nat /\ IsFiniteSet(S)
  <2>1. IsFiniteSet(Segs) /\ Segs \in SUBSET Nat
    BY FS_Interval, TransportAssumption DEF Segs
  <2> QED BY <2>1, FS_Subset, Zenon
<1> QED BY <1>1, MinIsLeast, InOrderLists, Zenon DEF NumberFacts

-----------------------------------------------------------------------------
(* The theorems. *)

\* The receiver passes on every message at most once and in order: what it has
\* passed on is older than the message of its context (seg_rx_find), or that one,
\* and then the context remembers that it is complete.
THEOREM InOrderAndOnce == Spec => []OnceInOrder
<1>1. Init => Typed /\ InOrderInv
  <2>1. ASSUME Init PROVE InOrderInv
    <3>1. delivered = <<>>
      BY <2>1, Zenon DEF Init
    <3>2. DOMAIN delivered = {}
      BY ONLY <3>1
    <3> QED BY <3>2, Zenon DEF InOrderInv
  <2> QED BY <2>1, TypedInit, Zenon
<1>2. Typed /\ InOrderInv /\ [Next]_vars => (Typed /\ InOrderInv)'
  BY NumberFactsHold, TypedStep, InOrderStep, Zenon
<1>3. InOrderInv => OnceInOrder
  BY Zenon DEF InOrderInv, OnceInOrder
<1> QED BY <1>1, <1>2, <1>3, PTL DEF Spec

\* The invariants together hold in every behaviour that never has more than 255
\* buffers in the queue.
LEMMA SenderAndAcks == Spec /\ []FewBuffers => [](Typed /\ SenderInv /\ AckInv)
<1>1. Init => Typed /\ SenderInv /\ AckInv
  <2>1. ASSUME Init PROVE AckInv
    <3>1. Busy(tx) = {} /\ rx.msg = 0 /\ \A m \in Msgs : ended[m] # "ok"
      BY <2>1, Zenon DEF Init, Busy, Free, NoRx
    <3> QED BY <3>1, Zenon DEF AckInv
  <2> QED BY <2>1, TypedInit, SenderInit, Zenon
<1>2. Typed /\ SenderInv /\ AckInv /\ FewBuffers /\ [Next]_vars
        => (Typed /\ SenderInv /\ AckInv)'
  BY NumberFactsHold, TypedStep, SenderStep, AckStep, Zenon
<1> QED BY <1>1, <1>2, PTL DEF Spec

\* The sender is told "ok" only for a message that the receiver has passed on, as
\* long as the advertiser has at most 255 buffers: the receiver has every segment
\* that has been acknowledged (trans_ack), and keeps it while a context has the
\* message.
THEOREM OkOnlyIfDelivered == Spec /\ []FewBuffers => []OkMeansDelivered
<1>1. AckInv => OkMeansDelivered
  BY Zenon DEF AckInv, OkMeansDelivered, PassedOn
<1> QED BY <1>1, SenderAndAcks, PTL

\* The receiver gives up the segments of a message only when no context of the
\* sender has it, as long as the advertiser has at most 255 buffers: of the
\* messages that have one, only the oldest is sent (send_seg, seg_tx_unblock_check).
THEOREM IncompleteAreKept == Spec /\ []FewBuffers => KeepsIncomplete
<1>1. Typed /\ SenderInv /\ [Next]_vars
        => [rx.in_use /\ rx'.msg # rx.msg => \A c \in Ctxs : tx[c].msg # rx.msg]_vars
  <2> SUFFICES ASSUME Typed, SenderInv, [Next]_vars, rx.in_use, rx'.msg # rx.msg
               PROVE  \A c \in Ctxs : tx[c].msg # rx.msg
    BY Zenon
  <2>1. PICK i \in DOMAIN air : trans_seg(i)
    <3>1. ~Incomplete
      BY Zenon DEF Incomplete, Typed, Receiver
    <3> QED BY <3>1, Zenon DEF Next, vars, Main, Radio, Timers, Segment, Ack, Find, Fill, Loop,
                  Finish, AdvStart, AdvEnd, seg_retransmit, trans_ack, seg_ack, Other,
                  LoseSegment, LoseAck
  <2>2. rx.msg < air[i].msg
    <3>1. /\ air[i].msg \in Msgs
          /\ \/ UNCHANGED rx
             \/ /\ rx.msg < air[i].msg \/ rx.msg = air[i].msg
                /\ \E b \in SUBSET Segs : rx' = Received(air[i].msg, b)
      BY <2>1, TransSegFacts, Zenon
    <3>2. rx'.msg = air[i].msg
      BY <3>1, ReceivedFacts
    <3> QED BY <3>1, <3>2, Zenon
  <2>3. rx.msg # 0
    BY Zenon DEF Typed
  <2> QED BY <2>2, <2>3, NotReplaced, Zenon
<1> QED BY <1>1, SenderAndAcks, PTL DEF Spec, KeepsIncomplete

=============================================================================


---------------------------- MODULE ReplayProofs ----------------------------
(***************************************************************************)
(* Proofs about the replay protection list, for any number of sources and  *)
(* slots and any bounds on IV indexes and sequence numbers: what was let   *)
(* through once is refused from then on, and what is newer passes.         *)
(***************************************************************************)
EXTENDS Replay, FiniteSetTheorems, WellFoundedInduction, TLAPS

----------------------------------------------------------------------------
(* The slot at which the loop of bt_mesh_rpl_check ends. *)

\* A set of numbers that has a member has a least one.
LEMMA Least ==
    ASSUME NEW S \in SUBSET Nat, S # {}
    PROVE  \E i \in S : \A j \in S : i <= j
<1> DEFINE R == {p \in Nat \X Nat : p[1] < p[2]}
<1>1. IsWellFoundedOn(R, Nat)
  BY NatLessThanWellFounded DEF OpToRel
<1> HIDE DEF R
<1>2. PICK i \in S : \A j \in S : ~ (<<j, i>> \in R)
  BY <1>1, WFMin
<1>3. ASSUME NEW j \in S PROVE i <= j
  <2>1. i \in Nat /\ j \in Nat /\ ~ (<<j, i>> \in R)
    BY <1>2
  <2>2. j < i => <<j, i>> \in R
    BY <2>1 DEF R
  <2> QED BY <2>1, <2>2
<1> QED BY <1>3

\* And a largest one, if it is bounded.
LEMMA Largest ==
    ASSUME NEW N \in Nat, NEW S \in SUBSET (1 .. N), S # {}
    PROVE  \E i \in S : \A j \in S : j <= i
<1> DEFINE D == {N - i : i \in S}
<1>1. D \in SUBSET Nat /\ D # {}
  <2>1. \A i \in S : N - i \in Nat
    OBVIOUS
  <2>2. PICK i \in S : TRUE
    OBVIOUS
  <2>3. N - i \in D
    OBVIOUS
  <2> QED BY <2>1, <2>3
<1>2. PICK d \in D : \A c \in D : d <= c
  BY <1>1, Least
<1>3. PICK i \in S : d = N - i
  OBVIOUS
<1>4. ASSUME NEW j \in S PROVE j <= i
  <2>1. N - i <= N - j
    BY <1>2, <1>3
  <2> QED BY <2>1
<1> QED BY <1>4

\* The loop ends at the first slot that is empty or the source's.
LEMMA StopsFirst ==
    ASSUME NEW m, StopsAt(m) # {}
    PROVE  /\ StopSlot(m) \in Slots
           /\ rpl[StopSlot(m)].src \in {NoSource, m.src}
           /\ \A j \in Slots : rpl[j].src \in {NoSource, m.src} => StopSlot(m) <= j
<1>1. StopsAt(m) \in SUBSET Nat
  BY ReplayAssumption DEF StopsAt, Slots
<1>2. \E i \in StopsAt(m) : \A j \in StopsAt(m) : i <= j
  BY <1>1, Least
<1>3. StopSlot(m) \in StopsAt(m) /\ \A j \in StopsAt(m) : StopSlot(m) <= j
  BY <1>2 DEF StopSlot
<1> QED BY <1>3 DEF StopsAt

----------------------------------------------------------------------------
(* The types. *)

Item == [seq : 0 .. SEQ_MAX, old : BOOLEAN]
Passed == [src : Sources, iv : -1 .. IV_MAX, seq : -1 .. SEQ_MAX]

Types ==
    /\ iv \in Nat
    /\ rpl \in [Slots -> Entry]
    /\ pending \in BOOLEAN
    /\ flash \in [Sources -> Item \cup {NoItem}]
    /\ newest \in [Sources -> Passed]
    /\ \A s \in Sources : newest[s].iv <= iv

\* bt_mesh_rpl_reset empties a slot, or marks its entry as old.
LEMMA ResetEntry ==
    ASSUME NEW e \in Entry
    PROVE  /\ Reset(e) \in Entry
           /\ Reset(e).src # NoSource =>
                /\ Reset(e).src = e.src /\ ~e.old
                /\ Reset(e).seq = e.seq /\ Reset(e).old /\ Reset(e).store
           /\ ~e.old => Reset(e).src = e.src
           /\ Reset(e).store => e.store \/ e.src # NoSource
<1>1. CASE e.src = NoSource
  BY <1>1 DEF Reset
<1>2. CASE e.src # NoSource /\ e.old
  <2>1. Reset(e) = [src |-> NoSource, seq |-> 0, old |-> FALSE, store |-> TRUE]
    BY <1>2 DEF Reset, Empty
  <2> QED BY <1>2, <2>1, ReplayAssumption DEF Entry
<1>3. CASE e.src # NoSource /\ ~e.old
  <2>1. Reset(e) = [e EXCEPT !.old = TRUE, !.store = TRUE]
    BY <1>3 DEF Reset
  <2> QED BY <1>3, <2>1 DEF Entry
<1> QED BY <1>1, <1>2, <1>3

\* The sources that have an item in persistent storage.
Stored == {s \in Sources : flash[s] # NoItem}

\* rpl_set fills the list from the items without a gap, each with its own slot;
\* no item is left out if there is a slot for each.
LEMMA RestartLoads ==
    ASSUME Types, Restart
    PROVE  /\ rpl' \in [Slots -> Entry]
           /\ \A i \in Slots :
                /\ ~rpl'[i].store
                /\ rpl'[i].src # NoSource =>
                     /\ rpl'[i].src \in Stored
                     /\ flash[rpl'[i].src] = [seq |-> rpl'[i].seq, old |-> rpl'[i].old]
           /\ \A i, j \in Slots : i < j /\ rpl'[j].src # NoSource => rpl'[i].src # NoSource
           /\ \A i, j \in Slots : rpl'[i].src = rpl'[j].src /\ rpl'[i].src # NoSource => i = j
           /\ Cardinality(Stored) \in Nat
           /\ Cardinality(Stored) <= SLOTS =>
                \A s \in Stored : \E i \in Slots : rpl'[i].src = s
<1> DEFINE n == Cardinality(Stored)
           entry(s) == [src |-> s, seq |-> flash[s].seq, old |-> flash[s].old, store |-> FALSE]
<1>1. NoSource \notin Sources /\ SLOTS \in Nat /\ SEQ_MAX \in Nat
  BY ReplayAssumption
<1>2. n \in Nat
  <2>1. IsFiniteSet(Stored)
    BY ReplayAssumption, FS_Subset DEF Stored
  <2> QED BY <2>1, FS_CardinalityType
<1>3. PICK order \in Bijection(1 .. n, Stored) :
        rpl' = [i \in Slots |-> IF i > n THEN Empty ELSE entry(order[i])]
  BY DEF Restart, Stored
<1>4. /\ \A i \in 1 .. n : order[i] \in Stored
      /\ \A i, j \in 1 .. n : order[i] = order[j] => i = j
      /\ \A s \in Stored : \E i \in 1 .. n : order[i] = s
  BY <1>3 DEF Bijection, Injection, Surjection, IsInjective
<1> HIDE DEF n
<1>5. /\ \A i \in Slots : i \in 1 .. n => rpl'[i] = entry(order[i])
      /\ \A i \in Slots : i \notin 1 .. n => rpl'[i] = Empty
  BY <1>1, <1>2, <1>3 DEF Slots
<1>6. ASSUME NEW i \in Slots, i \in 1 .. n
      PROVE  /\ rpl'[i] \in Entry /\ ~rpl'[i].store
             /\ rpl'[i].src = order[i] /\ order[i] \in Stored /\ order[i] # NoSource
             /\ flash[order[i]] = [seq |-> rpl'[i].seq, old |-> rpl'[i].old]
  <2> DEFINE s == order[i]
  <2>1. s \in Sources /\ s \in Stored /\ flash[s] \in Item /\ rpl'[i] = entry(s)
    BY <1>4, <1>5, <1>6 DEF Types, Stored
  <2> HIDE DEF s
  <2>2. /\ rpl'[i] \in Entry /\ ~rpl'[i].store /\ rpl'[i].src = s
        /\ flash[s] = [seq |-> rpl'[i].seq, old |-> rpl'[i].old]
    BY <2>1 DEF Entry, Item
  <2> QED BY <1>1, <2>1, <2>2 DEF s
<1>7. ASSUME NEW i \in Slots, i \notin 1 .. n
      PROVE  rpl'[i] \in Entry /\ ~rpl'[i].store /\ rpl'[i].src = NoSource
  <2>1. rpl'[i] = Empty
    BY <1>5, <1>7
  <2> QED BY <1>1, <2>1 DEF Empty, Entry
<1> HIDE DEF entry
<1>8. rpl' \in [Slots -> Entry]
  <2>1. \A i \in Slots : rpl'[i] \in Entry
    BY <1>6, <1>7
  <2> QED BY <1>3, <2>1
<1>9. ASSUME NEW i \in Slots
      PROVE  /\ ~rpl'[i].store
             /\ rpl'[i].src # NoSource =>
                  /\ rpl'[i].src \in Stored
                  /\ flash[rpl'[i].src] = [seq |-> rpl'[i].seq, old |-> rpl'[i].old]
  BY <1>6, <1>7
<1>10. ASSUME NEW i \in Slots, NEW j \in Slots, i < j, rpl'[j].src # NoSource
       PROVE  rpl'[i].src # NoSource
  <2>1. j \in 1 .. n
    BY <1>7, <1>10
  <2>2. i \in 1 .. n
    BY <1>1, <1>2, <1>10, <2>1 DEF Slots
  <2> QED BY <1>6, <2>2
<1>11. ASSUME NEW i \in Slots, NEW j \in Slots,
              rpl'[i].src = rpl'[j].src, rpl'[i].src # NoSource
       PROVE  i = j
  <2>1. i \in 1 .. n /\ j \in 1 .. n
    BY <1>7, <1>11
  <2>2. rpl'[i].src = order[i] /\ rpl'[j].src = order[j]
    BY <1>6, <2>1
  <2> QED BY <1>4, <1>11, <2>1, <2>2
<1>12. ASSUME n <= SLOTS, NEW s \in Stored
       PROVE  \E i \in Slots : rpl'[i].src = s
  <2>1. PICK i \in 1 .. n : order[i] = s
    BY <1>4
  <2>2. i \in Slots
    BY <1>1, <1>2, <1>12 DEF Slots
  <2> QED BY <1>6, <2>1, <2>2
<1> QED BY <1>2, <1>8, <1>9, <1>10, <1>11, <1>12 DEF n

LEMMA TypesStep == Types /\ [Next]_vars => Types'
<1> SUFFICES ASSUME Types, [Next]_vars PROVE Types'
  OBVIOUS
<1>1. /\ SLOTS \in Nat /\ IV_MAX \in Nat /\ SEQ_MAX \in Nat
      /\ \A s \in Sources : newest[s].iv \in Int
  BY ReplayAssumption DEF Types, Passed
<1>2. ASSUME rpl' = [i \in Slots |-> Reset(rpl[i])] PROVE rpl' \in [Slots -> Entry]
  <2>1. \A i \in Slots : Reset(rpl[i]) \in Entry
    BY ResetEntry DEF Types
  <2> QED BY <1>2, <2>1
<1>3. ASSUME NEW m \in Msg, Receive(m) PROVE Types'
  <2> DEFINE e == [src |-> m.src, seq |-> m.seq, old |-> OldIv(m), store |-> TRUE]
             g == IF After(m, newest[m.src]) THEN m ELSE newest[m.src]
  <2>1. /\ rpl' = [rpl EXCEPT ![StopSlot(m)] = e] /\ pending' = TRUE
        /\ iv' = iv /\ flash' = flash /\ newest' = [newest EXCEPT ![m.src] = g]
    BY <1>3 DEF Receive, rpl_update
  <2>2. e \in Entry /\ g \in Passed /\ g.iv <= iv
    <3>1. OldIv(m) \in BOOLEAN
      BY DEF OldIv
    <3>2. e \in Entry
      BY <3>1 DEF Msg, Entry
    <3>3. m \in Passed /\ m.iv <= iv
      BY <1>1, <1>3 DEF Msg, Ivs, Passed, Types, Receive, Decrypts
    <3>4. newest[m.src] \in Passed /\ newest[m.src].iv <= iv
      BY DEF Msg, Types
    <3> QED BY <3>2, <3>3, <3>4
  <2> HIDE DEF e, g
  <2> QED BY <2>1, <2>2 DEF Types
<1>4. CASE EnterUpdate
  BY <1>1, <1>2, <1>4 DEF EnterUpdate, Types
<1>5. ASSUME NEW upd \in BOOLEAN, Recover(upd) PROVE Types'
  BY <1>1, <1>2, <1>5 DEF Recover, Types
<1>6. CASE store_pending_rpl
  <2> DEFINE due(s) == {i \in Slots : rpl[i].store /\ rpl[i].src = s}
             item(i) == [seq |-> rpl[i].seq, old |-> rpl[i].old]
             lastOf(S) == CHOOSE i \in S : \A j \in S : j <= i
  <2>1. /\ pending' = FALSE /\ iv' = iv /\ newest' = newest
        /\ flash' = [s \in Sources |-> IF due(s) = {} THEN flash[s] ELSE item(lastOf(due(s)))]
        /\ rpl' = [i \in Slots |-> [rpl[i] EXCEPT !.store = FALSE]]
    BY <1>6 DEF store_pending_rpl
  <2>2. ASSUME NEW s \in Sources, due(s) # {} PROVE item(lastOf(due(s))) \in Item
    <3>1. \E i \in due(s) : \A j \in due(s) : j <= i
      BY <1>1, <2>2, Largest DEF Slots
    <3>2. lastOf(due(s)) \in due(s)
      BY <3>1
    <3>3. ASSUME NEW i \in Slots PROVE item(i) \in Item
      <4>1. rpl[i] \in Entry
        BY DEF Types
      <4> QED BY <4>1 DEF Entry, Item
    <3> QED BY <3>2, <3>3
  <2>3. flash' \in [Sources -> Item \cup {NoItem}]
    <3> HIDE DEF due, item, lastOf
    <3> QED BY <2>1, <2>2 DEF Types
  <2>4. rpl' \in [Slots -> Entry]
    <3>1. \A i \in Slots : [rpl[i] EXCEPT !.store = FALSE] \in Entry
      BY DEF Types, Entry
    <3> QED BY <2>1, <3>1
  <2> QED BY <2>1, <2>3, <2>4 DEF Types
<1>7. CASE Restart
  BY <1>7, RestartLoads DEF Restart, Types
<1>8. CASE UNCHANGED vars
  BY <1>8 DEF vars, Types
<1> QED BY <1>3, <1>4, <1>5, <1>6, <1>7, <1>8 DEF Next

----------------------------------------------------------------------------
(* The list and what is stored of it. *)

\* The loop finds the entry of a source if there is one, and there is but one.
Reachable ==
    /\ ~HasGap(rpl)
    /\ \A i, j \in Slots : rpl[i].src = rpl[j].src /\ rpl[i].src # NoSource => i = j

\* An entry in use is stored, or is to be stored.
Saved ==
    /\ \A i \in Slots : rpl[i].store => pending
    /\ \A i \in Slots : rpl[i].src # NoSource /\ ~rpl[i].store =>
          flash[rpl[i].src] = [seq |-> rpl[i].seq, old |-> rpl[i].old]

Sound == Types /\ Reachable /\ Saved

\* The message takes the slot at which the loop has ended, which is its source's
\* or the first empty one.
LEMMA ReceiveSound ==
    ASSUME Sound, NEW m \in Msg, Receive(m)
    PROVE  /\ Reachable' /\ Saved'
           /\ \A j \in Slots \ {StopSlot(m)} : rpl[j].src # m.src
<1> DEFINE k == StopSlot(m)
           e == [src |-> m.src, seq |-> m.seq, old |-> OldIv(m), store |-> TRUE]
<1>1. Types /\ Reachable /\ Saved /\ SLOTS \in Nat /\ NoSource \notin Sources
  BY ReplayAssumption DEF Sound
<1>2. m.src \in Sources
  BY DEF Msg
<1>3. /\ k \in Slots /\ rpl[k].src \in {NoSource, m.src}
      /\ \A j \in Slots : rpl[j].src \in {NoSource, m.src} => k <= j
  BY StopsFirst DEF Receive, rpl_check
<1>4. rpl' = [rpl EXCEPT ![k] = e] /\ pending' = TRUE /\ flash' = flash
  BY DEF Receive, rpl_update
<1>5. /\ rpl'[k] = e
      /\ \A j \in Slots \ {k} : rpl'[j] = rpl[j]
      /\ \A j \in Slots \ {k} : rpl[j].src # m.src
  <2>1. rpl'[k] = e /\ \A j \in Slots \ {k} : rpl'[j] = rpl[j]
    BY <1>1, <1>3, <1>4 DEF Types
  <2>2. ASSUME NEW j \in Slots \ {k}, rpl[j].src = m.src PROVE FALSE
    <3>1. k < j
      BY <1>1, <1>3, <2>2 DEF Slots
    <3>2. rpl[k].src = m.src
      BY <1>1, <1>2, <1>3, <2>2, <3>1 DEF Reachable, HasGap
    <3> QED BY <1>1, <1>2, <1>3, <2>2, <3>2 DEF Reachable
  <2> QED BY <2>1, <2>2
<1>6. Reachable'
  <2>1. ASSUME NEW i \in Slots, NEW j \in Slots, i < j,
               rpl'[i].src = NoSource, rpl'[j].src # NoSource
        PROVE  FALSE
    <3>1. i # k /\ rpl[i].src = NoSource
      BY <1>1, <1>2, <1>5, <2>1
    <3>2. j = k
      BY <1>1, <1>5, <2>1, <3>1 DEF Reachable, HasGap
    <3> QED BY <1>1, <1>3, <2>1, <3>1, <3>2 DEF Slots
  <2>2. ASSUME NEW i \in Slots, NEW j \in Slots,
               rpl'[i].src = rpl'[j].src, rpl'[i].src # NoSource
        PROVE  i = j
    BY <1>1, <1>5, <2>2 DEF Reachable
  <2> QED BY <2>1, <2>2 DEF Reachable, HasGap
<1>7. Saved'
  BY <1>1, <1>4, <1>5 DEF Saved
<1> QED BY <1>5, <1>6, <1>7

\* Marking the list as old has it stored, and keeps one entry for a source; that
\* no slot is emptied before one in use is up to what was in the list.
LEMMA ResetSound ==
    ASSUME Sound, rpl' = [i \in Slots |-> Reset(rpl[i])], ~HasGap(rpl'), flash' = flash,
           pending' = (pending \/ \E i \in Slots : rpl[i].src # NoSource) \/ pending' = TRUE
    PROVE  Reachable' /\ Saved'
<1>1. ASSUME NEW i \in Slots
      PROVE  /\ rpl'[i].src # NoSource => rpl'[i].src = rpl[i].src /\ rpl'[i].store
             /\ rpl'[i].store => rpl[i].store \/ rpl[i].src # NoSource
  <2>1. rpl[i] \in Entry /\ rpl'[i] = Reset(rpl[i])
    BY DEF Sound, Types
  <2> QED BY <2>1, ResetEntry
<1>2. Reachable'
  BY <1>1 DEF Sound, Reachable, HasGap
<1>3. Saved'
  BY <1>1 DEF Sound, Saved
<1> QED BY <1>2, <1>3

\* Every entry that is to be stored is the only one of its source, so its item is
\* what the source's entry says.
LEMMA StoreSound ==
    ASSUME Sound, store_pending_rpl
    PROVE  Reachable' /\ Saved'
<1> DEFINE due(s) == {i \in Slots : rpl[i].store /\ rpl[i].src = s}
           item(i) == [seq |-> rpl[i].seq, old |-> rpl[i].old]
           lastOf(S) == CHOOSE i \in S : \A j \in S : j <= i
<1>1. Types /\ Reachable /\ Saved /\ NoSource \notin Sources
  BY ReplayAssumption DEF Sound
<1>2. /\ pending' = FALSE
      /\ flash' = [s \in Sources |-> IF due(s) = {} THEN flash[s] ELSE item(lastOf(due(s)))]
      /\ rpl' = [i \in Slots |-> [rpl[i] EXCEPT !.store = FALSE]]
  BY DEF store_pending_rpl
<1>3. ASSUME NEW i \in Slots
      PROVE  /\ rpl'[i] \in Entry /\ ~rpl'[i].store
             /\ rpl'[i].src = rpl[i].src /\ rpl'[i].seq = rpl[i].seq /\ rpl'[i].old = rpl[i].old
  <2>1. rpl[i] \in Entry /\ rpl'[i] = [rpl[i] EXCEPT !.store = FALSE]
    BY <1>1, <1>2 DEF Types
  <2> QED BY <2>1 DEF Entry
<1>4. ASSUME NEW s \in Sources, NEW i \in due(s)
      PROVE  flash'[s] = item(i)
  <2>1. i \in Slots /\ due(s) = {i}
    BY <1>1, <1>4 DEF Reachable
  <2>2. lastOf({i}) = i
    BY <2>1, ReplayAssumption DEF Slots
  <2>3. lastOf(due(s)) = i
    BY <2>1, <2>2
  <2> QED BY <1>2, <2>1, <2>3
<1>5. ASSUME NEW s \in Sources, due(s) = {}
      PROVE  flash'[s] = flash[s]
  BY <1>2, <1>5
<1>6. Reachable'
  BY <1>1, <1>3 DEF Reachable, HasGap
<1>7. Saved'
  <2>1. ASSUME NEW i \in Slots, rpl[i].src # NoSource
        PROVE  flash'[rpl[i].src] = item(i)
    <3>1. rpl[i].src \in Sources
      BY <1>1, <2>1 DEF Types, Entry
    <3>2. CASE rpl[i].store
      BY <1>4, <3>1, <3>2
    <3>3. CASE ~rpl[i].store
      <4>1. due(rpl[i].src) = {}
        BY <1>1, <2>1, <3>3 DEF Reachable
      <4>2. flash'[rpl[i].src] = flash[rpl[i].src]
        BY <1>5, <3>1, <4>1
      <4> QED BY <1>1, <2>1, <3>3, <4>2 DEF Saved
    <3> QED BY <3>2, <3>3
  <2> HIDE DEF due, lastOf
  <2> QED BY <1>3, <2>1 DEF Saved
<1> QED BY <1>6, <1>7

\* A restart leaves the list as it is stored.
LEMMA RestartSound ==
    ASSUME Types, Restart
    PROVE  Reachable' /\ Saved'
<1>1. flash' = flash /\ pending' = FALSE
  BY DEF Restart
<1>2. Reachable'
  BY RestartLoads DEF Reachable, HasGap
<1>3. Saved'
  BY <1>1, RestartLoads DEF Saved
<1> QED BY <1>2, <1>3

----------------------------------------------------------------------------
(* What was let through is refused from then on. *)

\* Nothing has happened that lets a replay through.
Clean == mishaps \cap {"unsaved", "gap", "overflow"} = {}

\* An entry that refuses g and what was sent before it, while the IV index of g
\* is the current one or the one before.
Refuses(e, g) ==
    /\ g.iv = iv => ~e.old /\ g.seq <= e.seq
    /\ g.iv = iv - 1 => ~e.old \/ g.seq <= e.seq

Listed ==
    \A s \in Sources : newest[s].iv # -1 /\ newest[s].iv >= iv - 1 =>
        \E i \in Slots : rpl[i].src = s /\ Refuses(rpl[i], newest[s])

RInv == Types /\ (Clean => Reachable /\ Saved /\ Listed)

\* A message that is not newer than what its source has sent and was let
\* through stops at the entry of the source, and that entry refuses it.
LEMMA ListRefuses ==
    ASSUME RInv, Clean, NEW m \in Msg, Decrypts(m), ~After(m, newest[m.src])
    PROVE  ~rpl_check(m)
<1> SUFFICES ASSUME StopsAt(m) # {} PROVE ~Newer(rpl[StopSlot(m)], m)
  BY DEF rpl_check
<1> DEFINE g == newest[m.src]
           k == StopSlot(m)
<1>1. Types /\ Reachable /\ Listed /\ SLOTS \in Nat /\ NoSource \notin Sources
  BY ReplayAssumption DEF RInv
<1>2. /\ m.src \in Sources /\ m.iv \in Nat /\ m.seq \in Nat
      /\ g.iv \in Int /\ g.seq \in Int /\ iv \in Nat /\ g.iv <= iv
  BY <1>1, ReplayAssumption DEF Types, Passed, Msg, Ivs
<1>3. m.iv \in {iv, iv - 1} /\ m.iv <= g.iv /\ (m.iv = g.iv => m.seq <= g.seq)
  BY <1>2 DEF Decrypts, After
<1>4. PICK i \in Slots : rpl[i].src = m.src /\ Refuses(rpl[i], g)
  BY <1>1, <1>2, <1>3 DEF Listed
<1>5. k \in Slots /\ rpl[k].src \in {NoSource, m.src} /\ k <= i
  BY <1>4, StopsFirst
<1>6. k = i
  <2>1. CASE rpl[k].src = NoSource
    BY <1>1, <1>2, <1>4, <1>5, <2>1 DEF Reachable, HasGap, Slots
  <2>2. CASE rpl[k].src = m.src
    BY <1>1, <1>2, <1>4, <1>5, <2>2 DEF Reachable
  <2> QED BY <1>5, <2>1, <2>2
<1>7. rpl[i] \in Entry /\ rpl[i].old \in BOOLEAN /\ rpl[i].seq \in Nat /\ rpl[i].src # NoSource
  BY <1>1, <1>2, <1>4 DEF Types, Entry
<1>8. ~Newer(rpl[i], m)
  BY <1>2, <1>3, <1>4, <1>7 DEF Refuses, Newer, OldIv
<1> QED BY <1>6, <1>8

\* At first nothing has been let through.
LEMMA TypesInit == Init => Types /\ Reachable /\ Saved
<1> SUFFICES ASSUME Init PROVE Types /\ Reachable /\ Saved
  OBVIOUS
<1> USE ReplayAssumption DEF Init, Empty, NoMsg
<1>1. Types
  <2>1. Empty \in Entry
    BY DEF Entry
  <2>2. ASSUME NEW s \in Sources PROVE NoMsg(s) \in Passed /\ newest[s].iv <= iv
    BY DEF Passed
  <2> HIDE DEF Empty, NoMsg
  <2> QED BY <2>1, <2>2 DEF Types
<1>2. Reachable
  BY DEF Reachable, HasGap
<1>3. Saved
  BY DEF Saved
<1> QED BY <1>1, <1>2, <1>3

LEMMA RInit == Init => RInv
BY TypesInit DEF RInv, Init, NoMsg, Listed

\* What was let through stays listed: the message that comes in is newer than all
\* before it, by ListRefuses; entering an update ages the entries together with
\* the messages they stand for; what was let through before a recovery can no
\* longer be decrypted; and a restart with nothing outstanding, and with a slot
\* for every item, brings every entry back.
LEMMA RStep == RInv /\ [Next]_vars => RInv'
<1> SUFFICES ASSUME RInv, [Next]_vars, Clean' PROVE Reachable' /\ Saved' /\ Listed'
  BY TypesStep DEF RInv
<1>1. Clean
  BY DEF Next, vars, Receive, EnterUpdate, Recover, store_pending_rpl, Restart, Clean
<1>2. Types /\ Reachable /\ Saved /\ Listed /\ Sound /\ Types'
  BY <1>1, TypesStep DEF RInv, Sound
<1>3. iv \in Nat /\ \A s \in Sources : newest[s].iv \in Int /\ newest[s].iv <= iv
  BY <1>2, ReplayAssumption DEF Types, Passed
<1>4. ASSUME NEW m \in Msg, Receive(m) PROVE Reachable' /\ Saved' /\ Listed'
  <2> DEFINE k == StopSlot(m)
             e == [src |-> m.src, seq |-> m.seq, old |-> OldIv(m), store |-> TRUE]
  <2>1. Reachable' /\ Saved'
    BY <1>2, <1>4, ReceiveSound
  <2>2. m.src \in Sources /\ m.seq \in Int /\ NoSource \notin Sources
    BY ReplayAssumption DEF Msg
  <2>3. k \in Slots /\ rpl[k].src \in {NoSource, m.src}
    BY <1>4, StopsFirst DEF Receive, rpl_check
  <2>4. iv' = iv /\ newest' = [newest EXCEPT ![m.src] = m]
    <3>1. After(m, newest[m.src])
      BY <1>1, <1>4, ListRefuses DEF Receive
    <3> QED BY <1>4, <3>1 DEF Receive
  <2>5. rpl'[k] = e /\ \A j \in Slots \ {k} : rpl'[j] = rpl[j]
    BY <1>2, <1>4, <2>3 DEF Receive, rpl_update, Types
  <2>6. Listed'
    <3> SUFFICES ASSUME NEW s \in Sources, newest'[s].iv # -1, newest'[s].iv >= iv - 1
                 PROVE  (\E i \in Slots : rpl[i].src = s /\ Refuses(rpl[i], newest[s]))'
      BY <2>4 DEF Listed
    <3>1. CASE s = m.src
      <4>1. newest'[s] = m
        BY <1>2, <2>4, <3>1 DEF Types
      <4>2. e.old = OldIv(m) /\ e.seq = m.seq /\ e.src = s
        BY <3>1
      <4> HIDE DEF e
      <4>3. m.iv = iv => ~e.old
        BY <4>2, Zenon DEF OldIv
      <4>4. m.seq <= e.seq
        BY <2>2, <4>2
      <4> QED BY <2>3, <2>4, <2>5, <4>1, <4>2, <4>3, <4>4 DEF Refuses
    <3>2. CASE s # m.src
      <4>1. newest'[s] = newest[s]
        BY <1>2, <2>4, <3>2 DEF Types
      <4>2. PICK i \in Slots : rpl[i].src = s /\ Refuses(rpl[i], newest[s])
        BY <1>2, <4>1 DEF Listed
      <4>3. i # k
        BY <2>2, <2>3, <3>2, <4>2
      <4> QED BY <2>4, <2>5, <4>1, <4>2, <4>3 DEF Refuses
    <3> QED BY <3>1, <3>2
  <2> QED BY <2>1, <2>6
<1>5. CASE EnterUpdate
  <2>1. /\ iv' = iv + 1 /\ flash' = flash /\ newest' = newest /\ ~HasGap(rpl')
        /\ rpl' = [i \in Slots |-> Reset(rpl[i])]
        /\ pending' = (pending \/ \E i \in Slots : rpl[i].src # NoSource)
    BY <1>5 DEF EnterUpdate, Clean
  <2>2. Reachable' /\ Saved'
    BY <1>2, <2>1, ResetSound
  <2>3. Listed'
    <3> SUFFICES ASSUME NEW s \in Sources, newest[s].iv # -1, newest[s].iv >= iv
                 PROVE  (\E i \in Slots : rpl[i].src = s /\ Refuses(rpl[i], newest[s]))'
      BY <1>3, <2>1 DEF Listed
    <3>1. newest[s].iv = iv
      BY <1>3
    <3>2. PICK i \in Slots : rpl[i].src = s /\ ~rpl[i].old /\ newest[s].seq <= rpl[i].seq
      BY <1>2, <1>3, <3>1 DEF Listed, Refuses
    <3>3. rpl[i] \in Entry /\ rpl'[i] = Reset(rpl[i]) /\ s # NoSource
      BY <1>2, <2>1, ReplayAssumption DEF Types
    <3>4. rpl'[i].src = s /\ rpl'[i].seq = rpl[i].seq
      BY <3>2, <3>3, ResetEntry
    <3>5. newest'[s].seq <= rpl'[i].seq /\ newest'[s].iv # iv'
      BY <1>3, <2>1, <3>1, <3>2, <3>4
    <3> QED BY <3>4, <3>5 DEF Refuses
  <2> QED BY <2>2, <2>3
<1>6. ASSUME NEW upd \in BOOLEAN, Recover(upd) PROVE Reachable' /\ Saved' /\ Listed'
  <2>1. /\ iv' = iv + 2 /\ flash' = flash /\ newest' = newest /\ pending' = TRUE
        /\ rpl' = (IF upd THEN [i \in Slots |-> Reset(rpl[i])] ELSE rpl) /\ ~HasGap(rpl')
    BY <1>6 DEF Recover, Clean
  <2>2. Listed'
    BY <1>3, <2>1 DEF Listed
  <2>3. CASE upd
    BY <1>2, <2>1, <2>2, <2>3, ResetSound
  <2>4. CASE ~upd
    BY <1>2, <2>1, <2>2, <2>4 DEF Reachable, HasGap, Saved
  <2> QED BY <2>3, <2>4
<1>7. CASE store_pending_rpl
  <2>1. Reachable' /\ Saved'
    BY <1>2, <1>7, StoreSound
  <2>2. newest' = newest /\ iv' = iv /\ rpl' = [i \in Slots |-> [rpl[i] EXCEPT !.store = FALSE]]
    BY <1>7 DEF store_pending_rpl
  <2>3. ASSUME NEW i \in Slots
        PROVE  rpl'[i].src = rpl[i].src /\ rpl'[i].seq = rpl[i].seq /\ rpl'[i].old = rpl[i].old
    BY <1>2, <2>2 DEF Types, Entry
  <2>4. Listed'
    <3> SUFFICES ASSUME NEW s \in Sources, newest[s].iv # -1, newest[s].iv >= iv - 1
                 PROVE  (\E i \in Slots : rpl[i].src = s /\ Refuses(rpl[i], newest[s]))'
      BY <2>2 DEF Listed
    <3>1. PICK i \in Slots : rpl[i].src = s /\ Refuses(rpl[i], newest[s])
      BY <1>2 DEF Listed
    <3>2. newest' = newest /\ iv' = iv
      BY <2>2
    <3> QED BY <2>3, <3>1, <3>2 DEF Refuses
  <2> QED BY <2>1, <2>4
<1>8. CASE Restart
  <2>1. /\ iv' = iv /\ newest' = newest /\ ~pending
        /\ ~(Cardinality(Stored) > SLOTS) /\ Reachable' /\ Saved'
    BY <1>2, <1>8, RestartSound DEF Restart, Clean, Stored
  <2>2. Listed'
    <3> SUFFICES ASSUME NEW s \in Sources, newest[s].iv # -1, newest[s].iv >= iv - 1
                 PROVE  (\E i \in Slots : rpl[i].src = s /\ Refuses(rpl[i], newest[s]))'
      BY <2>1 DEF Listed
    <3>1. PICK k \in Slots : rpl[k].src = s /\ Refuses(rpl[k], newest[s])
      BY <1>2 DEF Listed
    <3>2. flash[s] = [seq |-> rpl[k].seq, old |-> rpl[k].old] /\ s # NoSource
      BY <1>2, <2>1, <3>1, ReplayAssumption DEF Saved
    <3>3. s \in Stored
      <4>1. rpl[k].seq \in Nat
        BY <1>2 DEF Types, Entry
      <4> QED BY <3>2, <4>1 DEF NoItem, Stored
    <3>4. Cardinality(Stored) <= SLOTS
      <4>1. Cardinality(Stored) \in Nat /\ SLOTS \in Nat
        BY <1>2, <1>8, RestartLoads, ReplayAssumption
      <4> QED BY <2>1, <4>1
    <3>5. PICK i \in Slots : rpl'[i].src = s
      BY <1>2, <1>8, <3>3, <3>4, RestartLoads
    <3>6. flash[s] = [seq |-> rpl'[i].seq, old |-> rpl'[i].old]
      BY <1>2, <1>8, <3>2, <3>5, RestartLoads
    <3>7. rpl'[i].seq = rpl[k].seq /\ rpl'[i].old = rpl[k].old
      BY <3>2, <3>6
    <3>8. newest' = newest /\ iv' = iv
      BY <2>1
    <3> QED BY <3>1, <3>5, <3>7, <3>8 DEF Refuses
  <2> QED BY <2>1, <2>2
<1>9. CASE UNCHANGED vars
  BY <1>2, <1>9 DEF vars, Reachable, HasGap, Saved, Listed, Refuses
<1> QED BY <1>4, <1>5, <1>6, <1>7, <1>8, <1>9 DEF Next

\* bt_mesh_rpl_check refuses every message that was let through before, and every
\* older one of its source, for any number of sources and slots, through any
\* IV updates, IV index recovery, stores and restarts, unless the list met one
\* of the mishaps the property names.
THEOREM NoReplayPasses == Spec => []ReplaysRefused
<1>1. RInv => ReplaysRefused
  BY ListRefuses DEF ReplaysRefused, Clean
<1> QED BY <1>1, RInit, RStep, PTL DEF Spec

----------------------------------------------------------------------------
(* What is newer than all before it passes. *)

\* Nothing has happened that shuts a source out.
Fresh == mishaps \cap {"unsaved", "stale", "recovery"} = {}

\* An entry that refuses nothing newer than g.
Admits(e, g) ==
    /\ ~e.old => g.iv = iv /\ e.seq <= g.seq
    /\ e.old => g.iv = iv \/ (g.iv = iv - 1 /\ e.seq <= g.seq)

Bounded == \A i \in Slots : rpl[i].src # NoSource => Admits(rpl[i], newest[rpl[i].src])

\* As long as no entry was discarded, no item is without its entry: a restart
\* brings back only what was in the list.
AllListed == \A s \in Stored : \E i \in Slots : rpl[i].src = s

PInv ==
    /\ Types
    /\ Fresh => Bounded
    /\ Fresh /\ "discarded" \notin mishaps => Reachable /\ Saved /\ AllListed

LEMMA PInit == Init => PInv
<1> SUFFICES ASSUME Init PROVE PInv
  OBVIOUS
<1>1. Types /\ Reachable /\ Saved
  BY TypesInit
<1>2. Bounded /\ AllListed
  BY DEF Init, Bounded, AllListed, Stored, Empty
<1> QED BY <1>1, <1>2 DEF PInv

\* The newest message of a source only gets newer.
LEMMA ReceiveBounded ==
    ASSUME Types, Bounded, NEW m \in Msg, Receive(m)
    PROVE  Bounded'
<1> DEFINE k == StopSlot(m)
           e == [src |-> m.src, seq |-> m.seq, old |-> OldIv(m), store |-> TRUE]
           g == newest[m.src]
<1>1. /\ m.src \in Sources /\ m.seq \in Int /\ m.iv \in {iv, iv - 1} /\ iv \in Nat
      /\ g.iv \in Int /\ g.seq \in Int /\ g.iv <= iv
  BY ReplayAssumption DEF Msg, Types, Passed, Receive, Decrypts
<1>2. /\ k \in Slots /\ iv' = iv
      /\ rpl'[k] = e /\ \A j \in Slots \ {k} : rpl'[j] = rpl[j]
  BY StopsFirst DEF Receive, rpl_check, rpl_update, Types
<1>3. /\ newest'[m.src] = IF After(m, g) THEN m ELSE g
      /\ \A s \in Sources \ {m.src} : newest'[s] = newest[s]
  BY <1>1 DEF Receive, Types
<1>4. Admits(e, newest'[m.src])
  <2>1. e.old = OldIv(m) /\ e.seq = m.seq
    OBVIOUS
  <2> HIDE DEF e
  <2>2. (e.old => m.iv # iv) /\ (~e.old => m.iv = iv)
    BY <2>1, Zenon DEF OldIv
  <2>3. CASE After(m, g)
    BY <1>1, <1>3, <2>1, <2>2, <2>3 DEF Admits
  <2>4. CASE ~After(m, g)
    BY <1>1, <1>3, <2>1, <2>2, <2>4 DEF Admits, After
  <2> QED BY <2>3, <2>4
<1>5. ASSUME NEW i \in Slots \ {k}, rpl[i].src # NoSource
      PROVE  Admits(rpl[i], newest'[rpl[i].src])
  <2>1. rpl[i].src \in Sources /\ rpl[i].seq \in Int /\ Admits(rpl[i], newest[rpl[i].src])
    BY <1>5 DEF Types, Entry, Bounded
  <2>2. CASE rpl[i].src = m.src /\ After(m, g)
    BY <1>1, <1>3, <2>1, <2>2 DEF Admits, After
  <2>3. CASE ~(rpl[i].src = m.src /\ After(m, g))
    BY <1>3, <2>1, <2>3
  <2> QED BY <2>2, <2>3
<1>6. e.src = m.src
  OBVIOUS
<1> HIDE DEF e
<1> QED BY <1>2, <1>4, <1>5, <1>6 DEF Bounded, Admits

\* If every item has its entry, there is a slot for every item.
LEMMA EnoughSlots ==
    ASSUME AllListed
    PROVE  Cardinality(Stored) <= SLOTS
<1> DEFINE U == {i \in Slots : rpl[i].src \in Stored}
           f == [i \in U |-> rpl[i].src]
<1>1. IsFiniteSet(Slots) /\ Cardinality(Slots) = SLOTS
  BY ReplayAssumption, FS_Interval DEF Slots
<1>2. IsFiniteSet(U) /\ Cardinality(U) <= Cardinality(Slots)
  BY <1>1, FS_Subset
<1>3. f \in Surjection(U, Stored)
  BY DEF Surjection, AllListed
<1>4. IsFiniteSet(Stored) /\ Cardinality(Stored) <= Cardinality(U)
  BY <1>2, <1>3, FS_Surjection
<1>5. Cardinality(U) \in Nat /\ Cardinality(Stored) \in Nat /\ SLOTS \in Nat
  BY <1>2, <1>4, FS_CardinalityType, ReplayAssumption
<1> QED BY <1>1, <1>2, <1>4, <1>5

\* Entries stay behind what their sources have sent: an update discards those that
\* are old already, and a restart brings back what was in the list, since items
\* without an entry come only from discarded ones.
LEMMA PStep == PInv /\ [Next]_vars => PInv'
<1> SUFFICES ASSUME PInv, [Next]_vars, Fresh'
             PROVE  Bounded' /\ ("discarded" \notin mishaps' => Reachable' /\ Saved' /\ AllListed')
  BY TypesStep DEF PInv
<1> DEFINE Kept == "discarded" \notin mishaps' => Reachable' /\ Saved' /\ AllListed'
<1>1. Fresh /\ ("discarded" \notin mishaps' => "discarded" \notin mishaps)
  BY DEF Next, vars, Receive, EnterUpdate, Recover, store_pending_rpl, Restart, Fresh
<1>2. Types /\ Bounded /\ Types'
  BY <1>1, TypesStep DEF PInv
<1>3. "discarded" \notin mishaps => Sound /\ AllListed
  BY <1>1 DEF PInv, Sound
<1>4. NoSource \notin Sources /\ iv \in Nat
  BY <1>2, ReplayAssumption DEF Types
<1>5. ASSUME NEW m \in Msg, Receive(m) PROVE Bounded' /\ Kept
  <2>1. Bounded'
    BY <1>2, <1>5, ReceiveBounded
  <2>2. ASSUME "discarded" \notin mishaps' PROVE Reachable' /\ Saved' /\ AllListed'
    <3>1. Sound /\ AllListed /\ Reachable' /\ Saved'
      BY <1>1, <1>3, <1>5, <2>2, ReceiveSound
    <3>2. StopSlot(m) \in Slots /\ rpl[StopSlot(m)].src \in {NoSource, m.src}
      BY <1>5, StopsFirst DEF Receive, rpl_check
    <3>3. /\ rpl'[StopSlot(m)].src = m.src /\ flash' = flash
          /\ \A j \in Slots \ {StopSlot(m)} : rpl'[j] = rpl[j]
      BY <1>2, <1>5, <3>2 DEF Receive, rpl_update, Types
    <3> QED BY <1>4, <3>1, <3>2, <3>3 DEF AllListed, Stored
  <2> QED BY <2>1, <2>2
<1>6. CASE EnterUpdate
  <2>1. /\ iv' = iv + 1 /\ flash' = flash /\ newest' = newest
        /\ rpl' = [i \in Slots |-> Reset(rpl[i])]
        /\ pending' = (pending \/ \E i \in Slots : rpl[i].src # NoSource)
    BY <1>6 DEF EnterUpdate
  <2>2. \A i \in Slots : rpl[i] \in Entry /\ rpl'[i] = Reset(rpl[i])
    BY <1>2, <2>1 DEF Types
  <2>3. Bounded'
    <3> SUFFICES ASSUME NEW i \in Slots, rpl'[i].src # NoSource
                 PROVE  Admits(rpl[i], newest[rpl[i].src])'
      BY DEF Bounded
    <3>1. /\ rpl'[i].src = rpl[i].src /\ ~rpl[i].old
          /\ rpl'[i].seq = rpl[i].seq /\ rpl'[i].old
      BY <2>2, ResetEntry
    <3>2. newest[rpl[i].src].iv = iv /\ rpl[i].seq <= newest[rpl[i].src].seq
      BY <1>2, <3>1 DEF Bounded, Admits
    <3> QED BY <1>4, <2>1, <3>1, <3>2 DEF Admits
  <2>4. ASSUME "discarded" \notin mishaps' PROVE Reachable' /\ Saved' /\ AllListed'
    <3>1. Sound /\ AllListed
      BY <1>1, <1>3, <2>4
    <3>2. \A i \in Slots : rpl'[i].src = rpl[i].src
      <4>1. \A i \in Slots : rpl[i].src # NoSource => ~rpl[i].old
        BY <1>6, <2>4 DEF EnterUpdate
      <4> QED BY <2>2, <4>1, ResetEntry
    <3>3. ~HasGap(rpl')
      BY <3>1, <3>2 DEF Sound, Reachable, HasGap
    <3>4. Reachable' /\ Saved'
      BY <2>1, <3>1, <3>3, ResetSound
    <3>5. AllListed'
      BY <2>1, <3>1, <3>2 DEF AllListed, Stored
    <3> QED BY <3>4, <3>5
  <2> QED BY <2>3, <2>4
<1>7. ASSUME NEW upd \in BOOLEAN, Recover(upd) PROVE FALSE
  BY <1>7 DEF Recover, Fresh
<1>8. CASE store_pending_rpl
  <2>1. newest' = newest /\ iv' = iv /\ rpl' = [i \in Slots |-> [rpl[i] EXCEPT !.store = FALSE]]
    BY <1>8 DEF store_pending_rpl
  <2>2. ASSUME NEW i \in Slots
        PROVE  rpl'[i].src = rpl[i].src /\ rpl'[i].seq = rpl[i].seq /\ rpl'[i].old = rpl[i].old
    BY <1>2, <2>1 DEF Types, Entry
  <2>3. Bounded'
    BY <1>2, <2>1, <2>2 DEF Bounded, Admits
  <2>4. ASSUME "discarded" \notin mishaps' PROVE Reachable' /\ Saved' /\ AllListed'
    <3>1. Sound /\ AllListed /\ Reachable' /\ Saved'
      BY <1>1, <1>3, <1>8, <2>4, StoreSound
    <3>2. ASSUME NEW s \in Sources, \A i \in Slots : rpl[i].src # s
          PROVE  flash'[s] = flash[s]
      BY <1>8, <3>2 DEF store_pending_rpl
    <3> QED BY <2>2, <3>1, <3>2 DEF AllListed, Stored
  <2> QED BY <2>3, <2>4
<1>9. CASE Restart
  <2>1. /\ newest' = newest /\ iv' = iv /\ flash' = flash
        /\ ~pending /\ "discarded" \notin mishaps
    BY <1>9 DEF Restart, Fresh
  <2>2. Saved /\ AllListed /\ Reachable' /\ Saved'
    BY <1>2, <1>3, <1>9, <2>1, RestartSound DEF Sound
  <2>3. AllListed'
    <3>1. \A s \in Stored : \E i \in Slots : rpl'[i].src = s
      BY <1>2, <1>9, <2>2, RestartLoads, EnoughSlots
    <3> QED BY <2>1, <3>1 DEF AllListed, Stored
  <2>4. Bounded'
    <3> SUFFICES ASSUME NEW i \in Slots, rpl'[i].src # NoSource
                 PROVE  Admits(rpl[i], newest[rpl[i].src])'
      BY DEF Bounded
    <3>1. PICK s \in Stored :
            rpl'[i].src = s /\ flash[s] = [seq |-> rpl'[i].seq, old |-> rpl'[i].old]
      BY <1>2, <1>9, RestartLoads
    <3>2. PICK k \in Slots : rpl[k].src = s
      BY <2>2 DEF AllListed
    <3>3. flash[s] = [seq |-> rpl[k].seq, old |-> rpl[k].old] /\ Admits(rpl[k], newest[s])
      BY <1>2, <2>1, <2>2, <3>1, <3>2 DEF Saved, Bounded
    <3>4. rpl'[i].seq = rpl[k].seq /\ rpl'[i].old = rpl[k].old
      BY <3>1, <3>3
    <3> QED BY <2>1, <3>1, <3>3, <3>4 DEF Admits
  <2> QED BY <2>2, <2>3, <2>4
<1>10. CASE UNCHANGED vars
  BY <1>1, <1>2, <1>3, <1>10
  DEF vars, Sound, Reachable, HasGap, Saved, AllListed, Stored, Bounded, Admits
<1> QED BY <1>5, <1>6, <1>7, <1>8, <1>9, <1>10 DEF Next

\* bt_mesh_rpl_check lets a message pass that is newer than all that came from its
\* source, if there is a slot for it, for any number of sources and slots, through
\* any IV updates, stores and restarts, with the exceptions the property names.
THEOREM NewMessagesPass == Spec => []NewPasses
<1>1. ASSUME PInv, Fresh, NEW m \in Msg,
             Decrypts(m), After(m, newest[m.src]), StopsAt(m) # {}
      PROVE  rpl_check(m)
  <2> DEFINE e == rpl[StopSlot(m)]
             g == newest[m.src]
  <2>1. /\ StopSlot(m) \in Slots /\ e.src \in {NoSource, m.src}
        /\ e \in Entry /\ e.seq \in Int /\ m.src \in Sources
        /\ m.iv \in {iv, iv - 1} /\ m.seq \in Int /\ iv \in Nat
        /\ g.iv \in Int /\ g.seq \in Int
    BY <1>1, StopsFirst DEF PInv, Types, Entry, Passed, Msg, Decrypts
  <2>2. CASE e.src = NoSource
    BY <1>1, <2>2 DEF rpl_check, Newer
  <2>3. CASE e.src # NoSource
    <3>1. Admits(e, g) /\ After(m, g)
      BY <1>1, <2>1, <2>3 DEF PInv, Bounded
    <3> HIDE DEF e, g
    <3>2. Newer(e, m)
      BY <2>1, <3>1 DEF Newer, Admits, After, OldIv
    <3> QED BY <1>1, <3>2 DEF rpl_check, e
  <2> QED BY <2>2, <2>3
<1>2. PInv => NewPasses
  BY <1>1 DEF NewPasses, Fresh
<1> QED BY <1>2, PInit, PStep, PTL DEF Spec

=============================================================================

------------------------------- MODULE Replay -------------------------------
(***************************************************************************)
(* The replay protection list of a node (rpl.c) and how it is stored       *)
(* (settings.c).  A message carries its source, IV index and sequence      *)
(* number.  Messages arrive in any order, and any number of times, by      *)
(* relays and retransmission, also when the network message cache no       *)
(* longer knows them.  The list is to let every message through once.      *)
(*                                                                         *)
(* A source sends with increasing pairs of IV index and sequence number    *)
(* (NoncesFresh of NetSeq), and none with an IV index above the network's. *)
(***************************************************************************)
EXTENDS Integers, FiniteSets, Functions

CONSTANTS
    Sources,        \* addresses of other nodes
    SLOTS,          \* CONFIG_BT_MESH_CRPL
    IV_MAX,         \* bound: IV indexes
    SEQ_MAX         \* bound: sequence numbers

NoSource == 0
ASSUME ReplayAssumption ==
    /\ IsFiniteSet(Sources) /\ NoSource \notin Sources
    /\ {IV_MAX, SEQ_MAX, SLOTS} \subseteq Nat

VARIABLES
    iv,         \* bt_mesh.iv_index of this node
    rpl,        \* replay_list
    pending,    \* BT_MESH_RPL_PENDING
    flash,      \* the items bt/mesh/RPL/<src>
    newest,     \* the newest message of each source that was let through
    mishaps     \* what has happened that the list does not withstand

vars == <<iv, rpl, pending, flash, newest, mishaps>>

Slots == 1 .. SLOTS
Ivs == 0 .. IV_MAX
Msg == [src : Sources, iv : Ivs, seq : 0 .. SEQ_MAX]
Entry == [src : Sources \cup {NoSource}, seq : 0 .. SEQ_MAX, old : BOOLEAN, store : BOOLEAN]
Empty == [src |-> NoSource, seq |-> 0, old |-> FALSE, store |-> FALSE]
NoMsg(s) == [src |-> s, iv |-> -1, seq |-> -1]
NoItem == [seq |-> -1, old |-> FALSE]

\* The types; an entry that is to be stored is flagged as such.
TypeOK ==
    /\ \A s \in Sources : newest[s] \in Msg \cup {NoMsg(s)}
    /\ iv \in Ivs
    /\ rpl \in [Slots -> Entry]
    /\ pending \in BOOLEAN /\ ((\E i \in Slots : rpl[i].store) => pending)
    /\ flash \in [Sources -> [seq : -1 .. SEQ_MAX, old : BOOLEAN]]
    /\ mishaps \subseteq {"unsaved", "gap", "discarded", "stale", "overflow", "recovery"}

Init ==
    /\ newest = [s \in Sources |-> NoMsg(s)]
    /\ iv = 0
    /\ rpl = [i \in Slots |-> Empty]
    /\ pending = FALSE
    /\ flash = [s \in Sources |-> NoItem]
    /\ mishaps = {}

-----------------------------------------------------------------------------
(* The list.                                                               *)

\* net_decrypt: a message of the current IV index, or of the one before.
Decrypts(m) == m.iv \in {iv, iv - 1}
OldIv(m) == m.iv # iv

\* Where the loop of bt_mesh_rpl_check ends: an empty slot, or the source's.
StopsAt(m) == {i \in Slots : rpl[i].src \in {NoSource, m.src}}
StopSlot(m) == CHOOSE i \in StopsAt(m) : \A j \in StopsAt(m) : i <= j

\* Mutant: the same sequence number passes.
Newer_OrSame(e, m) ==
    \/ e.src = NoSource
    \/ ~(OldIv(m) /\ ~e.old) /\ ((~OldIv(m) /\ e.old) \/ e.seq <= m.seq)

\* Whether the entry lets the message through.
Newer(e, m) ==
    \/ e.src = NoSource
    \/ ~(OldIv(m) /\ ~e.old) /\ ((~OldIv(m) /\ e.old) \/ e.seq < m.seq)

\* Not a replay, and there is a slot for it.
rpl_check(m) == StopsAt(m) # {} /\ Newer(rpl[StopSlot(m)], m)

rpl_update(m) ==
    /\ rpl' = [rpl EXCEPT ![StopSlot(m)] =
                 [src |-> m.src, seq |-> m.seq, old |-> OldIv(m), store |-> TRUE]]
    /\ pending' = TRUE

\* A message arrives and is let through; the others are dropped.
After(m, g) == g.iv < m.iv \/ (g.iv = m.iv /\ g.seq < m.seq)
Receive(m) ==
    /\ Decrypts(m)
    /\ rpl_check(m)
    /\ rpl_update(m)
    /\ newest' = [newest EXCEPT ![m.src] = IF After(m, @) THEN m ELSE @]
    /\ UNCHANGED <<iv, flash, mishaps>>

\* bt_mesh_rpl_reset, for one entry.
Reset(e) ==
    IF e.src = NoSource THEN e
    ELSE IF e.old THEN [Empty EXCEPT !.store = TRUE]
    ELSE [e EXCEPT !.old = TRUE, !.store = TRUE]

HasGap(list) ==
    \E i, j \in Slots : i < j /\ list[i].src = NoSource /\ list[j].src # NoSource

\* Mutant: the entries are not marked as old.
EnterUpdate_NoReset ==
    /\ iv < IV_MAX
    /\ iv' = iv + 1
    /\ UNCHANGED <<rpl, pending, flash, newest, mishaps>>

\* bt_mesh_net_iv_update enters the update to the next IV index.
EnterUpdate ==
    /\ iv < IV_MAX
    /\ iv' = iv + 1
    /\ rpl' = [i \in Slots |-> Reset(rpl[i])]
    /\ pending' = (pending \/ \E i \in Slots : rpl[i].src # NoSource)
    /\ mishaps' = mishaps \cup (IF HasGap(rpl') THEN {"gap"} ELSE {})
         \cup (IF \E i \in Slots : rpl[i].src # NoSource /\ rpl[i].old THEN {"discarded"} ELSE {})
    /\ UNCHANGED <<flash, newest>>

\* Its recovery of an IV index further ahead: bt_mesh_rpl_clear only has the list
\* stored again, which entering an update marks as old.
Recover(upd) ==
    /\ iv + 2 <= IV_MAX
    /\ iv' = iv + 2
    /\ rpl' = IF upd THEN [i \in Slots |-> Reset(rpl[i])] ELSE rpl
    /\ pending' = TRUE
    /\ mishaps' = mishaps \cup {"recovery"} \cup (IF HasGap(rpl') THEN {"gap"} ELSE {})
    /\ UNCHANGED <<flash, newest>>

-----------------------------------------------------------------------------
(* Persistent storage.                                                     *)

\* store_pending, for the list.  A discarded entry has lost its address: its
\* item stays, and an item without address is written, which no load uses.
store_pending_rpl ==
    LET due(s) == {i \in Slots : rpl[i].store /\ rpl[i].src = s}
        item(i) == [seq |-> rpl[i].seq, old |-> rpl[i].old]
        lastOf(S) == CHOOSE i \in S : \A j \in S : j <= i
    IN  /\ pending
        /\ pending' = FALSE
        /\ flash' = [s \in Sources |-> IF due(s) = {} THEN flash[s] ELSE item(lastOf(due(s)))]
        /\ rpl' = [i \in Slots |-> [rpl[i] EXCEPT !.store = FALSE]]
        /\ UNCHANGED <<iv, newest, mishaps>>

\* A restart at any time.  rpl_set fills the list in the order in which the
\* items are loaded; when it is full the others are left out.
Restart ==
    LET stored == {s \in Sources : flash[s] # NoItem}
        n == Cardinality(stored)
    IN  /\ \E order \in Bijection(1 .. n, stored) :
             rpl' = [i \in Slots |->
                       IF i > n THEN Empty
                       ELSE [src |-> order[i], seq |-> flash[order[i]].seq,
                             old |-> flash[order[i]].old, store |-> FALSE]]
        /\ pending' = FALSE
        /\ mishaps' = mishaps \cup (IF pending THEN {"unsaved"} ELSE {})
             \cup (IF "discarded" \in mishaps THEN {"stale"} ELSE {})
             \cup (IF n > SLOTS THEN {"overflow"} ELSE {})
        /\ UNCHANGED <<iv, flash, newest>>

Next ==
    \/ \E m \in Msg : Receive(m)
    \/ EnterUpdate \/ (\E upd \in BOOLEAN : Recover(upd))
    \/ store_pending_rpl \/ Restart

Spec == Init /\ [][Next]_vars

-----------------------------------------------------------------------------
(* Properties.                                                             *)

\* No message passes twice: one that was let through, and every older one of its
\* source, is refused from then on, through IV updates, IV index recovery and
\* restarts that lose nothing (bt_mesh_rpl_check), as long as no update has left
\* an empty slot before an entry in use, and no restart found more items than
\* slots, since those of discarded entries are still there.
ReplaysRefused ==
    mishaps \cap {"unsaved", "gap", "overflow"} = {} =>
        \A m \in Msg : Decrypts(m) /\ ~After(m, newest[m.src]) => ~rpl_check(m)

\* A message that is newer than all that came from its source is let through if
\* there is a slot for it: IV updates, which begin sequence numbers anew, and
\* restarts that lose nothing do not shut a source out, except after IV index
\* recovery and after a restart has brought back an entry that was discarded.
NewPasses ==
    mishaps \cap {"unsaved", "stale", "recovery"} = {} =>
        \A m \in Msg :
            Decrypts(m) /\ After(m, newest[m.src]) /\ StopsAt(m) # {} => rpl_check(m)
=============================================================================

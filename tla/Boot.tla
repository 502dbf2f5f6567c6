-------------------------------- MODULE Boot --------------------------------
(***************************************************************************)
(* How the provisioner board comes up (Project/Provisioner/src/mesh.c):    *)
(* bt_ready loads what is stored, creates the configuration database and   *)
(* provisions the board itself, then the loop configures it.  Meanwhile    *)
(* the system work queue writes to persistent storage (store_pending in    *)
(* settings.c), and the board may lose power at any time.                  *)
(*                                                                         *)
(* main is preempted as soon as work is submitted without delay, and goes  *)
(* on when the work queue sleeps in a write or has finished.  A random key *)
(* is the number of the boot in which it was drawn; 0 is no key, and also  *)
(* the application key as it is before configure_self has drawn one.       *)
(***************************************************************************)
EXTENDS Naturals, FiniteSets

CONSTANTS
    RESTARTS,   \* restarts when nothing is left to do or to store
    CRASHES,    \* losses of power at any time
    LAGS        \* may storage lag behind the display, which main updates before
                \* it provisions itself and before the loop: subset of BOOLEAN

ASSUME BootAssumption == {RESTARTS, CRASHES} \subseteq Nat /\ LAGS \subseteq BOOLEAN

Boots == 1 .. RESTARTS + CRASHES + 1
Keys == {0} \cup Boots

\* The items in storage, in the order in which store_pending looks at them.
Rank == [NetKey |-> 1, AppKey |-> 1, Net |-> 2, IV |-> 3, CdbNet |-> 4,
         CdbNode |-> 5, CdbSubnet |-> 6]
Items == DOMAIN Rank
Updates == {"NetKey", "AppKey", "CdbNode", "CdbSubnet"}  \* kept in update tables
CdbItems == {"CdbNet", "CdbNode", "CdbSubnet"}
NoWaitItems == {"Net", "IV"}                             \* NO_WAIT_PENDING_BITS

\* Net is stored with an address, a node with its CONFIGURED flag.
NotStored == "not stored"
Values == [NetKey : Keys, AppKey : Keys,
           Net : {NotStored, "unassigned", "self_address"}, IV : {NotStored, "stored"},
           CdbNet : {NotStored, "stored"}, CdbSubnet : Keys,
           CdbNode : {NotStored, "unconfigured", "configured"}]
Blank == [NetKey |-> 0, AppKey |-> 0, Net |-> NotStored, IV |-> NotStored,
          CdbNet |-> NotStored, CdbSubnet |-> 0, CdbNode |-> NotStored]

VARIABLES
    pc,         \* where main is
    ram,        \* the items as they are in memory; Net is the primary address
    valid,      \* BT_MESH_VALID
    appKey,     \* application_key of mesh.c
    local,      \* the AppKey that the board has sent to itself (local_queue)
    pend,       \* items that are flagged, or in an update table
    due,        \* "now": store_pending is queued; "later": its delay is running
    pass,       \* the pass of store_pending: where it is, and what it writes
    flash,      \* persistent storage
    boot,       \* the number of this boot
    left,       \* restarts and losses of power that may still come, and the lag
    torn,       \* some boot has found storage half written
    given       \* application keys that were sent to boards

mem == <<pc, ram, valid, appKey, local, pend, due, pass>>
vars == <<pc, ram, valid, appKey, local, pend, due, pass, flash, boot, left, torn, given>>

Steps == {"load", "cdb_create", "store_cdb_subnet", "provision", "net_create",
          "store_subnet", "store_iv", "comp_provision", "loop", "configured"}

\* The types.
TypeOK ==
    /\ pc \in Steps
    /\ ram \in Values /\ flash \in Values
    /\ valid \in BOOLEAN /\ torn \in BOOLEAN
    /\ {appKey, local} \subseteq Keys /\ given \subseteq Keys
    /\ pend \subseteq Items
    /\ due \in {"no", "now", "later"}
    /\ pass.at \in 0 .. 6
    /\ pass.item # "none" => pass.item \in Items /\ pass.at = Rank[pass.item]
    /\ boot \in Boots
    /\ left \in [restarts : 0 .. RESTARTS, crashes : 0 .. CRASHES, lag : LAGS]

Idle == [at |-> 0, item |-> "none", value |-> 0]

Init ==
    /\ pc = "load" /\ ram = Blank /\ valid = FALSE /\ appKey = 0 /\ local = 0
    /\ pend = {} /\ due = "no" /\ pass = Idle
    /\ flash = Blank /\ boot = 1 /\ torn = FALSE /\ given = {}
    /\ \E lag \in LAGS : left = [restarts |-> RESTARTS, crashes |-> CRASHES, lag |-> lag]

-----------------------------------------------------------------------------
(* Persistent storage.                                                     *)

\* schedule_store and schedule_cdb_store, after an item was flagged.  Items of
\* the database go at once.  The others do when one of NO_WAIT_PENDING_BITS is
\* set, and else wait; k_delayed_work_submit replaces the earlier submission.
Store(item) ==
    /\ pend' = pend \cup {item}
    /\ due' = IF item \in CdbItems \/ (pend \cup {item}) \cap NoWaitItems # {}
              THEN "now" ELSE "later"

\* main has the processor.
WorkQueueIdle == pass.at = 0 /\ due # "now" /\ local = 0
MainRuns == pass.item # "none" \/ WorkQueueIdle
DisplayDone == left.lag \/ WorkQueueIdle

\* The delay of store_pending has passed.
DelayPasses ==
    /\ due = "later"
    /\ due' = "now"
    /\ UNCHANGED <<pc, ram, valid, appKey, local, pend, pass, flash, boot, left, torn, given>>

\* The items that the pass still comes to.
Ahead == {i \in pend : Rank[i] > pass.at \/ (Rank[i] = pass.at /\ i \in Updates)}

\* It runs in its turn: what set_configured submits is queued behind net_local.
StorePendingRuns ==
    pass.at > 0 \/ (due = "now" /\ (local = 0 \/ pc = "configured"))

InStore(item) ==
    IF item = "Net" /\ ram.Net = NotStored THEN "unassigned" ELSE ram[item]

\* Mutant: the items are written in any order.
Take_AnyOrder(item) ==
    /\ pass.item = "none"
    /\ StorePendingRuns
    /\ item \in Ahead
    /\ due' = IF pass.at = 0 THEN "no" ELSE due
    /\ pass' = [at |-> Rank[item], item |-> item, value |-> InStore(item)]
    /\ pend' = IF item \in Updates THEN pend ELSE pend \ {item}
    /\ UNCHANGED <<pc, ram, valid, appKey, local, flash, boot, left, torn, given>>

\* store_pending takes the next item and reads its value.  Flags are cleared
\* now, entries of the update tables after the write.
Take(item) ==
    /\ pass.item = "none"
    /\ StorePendingRuns
    /\ item \in Ahead
    /\ \A i \in Ahead : Rank[i] >= Rank[item]
    /\ due' = IF pass.at = 0 THEN "no" ELSE due
    /\ pass' = [at |-> Rank[item], item |-> item, value |-> InStore(item)]
    /\ pend' = IF item \in Updates THEN pend ELSE pend \ {item}
    /\ UNCHANGED <<pc, ram, valid, appKey, local, flash, boot, left, torn, given>>

\* settings_save_one returns.
Written ==
    /\ pass.item # "none"
    /\ flash' = [flash EXCEPT ![pass.item] = pass.value]
    /\ pend' = IF pass.item \in Updates THEN pend \ {pass.item} ELSE pend
    /\ pass' = [pass EXCEPT !.item = "none"]
    /\ UNCHANGED <<pc, ram, valid, appKey, local, due, boot, left, torn, given>>

\* Mutant: the end of a pass cancels what was submitted meanwhile.
PassEnds_ClearsDue ==
    /\ pass.item = "none"
    /\ StorePendingRuns
    /\ Ahead = {}
    /\ due' = "no"
    /\ pass' = Idle
    /\ UNCHANGED <<pc, ram, valid, appKey, local, pend, flash, boot, left, torn, given>>

\* store_pending returns, or finds nothing to do.
PassEnds ==
    /\ pass.item = "none"
    /\ StorePendingRuns
    /\ Ahead = {}
    /\ due' = IF pass.at = 0 THEN "no" ELSE due
    /\ pass' = Idle
    /\ UNCHANGED <<pc, ram, valid, appKey, local, pend, flash, boot, left, torn, given>>

-----------------------------------------------------------------------------
(* main: bt_ready, and its loop as far as it is about the board itself.    *)

Whole(f) == f = Blank \/ (f.NetKey # 0 /\ f.Net # NotStored /\ f.CdbNet # NotStored
                          /\ f.CdbSubnet # 0 /\ f.CdbNode # NotStored)

\* settings_load, and mesh_commit: the board is provisioned if a NetKey was
\* stored.
settings_load ==
    /\ pc = "load"
    /\ ram' = flash
    /\ valid' = (flash.NetKey # 0)
    /\ torn' = (torn \/ ~Whole(flash))
    /\ pc' = "cdb_create"
    /\ UNCHANGED <<appKey, local, pend, due, pass, flash, boot, left, given>>

\* Mutant: a database that was loaded is created anew.
cdb_create_Always ==
    /\ pc = "cdb_create" /\ MainRuns
    /\ IF FALSE
       THEN pc' = "provision" /\ UNCHANGED <<ram, pend, due>>
       ELSE /\ ram' = [ram EXCEPT !.CdbNet = "stored", !.CdbSubnet = boot]
            /\ Store("CdbNet")
            /\ pc' = "store_cdb_subnet"
    /\ UNCHANGED <<valid, appKey, local, pass, flash, boot, left, torn, given>>

\* bt_mesh_cdb_create up to bt_mesh_store_cdb, with a new network key.
cdb_create ==
    /\ pc = "cdb_create" /\ MainRuns
    /\ IF ram.CdbNet # NotStored
       THEN pc' = "provision" /\ UNCHANGED <<ram, pend, due>>
       ELSE /\ ram' = [ram EXCEPT !.CdbNet = "stored", !.CdbSubnet = boot]
            /\ Store("CdbNet")
            /\ pc' = "store_cdb_subnet"
    /\ UNCHANGED <<valid, appKey, local, pass, flash, boot, left, torn, given>>

\* Mutant: BT_MESH_VALID is not looked at.
provision_Always ==
    /\ pc = "provision" /\ MainRuns /\ DisplayDone
    /\ IF ram.CdbSubnet = 0 \/ ram.CdbNode # NotStored
       THEN pc' = "loop" /\ UNCHANGED <<ram, valid, pend, due>>
       ELSE /\ valid' = TRUE
            /\ ram' = [ram EXCEPT !.CdbNode = "unconfigured"]
            /\ Store("CdbNode")
            /\ pc' = "net_create"
    /\ UNCHANGED <<appKey, local, pass, flash, boot, left, torn, given>>

\* bt_mesh_provision up to bt_mesh_store_cdb_node.  It fails when the subnet is
\* missing, or when the board's own node is there already.
provision ==
    /\ pc = "provision" /\ MainRuns /\ DisplayDone
    /\ IF valid \/ ram.CdbSubnet = 0 \/ ram.CdbNode # NotStored
       THEN pc' = "loop" /\ UNCHANGED <<ram, valid, pend, due>>
       ELSE /\ valid' = TRUE
            /\ ram' = [ram EXCEPT !.CdbNode = "unconfigured"]
            /\ Store("CdbNode")
            /\ pc' = "net_create"
    /\ UNCHANGED <<appKey, local, pass, flash, boot, left, torn, given>>

\* bt_mesh_net_create up to bt_mesh_store_net.
net_create ==
    /\ pc = "net_create" /\ MainRuns
    /\ ram' = [ram EXCEPT !.NetKey = boot, !.IV = "stored"]
    /\ Store("Net")
    /\ pc' = "store_subnet"
    /\ UNCHANGED <<valid, appKey, local, pass, flash, boot, left, torn, given>>

\* The calls in between that only store an item.
StoreStep(at, item, next) ==
    /\ pc = at /\ MainRuns
    /\ Store(item)
    /\ pc' = next
    /\ UNCHANGED <<ram, valid, appKey, local, pass, flash, boot, left, torn, given>>

store_cdb_subnet == StoreStep("store_cdb_subnet", "CdbSubnet", "provision")
store_subnet == StoreStep("store_subnet", "NetKey", "store_iv")
store_iv == StoreStep("store_iv", "IV", "comp_provision")

\* The rest of bt_mesh_provision.
comp_provision ==
    /\ pc = "comp_provision" /\ MainRuns
    /\ ram' = [ram EXCEPT !.Net = "self_address"]
    /\ pc' = "loop"
    /\ UNCHANGED <<valid, appKey, local, pend, due, pass, flash, boot, left, torn, given>>

\* Mutant: the board does not configure itself.
configure_self_NotSent ==
    /\ pc = "loop" /\ MainRuns /\ DisplayDone
    /\ ram.CdbNode = "unconfigured"
    /\ appKey' = boot
    /\ local' = 0
    /\ pc' = "configured"
    /\ UNCHANGED <<ram, valid, pend, due, pass, flash, boot, left, torn, given>>

\* configure_self up to its bt_mesh_cdb_node_store, when the loop meets the
\* board's own node unconfigured.  What it sends to its own address goes through
\* the work queue (loopback); the answer is not looked at.
configure_self ==
    /\ pc = "loop" /\ MainRuns /\ DisplayDone
    /\ ram.CdbNode = "unconfigured"
    /\ appKey' = boot
    /\ local' = IF valid /\ ram.Net = "self_address" THEN boot ELSE 0
    /\ pc' = "configured"
    /\ UNCHANGED <<ram, valid, pend, due, pass, flash, boot, left, torn, given>>

\* The work queue delivers the AppKey (bt_mesh_net_local); the board takes it if
\* it has none yet (bt_mesh_app_key_add).
net_local ==
    /\ local # 0 /\ pass.at = 0
    /\ IF ram.AppKey = 0
       THEN ram' = [ram EXCEPT !.AppKey = local] /\ Store("AppKey")
       ELSE UNCHANGED <<ram, pend, due>>
    /\ local' = 0
    /\ UNCHANGED <<pc, valid, appKey, pass, flash, boot, left, torn, given>>

\* Mutant: the node is not stored again.
set_configured_NotStored ==
    /\ pc = "configured" /\ MainRuns
    /\ ram' = [ram EXCEPT !.CdbNode = "configured"]
    /\ UNCHANGED <<pend, due>>
    /\ pc' = "loop"
    /\ UNCHANGED <<valid, appKey, local, pass, flash, boot, left, torn, given>>

\* The rest of configure_self.
set_configured ==
    /\ pc = "configured" /\ MainRuns
    /\ ram' = [ram EXCEPT !.CdbNode = "configured"]
    /\ Store("CdbNode")
    /\ pc' = "loop"
    /\ UNCHANGED <<valid, appKey, local, pass, flash, boot, left, torn, given>>

\* configure_node: the loop sends application_key to a board that it has
\* provisioned, which needs BT_MESH_VALID.
configure_node ==
    /\ pc = "loop" /\ MainRuns
    /\ valid /\ ram.CdbNode # "unconfigured"
    /\ given' = given \cup {appKey}
    /\ UNCHANGED <<mem, flash, boot, left, torn>>

AtRest == pc = "loop" /\ ram.CdbNode # "unconfigured" /\ pend = {} /\ WorkQueueIdle

\* The board restarts, or loses power.
Restart ==
    /\ \/ /\ AtRest /\ left.restarts > 0
          /\ left' = [left EXCEPT !.restarts = @ - 1]
       \/ /\ ~AtRest /\ left.crashes > 0
          /\ left' = [left EXCEPT !.crashes = @ - 1]
    /\ boot' = boot + 1
    /\ pc' = "load" /\ ram' = Blank /\ valid' = FALSE /\ appKey' = 0 /\ local' = 0
    /\ pend' = {} /\ due' = "no" /\ pass' = Idle
    /\ UNCHANGED <<flash, torn, given>>

MainStep ==
    \/ settings_load \/ cdb_create \/ store_cdb_subnet \/ provision \/ net_create
    \/ store_subnet \/ store_iv \/ comp_provision \/ configure_self \/ set_configured
WorkQueue == (\E i \in Items : Take(i)) \/ Written \/ PassEnds \/ net_local

Next == MainStep \/ configure_node \/ WorkQueue \/ DelayPasses \/ Restart

\* Both threads run when they can, and delays pass.
Spec == Init /\ [][Next]_vars
        /\ WF_vars(MainStep) /\ WF_vars(WorkQueue) /\ WF_vars(DelayPasses)

-----------------------------------------------------------------------------
(* Properties.                                                             *)

\* A key that is in storage stays: no boot gives the board another network or
\* application key, whatever was cut short before (bt_mesh_provision's
\* EALREADY, bt_mesh_app_key_add's STATUS_IDX_ALREADY_STORED).
StoredKeysStay ==
    [][\A k \in {"NetKey", "AppKey"} : flash[k] # 0 => flash'[k] = flash[k]]_vars

\* If storage does not lag, the board is not stored as configured before its
\* application key is stored, although the key is stored with a delay and the
\* node without: store_pending writes keys first.
ConfiguredHasKey ==
    ~left.lag /\ flash.CdbNode = "configured" /\ flash.Net = "self_address" =>
        flash.AppKey # 0

\* Nothing that waits to be written is forgotten: store_pending is running, queued
\* or delayed (schedule_store and schedule_cdb_store, called while it runs too).
NothingForgotten == pend # {} => pass.at > 0 \/ due # "no"

\* If no boot found storage half written, a board that is provisioned uses the
\* network key of its database, and has its own node in it, so that its address
\* is not given away.
DatabaseAgrees ==
    ~torn /\ valid /\ pc \in {"loop", "configured"} =>
        ram.NetKey = ram.CdbSubnet /\ ram.CdbNode # NotStored

\* If storage does not lag, a boot from empty or complete storage, wherever the
\* boots before were cut short, ends with the board provisioned and configured,
\* and with all that stored, unless it loses power again.
ComesUp ==
    (pc = "load" /\ Whole(flash) /\ ~left.lag) ~>
        \/ valid /\ AtRest /\ Whole(flash) /\ flash.CdbNode = "configured"
        \/ pc = "load" /\ ~Whole(flash)

\* Until the first restart the boards get the application key that the
\* provisioner has taken itself, from configure_self through the work queue.  Not
\* after it: application_key is not restored, and configure_node sends zeros, or
\* configure_self draws a key that the provisioner, having one, does not take.
FirstBootSharesKey == boot = 1 /\ local = 0 => given \subseteq {ram.AppKey}
=============================================================================

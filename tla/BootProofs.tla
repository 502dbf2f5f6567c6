----------------------------- MODULE BootProofs -----------------------------
(***************************************************************************)
(* Proofs about the start of the provisioner board, for every number of    *)
(* restarts and losses of power: what waits to be stored is not forgotten, *)
(* stored keys stay, the database agrees with the board's own network key, *)
(* and the board is not stored as configured without its application key.  *)
(***************************************************************************)
EXTENDS Boot, TLAPS

-----------------------------------------------------------------------------
(* The inductive invariant.                                                *)

\* The types, with the value that is being written, and the boots counted.
Typed ==
    /\ TypeOK
    /\ pass = [at |-> pass.at, item |-> pass.item, value |-> pass.value]
    /\ pass.item # "none" => [flash EXCEPT ![pass.item] = pass.value] \in Values
    /\ boot + left.restarts + left.crashes = RESTARTS + CRASHES + 1

\* Before settings_load memory is as after a reset, and after it as stored.
Starting ==
    /\ pc \in {"load", "cdb_create"} => /\ local = 0 /\ pend = {} /\ due = "no"
                                        /\ pass = Idle
    /\ pc = "load" => ram = Blank /\ ~valid /\ appKey = 0
    /\ pc = "cdb_create" => ram = flash /\ (~torn => Whole(flash))

\* An item that is flagged is still ahead of the pass that runs, or store_pending
\* was submitted since.
Flagged == \A i \in pend : due # "no" \/ (pass.at > 0 /\ i \in Ahead)

\* A board has a network key when it is valid, but for the one step between the
\* two.  A key in storage is the one in memory, and so is the one on its way.
KeyInv ==
    /\ ram.NetKey # 0 <=> valid /\ pc # "net_create"
    /\ pc \in {"net_create", "store_subnet", "store_iv", "comp_provision"} =>
         valid /\ ram.CdbNode = "unconfigured"
    /\ \A k \in {"NetKey", "AppKey"} :
         /\ pc # "load" /\ flash[k] # 0 => ram[k] = flash[k]
         /\ k \in pend => ram[k] # 0
         /\ pass.item = k => k \in pend /\ pass.value = ram[k]

\* As long as no boot has found storage half written, the database has the key of
\* the board, drawn in the same boot.
DatabaseInv ==
    ~torn =>
      /\ pc # "load" /\ flash.CdbSubnet # 0 => ram.CdbSubnet = flash.CdbSubnet
      /\ pass.item = "CdbSubnet" => pass.value = ram.CdbSubnet
      /\ flash.NetKey # 0 /\ flash.CdbSubnet # 0 => flash.NetKey = flash.CdbSubnet
      /\ ram.NetKey # 0 => ram.NetKey = ram.CdbSubnet
      /\ pc \in {"store_cdb_subnet", "net_create"} \/ (pc = "provision" /\ ~valid) =>
           ram.CdbSubnet = boot
      /\ valid => ram.CdbNode # NotStored

\* The board's address is stored after its network key: it is only known once the
\* key is flagged, and the pass comes to the key first.
AddressInv ==
    /\ flash.Net = "self_address" => flash.NetKey # 0
    /\ pass.item = "Net" /\ pass.value = "self_address" =>
         flash.NetKey # 0 /\ ram.Net = "self_address"
    /\ pc \in {"store_iv", "comp_provision"} \/ ram.Net = "self_address" =>
         "NetKey" \in pend \/ flash.NetKey # 0
    /\ ram.Net = "self_address" => valid
    /\ pc # "load" /\ flash.Net = "self_address" => ram.Net = "self_address"

\* The node in storage is not ahead of the node in memory.
NodeInv ==
    /\ pc # "load" /\ flash.CdbNode # NotStored => ram.CdbNode # NotStored
    /\ pc # "load" /\ flash.CdbNode = "configured" => ram.CdbNode = "configured"
    /\ pass.item = "CdbNode" =>
         /\ pass.value # NotStored => ram.CdbNode # NotStored
         /\ pass.value = "configured" => ram.CdbNode = "configured"

\* The application key is on its way to the board, or there, from configure_self
\* on; a pass that is past the keys leaves none behind.
AppKeyInv ==
    /\ local # 0 \/ "AppKey" \in pend => pc = "configured" \/ ram.CdbNode = "configured"
    /\ ram.AppKey # 0 => "AppKey" \in pend \/ flash.AppKey # 0
    /\ pass.at > 1 => "AppKey" \notin pend
    /\ due = "later" => pc = "store_iv" \/ (pass.at = 0 /\ "AppKey" \in pend)
    /\ pc = "configured" /\ ram.Net = "self_address" => local # 0 \/ ram.AppKey # 0

\* Without lag main waits for the key before it stores the node as configured.
ConfiguredInv ==
    ~left.lag =>
      /\ pc = "configured" /\ local # 0 => due = "no" /\ pass.at = 0
      /\ ram.CdbNode = "configured" /\ ram.Net = "self_address" => ram.AppKey # 0
      /\ pass.item = "CdbNode" /\ pass.value = "configured" /\ flash.Net = "self_address"
           => flash.AppKey # 0
      /\ pass.item = "Net" /\ pass.value = "self_address" /\ flash.CdbNode = "configured"
           => flash.AppKey # 0
      /\ flash.CdbNode = "configured" /\ flash.Net = "self_address" => flash.AppKey # 0

\* In the first boot there is one application key, drawn before any is given.
FirstBootInv ==
    boot = 1 =>
      /\ pc \in {"load", "cdb_create"} => flash = Blank
      /\ pc \in {"load", "cdb_create", "store_cdb_subnet", "provision"} =>
           ~valid /\ ram.CdbNode = NotStored
      /\ valid \/ pc = "configured" => ram.CdbNode # NotStored
      /\ pc \in {"loop", "configured"} /\ ram.CdbNode # NotStored =>
           valid /\ ram.Net = "self_address"
      /\ pc = "configured" \/ ram.CdbNode = "configured" =>
           appKey = 1 /\ (local = 1 \/ ram.AppKey = 1)
      /\ local \in {0, 1} /\ ram.AppKey \in {0, 1}
      /\ given # {} => given = {1} /\ ram.CdbNode = "configured"

IInv ==
    /\ Typed /\ Starting /\ Flagged /\ KeyInv /\ DatabaseInv /\ AddressInv
    /\ NodeInv /\ AppKeyInv /\ ConfiguredInv /\ FirstBootInv

-----------------------------------------------------------------------------
(* Items and what flags them.                                              *)

\* Only the two keys share a place in the order of store_pending.
LEMMA ItemFacts ==
    /\ Items = {"NetKey", "AppKey", "Net", "IV", "CdbNet", "CdbNode", "CdbSubnet"}
    /\ Rank["NetKey"] = 1 /\ Rank["AppKey"] = 1 /\ Rank["Net"] = 2 /\ Rank["IV"] = 3
    /\ Rank["CdbNet"] = 4 /\ Rank["CdbNode"] = 5 /\ Rank["CdbSubnet"] = 6
    /\ "none" \notin Items
    /\ \A i \in Items : Rank[i] \in 1 .. 6
    /\ \A i, j \in Items : Rank[i] = Rank[j] /\ i # j => i \in Updates
BY DEF Items, Rank, Updates

\* schedule_store and schedule_cdb_store submit store_pending, items of the
\* database and NO_WAIT_PENDING_BITS without delay.
LEMMA StoreFacts ==
    ASSUME NEW item \in Items, pend \subseteq Items, Store(item)
    PROVE  /\ pend' = pend \cup {item} /\ pend' \subseteq Items
           /\ due' \in {"now", "later"}
           /\ item \in CdbItems \cup NoWaitItems => due' = "now"
BY DEF Store

\* What settings_load finds in a storage that was never written.
LEMMA BlankValue == Blank \in Values /\ Whole(Blank) /\ 0 \in Keys
BY DEF Blank, Values, Keys, NotStored, Whole

\* The number of a boot is a key, and not the one that stands for none.
LEMMA BootNumbers ==
    ASSUME Typed
    PROVE  /\ boot \in Nat /\ boot >= 1 /\ boot \in Keys
           /\ ram \in Values /\ flash \in Values /\ pend \subseteq Items
BY BootAssumption DEF Typed, TypeOK, Boots, Keys

\* What main puts into memory has the type of the item.
LEMMA NewValues ==
    ASSUME NEW f \in Values, NEW k \in Keys
    PROVE  /\ [f EXCEPT !.CdbNet = "stored", !.CdbSubnet = k] \in Values
           /\ [f EXCEPT !.NetKey = k, !.IV = "stored"] \in Values
           /\ [f EXCEPT !.AppKey = k] \in Values
           /\ [f EXCEPT !.Net = "self_address"] \in Values
           /\ [f EXCEPT !.CdbNode = "unconfigured"] \in Values
           /\ [f EXCEPT !.CdbNode = "configured"] \in Values
<1>1. [f EXCEPT !.CdbNet = "stored", !.CdbSubnet = k] \in Values
  BY DEF Values
<1>2. [f EXCEPT !.NetKey = k, !.IV = "stored"] \in Values
  BY DEF Values
<1>3. /\ [f EXCEPT !.AppKey = k] \in Values
      /\ [f EXCEPT !.Net = "self_address"] \in Values
  BY DEF Values
<1>4. /\ [f EXCEPT !.CdbNode = "unconfigured"] \in Values
      /\ [f EXCEPT !.CdbNode = "configured"] \in Values
  BY DEF Values
<1> QED BY <1>1, <1>2, <1>3, <1>4

\* So do the values that a step of main or of the local application key leaves.
LEMMA RamStep ==
    ASSUME Typed, MainStep \/ net_local
    PROVE  ram' \in Values
<1>1. ram \in Values /\ flash \in Values /\ boot \in Keys /\ local \in Keys
  BY BootNumbers DEF Typed, TypeOK
<1>2. /\ [ram EXCEPT !.CdbNet = "stored", !.CdbSubnet = boot] \in Values
      /\ [ram EXCEPT !.NetKey = boot, !.IV = "stored"] \in Values
      /\ [ram EXCEPT !.AppKey = local] \in Values
      /\ [ram EXCEPT !.Net = "self_address"] \in Values
      /\ [ram EXCEPT !.CdbNode = "unconfigured"] \in Values
      /\ [ram EXCEPT !.CdbNode = "configured"] \in Values
  BY <1>1, NewValues, Zenon
<1>3. CASE MainStep
  BY <1>1, <1>2, <1>3
     DEF MainStep, settings_load, cdb_create, store_cdb_subnet, store_subnet, store_iv,
         StoreStep, provision, net_create, comp_provision, configure_self, set_configured
<1>4. CASE net_local
  BY <1>1, <1>2, <1>4 DEF net_local
<1> QED BY <1>3, <1>4

-----------------------------------------------------------------------------
(* Every step keeps the types.                                             *)

\* The first boot starts with empty storage.
LEMMA TypedInit == Init => Typed
<1> SUFFICES ASSUME Init PROVE Typed
  OBVIOUS
<1>1. PICK lag \in LAGS :
        left = [restarts |-> RESTARTS, crashes |-> CRASHES, lag |-> lag]
  BY DEF Init
<1>2. left \in [restarts : 0 .. RESTARTS, crashes : 0 .. CRASHES, lag : LAGS]
      /\ boot + left.restarts + left.crashes = RESTARTS + CRASHES + 1
      /\ boot \in Boots
  BY <1>1, BootAssumption DEF Init, Boots
<1>3. pass = Idle /\ pass.at \in 0 .. 6 /\ pass.item = "none"
  BY DEF Init, Idle
<1> QED BY <1>2, <1>3, BlankValue DEF Init, Typed, TypeOK, Idle, Steps

\* What store_pending writes has the type of the item it is written to.
LEMMA TypedStep ==
    ASSUME Typed, Starting, [Next]_vars
    PROVE  Typed'
<1> USE ItemFacts, BootNumbers, BlankValue
<1>1. CASE settings_load
  BY <1>1 DEF Typed, TypeOK, settings_load, Steps
<1>2. CASE cdb_create
  <2>1. ram' \in Values
    BY <1>2, RamStep DEF MainStep
  <2>2. pend' \subseteq Items /\ due' \in {"no", "now", "later"}
    BY <1>2, StoreFacts DEF cdb_create, Typed, TypeOK
  <2> QED BY <1>2, <2>1, <2>2 DEF Typed, TypeOK, cdb_create, Steps
<1>3. CASE store_cdb_subnet \/ store_subnet \/ store_iv
  BY <1>3, StoreFacts
     DEF Typed, TypeOK, store_cdb_subnet, store_subnet, store_iv, StoreStep, Steps
<1>4. CASE provision
  <2>1. ram' \in Values
    BY <1>4, RamStep DEF MainStep
  <2>2. pend' \subseteq Items /\ due' \in {"no", "now", "later"} /\ valid' \in BOOLEAN
    BY <1>4, StoreFacts DEF provision, Typed, TypeOK
  <2> QED BY <1>4, <2>1, <2>2 DEF Typed, TypeOK, provision, Steps
<1>5. CASE net_create
  <2>1. ram' \in Values
    BY <1>5, RamStep DEF MainStep
  <2> QED BY <1>5, <2>1, StoreFacts DEF Typed, TypeOK, net_create, Steps
<1>6. CASE comp_provision
  <2>1. ram' \in Values
    BY <1>6, RamStep DEF MainStep
  <2> QED BY <1>6, <2>1 DEF Typed, TypeOK, comp_provision, Steps
<1>7. CASE configure_self
  BY <1>7 DEF Typed, TypeOK, configure_self, Steps
<1>8. CASE set_configured
  <2>1. ram' \in Values
    BY <1>8, RamStep DEF MainStep
  <2> QED BY <1>8, <2>1, StoreFacts DEF Typed, TypeOK, set_configured, Steps
<1>9. CASE configure_node
  BY <1>9 DEF Typed, TypeOK, configure_node, mem
<1>10. ASSUME NEW i \in Items, Take(i) PROVE Typed'
  <2>1. [flash EXCEPT ![i] = InStore(i)] \in Values
    BY DEF InStore, Values, NotStored
  <2> HIDE DEF InStore
  <2> QED BY <1>10, <2>1 DEF Typed, TypeOK, Take
<1>11. CASE Written
  BY <1>11 DEF Typed, TypeOK, Written
<1>12. CASE PassEnds
  BY <1>12 DEF Typed, TypeOK, PassEnds, Idle
<1>13. CASE net_local
  <2>2. ram' \in Values
    BY <1>13, RamStep
  <2>3. pend' \subseteq Items /\ due' \in {"no", "now", "later"}
    BY <1>13, StoreFacts DEF net_local, Typed, TypeOK
  <2> QED BY <1>13, <2>2, <2>3 DEF Typed, TypeOK, net_local
<1>14. CASE DelayPasses
  BY <1>14 DEF Typed, TypeOK, DelayPasses
<1>15. CASE Restart
  <2>1. /\ left' \in [restarts : 0 .. RESTARTS, crashes : 0 .. CRASHES, lag : LAGS]
        /\ boot' + left'.restarts + left'.crashes = RESTARTS + CRASHES + 1
        /\ boot' \in Boots
    BY <1>15, BootAssumption DEF Typed, TypeOK, Restart, Boots
  <2>2. pass' = Idle /\ pass'.at \in 0 .. 6 /\ pass'.item = "none"
    BY <1>15 DEF Restart, Idle
  <2> QED BY <1>15, <2>1, <2>2 DEF Typed, TypeOK, Restart, Idle, Steps
<1>16. CASE UNCHANGED vars
  BY <1>16 DEF Typed, TypeOK, vars
<1> QED BY <1>1, <1>2, <1>3, <1>4, <1>5, <1>6, <1>7, <1>8, <1>9, <1>10, <1>11, <1>12,
           <1>13, <1>14, <1>15, <1>16 DEF Next, MainStep, WorkQueue

-----------------------------------------------------------------------------
(* Storage.                                                                *)

\* Nothing is flagged, queued or written before main has loaded what is stored.
LEMMA StartingStep ==
    ASSUME Typed, Starting, [Next]_vars
    PROVE  Starting'
<1> USE ItemFacts, BootNumbers DEF Starting
<1>1. CASE settings_load
  BY <1>1 DEF settings_load
<1>2. CASE MainStep /\ ~settings_load
  BY <1>2 DEF MainStep, cdb_create, store_cdb_subnet, store_subnet, store_iv, StoreStep,
              provision, net_create, comp_provision, configure_self, set_configured
<1>3. CASE configure_node
  BY <1>3 DEF configure_node, mem
<1>4. ASSUME NEW i \in Items, Take(i) PROVE Starting'
  BY <1>4 DEF Take, StorePendingRuns, Idle
<1>5. CASE Written
  BY <1>5 DEF Written, Idle
<1>6. CASE PassEnds
  BY <1>6 DEF PassEnds, StorePendingRuns, Idle
<1>7. CASE net_local
  BY <1>7 DEF net_local
<1>8. CASE DelayPasses
  BY <1>8 DEF DelayPasses
<1>9. CASE Restart
  BY <1>9 DEF Restart
<1>10. CASE UNCHANGED vars
  BY <1>10 DEF vars
<1> QED BY <1>1, <1>2, <1>3, <1>4, <1>5, <1>6, <1>7, <1>8, <1>9, <1>10
       DEF Next, WorkQueue

\* A pass takes the items in order, and the ones that it has passed are submitted
\* again when they are flagged.
LEMMA FlaggedStep ==
    ASSUME Typed, Starting, Flagged, [Next]_vars
    PROVE  Flagged'
<1> USE ItemFacts, BootNumbers
<1>1. CASE UNCHANGED <<pend, due, pass>>
  BY <1>1 DEF Flagged, Ahead
<1>2. ASSUME NEW i \in Items, Store(i) PROVE Flagged'
  BY <1>2, StoreFacts DEF Flagged
<1>3. CASE MainStep \/ net_local
  BY <1>1, <1>2, <1>3
     DEF MainStep, settings_load, cdb_create, store_cdb_subnet, store_subnet, store_iv,
         StoreStep, provision, net_create, comp_provision, configure_self,
         set_configured, net_local
<1>4. ASSUME NEW i \in Items, Take(i) PROVE Flagged'
  <2> SUFFICES ASSUME NEW j \in pend', due' = "no" PROVE pass'.at > 0 /\ j \in Ahead'
    BY DEF Flagged
  <2>1. /\ pass'.at = Rank[i] /\ pass'.at > 0 /\ pend' \subseteq pend
        /\ \A k \in Ahead : Rank[k] >= Rank[i]
        /\ i \in pend' => i \in Updates
    BY <1>4 DEF Take
  <2>2. j \in Items /\ j \in Ahead
    <3>1. CASE pass.at = 0
      BY <2>1, <3>1 DEF Ahead
    <3>2. CASE pass.at # 0
      BY <1>4, <2>1, <3>2 DEF Take, Flagged
    <3> QED BY <3>1, <3>2
  <2>3. Rank[j] \in Nat /\ Rank[i] \in Nat /\ Rank[j] >= Rank[i]
        /\ (Rank[j] = Rank[i] => j \in Updates)
    BY <2>1, <2>2
  <2> QED BY <2>1, <2>2, <2>3 DEF Ahead
<1>5. CASE Written
  <2>1. pass'.at = pass.at /\ pend' \subseteq pend /\ due' = due
    BY <1>5 DEF Written, Typed
  <2> QED BY <2>1 DEF Flagged, Ahead
<1>6. CASE PassEnds
  <2> SUFFICES ASSUME NEW j \in pend PROVE due' # "no"
    BY <1>6 DEF PassEnds, Flagged
  <2>1. Ahead = {} /\ (pass.at # 0 => due' = due)
    BY <1>6 DEF PassEnds
  <2>2. pass.at # 0
    BY <2>1 DEF Ahead
  <2> QED BY <2>1, <2>2 DEF Flagged
<1>7. CASE DelayPasses
  BY <1>7 DEF DelayPasses, Flagged
<1>8. CASE Restart
  BY <1>8 DEF Restart, Flagged
<1>9. CASE configure_node \/ UNCHANGED vars
  BY <1>1, <1>9 DEF configure_node, mem, vars
<1> QED BY <1>3, <1>4, <1>5, <1>6, <1>7, <1>8, <1>9 DEF Next, WorkQueue

\* A key is drawn only if none was loaded, and stored as it is in memory.
LEMMA KeyStep ==
    ASSUME Typed, Starting, KeyInv, [Next]_vars
    PROVE  KeyInv'
<1> USE ItemFacts, BootNumbers
<1>1. CASE settings_load
  BY <1>1 DEF KeyInv, Starting, settings_load, Idle
<1>2. CASE cdb_create
  <2>1. ram'.NetKey = ram.NetKey /\ ram'.AppKey = ram.AppKey
        /\ ram'["NetKey"] = ram["NetKey"] /\ ram'["AppKey"] = ram["AppKey"]
    BY <1>2 DEF cdb_create, Values
  <2> QED BY <1>2, <2>1, StoreFacts DEF KeyInv, Starting, cdb_create, Idle
<1>3. CASE store_cdb_subnet \/ store_iv
  BY <1>3, StoreFacts DEF KeyInv, store_cdb_subnet, store_iv, StoreStep
<1>4. CASE store_subnet
  BY <1>4, StoreFacts DEF KeyInv, store_subnet, StoreStep
<1>5. CASE provision
  <2>1. ram'.NetKey = ram.NetKey /\ ram'.AppKey = ram.AppKey
        /\ ram'["NetKey"] = ram["NetKey"] /\ ram'["AppKey"] = ram["AppKey"]
        /\ (pc' = "net_create" => ram'.CdbNode = "unconfigured")
    BY <1>5 DEF provision, Values
  <2> QED BY <1>5, <2>1, StoreFacts DEF KeyInv, provision
<1>6. CASE net_create
  <2>1. ram'.NetKey = boot /\ ram'["NetKey"] = boot /\ ram'["AppKey"] = ram["AppKey"]
        /\ ram'.CdbNode = ram.CdbNode
    BY <1>6 DEF net_create, Values
  <2> QED BY <1>6, <2>1, StoreFacts DEF KeyInv, net_create
<1>7. CASE comp_provision
  <2>1. ram'.NetKey = ram.NetKey /\ ram'.CdbNode = ram.CdbNode
        /\ ram'["NetKey"] = ram["NetKey"] /\ ram'["AppKey"] = ram["AppKey"]
    BY <1>7 DEF comp_provision, Values
  <2> QED BY <1>7, <2>1 DEF KeyInv, comp_provision
<1>8. CASE configure_self \/ configure_node \/ DelayPasses \/ UNCHANGED vars
  BY <1>8 DEF KeyInv, configure_self, configure_node, mem, DelayPasses, vars
<1>9. CASE set_configured
  <2>1. ram'.NetKey = ram.NetKey
        /\ ram'["NetKey"] = ram["NetKey"] /\ ram'["AppKey"] = ram["AppKey"]
    BY <1>9 DEF set_configured, Values
  <2> QED BY <1>9, <2>1, StoreFacts DEF KeyInv, set_configured
<1>10. ASSUME NEW i \in Items, Take(i) PROVE KeyInv'
  <2>1. i \in {"NetKey", "AppKey"} => InStore(i) = ram[i] /\ i \in Updates
    BY DEF InStore, Updates
  <2>2. pass'.item = i /\ pass'.value = InStore(i) /\ i \in pend /\ pend' \subseteq pend
        /\ (i \in Updates => pend' = pend)
    BY <1>10 DEF Take, Ahead
  <2> QED BY <1>10, <2>1, <2>2 DEF KeyInv, Take
<1>11. CASE Written
  <2>1. \A k \in {"NetKey", "AppKey"} :
          IF pass.item = k THEN flash'[k] = pass.value ELSE flash'[k] = flash[k]
    BY <1>11 DEF Written, Values
  <2>2. pass'.item = "none" /\ pend' \subseteq pend /\ ram' = ram
    BY <1>11 DEF Written, Typed
  <2> QED BY <1>11, <2>1, <2>2 DEF KeyInv, Written
<1>12. CASE PassEnds
  BY <1>12 DEF KeyInv, PassEnds, Idle
<1>13. CASE net_local
  BY <1>13, StoreFacts DEF KeyInv, net_local, Values
<1>14. CASE Restart
  BY <1>14 DEF KeyInv, Restart, Blank, Idle
<1> QED BY <1>1, <1>2, <1>3, <1>4, <1>5, <1>6, <1>7, <1>8, <1>9, <1>10, <1>11, <1>12,
           <1>13, <1>14 DEF Next, MainStep, WorkQueue

-----------------------------------------------------------------------------
(* The database and the node.                                              *)

\* The database is created and the board provisioned in the same boot, or neither.
LEMMA DatabaseStep ==
    ASSUME Typed, Starting, KeyInv, DatabaseInv, [Next]_vars
    PROVE  DatabaseInv'
<1> USE ItemFacts, BootNumbers
<1> SUFFICES ASSUME ~torn' PROVE DatabaseInv'
  BY DEF DatabaseInv
<1>0. ~torn
  BY DEF Next, MainStep, settings_load, cdb_create, store_cdb_subnet, store_subnet,
         store_iv, StoreStep, provision, net_create, comp_provision, configure_self,
         set_configured, configure_node, WorkQueue, Take, Written, PassEnds, net_local,
         DelayPasses, Restart, vars
<1>1. CASE settings_load
  <2>1. Whole(flash) /\ ram' = flash /\ valid' = (flash.NetKey # 0)
    BY <1>1 DEF settings_load
  <2>2. flash.NetKey # 0 => flash.CdbSubnet # 0 /\ flash.CdbNode # NotStored
    BY <2>1 DEF Whole, Blank
  <2> QED BY <1>0, <1>1, <2>1, <2>2 DEF DatabaseInv, Starting, settings_load, Idle
<1>2. CASE cdb_create
  <2>1. pass = Idle /\ ram = flash /\ Whole(flash)
    BY <1>0, <1>2 DEF cdb_create, Starting
  <2>2. CASE ram.CdbNet # NotStored
    <3>1. flash.NetKey # 0 /\ valid
      BY <1>2, <2>1, <2>2 DEF Whole, Blank, KeyInv, cdb_create
    <3> QED BY <1>0, <1>2, <2>1, <2>2, <3>1 DEF DatabaseInv, cdb_create
  <2>3. CASE ram.CdbNet = NotStored
    <3>1. flash = Blank /\ flash.NetKey = 0 /\ flash.CdbSubnet = 0 /\ ~valid
      BY <1>2, <2>1, <2>3 DEF Whole, Blank, KeyInv, cdb_create
    <3>2. ram'.CdbSubnet = boot /\ ram'.NetKey = 0 /\ pass' = Idle /\ flash' = flash
          /\ valid' = valid /\ boot' = boot
      BY <1>2, <2>1, <2>3, <3>1 DEF cdb_create, Values
    <3> QED BY <1>2, <3>1, <3>2 DEF DatabaseInv, Idle
  <2> QED BY <2>2, <2>3
<1>3. CASE store_cdb_subnet \/ store_iv \/ store_subnet
  BY <1>0, <1>3 DEF DatabaseInv, KeyInv, store_cdb_subnet, store_iv, store_subnet, StoreStep
<1>4. CASE provision
  <2>1. /\ ram'.NetKey = ram.NetKey /\ ram'.CdbSubnet = ram.CdbSubnet
        /\ ram'.CdbNode = ram.CdbNode \/ ram'.CdbNode = "unconfigured"
        /\ pc' = "net_create" => ~valid /\ ram'.CdbNode = "unconfigured"
        /\ pc' = "loop" => valid' = valid /\ ram' = ram
    BY <1>4 DEF provision, Values
  <2> QED BY <1>0, <1>4, <2>1 DEF DatabaseInv, provision, NotStored
<1>5. CASE net_create
  <2>1. /\ ram'.NetKey = boot /\ ram'.CdbSubnet = ram.CdbSubnet
        /\ ram'.CdbNode = ram.CdbNode
    BY <1>5 DEF net_create, Values
  <2> QED BY <1>0, <1>5, <2>1 DEF DatabaseInv, net_create
<1>6. CASE comp_provision
  <2>1. /\ ram'.NetKey = ram.NetKey /\ ram'.CdbSubnet = ram.CdbSubnet
        /\ ram'.CdbNode = ram.CdbNode
    BY <1>6 DEF comp_provision, Values
  <2> QED BY <1>0, <1>6, <2>1 DEF DatabaseInv, comp_provision
<1>7. CASE configure_self \/ configure_node \/ DelayPasses \/ UNCHANGED vars
  BY <1>0, <1>7 DEF DatabaseInv, configure_self, configure_node, mem, DelayPasses, vars
<1>8. CASE set_configured
  <2>1. /\ ram'.NetKey = ram.NetKey /\ ram'.CdbSubnet = ram.CdbSubnet
        /\ ram'.CdbNode = "configured"
    BY <1>8 DEF set_configured, Values
  <2> QED BY <1>0, <1>8, <2>1 DEF DatabaseInv, set_configured, NotStored
<1>9. ASSUME NEW i \in Items, Take(i) PROVE DatabaseInv'
  <2>1. pass'.item = i /\ pass'.value = InStore(i)
    BY <1>9 DEF Take
  <2>2. i = "CdbSubnet" => InStore(i) = ram.CdbSubnet
    BY DEF InStore, Values
  <2> QED BY <1>0, <1>9, <2>1, <2>2 DEF DatabaseInv, Take
<1>10. CASE Written
  <2>1. /\ pass.item = "CdbSubnet" =>
             flash'.CdbSubnet = pass.value /\ flash'.NetKey = flash.NetKey
        /\ pass.item = "NetKey" =>
             flash'.NetKey = pass.value /\ flash'.CdbSubnet = flash.CdbSubnet
        /\ pass.item \notin {"CdbSubnet", "NetKey"} =>
             flash'.NetKey = flash.NetKey /\ flash'.CdbSubnet = flash.CdbSubnet
    BY <1>10 DEF Written, Values
  <2>2. pass'.item = "none" /\ UNCHANGED <<pc, ram, valid, boot>>
    BY <1>10 DEF Written, Typed
  <2>3. pc # "load"
    BY <1>10 DEF Written, Starting, Idle
  <2>4. /\ flash.NetKey # 0 => ram.NetKey = flash.NetKey
        /\ pass.item = "NetKey" => pass.value = ram.NetKey /\ ram.NetKey # 0
    BY <2>3 DEF KeyInv, Values
  <2> QED BY <1>0, <2>1, <2>2, <2>3, <2>4 DEF DatabaseInv
<1>11. CASE PassEnds
  BY <1>0, <1>11 DEF DatabaseInv, PassEnds, Idle
<1>12. CASE net_local
  <2>1. UNCHANGED <<ram.NetKey, ram.CdbSubnet, ram.CdbNode>>
    BY <1>12 DEF net_local, Values
  <2> QED BY <1>0, <1>12, <2>1 DEF DatabaseInv, net_local
<1>13. CASE Restart
  BY <1>0, <1>13 DEF DatabaseInv, Restart, Blank, Idle
<1> QED BY <1>1, <1>2, <1>3, <1>4, <1>5, <1>6, <1>7, <1>8, <1>9, <1>10, <1>11, <1>12,
           <1>13 DEF Next, MainStep, WorkQueue

\* The pass comes to the network key before it comes to the address.
LEMMA AddressStep ==
    ASSUME Typed, Starting, KeyInv, AddressInv, [Next]_vars
    PROVE  AddressInv'
<1> USE ItemFacts, BootNumbers
<1>1. CASE settings_load
  BY <1>1 DEF AddressInv, Starting, settings_load, Idle
<1>2. CASE cdb_create
  <2>1. ram'.Net = ram.Net /\ pass' = Idle
    BY <1>2 DEF cdb_create, Values, Starting
  <2> QED BY <1>2, <2>1, StoreFacts DEF AddressInv, cdb_create, Idle
<1>3. CASE store_cdb_subnet \/ store_iv \/ store_subnet
  BY <1>3, StoreFacts DEF AddressInv, store_cdb_subnet, store_iv, store_subnet, StoreStep
<1>4. CASE provision
  <2>1. ram'.Net = ram.Net /\ (valid => valid')
    BY <1>4 DEF provision, Values
  <2> QED BY <1>4, <2>1, StoreFacts DEF AddressInv, provision
<1>5. CASE net_create
  <2>1. ram'.Net = ram.Net
    BY <1>5 DEF net_create, Values
  <2> QED BY <1>5, <2>1, StoreFacts DEF AddressInv, net_create
<1>6. CASE comp_provision
  <2>1. ram'.Net = "self_address" /\ valid
    BY <1>6 DEF comp_provision, Values, KeyInv
  <2> QED BY <1>6, <2>1 DEF AddressInv, comp_provision
<1>7. CASE configure_self \/ configure_node \/ DelayPasses \/ UNCHANGED vars
  BY <1>7 DEF AddressInv, configure_self, configure_node, mem, DelayPasses, vars
<1>8. CASE set_configured
  <2>1. ram'.Net = ram.Net
    BY <1>8 DEF set_configured, Values
  <2> QED BY <1>8, <2>1, StoreFacts DEF AddressInv, set_configured
<1>9. ASSUME NEW i \in Items, Take(i) PROVE AddressInv'
  <2>1. /\ pass'.item = i /\ pass'.value = InStore(i) /\ i \in Ahead
        /\ \A j \in Ahead : Rank[j] >= Rank[i]
        /\ "NetKey" \in pend => "NetKey" \in pend'
    BY <1>9 DEF Take, Updates
  <2>2. i = "Net" /\ InStore(i) = "self_address" =>
          ram.Net = "self_address" /\ flash.NetKey # 0
    <3> SUFFICES ASSUME i = "Net", InStore(i) = "self_address"
                 PROVE  ram.Net = "self_address" /\ flash.NetKey # 0
      OBVIOUS
    <3>1. ram.Net = "self_address"
      BY DEF InStore, Values
    <3>2. pass.at \in 0 .. 6 /\ pass.at < 2
      BY <2>1 DEF Ahead, Updates, Typed, TypeOK
    <3>3. "NetKey" \notin pend
      BY <2>1, <3>2 DEF Ahead, Updates
    <3> QED BY <3>1, <3>3 DEF AddressInv
  <2> QED BY <1>9, <2>1, <2>2 DEF AddressInv, Take
<1>10. CASE Written
  <2>1. /\ pass.item = "Net" => flash'.Net = pass.value /\ flash'.NetKey = flash.NetKey
        /\ pass.item = "NetKey" => flash'.NetKey = pass.value /\ flash'.Net = flash.Net
        /\ pass.item \notin {"Net", "NetKey"} =>
             flash'.NetKey = flash.NetKey /\ flash'.Net = flash.Net
    BY <1>10 DEF Written, Values
  <2>2. /\ pass'.item = "none" /\ UNCHANGED <<pc, ram, valid>>
        /\ pass.item # "NetKey" /\ "NetKey" \in pend => "NetKey" \in pend'
    BY <1>10 DEF Written, Typed
  <2>3. pass.item = "NetKey" => pass.value # 0
    BY DEF KeyInv
  <2> QED BY <2>1, <2>2, <2>3 DEF AddressInv
<1>11. CASE PassEnds
  BY <1>11 DEF AddressInv, PassEnds, Idle
<1>12. CASE net_local
  <2>1. UNCHANGED ram.Net
    BY <1>12 DEF net_local, Values
  <2> QED BY <1>12, <2>1, StoreFacts DEF AddressInv, net_local
<1>13. CASE Restart
  BY <1>13 DEF AddressInv, Restart, Blank, Idle, NotStored
<1> QED BY <1>1, <1>2, <1>3, <1>4, <1>5, <1>6, <1>7, <1>8, <1>9, <1>10, <1>11, <1>12,
           <1>13 DEF Next, MainStep, WorkQueue

\* The node goes from unallocated to unconfigured to configured, first in memory.
LEMMA NodeStep ==
    ASSUME Typed, Starting, NodeInv, [Next]_vars
    PROVE  NodeInv'
<1> USE ItemFacts, BootNumbers
<1>1. CASE settings_load
  BY <1>1 DEF NodeInv, Starting, settings_load, Idle
<1>2. CASE cdb_create
  <2>1. ram'.CdbNode = ram.CdbNode
    BY <1>2 DEF cdb_create, Values
  <2> QED BY <1>2, <2>1 DEF NodeInv, cdb_create
<1>3. CASE store_cdb_subnet \/ store_iv \/ store_subnet
  BY <1>3 DEF NodeInv, store_cdb_subnet, store_iv, store_subnet, StoreStep
<1>4. CASE provision
  <2>1. \/ ram'.CdbNode = ram.CdbNode
        \/ ram.CdbNode = NotStored /\ ram'.CdbNode = "unconfigured"
    BY <1>4 DEF provision, Values
  <2> QED BY <1>4, <2>1 DEF NodeInv, provision, NotStored
<1>5. CASE net_create \/ comp_provision
  <2>1. ram'.CdbNode = ram.CdbNode
    BY <1>5 DEF net_create, comp_provision, Values
  <2> QED BY <1>5, <2>1 DEF NodeInv, net_create, comp_provision
<1>6. CASE configure_self \/ configure_node \/ DelayPasses \/ UNCHANGED vars
  BY <1>6 DEF NodeInv, configure_self, configure_node, mem, DelayPasses, vars
<1>7. CASE set_configured
  <2>1. ram'.CdbNode = "configured"
    BY <1>7 DEF set_configured, Values
  <2> QED BY <1>7, <2>1 DEF NodeInv, set_configured, NotStored
<1>8. ASSUME NEW i \in Items, Take(i) PROVE NodeInv'
  <2>1. pass'.item = i /\ pass'.value = InStore(i)
    BY <1>8 DEF Take
  <2>2. i = "CdbNode" => InStore(i) = ram.CdbNode
    BY DEF InStore, Values
  <2> QED BY <1>8, <2>1, <2>2 DEF NodeInv, Take
<1>9. CASE Written
  <2>1. IF pass.item = "CdbNode" THEN flash'.CdbNode = pass.value
        ELSE flash'.CdbNode = flash.CdbNode
    BY <1>9 DEF Written, Values
  <2>2. pass'.item = "none" /\ UNCHANGED <<pc, ram>>
    BY <1>9 DEF Written, Typed
  <2> QED BY <2>1, <2>2 DEF NodeInv
<1>10. CASE PassEnds
  BY <1>10 DEF NodeInv, PassEnds, Idle
<1>11. CASE net_local
  <2>1. UNCHANGED ram.CdbNode
    BY <1>11 DEF net_local, Values
  <2> QED BY <1>11, <2>1 DEF NodeInv, net_local
<1>12. CASE Restart
  BY <1>12 DEF NodeInv, Restart, Idle
<1> QED BY <1>1, <1>2, <1>3, <1>4, <1>5, <1>6, <1>7, <1>8, <1>9, <1>10, <1>11, <1>12
       DEF Next, MainStep, WorkQueue

-----------------------------------------------------------------------------
(* The application key.                                                    *)

\* The key is flagged while no pass runs, so that the next pass begins with it.
LEMMA AppKeyStep ==
    ASSUME Typed, Starting, KeyInv, AddressInv, AppKeyInv, [Next]_vars
    PROVE  AppKeyInv'
<1> USE ItemFacts, BootNumbers
<1>1. CASE settings_load
  BY <1>1 DEF AppKeyInv, Starting, settings_load, Idle
<1>2. CASE cdb_create
  <2>1. /\ ram'.CdbNode = ram.CdbNode /\ ram'.AppKey = ram.AppKey
        /\ pc' \notin {"configured", "store_iv"}
    BY <1>2 DEF cdb_create, Values
  <2>2. pend' \subseteq {"CdbNet"} /\ due' \in {"no", "now"} /\ local' = 0 /\ pass' = Idle
        /\ pend = {}
    BY <1>2, StoreFacts DEF cdb_create, CdbItems, Starting
  <2> QED BY <1>2, <2>1, <2>2 DEF AppKeyInv, Idle, cdb_create
<1>3. CASE store_cdb_subnet \/ store_iv
  <2>1. due' = "now" /\ ("AppKey" \in pend' <=> "AppKey" \in pend)
    BY <1>3, StoreFacts DEF store_cdb_subnet, store_iv, StoreStep, CdbItems, NoWaitItems
  <2> QED BY <1>3, <2>1 DEF AppKeyInv, store_cdb_subnet, store_iv, StoreStep
<1>4. CASE store_subnet
  <2>1. pc' = "store_iv" /\ ("AppKey" \in pend' <=> "AppKey" \in pend)
    BY <1>4, StoreFacts DEF store_subnet, StoreStep
  <2> QED BY <1>4, <2>1 DEF AppKeyInv, store_subnet, StoreStep
<1>5. CASE provision
  <2>1. /\ ram'.AppKey = ram.AppKey
        /\ ram.CdbNode = "configured" => ram'.CdbNode = "configured"
    BY <1>5 DEF provision, Values, NotStored
  <2>2. /\ "AppKey" \in pend' <=> "AppKey" \in pend
        /\ due' \in {due, "now"} /\ pc' \in {"loop", "net_create"}
    BY <1>5, StoreFacts DEF provision, CdbItems
  <2> QED BY <1>5, <2>1, <2>2 DEF AppKeyInv, provision
<1>6. CASE net_create
  <2>1. /\ ram'.AppKey = ram.AppKey /\ ("AppKey" \in pend' <=> "AppKey" \in pend)
        /\ ram'.CdbNode = ram.CdbNode /\ due' = "now"
    BY <1>6, StoreFacts DEF net_create, Values, NoWaitItems
  <2> QED BY <1>6, <2>1 DEF AppKeyInv, net_create
<1>7. CASE comp_provision
  <2>1. ram'.AppKey = ram.AppKey /\ ram'.CdbNode = ram.CdbNode
    BY <1>7 DEF comp_provision, Values
  <2> QED BY <1>7, <2>1 DEF AppKeyInv, comp_provision
<1>8. CASE configure_self
  <2>1. ram.Net = "self_address" => local' # 0
    BY <1>8 DEF configure_self, AddressInv
  <2> QED BY <1>8, <2>1 DEF AppKeyInv, configure_self
<1>9. CASE configure_node \/ UNCHANGED vars
  BY <1>9 DEF AppKeyInv, configure_node, mem, vars
<1>10. CASE set_configured
  <2>1. /\ ram'.AppKey = ram.AppKey /\ ("AppKey" \in pend' <=> "AppKey" \in pend)
        /\ ram'.CdbNode = "configured" /\ due' = "now"
    BY <1>10, StoreFacts DEF set_configured, Values, CdbItems
  <2> QED BY <1>10, <2>1 DEF AppKeyInv, set_configured
<1>11. ASSUME NEW i \in Items, Take(i) PROVE AppKeyInv'
  <2>1. /\ pass'.at = Rank[i] /\ i \in Ahead
        /\ \A j \in Ahead : Rank[j] >= Rank[i]
        /\ "AppKey" \in pend' <=> "AppKey" \in pend
        /\ due' = "later" => pc = "store_iv"
    BY <1>11 DEF Take, Updates, AppKeyInv
  <2>2. Rank[i] > 1 => "AppKey" \notin pend
    <3> SUFFICES ASSUME "AppKey" \in pend, Rank[i] > 1 PROVE FALSE
      OBVIOUS
    <3>1. pass.at \in 0 .. 6 /\ ~(pass.at > 1)
      BY DEF AppKeyInv, Typed, TypeOK
    <3>2. "AppKey" \in Ahead
      BY <3>1 DEF Ahead, Updates
    <3> QED BY <2>1, <3>2
  <2> QED BY <1>11, <2>1, <2>2 DEF AppKeyInv, Take
<1>12. CASE Written
  <2>1. IF pass.item = "AppKey" THEN flash'.AppKey = pass.value
        ELSE flash'.AppKey = flash.AppKey
    BY <1>12 DEF Written, Values
  <2>2. /\ pass'.at = pass.at /\ pass.at > 0 /\ pend' \subseteq pend /\ UNCHANGED <<pc, ram, local, due>>
        /\ pass.item # "AppKey" /\ "AppKey" \in pend => "AppKey" \in pend'
    BY <1>12 DEF Written, Typed, TypeOK
  <2>3. pass.item = "AppKey" => pass.value # 0
    BY DEF KeyInv
  <2> QED BY <2>1, <2>2, <2>3 DEF AppKeyInv
<1>13. CASE PassEnds
  <2>1. pass'.at = 0 /\ (due' = due \/ due' = "no")
    BY <1>13 DEF PassEnds, Idle
  <2> QED BY <1>13, <2>1 DEF AppKeyInv, PassEnds
<1>14. CASE net_local
  <2>1. /\ ram'.CdbNode = ram.CdbNode /\ ram'.AppKey # 0
        /\ ram.AppKey = 0 => "AppKey" \in pend'
        /\ ram.AppKey # 0 => ram' = ram /\ pend' = pend /\ due' = due
        /\ pend \subseteq pend'
    BY <1>14, StoreFacts DEF net_local, Values
  <2> QED BY <1>14, <2>1 DEF AppKeyInv, net_local
<1>15. CASE DelayPasses
  BY <1>15 DEF AppKeyInv, DelayPasses
<1>16. CASE Restart
  BY <1>16 DEF AppKeyInv, Restart, Blank, Idle
<1> QED BY <1>1, <1>2, <1>3, <1>4, <1>5, <1>6, <1>7, <1>8, <1>9, <1>10, <1>11, <1>12,
           <1>13, <1>14, <1>15, <1>16 DEF Next, MainStep, WorkQueue

\* A pass that writes the node or the address has written the key.
LEMMA ConfiguredStep ==
    ASSUME IInv, [Next]_vars
    PROVE  ConfiguredInv'
<1> USE ItemFacts, BootNumbers
<1>0. /\ Typed /\ Starting /\ Flagged /\ KeyInv /\ AddressInv /\ NodeInv /\ AppKeyInv
      /\ ConfiguredInv /\ left'.lag = left.lag
  <2>1. left'.lag = left.lag
    <3>1. CASE Restart
      BY <3>1 DEF Restart, IInv, Typed, TypeOK
    <3>2. CASE UNCHANGED left
      BY <3>2
    <3> QED BY <3>1, <3>2
         DEF Next, MainStep, settings_load, cdb_create, store_cdb_subnet, store_subnet,
             store_iv, StoreStep, provision, net_create, comp_provision, configure_self,
             set_configured, configure_node, WorkQueue, Take, Written, PassEnds, net_local,
             DelayPasses, vars
  <2> QED BY <2>1 DEF IInv
<1> SUFFICES ASSUME ~left.lag PROVE ConfiguredInv'
  BY <1>0 DEF ConfiguredInv
<1>1. CASE settings_load
  BY <1>0, <1>1 DEF ConfiguredInv, Starting, settings_load, Idle
<1>2. CASE cdb_create
  <2>1. /\ ram'.CdbNode = ram.CdbNode /\ ram'.AppKey = ram.AppKey /\ ram'.Net = ram.Net
        /\ pc' # "configured"
    BY <1>0, <1>2 DEF cdb_create, Values
  <2> QED BY <1>0, <1>2, <2>1 DEF ConfiguredInv, cdb_create
<1>3. CASE store_cdb_subnet \/ store_iv \/ store_subnet
  BY <1>0, <1>3 DEF ConfiguredInv, store_cdb_subnet, store_iv, store_subnet, StoreStep
<1>4. CASE provision
  <2>1. /\ ram'.AppKey = ram.AppKey /\ ram'.Net = ram.Net
        /\ ram'.CdbNode = "configured" => ram.CdbNode = "configured"
        /\ pc' # "configured"
    BY <1>0, <1>4 DEF provision, Values
  <2> QED BY <1>0, <1>4, <2>1 DEF ConfiguredInv, provision
<1>5. CASE net_create
  <2>1. ram'.CdbNode = ram.CdbNode /\ ram'.AppKey = ram.AppKey /\ ram'.Net = ram.Net
    BY <1>0, <1>5 DEF net_create, Values
  <2> QED BY <1>0, <1>5, <2>1 DEF ConfiguredInv, net_create
<1>6. CASE comp_provision
  <2>1. ram'.CdbNode = ram.CdbNode /\ ram.CdbNode = "unconfigured"
    BY <1>0, <1>6 DEF comp_provision, Values, KeyInv
  <2> QED BY <1>0, <1>6, <2>1 DEF ConfiguredInv, comp_provision
<1>7. CASE configure_self
  <2>1. due = "no" /\ pass.at = 0
    BY <1>0, <1>7 DEF configure_self, DisplayDone, WorkQueueIdle, AppKeyInv, Typed, TypeOK
  <2> QED BY <1>0, <1>7, <2>1 DEF ConfiguredInv, configure_self
<1>8. CASE configure_node \/ UNCHANGED vars
  BY <1>0, <1>8 DEF ConfiguredInv, configure_node, mem, vars
<1>9. CASE set_configured
  <2>1. ram'.AppKey = ram.AppKey /\ ram'.Net = ram.Net
    BY <1>0, <1>9 DEF set_configured, Values
  <2>2. pass.item # "none" => pass.at > 0
    BY <1>0 DEF Typed, TypeOK
  <2>3. local = 0
    BY <1>0, <1>9, <2>2 DEF ConfiguredInv, set_configured, MainRuns, WorkQueueIdle
  <2>4. ram.Net = "self_address" => ram.AppKey # 0
    BY <1>0, <1>9, <2>3 DEF AppKeyInv, set_configured
  <2> QED BY <1>0, <1>9, <2>1, <2>3, <2>4 DEF ConfiguredInv, set_configured
<1>10. ASSUME NEW i \in Items, Take(i) PROVE ConfiguredInv'
  <2>1. /\ pass'.item = i /\ pass'.value = InStore(i) /\ i \in Ahead
        /\ \A j \in Ahead : Rank[j] >= Rank[i]
        /\ pc # "load" /\ UNCHANGED <<pc, ram, flash, local>>
        /\ ~(pc = "configured" /\ local # 0)
    BY <1>0, <1>10 DEF Take, Ahead, Starting, ConfiguredInv, StorePendingRuns
  <2>2. i \in {"Net", "CdbNode"} => "AppKey" \notin pend
    <3> SUFFICES ASSUME i \in {"Net", "CdbNode"}, "AppKey" \in pend PROVE FALSE
      OBVIOUS
    <3>1. pass.at \in 0 .. 6 /\ ~(pass.at > 1)
      BY <1>0 DEF AppKeyInv, Typed, TypeOK
    <3>2. "AppKey" \in Ahead
      BY <3>1 DEF Ahead, Updates
    <3> QED BY <2>1, <3>2
  <2>3. /\ i = "Net" /\ InStore(i) = "self_address" => ram.Net = "self_address"
        /\ i = "CdbNode" => InStore(i) = ram.CdbNode
    BY <1>0 DEF InStore, Values
  <2> HIDE DEF InStore
  <2> QED BY <1>0, <2>1, <2>2, <2>3 DEF ConfiguredInv, AppKeyInv, NodeInv, AddressInv
<1>11. CASE Written
  <2>1. /\ pass.item = "Net" => flash'.Net = pass.value
        /\ pass.item # "Net" => flash'.Net = flash.Net
        /\ pass.item = "CdbNode" => flash'.CdbNode = pass.value
        /\ pass.item # "CdbNode" => flash'.CdbNode = flash.CdbNode
        /\ pass.item = "AppKey" => flash'.AppKey = pass.value
        /\ pass.item # "AppKey" => flash'.AppKey = flash.AppKey
    BY <1>0, <1>11 DEF Written, Values
  <2>2. /\ pass'.item = "none" /\ pass'.at = pass.at /\ UNCHANGED <<pc, ram, local, due>>
    BY <1>0, <1>11 DEF Written, Typed
  <2>3. pass.item = "AppKey" => pass.value # 0
    BY <1>0 DEF KeyInv
  <2> QED BY <1>0, <2>1, <2>2, <2>3 DEF ConfiguredInv
<1>12. CASE PassEnds
  <2>1. pass'.at = 0 /\ pass'.item = "none" /\ (due' = due \/ due' = "no")
    BY <1>12 DEF PassEnds, Idle
  <2> QED BY <1>0, <1>12, <2>1 DEF ConfiguredInv, PassEnds
<1>13. CASE net_local
  <2>1. /\ ram'.CdbNode = ram.CdbNode /\ ram'.AppKey # 0 /\ ram'.Net = ram.Net
    BY <1>0, <1>13 DEF net_local, Values
  <2> QED BY <1>0, <1>13, <2>1 DEF ConfiguredInv, net_local
<1>14. CASE DelayPasses
  BY <1>0, <1>14 DEF ConfiguredInv, DelayPasses
<1>15. CASE Restart
  BY <1>0, <1>15 DEF ConfiguredInv, Restart, Blank, Idle, NotStored
<1> QED BY <1>1, <1>2, <1>3, <1>4, <1>5, <1>6, <1>7, <1>8, <1>9, <1>10, <1>11, <1>12,
           <1>13, <1>14, <1>15 DEF Next, MainStep, WorkQueue

\* The one key of the first boot.
LEMMA FirstBootStep ==
    ASSUME Typed, Starting, KeyInv, FirstBootInv, [Next]_vars
    PROVE  FirstBootInv'
<1> USE ItemFacts, BootNumbers
<1> SUFFICES ASSUME boot' = 1 PROVE FirstBootInv'
  BY DEF FirstBootInv
<1>0. boot = 1 /\ ~Restart
  BY DEF Next, MainStep, settings_load, cdb_create, store_cdb_subnet, store_subnet,
         store_iv, StoreStep, provision, net_create, comp_provision, configure_self,
         set_configured, configure_node, WorkQueue, Take, Written, PassEnds, net_local,
         DelayPasses, Restart, vars
<1>1. CASE settings_load
  <2>1. flash = Blank /\ ram = Blank /\ ram' = Blank /\ local' = 0
    BY <1>0, <1>1 DEF FirstBootInv, Starting, settings_load
  <2>2. Blank.NetKey = 0 /\ Blank.CdbNode = NotStored /\ Blank.AppKey = 0
    BY DEF Blank
  <2>3. ~valid' /\ given' = {} /\ flash' = Blank
    BY <1>0, <1>1, <2>1, <2>2 DEF FirstBootInv, settings_load, NotStored
  <2> QED BY <1>0, <1>1, <2>1, <2>2, <2>3 DEF FirstBootInv, settings_load, NotStored
<1>2. CASE cdb_create
  <2>1. ram'.CdbNode = ram.CdbNode /\ ram'.AppKey = ram.AppKey /\ ram'.Net = ram.Net
    BY <1>2 DEF cdb_create, Values
  <2> QED BY <1>0, <1>2, <2>1 DEF FirstBootInv, cdb_create
<1>3. CASE store_cdb_subnet \/ store_iv \/ store_subnet
  BY <1>0, <1>3 DEF FirstBootInv, store_cdb_subnet, store_iv, store_subnet, StoreStep
<1>4. CASE provision
  <2>1. /\ ram'.AppKey = ram.AppKey /\ ram'.Net = ram.Net
        /\ pc' = "loop" => valid' = valid /\ ram'.CdbNode = ram.CdbNode
        /\ pc' = "net_create" => ram'.CdbNode = "unconfigured"
        /\ pc' \in {"loop", "net_create"}
    BY <1>4 DEF provision, Values
  <2>2. ram.CdbNode = NotStored /\ ~valid
    BY <1>0, <1>4 DEF FirstBootInv, provision
  <2> QED BY <1>0, <1>4, <2>1, <2>2 DEF FirstBootInv, provision, NotStored
<1>5. CASE net_create
  <2>1. ram'.CdbNode = ram.CdbNode /\ ram'.AppKey = ram.AppKey /\ ram'.Net = ram.Net
    BY <1>5 DEF net_create, Values
  <2> QED BY <1>0, <1>5, <2>1 DEF FirstBootInv, net_create
<1>6. CASE comp_provision
  <2>1. /\ ram'.CdbNode = ram.CdbNode /\ ram'.AppKey = ram.AppKey
        /\ ram'.Net = "self_address" /\ valid
    BY <1>6 DEF comp_provision, Values, KeyInv
  <2> QED BY <1>0, <1>6, <2>1 DEF FirstBootInv, comp_provision
<1>7. CASE configure_self
  BY <1>0, <1>7 DEF FirstBootInv, configure_self, NotStored
<1>8. CASE configure_node
  <2>1. ram.CdbNode = "configured"
    BY <1>0, <1>8 DEF FirstBootInv, configure_node, Values
  <2>2. given' = {1}
    BY <1>0, <1>8, <2>1 DEF FirstBootInv, configure_node
  <2> QED BY <1>0, <1>8, <2>1, <2>2 DEF FirstBootInv, configure_node, mem
<1>9. CASE set_configured
  <2>1. ram'.AppKey = ram.AppKey /\ ram'.Net = ram.Net /\ ram'.CdbNode = "configured"
    BY <1>9 DEF set_configured, Values
  <2>2. valid /\ ram.Net = "self_address"
    BY <1>0, <1>9 DEF FirstBootInv, set_configured
  <2>3. /\ pc' = "loop" /\ UNCHANGED <<valid, appKey, local, boot, given>>
        /\ appKey = 1 /\ (local = 1 \/ ram.AppKey = 1)
        /\ local \in {0, 1} /\ ram.AppKey \in {0, 1} /\ (given # {} => given = {1})
    BY <1>0, <1>9 DEF FirstBootInv, set_configured
  <2> QED BY <1>0, <2>1, <2>2, <2>3 DEF FirstBootInv, NotStored
<1>10. ASSUME NEW i \in Items, Take(i) PROVE FirstBootInv'
  BY <1>0, <1>10 DEF FirstBootInv, Take
<1>11. CASE Written
  <2>1. pc \notin {"load", "cdb_create"}
    BY <1>11 DEF Written, Starting, Idle
  <2> QED BY <1>0, <1>11, <2>1 DEF FirstBootInv, Written
<1>12. CASE PassEnds \/ DelayPasses \/ UNCHANGED vars
  BY <1>0, <1>12 DEF FirstBootInv, PassEnds, DelayPasses, vars
<1>13. CASE net_local
  <2>1. /\ ram'.CdbNode = ram.CdbNode /\ ram'.Net = ram.Net
        /\ ram'.AppKey = (IF ram.AppKey = 0 THEN local ELSE ram.AppKey)
    BY <1>13 DEF net_local, Values
  <2> QED BY <1>0, <1>13, <2>1 DEF FirstBootInv, net_local
<1> QED BY <1>0, <1>1, <1>2, <1>3, <1>4, <1>5, <1>6, <1>7, <1>8, <1>9, <1>10, <1>11,
           <1>12, <1>13 DEF Next, MainStep, WorkQueue

-----------------------------------------------------------------------------
(* The theorems.                                                           *)

\* The invariant holds at the first boot.
LEMMA InitInv == Init => IInv
<1> SUFFICES ASSUME Init PROVE IInv
  OBVIOUS
<1>1. Blank.NetKey = 0 /\ Blank["NetKey"] = 0 /\ Blank["AppKey"] = 0 /\ Blank.AppKey = 0
      /\ Blank.CdbSubnet = 0 /\ Blank.Net = NotStored /\ Blank.CdbNode = NotStored
  BY DEF Blank
<1>2. pass = Idle /\ pass.at = 0 /\ pass.item = "none"
  BY DEF Init, Idle
<1>3. Starting /\ Flagged /\ KeyInv
  BY <1>1, <1>2 DEF Init, Starting, Flagged, KeyInv
<1>4. DatabaseInv /\ AddressInv /\ NodeInv
  BY <1>1, <1>2 DEF Init, DatabaseInv, AddressInv, NodeInv, NotStored
<1>5. AppKeyInv /\ ConfiguredInv /\ FirstBootInv
  BY <1>1, <1>2 DEF Init, AppKeyInv, ConfiguredInv, FirstBootInv, NotStored
<1> QED BY <1>3, <1>4, <1>5, TypedInit DEF IInv

\* Every step of main, of the work queue and of the power supply keeps it.
LEMMA StepInv == IInv /\ [Next]_vars => IInv'
BY TypedStep, StartingStep, FlaggedStep, KeyStep, DatabaseStep, AddressStep, NodeStep,
   AppKeyStep, ConfiguredStep, FirstBootStep DEF IInv

\* The inductive invariant holds throughout.
LEMMA InvariantHolds == Spec => []IInv
BY InitInv, StepInv, PTL DEF Spec

\* Nothing that waits to be written is forgotten by store_pending, whatever main
\* flags while it runs and however often power is lost.
THEOREM PendingWork == Spec => []NothingForgotten
<1>1. IInv => NothingForgotten
  BY DEF IInv, Flagged, NothingForgotten
<1> QED BY <1>1, InvariantHolds, PTL

\* No boot gives the board another network or application key than the stored one,
\* for every number of restarts and losses of power.
THEOREM KeysStay == Spec => StoredKeysStay
<1>1. IInv /\ [Next]_vars =>
        [\A k \in {"NetKey", "AppKey"} : flash[k] # 0 => flash'[k] = flash[k]]_vars
  <2> SUFFICES ASSUME IInv, [Next]_vars, NEW k \in {"NetKey", "AppKey"}, flash[k] # 0
               PROVE  flash'[k] = flash[k]
    OBVIOUS
  <2>1. CASE Written
    <3>1. pc # "load" /\ flash \in Values
      BY <2>1 DEF IInv, Starting, Written, Idle, Typed, TypeOK
    <3>2. pass.item = k => pass.value = flash[k]
      BY <3>1 DEF IInv, KeyInv
    <3> QED BY <2>1, <3>1, <3>2 DEF Written, Values
  <2>2. CASE UNCHANGED flash
    BY <2>2
  <2> QED BY <2>1, <2>2
       DEF Next, MainStep, settings_load, cdb_create, store_cdb_subnet, store_subnet,
           store_iv, StoreStep, provision, net_create, comp_provision, configure_self,
           set_configured, configure_node, WorkQueue, Take, PassEnds, net_local,
           DelayPasses, Restart, vars
<1> QED BY <1>1, InvariantHolds, PTL DEF Spec, StoredKeysStay

\* If storage does not lag, the board is stored as configured, under its address,
\* only once its application key is stored.
THEOREM KeyBeforeNode == Spec => []ConfiguredHasKey
<1>1. IInv => ConfiguredHasKey
  BY DEF IInv, ConfiguredInv, ConfiguredHasKey
<1> QED BY <1>1, InvariantHolds, PTL

\* Unless a boot has found storage half written, a provisioned board uses the key
\* of its database and is in it.
THEOREM SameNetwork == Spec => []DatabaseAgrees
<1>1. IInv => DatabaseAgrees
  BY DEF IInv, DatabaseInv, KeyInv, DatabaseAgrees
<1> QED BY <1>1, InvariantHolds, PTL

\* In the first boot the boards get the key that the provisioner has taken.
THEOREM OneKeyInFirstBoot == Spec => []FirstBootSharesKey
<1>1. IInv => FirstBootSharesKey
  BY DEF IInv, FirstBootInv, FirstBootSharesKey
<1> QED BY <1>1, InvariantHolds, PTL
=============================================================================

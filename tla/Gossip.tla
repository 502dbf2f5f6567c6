------------------------------- MODULE Gossip -------------------------------
(***************************************************************************)
(* The application messages: receive_message of the provisioner            *)
(* (Project/Provisioner/src/mesh.c) and of a beacon board                  *)
(* (Project/Beacon/src/mesh.c and reel_board.c) keep a table node_info of  *)
(* neighbour pairs, and every message that is handled makes its receiver   *)
(* send more.  Codes: Q names a beacon, R tells it of a neighbour, S is    *)
(* the sender's name and sensor values, T and U are a neighbour of the     *)
(* sender, with its name (T) and distance (U).                             *)
(*                                                                         *)
(* Sensor values, distances and signal strengths are left out.  S, T, U    *)
(* and R are sent again and again, so the network is the set of the newest *)
(* message of each sender, receiver, code and address: each may be         *)
(* delivered any number of times, or never, and one that a newer replaces  *)
(* is dropped (a receiver refuses an older sequence number).  Q is sent    *)
(* once, before every other message to its board: it arrives first or      *)
(* never.                                                                  *)
(***************************************************************************)
EXTENDS Integers, FiniteSets

CONSTANTS
    Beacons,     \* addresses of the beacon boards, already provisioned
    Prov,        \* address of the provisioner
    STAT_COUNT,  \* length of node_info
    RESTARTS,    \* boards that may restart once
    LOSSY        \* a Q message may be lost

\* An address is sent as its last hexadecimal digit.
ASSUME GossipAssumption ==
    /\ Beacons \subseteq 1 .. 15
    /\ Prov \in (1 .. 15) \ Beacons
    /\ STAT_COUNT \in Nat \ {0}
    /\ RESTARTS \subseteq Beacons \cup {Prov}
    /\ LOSSY \in BOOLEAN

VARIABLES
    table,    \* node_info and the record count of every board
    my_name,  \* my_device_name of every board
    net,      \* messages that may be delivered
    main,     \* the main thread of the provisioner
    restarts  \* boards that may still restart

vars == <<table, my_name, net, main, restarts>>

Boards == Beacons \cup {Prov}
UNASSIGNED == 0
NoName == 0       \* the empty name
Garbage == -1     \* not a name: a sensor value, or no token at all
ProvName == -2    \* "P"
Name == {NoName, Garbage, ProvName} \cup Nat   \* k is the name Nk

Record == [addr : Boards \cup {UNASSIGNED}, neigh : Boards \cup {UNASSIGNED},
           name : Name, nname : Name]
EmptyRecord == [addr |-> UNASSIGNED, neigh |-> UNASSIGNED,
                name |-> NoName, nname |-> NoName]
Table == [info : [1 .. STAT_COUNT -> Record], count : 0 .. STAT_COUNT]
EmptyTable == [info |-> [i \in 1 .. STAT_COUNT |-> EmptyRecord], count |-> 0]
Message == [src : Boards, dst : Boards, code : {"Q", "R", "S", "T", "U"},
            about : Boards \cup {UNASSIGNED}, name : Name]

\* The types; for the tables this says that no board writes behind the end of
\* node_info, although nothing checks record_count against STAT_COUNT.
TypeOK ==
    /\ table \in [Boards -> Table]
    /\ my_name \in [Boards -> Name]
    /\ restarts \subseteq RESTARTS
    /\ net \subseteq Message
    /\ main \in [todo : SUBSET Beacons, step : {"loop", "fill", "count"},
                 node : Boards, at : Nat, name : Name]

Init ==
    /\ table = [b \in Boards |-> EmptyTable]
    /\ my_name = [b \in Boards |-> IF b = Prov THEN ProvName ELSE NoName]
    /\ restarts = RESTARTS
    /\ net = {}
    /\ main = [todo |-> Beacons, step |-> "loop", node |-> Prov, at |-> 0,
               name |-> NoName]

-----------------------------------------------------------------------------
(* The network.                                                            *)

Msg(s, d, c, a, n) == [src |-> s, dst |-> d, code |-> c, about |-> a, name |-> n]
SameKind(m, k) ==
    m.src = k.src /\ m.dst = k.dst /\ m.code = k.code /\ m.about = k.about
Sent(ns, ms) == {m \in ns : ~ \E k \in ms : SameKind(m, k)} \cup ms

\* strtok knows no empty field: behind an empty name the next field is read as
\* the name, and at the end of the message there is no token.
Token(n) == IF n = NoName THEN Garbage ELSE n

-----------------------------------------------------------------------------
(* The table t of the board with address me.                               *)

Rows(t) == {i \in DOMAIN t.info : i <= t.count}
Own(t, me) == {i \in Rows(t) : t.info[i].addr = me}

\* Mutant: any own record will do.
check_if_record_exists_Any(t, me, a) == a \in {UNASSIGNED, me} \/ Own(t, me) # {}

\* check_if_record_exists, beacon only.
check_if_record_exists(t, me, a) ==
    a \in {UNASSIGNED, me} \/ \E i \in Own(t, me) : t.info[i].neigh = a

\* Mutant: only the order in which the pair was told is looked for.
check_if_record_neighbour_exists_OneWay(t, me, from, a) ==
    a # me /\ \E i \in Rows(t) : t.info[i].addr = from /\ t.info[i].neigh = a

check_if_record_neighbour_exists(t, me, from, a) ==
    a # me /\ \E i \in Rows(t) :
                \/ t.info[i].addr = from /\ t.info[i].neigh = a
                \/ t.info[i].addr = a /\ t.info[i].neigh = from

\* Mutant: the last record is written again.
FreeRow_Last(t) == IF t.count = 0 THEN 1 ELSE t.count

\* &node_info[record_count], in the beacon's count.
FreeRow(t) == t.count + 1

Put(t, r) == [info |-> [t.info EXCEPT ![FreeRow(t)] = r], count |-> t.count + 1]

\* A Q message empties the table first.
OnQ(t, me, m) ==
    Put([t EXCEPT !.count = 0],
        [addr |-> me, neigh |-> m.src, name |-> m.name, nname |-> ProvName])

OnR(t, me, m) ==
    IF check_if_record_exists(t, me, m.about) THEN t
    ELSE Put(t, [addr |-> me, neigh |-> m.about, name |-> my_name[me],
                 nname |-> Token(m.name)])

\* Mutant: the sender is taken for every neighbour.
OnS_AllOwn(t, me, m) ==
    [t EXCEPT !.info = [i \in DOMAIN t.info |->
        IF i \in Own(t, me) THEN [t.info[i] EXCEPT !.nname = Token(m.name)]
        ELSE t.info[i]]]

OnS(t, me, m) ==
    [t EXCEPT !.info = [i \in DOMAIN t.info |->
        IF i \in Own(t, me) /\ t.info[i].neigh = m.src
        THEN [t.info[i] EXCEPT !.nname = Token(m.name)] ELSE t.info[i]]]

\* The name of the record is left as it was in the array.
OnT(t, me, m) ==
    IF m.about = UNASSIGNED \/ check_if_record_neighbour_exists(t, me, m.src, m.about)
    THEN t
    ELSE [info |-> [t.info EXCEPT ![FreeRow(t)] =
                      [@ EXCEPT !.addr = m.src, !.neigh = m.about, !.nname = Token(m.name)]],
          count |-> t.count + 1]

OnU(t, me, m) ==
    IF ~check_if_record_neighbour_exists(t, me, m.src, m.about) THEN t
    ELSE [t EXCEPT !.info = [i \in DOMAIN t.info |->
            IF i \in Own(t, m.src) /\ m.src # me /\ t.info[i].neigh = m.about
            THEN [t.info[i] EXCEPT !.name = Token(m.name)] ELSE t.info[i]]]

Handled(t, me, m) ==
    CASE m.code = "Q" -> OnQ(t, me, m)
      [] m.code = "R" -> OnR(t, me, m)
      [] m.code = "S" -> OnS(t, me, m)
      [] m.code = "T" -> OnT(t, me, m)
      [] m.code = "U" -> OnU(t, me, m)

\* Mutant: the sender is told about itself, too.
ToldTo_All(t, me, from) == Own(t, me)

\* The own records that a sender of a message is told about.
ToldTo(t, me, from) == {i \in Own(t, me) : t.info[i].neigh # from}

\* Mutant: only the sender of the message is answered.
Replies_Sender(t, me, from, name) ==
    {Msg(me, t.info[i].neigh, "S", UNASSIGNED, name) :
       i \in Own(t, me) \ ToldTo(t, me, from)}
    \cup {Msg(me, from, c, t.info[i].neigh,
              IF c = "T" THEN t.info[i].nname ELSE name) :
            i \in ToldTo(t, me, from), c \in {"T", "U"}}

\* The loop at the end of the handler: S to every neighbour, and T and U about
\* the others to the sender of the message.
Replies(t, me, from, name) ==
    {Msg(me, t.info[i].neigh, "S", UNASSIGNED, name) : i \in Own(t, me)}
    \cup {Msg(me, from, c, t.info[i].neigh,
              IF c = "T" THEN t.info[i].nname ELSE name) :
            i \in ToldTo(t, me, from), c \in {"T", "U"}}

-----------------------------------------------------------------------------
(* receive_message.                                                        *)

IsQ(m) == m.code = "Q"

\* Without loss the messages of one sender arrive in order: Q comes first.
Arrives(m) ==
    /\ m \in net
    /\ LOSSY \/ IsQ(m) \/ ~ \E q \in net : IsQ(q) /\ q.src = m.src /\ q.dst = m.dst

\* A Q message that is handled or overtaken is gone.
Passed(m) == {q \in net : IsQ(q) /\ q.src = m.src /\ q.dst = m.dst}

receive_message(m) ==
    LET me == m.dst
        t == Handled(table[me], me, m)
        name == IF IsQ(m) THEN m.name ELSE my_name[me]
    IN  /\ Arrives(m)
        /\ m.src # me
        /\ table' = [table EXCEPT ![me] = t]
        /\ my_name' = [my_name EXCEPT ![me] = name]
        /\ net' = Sent(net \ Passed(m), Replies(t, me, m.src, name))
        /\ UNCHANGED <<main, restarts>>

\* A beacon board finds its address and keys in persistent storage after a
\* restart, but neither its name nor its table.  The messages that it has sent
\* are gone.
RestartBeacon(b) ==
    /\ b \in restarts \ {Prov}
    /\ my_name' = [my_name EXCEPT ![b] = NoName]
    /\ table' = [table EXCEPT ![b] = EmptyTable]
    /\ net' = {m \in net : m.src # b}
    /\ restarts' = restarts \ {b}
    /\ UNCHANGED main

\* The provisioner finds the configured boards in its database and does not
\* configure them again; node_info and record_count start afresh.  A name that
\* is on its way still arrives.
RestartProv ==
    /\ Prov \in restarts
    /\ table' = [table EXCEPT ![Prov] = EmptyTable]
    /\ net' = {m \in net : m.src # Prov \/ IsQ(m)}
    /\ main' = [main EXCEPT !.step = "loop", !.node = Prov, !.at = 0, !.name = NoName]
    /\ restarts' = restarts \ {Prov}
    /\ UNCHANGED my_name

-----------------------------------------------------------------------------
(* The main thread of the provisioner, which receive_message preempts.     *)

\* configure_node sends the name, and takes the address of the next record.
\* The boards come in the order of their addresses, which mesh_start assigns
\* by the same count.
configure_node(b) ==
    LET rc == table[Prov].count + 1
    IN  /\ main.step = "loop"
        /\ b \in main.todo
        /\ \A c \in main.todo : b <= c
        /\ net' = Sent(net, {Msg(Prov, b, "Q", UNASSIGNED, rc)})
        /\ main' = [todo |-> main.todo \ {b}, step |-> "fill", node |-> b,
                    at |-> rc, name |-> rc]
        /\ UNCHANGED <<table, my_name, restarts>>

\* ... fills that record ...
FillRecord ==
    /\ main.step = "fill"
    /\ table' = [table EXCEPT ![Prov].info[main.at] =
         [addr |-> Prov, neigh |-> main.node, name |-> ProvName, nname |-> main.name]]
    /\ main' = [main EXCEPT !.step = "count"]
    /\ UNCHANGED <<my_name, net, restarts>>

\* ... and counts it.
CountRecord ==
    /\ main.step = "count"
    /\ table' = [table EXCEPT ![Prov].count = @ + 1]
    /\ main' = [main EXCEPT !.step = "loop", !.node = Prov, !.at = 0, !.name = NoName]
    /\ UNCHANGED <<my_name, net, restarts>>

Configured == Beacons \ (main.todo \cup {main.node})

\* check_unconfigured tells a configured board of one of the others.
SendR(b, i) ==
    LET r == table[Prov].info[i]
    IN  /\ main.step = "loop"
        /\ b \in Configured
        /\ i \in Own(table[Prov], Prov)
        /\ r.neigh \notin {b, UNASSIGNED}
        /\ net' = Sent(net, {Msg(Prov, b, "R", r.neigh, r.nname)})
        /\ UNCHANGED <<table, my_name, main, restarts>>

Main ==
    \/ \E b \in Beacons : configure_node(b)
    \/ FillRecord
    \/ CountRecord
    \/ \E b \in Beacons, i \in Rows(table[Prov]) : SendR(b, i)

Next ==
    \/ Main
    \/ \E m \in net : receive_message(m)
    \/ \E b \in Beacons : RestartBeacon(b)
    \/ RestartProv

\* The provisioner's loop goes round for ever, and the boards handle what
\* arrives; which message comes next is left open.
Fairness == WF_vars(Main) /\ WF_vars(\E m \in net : receive_message(m))

Spec == Init /\ [][Next]_vars /\ Fairness

-----------------------------------------------------------------------------
(* Properties.                                                             *)

Pair(r) == {r.addr, r.neigh}

\* No table holds a pair of boards twice, in either order, or a board paired
\* with itself, so that a table never outgrows the pairs that exist.  The check
\* check_if_record_neighbour_exists does not cover a pair with the board's own
\* address: what keeps those out is that no board tells another about itself.
NoPairTwice ==
    \A b \in Boards :
      LET t == table[b] IN
      /\ \A i \in Rows(t) : Cardinality(Pair(t.info[i])) = 2
      /\ \A i, j \in Rows(t) : Pair(t.info[i]) = Pair(t.info[j]) => i = j

\* configure_node adds the board to the provisioner's table and receive_message,
\* which may preempt it between the address and the count, does not undo that.
ConfiguredListed ==
    main.step = "loop" =>
      \A b \in Configured : \E i \in Own(table[Prov], Prov) :
        table[Prov].info[i].neigh = b

\* The name that b was given, by the record of its configuration.
NameOf(b) == IF b = Prov THEN ProvName ELSE my_name[b]

\* Every board shows the same name for a board: the one that board has.
NamesAgree ==
    \A b \in Boards : \A i \in Rows(table[b]) :
      LET r == table[b].info[i] IN
      /\ r.name \in {NoName, NameOf(r.addr)}
      /\ my_name[r.neigh] # NoName => r.nname = NameOf(r.neigh)
      /\ r.nname # Garbage

\* Every board goes on sending its name and sensor values to every other one.
AllReport ==
    \A s, d \in Boards : s # d =>
      []<>(\E m \in net : /\ m.src = s /\ m.dst = d /\ m.code = "S"
                          /\ m.name = NameOf(s) /\ m.name # NoName)

AllPairs == {p \in SUBSET Boards : Cardinality(p) = 2}

\* In the end every board knows every pair of boards, with both names, and
\* does not forget them again.
TablesComplete ==
    <>[](\A b \in Boards : \A p \in AllPairs : \E i \in Rows(table[b]) :
           LET r == table[b].info[i] IN
           /\ Pair(r) = p
           /\ r.name = NameOf(r.addr)
           /\ r.nname = NameOf(r.neigh))

=============================================================================

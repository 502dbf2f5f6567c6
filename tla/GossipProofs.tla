---------------------------- MODULE GossipProofs ----------------------------
(***************************************************************************)
(* The tables of neighbour pairs never hold a pair twice, and no board     *)
(* writes behind the end of its table although nothing checks the count:   *)
(* on a beacon board for any number of boards, on the provisioner for as   *)
(* many as its database takes (CONFIG_BT_MESH_CDB_NODE_COUNT is 3: itself  *)
(* and two beacon boards).  With a third board that does not hold on the   *)
(* provisioner: what a board tells it of another one may arrive while      *)
(* configure_node fills the record of the third.                           *)
(***************************************************************************)
EXTENDS Gossip, TLAPS

-----------------------------------------------------------------------------
(* The inductive invariant.                                                *)

\* The database of the provisioner takes two other boards.
TwoBeacons == \A x, y, z \in Beacons : x = y \/ y = z \/ x = z

\* The tables, without a bound on the count.
Tables == [info : [1 .. STAT_COUNT -> Record], count : Nat]

\* The types, without the bound on the counts.
Typed ==
    /\ table \in [Boards -> Tables]
    /\ my_name \in [Boards -> Name]
    /\ restarts \subseteq RESTARTS
    /\ net \subseteq Message
    /\ main \in [todo : SUBSET Beacons, step : {"loop", "fill", "count"},
                 node : Boards, at : Nat, name : Name]

\* What is sent: no board tells another one about itself or about the other.
GoodMessage(m) ==
    /\ m.src # m.dst
    /\ m.code \in {"Q", "R"} => m.src = Prov
    /\ m.code = "R" => m.about \in Beacons \ {m.dst}
    /\ m.code \in {"T", "U"} => m.about \in Boards \ {m.src, m.dst}

Messages == \A m \in net : GoodMessage(m)

\* The own records of the board with address me name another board, those behind
\* the count included.
OwnRows(t, me) ==
    \A i \in 1 .. STAT_COUNT : t.info[i].addr = me => t.info[i].neigh \in Boards \ {me}

\* Every record is a pair of two boards, a pair with the board itself is an own
\* record, and two records are two pairs.
Pairs(t, me) ==
    /\ \A i \in Rows(t) :
         /\ t.info[i].addr \in Boards
         /\ t.info[i].neigh \in Boards \ {me, t.info[i].addr}
    /\ \A i, j \in Rows(t) : i # j =>
         /\ ~(t.info[i].addr = t.info[j].addr /\ t.info[i].neigh = t.info[j].neigh)
         /\ ~(t.info[i].addr = t.info[j].neigh /\ t.info[i].neigh = t.info[j].addr)

\* On the beacon boards, for any number of them.
BeaconInv ==
    /\ Messages
    /\ \A b \in Boards : OwnRows(table[b], b)
    /\ \A b \in Beacons : Pairs(table[b], b)
    /\ main.step # "loop" => main.node \in Beacons

\* The provisioner has configured every board.
Done == main.todo = {} /\ main.step = "loop"

\* With two boards, neither is told about the other before both are configured,
\* so the provisioner hears of no pair before.
Quiet ==
    /\ \A m \in net : m.code = "R" \/ (m.code = "T" /\ m.dst = Prov) => Done
    /\ \A b \in Beacons : \A i \in Own(table[b], b) :
         table[b].info[i].neigh \in Beacons => Done

\* The record that configure_node fills is the one behind the last.
Filling ==
    /\ main.step = "loop" => main.node = Prov
    /\ main.step # "loop" => /\ main.at = table[Prov].count + 1
                             /\ main.node \in Beacons \ main.todo
    /\ main.step = "count" /\ main.at <= STAT_COUNT =>
         /\ table[Prov].info[main.at].addr = Prov
         /\ table[Prov].info[main.at].neigh = main.node

\* The provisioner's own records are of boards that it has configured.
ProvInv ==
    /\ Quiet
    /\ Filling
    /\ Pairs(table[Prov], Prov)
    /\ \A i \in Own(table[Prov], Prov) :
         table[Prov].info[i].neigh \notin main.todo \cup {main.node}

\* No count is behind the end.
Bounded == \A b \in Boards : table[b].count <= STAT_COUNT

\* Every board that is configured has an own record of the provisioner.
Listed ==
    /\ Prov \notin restarts
    /\ \A b \in Configured : \E i \in Own(table[Prov], Prov) :
         table[Prov].info[i].neigh = b
-----------------------------------------------------------------------------
(* What a message does to a table.                                         *)

\* The table u has the pairs of the table t.
SamePairs(t, u) ==
    /\ u.count = t.count
    /\ \A i \in 1 .. STAT_COUNT : /\ u.info[i].addr = t.info[i].addr
                                  /\ u.info[i].neigh = t.info[i].neigh

\* The table u has those and, behind the last, the pair of a and n.
OneMore(t, u, a, n) ==
    /\ u.count = t.count + 1
    /\ \A i \in 1 .. STAT_COUNT :
         i # t.count + 1 => /\ u.info[i].addr = t.info[i].addr
                            /\ u.info[i].neigh = t.info[i].neigh
    /\ t.count + 1 <= STAT_COUNT => /\ u.info[t.count + 1].addr = a
                                    /\ u.info[t.count + 1].neigh = n

\* The table t has no record of the pair of a and n.
NewPair(t, a, n) ==
    \A i \in Rows(t) : /\ ~(t.info[i].addr = a /\ t.info[i].neigh = n)
                       /\ ~(t.info[i].addr = n /\ t.info[i].neigh = a)

\* The addresses are numbers, and UNASSIGNED is none of them.
LEMMA BoardFacts ==
    /\ Boards \subseteq 1 .. 15
    /\ UNASSIGNED \notin Boards
    /\ Prov \in Boards /\ Prov \notin Beacons /\ Beacons \subseteq Boards
    /\ STAT_COUNT \in Nat /\ STAT_COUNT >= 1
BY GossipAssumption DEF Boards, UNASSIGNED

\* The fields of a table.
LEMMA TableFields ==
    ASSUME NEW t \in Tables
    PROVE  /\ t.count \in Nat
           /\ t.info \in [1 .. STAT_COUNT -> Record]
           /\ DOMAIN t.info = 1 .. STAT_COUNT
           /\ Rows(t) = {i \in 1 .. STAT_COUNT : i <= t.count}
           /\ \A i \in 1 .. STAT_COUNT : /\ t.info[i].addr \in Boards \cup {UNASSIGNED}
                                         /\ t.info[i].neigh \in Boards \cup {UNASSIGNED}
BY Zenon DEF Tables, Rows, Record

\* A table with the same pairs has the same own records.
LEMMA SamePairsFacts ==
    ASSUME NEW t \in Tables, NEW u \in Tables, NEW me \in Boards, SamePairs(t, u)
    PROVE  /\ Rows(u) = Rows(t) /\ Own(u, me) = Own(t, me)
           /\ OwnRows(t, me) => OwnRows(u, me)
           /\ Pairs(t, me) => Pairs(u, me)
<1>1. Rows(u) = Rows(t) /\ Rows(t) \subseteq 1 .. STAT_COUNT
  BY TableFields, Zenon DEF SamePairs
<1>2. Own(u, me) = Own(t, me) /\ Own(t, me) \subseteq Rows(t)
  BY <1>1, Zenon DEF Own, SamePairs
<1>3. OwnRows(t, me) => OwnRows(u, me)
  BY Zenon DEF OwnRows, SamePairs
<1>4. Pairs(t, me) => Pairs(u, me)
  BY <1>1 DEF Pairs, SamePairs
<1> QED BY <1>1, <1>2, <1>3, <1>4, Zenon

\* A pair that is added is the only new record.
LEMMA OneMoreFacts ==
    ASSUME NEW t \in Tables, NEW u \in Tables, NEW me \in Boards,
           NEW a \in Boards, NEW n \in Boards, OneMore(t, u, a, n)
    PROVE  /\ Rows(u) = {i \in Rows(t) \cup {t.count + 1} : i <= STAT_COUNT}
           /\ t.count + 1 \notin Rows(t)
           /\ Own(u, me) \subseteq Own(t, me) \cup {t.count + 1}
           /\ Own(t, me) \subseteq Own(u, me)
           /\ a # me => Own(u, me) = Own(t, me)
           /\ n # me /\ OwnRows(t, me) => OwnRows(u, me)
           /\ a # n /\ n # me /\ NewPair(t, a, n) /\ Pairs(t, me) => Pairs(u, me)
<1>1. /\ Rows(u) = {i \in Rows(t) \cup {t.count + 1} : i <= STAT_COUNT}
      /\ t.count + 1 \notin Rows(t)
      /\ Rows(t) \subseteq 1 .. STAT_COUNT
      /\ Rows(t) \subseteq Rows(u)
      /\ \A i \in Rows(u) : i \in 1 .. STAT_COUNT
  BY TableFields, BoardFacts DEF OneMore
<1>2. \A i \in Rows(t) : /\ u.info[i].addr = t.info[i].addr
                         /\ u.info[i].neigh = t.info[i].neigh
  BY <1>1, Zenon DEF OneMore
<1>3. \A i \in Rows(u) \ Rows(t) : i = t.count + 1 /\ u.info[i].addr = a /\ u.info[i].neigh = n
  BY <1>1, Zenon DEF OneMore
<1>4. /\ Own(u, me) \subseteq Own(t, me) \cup {t.count + 1}
      /\ Own(t, me) \subseteq Own(u, me)
      /\ a # me => Own(u, me) = Own(t, me)
  BY <1>1, <1>2, <1>3, Zenon DEF Own
<1>5. ASSUME n # me, OwnRows(t, me) PROVE OwnRows(u, me)
  BY <1>5, BoardFacts DEF OwnRows, OneMore
<1>6. ASSUME a # n, n # me, NewPair(t, a, n), Pairs(t, me) PROVE Pairs(u, me)
  <2>1. \A i \in Rows(u) : /\ u.info[i].addr \in Boards
                           /\ u.info[i].neigh \in Boards \ {me, u.info[i].addr}
    BY <1>1, <1>2, <1>3, <1>6 DEF Pairs
  <2>2. ASSUME NEW i \in Rows(u), NEW j \in Rows(u), i # j
        PROVE  /\ ~(u.info[i].addr = u.info[j].addr /\ u.info[i].neigh = u.info[j].neigh)
               /\ ~(u.info[i].addr = u.info[j].neigh /\ u.info[i].neigh = u.info[j].addr)
    <3>1. CASE i \in Rows(t) /\ j \in Rows(t)
      BY <1>2, <1>6, <2>2, <3>1 DEF Pairs
    <3>2. CASE i \notin Rows(t) /\ j \in Rows(t)
      BY <1>2, <1>3, <1>6, <3>2, Zenon DEF NewPair
    <3>3. CASE i \in Rows(t) /\ j \notin Rows(t)
      BY <1>2, <1>3, <1>6, <3>3, Zenon DEF NewPair
    <3> QED BY <1>3, <2>2, <3>1, <3>2, <3>3
  <2> QED BY <2>1, <2>2, Zenon DEF Pairs
<1> QED BY <1>1, <1>4, <1>5, <1>6, Zenon

\* An array in which one element is written, and a record in which T writes the
\* pair and the name.
Write(f, k, r) == [f EXCEPT ![k] = r]
WritePair(r, a, n, x) == [r EXCEPT !.addr = a, !.neigh = n, !.nname = x]

\* What a write of one record does to the others.
LEMMA WriteFacts ==
    ASSUME NEW f \in [1 .. STAT_COUNT -> Record], NEW k \in Nat, NEW r,
           k \in 1 .. STAT_COUNT => r \in Record
    PROVE  /\ Write(f, k, r) \in [1 .. STAT_COUNT -> Record]
           /\ \A i \in 1 .. STAT_COUNT : i # k => Write(f, k, r)[i] = f[i]
           /\ k \in 1 .. STAT_COUNT => Write(f, k, r)[k] = r
BY Zenon DEF Write

\* The record behind the last is written, or nothing when the array ends there.
LEMMA WriteNext ==
    ASSUME NEW t \in Tables, NEW r, t.count + 1 \in 1 .. STAT_COUNT => r \in Record
    PROVE  LET info == Write(t.info, t.count + 1, r)
           IN  /\ info \in [1 .. STAT_COUNT -> Record]
               /\ \A i \in 1 .. STAT_COUNT : i # t.count + 1 => info[i] = t.info[i]
               /\ t.count + 1 <= STAT_COUNT => info[t.count + 1] = r
<1> DEFINE k == t.count + 1
<1>1. /\ t.info \in [1 .. STAT_COUNT -> Record] /\ k \in Nat
      /\ (k <= STAT_COUNT <=> k \in 1 .. STAT_COUNT)
  BY TableFields, BoardFacts
<1> HIDE DEF k
<1>2. k \in 1 .. STAT_COUNT => r \in Record
  BY Zenon DEF k
<1>3. /\ Write(t.info, k, r) \in [1 .. STAT_COUNT -> Record]
      /\ \A i \in 1 .. STAT_COUNT : i # k => Write(t.info, k, r)[i] = t.info[i]
      /\ k \in 1 .. STAT_COUNT => Write(t.info, k, r)[k] = r
  BY <1>1, <1>2, WriteFacts
<1> QED BY <1>1, <1>3, Zenon DEF k

\* What a write of the two addresses of one record does.
LEMMA WritePairFacts ==
    ASSUME NEW r \in Record, NEW a \in Boards, NEW n \in Boards, NEW x \in Name
    PROVE  /\ WritePair(r, a, n, x) \in Record
           /\ WritePair(r, a, n, x).addr = a
           /\ WritePair(r, a, n, x).neigh = n
BY Zenon DEF Record, WritePair

\* Put adds the record.
LEMMA PutFacts ==
    ASSUME NEW t \in Tables, NEW r \in Record
    PROVE  Put(t, r) \in Tables /\ OneMore(t, Put(t, r), r.addr, r.neigh)
<1> DEFINE info == Write(t.info, t.count + 1, r)
<1>1. /\ info \in [1 .. STAT_COUNT -> Record]
      /\ \A i \in 1 .. STAT_COUNT : i # t.count + 1 => info[i] = t.info[i]
      /\ t.count + 1 <= STAT_COUNT => info[t.count + 1] = r
  BY WriteNext, Zenon
<1>2. Put(t, r) = [info |-> info, count |-> t.count + 1]
  BY Zenon DEF Put, Write, FreeRow
<1> HIDE DEF info
<1>3. /\ Put(t, r).info = info
      /\ Put(t, r).count = t.count + 1
      /\ Put(t, r) \in Tables
  BY <1>1, <1>2, TableFields DEF Tables
<1> QED BY <1>1, <1>3, Zenon DEF OneMore

\* A token is a name.
LEMMA TokenName == ASSUME NEW n \in Name PROVE Token(n) \in Name
BY Zenon DEF Token, Name, NoName, Garbage

\* The fields of a message.
LEMMA MessageFields ==
    ASSUME NEW m \in Message
    PROVE  /\ m.src \in Boards /\ m.dst \in Boards
           /\ m.code \in {"Q", "R", "S", "T", "U"}
           /\ m.about \in Boards \cup {UNASSIGNED}
           /\ m.name \in Name
BY Zenon DEF Message

\* Q leaves the one record of the provisioner.
LEMMA OnQFacts ==
    ASSUME NEW t \in Tables, NEW me \in Boards, NEW m \in Message
    PROVE  LET e == [t EXCEPT !.count = 0]
           IN  /\ e \in Tables /\ Rows(e) = {} /\ e.count = 0
               /\ OnQ(t, me, m) \in Tables
               /\ OneMore(e, OnQ(t, me, m), me, m.src)
<1> DEFINE e == [t EXCEPT !.count = 0]
<1> DEFINE r == [addr |-> me, neigh |-> m.src, name |-> m.name, nname |-> ProvName]
<1>1. e \in Tables /\ e.count = 0
  BY Zenon DEF Tables
<1>2. Rows(e) = {}
  <2> HIDE DEF e
  <2> QED BY <1>1, TableFields
<1>3. r \in Record /\ r.addr = me /\ r.neigh = m.src
  BY MessageFields, Zenon DEF Record, Name
<1>4. OnQ(t, me, m) = Put(e, r)
  BY Zenon DEF OnQ
<1> HIDE DEF e, r
<1>5. OnQ(t, me, m) \in Tables /\ OneMore(e, OnQ(t, me, m), me, m.src)
  BY <1>1, <1>3, <1>4, PutFacts, Zenon
<1> QED BY <1>1, <1>2, <1>5, Zenon DEF e

\* R adds an own record for a board that has none.
LEMMA OnRFacts ==
    ASSUME NEW t \in Tables, NEW me \in Boards, NEW m \in Message, Typed
    PROVE  /\ OnR(t, me, m) \in Tables
           /\ \/ OnR(t, me, m) = t
              \/ /\ OneMore(t, OnR(t, me, m), me, m.about)
                 /\ m.about \in Boards \ {me}
                 /\ \A i \in Own(t, me) : t.info[i].neigh # m.about
<1> DEFINE r == [addr |-> me, neigh |-> m.about, name |-> my_name[me],
                 nname |-> Token(m.name)]
<1>1. CASE check_if_record_exists(t, me, m.about)
  BY <1>1, Zenon DEF OnR
<1>2. CASE ~check_if_record_exists(t, me, m.about)
  <2>1. /\ m.about \in Boards \ {me}
        /\ \A i \in Own(t, me) : t.info[i].neigh # m.about
    BY <1>2, MessageFields, Zenon DEF check_if_record_exists
  <2>2. r \in Record /\ r.addr = me /\ r.neigh = m.about
    BY MessageFields, TokenName, Zenon DEF Record, Typed
  <2>3. OnR(t, me, m) = Put(t, r)
    BY <1>2, Zenon DEF OnR
  <2> HIDE DEF r
  <2> QED BY <2>1, <2>2, <2>3, PutFacts, Zenon
<1> QED BY <1>1, <1>2, Zenon

\* A record with another name is a record of the same boards.
LEMMA RenamedRecord ==
    ASSUME NEW r \in Record, NEW n \in Name
    PROVE  /\ [r EXCEPT !.name = n] \in Record /\ [r EXCEPT !.nname = n] \in Record
           /\ [r EXCEPT !.name = n].addr = r.addr /\ [r EXCEPT !.nname = n].addr = r.addr
           /\ [r EXCEPT !.name = n].neigh = r.neigh /\ [r EXCEPT !.nname = n].neigh = r.neigh
BY Zenon DEF Record

\* S changes names only.
LEMMA OnSFacts ==
    ASSUME NEW t \in Tables, NEW me \in Boards, NEW m \in Message
    PROVE  OnS(t, me, m) \in Tables /\ SamePairs(t, OnS(t, me, m))
<1> DEFINE new(i) == IF i \in Own(t, me) /\ t.info[i].neigh = m.src
                     THEN [t.info[i] EXCEPT !.nname = Token(m.name)] ELSE t.info[i]
<1> DEFINE info == [i \in DOMAIN t.info |-> new(i)]
<1>1. ASSUME NEW i \in 1 .. STAT_COUNT
      PROVE  new(i) \in Record /\ new(i).addr = t.info[i].addr /\ new(i).neigh = t.info[i].neigh
  <2>1. t.info[i] \in Record /\ Token(m.name) \in Name
    BY TableFields, MessageFields, TokenName, Zenon
  <2> QED BY <2>1, RenamedRecord, Zenon
<1>2. OnS(t, me, m) = [t EXCEPT !.info = info]
  BY Zenon DEF OnS
<1> HIDE DEF new
<1>3. /\ info \in [1 .. STAT_COUNT -> Record]
      /\ \A i \in 1 .. STAT_COUNT : info[i] = new(i)
  BY <1>1, TableFields, Zenon
<1> HIDE DEF info
<1>4. /\ OnS(t, me, m) \in Tables
      /\ OnS(t, me, m).info = info
      /\ OnS(t, me, m).count = t.count
  BY <1>2, <1>3, Zenon DEF Tables
<1> QED BY <1>1, <1>3, <1>4, Zenon DEF SamePairs

\* U changes names only.
LEMMA OnUFacts ==
    ASSUME NEW t \in Tables, NEW me \in Boards, NEW m \in Message
    PROVE  OnU(t, me, m) \in Tables /\ SamePairs(t, OnU(t, me, m))
<1> DEFINE new(i) == IF i \in Own(t, m.src) /\ m.src # me /\ t.info[i].neigh = m.about
                     THEN [t.info[i] EXCEPT !.name = Token(m.name)] ELSE t.info[i]
<1> DEFINE info == [i \in DOMAIN t.info |-> new(i)]
<1>1. ASSUME NEW i \in 1 .. STAT_COUNT
      PROVE  new(i) \in Record /\ new(i).addr = t.info[i].addr /\ new(i).neigh = t.info[i].neigh
  <2>1. t.info[i] \in Record /\ Token(m.name) \in Name
    BY TableFields, MessageFields, TokenName, Zenon
  <2> QED BY <2>1, RenamedRecord, Zenon
<1>2. CASE ~check_if_record_neighbour_exists(t, me, m.src, m.about)
  BY <1>2, Zenon DEF OnU, SamePairs
<1>3. CASE check_if_record_neighbour_exists(t, me, m.src, m.about)
  <2>1. OnU(t, me, m) = [t EXCEPT !.info = info]
    BY <1>3, Zenon DEF OnU
  <2> HIDE DEF new
  <2>2. /\ info \in [1 .. STAT_COUNT -> Record]
        /\ \A i \in 1 .. STAT_COUNT : info[i] = new(i)
    BY <1>1, TableFields, Zenon
  <2> HIDE DEF info
  <2>3. /\ OnU(t, me, m) \in Tables
        /\ OnU(t, me, m).info = info
        /\ OnU(t, me, m).count = t.count
    BY <2>1, <2>2, Zenon DEF Tables
  <2> QED BY <1>1, <2>2, <2>3, Zenon DEF SamePairs
<1> QED BY <1>2, <1>3, Zenon

\* T adds a pair that is not in the table.
LEMMA OnTFacts ==
    ASSUME NEW t \in Tables, NEW me \in Boards, NEW m \in Message, m.about # me
    PROVE  /\ OnT(t, me, m) \in Tables
           /\ \/ OnT(t, me, m) = t
              \/ /\ OneMore(t, OnT(t, me, m), m.src, m.about)
                 /\ m.about \in Boards
                 /\ NewPair(t, m.src, m.about)
<1> DEFINE r == WritePair(t.info[t.count + 1], m.src, m.about, Token(m.name))
<1> DEFINE info == Write(t.info, t.count + 1, r)
<1>1. CASE m.about = UNASSIGNED \/ check_if_record_neighbour_exists(t, me, m.src, m.about)
  BY <1>1, Zenon DEF OnT
<1>2. CASE ~(m.about = UNASSIGNED \/ check_if_record_neighbour_exists(t, me, m.src, m.about))
  <2>1. m.about \in Boards /\ NewPair(t, m.src, m.about)
    BY <1>2, MessageFields, Zenon DEF check_if_record_neighbour_exists, NewPair
  <2>0. t.count + 1 <= STAT_COUNT => t.count + 1 \in 1 .. STAT_COUNT
    BY TableFields, BoardFacts
  <2>2. t.count + 1 \in 1 .. STAT_COUNT =>
          r \in Record /\ r.addr = m.src /\ r.neigh = m.about
    <3>1. ASSUME t.count + 1 \in 1 .. STAT_COUNT
          PROVE  t.info[t.count + 1] \in Record
      BY <2>0, <3>1, TableFields, Zenon
    <3>2. Token(m.name) \in Name /\ m.src \in Boards
      BY MessageFields, TokenName, Zenon
    <3> QED BY <2>1, <3>1, <3>2, WritePairFacts
  <2>3. OnT(t, me, m) = [info |-> info, count |-> t.count + 1]
    BY <1>2, Zenon DEF OnT, Write, WritePair, FreeRow
  <2> HIDE DEF r
  <2>4. /\ info \in [1 .. STAT_COUNT -> Record]
        /\ \A i \in 1 .. STAT_COUNT : i # t.count + 1 => info[i] = t.info[i]
        /\ t.count + 1 <= STAT_COUNT => info[t.count + 1] = r
    BY <2>2, WriteNext, Zenon
  <2> HIDE DEF info
  <2>5. /\ OnT(t, me, m) \in Tables
        /\ OnT(t, me, m).info = info
        /\ OnT(t, me, m).count = t.count + 1
    BY <2>3, <2>4, TableFields DEF Tables
  <2> QED BY <2>0, <2>1, <2>2, <2>4, <2>5, Zenon DEF OneMore
<1> QED BY <1>1, <1>2, Zenon

\* Whatever arrives, the own records name other boards and no pair is added twice.
LEMMA HandledFacts ==
    ASSUME Typed, NEW t \in Tables, NEW m \in Message, GoodMessage(m)
    PROVE  /\ Handled(t, m.dst, m) \in Tables
           /\ OwnRows(t, m.dst) => OwnRows(Handled(t, m.dst, m), m.dst)
           /\ Pairs(t, m.dst) => Pairs(Handled(t, m.dst, m), m.dst)
<1> DEFINE me == m.dst
<1> DEFINE u == Handled(t, me, m)
<1>0. /\ me \in Boards /\ m.src \in Boards /\ m.src # me
      /\ m.code \in {"Q", "R", "S", "T", "U"}
  BY MessageFields, Zenon DEF GoodMessage
<1> HIDE DEF me
<1>1. CASE m.code = "Q"
  <2> DEFINE e == [t EXCEPT !.count = 0]
  <2>1. u = OnQ(t, me, m)
    BY <1>1, Zenon DEF Handled
  <2>2. /\ e \in Tables /\ Rows(e) = {}
        /\ u \in Tables /\ OneMore(e, u, me, m.src)
    BY <1>0, <2>1, OnQFacts, Zenon
  <2>3. e.info = t.info
    BY Zenon DEF Tables
  <2> HIDE DEF e, u
  <2>4. (OwnRows(t, me) => OwnRows(e, me)) /\ Pairs(e, me) /\ NewPair(e, me, m.src)
    BY <2>2, <2>3, Zenon DEF OwnRows, Pairs, NewPair
  <2>5. (OwnRows(t, me) => OwnRows(u, me)) /\ Pairs(u, me)
    BY <1>0, <2>2, <2>4, OneMoreFacts, Zenon
  <2> QED BY <2>2, <2>5, Zenon DEF u, me
<1>2. CASE m.code = "R"
  <2>1. u = OnR(t, me, m)
    BY <1>2, Zenon DEF Handled
  <2>2. /\ u \in Tables
        /\ \/ u = t
           \/ /\ OneMore(t, u, me, m.about)
              /\ m.about \in Boards \ {me}
              /\ \A i \in Own(t, me) : t.info[i].neigh # m.about
    BY <1>0, <2>1, OnRFacts
  <2> HIDE DEF u
  <2>3. CASE u = t
    BY <2>2, <2>3, Zenon DEF u, me
  <2>4. CASE u # t
    <3>1. Pairs(t, me) => NewPair(t, me, m.about)
      BY <2>2, <2>4, Zenon DEF Pairs, NewPair, Own
    <3>2. /\ OwnRows(t, me) => OwnRows(u, me)
          /\ Pairs(t, me) => Pairs(u, me)
      BY <1>0, <2>2, <2>4, <3>1, OneMoreFacts, Zenon
    <3> QED BY <2>2, <3>2, Zenon DEF u, me
  <2> QED BY <2>3, <2>4, Zenon
<1>3. CASE m.code = "S"
  <2>1. u = OnS(t, me, m)
    BY <1>3, Zenon DEF Handled
  <2>2. u \in Tables /\ SamePairs(t, u)
    BY <1>0, <2>1, OnSFacts, Zenon
  <2> HIDE DEF u
  <2>3. /\ OwnRows(t, me) => OwnRows(u, me)
        /\ Pairs(t, me) => Pairs(u, me)
    BY <1>0, <2>2, SamePairsFacts, Zenon
  <2> QED BY <2>2, <2>3, Zenon DEF u, me
<1>4. CASE m.code = "T"
  <2>1. u = OnT(t, me, m) /\ m.about # me /\ m.about # m.src
    BY <1>4, Zenon DEF Handled, GoodMessage, me
  <2>2. /\ u \in Tables
        /\ \/ u = t
           \/ /\ OneMore(t, u, m.src, m.about)
              /\ m.about \in Boards
              /\ NewPair(t, m.src, m.about)
    BY <1>0, <2>1, OnTFacts, Zenon
  <2> HIDE DEF u
  <2>3. CASE u = t
    BY <2>2, <2>3, Zenon DEF u, me
  <2>4. CASE u # t
    <3>1. /\ OwnRows(t, me) => OwnRows(u, me)
          /\ Pairs(t, me) => Pairs(u, me)
      BY <1>0, <2>1, <2>2, <2>4, OneMoreFacts, Zenon
    <3> QED BY <2>2, <3>1, Zenon DEF u, me
  <2> QED BY <2>3, <2>4, Zenon
<1>5. CASE m.code = "U"
  <2>1. u = OnU(t, me, m)
    BY <1>5, Zenon DEF Handled
  <2>2. u \in Tables /\ SamePairs(t, u)
    BY <1>0, <2>1, OnUFacts, Zenon
  <2> HIDE DEF u
  <2>3. /\ OwnRows(t, me) => OwnRows(u, me)
        /\ Pairs(t, me) => Pairs(u, me)
    BY <1>0, <2>2, SamePairsFacts, Zenon
  <2> QED BY <2>2, <2>3, Zenon DEF u, me
<1> QED BY <1>0, <1>1, <1>2, <1>3, <1>4, <1>5, Zenon

-----------------------------------------------------------------------------
(* What is sent.                                                           *)

\* A message that may be delivered was there before or has just been sent.
LEMMA SentFacts ==
    ASSUME NEW ns, NEW ms, NEW k \in Sent(ns, ms)
    PROVE  k \in ns \/ k \in ms
BY Zenon DEF Sent

\* The replies go to other boards, and T and U to the sender about a third one.
LEMMA ReplyFacts ==
    ASSUME NEW u \in Tables, NEW me \in Boards, NEW from \in Boards, from # me,
           NEW name \in Name, OwnRows(u, me), NEW k \in Replies(u, me, from, name)
    PROVE  /\ k \in Message /\ GoodMessage(k) /\ k.src = me
           /\ k.code \in {"S", "T", "U"}
           /\ k.code # "S" => /\ k.dst = from
                              /\ \E i \in Own(u, me) : k.about = u.info[i].neigh
<1>0. \A i \in Own(u, me) : /\ i \in 1 .. STAT_COUNT
                            /\ u.info[i].neigh \in Boards \ {me}
                            /\ u.info[i].nname \in Name
  BY TableFields, Zenon DEF OwnRows, Own, Record
<1>1. CASE k \in {Msg(me, u.info[i].neigh, "S", UNASSIGNED, name) : i \in Own(u, me)}
  <2>1. PICK i \in Own(u, me) : k = Msg(me, u.info[i].neigh, "S", UNASSIGNED, name)
    BY <1>1, Zenon
  <2>2. k \in Message /\ k.src = me /\ k.dst = u.info[i].neigh /\ k.code = "S"
    BY <1>0, <2>1, Zenon DEF Msg, Message
  <2> QED BY <1>0, <2>2, Zenon DEF GoodMessage
<1>2. CASE k \in {Msg(me, from, c, u.info[i].neigh,
                      IF c = "T" THEN u.info[i].nname ELSE name) :
                    i \in ToldTo(u, me, from), c \in {"T", "U"}}
  <2>1. PICK i \in ToldTo(u, me, from), c \in {"T", "U"} :
          k = Msg(me, from, c, u.info[i].neigh, IF c = "T" THEN u.info[i].nname ELSE name)
    BY <1>2
  <2>2. i \in Own(u, me) /\ u.info[i].neigh # from
    BY Zenon DEF ToldTo
  <2>3. PICK x \in Name : k = Msg(me, from, c, u.info[i].neigh, x)
    BY <1>0, <2>1, <2>2, Zenon
  <2>4. k \in Message /\ k.src = me /\ k.dst = from /\ k.code = c
        /\ k.about = u.info[i].neigh
    BY <1>0, <2>2, <2>3, Zenon DEF Msg, Message
  <2> QED BY <1>0, <2>2, <2>4, Zenon DEF GoodMessage
<1> QED BY <1>1, <1>2 DEF Replies
-----------------------------------------------------------------------------
(* The beacon boards.                                                      *)

\* What receive_message does, in terms of the invariant.
LEMMA ReceiveFacts ==
    ASSUME Typed, BeaconInv, NEW m \in net, receive_message(m)
    PROVE  LET me == m.dst
               u == Handled(table[me], me, m)
           IN  /\ m \in Message /\ GoodMessage(m)
               /\ me \in Boards /\ m.src \in Boards /\ m.src # me
               /\ u \in Tables
               /\ table' \in [Boards -> Tables]
               /\ \A b \in Boards : table'[b] = IF b = me THEN u ELSE table[b]
               /\ my_name' \in [Boards -> Name]
               /\ OwnRows(u, me)
               /\ Pairs(table[me], me) => Pairs(u, me)
               /\ \A k \in net' :
                    \/ k \in net
                    \/ /\ k \in Message /\ GoodMessage(k) /\ k.src = me
                       /\ k.code \in {"S", "T", "U"}
                       /\ k.code # "S" => /\ k.dst = m.src
                                          /\ \E i \in Own(u, me) : k.about = u.info[i].neigh
<1> DEFINE me == m.dst
<1> DEFINE t == table[me]
<1> DEFINE u == Handled(t, me, m)
<1> DEFINE name == IF IsQ(m) THEN m.name ELSE my_name[me]
<1>1. /\ m \in Message /\ GoodMessage(m)
      /\ me \in Boards /\ m.src \in Boards /\ m.src # me
      /\ m.name \in Name
  BY MessageFields, Zenon DEF Typed, BeaconInv, Messages, GoodMessage
<1>2. t \in Tables /\ OwnRows(t, me)
  BY <1>1, Zenon DEF Typed, BeaconInv
<1>3. u \in Tables /\ OwnRows(u, me) /\ (Pairs(t, me) => Pairs(u, me))
  <2> HIDE DEF t
  <2> QED BY <1>1, <1>2, HandledFacts, Zenon
<1>4. name \in Name
  BY <1>1, Zenon DEF Typed
<1>5. /\ table' = [table EXCEPT ![me] = u]
      /\ my_name' = [my_name EXCEPT ![me] = name]
      /\ net' = Sent(net \ Passed(m), Replies(u, me, m.src, name))
  BY Zenon DEF receive_message
<1> HIDE DEF me, t, u, name
<1>6. /\ table' \in [Boards -> Tables]
      /\ \A b \in Boards : table'[b] = IF b = me THEN u ELSE table[b]
  BY <1>1, <1>3, <1>5, Zenon DEF Typed
<1>7. my_name' \in [Boards -> Name]
  BY <1>1, <1>4, <1>5, Zenon DEF Typed
<1>8. ASSUME NEW k \in net', k \notin net
      PROVE  /\ k \in Message /\ GoodMessage(k) /\ k.src = me
             /\ k.code \in {"S", "T", "U"}
             /\ k.code # "S" => /\ k.dst = m.src
                                /\ \E i \in Own(u, me) : k.about = u.info[i].neigh
  <2>1. k \in Replies(u, me, m.src, name)
    BY <1>5, <1>8, SentFacts, Zenon
  <2> QED BY <1>1, <1>3, <1>4, <2>1, ReplyFacts
<1> QED BY <1>1, <1>3, <1>6, <1>7, <1>8, Zenon DEF me, t, u

\* What configure_node and check_unconfigured send.
LEMMA SendFacts ==
    ASSUME Typed, BeaconInv
    PROVE  /\ \A b \in Beacons : configure_node(b) =>
                /\ table[Prov].count + 1 \in Nat
                /\ \A k \in net' : \/ k \in net
                                   \/ k \in Message /\ GoodMessage(k) /\ k.code = "Q"
           /\ \A b \in Beacons : \A i \in Rows(table[Prov]) : SendR(b, i) =>
                /\ i \in Own(table[Prov], Prov)
                /\ table[Prov].info[i].neigh \in Beacons \ {b}
                /\ \A k \in net' : \/ k \in net
                                   \/ k \in Message /\ GoodMessage(k) /\ k.code = "R"
<1>1. /\ table[Prov] \in Tables /\ OwnRows(table[Prov], Prov)
      /\ table[Prov].count + 1 \in Nat
  <2>1. table[Prov] \in Tables /\ OwnRows(table[Prov], Prov)
    BY BoardFacts, Zenon DEF Typed, BeaconInv
  <2>2. table[Prov].count \in Nat
    BY <2>1, TableFields, Zenon
  <2>3. table[Prov].count + 1 \in Nat
    BY <2>2
  <2> QED BY <2>1, <2>3, Zenon
<1>2. ASSUME NEW b \in Beacons, configure_node(b), NEW k \in net', k \notin net
      PROVE  k \in Message /\ GoodMessage(k) /\ k.code = "Q"
  <2>1. k = Msg(Prov, b, "Q", UNASSIGNED, table[Prov].count + 1)
    BY <1>2, SentFacts, Zenon DEF configure_node
  <2>2. k \in Message /\ k.src = Prov /\ k.dst = b /\ k.code = "Q"
    BY <1>1, <2>1, BoardFacts, Zenon DEF Msg, Message, Name
  <2> QED BY <2>2, BoardFacts, Zenon DEF GoodMessage
<1>3. ASSUME NEW b \in Beacons, NEW i \in Rows(table[Prov]), SendR(b, i)
      PROVE  /\ i \in Own(table[Prov], Prov)
             /\ table[Prov].info[i].neigh \in Beacons \ {b}
             /\ \A k \in net' : \/ k \in net
                                \/ k \in Message /\ GoodMessage(k) /\ k.code = "R"
  <2> DEFINE r == table[Prov].info[i]
  <2>1. /\ i \in Own(table[Prov], Prov) /\ r.neigh \notin {b, UNASSIGNED}
        /\ net' = Sent(net, {Msg(Prov, b, "R", r.neigh, r.nname)})
    BY <1>3, Zenon DEF SendR
  <2>2. r.neigh \in Beacons \ {b}
    BY <1>1, <2>1, TableFields, Zenon DEF OwnRows, Own, Boards
  <2>3. r.nname \in Name
    BY <1>1, TableFields, Zenon DEF Record
  <2> HIDE DEF r
  <2>4. ASSUME NEW k \in net', k \notin net
        PROVE  k \in Message /\ GoodMessage(k) /\ k.code = "R"
    <3>1. k = Msg(Prov, b, "R", r.neigh, r.nname)
      BY <2>1, <2>4, SentFacts, Zenon
    <3>2. /\ k \in Message /\ k.src = Prov /\ k.dst = b /\ k.code = "R"
          /\ k.about = r.neigh
      BY <2>2, <2>3, <3>1, BoardFacts, Zenon DEF Msg, Message
    <3> QED BY <2>2, <3>2, BoardFacts, Zenon DEF GoodMessage
  <2> QED BY <2>1, <2>2, <2>4, Zenon DEF r
<1> QED BY <1>1, <1>2, <1>3, Zenon

\* A table after a restart.
LEMMA EmptyFacts ==
    /\ EmptyTable \in Tables /\ EmptyTable.count = 0 /\ Rows(EmptyTable) = {}
    /\ \A b \in Boards : OwnRows(EmptyTable, b) /\ Pairs(EmptyTable, b)
<1>1. EmptyTable \in Tables /\ EmptyTable.count = 0
  BY Zenon DEF EmptyTable, Tables, EmptyRecord, Record, Name
<1>2. Rows(EmptyTable) = {}
  BY <1>1, TableFields
<1>3. \A b \in Boards : OwnRows(EmptyTable, b)
  BY BoardFacts, Zenon DEF OwnRows, EmptyTable, EmptyRecord
<1> QED BY <1>1, <1>2, <1>3, Zenon DEF Pairs

\* FillRecord writes the record that configure_node has taken the address of.
LEMMA FillFacts ==
    ASSUME Typed, FillRecord
    PROVE  LET t == table[Prov]
               u == table'[Prov]
           IN  /\ table' \in [Boards -> Tables]
               /\ \A b \in Beacons : table'[b] = table[b]
               /\ u.count = t.count
               /\ \A i \in 1 .. STAT_COUNT : i # main.at => u.info[i] = t.info[i]
               /\ main.at \in 1 .. STAT_COUNT =>
                    /\ u.info[main.at].addr = Prov
                    /\ u.info[main.at].neigh = main.node
                    /\ u.info[main.at].name = ProvName
                    /\ u.info[main.at].nname = main.name
<1> DEFINE t == table[Prov]
<1> DEFINE r == [addr |-> Prov, neigh |-> main.node, name |-> ProvName,
                 nname |-> main.name]
<1> DEFINE info == [t.info EXCEPT ![main.at] = r]
<1> DEFINE u == [t EXCEPT !.info = info]
<1>1. t \in Tables /\ r \in Record
  BY BoardFacts, Zenon DEF Typed, Record, Name
<1>2. table' = [table EXCEPT ![Prov] = u]
  BY Zenon DEF FillRecord
<1> HIDE DEF r
<1>3. /\ info \in [1 .. STAT_COUNT -> Record]
      /\ \A i \in 1 .. STAT_COUNT : info[i] = IF i = main.at THEN r ELSE t.info[i]
  BY <1>1, TableFields, Zenon
<1> HIDE DEF info, t
<1>4. u \in Tables /\ u.info = info /\ u.count = t.count
  BY <1>1, <1>3, Zenon DEF Tables
<1> HIDE DEF u
<1>5. /\ table' \in [Boards -> Tables]
      /\ table'[Prov] = u
      /\ \A b \in Beacons : table'[b] = table[b]
  BY <1>2, <1>4, BoardFacts, Zenon DEF Typed
<1>6. /\ r.addr = Prov /\ r.neigh = main.node
      /\ r.name = ProvName /\ r.nname = main.name
  BY Zenon DEF r
<1> QED BY <1>3, <1>4, <1>5, <1>6, Zenon DEF t

\* CountRecord counts it.
LEMMA CountFacts ==
    ASSUME Typed, CountRecord
    PROVE  /\ table' \in [Boards -> Tables]
           /\ \A b \in Beacons : table'[b] = table[b]
           /\ table'[Prov].count = table[Prov].count + 1
           /\ table'[Prov].info = table[Prov].info
<1> DEFINE t == table[Prov]
<1> DEFINE u == [t EXCEPT !.count = @ + 1]
<1>1. t \in Tables
  BY BoardFacts, Zenon DEF Typed
<1>2. table' = [table EXCEPT ![Prov] = u]
  BY Zenon DEF CountRecord
<1> HIDE DEF t
<1>3. u \in Tables /\ u.info = t.info /\ u.count = t.count + 1
  BY <1>1 DEF Tables
<1> HIDE DEF u
<1> QED BY <1>2, <1>3, BoardFacts, Zenon DEF Typed, t

\* What main does to its own variables.
LEMMA MainFacts ==
    ASSUME Typed, BeaconInv
    PROVE  /\ FillRecord => /\ main.step = "fill" /\ main'.step = "count"
                            /\ main'.todo = main.todo /\ main'.node = main.node
                            /\ main'.at = main.at /\ main'.name = main.name
           /\ CountRecord => /\ main.step = "count" /\ main'.step = "loop"
                             /\ main'.todo = main.todo /\ main'.node = Prov
                             /\ main'.at = 0 /\ main'.name = NoName
           /\ RestartProv => /\ main'.step = "loop" /\ main'.todo = main.todo
                             /\ main'.node = Prov
                             /\ main'.at = 0 /\ main'.name = NoName
           /\ \A b \in Beacons : configure_node(b) =>
                /\ main.step = "loop" /\ main'.step = "fill"
                /\ b \in main.todo /\ main'.todo = main.todo \ {b}
                /\ main'.node = b /\ main'.at = table[Prov].count + 1
                /\ main'.name = table[Prov].count + 1
           /\ [Next]_vars => main' \in [todo : SUBSET Beacons,
                                        step : {"loop", "fill", "count"},
                                        node : Boards, at : Nat, name : Name]
<1>1. /\ main.todo \subseteq Beacons
      /\ main \in [todo : SUBSET Beacons, step : {"loop", "fill", "count"},
                   node : Boards, at : Nat, name : Name]
      /\ table[Prov].count + 1 \in Nat
  <2>1. table[Prov] \in Tables
    BY BoardFacts, Zenon DEF Typed
  <2> QED BY <2>1, TableFields DEF Typed
<1>2. NoName \in Name /\ Nat \subseteq Name
  BY Zenon DEF Name
<1>3. FillRecord => /\ main.step = "fill" /\ main'.step = "count"
                    /\ main'.todo = main.todo /\ main'.node = main.node
                    /\ main'.at = main.at /\ main'.name = main.name
                    /\ main' \in [todo : SUBSET Beacons, step : {"loop", "fill", "count"},
                                  node : Boards, at : Nat, name : Name]
  BY <1>1, Zenon DEF FillRecord
<1>4. CountRecord => /\ main.step = "count" /\ main'.step = "loop"
                     /\ main'.todo = main.todo /\ main'.node = Prov
                     /\ main'.at = 0 /\ main'.name = NoName
                     /\ main' \in [todo : SUBSET Beacons, step : {"loop", "fill", "count"},
                                   node : Boards, at : Nat, name : Name]
  <2> SUFFICES ASSUME CountRecord
               PROVE  /\ main'.step = "loop" /\ main'.todo = main.todo
                      /\ main'.node = Prov /\ main'.at = 0 /\ main'.name = NoName
                      /\ main' \in [todo : SUBSET Beacons, step : {"loop", "fill", "count"},
                                    node : Boards, at : Nat, name : Name]
    BY Zenon DEF CountRecord
  <2>1. main' = [todo |-> main.todo, step |-> "loop", node |-> Prov, at |-> 0,
                 name |-> NoName]
    BY <1>1, Zenon DEF CountRecord
  <2> QED BY <1>1, <1>2, <2>1, BoardFacts, Zenon
<1>5. RestartProv => /\ main'.step = "loop" /\ main'.todo = main.todo
                     /\ main'.node = Prov
                     /\ main'.at = 0 /\ main'.name = NoName
                     /\ main' \in [todo : SUBSET Beacons, step : {"loop", "fill", "count"},
                                   node : Boards, at : Nat, name : Name]
  <2> SUFFICES ASSUME RestartProv
               PROVE  /\ main'.step = "loop" /\ main'.todo = main.todo
                      /\ main'.node = Prov /\ main'.at = 0 /\ main'.name = NoName
                      /\ main' \in [todo : SUBSET Beacons, step : {"loop", "fill", "count"},
                                    node : Boards, at : Nat, name : Name]
    BY Zenon DEF RestartProv
  <2>1. main' = [todo |-> main.todo, step |-> "loop", node |-> Prov, at |-> 0,
                 name |-> NoName]
    BY <1>1, Zenon DEF RestartProv
  <2> QED BY <1>1, <1>2, <2>1, BoardFacts, Zenon
<1>6. \A b \in Beacons : configure_node(b) =>
        /\ main.step = "loop" /\ main'.step = "fill"
        /\ b \in main.todo /\ main'.todo = main.todo \ {b}
        /\ main'.node = b /\ main'.at = table[Prov].count + 1
        /\ main'.name = table[Prov].count + 1
        /\ main' \in [todo : SUBSET Beacons, step : {"loop", "fill", "count"},
                      node : Boards, at : Nat, name : Name]
  BY <1>1, <1>2, BoardFacts DEF configure_node
<1>7. ASSUME [Next]_vars
      PROVE  main' \in [todo : SUBSET Beacons, step : {"loop", "fill", "count"},
                        node : Boards, at : Nat, name : Name]
  <2>1. CASE UNCHANGED main
    BY <1>1, <2>1, Zenon
  <2>2. CASE Main
    BY <1>3, <1>4, <1>6, <2>1, <2>2, Zenon DEF Main, SendR
  <2>3. CASE \E m \in net : receive_message(m)
    BY <2>1, <2>3, Zenon DEF receive_message
  <2>4. CASE \E b \in Beacons : RestartBeacon(b)
    BY <2>1, <2>4, Zenon DEF RestartBeacon
  <2> QED BY <1>5, <1>7, <2>1, <2>2, <2>3, <2>4, Zenon DEF Next, vars
<1> QED BY <1>3, <1>4, <1>5, <1>6, <1>7, Zenon

\* Every step keeps the types and the tables of the beacon boards.
LEMMA BeaconStep ==
    ASSUME Typed, BeaconInv, [Next]_vars
    PROVE  Typed' /\ BeaconInv'
<1>0. /\ main' \in [todo : SUBSET Beacons, step : {"loop", "fill", "count"},
                    node : Boards, at : Nat, name : Name]
      /\ restarts' \subseteq RESTARTS
  BY MainFacts, Zenon DEF Typed, Next, vars, Main, configure_node, FillRecord, CountRecord, SendR,
                   receive_message, RestartBeacon, RestartProv
<1>1. ASSUME NEW m \in net, receive_message(m) PROVE Typed' /\ BeaconInv'
  <2>1. Messages' /\ net' \subseteq Message
    BY <1>1, ReceiveFacts, Zenon DEF Typed, BeaconInv, Messages
  <2>2. \A b \in Boards : OwnRows(table'[b], b)
    BY <1>1, ReceiveFacts, Zenon DEF BeaconInv
  <2>3. \A b \in Beacons : Pairs(table'[b], b)
    BY <1>1, ReceiveFacts, BoardFacts, Zenon DEF BeaconInv
  <2>4. table' \in [Boards -> Tables] /\ my_name' \in [Boards -> Name]
    BY <1>1, ReceiveFacts, Zenon
  <2>5. UNCHANGED main
    BY <1>1, Zenon DEF receive_message
  <2> QED BY <1>0, <2>1, <2>2, <2>3, <2>4, <2>5, Zenon DEF Typed, BeaconInv, OwnRows, Pairs, Rows
<1>2. ASSUME NEW b \in Beacons, configure_node(b) PROVE Typed' /\ BeaconInv'
  <2>1. Messages' /\ net' \subseteq Message
    BY <1>2, SendFacts, Zenon DEF Typed, BeaconInv, Messages
  <2>2. UNCHANGED <<table, my_name>> /\ main'.node = b
    BY <1>2, MainFacts, Zenon DEF configure_node
  <2>3. /\ \A c \in Boards : OwnRows(table'[c], c)
        /\ \A c \in Beacons : Pairs(table'[c], c)
    BY <2>2, Zenon DEF BeaconInv
  <2>4. table' \in [Boards -> Tables] /\ my_name' \in [Boards -> Name]
    BY <2>2, Zenon DEF Typed
  <2> QED BY <1>0, <1>2, <2>1, <2>2, <2>3, <2>4, Zenon
          DEF Typed, BeaconInv, OwnRows, Pairs, Rows
<1>3. CASE FillRecord
  <2>1. UNCHANGED <<my_name, net>> /\ main.step = "fill" /\ main'.node = main.node
    BY <1>3, MainFacts, Zenon DEF FillRecord
  <2>2. OwnRows(table'[Prov], Prov)
    <3>1. OwnRows(table[Prov], Prov) /\ main.node \in Boards \ {Prov}
      BY <2>1, BoardFacts, Zenon DEF BeaconInv
    <3>2. ASSUME NEW i \in 1 .. STAT_COUNT, table'[Prov].info[i].addr = Prov
          PROVE  table'[Prov].info[i].neigh \in Boards \ {Prov}
      <4>1. CASE i = main.at
        BY <1>3, <3>1, <4>1, FillFacts, Zenon
      <4>2. CASE i # main.at
        <5>1. table'[Prov].info[i] = table[Prov].info[i]
          BY <1>3, <4>2, FillFacts, Zenon
        <5> QED BY <3>1, <3>2, <5>1, Zenon DEF OwnRows
      <4> QED BY <4>1, <4>2, Zenon
    <3> QED BY <3>2, Zenon DEF OwnRows
  <2>3. table' \in [Boards -> Tables] /\ \A b \in Beacons : table'[b] = table[b]
    BY <1>3, FillFacts, Zenon
  <2>4. /\ \A c \in Boards : OwnRows(table'[c], c)
        /\ \A c \in Beacons : Pairs(table'[c], c)
    BY <2>2, <2>3, Zenon DEF BeaconInv, Boards
  <2>5. Messages' /\ net' \subseteq Message /\ my_name' \in [Boards -> Name]
    BY <2>1, Zenon DEF Typed, BeaconInv, Messages
  <2>6. main'.step # "loop" => main'.node \in Beacons
    BY <2>1, Zenon DEF BeaconInv
  <2> QED BY <1>0, <2>3, <2>4, <2>5, <2>6, Zenon DEF Typed, BeaconInv, OwnRows, Pairs, Rows
<1>4. CASE CountRecord
  <2>1. UNCHANGED <<my_name, net>> /\ main'.step = "loop"
    BY <1>4, MainFacts, Zenon DEF CountRecord
  <2>2. OwnRows(table'[Prov], Prov)
    BY <1>4, CountFacts, BoardFacts, Zenon DEF BeaconInv, OwnRows
  <2>3. table' \in [Boards -> Tables] /\ \A b \in Beacons : table'[b] = table[b]
    BY <1>4, CountFacts, Zenon
  <2>4. /\ \A c \in Boards : OwnRows(table'[c], c)
        /\ \A c \in Beacons : Pairs(table'[c], c)
    BY <2>2, <2>3, Zenon DEF BeaconInv, Boards
  <2>5. Messages' /\ net' \subseteq Message /\ my_name' \in [Boards -> Name]
    BY <2>1, Zenon DEF Typed, BeaconInv, Messages
  <2>6. main'.step # "loop" => main'.node \in Beacons
    BY <2>1, Zenon DEF BeaconInv
  <2> QED BY <1>0, <2>3, <2>4, <2>5, <2>6, Zenon DEF Typed, BeaconInv, OwnRows, Pairs, Rows
<1>5. ASSUME NEW b \in Beacons, NEW i \in Rows(table[Prov]), SendR(b, i)
      PROVE  Typed' /\ BeaconInv'
  <2>1. Messages' /\ net' \subseteq Message
    BY <1>5, SendFacts, Zenon DEF Typed, BeaconInv, Messages
  <2>2. UNCHANGED <<table, my_name, main>>
    BY <1>5, Zenon DEF SendR
  <2>3. /\ \A c \in Boards : OwnRows(table'[c], c)
        /\ \A c \in Beacons : Pairs(table'[c], c)
    BY <2>2, Zenon DEF BeaconInv
  <2>4. table' \in [Boards -> Tables] /\ my_name' \in [Boards -> Name]
    BY <2>2, Zenon DEF Typed
  <2> QED BY <1>0, <2>1, <2>2, <2>3, <2>4, Zenon DEF Typed, BeaconInv, OwnRows, Pairs, Rows
<1>6. ASSUME NEW b \in Beacons, RestartBeacon(b) PROVE Typed' /\ BeaconInv'
  <2>1. /\ table' \in [Boards -> Tables] /\ my_name' \in [Boards -> Name]
        /\ \A c \in Boards : table'[c] = IF c = b THEN EmptyTable ELSE table[c]
        /\ net' \subseteq net /\ UNCHANGED main
    BY <1>6, EmptyFacts, BoardFacts, Zenon DEF RestartBeacon, Typed, Name
  <2>2. /\ \A c \in Boards : OwnRows(table'[c], c)
        /\ \A c \in Beacons : Pairs(table'[c], c)
    BY <2>1, EmptyFacts, BoardFacts, Zenon DEF BeaconInv
  <2> QED BY <1>0, <2>1, <2>2, Zenon DEF Typed, BeaconInv, Messages, OwnRows, Pairs, Rows
<1>7. CASE RestartProv
  <2>1. /\ table' \in [Boards -> Tables]
        /\ \A c \in Boards : table'[c] = IF c = Prov THEN EmptyTable ELSE table[c]
        /\ net' \subseteq net /\ UNCHANGED my_name /\ main'.step = "loop"
    BY <1>7, EmptyFacts, BoardFacts, MainFacts, Zenon DEF RestartProv, Typed
  <2>2. /\ \A c \in Boards : OwnRows(table'[c], c)
        /\ \A c \in Beacons : Pairs(table'[c], c)
    BY <2>1, EmptyFacts, BoardFacts, Zenon DEF BeaconInv
  <2> QED BY <1>0, <2>1, <2>2, Zenon DEF Typed, BeaconInv, Messages, OwnRows, Pairs, Rows
<1>8. CASE UNCHANGED vars
  <2>1. UNCHANGED <<table, my_name, net, main>>
    BY <1>8, Zenon DEF vars
  <2>2. Typed' /\ Messages'
    BY <1>0, <2>1, Zenon DEF Typed, BeaconInv, Messages
  <2>3. \A b \in Boards : OwnRows(table[b], b)'
    BY <2>1, Zenon DEF BeaconInv, OwnRows
  <2>4. \A b \in Beacons : Pairs(table[b], b)'
    <3>1. \A b \in Beacons : Pairs(table'[b], b)
      BY <2>1, Zenon DEF BeaconInv
    <3> QED BY <3>1, Zenon DEF Pairs, Rows
  <2>5. main'.step # "loop" => main'.node \in Beacons
    BY <2>1, Zenon DEF BeaconInv
  <2> QED BY <2>2, <2>3, <2>4, <2>5, Zenon DEF BeaconInv
<1> QED BY <1>1, <1>2, <1>3, <1>4, <1>5, <1>6, <1>7, <1>8, Zenon DEF Next, Main

\* All tables are empty at the start.
LEMMA BeaconInit == Init => Typed /\ BeaconInv
<1> SUFFICES ASSUME Init PROVE Typed /\ BeaconInv
  BY Zenon
<1>1. Typed
  BY EmptyFacts, BoardFacts, Zenon DEF Init, Typed, Name
<1>2. \A b \in Boards : table[b] = EmptyTable
  BY Zenon DEF Init
<1>3. net = {} /\ main.step = "loop"
  BY Zenon DEF Init
<1> QED BY <1>1, <1>2, <1>3, EmptyFacts, BoardFacts, Zenon DEF BeaconInv, Messages

\* The invariant of the beacon boards holds for any number of them.
LEMMA BeaconHolds == Spec => [](Typed /\ BeaconInv)
<1>1. Typed /\ BeaconInv /\ [Next]_vars => (Typed /\ BeaconInv)'
  BY BeaconStep, Zenon
<1> QED BY <1>1, BeaconInit, PTL DEF Spec

-----------------------------------------------------------------------------
(* The provisioner, with two beacon boards.                                *)

\* What receive_message does to the provisioner's table before all boards are
\* configured: it keeps the pairs.
LEMMA QuietFacts ==
    ASSUME Typed, BeaconInv, Quiet, NEW m \in net, m.dst = Prov, GoodMessage(m), ~Done
    PROVE  SamePairs(table[Prov], Handled(table[Prov], Prov, m))
<1>1. m \in Message /\ table[Prov] \in Tables /\ Prov \in Boards
  BY BoardFacts, Zenon DEF Typed
<1>2. m.code \in {"S", "U"}
  BY <1>1, MessageFields, Zenon DEF Quiet, GoodMessage
<1>3. CASE m.code = "S"
  BY <1>1, <1>3, OnSFacts, Zenon DEF Handled
<1>4. CASE m.code = "U"
  BY <1>1, <1>4, OnUFacts, Zenon DEF Handled
<1> QED BY <1>2, <1>3, <1>4, Zenon

\* A message about two beacon boards exists only when both are configured.
LEMMA QuietStep ==
    ASSUME TwoBeacons, Typed, BeaconInv, ProvInv, [Next]_vars
    PROVE  Quiet'
<1>0. main.todo \subseteq Beacons /\ (Done => \A b \in Beacons : ~configure_node(b))
      /\ (Done => ~FillRecord /\ ~CountRecord)
  BY Zenon DEF Typed, Done, configure_node, FillRecord, CountRecord
<1>1. ASSUME NEW m \in net, receive_message(m) PROVE Quiet'
  <2> DEFINE me == m.dst
  <2> DEFINE u == Handled(table[me], me, m)
  <2>1. /\ m \in Message /\ GoodMessage(m)
        /\ me \in Boards /\ m.src \in Boards /\ m.src # me
        /\ table[me] \in Tables /\ u \in Tables
        /\ \A b \in Boards : table'[b] = IF b = me THEN u ELSE table[b]
        /\ UNCHANGED main
    BY <1>1, ReceiveFacts, Zenon DEF Typed, receive_message
  <2>2. me \in Beacons => \A i \in Own(u, me) : u.info[i].neigh \in Beacons => Done
    <3> SUFFICES ASSUME me \in Beacons, NEW i \in Own(u, me), u.info[i].neigh \in Beacons
                 PROVE  Done
      BY Zenon
    <3>1. CASE m.code = "Q"
      <4> DEFINE e == [table[me] EXCEPT !.count = 0]
      <4>1. /\ e \in Tables /\ Rows(e) = {} /\ e.count = 0
            /\ OneMore(e, u, me, m.src)
        BY <2>1, <3>1, OnQFacts, Zenon DEF Handled
      <4> HIDE DEF e, u, me
      <4>2. i = 1 /\ m.src = Prov /\ 1 <= STAT_COUNT
        BY <2>1, <3>1, <4>1, OneMoreFacts, BoardFacts DEF Own, GoodMessage
      <4>3. u.info[i].neigh = Prov
        BY <4>1, <4>2 DEF OneMore
      <4> QED BY <4>3, BoardFacts, Zenon
    <3>2. CASE m.code = "R"
      BY <3>2, Zenon DEF ProvInv, Quiet
    <3>3. CASE m.code = "S"
      <4>1. SamePairs(table[me], u)
        BY <2>1, <3>3, OnSFacts, Zenon DEF Handled
      <4> HIDE DEF u, me
      <4>2. i \in Own(table[me], me) /\ i \in 1 .. STAT_COUNT
        BY <2>1, <4>1, SamePairsFacts, TableFields DEF Own
      <4>3. table[me].info[i].neigh \in Beacons
        BY <4>1, <4>2, Zenon DEF SamePairs
      <4> QED BY <4>2, <4>3, Zenon DEF ProvInv, Quiet
    <3>4. CASE m.code = "U"
      <4>1. SamePairs(table[me], u)
        BY <2>1, <3>4, OnUFacts, Zenon DEF Handled
      <4> HIDE DEF u, me
      <4>2. i \in Own(table[me], me) /\ i \in 1 .. STAT_COUNT
        BY <2>1, <4>1, SamePairsFacts, TableFields DEF Own
      <4>3. table[me].info[i].neigh \in Beacons
        BY <4>1, <4>2, Zenon DEF SamePairs
      <4> QED BY <4>2, <4>3, Zenon DEF ProvInv, Quiet
    <3>5. CASE m.code = "T"
      <4>1. \/ u = table[me]
            \/ OneMore(table[me], u, m.src, m.about) /\ m.about \in Boards
        BY <2>1, <3>5, OnTFacts, Zenon DEF Handled, GoodMessage
      <4> HIDE DEF u, me
      <4>2. CASE u = table[me]
        BY <4>2, Zenon DEF ProvInv, Quiet
      <4>3. CASE u # table[me]
        <5>1. i \in Own(table[me], me)
          BY <2>1, <4>1, <4>3, OneMoreFacts
        <5>2. i \in 1 .. STAT_COUNT /\ i # table[me].count + 1
          BY <2>1, <5>1, TableFields DEF Own
        <5> QED BY <4>1, <4>3, <5>1, <5>2, Zenon DEF OneMore, ProvInv, Quiet
      <4> QED BY <4>2, <4>3, Zenon
    <3> QED BY <2>1, <3>1, <3>2, <3>3, <3>4, <3>5, MessageFields, Zenon
  <2>3. ASSUME NEW k \in net', k.code = "R" \/ (k.code = "T" /\ k.dst = Prov) PROVE Done
    <3>1. CASE k \in net
      BY <2>3, <3>1, Zenon DEF ProvInv, Quiet
    <3>2. CASE k \notin net
      <4>1. /\ k.code = "T" /\ k.dst = Prov /\ GoodMessage(k) /\ k.src = me
            /\ k.dst = m.src
            /\ \E i \in Own(u, me) : k.about = u.info[i].neigh
        BY <1>1, <2>3, <3>2, ReceiveFacts, Zenon
      <4>2. k.about \in Beacons /\ me \in Beacons
        BY <2>1, <4>1, Zenon DEF GoodMessage, Boards
      <4> QED BY <2>2, <4>1, <4>2, Zenon
    <3> QED BY <3>1, <3>2, Zenon
  <2>4. \A b \in Beacons : \A i \in Own(table'[b], b) :
          table'[b].info[i].neigh \in Beacons => Done
    BY <2>1, <2>2, BoardFacts, Zenon DEF ProvInv, Quiet
  <2> HIDE DEF u, me
  <2> QED BY <2>1, <2>3, <2>4, Zenon DEF Quiet, Done, Own, Rows
<1>2. ASSUME NEW b \in Beacons, configure_node(b) PROVE Quiet'
  <2>1. ~Done /\ UNCHANGED table
    BY <1>0, <1>2, Zenon DEF configure_node
  <2>2. ASSUME NEW k \in net' PROVE ~(k.code = "R" \/ (k.code = "T" /\ k.dst = Prov))
    BY <1>2, <2>1, SendFacts, Zenon DEF ProvInv, Quiet
  <2> QED BY <2>1, <2>2, Zenon DEF ProvInv, Quiet, Own, Rows
<1>3. CASE FillRecord
  <2>1. ~Done /\ UNCHANGED net /\ \A b \in Beacons : table'[b] = table[b]
    BY <1>0, <1>3, FillFacts, Zenon DEF FillRecord
  <2> QED BY <2>1, Zenon DEF ProvInv, Quiet, Own, Rows
<1>4. CASE CountRecord
  <2>1. ~Done /\ UNCHANGED net /\ \A b \in Beacons : table'[b] = table[b]
    BY <1>0, <1>4, CountFacts, Zenon DEF CountRecord
  <2> QED BY <2>1, Zenon DEF ProvInv, Quiet, Own, Rows
<1>5. ASSUME NEW b \in Beacons, NEW i \in Rows(table[Prov]), SendR(b, i) PROVE Quiet'
  <2> DEFINE n == table[Prov].info[i].neigh
  <2>1. /\ i \in Own(table[Prov], Prov) /\ n \in Beacons \ {b}
        /\ b \notin main.todo /\ main.step = "loop" /\ UNCHANGED <<table, main>>
    BY <1>5, SendFacts, Zenon DEF SendR, Configured
  <2>2. n \notin main.todo
    BY <2>1, Zenon DEF ProvInv
  <2> HIDE DEF n
  <2>3. Done
    BY <1>0, <2>1, <2>2 DEF Done, TwoBeacons
  <2> QED BY <2>1, <2>3, Zenon DEF Quiet, Done, Own, Rows
<1>6. ASSUME NEW b \in Beacons, RestartBeacon(b) PROVE Quiet'
  <2>1. /\ \A c \in Boards : table'[c] = IF c = b THEN EmptyTable ELSE table[c]
        /\ net' \subseteq net /\ UNCHANGED main
    BY <1>6, BoardFacts, Zenon DEF RestartBeacon, Typed
  <2>2. ASSUME NEW c \in Beacons, NEW i \in Own(table'[c], c),
               table'[c].info[i].neigh \in Beacons
        PROVE  Done
    <3>1. c # b
      BY <2>1, EmptyFacts, BoardFacts, Zenon DEF Own
    <3> QED BY <2>1, <2>2, <3>1, BoardFacts, Zenon DEF ProvInv, Quiet
  <2> QED BY <2>1, <2>2, Zenon DEF ProvInv, Quiet, Done, Own, Rows
<1>7. CASE RestartProv
  <2>1. /\ \A c \in Beacons : table'[c] = table[c]
        /\ net' \subseteq net /\ main'.todo = main.todo /\ main'.step = "loop"
    BY <1>7, BoardFacts, MainFacts, Zenon DEF RestartProv, Typed
  <2>2. Done => Done'
    BY <2>1, Zenon DEF Done
  <2> QED BY <2>1, <2>2, Zenon DEF ProvInv, Quiet, Own, Rows
<1>8. CASE UNCHANGED vars
  BY <1>8, Zenon DEF vars, ProvInv, Quiet, Done, Own, Rows
<1> QED BY <1>1, <1>2, <1>3, <1>4, <1>5, <1>6, <1>7, <1>8, Zenon DEF Next, Main

\* A step that does not touch the provisioner's table or its main thread.
LEMMA ProvUntouched ==
    ASSUME Filling, Pairs(table[Prov], Prov),
           \A i \in Own(table[Prov], Prov) :
             table[Prov].info[i].neigh \notin main.todo \cup {main.node},
           table'[Prov] = table[Prov], UNCHANGED main
    PROVE  /\ Filling' /\ Pairs(table'[Prov], Prov)
           /\ \A i \in Own(table'[Prov], Prov) :
                table'[Prov].info[i].neigh \notin main'.todo \cup {main'.node}
BY Zenon DEF Filling

\* The record that main fills stays behind the last until it is counted, and then
\* is of a board that has no own record yet.
LEMMA FillingStep ==
    ASSUME TwoBeacons, Typed, BeaconInv, ProvInv, [Next]_vars
    PROVE  /\ Filling' /\ Pairs(table'[Prov], Prov)
           /\ \A i \in Own(table'[Prov], Prov) :
                table'[Prov].info[i].neigh \notin main'.todo \cup {main'.node}
<1> DEFINE t == table[Prov]
<1> DEFINE Goal == /\ Filling' /\ Pairs(table'[Prov], Prov)
                   /\ \A i \in Own(table'[Prov], Prov) :
                        table'[Prov].info[i].neigh \notin main'.todo \cup {main'.node}
<1>0. /\ t \in Tables /\ Prov \in Boards /\ main.todo \subseteq Beacons
      /\ main.step \in {"loop", "fill", "count"} /\ main.at \in Nat
      /\ Pairs(t, Prov) /\ OwnRows(t, Prov) /\ Filling
      /\ \A i \in Own(t, Prov) : t.info[i].neigh \notin main.todo \cup {main.node}
      /\ \A i \in Own(t, Prov) : i \in 1 .. STAT_COUNT /\ t.info[i].addr = Prov
  BY BoardFacts, TableFields DEF Typed, BeaconInv, ProvInv, Own
<1>1. ASSUME NEW m \in net, receive_message(m) PROVE Goal
  <2> DEFINE u == Handled(t, Prov, m)
  <2>1. UNCHANGED main
    BY <1>1, Zenon DEF receive_message
  <2>2. CASE m.dst # Prov
    <3>1. table'[Prov] = table[Prov]
      BY <1>0, <1>1, <2>2, ReceiveFacts, Zenon
    <3> QED BY <1>0, <2>1, <3>1, ProvUntouched, Zenon
  <2>3. CASE m.dst = Prov
    <3>1. /\ GoodMessage(m) /\ table'[Prov] = u /\ u \in Tables
          /\ OwnRows(u, Prov) /\ Pairs(u, Prov)
      BY <1>0, <1>1, <2>3, ReceiveFacts, Zenon
    <3>2. CASE Done
      <4>1. main'.todo = {} /\ main'.node = Prov /\ main'.step = "loop"
        BY <1>0, <2>1, <3>2, Zenon DEF Done, Filling
      <4>2. \A i \in Own(u, Prov) : u.info[i].neigh # Prov
        BY <3>1, TableFields, Zenon DEF OwnRows, Own
      <4> QED BY <3>1, <4>1, <4>2, Zenon DEF Filling
    <3>3. CASE ~Done
      <4>1. SamePairs(t, u)
        BY <1>0, <2>3, <3>1, <3>3, QuietFacts, Zenon DEF ProvInv
      <4> HIDE DEF t, u
      <4>2. Own(u, Prov) = Own(t, Prov) /\ u.count = t.count /\ t.count \in Nat
        BY <1>0, <3>1, <4>1, SamePairsFacts, TableFields DEF SamePairs
      <4>3. \A i \in Own(u, Prov) : u.info[i].neigh \notin main'.todo \cup {main'.node}
        BY <1>0, <2>1, <4>1, <4>2, Zenon DEF SamePairs
      <4>4. Filling'
        BY <1>0, <2>1, <3>1, <4>1, <4>2 DEF Filling, SamePairs, t
      <4> QED BY <3>1, <4>3, <4>4, Zenon
    <3> QED BY <3>2, <3>3, Zenon
  <2> QED BY <2>2, <2>3, Zenon
<1>2. ASSUME NEW b \in Beacons, configure_node(b) PROVE Goal
  <2>1. /\ UNCHANGED table /\ main.step = "loop" /\ main'.step = "fill"
        /\ b \in main.todo /\ main'.todo = main.todo \ {b}
        /\ main'.node = b /\ main'.at = t.count + 1
    BY <1>2, MainFacts, Zenon DEF configure_node
  <2> QED BY <1>0, <2>1, Zenon DEF Filling
<1>3. CASE FillRecord
  <2> DEFINE u == table'[Prov]
  <2>1. /\ main.step = "fill" /\ main'.step = "count" /\ main'.todo = main.todo
        /\ main'.node = main.node /\ main'.at = main.at
    BY <1>3, MainFacts, Zenon
  <2>2. /\ u \in Tables /\ u.count = t.count
        /\ \A i \in 1 .. STAT_COUNT : i # main.at => u.info[i] = t.info[i]
        /\ main.at \in 1 .. STAT_COUNT => /\ u.info[main.at].addr = Prov
                                          /\ u.info[main.at].neigh = main.node
    BY <1>0, <1>3, FillFacts, Zenon
  <2>3. main.at = t.count + 1 /\ t.count \in Nat /\ main.node \in Beacons \ main.todo
    BY <1>0, <2>1, TableFields, Zenon DEF Filling
  <2> HIDE DEF t, u
  <2>4. /\ Rows(u) = Rows(t) /\ \A i \in Rows(t) : u.info[i] = t.info[i]
    <3>1. /\ Rows(t) = {i \in 1 .. STAT_COUNT : i <= t.count}
          /\ Rows(u) = {i \in 1 .. STAT_COUNT : i <= u.count}
      BY <1>0, <2>2, TableFields, Zenon
    <3>2. Rows(u) = Rows(t)
      BY <2>2, <3>1, Zenon
    <3>3. \A i \in Rows(t) : i \in 1 .. STAT_COUNT /\ i # main.at
      BY <2>3, <3>1
    <3> QED BY <2>2, <3>2, <3>3, Zenon
  <2>5. Pairs(u, Prov) /\ Own(u, Prov) = Own(t, Prov)
    BY <1>0, <2>4 DEF Pairs, Own
  <2>6. \A i \in Own(u, Prov) : u.info[i].neigh \notin main'.todo \cup {main'.node}
    BY <1>0, <2>1, <2>4, <2>5, Zenon DEF Own
  <2>7. Filling'
    BY <2>1, <2>2, <2>3 DEF Filling, u
  <2> QED BY <2>5, <2>6, <2>7, Zenon DEF u
<1>4. CASE CountRecord
  <2> DEFINE u == table'[Prov]
  <2>1. /\ main.step = "count" /\ main'.step = "loop" /\ main'.todo = main.todo
        /\ main'.node = Prov
    BY <1>4, MainFacts, Zenon
  <2>2. u \in Tables /\ u.count = t.count + 1 /\ u.info = t.info
    BY <1>0, <1>4, CountFacts, Zenon
  <2>3. main.at = t.count + 1 /\ main.node \in Beacons \ main.todo
        /\ (main.at <= STAT_COUNT => /\ t.info[main.at].addr = Prov
                                     /\ t.info[main.at].neigh = main.node)
    BY <1>0, <2>1, Zenon DEF Filling
  <2> HIDE DEF t, u
  <2>4. OneMore(t, u, Prov, main.node)
    BY <2>2, <2>3, Zenon DEF OneMore
  <2>5. NewPair(t, Prov, main.node)
    BY <1>0, Zenon DEF NewPair, Pairs, Own
  <2>6. main.node \in Boards /\ main.node # Prov
    BY <2>3, BoardFacts, Zenon
  <2>7. /\ Pairs(u, Prov)
        /\ Own(u, Prov) \subseteq Own(t, Prov) \cup {t.count + 1}
        /\ Rows(u) \subseteq 1 .. STAT_COUNT
    BY <1>0, <2>2, <2>4, <2>5, <2>6, OneMoreFacts, TableFields
  <2>8. \A i \in Own(u, Prov) : u.info[i].neigh \notin main'.todo \cup {main'.node}
    <3> SUFFICES ASSUME NEW i \in Own(u, Prov)
                 PROVE  u.info[i].neigh \notin main.todo \cup {Prov}
      BY <2>1, Zenon
    <3>1. CASE i \in Own(t, Prov)
      BY <1>0, <2>2, <3>1, Zenon DEF OwnRows
    <3>2. CASE i = t.count + 1
      BY <2>2, <2>3, <2>6, <2>7, <3>2 DEF Own
    <3> QED BY <2>7, <3>1, <3>2, Zenon
  <2>9. Filling'
    BY <2>1, Zenon DEF Filling
  <2> QED BY <2>7, <2>8, <2>9, Zenon DEF u
<1>5. CASE \E b \in Beacons, i \in Rows(table[Prov]) : SendR(b, i)
  BY <1>0, <1>5, ProvUntouched, Zenon DEF SendR
<1>6. ASSUME NEW b \in Beacons, RestartBeacon(b) PROVE Goal
  BY <1>0, <1>6, ProvUntouched, BoardFacts, Zenon DEF RestartBeacon, Typed
<1>7. CASE RestartProv
  <2>1. table'[Prov] = EmptyTable /\ main'.step = "loop" /\ main'.node = Prov
    BY <1>0, <1>7, MainFacts, Zenon DEF RestartProv, Typed
  <2>2. Filling'
    BY <2>1, Zenon DEF Filling
  <2> QED BY <1>0, <2>1, <2>2, EmptyFacts, Zenon DEF Own
<1>8. CASE UNCHANGED vars
  BY <1>0, <1>8, ProvUntouched, Zenon DEF vars
<1> QED BY <1>1, <1>2, <1>3, <1>4, <1>5, <1>6, <1>7, <1>8, Zenon DEF Next, Main

\* The invariant of the provisioner, for two beacon boards.
LEMMA ProvHolds ==
    ASSUME TwoBeacons
    PROVE  Spec => [](Typed /\ BeaconInv /\ ProvInv)
<1>1. Init => Typed /\ BeaconInv /\ ProvInv
  <2> SUFFICES ASSUME Init PROVE ProvInv
    BY BeaconInit, Zenon
  <2>1. /\ \A b \in Boards : table[b] = EmptyTable
        /\ net = {} /\ main.step = "loop" /\ main.node = Prov
    BY Zenon DEF Init
  <2> QED BY <2>1, EmptyFacts, BoardFacts, Zenon DEF ProvInv, Quiet, Filling, Own
<1>2. Typed /\ BeaconInv /\ ProvInv /\ [Next]_vars => (Typed /\ BeaconInv /\ ProvInv)'
  <2> SUFFICES ASSUME Typed, BeaconInv, ProvInv, [Next]_vars
               PROVE  Typed' /\ BeaconInv' /\ ProvInv'
    BY Zenon
  <2>1. Typed' /\ BeaconInv'
    BY BeaconStep, Zenon
  <2>2. Quiet'
    BY QuietStep, Zenon
  <2>3. /\ Filling' /\ Pairs(table'[Prov], Prov)
        /\ \A i \in Own(table'[Prov], Prov) :
             table'[Prov].info[i].neigh \notin main'.todo \cup {main'.node}
    BY FillingStep, Zenon
  <2> QED BY <2>1, <2>2, <2>3, Zenon DEF ProvInv, Pairs, Own, Rows
<1> QED BY <1>1, <1>2, PTL DEF Spec

-----------------------------------------------------------------------------
(* The configured boards.                                                  *)

\* Nothing takes an own record away from the provisioner but its restart.
LEMMA ListedStep ==
    ASSUME TwoBeacons, Typed, BeaconInv, ProvInv, Listed, Bounded', [Next]_vars
    PROVE  Listed'
<1> DEFINE t == table[Prov]
<1> DEFINE u == table'[Prov]
<1>0. /\ t \in Tables /\ Prov \in Boards /\ restarts' \subseteq restarts
      /\ \A i \in Own(t, Prov) : i \in Rows(t) /\ i \in 1 .. STAT_COUNT
      /\ u.count <= STAT_COUNT
      /\ main.todo \subseteq Beacons /\ Prov \notin Beacons
  <2>1. t \in Tables /\ Prov \in Boards /\ Prov \notin Beacons /\ u.count <= STAT_COUNT
    BY BoardFacts, Zenon DEF Typed, Bounded
  <2>2. \A i \in Own(t, Prov) : i \in Rows(t) /\ i \in 1 .. STAT_COUNT
    BY <2>1, TableFields, Zenon DEF Own
  <2>3. restarts' \subseteq restarts
    BY Zenon DEF Next, vars, Main, configure_node, FillRecord, CountRecord,
           SendR, receive_message, RestartBeacon, RestartProv
  <2> QED BY <2>1, <2>2, <2>3, Zenon DEF Typed
<1>1. ASSUME Own(t, Prov) \subseteq Own(u, Prov), Configured' \subseteq Configured,
             \A i \in Own(t, Prov) : u.info[i].neigh = t.info[i].neigh
      PROVE  Listed'
  BY <1>0, <1>1, Zenon DEF Listed, Own, Rows
<1>2. ASSUME NEW m \in net, receive_message(m) PROVE Listed'
  <2>1. Configured' = Configured
    BY <1>2, Zenon DEF receive_message, Configured
  <2>2. CASE m.dst # Prov
    <3>1. u = t
      BY <1>0, <1>2, <2>2, ReceiveFacts, Zenon
    <3> QED BY <1>1, <2>1, <3>1, Zenon
  <2>3. CASE m.dst = Prov
    <3>1. /\ m \in Message /\ GoodMessage(m) /\ u = Handled(t, Prov, m) /\ u \in Tables
          /\ m.src \in Boards /\ m.src # Prov /\ m.code \in {"S", "T", "U"}
      BY <1>0, <1>2, <2>3, ReceiveFacts, MessageFields, Zenon DEF GoodMessage
    <3>2. CASE m.code = "T"
      <4>1. m.about # Prov
        BY <2>3, <3>1, <3>2, Zenon DEF GoodMessage
      <4>2. \/ u = t
            \/ OneMore(t, u, m.src, m.about) /\ m.about \in Boards
        BY <1>0, <3>1, <3>2, <4>1, OnTFacts, Zenon DEF Handled
      <4> HIDE DEF t, u
      <4>4. t.count + 1 \notin Own(t, Prov)
        BY <1>0, TableFields DEF Own
      <4>5. Own(t, Prov) \subseteq Own(u, Prov)
        <5>1. CASE u = t
          BY <5>1, Zenon
        <5>2. CASE OneMore(t, u, m.src, m.about) /\ m.about \in Boards
          BY <1>0, <3>1, <5>2, OneMoreFacts, Zenon
        <5> QED BY <4>2, <5>1, <5>2, Zenon
      <4>3. Own(t, Prov) \subseteq Own(u, Prov) /\ t.count + 1 \notin Own(t, Prov)
        BY <4>4, <4>5, Zenon
      <4> QED BY <1>0, <1>1, <2>1, <4>2, <4>3, Zenon DEF OneMore
    <3>3. CASE m.code \in {"S", "U"}
      <4>1. SamePairs(t, u)
        BY <1>0, <3>1, <3>3, OnSFacts, OnUFacts, Zenon DEF Handled
      <4>2. Own(u, Prov) = Own(t, Prov)
        BY <1>0, <3>1, <4>1, SamePairsFacts, Zenon
      <4> QED BY <1>0, <1>1, <2>1, <4>1, <4>2, Zenon DEF SamePairs
    <3> QED BY <3>1, <3>2, <3>3, Zenon
  <2> QED BY <2>2, <2>3, Zenon
<1>3. ASSUME NEW b \in Beacons, configure_node(b) PROVE Listed'
  <2>1. /\ main'.todo = main.todo \ {b} /\ main'.node = b /\ b \in main.todo
        /\ main.node = Prov /\ UNCHANGED table
    BY <1>3, MainFacts, Zenon DEF configure_node, ProvInv, Filling
  <2>2. Configured' \subseteq Configured
    BY <1>0, <2>1, Zenon DEF Configured
  <2> QED BY <1>1, <2>1, <2>2, Zenon
<1>4. CASE FillRecord
  <2>1. /\ main'.todo = main.todo /\ main'.node = main.node /\ main.at = t.count + 1
        /\ u \in Tables /\ u.count = t.count
        /\ \A i \in 1 .. STAT_COUNT : i # main.at => u.info[i] = t.info[i]
    BY <1>0, <1>4, MainFacts, FillFacts, Zenon DEF ProvInv, Filling
  <2>2. Configured' \subseteq Configured
    BY <2>1, Zenon DEF Configured
  <2>3. /\ Rows(t) = {i \in 1 .. STAT_COUNT : i <= t.count}
        /\ Rows(u) = {i \in 1 .. STAT_COUNT : i <= u.count}
        /\ t.count \in Nat
    BY <1>0, <2>1, TableFields, Zenon
  <2> HIDE DEF t, u
  <2>4. \A i \in Rows(t) : i \in Rows(u) /\ u.info[i] = t.info[i]
    BY <2>1, <2>3
  <2>5. Own(t, Prov) \subseteq Own(u, Prov)
    BY <2>4, Zenon DEF Own
  <2> QED BY <1>0, <1>1, <2>2, <2>4, <2>5, Zenon
<1>5. CASE CountRecord
  <2>1. /\ main'.todo = main.todo /\ main'.node = Prov /\ main.at = t.count + 1
        /\ main.at <= STAT_COUNT => /\ t.info[main.at].addr = Prov
                                    /\ t.info[main.at].neigh = main.node
        /\ u \in Tables /\ u.count = t.count + 1 /\ u.info = t.info
    BY <1>0, <1>5, MainFacts, CountFacts, Zenon DEF ProvInv, Filling
  <2>2. /\ Rows(t) = {i \in 1 .. STAT_COUNT : i <= t.count}
        /\ Rows(u) = {i \in 1 .. STAT_COUNT : i <= u.count}
        /\ t.count \in Nat
    BY <1>0, <2>1, TableFields, Zenon
  <2>3. \A b \in Configured' : b \in Configured \/ b = main.node
    BY <1>0, <2>1, Zenon DEF Configured
  <2>4. Prov \notin restarts' /\ \A b \in Configured : \E i \in Own(t, Prov) : t.info[i].neigh = b
    BY <1>0, Zenon DEF Listed
  <2> HIDE DEF t, u
  <2>5. /\ t.count + 1 \in Rows(u)
        /\ \A i \in Rows(t) : i \in Rows(u)
    BY <1>0, <2>1, <2>2
  <2>6. /\ t.count + 1 \in Own(u, Prov) /\ u.info[t.count + 1].neigh = main.node
        /\ \A i \in Own(t, Prov) : i \in Own(u, Prov) /\ u.info[i].neigh = t.info[i].neigh
    BY <1>0, <2>1, <2>5, Zenon DEF Own
  <2>7. \A b \in Configured' : \E i \in Own(u, Prov) : u.info[i].neigh = b
    BY <2>3, <2>4, <2>6, Zenon
  <2> QED BY <2>4, <2>7, Zenon DEF Listed, Own, Rows, u
<1>6. CASE \E b \in Beacons, i \in Rows(table[Prov]) : SendR(b, i)
  BY <1>1, <1>6, Zenon DEF SendR, Configured
<1>7. ASSUME NEW b \in Beacons, RestartBeacon(b) PROVE Listed'
  <2>1. u = t /\ UNCHANGED main
    BY <1>0, <1>7, Zenon DEF RestartBeacon, Typed
  <2> QED BY <1>1, <2>1, Zenon DEF Configured
<1>8. CASE RestartProv
  BY <1>8, Zenon DEF RestartProv, Listed
<1>9. CASE UNCHANGED vars
  BY <1>1, <1>9, Zenon DEF vars, Configured
<1> QED BY <1>2, <1>3, <1>4, <1>5, <1>6, <1>7, <1>8, <1>9, Zenon DEF Next, Main

-----------------------------------------------------------------------------
(***************************************************************************)
(* All boards show the same name for a board, when nothing is lost and no  *)
(* board restarts: the name is given once, by the Q message of             *)
(* configure_node, and every other message carries it on.                  *)
(***************************************************************************)

\* n is the name of board b: its own, or the one that is on its way to it.
NameIn(names, ns, b, n) ==
    IF names[b] # NoName THEN n = names[b]
    ELSE \E q \in ns : IsQ(q) /\ q.dst = b /\ q.name = n
IsNameOf(b, n) == NameIn(my_name, net, b, n)
NewNameOf(b, n) == NameIn(my_name', net', b, n)   \* after the step

\* Every board that main has taken up has its name or gets it, and only one.
Naming ==
    /\ my_name[Prov] = ProvName
    /\ \A b \in Beacons : my_name[b] \in Nat
    /\ \A b \in main.todo : my_name[b] = NoName
    /\ \A q \in net : IsQ(q) => /\ q.dst \in Beacons \ main.todo
                                /\ my_name[q.dst] = NoName
                                /\ q.name \in Nat \ {NoName}
    /\ \A p, q \in net : IsQ(p) /\ IsQ(q) /\ p.dst = q.dst => p.name = q.name
    /\ \A b \in Beacons \ main.todo :
         my_name[b] = NoName => \E q \in net : IsQ(q) /\ q.dst = b

\* A board without a name has no records and says nothing, and is told nothing
\* but its name, what follows it from the provisioner, and sensor values.
Silent ==
    /\ \A b \in Beacons : my_name[b] = NoName =>
         table[b].count = 0 /\ \A m \in net : m.src # b
    /\ \A m \in net : /\ m.code = "R" => m.dst \notin main.todo
                      /\ m.code \in {"T", "U"} => my_name[m.dst] # NoName

\* The names in the messages.
Named(m) ==
    /\ m.code \in {"S", "U"} => m.name = my_name[m.src]
    /\ m.code \in {"R", "T"} => IsNameOf(m.about, m.name)

\* The names in the records of a table, and none behind the last.
NamedRows(b) ==
    LET t == table[b] IN
    /\ \A i \in Rows(t) : /\ t.info[i].name \in {NoName, my_name[t.info[i].addr]}
                          /\ IsNameOf(t.info[i].neigh, t.info[i].nname)
    /\ \A i \in 1 .. STAT_COUNT :
         i > t.count => \/ t.info[i].name = NoName
                        \/ b = Prov /\ main.step = "count" /\ i = main.at

\* The name of the record that configure_node fills.
FillName ==
    /\ main.step # "loop" => IsNameOf(main.node, main.name)
    /\ main.step = "count" /\ main.at <= STAT_COUNT =>
         /\ table[Prov].info[main.at].name = ProvName
         /\ table[Prov].info[main.at].nname = main.name

NamesInv ==
    /\ Naming /\ Silent /\ FillName
    /\ \A m \in net : Named(m)
    /\ \A b \in Boards : NamedRows(b)

\* No loss, no restart.
Calm == ~LOSSY /\ RESTARTS = {}

\* Only Q messages name a board.
LEMMA QFacts ==
    ASSUME Typed, BeaconInv, NEW q \in net, IsQ(q)
    PROVE  q \in Message /\ q.src = Prov /\ q.dst \in Beacons /\ q.dst # Prov
BY BoardFacts, MessageFields, Zenon DEF Typed, BeaconInv, Messages, GoodMessage, IsQ, Boards

\* The names in the replies.
LEMMA ReplyNames ==
    ASSUME NEW u \in Tables, NEW me \in Boards, NEW from \in Boards, from # me,
           NEW name \in Name, OwnRows(u, me), NEW k \in Replies(u, me, from, name)
    PROVE  /\ Own(u, me) # {}
           /\ k.code \in {"S", "U"} => k.name = name
           /\ k.code = "T" => \E i \in Own(u, me) : /\ k.about = u.info[i].neigh
                                                    /\ k.name = u.info[i].nname
<1> DEFINE S == {Msg(me, u.info[i].neigh, "S", UNASSIGNED, name) : i \in Own(u, me)}
           T == {Msg(me, from, c, u.info[i].neigh,
                     IF c = "T" THEN u.info[i].nname ELSE name) :
                   i \in ToldTo(u, me, from), c \in {"T", "U"}}
<1>0. Replies(u, me, from, name) = S \cup T
  BY DEF Replies
<1>1. CASE k \in S
  <2>1. PICK i \in Own(u, me) : k = Msg(me, u.info[i].neigh, "S", UNASSIGNED, name)
    BY <1>1, Zenon
  <2> QED BY <2>1, Zenon DEF Msg
<1>2. CASE k \in T
  <2>1. PICK i \in ToldTo(u, me, from), c \in {"T", "U"} :
          k = Msg(me, from, c, u.info[i].neigh, IF c = "T" THEN u.info[i].nname ELSE name)
    BY <1>2
  <2>2. i \in Own(u, me)
    BY Zenon DEF ToldTo
  <2>3. CASE c = "T"
    BY <2>1, <2>2, <2>3, Zenon DEF Msg
  <2>4. CASE c = "U"
    BY <2>1, <2>2, <2>4, Zenon DEF Msg
  <2> QED BY <2>3, <2>4, Zenon
<1> HIDE DEF S, T
<1> QED BY <1>0, <1>1, <1>2, Zenon

\* What receive_message sends, with names; the Q messages that it leaves are those
\* to other boards, or all.
LEMMA ReceiveNames ==
    ASSUME Calm, Typed, BeaconInv, NamesInv, NEW m \in net, receive_message(m)
    PROVE  LET me == m.dst
               u == Handled(table[me], me, m)
           IN  /\ IsQ(m) =>
                    /\ me \in Beacons /\ my_name[me] = NoName /\ m.name \in Nat \ {NoName}
                    /\ \A b \in Boards : my_name'[b] = IF b = me THEN m.name ELSE my_name[b]
                    /\ \A q \in net : IsQ(q) /\ q.dst # me => q \in net'
                    /\ \A q \in net' : IsQ(q) => q \in net /\ q.dst # me
               /\ ~IsQ(m) =>
                    /\ my_name' = my_name
                    /\ \A q \in net : IsQ(q) => q \in net'
                    /\ \A q \in net' : IsQ(q) => q \in net
                    /\ my_name[me] # NoName \/ m.code = "S"
               /\ \A k \in net' :
                    \/ k \in net
                    \/ /\ Own(u, me) # {} /\ k.src = me
                       /\ k.code \in {"S", "U"} => k.name = my_name'[me]
                       /\ k.code \in {"T", "U"} => k.dst = m.src
                       /\ k.code = "T" => \E i \in Own(u, me) : /\ k.about = u.info[i].neigh
                                                                /\ k.name = u.info[i].nname
<1> DEFINE me == m.dst
<1> DEFINE u == Handled(table[me], me, m)
<1> DEFINE name == IF IsQ(m) THEN m.name ELSE my_name[me]
<1> DEFINE R == Replies(u, me, m.src, name)
<1>1. /\ m \in Message /\ GoodMessage(m) /\ me \in Boards /\ m.src \in Boards
      /\ m.src # me /\ u \in Tables /\ OwnRows(u, me)
      /\ m.code \in {"Q", "R", "S", "T", "U"}
  BY ReceiveFacts, MessageFields, Zenon
<1>2. name \in Name /\ my_name \in [Boards -> Name]
  BY <1>1, MessageFields, Zenon DEF Typed
<1>3. /\ my_name' = [my_name EXCEPT ![me] = name]
      /\ net' = Sent(net \ Passed(m), R)
      /\ IsQ(m) \/ ~ \E q \in net : IsQ(q) /\ q.src = m.src /\ q.dst = me
  BY Zenon DEF receive_message, Arrives, Calm
<1>4. \A k \in R : /\ k.src = me /\ ~IsQ(k) /\ Own(u, me) # {}
                   /\ k.code \in {"S", "U"} => k.name = name
                   /\ k.code \in {"T", "U"} => k.dst = m.src
                   /\ k.code = "T" => \E i \in Own(u, me) : /\ k.about = u.info[i].neigh
                                                            /\ k.name = u.info[i].nname
  <2> HIDE DEF me, u, name
  <2> QED BY <1>1, <1>2, ReplyFacts, ReplyNames DEF IsQ
<1> HIDE DEF R, u, name, me
<1>5. \A q \in net' : IsQ(q) => q \in net /\ q \notin Passed(m)
  BY <1>3, <1>4, SentFacts, Zenon
<1>6. \A q \in net : IsQ(q) /\ q \notin Passed(m) => q \in net'
  BY <1>3, <1>4, Zenon DEF Sent, SameKind, IsQ
<1>7. my_name'[me] = name
  BY <1>1, <1>2, <1>3, Zenon
<1>8. \A k \in net' :
        \/ k \in net
        \/ /\ Own(u, me) # {} /\ k.src = me
           /\ k.code \in {"S", "U"} => k.name = my_name'[me]
           /\ k.code \in {"T", "U"} => k.dst = m.src
           /\ k.code = "T" => \E i \in Own(u, me) : /\ k.about = u.info[i].neigh
                                                    /\ k.name = u.info[i].nname
  BY <1>3, <1>4, <1>7, SentFacts, Zenon
<1>9. ASSUME IsQ(m)
      PROVE  /\ me \in Beacons /\ my_name[me] = NoName /\ m.name \in Nat \ {NoName}
             /\ \A b \in Boards : my_name'[b] = IF b = me THEN m.name ELSE my_name[b]
             /\ \A q \in net : IsQ(q) /\ q.dst # me => q \in net'
             /\ \A q \in net' : IsQ(q) => q \in net /\ q.dst # me
  <2>1. me \in Beacons /\ my_name[me] = NoName /\ m.name \in Nat \ {NoName} /\ m.src = Prov
    BY <1>9, QFacts, Zenon DEF NamesInv, Naming, me
  <2>2. \A b \in Boards : my_name'[b] = IF b = me THEN m.name ELSE my_name[b]
    BY <1>1, <1>2, <1>3, <1>9, Zenon DEF name
  <2>3. \A q \in net : IsQ(q) => (q \in Passed(m) <=> q.dst = me)
    BY <2>1, QFacts, Zenon DEF Passed, me
  <2> QED BY <1>5, <1>6, <2>1, <2>2, <2>3, Zenon
<1>10. ASSUME ~IsQ(m)
       PROVE  /\ my_name' = my_name
              /\ \A q \in net : IsQ(q) => q \in net'
              /\ \A q \in net' : IsQ(q) => q \in net
              /\ my_name[me] # NoName \/ m.code = "S"
  <2>1. my_name' = my_name
    BY <1>1, <1>2, <1>3, <1>10, Zenon DEF name
  <2>2. Passed(m) = {}
    BY <1>3, <1>10, Zenon DEF Passed, me
  <2>3. my_name[me] # NoName \/ m.code = "S"
    <3>1. CASE m.code = "R"
      <4>1. m.src = Prov /\ me \in Beacons \ main.todo
        BY <1>1, <3>1, Zenon DEF GoodMessage, NamesInv, Silent, Boards, me
      <4> QED BY <1>3, <1>10, <4>1, QFacts, Zenon DEF NamesInv, Naming, me
    <3>2. CASE m.code \in {"T", "U"}
      BY <3>2, Zenon DEF NamesInv, Silent, me
    <3> QED BY <1>1, <1>10, <3>1, <3>2, Zenon DEF IsQ
  <2> QED BY <1>5, <1>6, <2>1, <2>2, <2>3, Zenon
<1> QED BY <1>8, <1>9, <1>10, Zenon DEF me, u

\* What configure_node and check_unconfigured send, with names.
LEMMA SendNames ==
    ASSUME Typed, BeaconInv, NamesInv
    PROVE  /\ \A b \in Beacons : configure_node(b) =>
                LET rc == table[Prov].count + 1
                    q0 == Msg(Prov, b, "Q", UNASSIGNED, rc)
                IN  /\ rc \in Nat \ {NoName} /\ b \in main.todo
                    /\ q0 \in net' /\ IsQ(q0) /\ q0.dst = b /\ q0.name = rc
                    /\ q0.src = Prov /\ q0.code = "Q"
                    /\ \A k \in net : k \in net'
                    /\ \A k \in net' : k \in net \/ k = q0
           /\ \A b \in Beacons : \A i \in Rows(table[Prov]) : SendR(b, i) =>
                LET r == table[Prov].info[i]
                IN  /\ \A q \in net : IsQ(q) => q \in net'
                    /\ \A q \in net' : IsQ(q) => q \in net
                    /\ \A k \in net' :
                         \/ k \in net
                         \/ /\ k.code = "R" /\ k.src = Prov /\ k.dst = b
                            /\ k.about = r.neigh /\ k.name = r.nname
<1>1. ASSUME NEW b \in Beacons, configure_node(b)
      PROVE  LET rc == table[Prov].count + 1
                 q0 == Msg(Prov, b, "Q", UNASSIGNED, rc)
             IN  /\ rc \in Nat \ {NoName} /\ b \in main.todo
                 /\ q0 \in net' /\ IsQ(q0) /\ q0.dst = b /\ q0.name = rc
                 /\ q0.src = Prov /\ q0.code = "Q"
                 /\ \A k \in net : k \in net'
                 /\ \A k \in net' : k \in net \/ k = q0
  <2> DEFINE rc == table[Prov].count + 1
  <2> DEFINE q0 == Msg(Prov, b, "Q", UNASSIGNED, rc)
  <2>1. rc \in Nat \ {NoName} /\ b \in main.todo /\ net' = Sent(net, {q0})
    <3>1. table[Prov] \in Tables
      BY BoardFacts, Zenon DEF Typed
    <3>2. table[Prov].count \in Nat
      BY <3>1, TableFields, Zenon
    <3> QED BY <1>1, <3>2 DEF configure_node, NoName
  <2> HIDE DEF rc
  <2>2. /\ q0.src = Prov /\ q0.dst = b /\ q0.code = "Q" /\ q0.name = rc /\ IsQ(q0)
    BY Zenon DEF Msg, IsQ
  <2> HIDE DEF q0
  <2>3. \A k \in net : ~SameKind(k, q0)
    BY <2>1, <2>2, QFacts DEF SameKind, IsQ, NamesInv, Naming
  <2> QED BY <2>1, <2>2, <2>3, Zenon DEF Sent, q0, rc
<1>2. ASSUME NEW b \in Beacons, NEW i \in Rows(table[Prov]), SendR(b, i)
      PROVE  LET r == table[Prov].info[i]
             IN  /\ \A q \in net : IsQ(q) => q \in net'
                 /\ \A q \in net' : IsQ(q) => q \in net
                 /\ \A k \in net' :
                      \/ k \in net
                      \/ /\ k.code = "R" /\ k.src = Prov /\ k.dst = b
                         /\ k.about = r.neigh /\ k.name = r.nname
  <2> DEFINE r == table[Prov].info[i]
  <2> DEFINE k0 == Msg(Prov, b, "R", r.neigh, r.nname)
  <2>1. net' = Sent(net, {k0})
    BY <1>2, Zenon DEF SendR
  <2> HIDE DEF r
  <2>2. /\ k0.src = Prov /\ k0.dst = b /\ k0.code = "R" /\ k0.about = r.neigh
        /\ k0.name = r.nname
    BY Zenon DEF Msg
  <2> HIDE DEF k0
  <2> QED BY <2>1, <2>2, Zenon DEF Sent, SameKind, IsQ, r
<1> QED BY <1>1, <1>2, ZenonT(40)

\* Nothing restarts.
LEMMA CalmNext ==
    ASSUME Calm, Typed, [Next]_vars
    PROVE  \/ \E m \in net : receive_message(m)
           \/ \E b \in Beacons : configure_node(b)
           \/ FillRecord
           \/ CountRecord
           \/ \E b \in Beacons : \E i \in Rows(table[Prov]) : SendR(b, i)
           \/ UNCHANGED vars
BY Zenon DEF Calm, Typed, Next, Main, RestartBeacon, RestartProv

\* The name of a board stays its name.
LEMMA NamesKept ==
    ASSUME Calm, Typed, BeaconInv, NamesInv, [Next]_vars
    PROVE  /\ \A b \in Boards : my_name[b] # NoName => my_name'[b] = my_name[b]
           /\ \A b \in Boards : \A n : IsNameOf(b, n) => NewNameOf(b, n)
<1>1. ASSUME NEW m \in net, receive_message(m), IsQ(m)
      PROVE  /\ \A b \in Boards : my_name[b] # NoName => my_name'[b] = my_name[b]
             /\ \A b \in Boards : \A n : IsNameOf(b, n) => NewNameOf(b, n)
  <2> DEFINE me == m.dst
  <2>1. /\ me \in Beacons /\ my_name[me] = NoName /\ m.name \in Nat \ {NoName}
        /\ \A b \in Boards : my_name'[b] = IF b = me THEN m.name ELSE my_name[b]
        /\ \A q \in net : IsQ(q) /\ q.dst # me => q \in net'
    BY <1>1, ReceiveNames, Zenon
  <2>2. ASSUME NEW b \in Boards, NEW n, IsNameOf(b, n) PROVE NewNameOf(b, n)
    <3>1. CASE b = me
      <4>1. n = m.name
        BY <1>1, <2>1, <2>2, <3>1, Zenon DEF IsNameOf, NewNameOf, NameIn, NamesInv, Naming
      <4> QED BY <2>1, <3>1, <4>1, Zenon DEF IsNameOf, NewNameOf, NameIn
    <3>2. CASE b # me
      BY <2>1, <2>2, <3>2, Zenon DEF IsNameOf, NewNameOf, NameIn
    <3> QED BY <3>1, <3>2, Zenon
  <2> QED BY <2>1, <2>2, Zenon
<1>2. ASSUME my_name' = my_name, \A q \in net : IsQ(q) => q \in net'
      PROVE  /\ \A b \in Boards : my_name[b] # NoName => my_name'[b] = my_name[b]
             /\ \A b \in Boards : \A n : IsNameOf(b, n) => NewNameOf(b, n)
  BY <1>2, Zenon DEF IsNameOf, NewNameOf, NameIn
<1>3. ASSUME NEW m \in net, receive_message(m), ~IsQ(m)
      PROVE  my_name' = my_name /\ \A q \in net : IsQ(q) => q \in net'
  BY <1>3, ReceiveNames, Zenon
<1>4. ASSUME NEW b \in Beacons, configure_node(b)
      PROVE  my_name' = my_name /\ \A q \in net : IsQ(q) => q \in net'
  BY <1>4, SendNames, Zenon DEF configure_node
<1>5. ASSUME NEW b \in Beacons, NEW i \in Rows(table[Prov]), SendR(b, i)
      PROVE  my_name' = my_name /\ \A q \in net : IsQ(q) => q \in net'
  BY <1>5, SendNames, Zenon DEF SendR
<1>6. ASSUME FillRecord \/ CountRecord \/ UNCHANGED vars
      PROVE  my_name' = my_name /\ \A q \in net : IsQ(q) => q \in net'
  BY <1>6, Zenon DEF FillRecord, CountRecord, vars
<1> QED BY <1>1, <1>2, <1>3, <1>4, <1>5, <1>6, CalmNext, Zenon

\* One name for every board.
LEMMA NamingStep ==
    ASSUME Calm, Typed, BeaconInv, ProvInv, NamesInv, [Next]_vars
    PROVE  Naming'
<1>0. Naming /\ main.todo \subseteq Beacons /\ Beacons \subseteq Boards /\ Prov \in Boards
      /\ Prov \notin Beacons
  BY BoardFacts, Zenon DEF NamesInv, Typed
<1>1. ASSUME NEW m \in net, receive_message(m), IsQ(m) PROVE Naming'
  <2> DEFINE me == m.dst
  <2>1. /\ me \in Beacons \ main.todo /\ my_name[me] = NoName /\ m.name \in Nat \ {NoName}
        /\ \A b \in Boards : my_name'[b] = IF b = me THEN m.name ELSE my_name[b]
        /\ \A q \in net : IsQ(q) /\ q.dst # me => q \in net'
        /\ \A q \in net' : IsQ(q) => q \in net /\ q.dst # me /\ q.dst \in Boards
        /\ UNCHANGED main
    BY <1>0, <1>1, ReceiveNames, QFacts, ZenonT(40) DEF receive_message, Naming
  <2> HIDE DEF me
  <2> QED BY <1>0, <2>1 DEF Naming
<1>2. ASSUME UNCHANGED my_name, main'.todo = main.todo,
             \A q \in net : IsQ(q) => q \in net',
             \A q \in net' : IsQ(q) => q \in net
      PROVE  Naming'
  BY <1>0, <1>2, Zenon DEF Naming
<1>3. ASSUME NEW m \in net, receive_message(m), ~IsQ(m) PROVE Naming'
  BY <1>2, <1>3, ReceiveNames, Zenon DEF receive_message
<1>4. ASSUME NEW b \in Beacons, configure_node(b) PROVE Naming'
  <2> DEFINE rc == table[Prov].count + 1
  <2> DEFINE q0 == Msg(Prov, b, "Q", UNASSIGNED, rc)
  <2>1. /\ rc \in Nat \ {NoName} /\ b \in main.todo
        /\ q0 \in net' /\ IsQ(q0) /\ q0.dst = b /\ q0.name = rc
        /\ \A k \in net : k \in net'
        /\ \A k \in net' : k \in net \/ k = q0
        /\ UNCHANGED my_name /\ main'.todo = main.todo \ {b}
    BY <1>4, SendNames, MainFacts, Zenon DEF configure_node
  <2> HIDE DEF q0, rc
  <2>2. my_name[b] = NoName /\ \A q \in net : IsQ(q) => q.dst # b
    BY <1>0, <2>1, Zenon DEF Naming
  <2> QED BY <1>0, <2>1, <2>2 DEF Naming
<1>5. ASSUME NEW b \in Beacons, NEW i \in Rows(table[Prov]), SendR(b, i) PROVE Naming'
  BY <1>2, <1>5, SendNames, Zenon DEF SendR
<1>6. CASE FillRecord \/ CountRecord \/ UNCHANGED vars
  BY <1>2, <1>6, MainFacts, Zenon DEF FillRecord, CountRecord, vars
<1> QED BY <1>1, <1>3, <1>4, <1>5, <1>6, CalmNext, Zenon

\* The names that S, U, T, R and Q write.
LEMMA OnSNames ==
    ASSUME NEW t \in Tables, NEW me \in Boards, NEW m \in Message
    PROVE  \A i \in 1 .. STAT_COUNT :
             /\ OnS(t, me, m).info[i].name = t.info[i].name
             /\ \/ OnS(t, me, m).info[i].nname = t.info[i].nname
                \/ /\ i \in Own(t, me) /\ t.info[i].neigh = m.src
                   /\ OnS(t, me, m).info[i].nname = Token(m.name)
<1> DEFINE new(i) == IF i \in Own(t, me) /\ t.info[i].neigh = m.src
                     THEN [t.info[i] EXCEPT !.nname = Token(m.name)] ELSE t.info[i]
<1> DEFINE info == [i \in DOMAIN t.info |-> new(i)]
<1>1. ASSUME NEW i \in 1 .. STAT_COUNT
      PROVE  /\ new(i).name = t.info[i].name
             /\ \/ new(i).nname = t.info[i].nname
                \/ /\ i \in Own(t, me) /\ t.info[i].neigh = m.src
                   /\ new(i).nname = Token(m.name)
  BY TableFields DEF Record
<1>2. OnS(t, me, m) = [t EXCEPT !.info = info]
  BY Zenon DEF OnS
<1> HIDE DEF new
<1>3. \A i \in 1 .. STAT_COUNT : info[i] = new(i)
  BY TableFields, Zenon
<1> HIDE DEF info
<1>4. OnS(t, me, m).info = info
  BY <1>2, Zenon DEF Tables
<1> QED BY <1>1, <1>3, <1>4, Zenon

\* The names after message U: only that of the board that sent it.
LEMMA OnUNames ==
    ASSUME NEW t \in Tables, NEW me \in Boards, NEW m \in Message
    PROVE  \A i \in 1 .. STAT_COUNT :
             /\ OnU(t, me, m).info[i].nname = t.info[i].nname
             /\ \/ OnU(t, me, m).info[i].name = t.info[i].name
                \/ i \in Own(t, m.src) /\ OnU(t, me, m).info[i].name = Token(m.name)
<1> DEFINE new(i) == IF i \in Own(t, m.src) /\ m.src # me /\ t.info[i].neigh = m.about
                     THEN [t.info[i] EXCEPT !.name = Token(m.name)] ELSE t.info[i]
<1> DEFINE info == [i \in DOMAIN t.info |-> new(i)]
<1>1. ASSUME NEW i \in 1 .. STAT_COUNT
      PROVE  /\ new(i).nname = t.info[i].nname
             /\ \/ new(i).name = t.info[i].name
                \/ i \in Own(t, m.src) /\ new(i).name = Token(m.name)
  BY TableFields DEF Record
<1>2. CASE ~check_if_record_neighbour_exists(t, me, m.src, m.about)
  BY <1>2, Zenon DEF OnU
<1>3. CASE check_if_record_neighbour_exists(t, me, m.src, m.about)
  <2>1. OnU(t, me, m) = [t EXCEPT !.info = info]
    BY <1>3, Zenon DEF OnU
  <2> HIDE DEF new
  <2>2. \A i \in 1 .. STAT_COUNT : info[i] = new(i)
    BY TableFields, Zenon
  <2> HIDE DEF info
  <2>3. OnU(t, me, m).info = info
    BY <2>1, Zenon DEF Tables
  <2> QED BY <1>1, <2>2, <2>3, Zenon
<1> QED BY <1>2, <1>3, Zenon

\* The names of the record behind the last in u are x and y, and the others are
\* those of t.
OneMoreNames(t, u, x, y) ==
    /\ \A i \in 1 .. STAT_COUNT :
         i # t.count + 1 => /\ u.info[i].name = t.info[i].name
                            /\ u.info[i].nname = t.info[i].nname
    /\ t.count + 1 <= STAT_COUNT => /\ u.info[t.count + 1].name = x
                                    /\ u.info[t.count + 1].nname = y

\* The names after a record is put behind the last.
LEMMA PutNames ==
    ASSUME NEW t \in Tables, NEW r \in Record
    PROVE  OneMoreNames(t, Put(t, r), r.name, r.nname)
<1> DEFINE info == Write(t.info, t.count + 1, r)
<1>2. /\ info \in [1 .. STAT_COUNT -> Record]
      /\ \A i \in 1 .. STAT_COUNT : i # t.count + 1 => info[i] = t.info[i]
      /\ t.count + 1 <= STAT_COUNT => info[t.count + 1] = r
  BY WriteNext, Zenon
<1>3. Put(t, r) = [info |-> info, count |-> t.count + 1]
  BY Zenon DEF Put, Write, FreeRow
<1> HIDE DEF info
<1>4. Put(t, r).info = info
  BY <1>3
<1> QED BY <1>2, <1>4, Zenon DEF OneMoreNames

\* The names after message T: one record more, or nothing.
LEMMA OnTNames ==
    ASSUME NEW t \in Tables, NEW me \in Boards, NEW m \in Message
    PROVE  \/ OnT(t, me, m) = t
           \/ OneMoreNames(t, OnT(t, me, m), t.info[t.count + 1].name, Token(m.name))
<1> DEFINE r == WritePair(t.info[t.count + 1], m.src, m.about, Token(m.name))
<1> DEFINE info == Write(t.info, t.count + 1, r)
<1>1. CASE m.about = UNASSIGNED \/ check_if_record_neighbour_exists(t, me, m.src, m.about)
  BY <1>1, Zenon DEF OnT
<1>2. CASE ~(m.about = UNASSIGNED \/ check_if_record_neighbour_exists(t, me, m.src, m.about))
  <2>1. /\ t.info \in [1 .. STAT_COUNT -> Record] /\ t.count + 1 \in Nat
        /\ (t.count + 1 <= STAT_COUNT <=> t.count + 1 \in 1 .. STAT_COUNT)
    BY TableFields, BoardFacts
  <2>2. t.count + 1 \in 1 .. STAT_COUNT =>
          /\ r \in Record
          /\ r.name = t.info[t.count + 1].name /\ r.nname = Token(m.name)
    <3> SUFFICES ASSUME t.count + 1 \in 1 .. STAT_COUNT
                 PROVE  /\ r \in Record
                        /\ r.name = t.info[t.count + 1].name /\ r.nname = Token(m.name)
      BY Zenon
    <3>1. /\ t.info[t.count + 1] \in Record /\ m.src \in Boards /\ m.about \in Boards
          /\ Token(m.name) \in Name
      BY <1>2, <2>1, MessageFields, TokenName, Zenon
    <3>2. r \in Record
      BY <3>1, WritePairFacts, Zenon
    <3> QED BY <3>1, <3>2, Zenon DEF WritePair, Record
  <2> HIDE DEF r
  <2>3. /\ info \in [1 .. STAT_COUNT -> Record]
        /\ \A i \in 1 .. STAT_COUNT : i # t.count + 1 => info[i] = t.info[i]
        /\ t.count + 1 <= STAT_COUNT => info[t.count + 1] = r
    BY <2>2, WriteNext, Zenon
  <2>4. OnT(t, me, m) = [info |-> info, count |-> t.count + 1]
    BY <1>2, Zenon DEF OnT, Write, WritePair, FreeRow, r
  <2> HIDE DEF info
  <2>5. OnT(t, me, m).info = info
    BY <2>4
  <2> QED BY <2>1, <2>2, <2>3, <2>5, Zenon DEF OneMoreNames
<1> QED BY <1>1, <1>2, Zenon

\* The names after message R.
LEMMA OnRNames ==
    ASSUME NEW t \in Tables, NEW me \in Boards, NEW m \in Message, Typed
    PROVE  \/ OnR(t, me, m) = t
           \/ OneMoreNames(t, OnR(t, me, m), my_name[me], Token(m.name))
<1> DEFINE r == [addr |-> me, neigh |-> m.about, name |-> my_name[me],
                 nname |-> Token(m.name)]
<1>1. CASE check_if_record_exists(t, me, m.about)
  BY <1>1, Zenon DEF OnR
<1>2. CASE ~check_if_record_exists(t, me, m.about)
  <2>1. r \in Record /\ r.name = my_name[me] /\ r.nname = Token(m.name)
    BY MessageFields, TokenName, Zenon DEF Record, Typed
  <2>2. OnR(t, me, m) = Put(t, r)
    BY <1>2, Zenon DEF OnR
  <2> HIDE DEF r
  <2> QED BY <2>1, <2>2, PutNames, Zenon
<1> QED BY <1>1, <1>2, Zenon

\* The names after message Q.
LEMMA OnQNames ==
    ASSUME NEW t \in Tables, NEW me \in Boards, NEW m \in Message
    PROVE  OneMoreNames([t EXCEPT !.count = 0], OnQ(t, me, m), m.name, ProvName)
<1> DEFINE e == [t EXCEPT !.count = 0]
<1> DEFINE r == [addr |-> me, neigh |-> m.src, name |-> m.name, nname |-> ProvName]
<1>1. e \in Tables
  BY Zenon DEF Tables
<1>2. r \in Record /\ r.name = m.name /\ r.nname = ProvName
  BY MessageFields, Zenon DEF Record, Name
<1>3. OnQ(t, me, m) = Put(e, r)
  BY Zenon DEF OnQ
<1> HIDE DEF e, r
<1>4. OneMoreNames(e, OnQ(t, me, m), m.name, ProvName)
  BY <1>1, <1>2, <1>3, PutNames, Zenon
<1> QED BY <1>4, Zenon DEF e

\* A name is not empty.
LEMMA NamesThere ==
    ASSUME Typed, BeaconInv, NamesInv
    PROVE  /\ \A b \in Boards : \A n : IsNameOf(b, n) => n # NoName
           /\ \A m \in net : m.src \in Boards /\ my_name[m.src] # NoName
           /\ my_name[Prov] = ProvName /\ ProvName # NoName
           /\ \A n : n # NoName => Token(n) = n
<1>1. \A b \in Boards : \A n : IsNameOf(b, n) => n # NoName
  BY Zenon DEF IsNameOf, NewNameOf, NameIn, NamesInv, Naming
<1>2. my_name[Prov] = ProvName /\ ProvName # NoName
  BY DEF NamesInv, Naming, ProvName, NoName
<1>3. ASSUME NEW m \in net PROVE m.src \in Boards /\ my_name[m.src] # NoName
  <2>1. m.src \in Boards
    BY MessageFields, Zenon DEF Typed
  <2> QED BY <1>2, <2>1, Zenon DEF NamesInv, Silent, Boards
<1>4. \A n : n # NoName => Token(n) = n
  BY Zenon DEF Token
<1> QED BY <1>1, <1>2, <1>3, <1>4, Zenon

\* A message leaves the right names in the table.
LEMMA ReceiveRows ==
    ASSUME Calm, Typed, BeaconInv, ProvInv, NamesInv, [Next]_vars,
           NEW m \in net, receive_message(m)
    PROVE  NamedRows(m.dst)'
<1> DEFINE me == m.dst
<1> DEFINE t == table[me]
<1> DEFINE u == Handled(t, me, m)
<1>0. /\ m \in Message /\ GoodMessage(m) /\ me \in Boards /\ t \in Tables
      /\ table'[me] = u /\ u \in Tables /\ m.src \in Boards /\ m.src # me
      /\ m.code \in {"Q", "R", "S", "T", "U"}
      /\ UNCHANGED main /\ Named(m) /\ Pairs(t, me)
  BY ReceiveFacts, MessageFields, Zenon
     DEF Typed, receive_message, NamesInv, BeaconInv, ProvInv, Boards
<1>1. /\ \A i \in Rows(t) : /\ t.info[i].addr \in Boards
                            /\ t.info[i].neigh \in Boards
                            /\ t.info[i].name \in {NoName, my_name'[t.info[i].addr]}
                            /\ NewNameOf(t.info[i].neigh, t.info[i].nname)
      /\ \A i \in 1 .. STAT_COUNT :
           i > t.count => \/ t.info[i].name = NoName
                          \/ me = Prov /\ main'.step = "count" /\ i = main'.at
  <2>1. NamedRows(me)
    BY <1>0, Zenon DEF NamesInv
  <2>2. ASSUME NEW i \in Rows(t)
        PROVE  /\ t.info[i].addr \in Boards
               /\ t.info[i].neigh \in Boards
               /\ t.info[i].name \in {NoName, my_name'[t.info[i].addr]}
               /\ NewNameOf(t.info[i].neigh, t.info[i].nname)
    <3>1. t.info[i].addr \in Boards /\ t.info[i].neigh \in Boards
      BY <1>0, Zenon DEF Pairs
    <3>2. /\ t.info[i].name \in {NoName, my_name[t.info[i].addr]}
          /\ IsNameOf(t.info[i].neigh, t.info[i].nname)
      BY <2>1, Zenon DEF NamedRows
    <3> HIDE DEF t
    <3>3. t.info[i].name \in {NoName, my_name'[t.info[i].addr]}
      BY <3>1, <3>2, NamesKept, Zenon
    <3>4. NewNameOf(t.info[i].neigh, t.info[i].nname)
      BY <3>1, <3>2, NamesKept, Zenon
    <3> QED BY <3>1, <3>3, <3>4, Zenon
  <2> QED BY <1>0, <2>1, <2>2, Zenon DEF NamedRows
<1>2. SUFFICES
        /\ \A i \in Rows(u) : /\ u.info[i].name \in {NoName, my_name'[u.info[i].addr]}
                              /\ NewNameOf(u.info[i].neigh, u.info[i].nname)
        /\ \A i \in 1 .. STAT_COUNT :
             i > u.count => \/ u.info[i].name = NoName
                            \/ me = Prov /\ main'.step = "count" /\ i = main'.at
  BY <1>0, Zenon DEF NamedRows, IsNameOf, NewNameOf
<1>3. /\ t.count \in Nat /\ u.count \in Nat
      /\ Rows(t) = {i \in 1 .. STAT_COUNT : i <= t.count}
      /\ Rows(u) = {i \in 1 .. STAT_COUNT : i <= u.count}
  BY <1>0, TableFields, Zenon
<1> HIDE DEF t, u
<1>4. ASSUME NEW a \in Boards, NEW n \in Boards, NEW x, NEW y,
             OneMore(t, u, a, n), OneMoreNames(t, u, x, y),
             t.count + 1 <= STAT_COUNT => x \in {NoName, my_name'[a]} /\ NewNameOf(n, y),
             me # Prov \/ main'.step # "count"
      PROVE  /\ \A i \in Rows(u) : /\ u.info[i].name \in {NoName, my_name'[u.info[i].addr]}
                                   /\ NewNameOf(u.info[i].neigh, u.info[i].nname)
             /\ \A i \in 1 .. STAT_COUNT :
                  i > u.count => \/ u.info[i].name = NoName
                                 \/ me = Prov /\ main'.step = "count" /\ i = main'.at
  <2>1. u.count = t.count + 1
    BY <1>4, Zenon DEF OneMore
  <2>2. ASSUME NEW i \in Rows(u)
        PROVE  /\ u.info[i].name \in {NoName, my_name'[u.info[i].addr]}
               /\ NewNameOf(u.info[i].neigh, u.info[i].nname)
    <3>1. CASE i = t.count + 1
      <4>1. i <= STAT_COUNT
        BY <1>3
      <4>2. u.info[i].addr = a /\ u.info[i].neigh = n /\ u.info[i].name = x /\ u.info[i].nname = y
        BY <1>4, <3>1, <4>1, Zenon DEF OneMore, OneMoreNames
      <4> QED BY <1>4, <3>1, <4>1, <4>2, Zenon
    <3>2. CASE i # t.count + 1
      <4>1. i \in Rows(t) /\ i \in 1 .. STAT_COUNT
        BY <1>3, <2>1, <3>2
      <4>2. /\ u.info[i].addr = t.info[i].addr /\ u.info[i].neigh = t.info[i].neigh
            /\ u.info[i].name = t.info[i].name /\ u.info[i].nname = t.info[i].nname
        BY <1>4, <3>2, <4>1, Zenon DEF OneMore, OneMoreNames
      <4> QED BY <1>1, <4>1, <4>2, Zenon
    <3> QED BY <3>1, <3>2, Zenon
  <2>3. ASSUME NEW i \in 1 .. STAT_COUNT, i > u.count PROVE u.info[i].name = NoName
    <3>1. i > t.count /\ i # t.count + 1
      BY <1>3, <2>1, <2>3
    <3> QED BY <1>1, <1>4, <3>1, Zenon DEF OneMoreNames
  <2> QED BY <2>2, <2>3, Zenon
<1>5. CASE m.code = "Q"
  <2> DEFINE e == [t EXCEPT !.count = 0]
  <2>1. /\ IsQ(m) /\ me \in Beacons /\ my_name[me] = NoName /\ my_name'[me] = m.name
        /\ m.src = Prov
    BY <1>0, <1>5, ReceiveNames, QFacts, BoardFacts, Zenon DEF IsQ
  <2>2. t.count = 0
    BY <2>1, Zenon DEF NamesInv, Silent, t
  <2>3. e = t
    BY <1>0, <2>2, Zenon DEF Tables
  <2>4. OneMore(t, u, me, Prov) /\ OneMoreNames(t, u, m.name, ProvName)
    BY <1>0, <1>5, <2>1, <2>3, OnQFacts, OnQNames DEF Handled, u
  <2>5. NewNameOf(Prov, ProvName)
    BY NamesThere, NamesKept, BoardFacts, Zenon DEF IsNameOf, NewNameOf, NameIn
  <2> QED BY <1>0, <1>4, <2>1, <2>4, <2>5, BoardFacts, Zenon
<1>6. CASE m.code = "R"
  <2>1. m.src = Prov /\ me # Prov /\ m.about \in Boards /\ IsNameOf(m.about, m.name) /\ ~IsQ(m)
    BY <1>0, <1>6, BoardFacts, Zenon DEF GoodMessage, Named, IsQ
  <2>2. Token(m.name) = m.name /\ NewNameOf(m.about, m.name) /\ my_name' = my_name
    BY <2>1, NamesThere, NamesKept, ReceiveNames, Zenon
  <2>3. \/ u = t
        \/ OneMore(t, u, me, m.about) /\ OneMoreNames(t, u, my_name[me], Token(m.name))
    BY <1>0, <1>6, OnRFacts, OnRNames, Zenon DEF Handled, u
  <2>4. CASE u = t
    BY <1>1, <2>4, Zenon
  <2>5. CASE u # t
    BY <1>0, <1>4, <2>1, <2>2, <2>3, <2>5, Zenon
  <2> QED BY <2>4, <2>5, Zenon
<1>7. CASE m.code = "T"
  <2>1. /\ m.about \in Boards /\ m.about # me /\ IsNameOf(m.about, m.name) /\ ~IsQ(m)
        /\ me # Prov \/ main'.step # "count"
    BY <1>0, <1>7, Zenon DEF GoodMessage, Named, IsQ, ProvInv, Quiet, Done
  <2>2. Token(m.name) = m.name /\ NewNameOf(m.about, m.name)
    BY <2>1, NamesThere, NamesKept, Zenon
  <2>3. \/ u = t
        \/ /\ OneMore(t, u, m.src, m.about)
           /\ OneMoreNames(t, u, t.info[t.count + 1].name, Token(m.name))
    BY <1>0, <1>7, <2>1, OnTFacts, OnTNames DEF Handled, u
  <2>4. CASE u = t
    BY <1>1, <2>4, Zenon
  <2>5. CASE u # t
    <3>1. ASSUME t.count + 1 <= STAT_COUNT PROVE t.info[t.count + 1].name = NoName
      <4>1. t.count + 1 \in 1 .. STAT_COUNT /\ t.count + 1 > t.count
        BY <1>3, <3>1, BoardFacts
      <4> QED BY <1>1, <2>1, <4>1, Zenon
    <3> QED BY <1>0, <1>4, <2>1, <2>2, <2>3, <2>5, <3>1, Zenon
  <2> QED BY <2>4, <2>5, Zenon
<1>8. CASE m.code = "S"
  <2>1. /\ m.name = my_name[m.src] /\ my_name[m.src] # NoName /\ Token(m.name) = m.name
        /\ my_name'[m.src] = my_name[m.src]
    BY <1>0, <1>8, NamesThere, NamesKept, Zenon DEF Named
  <2>2. NewNameOf(m.src, m.name)
    BY <2>1, Zenon DEF IsNameOf, NewNameOf, NameIn
  <2>3. SamePairs(t, u)
        /\ \A i \in 1 .. STAT_COUNT :
             /\ u.info[i].name = t.info[i].name
             /\ \/ u.info[i].nname = t.info[i].nname
                \/ /\ i \in Own(t, me) /\ t.info[i].neigh = m.src
                   /\ u.info[i].nname = Token(m.name)
    BY <1>0, <1>8, OnSFacts, OnSNames DEF Handled, u
  <2> QED BY <1>1, <1>3, <2>1, <2>2, <2>3, Zenon DEF SamePairs
<1>9. CASE m.code = "U"
  <2>1. /\ m.name = my_name[m.src] /\ my_name[m.src] # NoName /\ Token(m.name) = m.name
        /\ my_name'[m.src] = my_name[m.src]
    BY <1>0, <1>9, NamesThere, NamesKept, Zenon DEF Named
  <2>2. SamePairs(t, u)
        /\ \A i \in 1 .. STAT_COUNT :
             /\ u.info[i].nname = t.info[i].nname
             /\ \/ u.info[i].name = t.info[i].name
                \/ i \in Own(t, m.src) /\ u.info[i].name = Token(m.name)
    BY <1>0, <1>9, OnUFacts, OnUNames DEF Handled, u
  <2>3. \A i \in Own(t, m.src) : i \in Rows(t) /\ t.info[i].addr = m.src
    BY Zenon DEF Own
  <2>4. u.count = t.count /\ Rows(u) = Rows(t)
    BY <1>3, <2>2, Zenon DEF SamePairs
  <2>5. ASSUME NEW i \in Rows(u)
        PROVE  /\ u.info[i].name \in {NoName, my_name'[u.info[i].addr]}
               /\ NewNameOf(u.info[i].neigh, u.info[i].nname)
    <3>1. i \in Rows(t) /\ i \in 1 .. STAT_COUNT
      BY <1>3, <2>4, Zenon
    <3>2. /\ u.info[i].addr = t.info[i].addr /\ u.info[i].neigh = t.info[i].neigh
          /\ u.info[i].nname = t.info[i].nname
      BY <2>2, <3>1, Zenon DEF SamePairs
    <3>3. \/ u.info[i].name = t.info[i].name
          \/ t.info[i].addr = m.src /\ u.info[i].name = my_name'[m.src]
      BY <2>1, <2>2, <2>3, <3>1, Zenon
    <3> QED BY <1>1, <3>1, <3>2, <3>3, Zenon
  <2>6. ASSUME NEW i \in 1 .. STAT_COUNT, i > u.count PROVE u.info[i].name = t.info[i].name
    <3>1. i \notin Rows(t)
      BY <1>3, <2>4, <2>6
    <3> QED BY <2>2, <2>3, <3>1, Zenon
  <2> QED BY <1>1, <2>4, <2>5, <2>6, Zenon
<1> QED BY <1>0, <1>5, <1>6, <1>7, <1>8, <1>9, Zenon

\* Every table has the right names after every step.
LEMMA RowsStep ==
    ASSUME Calm, Typed, BeaconInv, ProvInv, NamesInv, [Next]_vars, NEW b \in Boards
    PROVE  NamedRows(b)'
<1>0. /\ NamedRows(b) /\ table[b] \in Tables /\ Pairs(table[b], b)
      /\ Prov \in Boards /\ Prov \notin Beacons
  BY BoardFacts, Zenon DEF NamesInv, Typed, BeaconInv, ProvInv, Boards
<1>1. ASSUME NEW i \in Rows(table[b])
      PROVE  /\ table[b].info[i].addr \in Boards
             /\ table[b].info[i].name \in {NoName, my_name'[table[b].info[i].addr]}
             /\ NewNameOf(table[b].info[i].neigh, table[b].info[i].nname)
  <2> DEFINE r == table[b].info[i]
  <2>1. /\ r.addr \in Boards /\ r.neigh \in Boards
        /\ r.name \in {NoName, my_name[r.addr]} /\ IsNameOf(r.neigh, r.nname)
    BY <1>0, ZenonT(40) DEF NamedRows, Pairs
  <2> HIDE DEF r
  <2>2. r.name \in {NoName, my_name'[r.addr]}
    BY <2>1, NamesKept, Zenon
  <2>3. NewNameOf(r.neigh, r.nname)
    BY <2>1, NamesKept, Zenon
  <2> QED BY <2>1, <2>2, <2>3, ZenonT(40) DEF r
<1>2. ASSUME table'[b] = table[b],
             b = Prov => main.step # "count" \/ UNCHANGED main
      PROVE  NamedRows(b)'
  BY <1>0, <1>1, <1>2, Zenon DEF NamedRows, IsNameOf, NewNameOf
<1>3. ASSUME NEW m \in net, receive_message(m) PROVE NamedRows(b)'
  <2>1. CASE b = m.dst
    BY <1>3, <2>1, ReceiveRows, Zenon
  <2>2. CASE b # m.dst
    <3>1. table'[b] = table[b] /\ UNCHANGED main
      BY <1>3, <2>2, ReceiveFacts, Zenon DEF receive_message
    <3> QED BY <1>2, <3>1, Zenon
  <2> QED BY <2>1, <2>2, Zenon
<1>4. ASSUME NEW c \in Beacons, configure_node(c) PROVE NamedRows(b)'
  <2>1. table'[b] = table[b] /\ main.step # "count"
    BY <1>4, MainFacts, Zenon DEF configure_node
  <2> QED BY <1>2, <2>1, Zenon
<1>5. ASSUME NEW c \in Beacons, NEW i \in Rows(table[Prov]), SendR(c, i) PROVE NamedRows(b)'
  BY <1>2, <1>5, Zenon DEF SendR
<1>6. CASE UNCHANGED vars
  BY <1>2, <1>6, Zenon DEF vars
<1>7. CASE FillRecord
  <2>1. CASE b # Prov
    <3>1. table'[b] = table[b]
      BY <1>7, <2>1, FillFacts, Zenon DEF Boards
    <3> QED BY <1>2, <2>1, <3>1, Zenon
  <2>2. CASE b = Prov
    <3> DEFINE t == table[Prov]
    <3> DEFINE u == table'[Prov]
    <3>1. /\ main.step = "fill" /\ main'.step = "count" /\ main'.at = main.at
          /\ main.at = t.count + 1
      BY <1>7, MainFacts, Zenon DEF ProvInv, Filling
    <3>2. /\ t \in Tables /\ u \in Tables /\ u.count = t.count
          /\ \A i \in 1 .. STAT_COUNT : i # main.at => u.info[i] = t.info[i]
      BY <1>0, <1>7, <2>2, FillFacts, ZenonT(40)
    <3>3. /\ Rows(t) = {i \in 1 .. STAT_COUNT : i <= t.count} /\ t.count \in Nat
          /\ Rows(u) = {i \in 1 .. STAT_COUNT : i <= u.count}
      BY <3>2, TableFields, Zenon
    <3>4. \A i \in Rows(t) : /\ t.info[i].name \in {NoName, my_name'[t.info[i].addr]}
                             /\ NewNameOf(t.info[i].neigh, t.info[i].nname)
      BY <1>1, <2>2, Zenon
    <3>5. \A i \in 1 .. STAT_COUNT : i > t.count => t.info[i].name = NoName
      BY <1>0, <2>2, <3>1, Zenon DEF NamedRows
    <3> HIDE DEF t, u
    <3>6. \A i \in Rows(u) : i \in Rows(t) /\ u.info[i] = t.info[i]
      BY <3>1, <3>2, <3>3
    <3>7. \A i \in 1 .. STAT_COUNT : i > u.count => u.info[i].name = NoName \/ i = main'.at
      BY <3>1, <3>2, <3>5, Zenon
    <3> QED BY <2>2, <3>1, <3>4, <3>6, <3>7, Zenon DEF NamedRows, IsNameOf, NewNameOf, u
  <2> QED BY <2>1, <2>2, Zenon
<1>8. CASE CountRecord
  <2>1. CASE b # Prov
    <3>1. table'[b] = table[b]
      BY <1>8, <2>1, CountFacts, Zenon DEF Boards
    <3> QED BY <1>2, <2>1, <3>1, Zenon
  <2>2. CASE b = Prov
    <3> DEFINE t == table[Prov]
    <3> DEFINE u == table'[Prov]
    <3>1. /\ main.step = "count" /\ main'.step = "loop"
          /\ main.at = t.count + 1 /\ main.node \in Boards
          /\ main.at <= STAT_COUNT =>
               /\ t.info[main.at].addr = Prov /\ t.info[main.at].neigh = main.node
               /\ t.info[main.at].name = ProvName /\ t.info[main.at].nname = main.name
          /\ IsNameOf(main.node, main.name)
      BY <1>8, MainFacts, Zenon DEF ProvInv, Filling, NamesInv, FillName, Boards
    <3>2. t \in Tables /\ u \in Tables /\ u.count = t.count + 1 /\ u.info = t.info
      BY <1>0, <1>8, <2>2, CountFacts, Zenon
    <3>3. /\ Rows(t) = {i \in 1 .. STAT_COUNT : i <= t.count} /\ t.count \in Nat
          /\ Rows(u) = {i \in 1 .. STAT_COUNT : i <= u.count}
      BY <3>2, TableFields, Zenon
    <3>4. \A i \in Rows(t) : /\ t.info[i].name \in {NoName, my_name'[t.info[i].addr]}
                             /\ NewNameOf(t.info[i].neigh, t.info[i].nname)
      BY <1>1, <2>2, Zenon
    <3>5. \A i \in 1 .. STAT_COUNT : i > t.count => t.info[i].name = NoName \/ i = main.at
      BY <1>0, <2>2, <3>1, Zenon DEF NamedRows
    <3>6. my_name'[Prov] = ProvName /\ NewNameOf(main.node, main.name)
      BY <1>0, <3>1, NamesThere, NamesKept, Zenon
    <3> HIDE DEF t, u
    <3>a. /\ main.at = t.count + 1 /\ u.count = t.count + 1 /\ t.count \in Nat
          /\ u.info = t.info
      BY <3>1, <3>2, <3>3, Zenon
    <3>7. ASSUME NEW i \in Rows(u)
          PROVE  i \in Rows(t) \/ (i = main.at /\ main.at <= STAT_COUNT)
      <4>1. i \in 1 .. STAT_COUNT /\ i <= u.count
        BY <3>3, Zenon
      <4>2. CASE i <= t.count
        BY <3>3, <4>1, <4>2, Zenon
      <4>3. CASE ~(i <= t.count)
        BY <3>a, <4>1, <4>3
      <4> QED BY <4>2, <4>3, Zenon
    <3>8. ASSUME NEW i \in 1 .. STAT_COUNT, i > u.count PROVE u.info[i].name = NoName
      <4>1. i > t.count /\ i # main.at
        BY <3>a, <3>8
      <4> QED BY <3>5, <3>a, <4>1, Zenon
    <3>9. \A i \in Rows(u) : /\ u.info[i].name \in {NoName, my_name'[u.info[i].addr]}
                             /\ NewNameOf(u.info[i].neigh, u.info[i].nname)
      BY <3>1, <3>2, <3>4, <3>6, <3>7, Zenon
    <3> QED BY <2>2, <3>8, <3>9, Zenon DEF NamedRows, IsNameOf, NewNameOf, u
  <2> QED BY <2>1, <2>2, Zenon
<1> QED BY <1>3, <1>4, <1>5, <1>6, <1>7, <1>8, CalmNext, Zenon

\* A board says nothing before it has its name.
LEMMA SilentStep ==
    ASSUME Calm, Typed, BeaconInv, ProvInv, NamesInv, [Next]_vars
    PROVE  Silent'
<1>0. Silent /\ Beacons \subseteq Boards /\ Prov \in Boards /\ Prov \notin Beacons
      /\ \A b \in Boards : my_name'[b] = NoName => my_name[b] = NoName
  BY NamesKept, BoardFacts, Zenon DEF NamesInv
<1>1. ASSUME NEW m \in net, receive_message(m) PROVE Silent'
  <2> DEFINE me == m.dst
  <2> DEFINE u == Handled(table[me], me, m)
  <2>1. /\ m \in Message /\ me \in Boards /\ m.src \in Boards /\ u \in Tables
        /\ \A b \in Boards : table'[b] = IF b = me THEN u ELSE table[b]
        /\ UNCHANGED main /\ table[me] \in Tables
    BY <1>1, ReceiveFacts, Zenon DEF receive_message, Typed
  <2>2. ASSUME me \in Beacons, my_name'[me] = NoName PROVE u.count = 0
    <3>1. ~IsQ(m)
      BY <1>1, <2>1, <2>2, ReceiveNames, Zenon
    <3>2. m.code = "S"
      BY <1>0, <1>1, <2>1, <2>2, <3>1, ReceiveNames, Zenon
    <3>3. u.count = table[me].count
      BY <2>1, <3>2, OnSFacts DEF Handled, SamePairs
    <3> QED BY <1>0, <2>2, <3>3, Zenon DEF Silent
  <2>3. \A k \in net' :
          \/ k \in net
          \/ /\ k.src = me /\ Own(u, me) # {} /\ k.code # "R"
             /\ k.code \in {"T", "U"} => k.dst = m.src
    BY <1>1, ReceiveNames, ReceiveFacts
  <2>4. my_name'[m.src] # NoName
    BY <1>0, <2>1, NamesThere, Zenon
  <2>5. ASSUME NEW b \in Beacons, my_name'[b] = NoName
        PROVE  table'[b].count = 0 /\ \A k \in net' : k.src # b
    <3>1. table'[b].count = 0
      BY <1>0, <2>1, <2>2, <2>5 DEF Silent
    <3>2. b = me => Own(u, me) = {}
      <4> SUFFICES ASSUME b = me PROVE Rows(u) = {}
        BY Zenon DEF Own
      <4>1. u.count = 0
        BY <2>2, <2>5, Zenon
      <4> HIDE DEF u
      <4> QED BY <2>1, <4>1, TableFields
    <3> QED BY <1>0, <2>3, <2>5, <3>1, <3>2, Zenon DEF Silent
  <2>6. \A k \in net' : /\ k.code = "R" => k.dst \notin main'.todo
                        /\ k.code \in {"T", "U"} => my_name'[k.dst] # NoName
    <3> SUFFICES ASSUME NEW k \in net'
                 PROVE  /\ k.code = "R" => k.dst \notin main'.todo
                        /\ k.code \in {"T", "U"} => my_name'[k.dst] # NoName
      BY Zenon
    <3>1. CASE k \in net
      <4>1. k.dst \in Boards
        BY <3>1, MessageFields, Zenon DEF Typed
      <4> QED BY <1>0, <2>1, <3>1, <4>1, Zenon DEF Silent
    <3>2. CASE k \notin net
      BY <2>3, <2>4, <3>2, Zenon
    <3> QED BY <3>1, <3>2, Zenon
  <2> HIDE DEF me, u
  <2> QED BY <2>5, <2>6, Zenon DEF Silent
<1>2. ASSUME NEW b \in Beacons, configure_node(b) PROVE Silent'
  <2> DEFINE q0 == Msg(Prov, b, "Q", UNASSIGNED, table[Prov].count + 1)
  <2>1. /\ q0.src = Prov /\ q0.code = "Q"
        /\ \A k \in net' : k \in net \/ k = q0
        /\ UNCHANGED <<table, my_name>> /\ main'.todo \subseteq main.todo
    BY <1>2, SendNames, MainFacts, Zenon DEF configure_node
  <2> HIDE DEF q0
  <2> QED BY <1>0, <2>1 DEF Silent
<1>3. ASSUME NEW b \in Beacons, NEW i \in Rows(table[Prov]), SendR(b, i) PROVE Silent'
  <2>1. /\ \A k \in net' : \/ k \in net
                           \/ k.code = "R" /\ k.src = Prov /\ k.dst = b
    BY <1>3, SendNames, Zenon
  <2>2. b \notin main.todo /\ UNCHANGED <<table, my_name, main>>
    BY <1>3, Zenon DEF SendR, Configured
  <2> QED BY <1>0, <2>1, <2>2, Zenon DEF Silent
<1>4. CASE FillRecord \/ CountRecord
  <2>1. /\ \A b \in Beacons : table'[b] = table[b]
        /\ UNCHANGED <<my_name, net>> /\ main'.todo = main.todo
    BY <1>4, FillFacts, CountFacts, MainFacts, Zenon DEF FillRecord, CountRecord
  <2> QED BY <1>0, <2>1, Zenon DEF Silent
<1>5. CASE UNCHANGED vars
  BY <1>0, <1>5, Zenon DEF Silent, vars
<1> QED BY <1>1, <1>2, <1>3, <1>4, <1>5, CalmNext, Zenon

\* The record that configure_node fills keeps the name of its board.
LEMMA FillNameStep ==
    ASSUME Calm, Typed, BeaconInv, ProvInv, NamesInv, [Next]_vars
    PROVE  FillName'
<1>0. FillName /\ Filling /\ Prov \in Boards /\ Beacons \subseteq Boards
      /\ main.step \in {"loop", "fill", "count"} /\ table[Prov] \in Tables /\ main.at \in Nat
  BY BoardFacts, Zenon DEF NamesInv, ProvInv, Typed
<1>1. main.step # "loop" => main.node \in Boards /\ NewNameOf(main.node, main.name)
  BY <1>0, NamesKept, Zenon DEF FillName, Filling
<1>2. ASSUME UNCHANGED main,
             main.step = "count" /\ main.at <= STAT_COUNT =>
               /\ table'[Prov].info[main.at].name = table[Prov].info[main.at].name
               /\ table'[Prov].info[main.at].nname = table[Prov].info[main.at].nname
      PROVE  FillName'
  BY <1>0, <1>1, <1>2, Zenon DEF FillName, IsNameOf, NewNameOf
<1>3. ASSUME NEW m \in net, receive_message(m) PROVE FillName'
  <2>1. UNCHANGED main
    BY <1>3, Zenon DEF receive_message
  <2>2. CASE m.dst # Prov
    <3>1. table'[Prov] = table[Prov]
      BY <1>0, <1>3, <2>2, ReceiveFacts, Zenon
    <3> QED BY <1>2, <2>1, <3>1, Zenon
  <2>3. CASE m.dst = Prov /\ main.step = "count" /\ main.at <= STAT_COUNT
    <3> DEFINE t == table[Prov]
    <3> DEFINE u == Handled(t, Prov, m)
    <3>1. m \in Message /\ GoodMessage(m) /\ table'[Prov] = u
      BY <1>0, <1>3, <2>3, ReceiveFacts, Zenon DEF Typed
    <3>2. m.code \in {"S", "U"}
      BY <2>3, <3>1, MessageFields, Zenon DEF ProvInv, Quiet, Done, GoodMessage
    <3>3. t \in Tables /\ main.at = t.count + 1 /\ main.at \in 1 .. STAT_COUNT
      <4>1. t \in Tables /\ main.at = t.count + 1
        BY <1>0, <2>3, Zenon DEF Filling
      <4>2. t.count \in Nat
        BY <4>1, TableFields, Zenon
      <4> QED BY <2>3, <4>1, <4>2
    <3> HIDE DEF t
    <3>4. \A a : main.at \notin Own(t, a)
      BY <3>3, TableFields DEF Own
    <3>5. /\ u.info[main.at].name = t.info[main.at].name
          /\ u.info[main.at].nname = t.info[main.at].nname
      <4>1. CASE m.code = "S"
        BY <1>0, <3>1, <3>3, <3>4, <4>1, OnSNames DEF Handled
      <4>2. CASE m.code = "U"
        BY <1>0, <3>1, <3>3, <3>4, <4>2, OnUNames, Zenon DEF Handled
      <4> QED BY <3>2, <4>1, <4>2, Zenon
    <3> QED BY <1>2, <2>1, <3>1, <3>5, Zenon DEF t
  <2> QED BY <1>2, <2>1, <2>2, <2>3, Zenon
<1>4. ASSUME NEW b \in Beacons, configure_node(b) PROVE FillName'
  <2> DEFINE rc == table[Prov].count + 1
  <2> DEFINE q0 == Msg(Prov, b, "Q", UNASSIGNED, rc)
  <2>1. /\ main'.step = "fill" /\ main'.node = b /\ main'.name = rc
        /\ b \in main.todo /\ UNCHANGED my_name
    BY <1>4, MainFacts, Zenon DEF configure_node
  <2>2. q0 \in net' /\ IsQ(q0) /\ q0.dst = b /\ q0.name = rc
    BY <1>4, SendNames, Zenon
  <2>3. my_name[b] = NoName
    BY <2>1, Zenon DEF NamesInv, Naming
  <2> HIDE DEF rc, q0
  <2>4. NewNameOf(b, rc)
    BY <2>1, <2>2, <2>3, Zenon DEF NewNameOf, NameIn
  <2> QED BY <2>1, <2>4, Zenon DEF FillName, IsNameOf, NewNameOf
<1>5. ASSUME NEW b \in Beacons, NEW i \in Rows(table[Prov]), SendR(b, i) PROVE FillName'
  BY <1>2, <1>5, Zenon DEF SendR
<1>6. CASE FillRecord
  <2>1. /\ main.step = "fill" /\ main'.step = "count" /\ main'.at = main.at
        /\ main'.node = main.node /\ main'.name = main.name
    BY <1>6, MainFacts, Zenon
  <2>2. main.at \in 1 .. STAT_COUNT =>
          /\ table'[Prov].info[main.at].name = ProvName
          /\ table'[Prov].info[main.at].nname = main.name
    BY <1>6, FillFacts, Zenon
  <2>3. main.at <= STAT_COUNT => main.at \in 1 .. STAT_COUNT
    BY <1>0, <2>1, TableFields DEF Filling
  <2> QED BY <1>1, <2>1, <2>2, <2>3, Zenon DEF FillName, IsNameOf, NewNameOf
<1>7. CASE CountRecord
  <2>1. main'.step = "loop"
    BY <1>7, MainFacts, Zenon
  <2> QED BY <2>1, Zenon DEF FillName
<1>8. CASE UNCHANGED vars
  BY <1>2, <1>8, Zenon DEF vars
<1> QED BY <1>3, <1>4, <1>5, <1>6, <1>7, <1>8, CalmNext, Zenon

\* Every message says the right names.
LEMMA NamedStep ==
    ASSUME Calm, Typed, BeaconInv, ProvInv, NamesInv, [Next]_vars, NEW k \in net'
    PROVE  Named(k)'
<1>0. Prov \in Boards /\ table[Prov] \in Tables /\ Pairs(table[Prov], Prov) /\ NamedRows(Prov)
  BY BoardFacts, Zenon DEF NamesInv, ProvInv, Typed
<1>1. ASSUME k \in net PROVE Named(k)'
  <2>1. Named(k) /\ GoodMessage(k) /\ k.src \in Boards /\ my_name[k.src] # NoName
    BY <1>1, NamesThere, Zenon DEF NamesInv, BeaconInv, Messages
  <2>2. k.code \in {"R", "T"} => k.about \in Boards
    BY <2>1, BoardFacts, Zenon DEF GoodMessage
  <2>3. k.code \in {"S", "U"} => k.name = my_name'[k.src]
    BY <2>1, NamesKept, Zenon DEF Named
  <2>4. k.code \in {"R", "T"} => NewNameOf(k.about, k.name)
    BY <2>1, <2>2, NamesKept, Zenon DEF Named
  <2> QED BY <2>3, <2>4, Zenon DEF Named, IsNameOf, NewNameOf
<1>2. ASSUME NEW m \in net, receive_message(m), k \notin net PROVE Named(k)'
  <2> DEFINE me == m.dst
  <2> DEFINE u == Handled(table[me], me, m)
  <2>1. /\ k.src = me /\ k.code # "R"
        /\ k.code \in {"S", "U"} => k.name = my_name'[me]
        /\ k.code = "T" => \E i \in Own(u, me) : /\ k.about = u.info[i].neigh
                                                 /\ k.name = u.info[i].nname
    <3>1. /\ k.src = me
          /\ k.code \in {"S", "U"} => k.name = my_name'[me]
          /\ k.code = "T" => \E i \in Own(u, me) : /\ k.about = u.info[i].neigh
                                                   /\ k.name = u.info[i].nname
      BY <1>2, ReceiveNames, Zenon
    <3>2. k.code \in {"S", "T", "U"}
      BY <1>2, ReceiveFacts, Zenon
    <3> HIDE DEF me, u
    <3> QED BY <3>1, <3>2, Zenon
  <2>2. table'[me] = u
    BY <1>2, ReceiveFacts, Zenon
  <2>3. \A i \in Rows(u) : NewNameOf(u.info[i].neigh, u.info[i].nname)
    BY <1>2, <2>2, ReceiveRows, Zenon DEF NamedRows, IsNameOf, NewNameOf
  <2> HIDE DEF me, u
  <2>4. k.code = "T" => NewNameOf(k.about, k.name)
    BY <2>1, <2>3, Zenon DEF Own
  <2> QED BY <2>1, <2>4, Zenon DEF Named, IsNameOf, NewNameOf
<1>3. ASSUME NEW b \in Beacons, configure_node(b), k \notin net PROVE Named(k)'
  <2>1. k.code = "Q"
    BY <1>3, SendNames, Zenon
  <2> QED BY <2>1, Zenon DEF Named
<1>4. ASSUME NEW b \in Beacons, NEW i \in Rows(table[Prov]), SendR(b, i), k \notin net
      PROVE  Named(k)'
  <2> DEFINE r == table[Prov].info[i]
  <2>1. k.code = "R" /\ k.about = r.neigh /\ k.name = r.nname
    <3>1. \A q \in net' : q \in net \/ (q.code = "R" /\ q.about = r.neigh /\ q.name = r.nname)
      BY <1>4, SendNames, ZenonT(40)
    <3> QED BY <1>4, <3>1, Zenon
  <2>2. r.neigh \in Boards /\ IsNameOf(r.neigh, r.nname)
    BY <1>0, Zenon DEF Pairs, NamedRows
  <2> HIDE DEF r
  <2>3. NewNameOf(k.about, k.name)
    BY <2>1, <2>2, NamesKept, Zenon
  <2> QED BY <2>1, <2>3, Zenon DEF Named, IsNameOf, NewNameOf
<1>5. ASSUME FillRecord \/ CountRecord \/ UNCHANGED vars, k \notin net PROVE FALSE
  BY <1>5, Zenon DEF FillRecord, CountRecord, vars
<1> QED BY <1>1, <1>2, <1>3, <1>4, <1>5, CalmNext, Zenon

\* Nothing is named when the boards start.
LEMMA NamesInit ==
    ASSUME Init
    PROVE  NamesInv
<1>1. /\ \A b \in Boards : table[b] = EmptyTable
      /\ \A b \in Boards : my_name[b] = IF b = Prov THEN ProvName ELSE NoName
      /\ net = {} /\ main.step = "loop" /\ main.todo = Beacons
      /\ Beacons \subseteq Boards /\ Prov \in Boards /\ Prov \notin Beacons
  BY BoardFacts, Zenon DEF Init
<1>2. /\ EmptyTable.count = 0 /\ Rows(EmptyTable) = {}
      /\ \A i \in 1 .. STAT_COUNT : EmptyTable.info[i].name = NoName
  BY EmptyFacts, TableFields, Zenon DEF EmptyTable, EmptyRecord
<1>3. Naming
  BY <1>1 DEF Naming, NoName
<1>4. Silent
  BY <1>1, <1>2, Zenon DEF Silent
<1>5. \A b \in Boards : NamedRows(b)
  BY <1>1, <1>2, Zenon DEF NamedRows
<1> QED BY <1>1, <1>3, <1>4, <1>5, Zenon DEF NamesInv, FillName

\* NamesAgree: when nothing is lost and no board restarts, every board shows for a
\* board the name that configure_node gave it, or none yet, and never rubbish.
THEOREM SameNames ==
    ASSUME TwoBeacons, Calm
    PROVE  Spec => []NamesAgree
<1>1. Typed /\ BeaconInv /\ ProvInv /\ NamesInv /\ [Next]_vars => NamesInv'
  BY NamingStep, SilentStep, FillNameStep, NamedStep, RowsStep, Zenon DEF NamesInv
<1>2. Typed /\ BeaconInv /\ ProvInv /\ NamesInv => NamesAgree
  <2> SUFFICES ASSUME Typed, BeaconInv, ProvInv, NamesInv, NEW b \in Boards,
                      NEW i \in Rows(table[b])
               PROVE  LET r == table[b].info[i] IN
                      /\ r.name \in {NoName, NameOf(r.addr)}
                      /\ my_name[r.neigh] # NoName => r.nname = NameOf(r.neigh)
                      /\ r.nname # Garbage
    BY Zenon DEF NamesAgree
  <2> DEFINE r == table[b].info[i]
  <2>1. r.addr \in Boards /\ r.neigh \in Boards
    BY Zenon DEF Pairs, BeaconInv, ProvInv, Boards
  <2>2. r.name \in {NoName, my_name[r.addr]} /\ IsNameOf(r.neigh, r.nname)
    BY Zenon DEF NamesInv, NamedRows
  <2> HIDE DEF r
  <2>3. \A c \in Boards : NameOf(c) = my_name[c]
    BY NamesThere, Zenon DEF NameOf
  <2>4. my_name[r.neigh] # NoName => r.nname = my_name[r.neigh]
    BY <2>2, Zenon DEF IsNameOf, NameIn
  <2>5. r.nname = ProvName \/ r.nname \in Nat
    BY <2>1, <2>2, Zenon DEF IsNameOf, NameIn, NamesInv, Naming, Boards
  <2>6. r.nname # Garbage
    BY <2>5 DEF Garbage, ProvName
  <2> QED BY <2>1, <2>2, <2>3, <2>4, <2>6, Zenon DEF r
<1>3. Init => NamesInv
  BY NamesInit, Zenon
<1> QED BY <1>1, <1>2, <1>3, ProvHolds, PTL DEF Spec

-----------------------------------------------------------------------------
(* The theorems.  Only what follows counts elements, with the facts of the  *)
(* library about finite sets.                                              *)

INSTANCE FiniteSetTheorems

\* What NoPairTwice says of one table.
NoPairTwiceIn(t) ==
    /\ \A i \in Rows(t) : Cardinality(Pair(t.info[i])) = 2
    /\ \A i, j \in Rows(t) : Pair(t.info[i]) = Pair(t.info[j]) => i = j

\* A set of two different elements has two.
LEMMA TwoElements ==
    ASSUME NEW a, NEW b, a # b
    PROVE  IsFiniteSet({a, b}) /\ Cardinality({a, b}) = 2
<1>1. IsFiniteSet({a}) /\ Cardinality({a}) = 1
  BY FS_Singleton, Zenon
<1>2. {a, b} = {a} \cup {b} /\ b \notin {a}
  BY Zenon
<1>3. IsFiniteSet({a} \cup {b}) /\ Cardinality({a} \cup {b}) = Cardinality({a}) + 1
  BY <1>1, <1>2, FS_AddElement, ZenonT(40)
<1> QED BY <1>1, <1>2, <1>3

\* The pairs in an order are the pairs as sets.
LEMMA PairsAreSets ==
    ASSUME NEW t \in Tables, NEW me \in Boards, Pairs(t, me)
    PROVE  NoPairTwiceIn(t)
<1>1. ASSUME NEW i \in Rows(t) PROVE Cardinality(Pair(t.info[i])) = 2
  <2>1. t.info[i].addr # t.info[i].neigh
    BY Zenon DEF Pairs
  <2> QED BY <2>1, TwoElements, Zenon DEF Pair
<1>2. ASSUME NEW i \in Rows(t), NEW j \in Rows(t), Pair(t.info[i]) = Pair(t.info[j])
      PROVE  i = j
  BY <1>2, Zenon DEF Pairs, Pair
<1> QED BY <1>1, <1>2 DEF NoPairTwiceIn

\* However many boards there are, a beacon board has no pair of boards twice in
\* its table and none of a board with itself, whatever receive_message is given in
\* whatever order, with names that are lost and boards that restart.
THEOREM BeaconTables == Spec => [](\A b \in Beacons : NoPairTwiceIn(table[b]))
<1>1. Typed /\ BeaconInv => \A b \in Beacons : NoPairTwiceIn(table[b])
  BY PairsAreSets, BoardFacts, Zenon DEF Typed, BeaconInv
<1> QED BY <1>1, BeaconHolds, PTL

\* With the two beacon boards that the database of the provisioner takes, no board
\* has a pair twice in its table, the provisioner included: configure_node, which
\* receive_message preempts, and receive_message never write the same record.
THEOREM NoPairTwiceAnywhere ==
    ASSUME TwoBeacons
    PROVE  Spec => []NoPairTwice
<1>1. Typed /\ BeaconInv /\ ProvInv => NoPairTwice
  <2> SUFFICES ASSUME Typed, BeaconInv, ProvInv, NEW b \in Boards
               PROVE  NoPairTwiceIn(table[b])
    BY Zenon DEF NoPairTwice, NoPairTwiceIn
  <2>1. table[b] \in Tables /\ Pairs(table[b], b)
    BY Zenon DEF Typed, BeaconInv, ProvInv, Boards
  <2> QED BY <2>1, PairsAreSets, Zenon
<1> QED BY <1>1, ProvHolds, PTL

-----------------------------------------------------------------------------
(* The end of the table.                                                   *)

\* node_info is long enough for every pair of boards.
LongEnough == Cardinality(AllPairs) <= STAT_COUNT

\* There are finitely many pairs.
LEMMA FinitePairs == IsFiniteSet(AllPairs) /\ Cardinality(AllPairs) \in Nat
<1>1. IsFiniteSet(Boards)
  <2>1. Boards \in SUBSET Nat /\ 15 \in Nat /\ \A b \in Boards : b <= 15
    BY BoardFacts
  <2> QED BY <2>1, FS_BoundedSetOfNaturals, Zenon
<1>2. IsFiniteSet(SUBSET Boards)
  BY <1>1, FS_SUBSET, Zenon
<1>3. AllPairs \in SUBSET (SUBSET Boards)
  BY Zenon DEF AllPairs
<1>4. IsFiniteSet(AllPairs)
  BY <1>2, <1>3, FS_Subset, Zenon
<1> QED BY <1>4, FS_CardinalityType, Zenon

\* A table without a pair has room for it: the records are different pairs, so
\* there are fewer of them than pairs.
LEMMA Room ==
    ASSUME LongEnough, NEW t \in Tables, NEW me \in Boards, Pairs(t, me),
           t.count <= STAT_COUNT,
           NEW a \in Boards, NEW n \in Boards, a # n, NewPair(t, a, n)
    PROVE  t.count + 1 <= STAT_COUNT
<1> DEFINE S == AllPairs \ {{a, n}}
<1> DEFINE f == [i \in 1 .. t.count |-> Pair(t.info[i])]
<1>1. t.count \in Nat /\ STAT_COUNT \in Nat /\ Rows(t) = 1 .. t.count
  <2>1. /\ t.count \in Nat /\ STAT_COUNT \in Nat
        /\ Rows(t) = {i \in 1 .. STAT_COUNT : i <= t.count}
    BY TableFields, BoardFacts, Zenon
  <2> QED BY <2>1
<1>2. {a, n} \in AllPairs
  BY TwoElements, Zenon DEF AllPairs
<1>3. IsFiniteSet(S) /\ Cardinality(S) = Cardinality(AllPairs) - 1
  BY <1>2, FinitePairs, FS_RemoveElement, ZenonT(40)
<1>4. ASSUME NEW i \in 1 .. t.count PROVE Pair(t.info[i]) \in S
  <2>1. /\ t.info[i].addr \in Boards /\ t.info[i].neigh \in Boards
        /\ t.info[i].addr # t.info[i].neigh
    BY <1>1, Zenon DEF Pairs
  <2>2. Pair(t.info[i]) \in AllPairs
    BY <2>1, TwoElements, Zenon DEF AllPairs, Pair
  <2>3. Pair(t.info[i]) # {a, n}
    BY <1>1, Zenon DEF NewPair, Pair
  <2> QED BY <2>2, <2>3
<1>5. f \in [1 .. t.count -> S]
  BY <1>4, Zenon
<1>6. ASSUME NEW i \in 1 .. t.count, NEW j \in 1 .. t.count, i # j
      PROVE  f[i] # f[j]
  <2>1. i \in Rows(t) /\ j \in Rows(t)
    BY <1>1, Zenon
  <2>2. f[i] = {t.info[i].addr, t.info[i].neigh} /\ f[j] = {t.info[j].addr, t.info[j].neigh}
    BY Zenon DEF Pair
  <2> QED BY <1>6, <2>1, <2>2, ZenonT(40) DEF Pairs
<1>7. IsFiniteSet(1 .. t.count) /\ Cardinality(1 .. t.count) = t.count
  BY <1>1, FS_Interval
<1> HIDE DEF f, S
<1>8. ~(Cardinality(S) < Cardinality(1 .. t.count))
  <2> SUFFICES ASSUME Cardinality(S) < Cardinality(1 .. t.count) PROVE FALSE
    BY Zenon
  <2> DEFINE D == 1 .. t.count
  <2>1. IsFiniteSet(D) /\ f \in [D -> S] /\ Cardinality(S) < Cardinality(D)
    BY <1>5, <1>7, Zenon
  <2> HIDE DEF D
  <2>2. \E x, y \in D : x # y /\ f[x] = f[y]
    BY <1>3, <2>1, FS_PigeonHole, Zenon
  <2> QED BY <1>6, <2>2, Zenon DEF D
<1> DEFINE k == Cardinality(AllPairs)
<1>9. /\ k \in Nat /\ k <= STAT_COUNT /\ t.count \in Nat /\ STAT_COUNT \in Nat
      /\ ~(k - 1 < t.count)
  BY <1>1, <1>3, <1>7, <1>8, FinitePairs, Zenon DEF LongEnough
<1> HIDE DEF k
<1> QED BY <1>9

\* receive_message does not write behind the end.
LEMMA ReceiveRoom ==
    ASSUME LongEnough, Typed, BeaconInv, NEW m \in net, receive_message(m),
           Pairs(table[m.dst], m.dst), table[m.dst].count <= STAT_COUNT
    PROVE  table'[m.dst].count <= STAT_COUNT
<1> DEFINE me == m.dst
<1> DEFINE t == table[me]
<1> DEFINE u == Handled(t, me, m)
<1>1. /\ m \in Message /\ GoodMessage(m) /\ me \in Boards /\ t \in Tables
      /\ table'[me] = u /\ m.src \in Boards /\ m.src # me
      /\ m.code \in {"Q", "R", "S", "T", "U"}
  BY ReceiveFacts, MessageFields, Zenon DEF Typed
<1>2. Pairs(t, me) /\ t.count <= STAT_COUNT
  BY Zenon
<1> HIDE DEF t, me
<1>3. CASE m.code = "Q"
  <2> DEFINE e == [t EXCEPT !.count = 0]
  <2>1. e.count = 0 /\ OneMore(e, u, me, m.src)
    BY <1>1, <1>3, OnQFacts, Zenon DEF Handled
  <2> HIDE DEF e, u
  <2>2. u.count = 1
    BY <2>1 DEF OneMore
  <2>3. 1 <= STAT_COUNT
    BY BoardFacts, Zenon
  <2>4. table'[me].count = 1
    BY <1>1, <2>2, Zenon
  <2> QED BY <2>3, <2>4, Zenon DEF me
<1>4. CASE m.code = "R"
  <2>1. \/ u = t
        \/ /\ OneMore(t, u, me, m.about)
           /\ m.about \in Boards \ {me}
           /\ \A i \in Own(t, me) : t.info[i].neigh # m.about
    BY <1>1, <1>4, OnRFacts DEF Handled
  <2> HIDE DEF u
  <2>2. CASE u # t
    <3>1. NewPair(t, me, m.about)
      BY <1>2, <2>1, <2>2, ZenonT(40) DEF Pairs, NewPair, Own
    <3>2. t.count + 1 <= STAT_COUNT
      BY <1>1, <1>2, <2>1, <2>2, <3>1, Room, ZenonT(40)
    <3> QED BY <1>1, <2>1, <2>2, <3>2, Zenon DEF OneMore, me
  <2> QED BY <1>1, <1>2, <2>2, Zenon DEF me
<1>5. CASE m.code = "S"
  <2>1. SamePairs(t, u)
    BY <1>1, <1>5, OnSFacts DEF Handled
  <2> QED BY <1>1, <1>2, <2>1, Zenon DEF SamePairs, me
<1>6. CASE m.code = "T"
  <2>1. m.about # me /\ m.about # m.src
    BY <1>6, <1>1, Zenon DEF GoodMessage, me
  <2>2. \/ u = t
        \/ /\ OneMore(t, u, m.src, m.about)
           /\ m.about \in Boards
           /\ NewPair(t, m.src, m.about)
    BY <1>1, <1>6, <2>1, OnTFacts, Zenon DEF Handled
  <2> HIDE DEF u
  <2>3. CASE u # t
    <3>1. t.count + 1 <= STAT_COUNT
      BY <1>1, <1>2, <2>1, <2>2, <2>3, Room, Zenon
    <3> QED BY <1>1, <2>2, <2>3, <3>1, Zenon DEF OneMore, me
  <2> QED BY <1>1, <1>2, <2>3, Zenon DEF me
<1>7. CASE m.code = "U"
  <2>1. SamePairs(t, u)
    BY <1>1, <1>7, OnUFacts DEF Handled
  <2> QED BY <1>1, <1>2, <2>1, Zenon DEF SamePairs, me
<1> QED BY <1>1, <1>3, <1>4, <1>5, <1>6, <1>7, Zenon

\* For any number of boards, no beacon board writes behind the end of node_info:
\* it is never asked for a record that the array has no place for, as long as the
\* array is as long as there are pairs.
THEOREM BeaconBound ==
    ASSUME LongEnough
    PROVE  Spec => [](\A b \in Beacons : table[b].count <= STAT_COUNT)
<1> DEFINE Bound == \A b \in Beacons : table[b].count <= STAT_COUNT
<1>1. Init => Bound
  BY EmptyFacts, BoardFacts DEF Init
<1>2. Typed /\ BeaconInv /\ Bound /\ [Next]_vars => Bound'
  <2> SUFFICES ASSUME Typed, BeaconInv, Bound, [Next]_vars PROVE Bound'
    BY Zenon
  <2>1. ASSUME NEW m \in net, receive_message(m) PROVE Bound'
    <3> SUFFICES ASSUME NEW b \in Beacons PROVE table'[b].count <= STAT_COUNT
      BY Zenon
    <3>1. CASE b = m.dst
      BY <2>1, <3>1, ReceiveRoom, Zenon DEF BeaconInv
    <3>2. CASE b # m.dst
      BY <2>1, <3>2, ReceiveFacts, BoardFacts, Zenon
    <3> QED BY <3>1, <3>2, Zenon
  <2>2. ASSUME NEW c \in Beacons, RestartBeacon(c) PROVE Bound'
    BY <2>2, EmptyFacts, BoardFacts DEF RestartBeacon, Typed
  <2>3. CASE RestartProv
    BY <2>3, BoardFacts, Zenon DEF RestartProv, Typed
  <2>4. CASE Main
    BY <2>4, FillFacts, CountFacts, Zenon DEF Main, configure_node, SendR
  <2>5. CASE UNCHANGED vars
    BY <2>5, Zenon DEF vars
  <2> QED BY <2>1, <2>2, <2>3, <2>4, <2>5, Zenon DEF Next
<1> QED BY <1>1, <1>2, BeaconHolds, PTL DEF Spec

\* Nor does the provisioner: the record that main fills is of a pair that the
\* table does not have.
LEMMA BoundedStep ==
    ASSUME TwoBeacons, LongEnough, Typed, BeaconInv, ProvInv, Bounded, [Next]_vars
    PROVE  Bounded'
<1>0. \A b \in Boards : Pairs(table[b], b)
  BY Zenon DEF BeaconInv, ProvInv, Boards
<1>1. ASSUME NEW m \in net, receive_message(m) PROVE Bounded'
  <2> SUFFICES ASSUME NEW b \in Boards PROVE table'[b].count <= STAT_COUNT
    BY Zenon DEF Bounded
  <2>1. CASE b = m.dst
    BY <1>0, <1>1, <2>1, ReceiveRoom, Zenon DEF Bounded
  <2>2. CASE b # m.dst
    BY <1>1, <2>2, ReceiveFacts, ZenonT(40) DEF Bounded
  <2> QED BY <2>1, <2>2, Zenon
<1>2. CASE \E b \in Beacons : configure_node(b)
  BY <1>2, Zenon DEF configure_node, Bounded
<1>3. CASE FillRecord
  BY <1>3, FillFacts, Zenon DEF Bounded, Boards
<1>4. CASE CountRecord
  <2> DEFINE t == table[Prov]
  <2>1. /\ t \in Tables /\ Pairs(t, Prov) /\ t.count <= STAT_COUNT /\ Prov \in Boards
        /\ main.node \in Boards /\ Prov # main.node
        /\ \A i \in Own(t, Prov) : t.info[i].neigh # main.node
    BY <1>0, <1>4, MainFacts, BoardFacts, ZenonT(40) DEF Typed, Bounded, ProvInv, Filling
  <2> HIDE DEF t
  <2>2. NewPair(t, Prov, main.node)
    BY <2>1, Zenon DEF NewPair, Pairs, Own
  <2>3. t.count + 1 <= STAT_COUNT
    BY <2>1, <2>2, Room, Zenon
  <2> QED BY <1>4, <2>3, CountFacts, Zenon DEF Bounded, Boards, t
<1>5. CASE \E b \in Beacons, i \in Rows(table[Prov]) : SendR(b, i)
  BY <1>5, Zenon DEF SendR, Bounded
<1>6. ASSUME NEW c \in Beacons, RestartBeacon(c) PROVE Bounded'
  BY <1>6, EmptyFacts, BoardFacts DEF RestartBeacon, Typed, Bounded
<1>7. CASE RestartProv
  BY <1>7, EmptyFacts, BoardFacts DEF RestartProv, Typed, Bounded
<1>8. CASE UNCHANGED vars
  BY <1>8, Zenon DEF vars, Bounded
<1> QED BY <1>1, <1>2, <1>3, <1>4, <1>5, <1>6, <1>7, <1>8, ZenonT(40) DEF Next, Main

\* All counts start at zero.
LEMMA BoundedInit == Init => Bounded
BY EmptyFacts, BoardFacts DEF Init, Bounded

\* The types, with the bound: with two beacon boards and a node_info that is long
\* enough for the pairs, no board writes behind its end, although neither
\* configure_node nor receive_message compares record_count with STAT_COUNT.
THEOREM TypeCorrect ==
    ASSUME TwoBeacons, LongEnough
    PROVE  Spec => []TypeOK
<1>1. Typed /\ BeaconInv /\ ProvInv /\ Bounded /\ [Next]_vars => Bounded'
  BY BoundedStep, Zenon
<1>2. Typed /\ Bounded => TypeOK
  <2> SUFFICES ASSUME Typed, Bounded PROVE table \in [Boards -> Table]
    BY Zenon DEF Typed, TypeOK
  <2>1. ASSUME NEW b \in Boards PROVE table[b] \in Table
    <3>1. /\ table[b] \in Tables /\ table[b].count \in Nat
          /\ table[b].count <= STAT_COUNT /\ STAT_COUNT \in Nat
      BY TableFields, BoardFacts, Zenon DEF Typed, Bounded
    <3> QED BY <3>1 DEF Tables, Table
  <2> QED BY <2>1, Zenon DEF Typed
<1> QED BY <1>1, <1>2, ProvHolds, BoundedInit, PTL DEF Spec

\* While the provisioner does not restart, every board that it has configured has
\* an own record: receive_message, which may run between the address of the record
\* and its count, neither takes that record nor leaves it uncounted.
THEOREM ConfiguredAreListed ==
    ASSUME TwoBeacons, LongEnough, Prov \notin RESTARTS
    PROVE  Spec => []ConfiguredListed
<1>1. Init => Listed
  BY DEF Init, Listed, Configured
<1>2. Typed /\ BeaconInv /\ ProvInv /\ Bounded /\ [Next]_vars => Bounded'
  BY BoundedStep, Zenon
<1>3. Typed /\ BeaconInv /\ ProvInv /\ Bounded' /\ Listed /\ [Next]_vars => Listed'
  BY ListedStep, Zenon
<1>4. Listed => ConfiguredListed
  BY Zenon DEF Listed, ConfiguredListed
<1> QED BY <1>1, <1>2, <1>3, <1>4, ProvHolds, BoundedInit, PTL DEF Spec

=============================================================================

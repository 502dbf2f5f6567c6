---------------------------- MODULE AddressPool ----------------------------
(***************************************************************************)
(* What the node table promises the provisioner, without slots, scans or   *)
(* stale fields: a set of grants, each a range of unicast addresses owned  *)
(* by one device, no address ever in two grants.  CDB implements it.       *)
(***************************************************************************)
EXTENDS Integers

CONSTANTS UNICAST_MAX, Uuids

VARIABLE grants

Range(g) == g.first .. g.last

Grant == [uuid : Uuids, first : 1 .. UNICAST_MAX, last : 1 .. UNICAST_MAX]

Init == grants = {}

\* A device is granted a non-empty range nobody holds an address of.
Assign ==
    \E g \in Grant :
        /\ g.first <= g.last
        /\ \A h \in grants : Range(g) \cap Range(h) = {}
        /\ grants' = grants \cup {g}

\* One grant is given back.
Release == \E g \in grants : grants' = grants \ {g}

\* All of them are.
Reset == grants' = {}

Next == Assign \/ Release \/ Reset

Spec == Init /\ [][Next]_grants

=============================================================================

----------------------------- MODULE PduChannel -----------------------------
(***************************************************************************)
(* What a provisioning link promises its two ends: on each link the PDUs   *)
(* of one end reach the other in the order they were sent, each once.      *)
(* This is the channel that module Provisioning assumes.                   *)
(***************************************************************************)
EXTENDS Sequences, Naturals

CONSTANTS Ends, Pdus

VARIABLES
    sent,   \* PDUs that each end has sent on the link
    got     \* PDUs that each end was handed on the link

channel == <<sent, got>>

Other(e) == CHOOSE f \in Ends : f # e

Init ==
    /\ sent = [e \in Ends |-> <<>>]
    /\ got = [e \in Ends |-> <<>>]

\* The next PDU from the other end, if there is one.
Handed(e) ==
    {got[e]} \cup
    IF Len(got[e]) < Len(sent[Other(e)])
    THEN {Append(got[e], sent[Other(e)][Len(got[e]) + 1])} ELSE {}

\* An end is handed at most one PDU, and sends at most one.
Exchange(e) ==
    /\ \E g \in Handed(e) : got' = [got EXCEPT ![e] = g]
    /\ \E s \in {sent[e]} \cup {Append(sent[e], p) : p \in Pdus} :
         sent' = [sent EXCEPT ![e] = s]

\* A new link starts empty.
Reopen ==
    /\ sent' = [e \in Ends |-> <<>>]
    /\ got' = [e \in Ends |-> <<>>]

Next == Reopen \/ \E e \in Ends : Exchange(e)

Spec == Init /\ [][Next]_channel
=============================================================================
